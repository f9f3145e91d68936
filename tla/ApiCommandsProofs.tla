------------------------- MODULE ApiCommandsProofs -------------------------
(***************************************************************************)
(* Theorems about the commands of the application layer, for any number of *)
(* commands and workers in flight, any requests and any records they may   *)
(* bring.                                                                  *)
(*                                                                         *)
(* Each part has an invariant of its own, in a section of its own, and is  *)
(* shown to keep it in whatever it does; the last section puts the parts   *)
(* together.  The argument is nearly the same everywhere.  What a command  *)
(* holds between its read and its write is a state that its record was in; *)
(* the record has gone on from there, and its revision tells how far, so   *)
(* that the copy whose revision is the stored one is the record itself.  A *)
(* write that is let through then makes the next of the stored record, and *)
(* what was answered before stays behind it.                               *)
(***************************************************************************)
EXTENDS ApiCommands, Sequences, SequenceTheorems, TLAPS

(***************************************************************************)
(* The enrollment of a Gateway.                                            *)
(***************************************************************************)

\* The revision says how far a row is, and what lies ahead of it is empty.
GatewayIsInOrder(row) ==
    /\ row.revision = [state \in {"registered", "awaiting-claim", "claimed"} |->
                         IF state = "registered" THEN 1
                         ELSE IF state = "awaiting-claim" THEN 2 ELSE 3][row.state]
    /\ row.revision < 2 => row.done["issue"] = None /\ row.token = None
    /\ row.revision < 3 => row.done["claim"] = None

\* A command that is about to write has read the row that its transition is for, and
\* its copy is the stored row or of an earlier revision.
EnrollmentCopy(call) ==
    /\ call.command.kind = "register" => call.read = None
    /\ call.command.kind = "issue" =>
         call.read # None /\ call.read.state = "registered" /\ call.token \in Enrollment!Tokens
    /\ call.command.kind = "claim" => call.read # None /\ call.read.state = "awaiting-claim"
    /\ call.read # None =>
         /\ gateway # None
         /\ call.read = gateway \/ call.read.revision < gateway.revision

EnrollmentCopies ==
    \A c \in EnrollmentCalls :
       enrolling[c] # None /\ enrolling[c].stage = "write" => EnrollmentCopy(enrolling[c])

EnrollmentInv ==
    /\ Enrollment!TypeOK
    /\ gateway # None => GatewayIsInOrder(gateway)
    /\ EnrollmentCopies
    /\ Enrollment!OneEnrollment

----------------------------------------------------------------------------
LEMMA EnrollmentInit == ASSUME Enrollment!Init PROVE EnrollmentInv
<1>1. Enrollment!TypeOK
  BY CommandsAssumption
  DEF Enrollment!EnrollmentAssumption, Enrollment!Init, Enrollment!TypeOK, Enrollment!Time
<1> QED
  BY <1>1 DEF Enrollment!Init, EnrollmentInv, EnrollmentCopies, Enrollment!OneEnrollment

\* What a step may do to the calls without an effect on the rest.
LEMMA EnrollmentIdles ==
    ASSUME EnrollmentInv, now' \in Enrollment!Time, UNCHANGED <<gateway, enrolled>>,
           issues' \in [Services -> [Enrollment!CommandRequests -> Enrollment!Issue \cup {None}]],
           minted' \in 0..MaxToken,
           enrolling' \in [EnrollmentCalls -> Enrollment!Call \cup {None}],
           \A c \in EnrollmentCalls : enrolling'[c] = enrolling[c] \/ enrolling'[c] = None
                            \/ (enrolling'[c].stage = "write" => EnrollmentCopy(enrolling'[c]))
    PROVE  EnrollmentInv'
<1>1. Enrollment!TypeOK'
  BY DEF EnrollmentInv, Enrollment!TypeOK
<1>2. EnrollmentCopies'
  BY DEF EnrollmentInv, EnrollmentCopies, EnrollmentCopy
<1>3. (gateway' # None => GatewayIsInOrder(gateway)') /\ Enrollment!OneEnrollment'
  BY DEF EnrollmentInv, GatewayIsInOrder, Enrollment!OneEnrollment
<1> QED
  BY <1>1, <1>2, <1>3 DEF EnrollmentInv

\* A success that is answered for the row as it is.
LEMMA EnrollmentReplays ==
    ASSUME EnrollmentInv, NEW c \in EnrollmentCalls, enrolling[c] # None,
           Enrollment!isReplay(enrolling[c].command), Enrollment!Succeed(c, None),
           UNCHANGED <<now, gateway, issues, minted>>
    PROVE  EnrollmentInv'
<1>1. enrolling[c] \in Enrollment!Call /\ enrolling[c].command \in EnrollmentCommands
  BY DEF EnrollmentInv, Enrollment!TypeOK, Enrollment!Call
<1>2. [command |-> enrolling[c].command, token |-> None] \in Enrollment!Answer
  BY <1>1 DEF Enrollment!Answer
<1>3. Enrollment!TypeOK'
  BY <1>1, <1>2 DEF EnrollmentInv, Enrollment!TypeOK, Enrollment!Succeed, Enrollment!Return
<1>4. EnrollmentCopies'
  BY DEF EnrollmentInv, Enrollment!TypeOK, EnrollmentCopies, EnrollmentCopy,
         Enrollment!Succeed, Enrollment!Return
<1>5. gateway' # None => GatewayIsInOrder(gateway)'
  BY DEF EnrollmentInv, GatewayIsInOrder
<1>6. Enrollment!OneEnrollment'
  BY DEF EnrollmentInv, Enrollment!OneEnrollment, Enrollment!Succeed, Enrollment!isReplay
<1> QED
  BY <1>3, <1>4, <1>5, <1>6 DEF EnrollmentInv

LEMMA EnrollmentBegins ==
    ASSUME EnrollmentInv, NEW c \in EnrollmentCalls, NEW k \in EnrollmentCommands,
      Enrollment!Begin(c, k)
    PROVE  EnrollmentInv'
<1>1. PICK token \in IF k.kind = "claim" THEN Enrollment!Told ELSE {None} :
        enrolling' = [enrolling EXCEPT ![c] = [command |-> k, at |-> now, stage |-> "find",
                                       read |-> None, token |-> token]]
  BY DEF Enrollment!Begin
<1>2. token \in Enrollment!Tokens \cup {None}
  BY <1>1 DEF Enrollment!Told, EnrollmentInv, Enrollment!TypeOK, Enrollment!Answer
<1>3. [command |-> k, at |-> now, stage |-> "find", read |-> None, token |-> token]
        \in Enrollment!Call
  BY <1>2 DEF Enrollment!Call, EnrollmentInv, Enrollment!TypeOK
<1>4. enrolling' \in [EnrollmentCalls -> Enrollment!Call \cup {None}]
  BY <1>1, <1>3 DEF EnrollmentInv, Enrollment!TypeOK
<1>5. \A d \in EnrollmentCalls : enrolling'[d] = enrolling[d] \/ enrolling'[d].stage = "find"
  BY <1>1 DEF EnrollmentInv, Enrollment!TypeOK
<1>6. UNCHANGED <<now, gateway, issues, minted, enrolled>>
  BY DEF Enrollment!Begin
<1> QED
  BY <1>4, <1>5, <1>6, EnrollmentIdles DEF EnrollmentInv, Enrollment!TypeOK

\* A token is remembered under the request it was made for.
LEMMA TokenRemembered ==
    ASSUME EnrollmentInv, NEW s \in Services, NEW r \in Enrollment!CommandRequests,
      NEW i \in Enrollment!Issue,
           Enrollment!remember(s, r, i)
    PROVE  issues' \in [Services -> [Enrollment!CommandRequests -> Enrollment!Issue \cup {None}]]
BY DEF Enrollment!remember, EnrollmentInv, Enrollment!TypeOK

LEMMA EnrollmentFinds ==
    ASSUME EnrollmentInv, NEW c \in EnrollmentCalls, Enrollment!FindRow(c)
    PROVE  EnrollmentInv'
<1> DEFINE k == enrolling[c].command
<1>1. enrolling[c] \in Enrollment!Call /\ enrolling[c] # None /\ k \in EnrollmentCommands
        /\ k.kind \in Enrollment!Kinds
  BY CommandsAssumption
  DEF Enrollment!FindRow, EnrollmentInv, Enrollment!TypeOK, Enrollment!Call,
      Enrollment!EnrollmentAssumption
<1>2. UNCHANGED <<now, gateway>> /\ now \in Enrollment!Time
  BY DEF Enrollment!FindRow, EnrollmentInv, Enrollment!TypeOK
<1>3. CASE Enrollment!isReplay(k) /\ Enrollment!Succeed(c, None) /\ UNCHANGED <<issues, minted>>
  BY <1>1, <1>2, <1>3, EnrollmentReplays
<1> DEFINE going == [enrolling[c] EXCEPT !.stage = "write", !.read = gateway]
<1>4. ASSUME Enrollment!GoOn(c), UNCHANGED enrolled, EnrollmentCopy(going) PROVE EnrollmentInv'
  <2>1. going \in Enrollment!Call
    BY <1>1 DEF Enrollment!Call, EnrollmentInv, Enrollment!TypeOK
  <2>2. enrolling' = [enrolling EXCEPT ![c] = going] /\ UNCHANGED <<issues, minted>>
    BY <1>4 DEF Enrollment!GoOn
  <2>3. enrolling' \in [EnrollmentCalls -> Enrollment!Call \cup {None}] /\ enrolling'[c] = going
        /\ \A d \in EnrollmentCalls \ {c} : enrolling'[d] = enrolling[d]
    BY <2>1, <2>2 DEF EnrollmentInv, Enrollment!TypeOK
  <2> HIDE DEF going
  <2> QED
    BY <1>2, <1>4, <2>2, <2>3, EnrollmentIdles DEF EnrollmentInv, Enrollment!TypeOK
<1>5. CASE k.kind = "register" /\ gateway = None /\ Enrollment!GoOn(c) /\ UNCHANGED enrolled
  <2>1. EnrollmentCopy(going)
    BY <1>1, <1>5 DEF EnrollmentCopy, Enrollment!Call
  <2> QED
    BY <1>4, <1>5, <2>1
<1>6. CASE /\ k.kind = "claim" /\ gateway # None /\ gateway.state = "awaiting-claim"
           /\ Enrollment!GoOn(c) /\ UNCHANGED enrolled
  <2>1. EnrollmentCopy(going)
    BY <1>1, <1>6 DEF EnrollmentCopy, Enrollment!Call
  <2> QED
    BY <1>4, <1>6, <2>1
<1>7. CASE /\ k.kind = "issue" /\ gateway # None /\ gateway.state = "registered"
           /\ Enrollment!issueToken(c) /\ UNCHANGED enrolled
  <2> DEFINE s == ServiceOf[c]
             known == issues[s][k.request]
             with(t) == [enrolling[c] EXCEPT !.stage = "write", !.read = gateway, !.token = t]
  <2>1. s \in Services /\ k.request \in Enrollment!CommandRequests
          /\ known \in Enrollment!Issue \cup {None}
        /\ k.value \in Nat /\ MaxToken \in Nat /\ minted \in 0..MaxToken
    BY <1>1, <1>7, CommandsAssumption
    DEF Enrollment!EnrollmentAssumption, Enrollment!CommandRequests, EnrollmentInv,
        Enrollment!TypeOK
  <2>2. ASSUME NEW t \in Enrollment!Tokens, enrolling' = [enrolling EXCEPT ![c] = with(t)],
          minted' \in 0..MaxToken,
          issues' \in [Services -> [Enrollment!CommandRequests -> Enrollment!Issue \cup {None}]]
        PROVE  EnrollmentInv'
    <3>1. with(t) \in Enrollment!Call
      BY <1>1 DEF Enrollment!Call, EnrollmentInv, Enrollment!TypeOK
    <3>2. EnrollmentCopy(with(t))
      BY <1>1, <1>7 DEF EnrollmentCopy, Enrollment!Call
    <3>3. enrolling' \in [EnrollmentCalls -> Enrollment!Call \cup {None}]
            /\ enrolling'[c] = with(t)
          /\ \A d \in EnrollmentCalls \ {c} : enrolling'[d] = enrolling[d]
      BY <2>2, <3>1 DEF EnrollmentInv, Enrollment!TypeOK
    <3> HIDE DEF with
    <3> QED
      BY <1>2, <1>7, <2>2, <3>2, <3>3, EnrollmentIdles DEF EnrollmentInv, Enrollment!TypeOK
  <2>3. CASE known = None
    <3>1. minted + 1 \in Enrollment!Tokens /\ minted' = minted + 1
      BY <1>7, <2>1, <2>3 DEF Enrollment!issueToken, Enrollment!Tokens
    <3>2. [token |-> minted + 1, expires |-> k.value] \in Enrollment!Issue
      BY <2>1, <3>1 DEF Enrollment!Issue
    <3>3. Enrollment!remember(s, k.request, [token |-> minted + 1, expires |-> k.value])
      BY <1>7, <2>3 DEF Enrollment!issueToken
    <3>4. issues' \in [Services -> [Enrollment!CommandRequests -> Enrollment!Issue \cup {None}]]
      BY <2>1, <3>2, <3>3, TokenRemembered
    <3>5. enrolling' = [enrolling EXCEPT ![c] = with(minted + 1)]
      BY <1>7, <2>3 DEF Enrollment!issueToken
    <3>6. minted' \in 0..MaxToken
      BY <2>1, <3>1 DEF Enrollment!Tokens
    <3> QED
      BY <2>2, <3>1, <3>4, <3>5, <3>6
  <2>4. CASE known # None /\ known.expires = k.value
    <3>1. known.token \in Enrollment!Tokens
      BY <2>1, <2>4 DEF Enrollment!Issue
    <3>2. enrolling' = [enrolling EXCEPT ![c] = with(known.token)] /\ UNCHANGED <<issues, minted>>
      BY <1>7, <2>4 DEF Enrollment!issueToken
    <3> QED
      BY <2>1, <2>2, <3>1, <3>2 DEF EnrollmentInv, Enrollment!TypeOK
  <2>5. CASE known # None /\ known.expires # k.value
    <3>1. enrolling' = [enrolling EXCEPT ![c] = None] /\ UNCHANGED <<issues, minted>>
      BY <1>7, <2>5 DEF Enrollment!issueToken, Enrollment!Return
    <3> QED
      BY <1>2, <1>7, <3>1, EnrollmentIdles DEF EnrollmentInv, Enrollment!TypeOK
  <2> QED
    BY <2>3, <2>4, <2>5
<1> QED
  BY <1>3, <1>5, <1>6, <1>7 DEF Enrollment!FindRow

\* Fields that are replaced by others of their types leave a row a row.
LEMMA LaterGateway ==
    ASSUME NEW row \in Enrollment!Gateway,
           NEW done \in [Enrollment!Kinds -> EnrollmentCommands \cup {None}],
           NEW token \in Enrollment!Tokens \cup {None}, NEW at \in Enrollment!Time \cup {None}
    PROVE  /\ [row EXCEPT !.state = "awaiting-claim", !.revision = 2, !.done = done,
                          !.token = token, !.issuedAt = at] \in Enrollment!Gateway
           /\ [row EXCEPT !.state = "claimed", !.revision = 3, !.done = done]
                \in Enrollment!Gateway
<1> DEFINE S == {"registered", "awaiting-claim", "claimed"}
           R == 1..3
           D == [Enrollment!Kinds -> EnrollmentCommands \cup {None}]
           T == Enrollment!Tokens \cup {None}
           A == Enrollment!Time \cup {None}
           two == 2
           three == 3
<1>1. Enrollment!Gateway = [state : S, revision : R, done : D, token : T, issuedAt : A]
  BY DEF Enrollment!Gateway
<1>2. "awaiting-claim" \in S /\ "claimed" \in S /\ two \in R /\ three \in R
      /\ done \in D /\ token \in T /\ at \in A
  OBVIOUS
<1> HIDE DEF S, R, D, T, A, two, three
<1>3. [row EXCEPT !.state = "awaiting-claim", !.revision = two, !.done = done,
                  !.token = token, !.issuedAt = at] \in Enrollment!Gateway
  BY <1>1, <1>2
<1>4. [row EXCEPT !.state = "claimed", !.revision = three, !.done = done] \in Enrollment!Gateway
  BY <1>1, <1>2
<1> QED
  BY <1>3, <1>4 DEF two, three

\* A write that is let through makes the next row of the stored one: it adds the
\* command, and takes nothing of it back.
LEMMA NextGateway ==
    ASSUME EnrollmentInv, NEW c \in EnrollmentCalls, enrolling[c] # None,
      enrolling[c].stage = "write",
           Enrollment!isExpectedRevision(enrolling[c])
    PROVE  LET next == Enrollment!nextRow(enrolling[c]) IN
           /\ next \in Enrollment!Gateway /\ GatewayIsInOrder(next)
           /\ next.done[enrolling[c].command.kind] = enrolling[c].command
           /\ enrolling[c].command.kind = "issue" => next.token = enrolling[c].token
           /\ gateway # None =>
                /\ gateway.revision < next.revision
                /\ \A kind \in Enrollment!Kinds : gateway.done[kind] # None =>
                                         next.done[kind] = gateway.done[kind]
                /\ gateway.token # None => next.token = gateway.token
<1> DEFINE call == enrolling[c]
           k == call.command
           next == Enrollment!nextRow(call)
<1>1. call \in Enrollment!Call /\ k \in EnrollmentCommands /\ k.kind \in Enrollment!Kinds
        /\ EnrollmentCopy(call)
  BY CommandsAssumption
  DEF EnrollmentInv, Enrollment!TypeOK, Enrollment!Call, EnrollmentCopies,
      Enrollment!EnrollmentAssumption
<1>2. gateway \in Enrollment!Gateway \cup {None} /\ (gateway # None => GatewayIsInOrder(gateway))
  BY DEF EnrollmentInv, Enrollment!TypeOK
<1>3. call.read = gateway
  BY <1>1, <1>2 DEF EnrollmentCopy, Enrollment!isExpectedRevision, Enrollment!Gateway
<1>4. call.at \in Enrollment!Time /\ call.token \in Enrollment!Tokens \cup {None}
  BY <1>1 DEF Enrollment!Call
<1>5. CASE k.kind = "register"
  <2>1. gateway = None /\ next = Enrollment!registered(call)
    BY <1>1, <1>3, <1>5 DEF EnrollmentCopy, Enrollment!nextRow
  <2>2. next.done \in [Enrollment!Kinds -> EnrollmentCommands \cup {None}]
    BY <1>1, <2>1 DEF Enrollment!registered
  <2>3. next \in Enrollment!Gateway
    BY <2>1, <2>2 DEF Enrollment!registered, Enrollment!Gateway
  <2> QED
    BY <1>1, <1>5, <2>1, <2>3 DEF Enrollment!registered, GatewayIsInOrder, Enrollment!Kinds
<1>6. CASE k.kind = "issue"
  <2>1. gateway # None /\ gateway \in Enrollment!Gateway /\ gateway.state = "registered"
        /\ call.token \in Enrollment!Tokens /\ next = Enrollment!issued(call)
    BY <1>1, <1>2, <1>3, <1>6 DEF EnrollmentCopy, Enrollment!nextRow
  <2>2. gateway.revision = 1 /\ gateway.done["issue"] = None /\ gateway.done["claim"] = None
        /\ gateway.token = None
    BY <1>2, <2>1 DEF GatewayIsInOrder
  <2> DEFINE done == [gateway.done EXCEPT !["issue"] = k]
  <2>3. next = [gateway EXCEPT !.state = "awaiting-claim", !.revision = 2, !.done = done,
                               !.token = call.token, !.issuedAt = call.at]
    BY <1>3, <2>1, <2>2 DEF Enrollment!issued, Enrollment!Gateway
  <2>4. /\ done \in [Enrollment!Kinds -> EnrollmentCommands \cup {None}]
        /\ done["issue"] = k /\ done["claim"] = gateway.done["claim"]
        /\ done["register"] = gateway.done["register"]
    BY <1>1, <2>1 DEF Enrollment!Gateway, Enrollment!Kinds
  <2> HIDE DEF done
  <2>5. next \in Enrollment!Gateway
    <3>1. gateway \in Enrollment!Gateway
            /\ done \in [Enrollment!Kinds -> EnrollmentCommands \cup {None}]
            /\ call.token \in Enrollment!Tokens \cup {None}
            /\ call.at \in Enrollment!Time \cup {None}
      BY <1>4, <2>1, <2>4
    <3> HIDE DEF next, call
    <3>2. [gateway EXCEPT !.state = "awaiting-claim", !.revision = 2, !.done = done,
                          !.token = call.token, !.issuedAt = call.at] \in Enrollment!Gateway
      BY <3>1, LaterGateway
    <3> QED
      BY <2>3, <3>2
  <2>6. next.state = "awaiting-claim" /\ next.revision = 2 /\ next.done = done
        /\ next.token = call.token
    BY <2>1, <2>3 DEF Enrollment!Gateway
  <2>7. GatewayIsInOrder(next)
    BY <2>2, <2>4, <2>6 DEF GatewayIsInOrder
  <2> QED
    BY <1>1, <1>6, <2>1, <2>2, <2>4, <2>5, <2>6, <2>7 DEF Enrollment!Kinds
<1>7. CASE k.kind = "claim"
  <2>1. gateway # None /\ gateway \in Enrollment!Gateway /\ gateway.state = "awaiting-claim"
        /\ next = Enrollment!claimed(call)
    BY <1>1, <1>2, <1>3, <1>7 DEF EnrollmentCopy, Enrollment!nextRow
  <2>2. gateway.revision = 2 /\ gateway.done["claim"] = None
    BY <1>2, <2>1 DEF GatewayIsInOrder
  <2> DEFINE done == [gateway.done EXCEPT !["claim"] = k]
  <2>3. next = [gateway EXCEPT !.state = "claimed", !.revision = 3, !.done = done]
    BY <1>3, <2>1, <2>2 DEF Enrollment!claimed, Enrollment!Gateway
  <2>4. /\ done \in [Enrollment!Kinds -> EnrollmentCommands \cup {None}]
        /\ done["claim"] = k /\ done["issue"] = gateway.done["issue"]
        /\ done["register"] = gateway.done["register"]
    BY <1>1, <2>1 DEF Enrollment!Gateway, Enrollment!Kinds
  <2> HIDE DEF done
  <2>5. next \in Enrollment!Gateway
    BY <2>1, <2>3, <2>4, LaterGateway
  <2>6. next.state = "claimed" /\ next.revision = 3 /\ next.done = done
        /\ next.token = gateway.token
    BY <2>1, <2>3 DEF Enrollment!Gateway
  <2>7. GatewayIsInOrder(next)
    BY <2>4, <2>6 DEF GatewayIsInOrder
  <2> QED
    BY <1>1, <1>7, <2>1, <2>2, <2>4, <2>5, <2>6, <2>7 DEF Enrollment!Kinds
<1> QED
  BY <1>1, <1>5, <1>6, <1>7 DEF Enrollment!Kinds

LEMMA EnrollmentWrites ==
    ASSUME EnrollmentInv, NEW c \in EnrollmentCalls, Enrollment!WriteRow(c)
    PROVE  EnrollmentInv'
<1> DEFINE call == enrolling[c]
           token == IF call.command.kind = "issue" THEN call.token ELSE None
<1>1. call \in Enrollment!Call /\ call # None /\ call.stage = "write" /\
        /\ UNCHANGED <<now, issues, minted>>
      /\ call.command \in EnrollmentCommands /\ call.command.kind \in Enrollment!Kinds
      /\ call.token \in Enrollment!Tokens \cup {None}
  BY CommandsAssumption
  DEF Enrollment!WriteRow, EnrollmentInv, Enrollment!TypeOK, Enrollment!Call,
      Enrollment!EnrollmentAssumption
<1>2. CASE ~Enrollment!isExpectedRevision(call)
  <2> DEFINE again == [call EXCEPT !.stage = "again"]
  <2>1. enrolling' = [enrolling EXCEPT ![c] = again] /\ UNCHANGED <<gateway, enrolled>>
    BY <1>2 DEF Enrollment!WriteRow
  <2>2. again \in Enrollment!Call /\ again.stage = "again"
    BY <1>1 DEF Enrollment!Call
  <2>3. enrolling' \in [EnrollmentCalls -> Enrollment!Call \cup {None}]
        /\ \A d \in EnrollmentCalls : enrolling'[d] = enrolling[d]
                                     \/ enrolling'[d].stage = "again"
    BY <2>1, <2>2 DEF EnrollmentInv, Enrollment!TypeOK
  <2> QED
    BY <1>1, <2>1, <2>3, EnrollmentIdles DEF EnrollmentInv, Enrollment!TypeOK
<1>3. CASE Enrollment!isExpectedRevision(call)
  <2>1. gateway' = Enrollment!nextRow(call) /\ Enrollment!Succeed(c, token)
    BY <1>3 DEF Enrollment!WriteRow
  <2>2. /\ gateway' \in Enrollment!Gateway /\ GatewayIsInOrder(gateway')
        /\ gateway'.done[call.command.kind] = call.command
        /\ call.command.kind = "issue" => gateway'.token = call.token
        /\ gateway # None =>
             /\ gateway.revision < gateway'.revision
             /\ \A kind \in Enrollment!Kinds : gateway.done[kind] # None =>
                                      gateway'.done[kind] = gateway.done[kind]
             /\ gateway.token # None => gateway'.token = gateway.token
    BY <1>1, <1>3, <2>1, NextGateway
  <2>3. gateway' # None
    BY <2>2, CommandsAssumption DEF Enrollment!NoneIsNothing
  <2>4. [command |-> call.command, token |-> token] \in Enrollment!Answer
    BY <1>1 DEF Enrollment!Answer
  <2>5. enrolled' \subseteq enrolled \cup {[command |-> call.command, token |-> token]}
        /\ enrolling' = [enrolling EXCEPT ![c] = None]
    BY <2>1 DEF Enrollment!Succeed, Enrollment!Return
  <2>6. Enrollment!TypeOK'
    BY <1>1, <2>2, <2>4, <2>5 DEF EnrollmentInv, Enrollment!TypeOK
  <2>7. EnrollmentCopies'
    <3> SUFFICES ASSUME NEW d \in EnrollmentCalls, enrolling'[d] # None,
          enrolling'[d].stage = "write"
                 PROVE  EnrollmentCopy(enrolling[d])'
      BY DEF EnrollmentCopies
    <3>1. enrolling'[d] = enrolling[d] /\ EnrollmentCopy(enrolling[d])
            /\ enrolling[d] \in Enrollment!Call
      BY <2>5 DEF EnrollmentInv, Enrollment!TypeOK, EnrollmentCopies
    <3>2. enrolling[d].read # None => enrolling[d].read \in Enrollment!Gateway
            /\ gateway \in Enrollment!Gateway
      BY <3>1 DEF EnrollmentCopy, Enrollment!Call, EnrollmentInv, Enrollment!TypeOK
    <3> QED
      BY <2>2, <2>3, <3>1, <3>2 DEF EnrollmentCopy, Enrollment!Gateway
  <2>8. Enrollment!OneEnrollment'
    <3> SUFFICES ASSUME NEW a \in enrolled'
                 PROVE  /\ a.command = gateway'.done[a.command.kind]
                        /\ a.token # None => a.token = gateway'.token
      BY <2>3 DEF Enrollment!OneEnrollment
    <3>1. CASE a \in enrolled
      <4>1. a.command \in EnrollmentCommands /\ a.command.kind \in Enrollment!Kinds
              /\ a.command # None
        BY <3>1, CommandsAssumption
        DEF EnrollmentInv, Enrollment!TypeOK, Enrollment!Answer,
            Enrollment!EnrollmentAssumption, Enrollment!NoneIsNothing
      <4>2. gateway # None /\ a.command = gateway.done[a.command.kind]
            /\ (a.token # None => a.token = gateway.token)
        BY <3>1 DEF EnrollmentInv, Enrollment!OneEnrollment
      <4> QED
        BY <2>2, <4>1, <4>2
    <3>2. CASE a = [command |-> call.command, token |-> token]
      BY <2>2, <3>2
    <3> QED
      BY <2>5, <3>1, <3>2
  <2> QED
    BY <2>2, <2>6, <2>7, <2>8 DEF EnrollmentInv, GatewayIsInOrder
<1> QED
  BY <1>2, <1>3

LEMMA EnrollmentSteps ==
    ASSUME EnrollmentInv, NEW c \in EnrollmentCalls, Enrollment!Step(c)
    PROVE  EnrollmentInv'
<1>1. ASSUME Enrollment!Return(c), UNCHANGED <<now, gateway, issues, minted, enrolled>>
        PROVE EnrollmentInv'
  BY <1>1, EnrollmentIdles DEF EnrollmentInv, Enrollment!TypeOK, Enrollment!Return
<1>2. CASE Enrollment!FindAgain(c)
  <2>1. CASE Enrollment!isReplay(enrolling[c].command)
    BY <1>2, <2>1, EnrollmentReplays DEF Enrollment!FindAgain
  <2>2. CASE ~Enrollment!isReplay(enrolling[c].command)
    BY <1>1, <1>2, <2>2 DEF Enrollment!FindAgain, Enrollment!Refuse
  <2> QED
    BY <2>1, <2>2
<1>3. CASE Enrollment!Fail(c)
  BY <1>1, <1>3 DEF Enrollment!Fail, Enrollment!Refuse
<1> QED
  BY <1>2, <1>3, EnrollmentBegins, EnrollmentFinds, EnrollmentWrites DEF Enrollment!Step

LEMMA EnrollmentNext ==
    ASSUME EnrollmentInv, [Enrollment!Next]_(Enrollment!vars)
    PROVE  EnrollmentInv'
<1>1. now \in Enrollment!Time /\ enrolling \in [EnrollmentCalls -> Enrollment!Call \cup {None}]
  BY DEF EnrollmentInv, Enrollment!TypeOK
<1>2. CASE Enrollment!Tick
  <2>1. now' \in Enrollment!Time
    BY <1>1, <1>2, CommandsAssumption
    DEF Enrollment!Tick, Enrollment!Time, Enrollment!EnrollmentAssumption
  <2> QED
    BY <1>1, <1>2, <2>1, EnrollmentIdles DEF Enrollment!Tick, EnrollmentInv, Enrollment!TypeOK
<1>3. ASSUME NEW s \in Services, Enrollment!Restart(s) PROVE EnrollmentInv'
  <2>1. issues' \in [Services -> [Enrollment!CommandRequests -> Enrollment!Issue \cup {None}]]
    BY <1>3 DEF Enrollment!Restart, EnrollmentInv, Enrollment!TypeOK
  <2>2. enrolling' \in [EnrollmentCalls -> Enrollment!Call \cup {None}]
        /\ \A c \in EnrollmentCalls : enrolling'[c] = enrolling[c] \/ enrolling'[c] = None
    BY <1>1, <1>3 DEF Enrollment!Restart
  <2> QED
    BY <1>1, <1>3, <2>1, <2>2, EnrollmentIdles
    DEF Enrollment!Restart, EnrollmentInv, Enrollment!TypeOK
<1>4. CASE UNCHANGED Enrollment!vars
  BY <1>1, <1>4, EnrollmentIdles DEF Enrollment!vars, EnrollmentInv, Enrollment!TypeOK
<1>5. ASSUME NEW c \in EnrollmentCalls, Enrollment!Step(c) PROVE EnrollmentInv'
  BY <1>5, EnrollmentSteps
<1> QED
  BY <1>2, <1>3, <1>4, <1>5 DEF Enrollment!Next

----------------------------------------------------------------------------
(***************************************************************************)
(* Edge deployments.                                                       *)
(***************************************************************************)

\* No observation is of an intent the cloud does not have, and what is shown follows
\* from those of the current one.
DeploymentIsTrue(d) ==
    /\ Len(d.desired) > 0
    /\ \A i \in DOMAIN d.observations :
          d.observations[i].generation <= Deployments!Intent(d).generation
    /\ Deployments!GenerationOf(d.applied) <= Deployments!Intent(d).generation
    /\ Deployments!GenerationOf(d.reported) <= Deployments!Intent(d).generation
    /\ Deployments!FollowsEvidence(d)

\* The one deployment is an earlier state of the other, or the same.
DeploymentGoesOn(a, b) ==
    Deployments!Precedes(a, b) /\ (a.revision = b.revision => a = b)

\* What a command will write is made of the copy it has read.
DeploymentCopies ==
    \A p \in Processes : deploying[p] # None =>
       LET call == deploying[p] IN
       /\ DeploymentIsTrue(call.next)
       /\ call.current # None =>
            /\ deployment # None
            /\ DeploymentGoesOn(call.current, deployment)
            /\ DeploymentGoesOn(call.current, call.next)

DeploymentInv ==
    /\ Deployments!TypeOK
    /\ deployment # None => DeploymentIsTrue(deployment)
    /\ DeploymentCopies
    /\ \A r \in DeploymentRequests : deploymentRequests[r] # None =>
          deployment # None /\ Deployments!Precedes(deploymentRequests[r], deployment)

\* A prefix, place by place.
LEMMA DeploymentPrefix ==
    ASSUME NEW S, NEW s \in Seq(S), NEW t \in Seq(S)
    PROVE  Deployments!IsPrefix(s, t)
             <=> Len(s) <= Len(t) /\ \A i \in 1..Len(s) : s[i] = t[i]
<1>1. Deployments!IsPrefix(s, t)
        <=> Len(s) <= Len(t) /\ SubSeq(s, 1, Len(s)) = SubSeq(t, 1, Len(s))
  BY DEF Deployments!IsPrefix
<1>2. ASSUME Len(s) <= Len(t) PROVE
        SubSeq(s, 1, Len(s)) = SubSeq(t, 1, Len(s)) <=> \A i \in 1..Len(s) : s[i] = t[i]
  <2>1. PICK n \in Nat : n = Len(s) /\ n <= Len(t)
    BY <1>2
  <2>2. PICK a \in Seq(S) : /\ a = SubSeq(s, 1, n) /\ Len(a) = n
                            /\ \A i \in 1..n : a[i] = s[i]
    BY <2>1
  <2>3. PICK b \in Seq(S) : /\ b = SubSeq(t, 1, n) /\ Len(b) = n
                            /\ \A i \in 1..n : b[i] = t[i]
    <3>1. Len(t) \in Nat /\ 1 \in 1..(Len(t) + 1) /\ n \in 0..Len(t)
      BY <2>1
    <3>2. SubSeq(t, 1, n) \in Seq(S)
      BY <3>1, SubSeqProperties
    <3>3. Len(SubSeq(t, 1, n)) = n /\ \A i \in 1..n : SubSeq(t, 1, n)[i] = t[i]
      BY <3>1
    <3> QED
      BY <3>2, <3>3
  <2>4. a = b <=> \A i \in 1..n : a[i] = b[i]
    BY <2>2, <2>3
  <2> QED
    BY <2>1, <2>2, <2>3, <2>4
<1> QED
  BY <1>1, <1>2

LEMMA DeploymentPrefixGrows ==
    ASSUME NEW S, NEW s \in Seq(S)
    PROVE  /\ Deployments!IsPrefix(s, s)
           /\ \A x \in S : Deployments!IsPrefix(s, Append(s, x))
           /\ \A t, u \in Seq(S) : Deployments!IsPrefix(s, t) /\ Deployments!IsPrefix(t, u)
                                     => Deployments!IsPrefix(s, u)
<1>1. Deployments!IsPrefix(s, s)
  BY DeploymentPrefix
<1>2. ASSUME NEW x \in S PROVE Deployments!IsPrefix(s, Append(s, x))
  <2> DEFINE t == Append(s, x)
  <2>1. t \in Seq(S) /\ Len(s) <= Len(t) /\ \A i \in 1..Len(s) : s[i] = t[i]
    OBVIOUS
  <2> HIDE DEF t
  <2>2. Deployments!IsPrefix(s, t)
    BY <2>1, DeploymentPrefix
  <2> QED
    BY <2>2 DEF t
<1>3. ASSUME NEW t \in Seq(S), NEW u \in Seq(S),
             Deployments!IsPrefix(s, t), Deployments!IsPrefix(t, u)
      PROVE  Deployments!IsPrefix(s, u)
  <2>1. Len(s) <= Len(t) /\ \A i \in 1..Len(s) : s[i] = t[i]
    BY <1>3, DeploymentPrefix
  <2>2. Len(t) <= Len(u) /\ \A i \in 1..Len(t) : t[i] = u[i]
    BY <1>3, DeploymentPrefix
  <2>3. Len(s) <= Len(u) /\ \A i \in 1..Len(s) : s[i] = u[i]
    BY <2>1, <2>2
  <2> QED
    BY <2>3, DeploymentPrefix
<1> QED
  BY <1>1, <1>2, <1>3

LEMMA DeploymentFields ==
    ASSUME NEW d \in Deployments!Deployment
    PROVE  /\ d.desired \in Seq(Deployments!Desired)
           /\ d.observations \in Seq(Deployments!Observations)
           /\ d.reported \in Deployments!Observations \cup {None}
           /\ d.applied \in Deployments!Observations \cup {None}
           /\ d.revision \in Nat \ {0}
           /\ Deployments!GenerationOf(d.applied) \in Nat
           /\ Deployments!GenerationOf(d.reported) \in Nat
           /\ \A i \in DOMAIN d.observations :
                 d.observations[i] \in Deployments!Observations
           /\ Len(d.desired) > 0 =>
                /\ Deployments!Intent(d) \in Deployments!Desired
                /\ Deployments!Intent(d).generation \in Nat \ {0}
<1>1. \A o \in Deployments!Observations : o.generation \in Nat
  BY CommandsAssumption DEF Deployments!DeploymentAssumption, Deployments!Observations,
     Deployments!IsObservation
<1>2. /\ d.desired \in Seq(Deployments!Desired)
      /\ d.observations \in Seq(Deployments!Observations)
      /\ d.reported \in Deployments!Observations \cup {None}
      /\ d.applied \in Deployments!Observations \cup {None}
      /\ d.revision \in Nat \ {0}
  BY DEF Deployments!Deployment
<1>3. Len(d.desired) > 0 => Deployments!Intent(d) \in Deployments!Desired
  BY <1>2 DEF Deployments!Intent, Deployments!Last
<1>4. Len(d.desired) > 0 => Deployments!Intent(d).generation \in Nat \ {0}
  BY <1>3 DEF Deployments!Desired
<1> QED
  BY <1>1, <1>2, <1>3, <1>4 DEF Deployments!GenerationOf

LEMMA DeploymentGoesOnOrder ==
    ASSUME NEW a \in Deployments!Deployment, NEW b \in Deployments!Deployment,
           NEW c \in Deployments!Deployment
    PROVE  /\ DeploymentGoesOn(a, a)
           /\ Deployments!Precedes(a, b) /\ Deployments!Precedes(b, c)
                => Deployments!Precedes(a, c)
           /\ DeploymentGoesOn(a, b) /\ DeploymentGoesOn(b, c) => DeploymentGoesOn(a, c)
<1>1. Deployments!Precedes(a, a)
  BY DeploymentFields, DeploymentPrefixGrows DEF Deployments!Precedes
<1>2. ASSUME Deployments!Precedes(a, b), Deployments!Precedes(b, c)
      PROVE  Deployments!Precedes(a, c)
  <2>1. Deployments!IsPrefix(a.desired, c.desired)
    <3>1. Deployments!IsPrefix(a.desired, b.desired) /\ Deployments!IsPrefix(b.desired, c.desired)
      BY <1>2 DEF Deployments!Precedes
    <3> QED
      BY <3>1, DeploymentFields, DeploymentPrefixGrows
  <2>2. Deployments!IsPrefix(a.observations, c.observations)
    <3>1. Deployments!IsPrefix(a.observations, b.observations)
          /\ Deployments!IsPrefix(b.observations, c.observations)
      BY <1>2 DEF Deployments!Precedes
    <3> QED
      BY <3>1, DeploymentFields, DeploymentPrefixGrows
  <2>3. /\ a.revision <= c.revision
        /\ Deployments!GenerationOf(a.applied) <= Deployments!GenerationOf(c.applied)
        /\ Deployments!GenerationOf(a.reported) <= Deployments!GenerationOf(c.reported)
    BY <1>2, DeploymentFields DEF Deployments!Precedes
  <2> QED
    BY <2>1, <2>2, <2>3 DEF Deployments!Precedes
<1>3. ASSUME DeploymentGoesOn(a, b), DeploymentGoesOn(b, c) PROVE DeploymentGoesOn(a, c)
  <2>1. a.revision <= b.revision /\ b.revision <= c.revision
    BY <1>3 DEF DeploymentGoesOn, Deployments!Precedes
  <2> QED
    BY <1>2, <1>3, <2>1, DeploymentFields DEF DeploymentGoesOn
<1> QED
  BY <1>1, <1>2, <1>3 DEF DeploymentGoesOn

\* Deployments with some of their fields replaced.
LEMMA DeploymentParts ==
    ASSUME NEW d \in Deployments!Deployment,
           NEW desired \in Seq(Deployments!Desired),
           NEW seen \in Seq(Deployments!Observations),
           NEW rollout \in {"running", "paused", "cancel-requested", "completed",
                            "completed-with-failures"},
           NEW state \in {"pending", "in-sync", "drifted", "failed", "unknown"}
    PROVE  /\ [d EXCEPT !.reconciliation = state, !.revision = @ + 1] \in Deployments!Deployment
           /\ [d EXCEPT !.rollout = rollout, !.revision = @ + 1] \in Deployments!Deployment
           /\ [d EXCEPT !.desired = desired, !.rollout = rollout, !.reconciliation = state,
                        !.revision = @ + 1] \in Deployments!Deployment
           /\ [d EXCEPT !.observations = seen, !.revision = @ + 1] \in Deployments!Deployment
<1> DEFINE D == Seq(Deployments!Desired)
           O == Seq(Deployments!Observations)
           N == Deployments!Observations \cup {None}
           R == {"running", "paused", "cancel-requested", "completed",
                 "completed-with-failures"}
           S == {"pending", "in-sync", "drifted", "failed", "unknown"}
           P == Nat \ {0}
<1>1. Deployments!Deployment =
        [desired : D, observations : O, reported : N, applied : N, rollout : R,
         reconciliation : S, revision : P]
  BY DEF Deployments!Deployment
<1>2. desired \in D /\ seen \in O /\ rollout \in R /\ state \in S
  OBVIOUS
<1>3. d.revision \in P /\ d.revision + 1 \in P
  BY DeploymentFields
<1>4. PICK next \in P : next = d.revision + 1
  BY <1>3
<1> HIDE DEF D, O, N, R, S, P
<1>5. [d EXCEPT !.reconciliation = state, !.revision = next] \in Deployments!Deployment
  BY <1>1, <1>2
<1>6. [d EXCEPT !.rollout = rollout, !.revision = next] \in Deployments!Deployment
  BY <1>1, <1>2
<1>7. [d EXCEPT !.desired = desired, !.rollout = rollout, !.reconciliation = state,
                !.revision = next] \in Deployments!Deployment
  BY <1>1, <1>2
<1>8. [d EXCEPT !.observations = seen, !.revision = next] \in Deployments!Deployment
  BY <1>1, <1>2
<1> QED
  BY <1>4, <1>5, <1>6, <1>7, <1>8

LEMMA CreatedDeployment ==
    ASSUME NEW k \in Starts
    PROVE  LET d == Deployments!createEdgeDeployment(k) IN
           d \in Deployments!Deployment /\ DeploymentIsTrue(d)
<1> DEFINE d == Deployments!createEdgeDeployment(k)
           wanted == [artifact |-> k.artifact, generation |-> k.generation]
<1>1. wanted \in Deployments!Desired
  BY CommandsAssumption DEF Deployments!DeploymentAssumption, Deployments!Desired
<1>2. d.desired = <<wanted>> /\ d.observations = <<>> /\ d.reported = None /\ d.applied = None
      /\ d.reconciliation = "pending"
  BY DEF Deployments!createEdgeDeployment
<1>3. d \in Deployments!Deployment
  BY <1>1 DEF Deployments!createEdgeDeployment, Deployments!Deployment
<1>4. Deployments!Intent(d) = wanted /\ wanted.generation \in Nat
  BY <1>1, <1>2 DEF Deployments!Intent, Deployments!Last, Deployments!Desired
<1> HIDE DEF d, wanted
<1>5. Deployments!FollowsEvidence(d)
  BY <1>2 DEF Deployments!FollowsEvidence, Deployments!reconciliationFor
<1> QED
  BY <1>2, <1>3, <1>4, <1>5 DEF DeploymentIsTrue, Deployments!GenerationOf, d

\* An order of the cloud leaves what was observed as it is.
LEMMA ControlledDeployment ==
    ASSUME NEW d \in Deployments!Deployment, DeploymentIsTrue(d),
           NEW action \in Deployments!Actions
    PROVE  LET e == Deployments!Controlled(d, action) IN
           e \in Deployments!Deployment /\ DeploymentIsTrue(e) /\ DeploymentGoesOn(d, e)
<1> DEFINE e == Deployments!Controlled(d, action)
<1>1. action # "mark-unknown" => Deployments!Target[action]
        \in {"running", "paused", "cancel-requested", "completed", "completed-with-failures"}
  BY DEF Deployments!Target, Deployments!Actions
<1>2. e \in Deployments!Deployment
  BY <1>1, DeploymentParts, DeploymentFields DEF Deployments!Controlled
<1>3. /\ e.desired = d.desired /\ e.observations = d.observations
      /\ e.applied = d.applied /\ e.reported = d.reported
      /\ e.reconciliation \in {d.reconciliation, "unknown"}
      /\ e = d \/ e.revision = d.revision + 1
  BY DEF Deployments!Controlled, Deployments!Deployment
<1> HIDE DEF e
<1>4. Deployments!Intent(e) = Deployments!Intent(d)
  BY <1>3 DEF Deployments!Intent
<1>5. Deployments!FollowsEvidence(e)
  <2>1. Deployments!FollowsEvidence(d)
    BY DEF DeploymentIsTrue
  <2>2. \A i \in DOMAIN e.observations :
          Deployments!IsLastEvidence(e, i) => Deployments!IsLastEvidence(d, i)
    BY <1>3, <1>4 DEF Deployments!IsLastEvidence
  <2> QED
    BY <1>3, <1>4, <2>1, <2>2 DEF Deployments!FollowsEvidence
<1>6. DeploymentIsTrue(e)
  BY <1>3, <1>4, <1>5 DEF DeploymentIsTrue
<1>7. DeploymentGoesOn(d, e)
  BY <1>2, <1>3, DeploymentFields, DeploymentPrefixGrows
  DEF DeploymentGoesOn, Deployments!Precedes
<1> QED
  BY <1>2, <1>6, <1>7 DEF e

\* Of a new intent nothing has been observed.
LEMMA RolledBackDeployment ==
    ASSUME NEW d \in Deployments!Deployment, DeploymentIsTrue(d), NEW k \in Rollbacks,
           k.generation > Deployments!Intent(d).generation
    PROVE  LET e == Deployments!RolledBack(d, k) IN
           e \in Deployments!Deployment /\ DeploymentIsTrue(e) /\ DeploymentGoesOn(d, e)
<1> DEFINE e == Deployments!RolledBack(d, k)
           wanted == [artifact |-> k.artifact, generation |-> k.generation]
           desired == Append(d.desired, wanted)
           state == Deployments!reconciliationFor(wanted, d.applied)
<1>1. wanted \in Deployments!Desired /\ k.generation \in Nat
  BY CommandsAssumption DEF Deployments!DeploymentAssumption, Deployments!Desired
<1>2. desired \in Seq(Deployments!Desired) /\ Len(desired) > 0
      /\ desired[Len(desired)] = wanted
  BY <1>1, DeploymentFields
<1>3. state \in {"pending", "in-sync", "drifted", "failed", "unknown"}
  BY DEF Deployments!reconciliationFor
<1>4. e = [d EXCEPT !.desired = desired, !.rollout = "running", !.reconciliation = state,
                    !.revision = @ + 1]
  BY DEF Deployments!RolledBack
<1>5. Deployments!IsPrefix(d.desired, desired)
  BY <1>1, DeploymentFields, DeploymentPrefixGrows
<1> HIDE DEF e, desired, state
<1>6. e \in Deployments!Deployment
  <2>1. d.observations \in Seq(Deployments!Observations)
        /\ d.reported \in Deployments!Observations \cup {None}
    BY DeploymentFields
  <2> QED
    BY <1>2, <1>3, <1>4, <2>1, DeploymentParts
<1>7. /\ e.desired = desired /\ e.observations = d.observations
      /\ e.applied = d.applied /\ e.reported = d.reported
      /\ e.reconciliation = state /\ e.revision = d.revision + 1
  BY <1>4 DEF Deployments!Deployment
<1>8. Deployments!Intent(e) = wanted
  BY <1>2, <1>7 DEF Deployments!Intent, Deployments!Last
<1>9. wanted.generation = k.generation
  OBVIOUS
<1> HIDE DEF wanted
<1>10. Deployments!Intent(d).generation \in Nat /\ Len(d.desired) > 0
  BY DeploymentFields DEF DeploymentIsTrue
<1>11. \A i \in DOMAIN d.observations :
         /\ d.observations[i].generation \in Nat
         /\ d.observations[i].generation < k.generation
  <2>1. \A o \in Deployments!Observations : o.generation \in Nat
    BY CommandsAssumption DEF Deployments!DeploymentAssumption, Deployments!Observations,
       Deployments!IsObservation
  <2> QED
    BY <1>1, <1>10, <2>1, DeploymentFields DEF DeploymentIsTrue
<1>12. Deployments!FollowsEvidence(e)
  <2>1. \A i \in DOMAIN e.observations : ~Deployments!IsLastEvidence(e, i)
    BY <1>7, <1>8, <1>9, <1>11 DEF Deployments!IsLastEvidence, Deployments!IsEvidenceOf
  <2> QED
    BY <1>7, <1>8, <2>1 DEF Deployments!FollowsEvidence, state
<1>13. DeploymentIsTrue(e)
  <2>1. Deployments!GenerationOf(d.applied) <= Deployments!Intent(d).generation
        /\ Deployments!GenerationOf(d.reported) <= Deployments!Intent(d).generation
    BY DEF DeploymentIsTrue
  <2>2. Deployments!GenerationOf(e.applied) <= Deployments!Intent(e).generation
        /\ Deployments!GenerationOf(e.reported) <= Deployments!Intent(e).generation
    BY <1>1, <1>7, <1>8, <1>9, <1>10, <2>1, DeploymentFields
  <2>3. \A i \in DOMAIN e.observations :
          e.observations[i].generation <= Deployments!Intent(e).generation
    BY <1>1, <1>7, <1>8, <1>9, <1>11
  <2> QED
    BY <1>2, <1>7, <1>12, <2>2, <2>3 DEF DeploymentIsTrue
<1>14. DeploymentGoesOn(d, e)
  BY <1>5, <1>6, <1>7, DeploymentFields, DeploymentPrefixGrows
  DEF DeploymentGoesOn, Deployments!Precedes
<1> QED
  BY <1>6, <1>13, <1>14 DEF e

\* A new observation of the current intent, or of one before it.
LEMMA ObservedDeployment ==
    ASSUME NEW d \in Deployments!Deployment, DeploymentIsTrue(d),
           NEW o \in Deployments!Observations,
           o.generation <= Deployments!Intent(d).generation
    PROVE  LET e == Deployments!Observed(d, o) IN
           e \in Deployments!Deployment /\ DeploymentIsTrue(e) /\ DeploymentGoesOn(d, e)
<1> DEFINE e == Deployments!Observed(d, o)
           seen == Append(d.observations, o)
           wanted == Deployments!Intent(d)
           applied == IF o.kind \in Deployments!Evidence THEN o ELSE d.applied
<1>1. o.generation \in Nat /\ wanted \in Deployments!Desired /\ wanted.generation \in Nat
      /\ Len(d.desired) > 0 /\ o # None
  BY CommandsAssumption, DeploymentFields
  DEF Deployments!DeploymentAssumption, Deployments!Observations, Deployments!IsObservation,
      DeploymentIsTrue, Deployments!NoneIsNoRecord
<1>2. /\ d.observations \in Seq(Deployments!Observations)
      /\ seen \in Seq(Deployments!Observations) /\ Len(seen) = Len(d.observations) + 1
      /\ seen[Len(seen)] = o /\ \A i \in DOMAIN d.observations : seen[i] = d.observations[i]
      /\ DOMAIN seen = DOMAIN d.observations \cup {Len(seen)}
      /\ \A i \in DOMAIN d.observations : i < Len(seen) /\ i \in Nat
  BY DeploymentFields
<1>3. Deployments!IsPrefix(d.observations, seen)
  BY DeploymentFields, DeploymentPrefixGrows
<1> HIDE DEF seen
<1>4. Deployments!Desired # {} /\ d.desired \in Seq(Deployments!Desired)
      /\ applied \in Deployments!Observations \cup {None}
  BY <1>1, DeploymentFields
<1>5. CASE Deployments!isLate(d, o)
  <2>1. e = [d EXCEPT !.observations = seen, !.revision = @ + 1]
    BY <1>5 DEF Deployments!Observed, seen
  <2> HIDE DEF e
  <2>2. e \in Deployments!Deployment
    <3>1. d.reported \in Deployments!Observations \cup {None}
      BY DeploymentFields
    <3> QED
      BY <1>2, <1>4, <2>1, <3>1, DeploymentParts
  <2>3. /\ e.desired = d.desired /\ e.observations = seen
        /\ e.applied = d.applied /\ e.reported = d.reported
        /\ e.reconciliation = d.reconciliation /\ e.revision = d.revision + 1
    BY <2>1 DEF Deployments!Deployment
  <2>4. Deployments!Intent(e) = wanted
    BY <2>3 DEF Deployments!Intent
  <2>5. o.generation < wanted.generation
    BY <1>5 DEF Deployments!isLate
  <2> HIDE DEF wanted
  <2>6. Deployments!FollowsEvidence(e)
    <3>1. ASSUME NEW i \in DOMAIN seen, Deployments!IsLastEvidence(e, i)
          PROVE  i \in DOMAIN d.observations /\ Deployments!IsLastEvidence(d, i)
      <4>1. Deployments!IsEvidenceOf(wanted.generation, seen[i])
        BY <2>3, <2>4, <3>1 DEF Deployments!IsLastEvidence
      <4>2. i # Len(seen)
        BY <1>1, <1>2, <2>5, <4>1 DEF Deployments!IsEvidenceOf
      <4> QED
        BY <1>2, <2>3, <2>4, <3>1, <4>1, <4>2 DEF Deployments!IsLastEvidence, wanted
    <3>2. Deployments!FollowsEvidence(d)
      BY DEF DeploymentIsTrue
    <3> QED
      BY <1>2, <2>3, <2>4, <3>1, <3>2 DEF Deployments!FollowsEvidence, wanted
  <2>7. DeploymentIsTrue(e)
    <3>1. \A i \in DOMAIN e.observations : e.observations[i].generation <= wanted.generation
      BY <1>1, <1>2, <2>3 DEF DeploymentIsTrue, wanted
    <3> QED
      BY <1>1, <2>3, <2>4, <2>6, <3>1 DEF DeploymentIsTrue, wanted
  <2>8. DeploymentGoesOn(d, e)
    BY <1>3, <2>2, <2>3, DeploymentFields, DeploymentPrefixGrows
    DEF DeploymentGoesOn, Deployments!Precedes
  <2> QED
    BY <2>2, <2>7, <2>8 DEF e
<1>6. CASE ~Deployments!isLate(d, o)
  <2> DEFINE rollout == Deployments!RolloutAfter(d, o)
             state == Deployments!reconciliationFor(wanted, applied)
  <2>1. e = [d EXCEPT !.observations = seen, !.revision = @ + 1, !.reported = o,
                      !.applied = applied, !.rollout = rollout, !.reconciliation = state]
    BY <1>6 DEF Deployments!Observed, seen, Deployments!Deployment
  <2>2. state \in {"pending", "in-sync", "drifted", "failed", "unknown"}
    BY DEF Deployments!reconciliationFor
  <2>3. rollout \in {"running", "paused", "cancel-requested", "completed",
                     "completed-with-failures"}
    BY DEF Deployments!RolloutAfter, Deployments!Deployment
  <2>4. o.generation = wanted.generation
    BY <1>1, <1>6 DEF Deployments!isLate
  <2> HIDE DEF e, state, rollout
  <2>5. e \in Deployments!Deployment
    <3> DEFINE D == Seq(Deployments!Desired)
               O == Seq(Deployments!Observations)
               N == Deployments!Observations \cup {None}
               R == {"running", "paused", "cancel-requested", "completed",
                     "completed-with-failures"}
               S == {"pending", "in-sync", "drifted", "failed", "unknown"}
               P == Nat \ {0}
    <3>1. Deployments!Deployment =
            [desired : D, observations : O, reported : N, applied : N, rollout : R,
             reconciliation : S, revision : P]
      BY DEF Deployments!Deployment
    <3>2. seen \in O /\ o \in N /\ applied \in N /\ rollout \in R /\ state \in S
      BY <1>2, <1>4, <2>2, <2>3
    <3>3. PICK next \in P : next = d.revision + 1
      BY DeploymentFields
    <3> HIDE DEF D, O, N, R, S, P, applied, wanted
    <3>4. e = [d EXCEPT !.observations = seen, !.revision = next, !.reported = o,
                        !.applied = applied, !.rollout = rollout, !.reconciliation = state]
      BY <2>1, <3>3
    <3> QED
      BY <3>1, <3>2, <3>4
  <2>6. /\ e.desired = d.desired /\ e.observations = seen
        /\ e.applied = applied /\ e.reported = o
        /\ e.reconciliation = state /\ e.revision = d.revision + 1
    BY <2>1 DEF Deployments!Deployment
  <2>7. Deployments!Intent(e) = wanted
    BY <2>6 DEF Deployments!Intent
  <2> HIDE DEF wanted
  <2>8. Deployments!FollowsEvidence(e)
    <3>1. Deployments!FollowsEvidence(d)
      BY DEF DeploymentIsTrue
    <3>2. ASSUME NEW i \in DOMAIN seen, Deployments!IsLastEvidence(e, i)
          PROVE  applied = seen[i]
      <4>1. /\ Deployments!IsEvidenceOf(wanted.generation, seen[i])
            /\ \A j \in DOMAIN seen :
                 j > i => ~Deployments!IsEvidenceOf(wanted.generation, seen[j])
        BY <2>6, <2>7, <3>2 DEF Deployments!IsLastEvidence
      <4>2. CASE o.kind \in Deployments!Evidence
        <5>1. Deployments!IsEvidenceOf(wanted.generation, seen[Len(seen)])
          BY <1>2, <2>4, <4>2 DEF Deployments!IsEvidenceOf
        <5>2. i = Len(seen)
          BY <1>2, <4>1, <5>1
        <5> QED
          BY <1>2, <4>2, <5>2
      <4>3. CASE o.kind \notin Deployments!Evidence
        <5>1. i \in DOMAIN d.observations
          BY <1>2, <4>1, <4>3 DEF Deployments!IsEvidenceOf
        <5>2. Deployments!IsLastEvidence(d, i)
          BY <1>2, <4>1, <5>1 DEF Deployments!IsLastEvidence, wanted
        <5> QED
          BY <1>2, <3>1, <4>3, <5>1, <5>2 DEF Deployments!FollowsEvidence
      <4> QED
        BY <4>2, <4>3
    <3> QED
      BY <2>6, <2>7, <3>2 DEF Deployments!FollowsEvidence, state
  <2>9. Deployments!GenerationOf(o) = wanted.generation
    BY <1>1, <2>4 DEF Deployments!GenerationOf
  <2>10. /\ Deployments!GenerationOf(d.applied) <= wanted.generation
         /\ Deployments!GenerationOf(d.reported) <= wanted.generation
    BY DEF DeploymentIsTrue, wanted
  <2>11. /\ Deployments!GenerationOf(applied) <= wanted.generation
         /\ Deployments!GenerationOf(d.applied) <= Deployments!GenerationOf(applied)
    BY <1>1, <2>9, <2>10, DeploymentFields
  <2>12. DeploymentIsTrue(e)
    <3>1. \A i \in DOMAIN e.observations : e.observations[i].generation <= wanted.generation
      BY <1>1, <1>2, <2>6 DEF DeploymentIsTrue, wanted
    <3> QED
      BY <1>1, <2>6, <2>7, <2>8, <2>9, <2>11, <3>1 DEF DeploymentIsTrue
  <2>13. DeploymentGoesOn(d, e)
    <3>1. Deployments!IsPrefix(d.desired, e.desired) /\ d.revision \in Nat
      BY <2>6, DeploymentFields, DeploymentPrefixGrows
    <3> HIDE DEF applied
    <3> QED
      BY <1>3, <2>6, <2>9, <2>10, <2>11, <3>1 DEF DeploymentGoesOn, Deployments!Precedes
  <2> QED
    BY <2>5, <2>12, <2>13 DEF e
<1> QED
  BY <1>5, <1>6

LEMMA DeploymentInit == Deployments!Init => DeploymentInv
BY DEF Deployments!Init, DeploymentInv, Deployments!TypeOK, DeploymentCopies

\* A command has read the deployment.
LEMMA DeploymentBegins ==
    ASSUME DeploymentInv, NEW p \in Processes, NEW r \in DeploymentRequests,
           NEW current, current \in {None, deployment},
           NEW next \in Deployments!Deployment, DeploymentIsTrue(next),
           current # None => DeploymentGoesOn(current, next),
           NEW wanted \in Artifacts \cup {None},
           Deployments!Begin(p, r, current, next, wanted)
    PROVE  DeploymentInv'
<1> DEFINE call == [request |-> r, current |-> current, next |-> next, wanted |-> wanted]
<1>1. UNCHANGED <<deployment, deploymentRequests, published>>
      /\ deploying' = [deploying EXCEPT ![p] = call]
  BY DEF Deployments!Begin
<1>2. call.current = current /\ call.next = next
  OBVIOUS
<1>3. call \in Deployments!Call
  BY DEF Deployments!Call, DeploymentInv, Deployments!TypeOK
<1> HIDE DEF call
<1>4. Deployments!TypeOK'
  BY <1>1, <1>3 DEF DeploymentInv, Deployments!TypeOK
<1>5. current # None => deployment # None /\ DeploymentGoesOn(current, deployment)
  BY DeploymentGoesOnOrder DEF DeploymentInv, Deployments!TypeOK
<1>6. deploying \in [Processes -> Deployments!Call \cup {None}]
  BY DEF DeploymentInv, Deployments!TypeOK
<1>7. DeploymentCopies'
  <2> SUFFICES ASSUME NEW q \in Processes, deploying'[q] # None
               PROVE  /\ DeploymentIsTrue(deploying'[q].next)
                      /\ deploying'[q].current # None =>
                           /\ deployment # None
                           /\ DeploymentGoesOn(deploying'[q].current, deployment)
                           /\ DeploymentGoesOn(deploying'[q].current, deploying'[q].next)
    BY <1>1 DEF DeploymentCopies, DeploymentIsTrue, DeploymentGoesOn, Deployments!Precedes
  <2>1. CASE q = p
    <3>1. deploying'[q] = call
      BY <1>1, <1>6, <2>1
    <3> QED
      BY <1>2, <1>5, <3>1
  <2>2. CASE q # p
    <3>1. deploying'[q] = deploying[q]
      BY <1>1, <1>6, <2>2
    <3> QED
      BY <3>1 DEF DeploymentInv, DeploymentCopies
  <2> QED
    BY <2>1, <2>2
<1> QED
  BY <1>1, <1>4, <1>7 DEF DeploymentInv, DeploymentIsTrue, Deployments!Precedes

\* A step that ends a command, or takes it on, and stores nothing.
LEMMA DeploymentIdles ==
    ASSUME DeploymentInv, UNCHANGED <<deployment, deploymentRequests>>,
           published' \subseteq Artifacts,
           deploying' \in [Processes -> Deployments!Call \cup {None}],
           \A p \in Processes : deploying'[p] # None =>
              /\ deploying[p] # None
              /\ deploying'[p].current = deploying[p].current
              /\ deploying'[p].next = deploying[p].next
    PROVE  DeploymentInv'
<1>1. Deployments!TypeOK'
  BY DEF DeploymentInv, Deployments!TypeOK
<1>2. DeploymentCopies'
  BY DEF DeploymentInv, DeploymentCopies, DeploymentIsTrue, DeploymentGoesOn,
     Deployments!Precedes
<1> QED
  BY <1>1, <1>2 DEF DeploymentInv, DeploymentIsTrue, Deployments!Precedes

\* What is written goes on from the stored deployment.
LEMMA DeploymentWrites ==
    ASSUME DeploymentInv, NEW p \in Processes, Deployments!Write(p)
    PROVE  DeploymentInv'
<1> DEFINE call == deploying[p]
           row == Deployments!Deployment
<1>1. /\ call \in Deployments!Call /\ call # None
      /\ Deployments!isExpectedRevision(call)
      /\ deployment' = call.next
      /\ deploymentRequests' = [deploymentRequests EXCEPT ![call.request] = call.next]
      /\ deploying' = [deploying EXCEPT ![p] = None]
      /\ UNCHANGED published
  BY DEF Deployments!Write, Deployments!Return, DeploymentInv, Deployments!TypeOK
<1>2. /\ call.next \in row /\ call.current \in row \cup {None} /\ call.next # None
      /\ call.request \in DeploymentRequests /\ DeploymentIsTrue(call.next)
      /\ deployment \in row \cup {None}
      /\ deploymentRequests \in [DeploymentRequests -> row \cup {None}]
      /\ deploying \in [Processes -> Deployments!Call \cup {None}]
  BY <1>1, CommandsAssumption
  DEF Deployments!Call, DeploymentInv, Deployments!TypeOK, DeploymentCopies,
      Deployments!NoneIsNoRecord
<1>3. deployment # None => DeploymentGoesOn(deployment, call.next)
  BY <1>1, <1>2 DEF Deployments!isExpectedRevision, DeploymentInv, DeploymentCopies,
     DeploymentGoesOn
<1> DEFINE next == call.next
<1>4. PICK new \in row : new = next
  BY <1>2
<1> HIDE DEF row
<1>5. Deployments!TypeOK'
  BY <1>1, <1>2, <1>4 DEF DeploymentInv, Deployments!TypeOK, row
<1>6. ASSUME NEW a \in row, deployment # None, Deployments!Precedes(a, deployment)
      PROVE  Deployments!Precedes(a, new)
  BY <1>2, <1>3, <1>4, <1>6, DeploymentGoesOnOrder DEF DeploymentGoesOn, row
<1>7. ASSUME NEW a \in row, deployment # None, DeploymentGoesOn(a, deployment)
      PROVE  DeploymentGoesOn(a, new)
  BY <1>2, <1>3, <1>4, <1>7, DeploymentGoesOnOrder DEF row
<1>8. DeploymentCopies'
  <2> SUFFICES ASSUME NEW q \in Processes, deploying'[q] # None
               PROVE  /\ DeploymentIsTrue(deploying'[q].next)
                      /\ deploying'[q].current # None =>
                           /\ new # None
                           /\ DeploymentGoesOn(deploying'[q].current, new)
                           /\ DeploymentGoesOn(deploying'[q].current, deploying'[q].next)
    BY <1>1, <1>4 DEF DeploymentCopies, DeploymentIsTrue, DeploymentGoesOn,
       Deployments!Precedes
  <2>1. deploying'[q] = deploying[q] /\ deploying[q] \in Deployments!Call
    BY <1>1, <1>2
  <2>2. deploying[q].current \in row \cup {None}
    BY <2>1 DEF Deployments!Call, row
  <2>3. /\ DeploymentIsTrue(deploying[q].next)
        /\ deploying[q].current # None =>
             /\ deployment # None
             /\ DeploymentGoesOn(deploying[q].current, deployment)
             /\ DeploymentGoesOn(deploying[q].current, deploying[q].next)
    BY <2>1 DEF DeploymentInv, DeploymentCopies
  <2> QED
    BY <1>2, <1>4, <1>7, <2>1, <2>2, <2>3
<1>9. \A r \in DeploymentRequests : deploymentRequests'[r] # None =>
         Deployments!Precedes(deploymentRequests'[r], new)
  <2> SUFFICES ASSUME NEW r \in DeploymentRequests, deploymentRequests'[r] # None
               PROVE  Deployments!Precedes(deploymentRequests'[r], new)
    OBVIOUS
  <2>1. CASE r = call.request
    <3>1. deploymentRequests'[r] = new
      BY <1>1, <1>2, <1>4, <2>1
    <3> QED
      BY <3>1, DeploymentGoesOnOrder DEF DeploymentGoesOn, row
  <2>2. CASE r # call.request
    <3>1. deploymentRequests'[r] = deploymentRequests[r] /\ deploymentRequests[r] \in row
      BY <1>1, <1>2, <2>2
    <3>2. deployment # None /\ Deployments!Precedes(deploymentRequests[r], deployment)
      BY <3>1 DEF DeploymentInv
    <3> QED
      BY <1>6, <3>1, <3>2
  <2> QED
    BY <2>1, <2>2
<1>10. deployment' = new /\ new # None /\ DeploymentIsTrue(new)
  BY <1>1, <1>2, <1>4
<1> QED
  BY <1>5, <1>8, <1>9, <1>10 DEF DeploymentInv, DeploymentIsTrue, Deployments!Precedes

LEMMA DeploymentNext ==
    ASSUME DeploymentInv, [Deployments!Next]_(Deployments!vars)
    PROVE  DeploymentInv'
<1>1. deployment \in Deployments!Deployment \cup {None}
      /\ (deployment # None => DeploymentIsTrue(deployment))
      /\ published \subseteq Artifacts
      /\ deploying \in [Processes -> Deployments!Call \cup {None}]
  BY DEF DeploymentInv, Deployments!TypeOK
<1>2. ASSUME NEW p \in Processes, NEW k \in Starts, Deployments!StartRead(p, k)
      PROVE  DeploymentInv'
  <2>1. k.request \in DeploymentRequests
    BY CommandsAssumption DEF Deployments!DeploymentAssumption
  <2>2. Deployments!Begin(p, k.request, None, Deployments!createEdgeDeployment(k), None)
    BY <1>2 DEF Deployments!StartRead
  <2> QED
    BY <2>1, <2>2, CreatedDeployment, DeploymentBegins
<1>3. ASSUME NEW p \in Processes, NEW k \in Controls, Deployments!ControlRead(p, k)
      PROVE  DeploymentInv'
  <2>1. k.request \in DeploymentRequests /\ k.action \in Deployments!Actions
    BY CommandsAssumption DEF Deployments!DeploymentAssumption
  <2>2. deployment # None
        /\ Deployments!Begin(p, k.request, deployment,
                             Deployments!Controlled(deployment, k.action), None)
    BY <1>3 DEF Deployments!ControlRead
  <2> QED
    BY <1>1, <2>1, <2>2, ControlledDeployment, DeploymentBegins
<1>4. ASSUME NEW p \in Processes, NEW k \in Rollbacks, Deployments!RollbackRead(p, k)
      PROVE  DeploymentInv'
  <2>1. k.request \in DeploymentRequests /\ k.artifact \in Artifacts \cup {None}
    BY CommandsAssumption DEF Deployments!DeploymentAssumption
  <2>2. deployment # None /\ k.generation > Deployments!Intent(deployment).generation
        /\ Deployments!Begin(p, k.request, deployment,
                             Deployments!RolledBack(deployment, k), k.artifact)
    BY <1>4 DEF Deployments!RollbackRead
  <2> QED
    BY <1>1, <2>1, <2>2, RolledBackDeployment, DeploymentBegins
<1>5. ASSUME NEW p \in Processes, NEW k \in DeploymentReports, Deployments!ReportRead(p, k)
      PROVE  DeploymentInv'
  <2>1. k.request \in DeploymentRequests /\ k.observation \in Deployments!Observations
    BY CommandsAssumption DEF Deployments!DeploymentAssumption, Deployments!Observations
  <2>2. deployment # None
        /\ k.observation.generation <= Deployments!Intent(deployment).generation
        /\ Deployments!Begin(p, k.request, deployment,
                             Deployments!Observed(deployment, k.observation), None)
    BY <1>5 DEF Deployments!ReportRead
  <2> QED
    BY <1>1, <2>1, <2>2, ObservedDeployment, DeploymentBegins
<1>6. ASSUME NEW p \in Processes, Deployments!FindArtifact(p) PROVE DeploymentInv'
  <2>1. deploying' = [deploying EXCEPT ![p].wanted = None] /\ deploying[p] # None
        /\ UNCHANGED <<deployment, deploymentRequests, published>>
    BY <1>6 DEF Deployments!FindArtifact
  <2>2. deploying[p] \in Deployments!Call
    BY <1>1, <2>1
  <2>3. [deploying[p] EXCEPT !.wanted = None] \in Deployments!Call
    BY <2>2 DEF Deployments!Call
  <2>4. deploying' \in [Processes -> Deployments!Call \cup {None}]
    BY <1>1, <2>1, <2>3
  <2>5. \A q \in Processes : deploying'[q] # None =>
           /\ deploying[q] # None
           /\ deploying'[q].current = deploying[q].current
           /\ deploying'[q].next = deploying[q].next
    BY <1>1, <2>1, <2>2 DEF Deployments!Call
  <2> QED
    BY <1>1, <2>1, <2>4, <2>5, DeploymentIdles
<1>7. ASSUME NEW p \in Processes, Deployments!Fail(p) PROVE DeploymentInv'
  BY <1>1, <1>7, DeploymentIdles DEF Deployments!Fail, Deployments!Return
<1>8. CASE Deployments!Withdraw
  BY <1>1, <1>8, DeploymentIdles DEF Deployments!Withdraw
<1>9. CASE UNCHANGED Deployments!vars
  BY <1>1, <1>9, DeploymentIdles DEF Deployments!vars
<1> QED
  BY <1>2, <1>3, <1>4, <1>5, <1>6, <1>7, <1>8, <1>9, DeploymentWrites
  DEF Deployments!Next, Deployments!Step

----------------------------------------------------------------------------
(***************************************************************************)
(* Alarms.                                                                 *)
(***************************************************************************)

\* An alarm shows the last of the stored facts of its occurrence.
AlarmShows(o, a, stored) ==
    /\ a = None <=> \A f \in stored : f.occurrence # o
    /\ a # None =>
         /\ a.fact \in stored /\ a.fact.occurrence = o
         /\ \A f \in stored : f.occurrence = o =>
               /\ f.generation <= a.fact.generation
               /\ f.generation = a.fact.generation => f.sequence <= a.fact.sequence
         /\ a.gap <=> ~Alarms!isContiguous(stored, a.fact)

\* It is acknowledged by whoever gave an order to, and by nobody else.
AlarmAcknowledged(o, a, given) ==
    /\ \A r \in Alarms!OrderRequests : given[r] # None /\ given[r].occurrence = o =>
          a # None /\ a.acknowledged /\ a.by = given[r].subject
    /\ a # None /\ a.acknowledged =>
          \E r \in Alarms!OrderRequests :
             given[r] # None /\ given[r].occurrence = o /\ a.by = given[r].subject

AlarmInv ==
    /\ Alarms!TypeOK
    /\ \A o \in Occurrences : /\ AlarmShows(o, alarm[o], facts)
                              /\ AlarmAcknowledged(o, alarm[o], acknowledged)

LEMMA AlarmInit == Alarms!Init => AlarmInv
BY DEF Alarms!Init, AlarmInv, Alarms!TypeOK, AlarmShows, AlarmAcknowledged

LEMMA FactFields ==
    ASSUME NEW f \in Alarms!Facts
    PROVE  /\ f.occurrence \in Occurrences /\ f.generation \in Nat /\ f.sequence \in Nat
           /\ f # None
BY CommandsAssumption DEF Alarms!AlarmAssumption, Alarms!IsFact, Alarms!NoneIsNoRecord

LEMMA BroughtFields ==
    ASSUME NEW d \in AlarmDeliveries
    PROVE  d.fact \in Alarms!Facts /\ d.gateway \in Alarms!Gateways
           /\ d.request \in Alarms!DeliveryRequests
BY DEF Alarms!Facts, Alarms!Gateways, Alarms!DeliveryRequests

LEMMA AlarmFields ==
    ASSUME NEW a \in Alarms!Alarm
    PROVE  /\ a.fact \in Alarms!Facts /\ a.gap \in BOOLEAN /\ a.acknowledged \in BOOLEAN
           /\ a.revision \in Nat \ {0} /\ a # None
BY CommandsAssumption DEF Alarms!Alarm, Alarms!NoneIsNoRecord

\* What has no gap before it keeps none when more is stored.
LEMMA ContiguousStays ==
    ASSUME NEW stored, NEW more, stored \subseteq more, NEW f,
           Alarms!isContiguous(stored, f)
    PROVE  Alarms!isContiguous(more, f)
BY DEF Alarms!isContiguous, Alarms!Sequences

\* The first of a generation, and the one after what has no gap, have none before them.
LEMMA ContiguousFirst ==
    ASSUME NEW stored, NEW f \in Alarms!Facts, f \in stored, f.sequence = 0
    PROVE  Alarms!isContiguous(stored, f)
<1>1. f.sequence \in Alarms!Sequences(stored, f)
  BY DEF Alarms!Sequences, Alarms!sameOccurrence
<1>2. 0..f.sequence = {f.sequence}
  OBVIOUS
<1> QED
  BY <1>1, <1>2 DEF Alarms!isContiguous

LEMMA ContiguousNext ==
    ASSUME NEW stored, NEW f \in Alarms!Facts, NEW g \in Alarms!Facts,
           f.occurrence = g.occurrence, f.generation = g.generation,
           f.sequence = g.sequence + 1, Alarms!isContiguous(stored, g)
    PROVE  Alarms!isContiguous(stored \cup {f}, f)
<1> DEFINE more == stored \cup {f}
<1>1. f.sequence \in Alarms!Sequences(more, f)
  BY DEF Alarms!Sequences, Alarms!sameOccurrence
<1>2. Alarms!Sequences(stored, g) \subseteq Alarms!Sequences(more, f)
  BY DEF Alarms!Sequences, Alarms!sameOccurrence
<1>3. 0..f.sequence = 0..g.sequence \cup {f.sequence}
  BY FactFields
<1> QED
  BY <1>1, <1>2, <1>3 DEF Alarms!isContiguous

\* The projection of a fact that is to be shown.
LEMMA AlarmProjected ==
    ASSUME NEW d \in AlarmDeliveries, NEW a \in Alarms!Alarm \cup {None}
    PROVE  LET next == Alarms!nextProjection(a, d) IN
           /\ next \in Alarms!Alarm /\ next.fact = d.fact
           /\ a # None => next.acknowledged = a.acknowledged /\ next.by = a.by
           /\ a = None => ~next.acknowledged
           /\ a = None => next.gap = Alarms!skips(a, d.fact)
           /\ a # None => next.gap = (a.gap \/ Alarms!skips(a, d.fact))
<1> DEFINE S == {k.subject : k \in AlarmOrders} \cup {None}
           N == Nat \ {0}
           next == Alarms!nextProjection(a, d)
<1>1. Alarms!Alarm = [gateway : Alarms!Gateways, fact : Alarms!Facts, gap : BOOLEAN,
                      acknowledged : BOOLEAN, by : S, revision : N]
  BY DEF Alarms!Alarm
<1>2. PICK gap \in BOOLEAN : gap = ((a # None /\ a.gap) \/ Alarms!skips(a, d.fact))
  OBVIOUS
<1>3. d.fact \in Alarms!Facts /\ d.gateway \in Alarms!Gateways
  BY BroughtFields
<1>4. CASE a = None
  <2>4. Alarms!skips(a, d.fact) \in BOOLEAN
    BY <1>4 DEF Alarms!skips
  <2>5. gap = Alarms!skips(a, d.fact)
    BY <1>2, <1>4, <2>4
  <2>6. next = [gateway |-> d.gateway, fact |-> d.fact, gap |-> Alarms!skips(None, d.fact),
                acknowledged |-> FALSE, by |-> None, revision |-> 1]
    BY <1>4 DEF Alarms!nextProjection
  <2>1. next = [gateway |-> d.gateway, fact |-> d.fact, gap |-> gap,
                acknowledged |-> FALSE, by |-> None, revision |-> 1]
    BY <1>4, <2>5, <2>6
  <2> HIDE DEF next
  <2>2. None \in S /\ 1 \in N
    OBVIOUS
  <2> HIDE DEF S, N
  <2>3. next \in Alarms!Alarm
    BY <1>1, <1>3, <2>1, <2>2
  <2> QED
    BY <1>4, <2>1, <2>3, <2>5 DEF next
<1>5. CASE a # None
  <2>1. a \in Alarms!Alarm /\ a.gap \in BOOLEAN
    BY <1>5, AlarmFields
  <2>2. PICK revision \in N : revision = a.revision + 1
    BY <2>1, AlarmFields
  <2>3. next = [a EXCEPT !.fact = d.fact, !.gap = gap, !.revision = revision]
    BY <1>1, <1>2, <1>5, <2>1, <2>2 DEF Alarms!nextProjection
  <2> HIDE DEF next, S, N
  <2>4. /\ next \in Alarms!Alarm
        /\ next.fact = d.fact /\ next.gap = gap
        /\ next.acknowledged = a.acknowledged /\ next.by = a.by
    BY <1>1, <1>3, <2>1, <2>3
  <2> QED
    BY <1>2, <1>5, <2>4 DEF next
<1> QED
  BY <1>4, <1>5

\* A gap is resolved as soon as there is none, and nothing else changes.
LEMMA GapResolved ==
    ASSUME NEW stored, NEW a \in Alarms!Alarm,
           ~Alarms!isContiguous(stored, a.fact) => a.gap
    PROVE  LET next == Alarms!resolveGap(stored, a) IN
           /\ next \in Alarms!Alarm /\ next.fact = a.fact
           /\ next.acknowledged = a.acknowledged /\ next.by = a.by
           /\ next.gap <=> ~Alarms!isContiguous(stored, a.fact)
<1> DEFINE S == {k.subject : k \in AlarmOrders} \cup {None}
           N == Nat \ {0}
           next == Alarms!resolveGap(stored, a)
           no == FALSE
<1>1. Alarms!Alarm = [gateway : Alarms!Gateways, fact : Alarms!Facts, gap : BOOLEAN,
                      acknowledged : BOOLEAN, by : S, revision : N]
  BY DEF Alarms!Alarm
<1>2. CASE a.gap /\ Alarms!isContiguous(stored, a.fact)
  <2>1. PICK revision \in N : revision = a.revision + 1
    BY AlarmFields
  <2>2. next = [a EXCEPT !.gap = FALSE, !.revision = revision]
    BY <1>2, <2>1 DEF Alarms!resolveGap
  <2> HIDE DEF next, S, N
  <2>3. /\ next \in Alarms!Alarm /\ next.fact = a.fact /\ next.gap = FALSE
        /\ next.acknowledged = a.acknowledged /\ next.by = a.by
    BY <1>1, <2>2
  <2> QED
    BY <1>2, <2>3 DEF next
<1>3. CASE ~(a.gap /\ Alarms!isContiguous(stored, a.fact))
  BY <1>3 DEF Alarms!resolveGap
<1> QED
  BY <1>2, <1>3

LEMMA AlarmIngests ==
    ASSUME AlarmInv, NEW d \in AlarmDeliveries, Alarms!Ingest(d)
    PROVE  AlarmInv'
<1>1. PICK f \in Alarms!Facts, o \in Occurrences : f = d.fact /\ o = f.occurrence
  BY BroughtFields, FactFields
<1>2. PICK a \in Alarms!Alarm \cup {None} : a = alarm[o]
  BY DEF AlarmInv, Alarms!TypeOK
<1>3. PICK stored : stored = facts \cup {f}
  OBVIOUS
<1>4. PICK shownAlarm : shownAlarm = IF a # None => Alarms!isAfter(f, a.fact)
                                    THEN Alarms!nextProjection(a, d) ELSE a
  OBVIOUS
<1>5. /\ facts' = stored
      /\ ingested' = [ingested EXCEPT ![d.request] = f]
      /\ alarm' = [alarm EXCEPT ![o] = Alarms!resolveGap(stored, shownAlarm)]
      /\ UNCHANGED acknowledged
  BY <1>1, <1>2, <1>3, <1>4 DEF Alarms!Ingest
<1>6. /\ facts \subseteq Alarms!Facts
      /\ ingested \in [Alarms!DeliveryRequests -> Alarms!Facts \cup {None}]
      /\ alarm \in [Occurrences -> Alarms!Alarm \cup {None}]
      /\ acknowledged \in [Alarms!OrderRequests -> AlarmOrders \cup {None}]
  BY DEF AlarmInv, Alarms!TypeOK
<1>7. AlarmShows(o, a, facts) /\ AlarmAcknowledged(o, a, acknowledged)
  BY <1>2 DEF AlarmInv
\* What is shown, before gaps are resolved.
<1>8. /\ shownAlarm \in Alarms!Alarm
      /\ shownAlarm.fact \in stored /\ shownAlarm.fact.occurrence = o
      /\ \A g \in stored : g.occurrence = o =>
            /\ g.generation <= shownAlarm.fact.generation
            /\ g.generation = shownAlarm.fact.generation => g.sequence <= shownAlarm.fact.sequence
      /\ ~Alarms!isContiguous(stored, shownAlarm.fact) => shownAlarm.gap
      /\ AlarmAcknowledged(o, shownAlarm, acknowledged)
  <2>1. CASE a = None
    <3>1. PICK next \in Alarms!Alarm : /\ next = Alarms!nextProjection(a, d)
                                       /\ next.fact = f /\ ~next.acknowledged
                                       /\ next.gap = Alarms!skips(a, f)
      BY <1>1, <2>1, AlarmProjected
    <3>2. shownAlarm = next
      BY <1>4, <2>1, <3>1
    <3>3. \A g \in stored : g.occurrence = o => g = f
      BY <1>3, <1>7, <2>1 DEF AlarmShows
    <3>4. ~Alarms!isContiguous(stored, f) => next.gap
      BY <1>3, <2>1, <3>1, ContiguousFirst DEF Alarms!skips
    <3>5. AlarmAcknowledged(o, next, acknowledged)
      BY <1>7, <2>1, <3>1 DEF AlarmAcknowledged
    <3> QED
      BY <1>1, <1>3, <3>1, <3>2, <3>3, <3>4, <3>5, FactFields
  <2>2. CASE a # None /\ Alarms!isAfter(f, a.fact)
    <3>1. PICK next \in Alarms!Alarm :
             /\ next = Alarms!nextProjection(a, d) /\ next.fact = f
             /\ next.acknowledged = a.acknowledged /\ next.by = a.by
             /\ next.gap = (a.gap \/ Alarms!skips(a, f))
      BY <1>1, <2>2, AlarmProjected
    <3>2. shownAlarm = next
      BY <1>4, <2>2, <3>1
    <3>3. PICK last \in Alarms!Facts : last = a.fact
      BY <2>2, AlarmFields
    <3>4. /\ last.occurrence = o
          /\ \A g \in facts : g.occurrence = o =>
                /\ g.generation <= last.generation
                /\ g.generation = last.generation => g.sequence <= last.sequence
          /\ a.gap <=> ~Alarms!isContiguous(facts, last)
      BY <1>7, <2>2, <3>3 DEF AlarmShows
    <3>5. ASSUME NEW g \in stored, g.occurrence = o
          PROVE  /\ g.generation <= f.generation
                 /\ g.generation = f.generation => g.sequence <= f.sequence
      <4>1. CASE g = f
        BY <4>1, FactFields
      <4>2. CASE g \in facts
        <5>1. g \in Alarms!Facts
          BY <1>6, <4>2
        <5> QED
          BY <2>2, <3>3, <3>4, <3>5, <4>2, <5>1, FactFields DEF Alarms!isAfter
      <4> QED
        BY <1>3, <4>1, <4>2
    <3>6. ASSUME ~next.gap PROVE Alarms!isContiguous(stored, f)
      <4>1. Alarms!isContiguous(facts, last) /\ ~Alarms!skips(a, f)
        BY <3>1, <3>4, <3>6
      <4>2. CASE last.generation = f.generation
        <5>1. f.sequence = last.sequence + 1
          BY <2>2, <3>3, <4>1, <4>2 DEF Alarms!skips
        <5> QED
          BY <1>1, <1>3, <3>4, <4>1, <4>2, <5>1, ContiguousNext
      <4>3. CASE last.generation # f.generation
        BY <1>3, <2>2, <3>3, <4>1, <4>3, ContiguousFirst DEF Alarms!skips
      <4> QED
        BY <4>2, <4>3
    <3>7. AlarmAcknowledged(o, next, acknowledged)
      BY <1>7, <2>2, <3>1, AlarmFields DEF AlarmAcknowledged
    <3> QED
      BY <1>1, <1>3, <3>1, <3>2, <3>5, <3>6, <3>7
  <2>3. CASE a # None /\ ~Alarms!isAfter(f, a.fact)
    <3>1. shownAlarm = a /\ a \in Alarms!Alarm
      BY <1>4, <2>3
    <3>2. PICK last \in Alarms!Facts : last = a.fact
      BY <2>3, AlarmFields
    <3>3. /\ last \in facts /\ last.occurrence = o
          /\ \A g \in facts : g.occurrence = o =>
                /\ g.generation <= last.generation
                /\ g.generation = last.generation => g.sequence <= last.sequence
          /\ a.gap <=> ~Alarms!isContiguous(facts, last)
      BY <1>7, <2>3, <3>2 DEF AlarmShows
    <3>4. /\ f.generation <= last.generation
          /\ f.generation = last.generation => f.sequence <= last.sequence
      BY <2>3, <3>2, FactFields DEF Alarms!isAfter
    <3>5. ~Alarms!isContiguous(stored, last) => a.gap
      BY <1>3, <3>3, ContiguousStays
    <3> QED
      BY <1>3, <1>7, <3>1, <3>2, <3>3, <3>4, <3>5
  <2> QED
    BY <2>1, <2>2, <2>3
<1>9. PICK new \in Alarms!Alarm :
         /\ new = Alarms!resolveGap(stored, shownAlarm) /\ new.fact = shownAlarm.fact
         /\ new.acknowledged = shownAlarm.acknowledged /\ new.by = shownAlarm.by
         /\ new.gap <=> ~Alarms!isContiguous(stored, shownAlarm.fact)
  BY <1>8, GapResolved
<1>10. AlarmShows(o, new, stored) /\ AlarmAcknowledged(o, new, acknowledged)
  <2>1. new # None /\ shownAlarm # None
    BY <1>8, AlarmFields
  <2> QED
    BY <1>1, <1>3, <1>8, <1>9, <2>1 DEF AlarmShows, AlarmAcknowledged
<1>11. ASSUME NEW p \in Occurrences, p # o
       PROVE  AlarmShows(p, alarm[p], stored)
  <2>1. AlarmShows(p, alarm[p], facts)
    BY DEF AlarmInv
  <2>2. ASSUME alarm[p] # None
        PROVE  Alarms!isContiguous(stored, alarm[p].fact)
                 <=> Alarms!isContiguous(facts, alarm[p].fact)
    <3>1. alarm[p].fact.occurrence = p
      BY <2>1, <2>2 DEF AlarmShows
    <3>2. Alarms!Sequences(stored, alarm[p].fact) = Alarms!Sequences(facts, alarm[p].fact)
      BY <1>1, <1>3, <1>11, <3>1 DEF Alarms!Sequences, Alarms!sameOccurrence
    <3> QED
      BY <3>2 DEF Alarms!isContiguous
  <2> QED
    BY <1>1, <1>3, <1>11, <2>1, <2>2 DEF AlarmShows
<1>12. ASSUME NEW p \in Occurrences
       PROVE  AlarmShows(p, alarm'[p], stored) /\ AlarmAcknowledged(p, alarm'[p], acknowledged)
  <2>1. CASE p = o
    BY <1>5, <1>6, <1>9, <1>10, <2>1
  <2>2. CASE p # o
    <3>1. alarm'[p] = alarm[p]
      BY <1>5, <1>6, <2>2
    <3> QED
      BY <1>11, <2>2, <3>1 DEF AlarmInv
  <2> QED
    BY <2>1, <2>2
<1>13. Alarms!TypeOK'
  BY <1>1, <1>3, <1>5, <1>6, <1>9, BroughtFields DEF Alarms!TypeOK
<1> QED
  BY <1>5, <1>12, <1>13 DEF AlarmInv

LEMMA AlarmAcknowledges ==
    ASSUME AlarmInv, NEW k \in AlarmOrders, Alarms!Acknowledge(k)
    PROVE  AlarmInv'
<1>1. PICK o \in Occurrences : o = k.occurrence
  BY CommandsAssumption DEF Alarms!AlarmAssumption
<1>2. /\ facts \subseteq Alarms!Facts
      /\ ingested \in [Alarms!DeliveryRequests -> Alarms!Facts \cup {None}]
      /\ alarm \in [Occurrences -> Alarms!Alarm \cup {None}]
      /\ acknowledged \in [Alarms!OrderRequests -> AlarmOrders \cup {None}]
  BY DEF AlarmInv, Alarms!TypeOK
<1>3. PICK a \in Alarms!Alarm : a = alarm[o] /\ a.by \in {None, k.subject}
  BY <1>1, <1>2 DEF Alarms!Acknowledge
<1>4. /\ acknowledged[k.request] = None
      /\ alarm' = [alarm EXCEPT ![o] = Alarms!acknowledgeAlarmProjection(a, k)]
      /\ acknowledged' = [acknowledged EXCEPT ![k.request] = k]
      /\ UNCHANGED <<facts, ingested>>
  BY <1>1, <1>3 DEF Alarms!Acknowledge
<1>5. PICK q \in Alarms!OrderRequests : q = k.request
  BY DEF Alarms!OrderRequests
<1>6. PICK new \in Alarms!Alarm :
         /\ new = Alarms!acknowledgeAlarmProjection(a, k) /\ new.fact = a.fact /\ new.gap = a.gap
         /\ new.acknowledged /\ new.by = k.subject
  <2> DEFINE S == {s.subject : s \in AlarmOrders} \cup {None}
             N == Nat \ {0}
             B == BOOLEAN
             yes == TRUE
  <2>1. Alarms!Alarm = [gateway : Alarms!Gateways, fact : Alarms!Facts, gap : B,
                        acknowledged : B, by : S, revision : N]
    BY DEF Alarms!Alarm
  <2>2. PICK revision \in N : revision = IF a.acknowledged THEN a.revision ELSE a.revision + 1
    BY AlarmFields
  <2>3. k.subject \in S /\ yes \in B
    OBVIOUS
  <2>4. Alarms!acknowledgeAlarmProjection(a, k)
          = [a EXCEPT !.acknowledged = yes, !.by = k.subject, !.revision = revision]
    BY <2>2 DEF Alarms!acknowledgeAlarmProjection
  <2> HIDE DEF S, N, B
  <2> QED
    BY <2>1, <2>3, <2>4
<1>7. new # None /\ a # None /\ k # None
  BY AlarmFields, CommandsAssumption DEF Alarms!NoneIsNoRecord
<1>8. AlarmShows(o, new, facts)
  BY <1>3, <1>6, <1>7 DEF AlarmInv, AlarmShows
<1>9. AlarmAcknowledged(o, a, acknowledged)
  BY <1>3 DEF AlarmInv
\* Who has acknowledged it before is the same.
<1>10. ASSUME NEW r \in Alarms!OrderRequests, acknowledged[r] # None,
              acknowledged[r].occurrence = o
       PROVE  acknowledged[r].subject = k.subject
  <2>1. acknowledged[r] \in AlarmOrders /\ a.by = acknowledged[r].subject
    BY <1>2, <1>9, <1>10 DEF AlarmAcknowledged
  <2>2. acknowledged[r].subject # None
    BY <2>1, CommandsAssumption DEF Alarms!NoneIsNoRecord
  <2> QED
    BY <1>3, <2>1, <2>2
<1>11. /\ acknowledged'[q] = k
       /\ \A r \in Alarms!OrderRequests : r # q => acknowledged'[r] = acknowledged[r]
  BY <1>2, <1>4, <1>5
<1>12. AlarmAcknowledged(o, new, acknowledged')
  BY <1>1, <1>6, <1>7, <1>10, <1>11 DEF AlarmAcknowledged
<1>13. ASSUME NEW p \in Occurrences
       PROVE  AlarmShows(p, alarm'[p], facts) /\ AlarmAcknowledged(p, alarm'[p], acknowledged')
  <2>1. CASE p = o
    BY <1>2, <1>4, <1>6, <1>8, <1>12, <2>1
  <2>2. CASE p # o
    <3>1. alarm'[p] = alarm[p] /\ AlarmShows(p, alarm[p], facts)
          /\ AlarmAcknowledged(p, alarm[p], acknowledged)
      BY <1>2, <1>4, <2>2 DEF AlarmInv
    <3>2. AlarmAcknowledged(p, alarm[p], acknowledged')
      <4>1. \A r \in Alarms!OrderRequests : acknowledged'[r] # None
              /\ acknowledged'[r].occurrence = p
              <=> acknowledged[r] # None /\ acknowledged[r].occurrence = p
        BY <1>1, <1>4, <1>5, <1>11, <2>2
      <4>2. \A r \in Alarms!OrderRequests : acknowledged'[r] # None
              /\ acknowledged'[r].occurrence = p
              => acknowledged'[r] = acknowledged[r]
        BY <1>1, <1>11, <2>2
      <4> QED
        BY <3>1, <4>1, <4>2 DEF AlarmAcknowledged
    <3> QED
      BY <3>1, <3>2
  <2> QED
    BY <2>1, <2>2
<1>14. Alarms!TypeOK'
  BY <1>2, <1>4, <1>5, <1>6 DEF Alarms!TypeOK
<1> QED
  BY <1>4, <1>13, <1>14 DEF AlarmInv

LEMMA AlarmNext ==
    ASSUME AlarmInv, [Alarms!Next]_(Alarms!vars)
    PROVE  AlarmInv'
<1>1. CASE UNCHANGED Alarms!vars
  BY <1>1 DEF AlarmInv, Alarms!TypeOK, Alarms!vars
<1>2. ASSUME NEW d \in AlarmDeliveries, Alarms!Ingest(d) PROVE AlarmInv'
  BY <1>2, AlarmIngests
<1>3. ASSUME NEW d \in AlarmDeliveries, Alarms!IngestAgain(d) PROVE AlarmInv'
  <2>1. UNCHANGED <<facts, alarm, acknowledged>>
        /\ ingested' = [ingested EXCEPT ![d.request] = d.fact]
    BY <1>3 DEF Alarms!IngestAgain
  <2>2. Alarms!TypeOK'
    BY <2>1, BroughtFields DEF AlarmInv, Alarms!TypeOK
  <2> QED
    BY <2>1, <2>2 DEF AlarmInv
<1>4. ASSUME NEW k \in AlarmOrders, Alarms!Acknowledge(k) PROVE AlarmInv'
  BY <1>4, AlarmAcknowledges
<1> QED
  BY <1>1, <1>2, <1>3, <1>4 DEF Alarms!Next

LEMMA AlarmInvImplies == AlarmInv => Alarms!AlarmFollowsFacts
<1> SUFFICES ASSUME AlarmInv, NEW o \in Occurrences
             PROVE  /\ Alarms!ShowsLatest(o)
                    /\ alarm[o] # None =>
                         Alarms!AcknowledgedBy(o)
                           = IF alarm[o].acknowledged THEN {alarm[o].by} ELSE {}
  BY DEF Alarms!AlarmFollowsFacts
<1>1. AlarmShows(o, alarm[o], facts) /\ AlarmAcknowledged(o, alarm[o], acknowledged)
  BY DEF AlarmInv
<1>2. Alarms!ShowsLatest(o)
  BY <1>1 DEF AlarmShows, Alarms!ShowsLatest, Alarms!FactsOf, Alarms!isContiguous
<1>3. ASSUME alarm[o] # None
      PROVE  Alarms!AcknowledgedBy(o) = IF alarm[o].acknowledged THEN {alarm[o].by} ELSE {}
  BY <1>1, <1>3 DEF AlarmAcknowledged, Alarms!AcknowledgedBy
<1> QED
  BY <1>2, <1>3

----------------------------------------------------------------------------
(***************************************************************************)
(* Webhook deliveries.                                                     *)
(***************************************************************************)

\* What a delivery says of its attempts, as far as the endpoint has answered.
DeliveryIsTrue(d, said) ==
    LET e == d.evidence
        last == e[Len(e)]
    IN /\ \A i \in DOMAIN e : IF e[i].outcome = "in-flight"
             THEN i = Len(e) /\ d.state = "delivering"
             ELSE [attempt |-> i, answer |-> e[i].outcome] \in said
       /\ d.state \in {"delivering", "delivered", "dead-lettered"} => Len(e) > 0
       /\ d.state = "delivering" => last.outcome = "in-flight" /\ last.attempt = d.attempts
       /\ d.state = "delivered" => last.outcome = "accepted"
       /\ d.state = "dead-lettered" =>
            \/ last.outcome = "refused"
            \/ last.outcome = "retryable" /\ last.attempt = MaxAttempts

\* The one delivery is an earlier state of the other, or the same.
DeliveryGoesOn(a, b) == Webhooks!Shows(a, b) /\ (a.revision = b.revision => a = b)

\* What a worker holds is a state the delivery was in, and what it will write goes on
\* from there.
DeliveryCopy(call, row, said) ==
    /\ row # None
    /\ DeliveryGoesOn(call.current, row)
    /\ DeliveryGoesOn(call.current, call.next)
    /\ DeliveryIsTrue(call.next, said)
    /\ call.phase = "begin" => call.next.state = "delivering"
    /\ call.phase = "send" =>
         call.current.state = "delivering" /\ DeliveryIsTrue(call.current, said)

DeliveryInv ==
    /\ Webhooks!TypeOK
    /\ delivery # None => DeliveryIsTrue(delivery, endpointAnswers)
    /\ \A w \in Workers : delivering[w] # None =>
          DeliveryCopy(delivering[w], delivery, endpointAnswers)
    /\ \A k \in Webhooks!Keys : deliveryRequests[k] # None =>
          delivery # None /\ DeliveryGoesOn(deliveryRequests[k], delivery)

LEMMA DeliveryFields ==
    ASSUME NEW d \in Webhooks!Delivery
    PROVE  /\ d.state \in {"pending", "delivering", "retrying"} \cup Webhooks!Final
           /\ d.attempts \in 0..MaxAttempts /\ d.attempts \in Nat
           /\ d.redrives \in Nat /\ d.due \in Nat
           /\ d.evidence \in Seq(Webhooks!Evidence) /\ Len(d.evidence) \in Nat
           /\ d.revision \in Nat \ {0}
           /\ MaxAttempts \in Nat
BY CommandsAssumption DEF Webhooks!Delivery, Webhooks!WebhookAssumption

\* Deliveries with some of their fields replaced.
LEMMA DeliveryParts ==
    ASSUME NEW d \in Webhooks!Delivery, NEW seen \in Seq(Webhooks!Evidence),
           NEW state \in {"pending", "delivering", "retrying"} \cup Webhooks!Final,
           NEW attempts \in 0..MaxAttempts, NEW due \in Nat
    PROVE  /\ [d EXCEPT !.evidence = seen, !.revision = @ + 1] \in Webhooks!Delivery
           /\ [d EXCEPT !.state = state, !.attempts = attempts, !.revision = @ + 1,
                        !.evidence = seen] \in Webhooks!Delivery
           /\ [d EXCEPT !.state = state, !.attempts = attempts, !.redrives = @ + 1,
                        !.due = due, !.revision = @ + 1] \in Webhooks!Delivery
           /\ [d EXCEPT !.state = state] \in Webhooks!Delivery
           /\ [d EXCEPT !.state = state, !.due = due] \in Webhooks!Delivery
<1> DEFINE S == {"pending", "delivering", "retrying"} \cup Webhooks!Final
           A == 0..MaxAttempts
           E == Seq(Webhooks!Evidence)
           N == Nat
           P == Nat \ {0}
<1>1. Webhooks!Delivery = [state : S, attempts : A, redrives : N, due : N,
                           evidence : E, revision : P]
  BY DEF Webhooks!Delivery
<1>2. state \in S /\ seen \in E /\ attempts \in A /\ due \in N
  OBVIOUS
<1>3. PICK revision \in P, redrives \in N :
        revision = d.revision + 1 /\ redrives = d.redrives + 1
  BY DeliveryFields
<1> HIDE DEF S, A, E, N, P
<1>4. [d EXCEPT !.evidence = seen, !.revision = revision] \in Webhooks!Delivery
  BY <1>1, <1>2
<1>5. [d EXCEPT !.state = state, !.attempts = attempts, !.revision = revision,
                !.evidence = seen] \in Webhooks!Delivery
  BY <1>1, <1>2
<1>6. [d EXCEPT !.state = state, !.attempts = attempts, !.redrives = redrives,
                !.due = due, !.revision = revision] \in Webhooks!Delivery
  BY <1>1, <1>2
<1>7. [d EXCEPT !.state = state] \in Webhooks!Delivery
      /\ [d EXCEPT !.state = state, !.due = due] \in Webhooks!Delivery
  BY <1>1, <1>2
<1> QED
  BY <1>3, <1>4, <1>5, <1>6, <1>7

LEMMA DeliveryGoesOnOrder ==
    ASSUME NEW a \in Webhooks!Delivery, NEW b \in Webhooks!Delivery,
           NEW c \in Webhooks!Delivery
    PROVE  /\ DeliveryGoesOn(a, a)
           /\ DeliveryGoesOn(a, b) /\ DeliveryGoesOn(b, c) => DeliveryGoesOn(a, c)
<1>1. DeliveryGoesOn(a, a)
  BY DeliveryFields DEF DeliveryGoesOn, Webhooks!Shows
<1>2. ASSUME DeliveryGoesOn(a, b), DeliveryGoesOn(b, c) PROVE DeliveryGoesOn(a, c)
  <2>1. /\ a.revision <= c.revision /\ a.redrives <= c.redrives
        /\ Len(a.evidence) <= Len(c.evidence)
        /\ a.revision <= b.revision /\ b.revision <= c.revision
    BY <1>2, DeliveryFields DEF DeliveryGoesOn, Webhooks!Shows
  <2>2. ASSUME NEW i \in DOMAIN a.evidence
        PROVE  a.evidence[i].outcome \in {"in-flight", c.evidence[i].outcome}
    <3>1. i \in DOMAIN b.evidence
      BY <1>2, DeliveryFields DEF DeliveryGoesOn, Webhooks!Shows
    <3>2. a.evidence[i].outcome \in {"in-flight", b.evidence[i].outcome}
          /\ b.evidence[i].outcome \in {"in-flight", c.evidence[i].outcome}
      BY <1>2, <3>1 DEF DeliveryGoesOn, Webhooks!Shows
    <3> QED
      BY <3>2
  <2>3. a.revision = c.revision => a = c
    BY <1>2, <2>1, DeliveryFields DEF DeliveryGoesOn
  <2> QED
    BY <2>1, <2>2, <2>3 DEF DeliveryGoesOn, Webhooks!Shows
<1> QED
  BY <1>1, <1>2

LEMMA CreatedDelivery ==
    LET d == Webhooks!createWebhookDelivery IN
    d \in Webhooks!Delivery /\ DeliveryIsTrue(d, endpointAnswers)
<1>1. Webhooks!createWebhookDelivery \in Webhooks!Delivery
  BY CommandsAssumption
  DEF Webhooks!createWebhookDelivery, Webhooks!Delivery, Webhooks!WebhookAssumption
<1> QED
  BY <1>1 DEF Webhooks!createWebhookDelivery, DeliveryIsTrue

\* An attempt is begun, or taken up as it is.
LEMMA BegunDelivery ==
    ASSUME NEW d \in Webhooks!Delivery, DeliveryIsTrue(d, endpointAnswers), NEW at \in 0..MaxTime,
           Webhooks!MayBegin(d, at)
    PROVE  LET e == Webhooks!beginWebhookDelivery(d, at) IN
           /\ e \in Webhooks!Delivery
           /\ DeliveryIsTrue(e, endpointAnswers) /\ DeliveryGoesOn(d, e)
           /\ e.state = "delivering"
<1> DEFINE e == Webhooks!beginWebhookDelivery(d, at)
           attempt == [attempt |-> d.attempts + 1, at |-> at, outcome |-> "in-flight"]
           seen == Append(d.evidence, attempt)
<1>1. CASE d.state = "delivering"
  BY <1>1, DeliveryGoesOnOrder DEF Webhooks!beginWebhookDelivery
<1>2. CASE d.state # "delivering"
  <2>1. d.state \in {"pending", "retrying"} /\ d.attempts < MaxAttempts
    BY <1>2 DEF Webhooks!MayBegin
  <2>2. d.attempts + 1 \in 1..MaxAttempts /\ d.attempts + 1 \in 0..MaxAttempts
    BY <2>1, DeliveryFields
  <2>3. attempt \in Webhooks!Evidence /\ attempt.outcome = "in-flight"
        /\ attempt.attempt = d.attempts + 1
    BY <2>2 DEF Webhooks!Evidence, Webhooks!Outcomes
  <2>4. /\ seen \in Seq(Webhooks!Evidence) /\ Len(seen) = Len(d.evidence) + 1
        /\ seen[Len(seen)] = attempt /\ \A i \in DOMAIN d.evidence : seen[i] = d.evidence[i]
        /\ DOMAIN seen = DOMAIN d.evidence \cup {Len(seen)}
    BY <2>3, DeliveryFields
  <2>5. e = [d EXCEPT !.state = "delivering", !.attempts = @ + 1, !.revision = @ + 1,
                      !.evidence = seen]
    BY <1>2 DEF Webhooks!beginWebhookDelivery
  <2> HIDE DEF attempt, seen, e
  <2>6. /\ e.state = "delivering" /\ e.attempts = d.attempts + 1 /\ e.redrives = d.redrives
        /\ e.evidence = seen /\ e.revision = d.revision + 1
    BY <2>5 DEF Webhooks!Delivery
  <2>7. e \in Webhooks!Delivery
    <3>1. "delivering" \in {"pending", "delivering", "retrying"} \cup Webhooks!Final
      OBVIOUS
    <3>2. PICK attempts \in 0..MaxAttempts : attempts = d.attempts + 1
      BY <2>2
    <3>3. [d EXCEPT !.state = "delivering", !.attempts = attempts, !.revision = @ + 1,
                    !.evidence = seen] \in Webhooks!Delivery
      BY <2>4, <3>1, DeliveryParts
    <3> QED
      BY <2>5, <3>2, <3>3
  <2>8. DeliveryIsTrue(e, endpointAnswers)
    <3>1. \A i \in DOMAIN d.evidence :
            /\ d.evidence[i].outcome # "in-flight"
            /\ [attempt |-> i, answer |-> d.evidence[i].outcome] \in endpointAnswers
      BY <1>2 DEF DeliveryIsTrue
    <3>2. Len(seen) > 0
      BY <2>4, DeliveryFields
    <3> QED
      BY <2>3, <2>4, <2>6, <3>1, <3>2 DEF DeliveryIsTrue
  <2>9. DeliveryGoesOn(d, e)
    BY <2>4, <2>6, DeliveryFields DEF DeliveryGoesOn, Webhooks!Shows
  <2> QED
    BY <2>6, <2>7, <2>8, <2>9 DEF e
<1> QED
  BY <1>1, <1>2

LEMMA RedrivenDelivery ==
    ASSUME NEW d \in Webhooks!Delivery, DeliveryIsTrue(d, endpointAnswers), NEW at \in 0..MaxTime,
           d.state = "dead-lettered"
    PROVE  LET e == Webhooks!redriveWebhookDelivery(d, at) IN
           e \in Webhooks!Delivery /\ DeliveryIsTrue(e, endpointAnswers) /\ DeliveryGoesOn(d, e)
<1> DEFINE e == Webhooks!redriveWebhookDelivery(d, at)
<1>1. at \in Nat
  BY CommandsAssumption DEF Webhooks!WebhookAssumption
<1>2. e \in Webhooks!Delivery
  <2>1. "pending" \in {"pending", "delivering", "retrying"} \cup Webhooks!Final
        /\ 0 \in 0..MaxAttempts /\ d.evidence \in Seq(Webhooks!Evidence)
    BY DeliveryFields
  <2> QED
    BY <1>1, <2>1, DeliveryParts DEF Webhooks!redriveWebhookDelivery
<1>3. /\ e.state = "pending" /\ e.redrives = d.redrives + 1
      /\ e.evidence = d.evidence /\ e.revision = d.revision + 1
  BY DEF Webhooks!redriveWebhookDelivery, Webhooks!Delivery
<1> HIDE DEF e
<1>4. DeliveryIsTrue(e, endpointAnswers)
  BY <1>3 DEF DeliveryIsTrue
<1>5. DeliveryGoesOn(d, e)
  BY <1>3, DeliveryFields DEF DeliveryGoesOn, Webhooks!Shows
<1> QED
  BY <1>2, <1>4, <1>5 DEF e

\* The endpoint has answered the attempt that is in flight.
LEMMA CompletedDelivery ==
    ASSUME NEW said, NEW d \in Webhooks!Delivery, DeliveryIsTrue(d, said), d.state = "delivering",
           NEW at \in 0..MaxTime, NEW answer \in Webhooks!Answers
    PROVE  LET e == Webhooks!Completed(d, answer, at) IN
           /\ e \in Webhooks!Delivery /\ DeliveryGoesOn(d, e)
           /\ [attempt |-> Len(d.evidence), answer |-> answer] \in said
                => DeliveryIsTrue(e, said)
<1> DEFINE e == Webhooks!Completed(d, answer, at)
           n == Len(d.evidence)
           seen == [d.evidence EXCEPT ![n].outcome = answer]
<1>1. n \in DOMAIN d.evidence /\ n \in Nat /\ d.evidence[n] \in Webhooks!Evidence
      /\ d.evidence[n].outcome = "in-flight" /\ d.evidence[n].attempt = d.attempts
      /\ at + 1 \in Nat /\ answer # "in-flight"
      /\ answer \in {"accepted", "retryable", "refused"}
  BY DeliveryFields, CommandsAssumption
  DEF DeliveryIsTrue, Webhooks!WebhookAssumption, Webhooks!Answers
<1>2. [d.evidence[n] EXCEPT !.outcome = answer] \in Webhooks!Evidence
      /\ [d.evidence[n] EXCEPT !.outcome = answer].outcome = answer
      /\ [d.evidence[n] EXCEPT !.outcome = answer].attempt = d.attempts
  BY <1>1 DEF Webhooks!Evidence, Webhooks!Outcomes
<1>3. /\ seen \in Seq(Webhooks!Evidence) /\ Len(seen) = n /\ DOMAIN seen = DOMAIN d.evidence
      /\ seen[n].outcome = answer /\ seen[n].attempt = d.attempts
      /\ \A i \in DOMAIN d.evidence : i # n => seen[i] = d.evidence[i]
  <2>1. PICK x \in Webhooks!Evidence : x = [d.evidence[n] EXCEPT !.outcome = answer]
    BY <1>2
  <2>2. seen = [d.evidence EXCEPT ![n] = x]
    BY <2>1
  <2>3. x.outcome = answer /\ x.attempt = d.attempts
    BY <1>2, <2>1
  <2> HIDE DEF seen
  <2> QED
    BY <1>1, <2>2, <2>3, DeliveryFields
<1> DEFINE done == [d EXCEPT !.evidence = seen, !.revision = @ + 1]
<1>4. e = CASE answer = "accepted" -> [done EXCEPT !.state = "delivered"]
            [] Webhooks!willRetry(d, answer) -> [done EXCEPT !.state = "retrying", !.due = at + 1]
            [] OTHER -> [done EXCEPT !.state = "dead-lettered", !.due = 0]
  BY DEF Webhooks!Completed
<1> HIDE DEF e, seen
<1>5. done \in Webhooks!Delivery
  <2>1. d.state \in {"pending", "delivering", "retrying"} \cup Webhooks!Final
        /\ d.attempts \in 0..MaxAttempts /\ d.due \in Nat
    BY DeliveryFields
  <2> QED
    BY <1>3, <2>1, DeliveryParts
<1>6. done.evidence = seen /\ done.revision = d.revision + 1 /\ done.redrives = d.redrives
      /\ done.attempts = d.attempts
  BY DEF Webhooks!Delivery
<1> HIDE DEF done
<1>7. /\ e \in Webhooks!Delivery
      /\ e.evidence = seen /\ e.revision = d.revision + 1 /\ e.redrives = d.redrives
      /\ e.state \in {"delivered", "retrying", "dead-lettered"}
      /\ e.state = "delivered" => answer = "accepted"
      /\ e.state = "dead-lettered" =>
           answer = "refused" \/ (answer = "retryable" /\ ~(d.attempts < MaxAttempts))
  <2>1. ASSUME NEW state \in {"delivered", "retrying", "dead-lettered"}, NEW due \in Nat,
               e \in {[done EXCEPT !.state = state], [done EXCEPT !.state = state, !.due = due]}
        PROVE  /\ e \in Webhooks!Delivery
               /\ e.evidence = seen /\ e.revision = d.revision + 1 /\ e.redrives = d.redrives
               /\ e.state = state
    <3>1. state \in {"pending", "delivering", "retrying"} \cup Webhooks!Final
      BY DEF Webhooks!Final
    <3>2. [done EXCEPT !.state = state] \in Webhooks!Delivery
          /\ [done EXCEPT !.state = state, !.due = due] \in Webhooks!Delivery
      <4>1. done.evidence \in Seq(Webhooks!Evidence) /\ done.attempts \in 0..MaxAttempts
        BY <1>5, DeliveryFields
      <4> QED
        BY <1>5, <3>1, <4>1, DeliveryParts
    <3> QED
      BY <1>5, <1>6, <2>1, <3>2 DEF Webhooks!Delivery
  <2>2. CASE answer = "accepted"
    <3>5. ~Webhooks!willRetry(d, answer)
      BY <2>2 DEF Webhooks!willRetry
    <3>1. e = [done EXCEPT !.state = "delivered"]
      BY <1>4, <2>2, <3>5
    <3>2. done.evidence \in Seq(Webhooks!Evidence) /\ done.attempts \in 0..MaxAttempts
      BY <1>5, DeliveryFields
    <3>4. "delivered" \in {"pending", "delivering", "retrying"} \cup Webhooks!Final
          /\ 0 \in Nat
      BY DEF Webhooks!Final
    <3>3. /\ e \in Webhooks!Delivery
          /\ e.evidence = seen /\ e.revision = d.revision + 1 /\ e.redrives = d.redrives
          /\ e.state = "delivered"
      <4>1. e \in Webhooks!Delivery
        BY <1>5, <3>1, <3>2, <3>4, DeliveryParts
      <4> QED
        BY <1>5, <1>6, <3>1, <4>1 DEF Webhooks!Delivery
    <3> QED
      BY <2>2, <3>3
  <2>3. CASE Webhooks!willRetry(d, answer)
    <3>1. e = [done EXCEPT !.state = "retrying", !.due = at + 1]
      BY <1>4, <2>3 DEF Webhooks!willRetry
    <3> QED
      BY <1>1, <2>1, <3>1
  <2>4. CASE answer # "accepted" /\ ~Webhooks!willRetry(d, answer)
    <3>1. e = [done EXCEPT !.state = "dead-lettered", !.due = 0]
      BY <1>4, <2>4
    <3> QED
      BY <1>1, <2>1, <2>4, <3>1 DEF Webhooks!willRetry
  <2> QED
    BY <2>2, <2>3, <2>4
<1>8. DeliveryGoesOn(d, e)
  BY <1>1, <1>3, <1>7, DeliveryFields DEF DeliveryGoesOn, Webhooks!Shows
<1>9. ASSUME [attempt |-> n, answer |-> answer] \in said PROVE DeliveryIsTrue(e, said)
  <2>1. \A i \in DOMAIN seen : /\ seen[i].outcome # "in-flight"
                               /\ [attempt |-> i, answer |-> seen[i].outcome] \in said
    BY <1>1, <1>3, <1>9 DEF DeliveryIsTrue
  <2>2. n > 0 /\ (~(d.attempts < MaxAttempts) => d.attempts = MaxAttempts)
    BY <1>1, DeliveryFields
  <2> QED
    BY <1>3, <1>7, <2>1, <2>2 DEF DeliveryIsTrue
<1> QED
  BY <1>7, <1>8, <1>9 DEF e

LEMMA DeliveryInit == Webhooks!Init => DeliveryInv
BY CommandsAssumption
DEF Webhooks!Init, DeliveryInv, Webhooks!TypeOK, Webhooks!WebhookAssumption

\* A write is known by a key.
LEMMA DeliveryKey ==
    ASSUME NEW call, call.request \in WebhookRequests,
           call.phase \in {"begin", "complete", "redrive"}
    PROVE  Webhooks!KeyOf(call) \in Webhooks!Keys
<1>1. CASE call.phase = "begin"
  <2>1. [redrive |-> "", begin |-> ":begin", complete |-> ":complete"][call.phase] = ":begin"
    BY <1>1
  <2>2. Webhooks!KeyOf(call) = <<call.request, ":begin">>
    BY <2>1 DEF Webhooks!KeyOf
  <2>3. <<call.request, ":begin">> \in WebhookRequests \X {"", ":begin", ":complete"}
    OBVIOUS
  <2> QED
    BY <2>2, <2>3 DEF Webhooks!Keys
<1>2. CASE call.phase = "complete"
  <2>1. [redrive |-> "", begin |-> ":begin", complete |-> ":complete"][call.phase] = ":complete"
    BY <1>2
  <2>2. Webhooks!KeyOf(call) = <<call.request, ":complete">>
    BY <2>1 DEF Webhooks!KeyOf
  <2>3. <<call.request, ":complete">> \in WebhookRequests \X {"", ":begin", ":complete"}
    OBVIOUS
  <2> QED
    BY <2>2, <2>3 DEF Webhooks!Keys
<1>3. CASE call.phase = "redrive"
  <2>1. [redrive |-> "", begin |-> ":begin", complete |-> ":complete"][call.phase] = ""
    BY <1>3
  <2>2. Webhooks!KeyOf(call) = <<call.request, "">>
    BY <2>1 DEF Webhooks!KeyOf
  <2>3. <<call.request, "">> \in WebhookRequests \X {"", ":begin", ":complete"}
    OBVIOUS
  <2> QED
    BY <2>2, <2>3 DEF Webhooks!Keys
<1> QED
  BY <1>1, <1>2, <1>3

\* A step that stores no delivery: the call it leaves is as it should be.
LEMMA DeliveryIdles ==
    ASSUME DeliveryInv, UNCHANGED <<delivery, deliveryRequests>>,
           now' \in 0..MaxTime,
           endpointAnswers \subseteq endpointAnswers',
           endpointAnswers' \subseteq [attempt : Nat \ {0}, answer : Webhooks!Answers],
           NEW w \in Workers, NEW call \in Webhooks!Call \cup {None},
           delivering' \in {delivering, [delivering EXCEPT ![w] = call]},
           call # None => DeliveryCopy(call, delivery, endpointAnswers')
    PROVE  DeliveryInv'
<1>1. delivering \in [Workers -> Webhooks!Call \cup {None}]
  BY DEF DeliveryInv, Webhooks!TypeOK
<1>2. Webhooks!TypeOK'
  BY <1>1 DEF DeliveryInv, Webhooks!TypeOK
<1>3. ASSUME NEW d, DeliveryIsTrue(d, endpointAnswers) PROVE DeliveryIsTrue(d, endpointAnswers')
  BY <1>3 DEF DeliveryIsTrue
<1>4. ASSUME NEW v \in Workers, delivering'[v] # None
      PROVE  DeliveryCopy(delivering'[v], delivery, endpointAnswers')
  <2>1. delivering'[v] = delivering[v] \/ delivering'[v] = call
    BY <1>1
  <2>2. CASE delivering'[v] = call
    BY <1>4, <2>2
  <2>3. CASE delivering'[v] = delivering[v]
    BY <1>3, <1>4, <2>3 DEF DeliveryInv, DeliveryCopy
  <2> QED
    BY <2>1, <2>2, <2>3
<1>5. delivery # None => DeliveryIsTrue(delivery, endpointAnswers')
  BY <1>3 DEF DeliveryInv
<1> QED
  BY <1>2, <1>4, <1>5 DEF DeliveryInv


LEMMA DeliveryBegins ==
    ASSUME DeliveryInv, NEW w \in Workers, NEW r \in WebhookRequests, delivery # None,
           NEW phase \in {"begin", "redrive"}, NEW next \in Webhooks!Delivery,
           DeliveryIsTrue(next, endpointAnswers), DeliveryGoesOn(delivery, next),
           phase = "begin" => next.state = "delivering",
           Webhooks!Begin(w, r, phase, next)
    PROVE  DeliveryInv'
<1> DEFINE call == [request |-> r, phase |-> phase, current |-> delivery,
                    next |-> next, at |-> now]
<1>1. /\ UNCHANGED <<now, delivery, deliveryRequests, endpointAnswers>>
      /\ delivering' = [delivering EXCEPT ![w] = call]
      /\ delivery \in Webhooks!Delivery /\ now \in 0..MaxTime
      /\ endpointAnswers \subseteq [attempt : Nat \ {0}, answer : Webhooks!Answers]
  BY DEF Webhooks!Begin, DeliveryInv, Webhooks!TypeOK
<1>2. call \in Webhooks!Call
  BY <1>1 DEF Webhooks!Call, Webhooks!Phases
<1>3. DeliveryCopy(call, delivery, endpointAnswers)
  BY <1>1, DeliveryGoesOnOrder DEF DeliveryCopy
<1> HIDE DEF call
<1> QED
  BY <1>1, <1>2, <1>3, DeliveryIdles

\* The calls after a write, or a replay of one.
LEMMA DeliveryGoesBy ==
    ASSUME DeliveryInv, NEW w \in Workers, delivering[w] # None, Webhooks!GoOn(w)
    PROVE  \E call \in Webhooks!Call \cup {None} :
             /\ delivering' = [delivering EXCEPT ![w] = call]
             /\ call # None => /\ delivering[w].phase = "begin"
                               /\ call.phase = "send"
                               /\ call.current = delivering[w].next
                               /\ call.next = delivering[w].next
<1>1. delivering[w] \in Webhooks!Call
  BY DEF DeliveryInv, Webhooks!TypeOK
<1>2. CASE delivering[w].phase = "begin"
  <2> DEFINE call == [delivering[w] EXCEPT !.phase = "send", !.current = delivering[w].next]
  <2>1. delivering' = [delivering EXCEPT ![w] = call]
    BY <1>2 DEF Webhooks!GoOn
  <2>2. call \in Webhooks!Call
    BY <1>1 DEF Webhooks!Call, Webhooks!Phases
  <2>3. call.phase = "send" /\ call.current = delivering[w].next
        /\ call.next = delivering[w].next
    BY <1>1 DEF Webhooks!Call
  <2> QED
    BY <1>2, <2>1, <2>2, <2>3
<1>3. CASE delivering[w].phase # "begin"
  BY <1>3 DEF Webhooks!GoOn, Webhooks!Return
<1> QED
  BY <1>2, <1>3

\* A call as it goes on with what it has written.
LEMMA DeliveryGoneBy ==
    ASSUME NEW call \in Webhooks!Call, NEW next \in Webhooks!Delivery, NEW said,
           NEW row \in Webhooks!Delivery \cup {None},
           row # None, DeliveryGoesOn(next, row), DeliveryIsTrue(next, said),
           next.state = "delivering", call.phase = "send",
           call.current = next, call.next = next
    PROVE  DeliveryCopy(call, row, said)
BY DeliveryGoesOnOrder DEF DeliveryCopy

\* What is written goes on from the stored delivery.
LEMMA DeliveryWrites ==
    ASSUME DeliveryInv, NEW w \in Workers, Webhooks!Write(w)
    PROVE  DeliveryInv'
<1> DEFINE call == delivering[w]
           row == Webhooks!Delivery
<1>1. /\ call \in Webhooks!Call /\ call # None /\ call.phase # "send"
      /\ delivery.revision = call.current.revision
      /\ delivery' = call.next
      /\ deliveryRequests' = [deliveryRequests EXCEPT ![Webhooks!KeyOf(call)] = call.next]
      /\ Webhooks!GoOn(w) /\ UNCHANGED <<now, endpointAnswers>>
  BY DEF Webhooks!Write, DeliveryInv, Webhooks!TypeOK, Webhooks!isExpectedRevision
<1>2. /\ call.next \in row /\ call.current \in row
      /\ DeliveryCopy(call, delivery, endpointAnswers)
      /\ delivery \in row /\ delivery # None
      /\ deliveryRequests \in [Webhooks!Keys -> row \cup {None}]
      /\ delivering \in [Workers -> Webhooks!Call \cup {None}]
      /\ Webhooks!KeyOf(call) \in Webhooks!Keys
  <2>1. DeliveryCopy(call, delivery, endpointAnswers)
    BY <1>1 DEF DeliveryInv
  <2>2. call.next \in row /\ call.current \in row /\ call.request \in WebhookRequests
        /\ call.phase \in {"begin", "complete", "redrive"}
    BY <1>1 DEF Webhooks!Call, Webhooks!Phases
  <2>3. Webhooks!KeyOf(call) \in Webhooks!Keys
    BY <2>2, DeliveryKey
  <2>4. /\ delivery \in row \cup {None}
        /\ deliveryRequests \in [Webhooks!Keys -> row \cup {None}]
        /\ delivering \in [Workers -> Webhooks!Call \cup {None}]
    BY DEF DeliveryInv, Webhooks!TypeOK
  <2> QED
    BY <2>1, <2>2, <2>3, <2>4 DEF DeliveryCopy
<1>3. PICK new \in row : new = call.next
  BY <1>2
<1>4. new # None /\ DeliveryGoesOn(delivery, new) /\ DeliveryIsTrue(new, endpointAnswers)
  BY <1>1, <1>2, <1>3, CommandsAssumption
  DEF DeliveryCopy, DeliveryGoesOn, Webhooks!NoneIsNoRecord
<1>5. ASSUME NEW a \in row, DeliveryGoesOn(a, delivery) PROVE DeliveryGoesOn(a, new)
  BY <1>2, <1>4, <1>5, DeliveryGoesOnOrder
<1>6. PICK after \in Webhooks!Call \cup {None} :
         /\ delivering' = [delivering EXCEPT ![w] = after]
         /\ after # None => /\ call.phase = "begin" /\ after.phase = "send"
                            /\ after.current = call.next /\ after.next = call.next
  BY <1>1, DeliveryGoesBy
<1>7. after # None => DeliveryCopy(after, new, endpointAnswers)
  <2> SUFFICES ASSUME after # None PROVE DeliveryCopy(after, new, endpointAnswers)
    OBVIOUS
  <2>1. new.state = "delivering"
    BY <1>2, <1>3, <1>6 DEF DeliveryCopy
  <2>2. after \in Webhooks!Call /\ after.phase = "send"
        /\ after.current = new /\ after.next = new
    BY <1>3, <1>6
  <2>3. DeliveryGoesOn(new, new)
    BY DeliveryGoesOnOrder
  <2> QED
    BY <1>4, <2>1, <2>2, <2>3, DeliveryGoneBy
<1>8. ASSUME NEW v \in Workers, delivering'[v] # None
      PROVE  DeliveryCopy(delivering'[v], new, endpointAnswers)
  <2>1. CASE v = w
    <3>1. delivering'[v] = after
      BY <1>2, <1>6, <2>1
    <3> QED
      BY <1>7, <1>8, <3>1
  <2>2. CASE v # w
    <3>1. delivering'[v] = delivering[v] /\ delivering[v] \in Webhooks!Call
      BY <1>2, <1>6, <1>8, <2>2
    <3>2. delivering[v].current \in row
      BY <3>1 DEF Webhooks!Call
    <3>3. DeliveryCopy(delivering[v], delivery, endpointAnswers)
      BY <1>8, <3>1 DEF DeliveryInv
    <3> QED
      BY <1>4, <1>5, <3>1, <3>2, <3>3 DEF DeliveryCopy
  <2> QED
    BY <2>1, <2>2
<1>9. ASSUME NEW k \in Webhooks!Keys, deliveryRequests'[k] # None
      PROVE  DeliveryGoesOn(deliveryRequests'[k], new)
  <2>1. CASE k = Webhooks!KeyOf(call)
    <3>1. deliveryRequests'[k] = new
      BY <1>1, <1>2, <1>3, <2>1
    <3> QED
      BY <3>1, DeliveryGoesOnOrder
  <2>2. CASE k # Webhooks!KeyOf(call)
    <3>1. deliveryRequests'[k] = deliveryRequests[k] /\ deliveryRequests[k] \in row
      BY <1>1, <1>2, <1>9, <2>2
    <3>2. DeliveryGoesOn(deliveryRequests[k], delivery)
      BY <1>9, <3>1 DEF DeliveryInv
    <3> QED
      BY <1>5, <3>1, <3>2
  <2> QED
    BY <2>1, <2>2
<1>10. Webhooks!TypeOK'
  <2> HIDE DEF row
  <2>1. now \in 0..MaxTime
        /\ endpointAnswers \subseteq [attempt : Nat \ {0}, answer : Webhooks!Answers]
    BY DEF DeliveryInv, Webhooks!TypeOK
  <2>2. deliveryRequests' \in [Webhooks!Keys -> row \cup {None}]
    BY <1>1, <1>2
  <2>3. delivering' \in [Workers -> Webhooks!Call \cup {None}]
    BY <1>2, <1>6
  <2>4. delivery' \in row
    BY <1>1, <1>2
  <2> QED
    BY <1>1, <2>1, <2>2, <2>3, <2>4 DEF Webhooks!TypeOK, row
<1>11. delivery' = new /\ UNCHANGED endpointAnswers
  BY <1>1, <1>3
<1> QED
  BY <1>4, <1>8, <1>9, <1>10, <1>11 DEF DeliveryInv

LEMMA DeliveryEnqueues ==
    ASSUME DeliveryInv, NEW r \in WebhookRequests, Webhooks!Enqueue(r)
    PROVE  DeliveryInv'
<1> DEFINE key == <<r, "">>
           row == Webhooks!Delivery
<1>1. PICK new \in row : new = Webhooks!createWebhookDelivery
  BY CreatedDelivery
<1>2. /\ delivery = None /\ delivery' = new /\ UNCHANGED <<now, delivering, endpointAnswers>>
      /\ deliveryRequests' = [deliveryRequests EXCEPT ![key] = new]
  BY <1>1 DEF Webhooks!Enqueue
<1>3. key \in Webhooks!Keys
  BY DEF Webhooks!Keys
<1> HIDE DEF key
<1>4. \A w \in Workers : delivering[w] = None
  BY <1>2 DEF DeliveryInv, DeliveryCopy
<1>5. deliveryRequests \in [Webhooks!Keys -> row \cup {None}]
      /\ \A k \in Webhooks!Keys : deliveryRequests[k] = None
  BY <1>2 DEF DeliveryInv, Webhooks!TypeOK
<1>6. DeliveryIsTrue(new, endpointAnswers) /\ DeliveryGoesOn(new, new) /\ new # None
  BY <1>1, CreatedDelivery, DeliveryGoesOnOrder, CommandsAssumption
  DEF Webhooks!NoneIsNoRecord
<1> HIDE DEF row
<1>7. deliveryRequests' \in [Webhooks!Keys -> row \cup {None}]
      /\ \A k \in Webhooks!Keys : deliveryRequests'[k] \in {new, None}
  BY <1>2, <1>3, <1>5
<1>8. Webhooks!TypeOK'
  BY <1>2, <1>7 DEF DeliveryInv, Webhooks!TypeOK, row
<1> QED
  BY <1>2, <1>4, <1>6, <1>7, <1>8 DEF DeliveryInv

\* The endpoint's answer is known before it is recorded.
LEMMA DeliverySends ==
    ASSUME DeliveryInv, NEW w \in Workers, Webhooks!Send(w)
    PROVE  DeliveryInv'
<1> DEFINE call == delivering[w]
           active == call.current
<1>1. /\ call \in Webhooks!Call /\ call # None /\ call.phase = "send"
      /\ UNCHANGED <<now, delivery, deliveryRequests>>
      /\ DeliveryCopy(call, delivery, endpointAnswers)
      /\ delivery \in Webhooks!Delivery \cup {None} /\ now \in 0..MaxTime
      /\ endpointAnswers \subseteq [attempt : Nat \ {0}, answer : Webhooks!Answers]
  BY DEF Webhooks!Send, DeliveryInv, Webhooks!TypeOK
<1>2. /\ active \in Webhooks!Delivery /\ call.at \in 0..MaxTime
      /\ DeliveryIsTrue(active, endpointAnswers) /\ active.state = "delivering"
      /\ DeliveryGoesOn(active, delivery) /\ delivery # None
  BY <1>1 DEF Webhooks!Call, DeliveryCopy
<1>3. PICK answer \in Webhooks!Answers :
         /\ endpointAnswers' = endpointAnswers \cup
              {[attempt |-> Len(active.evidence), answer |-> answer]}
         /\ delivering' = [delivering EXCEPT ![w] =
              IF call.at < Webhooks!Last(active.evidence).at THEN None
              ELSE [call EXCEPT !.phase = "complete",
                                !.next = Webhooks!Completed(active, answer, call.at)]]
  BY DEF Webhooks!Send
<1>4. PICK next \in Webhooks!Delivery : next = Webhooks!Completed(active, answer, call.at)
  BY <1>2, <1>3, CompletedDelivery
<1>5. Len(active.evidence) \in Nat \ {0}
  BY <1>2, DeliveryFields DEF DeliveryIsTrue
<1>6. /\ endpointAnswers \subseteq endpointAnswers'
      /\ endpointAnswers' \subseteq [attempt : Nat \ {0}, answer : Webhooks!Answers]
      /\ [attempt |-> Len(active.evidence), answer |-> answer] \in endpointAnswers'
  BY <1>1, <1>3, <1>5
<1>7. PICK said : said = endpointAnswers'
  OBVIOUS
<1>8. DeliveryIsTrue(active, said)
  BY <1>2, <1>6, <1>7 DEF DeliveryIsTrue
<1> DEFINE after == [call EXCEPT !.phase = "complete", !.next = next]
<1>9. after \in Webhooks!Call /\ after.phase = "complete" /\ after.current = active
      /\ after.next = next
  BY <1>1 DEF Webhooks!Call, Webhooks!Phases
<1>10. DeliveryIsTrue(next, said) /\ DeliveryGoesOn(active, next)
  <2>1. [attempt |-> Len(active.evidence), answer |-> answer] \in said
    BY <1>6, <1>7
  <2> HIDE DEF active, call
  <2> QED
    BY <1>2, <1>4, <1>8, <2>1, CompletedDelivery
<1>11. DeliveryCopy(after, delivery, said)
  BY <1>2, <1>9, <1>10 DEF DeliveryCopy
<1> HIDE DEF after
<1>12. delivering' = [delivering EXCEPT ![w] = None]
       \/ delivering' = [delivering EXCEPT ![w] = after]
  BY <1>3, <1>4 DEF after
<1>13. CASE delivering' = [delivering EXCEPT ![w] = None]
  BY <1>1, <1>6, <1>13, DeliveryIdles
<1>14. CASE delivering' = [delivering EXCEPT ![w] = after]
  BY <1>1, <1>6, <1>7, <1>9, <1>11, <1>14, DeliveryIdles
<1> QED
  BY <1>12, <1>13, <1>14

\* A write that was made before leads to what was stored then.
LEMMA DeliveryReplays ==
    ASSUME DeliveryInv, NEW w \in Workers, Webhooks!WriteAgain(w)
    PROVE  DeliveryInv'
<1> DEFINE call == delivering[w]
<1>1. /\ call \in Webhooks!Call /\ call # None /\ call.phase # "send"
      /\ deliveryRequests[Webhooks!KeyOf(call)] = call.next
      /\ Webhooks!GoOn(w)
      /\ UNCHANGED <<now, delivery, deliveryRequests, endpointAnswers>>
      /\ DeliveryCopy(call, delivery, endpointAnswers)
      /\ delivery \in Webhooks!Delivery \cup {None} /\ now \in 0..MaxTime
      /\ endpointAnswers \subseteq [attempt : Nat \ {0}, answer : Webhooks!Answers]
  BY DEF Webhooks!WriteAgain, DeliveryInv, Webhooks!TypeOK
<1>2. call.next \in Webhooks!Delivery /\ call.request \in WebhookRequests
      /\ call.phase \in {"begin", "complete", "redrive"}
  BY <1>1 DEF Webhooks!Call, Webhooks!Phases
<1>3. Webhooks!KeyOf(call) \in Webhooks!Keys /\ call.next # None
  <2>1. Webhooks!KeyOf(call) \in Webhooks!Keys
    BY <1>2, DeliveryKey
  <2> QED
    BY <1>2, <2>1, CommandsAssumption DEF Webhooks!NoneIsNoRecord
<1>4. DeliveryGoesOn(call.next, delivery) /\ delivery # None
  BY <1>1, <1>3 DEF DeliveryInv
<1>5. PICK after \in Webhooks!Call \cup {None} :
         /\ delivering' = [delivering EXCEPT ![w] = after]
         /\ after # None => /\ call.phase = "begin" /\ after.phase = "send"
                            /\ after.current = call.next /\ after.next = call.next
  BY <1>1, DeliveryGoesBy
<1>6. after # None => DeliveryCopy(after, delivery, endpointAnswers)
  <2> SUFFICES ASSUME after # None PROVE DeliveryCopy(after, delivery, endpointAnswers)
    OBVIOUS
  <2>1. call.next.state = "delivering" /\ DeliveryIsTrue(call.next, endpointAnswers)
    BY <1>1, <1>5 DEF DeliveryCopy
  <2> HIDE DEF call
  <2> QED
    BY <1>1, <1>2, <1>4, <1>5, <2>1, DeliveryGoneBy
<1> QED
  BY <1>1, <1>5, <1>6, DeliveryIdles

LEMMA DeliveryNext ==
    ASSUME DeliveryInv, [Webhooks!Next]_(Webhooks!vars)
    PROVE  DeliveryInv'
<1>1. /\ delivery \in Webhooks!Delivery \cup {None} /\ now \in 0..MaxTime
      /\ delivery # None => DeliveryIsTrue(delivery, endpointAnswers)
      /\ delivering \in [Workers -> Webhooks!Call \cup {None}]
      /\ endpointAnswers \subseteq [attempt : Nat \ {0}, answer : Webhooks!Answers]
  BY DEF DeliveryInv, Webhooks!TypeOK
<1>2. ASSUME NEW w \in Workers, NEW r \in WebhookRequests, Webhooks!ProcessRead(w, r)
      PROVE  DeliveryInv'
  <2>1. /\ delivery # None /\ Webhooks!MayBegin(delivery, now)
        /\ Webhooks!Begin(w, r, "begin", Webhooks!beginWebhookDelivery(delivery, now))
    BY <1>2 DEF Webhooks!ProcessRead
  <2> QED
    BY <1>1, <2>1, BegunDelivery, DeliveryBegins
<1>3. ASSUME NEW w \in Workers, NEW r \in WebhookRequests, Webhooks!RedriveRead(w, r)
      PROVE  DeliveryInv'
  <2>1. /\ delivery # None /\ delivery.state = "dead-lettered"
        /\ Webhooks!Begin(w, r, "redrive", Webhooks!redriveWebhookDelivery(delivery, now))
    BY <1>3 DEF Webhooks!RedriveRead
  <2> QED
    BY <1>1, <2>1, RedrivenDelivery, DeliveryBegins
<1>4. ASSUME now' \in 0..MaxTime, UNCHANGED <<delivery, deliveryRequests, endpointAnswers>>,
             delivering' = delivering
      PROVE  DeliveryInv'
  BY <1>1, <1>4 DEF DeliveryInv, Webhooks!TypeOK
<1>5. CASE Webhooks!Tick
  <2>1. now' \in 0..MaxTime
    BY <1>1, <1>5, CommandsAssumption DEF Webhooks!Tick, Webhooks!WebhookAssumption
  <2> QED
    BY <1>4, <1>5, <2>1 DEF Webhooks!Tick
<1>6. ASSUME NEW w \in Workers, Webhooks!Fail(w) PROVE DeliveryInv'
  BY <1>1, <1>6, DeliveryIdles DEF Webhooks!Fail, Webhooks!Return
<1>7. CASE UNCHANGED Webhooks!vars
  BY <1>1, <1>4, <1>7 DEF Webhooks!vars
<1> QED
  BY <1>2, <1>3, <1>5, <1>6, <1>7, DeliveryEnqueues, DeliveryWrites, DeliveryReplays,
     DeliverySends
  DEF Webhooks!Next, Webhooks!Step

LEMMA DeliveryInvImplies == DeliveryInv => WebhookTruth
<1> SUFFICES ASSUME DeliveryInv PROVE Webhooks!WebhookTruth
  BY DEF WebhookTruth
<1>1. ASSUME NEW k \in DOMAIN deliveryRequests, deliveryRequests[k] # None
      PROVE  delivery # None /\ Webhooks!Shows(deliveryRequests[k], delivery)
  <2>1. k \in Webhooks!Keys
    BY DEF DeliveryInv, Webhooks!TypeOK
  <2> QED
    BY <1>1, <2>1 DEF DeliveryInv, DeliveryGoesOn
<1>2. delivery # None => DeliveryIsTrue(delivery, endpointAnswers)
  BY DEF DeliveryInv
<1> QED
  BY <1>1, <1>2 DEF DeliveryIsTrue, Webhooks!WebhookTruth, Webhooks!Last

----------------------------------------------------------------------------
(***************************************************************************)
(* Data exports.                                                           *)
(***************************************************************************)

\* What a worker will write goes on from the export it read, which had no outcome yet.
ReportCopy(report) ==
    /\ export # None
    /\ report.expected <= export.revision
    /\ report.expected <= report.next.revision
    /\ report.expected = export.revision =>
         /\ export.state \notin Exports!Outcomes
         /\ report.next.revision = export.revision => report.next = export

\* What a caller was shown.
ExportStands(e) ==
    /\ export # None
    /\ e.revision <= export.revision
    /\ e.state \in Exports!Outcomes => export = e

ExportInv ==
    /\ Exports!TypeOK
    /\ \A w \in Workers : reports[w] # None => ReportCopy(reports[w])
    /\ \A r \in ExportRequests : exportRequests[r] # None => ExportStands(exportRequests[r])
    /\ \A e \in shown : ExportStands(e)

LEMMA ExportInit == Exports!Init => ExportInv
BY CommandsAssumption DEF Exports!Init, ExportInv, Exports!TypeOK, Exports!ExportAssumption

LEMMA ExportFields ==
    ASSUME NEW e \in Exports!Export
    PROVE  e.revision \in Nat \ {0} /\ e # None
           /\ e.state \in {"queued", "running"} \cup Exports!Outcomes
BY CommandsAssumption DEF Exports!Export, Exports!NoneIsNoRecord

LEMMA ReportFields ==
    ASSUME NEW report \in Exports!Report
    PROVE  /\ report.request \in ExportRequests /\ report.expected \in Nat
           /\ report.next \in Exports!Export
BY DEF Exports!Report

\* What is decided of an export that runs, or waits to.
LEMMA ExportDecided ==
    ASSUME ExportInv, export # None, NEW w \in Workers,
           NEW action \in {"start"} \cup Exports!Outcomes, Exports!MayDecide(action)
    PROVE  LET next == Exports!Decided(w, action) IN
           /\ next \in Exports!Export /\ export.revision <= next.revision
           /\ next.revision = export.revision => next = export
           /\ export.state \notin Exports!Outcomes
<1>1. export \in Exports!Export
  BY DEF ExportInv, Exports!TypeOK
<1>2. export.state \notin Exports!Outcomes
  BY DEF Exports!MayDecide, Exports!Outcomes
<1>3. PICK revision \in Nat \ {0} : revision = export.revision + 1
  BY <1>1, ExportFields
<1>4. [export EXCEPT !.state = "running", !.revision = revision] \in Exports!Export
      /\ [export EXCEPT !.state = "running", !.revision = revision].revision = revision
  BY <1>1 DEF Exports!Export
<1>5. ASSUME action \in Exports!Outcomes
      PROVE  LET e == [export EXCEPT !.state = action, !.by = w, !.revision = revision] IN
             e \in Exports!Export /\ e.revision = revision
  BY <1>1, <1>5 DEF Exports!Export
<1>6. Exports!Decided(w, action) = export
      \/ Exports!Decided(w, action) = [export EXCEPT !.state = "running", !.revision = revision]
      \/ /\ action \in Exports!Outcomes
         /\ Exports!Decided(w, action)
              = [export EXCEPT !.state = action, !.by = w, !.revision = revision]
  BY <1>3 DEF Exports!Decided
<1>7. PICK next : next = Exports!Decided(w, action)
  OBVIOUS
<1>8. next = export \/ (next \in Exports!Export /\ next.revision = revision)
  BY <1>4, <1>5, <1>6, <1>7
<1>9. /\ next \in Exports!Export /\ export.revision <= next.revision
      /\ next.revision = export.revision => next = export
  BY <1>1, <1>3, <1>8, ExportFields
<1> QED
  BY <1>2, <1>7, <1>9

\* A step that stores nothing and shows what stands.
LEMMA ExportIdles ==
    ASSUME ExportInv, UNCHANGED <<export, exportRequests>>, now' \in 0..MaxTime,
           reports' \in [Workers -> Exports!Report \cup {None}],
           \A w \in Workers : reports'[w] # None =>
             reports'[w] = reports[w] \/ ReportCopy(reports'[w]),
           \A e \in shown' : e \in shown \/ (e \in Exports!Export /\ ExportStands(e))
    PROVE  ExportInv'
<1>1. Exports!TypeOK'
  BY DEF ExportInv, Exports!TypeOK
<1>2. \A w \in Workers : reports'[w] # None => ReportCopy(reports'[w])
  BY DEF ExportInv
<1>3. \A e \in shown' : ExportStands(e)
  BY DEF ExportInv
<1> QED
  BY <1>1, <1>2, <1>3 DEF ExportInv, ReportCopy, ExportStands

LEMMA ExportWrites ==
    ASSUME ExportInv, NEW w \in Workers, Exports!WriteOutcome(w)
    PROVE  ExportInv'
<1> DEFINE next == reports[w].next
<1>1. /\ reports[w] \in Exports!Report /\ ReportCopy(reports[w])
      /\ export.revision = reports[w].expected
      /\ export' = next /\ UNCHANGED now
      /\ exportRequests' = [exportRequests EXCEPT ![reports[w].request] = next]
      /\ reports' = [reports EXCEPT ![w] = None]
      /\ shown' = shown \cup {next}
  BY DEF Exports!WriteOutcome, ExportInv, Exports!TypeOK, Exports!isExpectedRevision
<1>2. /\ export \in Exports!Export \cup {None} /\ export # None /\ now \in 0..MaxTime
      /\ exportRequests \in [ExportRequests -> Exports!Export \cup {None}]
      /\ reports \in [Workers -> Exports!Report \cup {None}] /\ shown \subseteq Exports!Export
  BY <1>1 DEF ExportInv, Exports!TypeOK, ReportCopy
<1>3. /\ next \in Exports!Export /\ reports[w].request \in ExportRequests
      /\ export.revision \in Nat /\ next.revision \in Nat
      /\ export.revision <= next.revision
      /\ next.revision = export.revision => next = export
      /\ export.state \notin Exports!Outcomes
  BY <1>1, <1>2, ReportFields, ExportFields DEF ReportCopy
<1>4. PICK new \in Exports!Export : new = next
  BY <1>3
<1>5. export' = new /\ new # None
  BY <1>1, <1>4, ExportFields
<1>6. ASSUME NEW e \in Exports!Export, ExportStands(e) PROVE ExportStands(e)'
  BY <1>3, <1>4, <1>5, <1>6, ExportFields DEF ExportStands
<1>7. ExportStands(new)'
  BY <1>5, ExportFields DEF ExportStands
<1>8. ASSUME NEW v \in Workers, reports'[v] # None PROVE ReportCopy(reports[v])'
  <2>1. reports[v] \in Exports!Report /\ reports[v] # None
    BY <1>1, <1>2, <1>8
  <2>2. ReportCopy(reports[v]) /\ reports[v].expected \in Nat
    BY <2>1, ReportFields DEF ExportInv
  <2>3. reports'[v] = reports[v]
    BY <1>1, <1>2, <1>8
  <2> QED
    BY <1>3, <1>4, <1>5, <2>2, <2>3 DEF ReportCopy
<1>9. ASSUME NEW r \in ExportRequests, exportRequests'[r] # None
      PROVE  ExportStands(exportRequests[r])'
  <2>1. exportRequests'[r] = new \/ exportRequests'[r] = exportRequests[r]
    BY <1>1, <1>2, <1>4
  <2>2. CASE exportRequests'[r] = new
    BY <1>7, <2>2 DEF ExportStands
  <2>3. CASE exportRequests'[r] = exportRequests[r]
    <3>1. exportRequests[r] \in Exports!Export /\ ExportStands(exportRequests[r])
      BY <1>2, <1>9, <2>3 DEF ExportInv
    <3> QED
      BY <1>6, <2>3, <3>1 DEF ExportStands
  <2> QED
    BY <2>1, <2>2, <2>3
<1>10. ASSUME NEW e \in shown' PROVE ExportStands(e)'
  BY <1>1, <1>2, <1>4, <1>6, <1>7 DEF ExportInv
<1>11. Exports!TypeOK'
  BY <1>1, <1>2, <1>3 DEF Exports!TypeOK
<1> QED
  BY <1>8, <1>9, <1>10, <1>11 DEF ExportInv, ReportCopy, ExportStands

LEMMA ExportNext ==
    ASSUME ExportInv, [Exports!Next]_(Exports!vars)
    PROVE  ExportInv'
<1>1. /\ export \in Exports!Export \cup {None} /\ now \in 0..MaxTime
      /\ exportRequests \in [ExportRequests -> Exports!Export \cup {None}]
      /\ reports \in [Workers -> Exports!Report \cup {None}] /\ shown \subseteq Exports!Export
      /\ MaxTime \in Nat
  BY CommandsAssumption DEF ExportInv, Exports!TypeOK, Exports!ExportAssumption
<1>2. CASE Exports!Tick \/ UNCHANGED Exports!vars
  <2>1. now' \in 0..MaxTime /\ UNCHANGED <<export, exportRequests, reports, shown>>
    BY <1>1, <1>2 DEF Exports!Tick, Exports!vars
  <2> QED
    BY <1>1, <2>1, ExportIdles
<1>3. ASSUME NEW r \in ExportRequests, Exports!RequestDataExport(r) PROVE ExportInv'
  <2> DEFINE new == Exports!createDataExport
  <2>1. new \in Exports!Export /\ new.state \notin Exports!Outcomes
    BY DEF Exports!createDataExport, Exports!Export, Exports!Outcomes
  <2>2. /\ export = None /\ export' = new /\ UNCHANGED <<now, reports, shown>>
        /\ exportRequests' = [exportRequests EXCEPT ![r] = new]
    BY <1>3 DEF Exports!RequestDataExport
  <2>3. /\ \A w \in Workers : reports[w] = None
        /\ \A q \in ExportRequests : exportRequests[q] = None
        /\ shown = {}
    BY <2>2 DEF ExportInv, ReportCopy, ExportStands
  <2> HIDE DEF new
  <2>4. ExportStands(new)'
    BY <2>1, <2>2, ExportFields DEF ExportStands
  <2>5. \A q \in ExportRequests : exportRequests'[q] \in {new, None}
    BY <1>1, <2>2, <2>3
  <2>6. Exports!TypeOK'
    BY <1>1, <2>1, <2>2 DEF Exports!TypeOK
  <2> QED
    BY <2>2, <2>3, <2>4, <2>5, <2>6 DEF ExportInv, ExportStands
<1>4. ASSUME NEW w \in Workers, NEW r \in ExportRequests,
             NEW action \in {"start"} \cup Exports!Outcomes, Exports!ReadOutcome(w, r, action)
      PROVE  ExportInv'
  <2>1. export # None /\ Exports!MayDecide(action)
        /\ UNCHANGED <<now, export, exportRequests, shown>>
        /\ reports' = [reports EXCEPT ![w] = [request |-> r, expected |-> export.revision,
                                              next |-> Exports!Decided(w, action)]]
    BY <1>4 DEF Exports!ReadOutcome
  <2>2. PICK next \in Exports!Export :
          /\ next = Exports!Decided(w, action) /\ export.revision <= next.revision
          /\ next.revision = export.revision => next = export
          /\ export.state \notin Exports!Outcomes
    BY <2>1, ExportDecided
  <2>3. PICK report \in Exports!Report :
          report = [request |-> r, expected |-> export.revision, next |-> next]
    BY <1>1, <2>1, ExportFields DEF Exports!Report
  <2>4. ReportCopy(report)
    BY <1>1, <2>1, <2>2, <2>3, ExportFields DEF ReportCopy
  <2>5. reports' = [reports EXCEPT ![w] = report]
    BY <2>1, <2>2, <2>3
  <2> QED
    BY <1>1, <2>1, <2>4, <2>5, ExportIdles
<1>5. ASSUME NEW w \in Workers, Exports!WriteOutcome(w) PROVE ExportInv'
  BY <1>5, ExportWrites
<1>6. ASSUME NEW w \in Workers, Exports!ReplayOutcome(w) PROVE ExportInv'
  <2>1. /\ reports[w] \in Exports!Report
        /\ exportRequests[reports[w].request] = reports[w].next
        /\ reports' = [reports EXCEPT ![w] = None]
        /\ shown' = shown \cup {reports[w].next}
        /\ UNCHANGED <<now, export, exportRequests>>
    BY <1>1, <1>6 DEF Exports!ReplayOutcome
  <2>2. reports[w].next \in Exports!Export /\ reports[w].request \in ExportRequests
    BY <2>1, ReportFields
  <2>3. ExportStands(reports[w].next)
    BY <2>1, <2>2, ExportFields DEF ExportInv
  <2> QED
    BY <1>1, <2>1, <2>2, <2>3, ExportIdles
<1>7. ASSUME NEW w \in Workers, Exports!Fail(w) PROVE ExportInv'
  BY <1>1, <1>7, ExportIdles DEF Exports!Fail
<1> QED
  BY <1>2, <1>3, <1>4, <1>5, <1>6, <1>7 DEF Exports!Next

LEMMA ExportInvImplies == ExportInv => Exports!OutcomeStands
BY ExportFields DEF ExportInv, Exports!TypeOK, ExportStands, Exports!OutcomeStands

----------------------------------------------------------------------------
(***************************************************************************)
(* Webhook subscriptions.                                                  *)
(***************************************************************************)

\* What a command will write is the subscription as it is, or a disabled one after it.
DisableCopy(call) ==
    /\ subscription # None
    /\ call.expected <= subscription.revision
    /\ call.expected <= call.next.revision
    /\ call.expected = subscription.revision =>
         \/ call.next = subscription
         \/ call.next.revision > subscription.revision /\ subscription.state = "active"

\* What a request was answered with.
SubscriptionStands(s) ==
    /\ subscription # None
    /\ s.state = "disabled" => subscription = s

SubscriptionInv ==
    /\ Subscriptions!TypeOK
    /\ \A c \in Callers : disabling[c] # None => DisableCopy(disabling[c])
    /\ \A r \in SubscriptionRequests : subscriptionRequests[r] # None =>
          SubscriptionStands(subscriptionRequests[r])

LEMMA SubscriptionInit == Subscriptions!Init => SubscriptionInv
BY CommandsAssumption
DEF Subscriptions!Init, SubscriptionInv, Subscriptions!TypeOK,
  Subscriptions!SubscriptionAssumption

LEMMA SubscriptionFields ==
    ASSUME NEW s \in Subscriptions!Subscription
    PROVE  s.revision \in Nat \ {0} /\ s # None /\ s.state \in {"active", "disabled"}
BY CommandsAssumption DEF Subscriptions!Subscription, Subscriptions!NoneIsNoRecord

LEMMA DisableFields ==
    ASSUME NEW call \in Subscriptions!Call
    PROVE  /\ call.request \in SubscriptionRequests /\ call.expected \in Nat
           /\ call.next \in Subscriptions!Subscription
BY DEF Subscriptions!Call

LEMMA SubscriptionDisabled ==
    ASSUME SubscriptionInv, subscription # None
    PROVE  LET next == Subscriptions!disableWebhookSubscription IN
           /\ next \in Subscriptions!Subscription
           /\ \/ next = subscription
              \/ next.revision = subscription.revision + 1 /\ subscription.state = "active"
<1>1. subscription \in Subscriptions!Subscription /\ now \in 0..MaxTime \cup {None}
  BY DEF SubscriptionInv, Subscriptions!TypeOK
<1>2. PICK revision \in Nat \ {0} : revision = subscription.revision + 1
  BY <1>1, SubscriptionFields
<1> DEFINE e == [subscription EXCEPT !.state = "disabled", !.disabledAt = now,
                                     !.revision = revision]
<1>3. e \in Subscriptions!Subscription /\ e.revision = revision
  <2> DEFINE T == 0..MaxTime \cup {None}
             C == 0..MaxTime
  <2>1. Subscriptions!Subscription = [state : {"active", "disabled"}, createdAt : C,
                                      disabledAt : T, revision : Nat \ {0}]
    BY DEF Subscriptions!Subscription
  <2> HIDE DEF T, C
  <2>2. now \in T
    BY <1>1 DEF T
  <2> QED
    BY <1>1, <2>1, <2>2
<1>4. Subscriptions!disableWebhookSubscription \in {subscription, e}
      /\ (Subscriptions!disableWebhookSubscription # subscription
            => subscription.state = "active")
  BY <1>1, <1>2, SubscriptionFields DEF Subscriptions!disableWebhookSubscription
<1> HIDE DEF e
<1> QED
  BY <1>1, <1>2, <1>3, <1>4

LEMMA SubscriptionIdles ==
    ASSUME SubscriptionInv, UNCHANGED <<subscription, subscriptionRequests>>,
           now' \in 0..MaxTime,
           disabling' \in [Callers -> Subscriptions!Call \cup {None}],
           \A c \in Callers : disabling'[c] # None =>
             disabling'[c] = disabling[c] \/ DisableCopy(disabling'[c])
    PROVE  SubscriptionInv'
<1>1. Subscriptions!TypeOK'
  BY DEF SubscriptionInv, Subscriptions!TypeOK
<1>2. \A c \in Callers : disabling'[c] # None => DisableCopy(disabling'[c])
  BY DEF SubscriptionInv
<1> QED
  BY <1>1, <1>2 DEF SubscriptionInv, DisableCopy, SubscriptionStands

LEMMA SubscriptionWrites ==
    ASSUME SubscriptionInv, NEW c \in Callers, Subscriptions!DisableWrite(c)
    PROVE  SubscriptionInv'
<1> DEFINE next == disabling[c].next
<1>1. /\ disabling[c] \in Subscriptions!Call /\ DisableCopy(disabling[c])
      /\ subscription.revision = disabling[c].expected
      /\ subscription' = next /\ UNCHANGED now
      /\ subscriptionRequests' = [subscriptionRequests EXCEPT ![disabling[c].request] = next]
      /\ disabling' = [disabling EXCEPT ![c] = None]
  BY DEF Subscriptions!DisableWrite, SubscriptionInv, Subscriptions!TypeOK,
         Subscriptions!isExpectedRevision
<1>2. /\ subscription \in Subscriptions!Subscription \cup {None} /\ subscription # None
      /\ now \in 0..MaxTime
      /\ subscriptionRequests \in
           [SubscriptionRequests -> Subscriptions!Subscription \cup {None}]
      /\ disabling \in [Callers -> Subscriptions!Call \cup {None}]
  BY <1>1 DEF SubscriptionInv, Subscriptions!TypeOK, DisableCopy
<1>3. /\ next \in Subscriptions!Subscription
      /\ disabling[c].request \in SubscriptionRequests
      /\ subscription.revision \in Nat /\ next.revision \in Nat
      /\ \/ next = subscription
         \/ next.revision > subscription.revision /\ subscription.state = "active"
  BY <1>1, <1>2, DisableFields, SubscriptionFields DEF DisableCopy
<1>4. PICK new \in Subscriptions!Subscription : new = next
  BY <1>3
<1>5. subscription' = new /\ new # None
  BY <1>1, <1>4, SubscriptionFields
<1>6. ASSUME NEW s \in Subscriptions!Subscription, SubscriptionStands(s)
      PROVE  SubscriptionStands(s)'
  BY <1>3, <1>4, <1>5, <1>6 DEF SubscriptionStands
<1>7. ASSUME NEW d \in Callers, disabling'[d] # None PROVE DisableCopy(disabling[d])'
  <2>1. disabling[d] \in Subscriptions!Call /\ disabling[d] # None
    BY <1>1, <1>2, <1>7
  <2>2. DisableCopy(disabling[d]) /\ disabling[d].expected \in Nat
    BY <2>1, DisableFields DEF SubscriptionInv
  <2>3. disabling'[d] = disabling[d]
    BY <1>1, <1>2, <1>7
  <2> QED
    BY <1>3, <1>4, <1>5, <2>2, <2>3 DEF DisableCopy
<1>8. ASSUME NEW r \in SubscriptionRequests, subscriptionRequests'[r] # None
      PROVE  SubscriptionStands(subscriptionRequests[r])'
  <2>1. subscriptionRequests'[r] = new \/ subscriptionRequests'[r] = subscriptionRequests[r]
    BY <1>1, <1>2, <1>4
  <2>2. CASE subscriptionRequests'[r] = new
    BY <1>5, <2>2 DEF SubscriptionStands
  <2>3. CASE subscriptionRequests'[r] = subscriptionRequests[r]
    <3>1. subscriptionRequests[r] \in Subscriptions!Subscription
          /\ SubscriptionStands(subscriptionRequests[r])
      BY <1>2, <1>8, <2>3 DEF SubscriptionInv
    <3> QED
      BY <1>6, <2>3, <3>1 DEF SubscriptionStands
  <2> QED
    BY <2>1, <2>2, <2>3
<1>9. Subscriptions!TypeOK'
  BY <1>1, <1>2, <1>3 DEF Subscriptions!TypeOK
<1> QED
  BY <1>7, <1>8, <1>9 DEF SubscriptionInv, DisableCopy, SubscriptionStands

LEMMA SubscriptionNext ==
    ASSUME SubscriptionInv, [Subscriptions!Next]_(Subscriptions!vars)
    PROVE  SubscriptionInv'
<1>1. /\ subscription \in Subscriptions!Subscription \cup {None} /\ now \in 0..MaxTime
      /\ subscriptionRequests \in
           [SubscriptionRequests -> Subscriptions!Subscription \cup {None}]
      /\ disabling \in [Callers -> Subscriptions!Call \cup {None}]
      /\ MaxTime \in Nat
  BY CommandsAssumption
  DEF SubscriptionInv, Subscriptions!TypeOK, Subscriptions!SubscriptionAssumption
<1>2. CASE Subscriptions!Tick \/ UNCHANGED Subscriptions!vars
  <2>1. now' \in 0..MaxTime /\ UNCHANGED <<subscription, subscriptionRequests, disabling>>
    BY <1>1, <1>2 DEF Subscriptions!Tick, Subscriptions!vars
  <2> QED
    BY <1>1, <2>1, SubscriptionIdles
<1>3. ASSUME NEW r \in SubscriptionRequests, Subscriptions!Create(r) PROVE SubscriptionInv'
  <2> DEFINE new == Subscriptions!createWebhookSubscription
  <2>1. new \in Subscriptions!Subscription /\ new.state = "active"
    BY <1>1 DEF Subscriptions!createWebhookSubscription, Subscriptions!Subscription
  <2>2. PICK made \in Subscriptions!Subscription : made = new /\ made.state = "active"
    BY <2>1
  <2>3. /\ subscription = None /\ subscription' = made /\ UNCHANGED <<now, disabling>>
        /\ subscriptionRequests' = [subscriptionRequests EXCEPT ![r] = made]
    BY <1>3, <2>2 DEF Subscriptions!Create
  <2>4. /\ \A c \in Callers : disabling[c] = None
        /\ \A q \in SubscriptionRequests : subscriptionRequests[q] = None
    BY <2>3 DEF SubscriptionInv, DisableCopy, SubscriptionStands
  <2>5. \A q \in SubscriptionRequests : subscriptionRequests'[q] \in {made, None}
    BY <1>1, <2>3, <2>4
  <2>6. Subscriptions!TypeOK'
    BY <1>1, <2>3 DEF Subscriptions!TypeOK
  <2>7. made # None
    BY SubscriptionFields
  <2> QED
    BY <2>2, <2>3, <2>4, <2>5, <2>6, <2>7 DEF SubscriptionInv, SubscriptionStands
<1>4. ASSUME NEW c \in Callers, NEW r \in SubscriptionRequests,
             Subscriptions!DisableRead(c, r)
      PROVE  SubscriptionInv'
  <2>1. subscription # None /\ UNCHANGED <<now, subscription, subscriptionRequests>>
        /\ disabling' = [disabling EXCEPT ![c] =
             [request |-> r, expected |-> subscription.revision,
              next |-> Subscriptions!disableWebhookSubscription]]
    BY <1>4 DEF Subscriptions!DisableRead
  <2>2. PICK next \in Subscriptions!Subscription :
          /\ next = Subscriptions!disableWebhookSubscription
          /\ \/ next = subscription
             \/ next.revision = subscription.revision + 1 /\ subscription.state = "active"
    BY <2>1, SubscriptionDisabled
  <2>3. PICK call \in Subscriptions!Call :
          call = [request |-> r, expected |-> subscription.revision, next |-> next]
    BY <1>1, <2>1, SubscriptionFields DEF Subscriptions!Call
  <2>4. DisableCopy(call)
    BY <1>1, <2>1, <2>2, <2>3, SubscriptionFields DEF DisableCopy
  <2>5. disabling' = [disabling EXCEPT ![c] = call]
    BY <2>1, <2>2, <2>3
  <2> QED
    BY <1>1, <2>1, <2>4, <2>5, SubscriptionIdles
<1>5. ASSUME NEW c \in Callers, Subscriptions!DisableWrite(c) PROVE SubscriptionInv'
  BY <1>5, SubscriptionWrites
<1>6. ASSUME NEW c \in Callers, Subscriptions!Return(c) PROVE SubscriptionInv'
  BY <1>1, <1>6, SubscriptionIdles DEF Subscriptions!Return
<1> QED
  BY <1>2, <1>3, <1>4, <1>5, <1>6 DEF Subscriptions!Next

LEMMA SubscriptionInvImplies == SubscriptionInv => Subscriptions!DisabledStands
BY DEF SubscriptionInv, SubscriptionStands, Subscriptions!DisabledStands

----------------------------------------------------------------------------
(***************************************************************************)
(* The artifact registry.                                                  *)
(***************************************************************************)

\* What a command waits for tells what it has verified.
Verified(call) ==
    /\ call.next # "content" => call.publication.digest \in content
    /\ call.next = "store" => call.publication.digest \in trusted

Answered(q) == revisions[q.revision] = q.digest /\ channels[q.channel] = q.revision

RegistryInv ==
    /\ Registry!TypeOK
    /\ \A p \in Publishers : publishing[p] # None => Verified(publishing[p])
    /\ Registry!PublishedStands

LEMMA RegistryInit == Registry!Init => RegistryInv
BY DEF Registry!Init, RegistryInv, Registry!TypeOK, Registry!PublishedStands

LEMMA PublicationFields ==
    ASSUME NEW q \in Publications
    PROVE  /\ q.revision \in Registry!Revisions /\ q.channel \in Registry!Channels
           /\ q.digest \in Registry!Digests /\ q.request \in Registry!PublicationRequests
           /\ q # None /\ q.revision # None /\ q.digest # None
BY CommandsAssumption
DEF Registry!Revisions, Registry!Channels, Registry!Digests, Registry!PublicationRequests,
    Registry!NoneIsNoRecord

\* A step that publishes nothing; content and trusted signatures only arrive.
LEMMA RegistryIdles ==
    ASSUME RegistryInv, UNCHANGED <<revisions, channels, publicationRequests>>,
           content \subseteq content', trusted \subseteq trusted',
           content' \subseteq Registry!Digests, trusted' \subseteq Registry!Digests,
           publishing' \in [Publishers -> Registry!Publishing \cup {None}],
           \A p \in Publishers : publishing'[p] # None =>
             publishing'[p] = publishing[p] \/ Verified(publishing'[p])
    PROVE  RegistryInv'
<1>1. Registry!TypeOK'
  BY DEF RegistryInv, Registry!TypeOK
<1>2. ASSUME NEW p \in Publishers, publishing'[p] # None
      PROVE  Verified(publishing[p])'
  BY <1>2 DEF RegistryInv, Verified
<1>3. Registry!PublishedStands'
  BY DEF RegistryInv, Registry!PublishedStands
<1> QED
  BY <1>1, <1>2, <1>3 DEF RegistryInv

LEMMA RegistryStores ==
    ASSUME RegistryInv, NEW p \in Publishers, Registry!Store(p)
    PROVE  RegistryInv'
<1> DEFINE q == publishing[p].publication
<1>1. /\ publishing[p] # None /\ publishing[p].next = "store"
      /\ publicationRequests[q.request] = None /\ revisions[q.revision] = None
      /\ channels[q.channel] \in {None, q.revision}
      /\ revisions' = [revisions EXCEPT ![q.revision] = q.digest]
      /\ channels' = [channels EXCEPT ![q.channel] = q.revision]
      /\ publicationRequests' = [publicationRequests EXCEPT ![q.request] = q]
      /\ publishing' = [publishing EXCEPT ![p] = None]
      /\ UNCHANGED <<content, trusted>>
  BY DEF Registry!Store, Registry!At, Registry!channelIsFree
<1>2. /\ content \subseteq Registry!Digests /\ trusted \subseteq Registry!Digests
      /\ revisions \in [Registry!Revisions -> Registry!Digests \cup {None}]
      /\ channels \in [Registry!Channels -> Registry!Revisions \cup {None}]
      /\ publicationRequests \in [Registry!PublicationRequests -> Publications \cup {None}]
      /\ publishing \in [Publishers -> Registry!Publishing \cup {None}]
  BY DEF RegistryInv, Registry!TypeOK
<1>3. q \in Publications /\ q.digest \in content \cap trusted
  <2>1. publishing[p] \in Registry!Publishing /\ Verified(publishing[p])
    BY <1>1, <1>2 DEF RegistryInv
  <2> QED
    BY <1>1, <2>1 DEF Registry!Publishing, Verified
<1>4. PICK new \in Publications : new = q
  BY <1>3
<1>5. /\ new.revision \in Registry!Revisions /\ new.channel \in Registry!Channels
      /\ new.digest \in Registry!Digests /\ new.request \in Registry!PublicationRequests
      /\ new # None /\ new.revision # None /\ new.digest # None
  BY PublicationFields
<1> HIDE DEF q
<1>6. /\ revisions' = [revisions EXCEPT ![new.revision] = new.digest]
      /\ channels' = [channels EXCEPT ![new.channel] = new.revision]
      /\ publicationRequests' = [publicationRequests EXCEPT ![new.request] = new]
      /\ publicationRequests[new.request] = None /\ revisions[new.revision] = None
      /\ channels[new.channel] \in {None, new.revision}
      /\ new.digest \in content \cap trusted
  BY <1>1, <1>3, <1>4
<1>7. Registry!TypeOK'
  <2>1. revisions' \in [Registry!Revisions -> Registry!Digests \cup {None}]
    BY <1>2, <1>5, <1>6
  <2>2. channels' \in [Registry!Channels -> Registry!Revisions \cup {None}]
    BY <1>2, <1>5, <1>6
  <2>3. publicationRequests' \in [Registry!PublicationRequests -> Publications \cup {None}]
    BY <1>2, <1>5, <1>6
  <2> QED
    BY <1>1, <1>2, <2>1, <2>2, <2>3 DEF Registry!TypeOK
<1>8. \A r \in Publishers : publishing'[r] # None => Verified(publishing'[r])
  BY <1>1, <1>2 DEF RegistryInv
<1>9. ASSUME NEW r \in Registry!PublicationRequests, publicationRequests'[r] # None
      PROVE  /\ revisions'[publicationRequests'[r].revision] = publicationRequests'[r].digest
             /\ channels'[publicationRequests'[r].channel] = publicationRequests'[r].revision
  <2>1. CASE r = new.request
    <3>1. publicationRequests'[r] = new
      BY <1>2, <1>6, <2>1
    <3> QED
      BY <1>2, <1>5, <1>6, <3>1
  <2>2. CASE r # new.request
    <3>1. publicationRequests'[r] = publicationRequests[r] /\ publicationRequests[r] # None
      BY <1>2, <1>6, <1>9, <2>2
    <3>2. PICK old \in Publications : old = publicationRequests[r]
      BY <1>2, <3>1
    <3>3. revisions[old.revision] = old.digest /\ channels[old.channel] = old.revision
      BY <3>1, <3>2 DEF RegistryInv, Registry!PublishedStands
    <3>4. /\ old.revision \in Registry!Revisions /\ old.channel \in Registry!Channels
          /\ old.digest # None /\ old.revision # None
      BY PublicationFields
    <3>5. old.revision # new.revision
      BY <1>6, <3>3, <3>4
    <3>6. revisions'[old.revision] = old.digest
      BY <1>2, <1>6, <3>3, <3>4, <3>5
    <3>7. channels'[old.channel] = old.revision
      BY <1>2, <1>5, <1>6, <3>3, <3>4
    <3> QED
      BY <3>1, <3>2, <3>6, <3>7
  <2> QED
    BY <2>1, <2>2
<1>10. ASSUME NEW r \in Registry!Revisions, revisions'[r] # None
       PROVE  /\ revisions'[r] \in content' \cap trusted'
              /\ \E a \in Registry!PublicationRequests :
                    publicationRequests'[a] # None /\ publicationRequests'[a].revision = r
  <2>1. CASE r = new.revision
    <3>1. revisions'[r] = new.digest /\ publicationRequests'[new.request] = new
      BY <1>2, <1>5, <1>6, <2>1
    <3> QED
      BY <1>1, <1>5, <1>6, <2>1, <3>1
  <2>2. CASE r # new.revision
    <3>1. revisions'[r] = revisions[r]
      BY <1>2, <1>6, <2>2
    <3>2. PICK a \in Registry!PublicationRequests :
            publicationRequests[a] # None /\ publicationRequests[a].revision = r
      BY <1>10, <3>1 DEF RegistryInv, Registry!PublishedStands
    <3>3. publicationRequests'[a] = publicationRequests[a]
      BY <1>2, <1>6, <3>2
    <3>4. revisions[r] \in content \cap trusted
      BY <1>10, <3>1 DEF RegistryInv, Registry!PublishedStands
    <3> QED
      BY <1>1, <3>1, <3>2, <3>3, <3>4
  <2> QED
    BY <2>1, <2>2
<1>11. Registry!PublishedStands'
  BY <1>9, <1>10 DEF Registry!PublishedStands
<1> QED
  BY <1>1, <1>7, <1>8, <1>11 DEF RegistryInv, Verified

LEMMA RegistryNext ==
    ASSUME RegistryInv, [Registry!Next]_(Registry!vars)
    PROVE  RegistryInv'
<1>1. /\ content \subseteq Registry!Digests /\ trusted \subseteq Registry!Digests
      /\ publishing \in [Publishers -> Registry!Publishing \cup {None}]
  BY DEF RegistryInv, Registry!TypeOK
<1>2. CASE UNCHANGED Registry!vars
  <2>1. UNCHANGED <<content, trusted, revisions, channels, publicationRequests, publishing>>
    BY <1>2 DEF Registry!vars
  <2> QED
    BY <1>1, <2>1, RegistryIdles
<1>3. ASSUME NEW d \in Registry!Digests, Registry!putContent(d) \/ Registry!trustSignature(d)
      PROVE  RegistryInv'
  BY <1>1, <1>3, RegistryIdles DEF Registry!putContent, Registry!trustSignature
<1>4. ASSUME NEW p \in Publishers, NEW q \in Publications, Registry!Publish(p, q)
      PROVE  RegistryInv'
  <2>1. PICK call \in Registry!Publishing : call = [publication |-> q, next |-> "content"]
    BY DEF Registry!Publishing
  <2>2. Verified(call)
    BY <2>1 DEF Verified
  <2>3. publishing' = [publishing EXCEPT ![p] = call]
        /\ UNCHANGED <<content, trusted, revisions, channels, publicationRequests>>
    BY <1>4, <2>1 DEF Registry!Publish
  <2> QED
    BY <1>1, <2>2, <2>3, RegistryIdles
<1>5. ASSUME NEW p \in Publishers, NEW next \in {"signature", "store"},
             publishing[p] # None, Registry!GoOn(p, next),
             publishing[p].publication.digest \in content,
             next = "store" => publishing[p].publication.digest \in trusted
      PROVE  RegistryInv'
  <2>1. publishing[p] \in Registry!Publishing
    BY <1>1, <1>5
  <2>2. PICK call : call = [publishing[p] EXCEPT !.next = next]
    OBVIOUS
  <2>3. call \in Registry!Publishing /\ call.next = next
        /\ call.publication = publishing[p].publication
    BY <2>1, <2>2 DEF Registry!Publishing
  <2>4. Verified(call)
    BY <1>5, <2>3 DEF Verified
  <2>5. publishing' = [publishing EXCEPT ![p] = call]
        /\ UNCHANGED <<content, trusted, revisions, channels, publicationRequests>>
    BY <1>5, <2>2 DEF Registry!GoOn
  <2> QED
    BY <1>1, <2>3, <2>4, <2>5, RegistryIdles
<1>6. ASSUME NEW p \in Publishers, Registry!verifyContent(p) PROVE RegistryInv'
  BY <1>5, <1>6 DEF Registry!verifyContent, Registry!At
<1>7. ASSUME NEW p \in Publishers, Registry!verifySignature(p) PROVE RegistryInv'
  <2>1. Verified(publishing[p]) /\ publishing[p].next = "signature"
    BY <1>7 DEF Registry!verifySignature, Registry!At, RegistryInv
  <2> QED
    BY <1>5, <1>7, <2>1 DEF Registry!verifySignature, Registry!At, Verified
<1>8. ASSUME NEW p \in Publishers, Registry!Store(p) PROVE RegistryInv'
  BY <1>8, RegistryStores
<1>9. ASSUME NEW p \in Publishers, Registry!Return(p) PROVE RegistryInv'
  BY <1>1, <1>9, RegistryIdles DEF Registry!Return
<1> QED
  BY <1>2, <1>3, <1>4, <1>6, <1>7, <1>8, <1>9 DEF Registry!Next

----------------------------------------------------------------------------
(***************************************************************************)
(* Runtime manifests.                                                      *)
(***************************************************************************)

\* What is in the history under a generation, and what a request was taken with.
IsObserved(g) ==
    observations[g] # None =>
      /\ observations[g].report.generation = g
      /\ Manifests!verifies(observations[g].report)
IsIdentified(q) ==
    identified[q] # None =>
      \E g \in Manifests!Generations, d \in Nat :
        /\ identified[q] = <<g, d>>
        /\ observations[g] # None /\ observations[g].report.digest = d

\* What a report was answered with is so in the history and among the requests.
AnswerStands(answer, history, known) ==
    LET report == answer.report
        stored == history[report.generation]
    IN /\ answer.outcome \in Manifests!Dispositions =>
            stored # None /\ stored.report.content = report.content
       /\ answer.outcome = "generation-conflict" =>
            stored # None /\ stored.report.content # report.content
       /\ answer.outcome = "idempotency-conflict" =>
            known[report.request] \notin {None, <<report.generation, report.digest>>}

ManifestInv ==
    /\ Manifests!TypeOK
    /\ \A p \in Reporters : reporting[p] # None /\ reporting[p].stage = "record" =>
          Manifests!verifies(reporting[p].report)
    /\ \A g \in Manifests!Generations : IsObserved(g)
    /\ \A q \in Manifests!RequestIds : IsIdentified(q)
    /\ told # None => /\ Manifests!verifies(told.report)
                      /\ AnswerStands(told, observations, identified)
    /\ viewed # None => latest # None
    /\ Manifests!LatestIsHighest

LEMMA ManifestInit == Manifests!Init => ManifestInv
BY CommandsAssumption
DEF Manifests!Init, ManifestInv, Manifests!TypeOK, Manifests!ManifestAssumption, IsObserved,
    IsIdentified, Manifests!LatestIsHighest

LEMMA ManifestFields ==
    ASSUME NEW r \in ManifestReports
    PROVE  /\ r.generation \in Manifests!Generations /\ r.request \in Manifests!RequestIds
           /\ r.generation \in Nat /\ r.digest \in Nat /\ r.content \in Nat
           /\ r.expires \in Nat /\ r.observedAt \in 0..MaxTime /\ r.generation # None
BY CommandsAssumption
DEF Manifests!ManifestAssumption, Manifests!Report, Manifests!Generations,
    Manifests!RequestIds, Manifests!NoneIsNoRecord

LEMMA ManifestTypes ==
    ASSUME ManifestInv
    PROVE  /\ now \in 0..MaxTime /\ MaxTime \in Nat
           /\ credential \in {"active", "revoked"}
           /\ observations \in [Manifests!Generations -> Manifests!Observation \cup {None}]
           /\ latest \in Manifests!Generations \cup {None}
           /\ identified \in
                [Manifests!RequestIds -> (Manifests!Generations \X Nat) \cup {None}]
           /\ reporting \in [Reporters -> Manifests!Call \cup {None}]
           /\ told \in Manifests!Answer \cup {None}
           /\ viewed \in Manifests!Generations \cup {None}
           /\ Manifests!Generations \subseteq Nat /\ None \notin Manifests!Generations
BY CommandsAssumption
DEF ManifestInv, Manifests!TypeOK, Manifests!ManifestAssumption, Manifests!Generations,
    Manifests!Report, Manifests!NoneIsNoRecord

\* A step that records nothing.
LEMMA ManifestIdles ==
    ASSUME ManifestInv, UNCHANGED <<observations, latest, identified, told>>,
           now' \in 0..MaxTime, credential' \in {"active", "revoked"},
           viewed' \in {viewed, latest},
           reporting' \in [Reporters -> Manifests!Call \cup {None}],
           \A p \in Reporters : reporting'[p] # None /\ reporting'[p].stage = "record" =>
             reporting'[p] = reporting[p] \/ Manifests!verifies(reporting'[p].report)
    PROVE  ManifestInv'
<1>1. Manifests!TypeOK'
  BY ManifestTypes DEF Manifests!TypeOK
<1>2. \A p \in Reporters : reporting'[p] # None /\ reporting'[p].stage = "record" =>
         Manifests!verifies(reporting'[p].report)
  BY DEF ManifestInv
<1>3. Manifests!LatestIsHighest'
  BY ManifestTypes DEF ManifestInv, Manifests!LatestIsHighest
<1>4. /\ \A g \in Manifests!Generations : IsObserved(g)'
      /\ \A q \in Manifests!RequestIds : IsIdentified(q)'
      /\ told' # None => Manifests!verifies(told.report)'
                         /\ AnswerStands(told, observations, identified)'
      /\ viewed' # None => latest' # None
  BY DEF ManifestInv, IsObserved, IsIdentified, AnswerStands, Manifests!verifies
<1> QED
  BY <1>1, <1>2, <1>3, <1>4 DEF ManifestInv, Manifests!verifies

LEMMA ManifestRecords ==
    ASSUME ManifestInv, NEW p \in Reporters, Manifests!Record(p)
    PROVE  ManifestInv'
<1> DEFINE call == reporting[p]
           prior == observations[call.report.generation]
<1>1. /\ call \in Manifests!Call /\ call # None /\ Manifests!verifies(call.report)
      /\ reporting' = [reporting EXCEPT ![p] = None]
      /\ UNCHANGED <<now, credential, viewed>>
  BY ManifestTypes DEF Manifests!Record, ManifestInv, Manifests!Ends, Manifests!Goes
<1>2. PICK report \in ManifestReports : report = call.report
  BY <1>1 DEF Manifests!Call
<1>3. PICK g \in Manifests!Generations, q \in Manifests!RequestIds :
         g = report.generation /\ q = report.request
  BY ManifestFields
<1>4. PICK outcome : outcome = Manifests!Outcome(report)
  OBVIOUS
<1>5. PICK seen \in Manifests!Observation :
         seen = [report |-> report, receivedAt |-> call.receivedAt] /\ seen.report = report
  <2>1. PICK at \in 0..MaxTime : at = call.receivedAt
    BY <1>1 DEF Manifests!Call
  <2>2. [report |-> report, receivedAt |-> at] \in Manifests!Observation
    BY DEF Manifests!Observation
  <2> QED
    BY <2>1, <2>2
<1>6. /\ told' \in {told, [outcome |-> outcome, report |-> report]}
      /\ outcome \in Manifests!Conflicts => UNCHANGED identified
      /\ outcome \notin Manifests!Conflicts =>
           identified' = [identified EXCEPT ![q] = <<g, report.digest>>]
      /\ outcome \in {"accepted-latest", "accepted-late"} =>
           observations' = [observations EXCEPT ![g] = seen]
      /\ outcome \notin {"accepted-latest", "accepted-late"} => UNCHANGED observations
      /\ latest' = IF outcome = "accepted-latest" THEN g ELSE latest
  BY <1>2, <1>3, <1>4, <1>5 DEF Manifests!Record, Manifests!Identify
<1>7. /\ report.digest \in Nat /\ report.content = report.digest /\ g \in Nat /\ g # None
      /\ seen # None
  BY <1>1, <1>2, <1>3, ManifestFields, CommandsAssumption
  DEF Manifests!verifies, Manifests!NoneIsNoRecord
<1>8. IsIdentified(q) /\ IsObserved(g)
  BY DEF ManifestInv
<1>9. \/ /\ outcome = "replayed" /\ identified[q] = <<g, report.digest>>
         /\ observations[g] # None /\ observations[g].report.digest = report.digest
      \/ /\ outcome = "idempotency-conflict"
         /\ identified[q] \notin {None, <<g, report.digest>>}
      \/ /\ outcome = "replayed" /\ identified[q] = None
         /\ observations[g] # None /\ observations[g].report.digest = report.digest
      \/ /\ outcome = "generation-conflict" /\ identified[q] = None
         /\ observations[g] # None /\ observations[g].report.digest # report.digest
      \/ /\ outcome = "accepted-latest" /\ identified[q] = None /\ observations[g] = None
         /\ latest = None \/ g > latest
      \/ /\ outcome = "accepted-late" /\ identified[q] = None /\ observations[g] = None
         /\ ~(latest = None \/ g > latest)
  <2>1. CASE identified[q] # None
    BY <1>3, <1>4, <1>8, <2>1
    DEF Manifests!Outcome, Manifests!sameReport, IsIdentified
  <2>2. CASE identified[q] = None /\ observations[g] # None
    BY <1>3, <1>4, <2>2 DEF Manifests!Outcome
  <2>3. CASE identified[q] = None /\ observations[g] = None
    BY <1>3, <1>4, <2>3 DEF Manifests!Outcome, Manifests!updatesLatest
  <2> QED
    BY <2>1, <2>2, <2>3
<1>10. /\ outcome \in {"replayed", "idempotency-conflict", "generation-conflict",
                       "accepted-latest", "accepted-late"}
       /\ outcome \in Manifests!Dispositions \cup Manifests!Conflicts
  BY <1>9 DEF Manifests!Dispositions, Manifests!Conflicts
\* The history only grows, and what identifies a request stays.
<1>11. \A h \in Manifests!Generations :
          \/ observations'[h] = observations[h]
          \/ h = g /\ observations[h] = None /\ observations'[h] = seen
  BY <1>6, <1>9, ManifestTypes
<1>12. \A r \in Manifests!RequestIds :
          \/ identified'[r] = identified[r]
          \/ r = q /\ identified[r] = None /\ identified'[r] = <<g, report.digest>>
  <2>1. CASE outcome \in Manifests!Conflicts
    BY <1>6, <2>1
  <2>2. CASE outcome \notin Manifests!Conflicts
    <3>1. \A r \in Manifests!RequestIds :
            IF r = q THEN identified'[r] = <<g, report.digest>>
                     ELSE identified'[r] = identified[r]
      BY <1>6, <2>2, ManifestTypes
    <3>2. identified[q] = None \/ identified[q] = <<g, report.digest>>
      BY <1>9, <2>2 DEF Manifests!Conflicts
    <3> QED
      BY <3>1, <3>2
  <2> QED
    BY <2>1, <2>2
<1>14. outcome \in {"replayed", "accepted-latest", "accepted-late"} =>
          observations'[g] # None /\ observations'[g].report.digest = report.digest
  BY <1>5, <1>6, <1>7, <1>9, ManifestTypes
<1>15. Manifests!TypeOK'
  <2>1. observations' \in [Manifests!Generations -> Manifests!Observation \cup {None}]
    BY <1>6, <1>10, ManifestTypes
  <2>2. <<g, report.digest>> \in Manifests!Generations \X Nat
    BY <1>7
  <2>3. identified' \in [Manifests!RequestIds -> (Manifests!Generations \X Nat) \cup {None}]
    <3>1. PICK pair \in Manifests!Generations \X Nat : pair = <<g, report.digest>>
      BY <2>2
    <3>2. \/ UNCHANGED identified
          \/ identified' = [identified EXCEPT ![q] = pair]
      BY <1>6, <3>1
    <3> QED
      BY <3>2, ManifestTypes
  <2>4. told' \in Manifests!Answer \cup {None}
    BY <1>6, <1>10, ManifestTypes DEF Manifests!Answer
  <2>5. reporting' \in [Reporters -> Manifests!Call \cup {None}]
    BY <1>1, ManifestTypes
  <2>6. latest' \in Manifests!Generations \cup {None}
    BY <1>6, ManifestTypes
  <2> QED
    BY <1>1, <2>1, <2>3, <2>4, <2>5, <2>6, ManifestTypes DEF Manifests!TypeOK
<1>16. \A r \in Reporters : reporting'[r] # None /\ reporting'[r].stage = "record" =>
          Manifests!verifies(reporting'[r].report)
  BY <1>1, ManifestTypes DEF ManifestInv
<1>17. ASSUME NEW h \in Manifests!Generations, observations'[h] # None
       PROVE  observations'[h].report.generation = h
              /\ Manifests!verifies(observations'[h].report)
  BY <1>1, <1>2, <1>3, <1>5, <1>11, <1>17 DEF ManifestInv, IsObserved
<1>18. ASSUME NEW r \in Manifests!RequestIds, identified'[r] # None
       PROVE  \E h \in Manifests!Generations, d \in Nat :
                /\ identified'[r] = <<h, d>>
                /\ observations'[h] # None /\ observations'[h].report.digest = d
  <2>1. CASE identified'[r] = identified[r]
    <3>1. PICK h \in Manifests!Generations, d \in Nat :
            /\ identified[r] = <<h, d>>
            /\ observations[h] # None /\ observations[h].report.digest = d
      BY <1>18, <2>1 DEF ManifestInv, IsIdentified
    <3>2. observations'[h] = observations[h]
      BY <1>11, <3>1
    <3> QED
      BY <2>1, <3>1, <3>2
  <2>2. CASE identified'[r] # identified[r]
    <3>1. r = q /\ identified'[r] = <<g, report.digest>> /\ identified[r] = None
      BY <1>12, <2>2
    <3>2. outcome \in {"replayed", "accepted-latest", "accepted-late"}
      BY <1>6, <1>9, <2>2, <3>1 DEF Manifests!Conflicts
    <3> QED
      BY <1>7, <1>14, <3>1, <3>2
  <2> QED
    BY <2>1, <2>2
<1>19. Manifests!LatestIsHighest'
  <2>1. \A h \in Manifests!Generations : observations[h] # None => latest # None /\ h <= latest
    BY DEF ManifestInv, Manifests!LatestIsHighest
  <2>2. (latest # None => observations[latest] # None) /\ (viewed # None => viewed <= latest)
    BY DEF ManifestInv, Manifests!LatestIsHighest
  <2>3. viewed # None => latest # None
    BY DEF ManifestInv
  <2>6. /\ latest # None => latest \in Nat
        /\ viewed # None => viewed \in Nat
        /\ \A h \in Manifests!Generations : h \in Nat
    BY ManifestTypes
  <2>4. CASE outcome = "accepted-latest"
    <3>1. latest' = g /\ observations'[g] # None /\ (latest = None \/ g > latest)
      BY <1>6, <1>9, <1>14, <2>4
    <3>2. ASSUME NEW h \in Manifests!Generations, observations'[h] # None PROVE h <= g
      BY <1>7, <1>11, <2>1, <2>6, <3>1, <3>2
    <3>3. viewed # None => viewed <= g
      BY <1>7, <2>2, <2>3, <2>6, <3>1
    <3> QED
      BY <1>1, <1>7, <3>1, <3>2, <3>3 DEF Manifests!LatestIsHighest
  <2>5. CASE outcome # "accepted-latest"
    <3>1. latest' = latest /\ (latest # None => observations'[latest] # None)
      BY <1>6, <1>7, <1>11, <2>2, <2>5, ManifestTypes
    <3>2. ASSUME NEW h \in Manifests!Generations, observations'[h] # None
          PROVE  latest # None /\ h <= latest
      <4>1. CASE observations'[h] = observations[h]
        BY <2>1, <3>2, <4>1
      <4>2. CASE observations'[h] # observations[h]
        <5>1. h = g /\ outcome = "accepted-late"
          BY <1>6, <1>9, <1>11, <2>5, <4>2
        <5>2. latest # None /\ ~(g > latest)
          BY <1>9, <5>1
        <5> QED
          BY <1>7, <2>6, <5>1, <5>2
      <4> QED
        BY <4>1, <4>2
    <3> QED
      BY <1>1, <2>2, <3>1, <3>2 DEF Manifests!LatestIsHighest
  <2> QED
    BY <2>4, <2>5
<1>20. ASSUME told' # None
       PROVE  /\ Manifests!verifies(told'.report)
              /\ AnswerStands(told', observations', identified')
  <2>1. CASE told' = [outcome |-> outcome, report |-> report]
    <3>1. Manifests!verifies(told'.report)
      BY <1>1, <1>2, <2>1
    <3>2. AnswerStands([outcome |-> outcome, report |-> report], observations', identified')
      <4>1. CASE outcome \in {"replayed", "accepted-latest", "accepted-late"}
        <5>1. observations'[g].report.content = report.content
          BY <1>7, <1>14, <1>17, <4>1 DEF Manifests!verifies
        <5> QED
          BY <1>3, <1>14, <4>1, <5>1 DEF AnswerStands
      <4>2. CASE outcome = "generation-conflict"
        <5>1. observations'[g] = observations[g] /\ observations[g] # None
              /\ observations[g].report.digest # report.digest
          BY <1>6, <1>9, <4>2
        <5>2. observations'[g].report.content # report.content
          BY <1>7, <1>17, <5>1 DEF Manifests!verifies
        <5> QED
          BY <1>3, <4>2, <5>1, <5>2 DEF AnswerStands, Manifests!Dispositions
      <4>3. CASE outcome = "idempotency-conflict"
        <5>1. identified'[q] \notin {None, <<g, report.digest>>}
          BY <1>6, <1>9, <4>3 DEF Manifests!Conflicts
        <5> QED
          BY <1>3, <4>3, <5>1 DEF AnswerStands, Manifests!Dispositions
      <4> QED
        BY <1>10, <4>1, <4>2, <4>3
    <3> QED
      BY <2>1, <3>1, <3>2
  <2>2. CASE told' = told
    <3>1. PICK answer \in Manifests!Answer : answer = told
      BY <1>20, <2>2, ManifestTypes
    <3>2. Manifests!verifies(answer.report) /\ AnswerStands(answer, observations, identified)
      BY <1>20, <2>2, <3>1 DEF ManifestInv
    <3>3. answer.report.generation \in Manifests!Generations
          /\ answer.report.request \in Manifests!RequestIds
      BY ManifestFields DEF Manifests!Answer
    <3>4. observations[answer.report.generation] # None =>
            observations'[answer.report.generation] = observations[answer.report.generation]
      BY <1>11, <3>3
    <3>5. identified[answer.report.request] # None =>
            identified'[answer.report.request] = identified[answer.report.request]
      BY <1>12, <3>3
    <3>6. AnswerStands(answer, observations', identified')
      BY <3>2, <3>4, <3>5 DEF AnswerStands
    <3> QED
      BY <2>2, <3>1, <3>2, <3>6
  <2> QED
    BY <1>6, <2>1, <2>2
<1>21. viewed' # None => latest' # None
  BY <1>1, <1>6, <1>7 DEF ManifestInv
<1>22. /\ \A h \in Manifests!Generations : IsObserved(h)'
       /\ \A r \in Manifests!RequestIds : IsIdentified(r)'
  BY <1>17, <1>18 DEF IsObserved, IsIdentified, Manifests!verifies
<1> QED
  BY <1>15, <1>16, <1>19, <1>20, <1>21, <1>22
  DEF ManifestInv, Manifests!verifies, AnswerStands

LEMMA ManifestNext ==
    ASSUME ManifestInv, [Manifests!Next]_(Manifests!vars)
    PROVE  ManifestInv'
<1>1. CASE Manifests!Tick \/ Manifests!Revoke \/ Manifests!View \/ UNCHANGED Manifests!vars
  <2>1. /\ UNCHANGED <<observations, latest, identified, told, reporting>>
        /\ now' \in 0..MaxTime /\ credential' \in {"active", "revoked"}
        /\ viewed' \in {viewed, latest}
    BY <1>1, ManifestTypes
    DEF Manifests!Tick, Manifests!Revoke, Manifests!View, Manifests!vars, Manifests!repository
  <2> QED
    BY <2>1, ManifestTypes, ManifestIdles
<1>2. ASSUME NEW p \in Reporters, NEW call \in Manifests!Call \cup {None},
             call # None /\ call.stage = "record" => Manifests!verifies(call.report),
             Manifests!Goes(p, call),
             UNCHANGED <<now, credential, observations, latest, identified, told, viewed>>
      PROVE  ManifestInv'
  <2>1. reporting' = [reporting EXCEPT ![p] = call]
    BY <1>2 DEF Manifests!Goes
  <2>2. /\ reporting' \in [Reporters -> Manifests!Call \cup {None}]
        /\ \A r \in Reporters : reporting'[r] \in {reporting[r], call}
    BY <2>1, ManifestTypes
  <2> QED
    BY <1>2, <2>2, ManifestTypes, ManifestIdles
<1>3. ASSUME NEW p \in Reporters, NEW report \in ManifestReports, Manifests!Receive(p, report)
      PROVE  ManifestInv'
  <2>1. PICK call : call = [stage |-> "authenticate", report |-> report, receivedAt |-> now]
    OBVIOUS
  <2>2. call \in Manifests!Call /\ call.stage # "record"
    BY <2>1, ManifestTypes DEF Manifests!Call
  <2> QED
    BY <1>2, <1>3, <2>1, <2>2 DEF Manifests!Receive, Manifests!repository
<1>4. ASSUME NEW p \in Reporters, Manifests!Authenticate(p) PROVE ManifestInv'
  <2>1. PICK call : call = [reporting[p] EXCEPT !.stage = "integrity"]
    OBVIOUS
  <2>2. call \in Manifests!Call /\ call.stage # "record"
    BY <1>4, <2>1, ManifestTypes DEF Manifests!Authenticate, Manifests!Call
  <2> QED
    BY <1>2, <1>4, <2>1, <2>2 DEF Manifests!Authenticate, Manifests!repository
<1>5. ASSUME NEW p \in Reporters, Manifests!VerifyIntegrity(p) PROVE ManifestInv'
  <2>1. PICK call : call = [reporting[p] EXCEPT !.stage = "record"]
    OBVIOUS
  <2>2. call \in Manifests!Call /\ call.report = reporting[p].report
    BY <1>5, <2>1, ManifestTypes DEF Manifests!VerifyIntegrity, Manifests!Call
  <2> QED
    BY <1>2, <1>5, <2>1, <2>2 DEF Manifests!VerifyIntegrity, Manifests!repository
<1>6. ASSUME NEW p \in Reporters, Manifests!Record(p) PROVE ManifestInv'
  BY <1>6, ManifestRecords
<1>7. ASSUME NEW p \in Reporters, Manifests!Refuse(p) PROVE ManifestInv'
  BY <1>2, <1>7 DEF Manifests!Refuse, Manifests!Ends, Manifests!repository
<1> QED
  BY <1>1, <1>3, <1>4, <1>5, <1>6, <1>7 DEF Manifests!Next

LEMMA ManifestInvImplies == ManifestInv => Manifests!ManifestsStand
<1> SUFFICES ASSUME ManifestInv PROVE Manifests!LatestIsHighest /\ Manifests!AnswersAgree
  BY DEF Manifests!ManifestsStand
<1>1. told # None => told.outcome \in Manifests!Dispositions
        \/ told.outcome = "generation-conflict" \/ told.outcome = "idempotency-conflict"
  BY ManifestTypes DEF Manifests!Answer, Manifests!Conflicts
<1>2. told # None => AnswerStands(told, observations, identified)
  BY DEF ManifestInv
<1>3. "generation-conflict" \notin Manifests!Dispositions
      /\ "idempotency-conflict" \notin Manifests!Dispositions
  BY DEF Manifests!Dispositions
<1>4. Manifests!AnswersAgree
  <2>1. CASE told # None /\ told.outcome \in Manifests!Dispositions
    BY <1>2, <1>3, <2>1 DEF AnswerStands, Manifests!AnswersAgree
  <2>2. CASE told # None /\ told.outcome = "generation-conflict"
    BY <1>2, <1>3, <2>2 DEF AnswerStands, Manifests!AnswersAgree
  <2>3. CASE told # None /\ told.outcome = "idempotency-conflict"
    BY <1>2, <1>3, <2>3 DEF AnswerStands, Manifests!AnswersAgree
  <2>4. CASE told = None
    BY <2>4 DEF Manifests!AnswersAgree
  <2> QED
    BY <1>1, <2>1, <2>2, <2>3, <2>4
<1> QED
  BY <1>4 DEF ManifestInv

----------------------------------------------------------------------------
(***************************************************************************)
(* The lists that are read page by page.                                   *)
(***************************************************************************)

\* What is on the pages is in order, stored and asked for, and lies up to the cursor; what
\* was there at the beginning is on them or still to come.
WalkStands ==
    /\ Queries!InOrder
    /\ walk.before \subseteq rows
    /\ \A row \in walk.before : Queries!Selected(walk.filter, row)
    /\ \A m \in DOMAIN walk.seen :
         /\ walk.seen[m] \in rows
         /\ Queries!Selected(walk.filter, walk.seen[m])
         /\ ~walk.ended =>
              /\ walk.cursor # None
              /\ walk.seen[m] = walk.cursor \/ Queries!Before(walk.seen[m], walk.cursor)
    /\ \A row \in walk.before :
         \/ \E m \in DOMAIN walk.seen : walk.seen[m] = row
         \/ ~walk.ended /\ Queries!After(walk.cursor, row)

PagesInv == Queries!TypeOK /\ (walk # None => WalkStands)

----------------------------------------------------------------------------
LEMMA PagesInit == ASSUME Queries!Init PROVE PagesInv
BY DEF Queries!Init, PagesInv, Queries!TypeOK

LEMMA PagesInvImplies == PagesInv => PagesAreComplete
BY DEF PagesInv, WalkStands, PagesAreComplete, Queries!PagesAreComplete, Queries!Passed,
       Queries!Shown, Queries!InOrder

LEMMA RowsAreNumbers ==
    ASSUME Queries!TypeOK, NEW row \in Queries!Row
    PROVE  row # None /\ row[1] \in Nat /\ row[2] \in Nat
<1>1. list \in Queries!Kinds /\ row \in Queries!RowsOf(list)
  BY DEF Queries!TypeOK, Queries!Row
<1>2. row # None
  BY <1>1, CommandsAssumption DEF Queries!NoneIsNoRecord
<1>3. row[1] \in Nat /\ row[2] \in Nat
  <2>1. CASE list = "catalog"
    BY <1>1, <2>1, CommandsAssumption DEF Queries!RowsOf, Queries!PagesAssumption
  <2>2. CASE list = "audit"
    BY <1>1, <2>2, CommandsAssumption DEF Queries!RowsOf, Queries!PagesAssumption
  <2>3. CASE list \notin {"catalog", "audit"}
    BY <1>1, <2>3, CommandsAssumption DEF Queries!RowsOf, Queries!PagesAssumption
  <2> QED
    BY <2>1, <2>2, <2>3
<1> QED
  BY <1>2, <1>3

LEMMA BeforeIsTransitive ==
    ASSUME Queries!TypeOK, NEW a \in Queries!Row, NEW b \in Queries!Row, NEW c \in Queries!Row,
           Queries!Before(a, b), Queries!Before(b, c)
    PROVE  Queries!Before(a, c)
<1>1. /\ a[1] \in Nat /\ a[2] \in Nat
      /\ b[1] \in Nat /\ b[2] \in Nat
      /\ c[1] \in Nat /\ c[2] \in Nat
  BY RowsAreNumbers
<1> QED
  BY <1>1 DEF Queries!Before, Queries!Ascending, Queries!Descending

\* What is written does not touch what was read.
LEMMA WritingIdles ==
    ASSUME PagesInv, UNCHANGED <<list, walk>>, rows \subseteq rows',
           rows' \subseteq Queries!Row, open' \subseteq Queries!Row, ahead' \subseteq rows'
    PROVE  PagesInv'
<1>1. Queries!TypeOK'
  BY DEF PagesInv, Queries!TypeOK, Queries!Row, Queries!Walk, Queries!Filters
<1>2. walk # None => WalkStands'
  BY DEF PagesInv, WalkStands, Queries!InOrder, Queries!Selected, Queries!After,
         Queries!Before, Queries!Ascending, Queries!Descending
<1> QED
  BY <1>1, <1>2 DEF PagesInv

LEMMA WritingKeeps ==
    ASSUME PagesInv, NEW row \in Queries!Row,
           \/ Queries!Store(row) \/ Queries!ReceiveAgain(row) \/ Queries!InsertAuditEvent(row)
           \/ Queries!CommitAuditEvent(row) \/ Queries!RollBackAuditEvent(row)
    PROVE  PagesInv'
<1>1. /\ rows \subseteq Queries!Row
      /\ open \subseteq Queries!Row
      /\ ahead \subseteq rows
  BY DEF PagesInv, Queries!TypeOK
<1>2. UNCHANGED <<list, walk>> /\ rows \subseteq rows'
  BY DEF Queries!Store, Queries!ReceiveAgain, Queries!InsertAuditEvent,
         Queries!CommitAuditEvent, Queries!RollBackAuditEvent
<1>3. rows' \subseteq Queries!Row /\ open' \subseteq Queries!Row /\ ahead' \subseteq rows'
  BY <1>1 DEF Queries!Store, Queries!ReceiveAgain, Queries!InsertAuditEvent,
         Queries!CommitAuditEvent, Queries!RollBackAuditEvent
<1> QED
  BY <1>2, <1>3, WritingIdles

LEMMA CatchUpKeeps == ASSUME PagesInv, Queries!CatchUp PROVE PagesInv'
BY WritingIdles DEF PagesInv, Queries!TypeOK, Queries!CatchUp

LEMMA BeginKeeps ==
    ASSUME PagesInv, NEW filter \in Queries!Filters, Queries!Begin(filter)
    PROVE  PagesInv'
<1>1. walk' \in Queries!Walk
  BY DEF Queries!Begin, Queries!Walk, PagesInv, Queries!TypeOK
<1>2. Queries!TypeOK'
  BY <1>1 DEF Queries!Begin, PagesInv, Queries!TypeOK, Queries!Row, Queries!Walk,
       Queries!Filters
<1>3. WalkStands'
  BY DEF Queries!Begin, WalkStands, Queries!InOrder, Queries!Selected, Queries!After
<1> QED
  BY <1>2, <1>3 DEF PagesInv

----------------------------------------------------------------------------
(* A page is added: what is shown of the rows that were found follows on   *)
(* the pages before.                                                       *)

\* What is asked for and comes after the cursor.
ToCome == {row \in rows : Queries!Selected(walk.filter, row) /\ Queries!After(walk.cursor, row)}

\* The caller adds the first rows that were found, and goes on behind the last of them; or
\* adds all, which is all there is.
PageIsAdded(found, n, k) ==
    /\ walk' \in Queries!Walk
    /\ walk'.filter = walk.filter /\ walk'.before = walk.before
    /\ k \in 0..Len(found)
    /\ Len(walk'.seen) = Len(walk.seen) + k
    /\ \A m \in 1..Len(walk.seen) : walk'.seen[m] = walk.seen[m]
    /\ \A m \in 1..k : walk'.seen[Len(walk.seen) + m] = found[m]
    /\ walk'.ended => k = Len(found) /\ Len(found) < n
    /\ ~walk'.ended => k > 0 /\ walk'.cursor = found[k]
    /\ UNCHANGED <<list, rows, open, ahead>>

LEMMA FoundRows ==
    ASSUME NEW set, NEW n \in Nat, NEW found \in Queries!FirstOf(set, n)
    PROVE  /\ found \in Seq(set) /\ Len(found) \in 0..n
           /\ \A m, k \in 1..Len(found) : m < k => Queries!Before(found[m], found[k])
           /\ \A row \in set :
                \/ \E m \in 1..Len(found) : found[m] = row
                \/ Len(found) = n /\ \A m \in 1..Len(found) : Queries!Before(found[m], row)
<1>1. PICK m \in 0..n : found \in [1..m -> set]
  BY DEF Queries!FirstOf
<1>2. found \in Seq(set) /\ Len(found) = m /\ DOMAIN found = 1..m
  BY <1>1
<1> QED
  BY <1>1, <1>2 DEF Queries!FirstOf, Queries!Shown

LEMMA PageKeeps ==
    ASSUME PagesInv, walk # None, ~walk.ended, NEW n \in Nat,
           NEW found \in Queries!FirstOf(ToCome, n), NEW k, PageIsAdded(found, n, k)
    PROVE  PagesInv'
<1> DEFINE old == Len(walk.seen)
<1>1. WalkStands /\ walk \in Queries!Walk /\ Queries!TypeOK
  BY DEF PagesInv, Queries!TypeOK
<1>2. /\ walk.seen \in Seq(Queries!Row) /\ old \in Nat /\ DOMAIN walk.seen = 1..old
      /\ walk'.seen \in Seq(Queries!Row)
      /\ k \in Nat /\ DOMAIN walk'.seen = 1..(old + k)
      /\ rows \subseteq Queries!Row /\ walk'.ended \in BOOLEAN
      /\ walk.cursor \in Queries!Row \cup {None}
  <2>1. walk'.seen \in Seq(Queries!Row) /\ walk'.ended \in BOOLEAN
    BY DEF PageIsAdded, Queries!Walk, Queries!Row
  <2>2. /\ walk.seen \in Seq(Queries!Row) /\ walk.cursor \in Queries!Row \cup {None}
        /\ rows \subseteq Queries!Row
    BY <1>1 DEF Queries!Walk, Queries!TypeOK
  <2>3. Len(found) \in Nat
    BY FoundRows
  <2> QED
    BY <2>1, <2>2, <2>3 DEF PageIsAdded
<1>3. /\ found \in Seq(ToCome) /\ Len(found) \in 0..n
      /\ \A i, j \in 1..Len(found) : i < j => Queries!Before(found[i], found[j])
      /\ \A row \in ToCome :
           \/ \E i \in 1..Len(found) : found[i] = row
           \/ Len(found) = n /\ \A i \in 1..Len(found) : Queries!Before(found[i], row)
  BY FoundRows
<1>4. \A i \in 1..k : /\ i \in 1..Len(found) /\ found[i] \in ToCome
                      /\ found[i] \in Queries!Row
                      /\ walk'.seen[old + i] = found[i]
  BY <1>2, <1>3 DEF PageIsAdded, ToCome
<1>5. \A i \in 1..old : walk'.seen[i] = walk.seen[i] /\ walk.seen[i] \in Queries!Row
  BY <1>2 DEF PageIsAdded
<1>6. \A i \in 1..(old + k) : i \in 1..old \/ \E j \in 1..k : i = old + j
  <2> SUFFICES ASSUME NEW i \in 1..(old + k), i \notin 1..old
               PROVE  i - old \in 1..k /\ i = old + (i - old)
    OBVIOUS
  <2> QED
    BY <1>2
<1>7. \A i \in 1..old, j \in 1..k : Queries!Before(walk.seen[i], found[j])
  <2> SUFFICES ASSUME NEW i \in 1..old, NEW j \in 1..k
               PROVE  Queries!Before(walk.seen[i], found[j])
    OBVIOUS
  <2>1. /\ walk.cursor # None
        /\ walk.seen[i] = walk.cursor \/ Queries!Before(walk.seen[i], walk.cursor)
    BY <1>1, <1>2 DEF WalkStands
  <2>2. Queries!Before(walk.cursor, found[j])
    BY <1>4, <2>1 DEF ToCome, Queries!After
  <2> QED
    BY <1>1, <1>2, <1>4, <1>5, <2>1, <2>2, BeforeIsTransitive
<1>8. Queries!InOrder'
  <2> SUFFICES ASSUME NEW i \in 1..(old + k), NEW j \in 1..(old + k), i < j
               PROVE  Queries!Before(walk'.seen[i], walk'.seen[j])
    BY <1>2 DEF Queries!InOrder, PageIsAdded, Queries!Before, Queries!Ascending,
                Queries!Descending
  <2>1. CASE j \in 1..old
    <3>1. i \in 1..old
      BY <2>1, <1>2
    <3> QED
      BY <2>1, <3>1, <1>1, <1>2, <1>5 DEF WalkStands, Queries!InOrder
  <2>2. CASE i \in 1..old /\ j \notin 1..old
    BY <2>2, <1>4, <1>5, <1>6, <1>7
  <2>3. CASE i \notin 1..old /\ j \notin 1..old
    <3>1. PICK a \in 1..k : i = old + a
      BY <2>3, <1>6
    <3>2. PICK b \in 1..k : j = old + b
      BY <2>3, <1>6
    <3>3. a < b
      BY <3>1, <3>2, <1>2
    <3> QED
      BY <1>3, <1>4, <3>1, <3>2, <3>3
  <2>4. i \in 1..old \/ j \notin 1..old
    BY <1>2
  <2> QED
    BY <2>1, <2>2, <2>3, <2>4
<1>9. \A i \in 1..(old + k) : /\ walk'.seen[i] \in rows
                              /\ Queries!Selected(walk.filter, walk'.seen[i])
  <2> SUFFICES ASSUME NEW i \in 1..(old + k)
               PROVE  /\ walk'.seen[i] \in rows
                      /\ Queries!Selected(walk.filter, walk'.seen[i])
    OBVIOUS
  <2>1. CASE i \in 1..old
    BY <2>1, <1>1, <1>2, <1>5 DEF WalkStands
  <2>2. CASE i \notin 1..old
    BY <2>2, <1>4, <1>6 DEF ToCome
  <2> QED
    BY <2>1, <2>2
<1>10. ASSUME ~walk'.ended
       PROVE  \A i \in 1..(old + k) :
                /\ walk'.cursor # None
                /\ \/ walk'.seen[i] = walk'.cursor
                   \/ Queries!Before(walk'.seen[i], walk'.cursor)
  <2>1. k \in 1..k /\ walk'.cursor = found[k]
    BY <1>2, <1>10 DEF PageIsAdded
  <2>2. walk'.cursor # None
    BY <2>1, <1>1, <1>4, RowsAreNumbers
  <2>3. ASSUME NEW i \in 1..(old + k)
        PROVE  walk'.seen[i] = walk'.cursor \/ Queries!Before(walk'.seen[i], walk'.cursor)
    <3>1. CASE i \in 1..old
      BY <3>1, <2>1, <1>5, <1>7
    <3>2. CASE i \notin 1..old
      <4>1. PICK j \in 1..k : i = old + j
        BY <3>2, <1>6
      <4>2. j = k \/ j < k
        BY <1>2
      <4> QED
        BY <1>3, <1>4, <2>1, <4>1, <4>2
    <3> QED
      BY <3>1, <3>2
  <2> QED
    BY <2>2, <2>3
<1>11. ASSUME NEW row \in walk.before
       PROVE  \/ \E i \in 1..(old + k) : walk'.seen[i] = row
              \/ ~walk'.ended /\ Queries!After(walk'.cursor, row)
  <2>1. CASE \E i \in 1..old : walk.seen[i] = row
    <3>1. PICK i \in 1..old : walk.seen[i] = row
      BY <2>1
    <3>2. i \in 1..(old + k)
      BY <1>2
    <3> QED
      BY <3>1, <3>2, <1>5
  <2>2. CASE ~\E i \in 1..old : walk.seen[i] = row
    <3>1. row \in ToCome
      BY <2>2, <1>1, <1>2, <1>11 DEF WalkStands, ToCome
    <3>2. CASE \E i \in 1..k : found[i] = row
      <4>1. PICK i \in 1..k : found[i] = row
        BY <3>2
      <4>2. old + i \in 1..(old + k)
        BY <1>2
      <4> QED
        BY <1>4, <4>1, <4>2
    <3>3. CASE ~\E i \in 1..k : found[i] = row
      <4>1. ~walk'.ended
        BY <1>2, <1>3, <3>1, <3>3 DEF PageIsAdded
      <4>2. k \in 1..k /\ k \in 1..Len(found) /\ walk'.cursor = found[k]
        BY <1>2, <1>4, <4>1 DEF PageIsAdded
      <4>3. CASE \E i \in 1..Len(found) : found[i] = row
        <5>1. PICK i \in 1..Len(found) : found[i] = row
          BY <4>3
        <5>2. k < i
          BY <3>3, <5>1, <1>2
        <5> QED
          BY <1>3, <4>1, <4>2, <5>1, <5>2 DEF Queries!After
      <4>4. CASE ~\E i \in 1..Len(found) : found[i] = row
        BY <1>3, <3>1, <4>1, <4>2, <4>4 DEF Queries!After
      <4> QED
        BY <4>3, <4>4
    <3> QED
      BY <3>2, <3>3
  <2> QED
    BY <2>1, <2>2
<1>12. WalkStands'
  <2>1. list' = list /\ rows' = rows /\ walk'.filter = walk.filter /\ walk'.before = walk.before
    BY DEF PageIsAdded
  <2>2. Queries!InOrder' /\ walk'.before \subseteq rows'
    BY <1>1, <1>8, <2>1 DEF WalkStands
  <2>3. (\A row \in walk.before : Queries!Selected(walk.filter, row))'
    BY <1>1, <2>1 DEF WalkStands, Queries!Selected
  <2>4. ASSUME NEW i \in 1..(old + k)
        PROVE  (/\ walk.seen[i] \in rows
                /\ Queries!Selected(walk.filter, walk.seen[i])
                /\ ~walk.ended =>
                     /\ walk.cursor # None
                     /\ \/ walk.seen[i] = walk.cursor
                        \/ Queries!Before(walk.seen[i], walk.cursor))'
    BY <1>9, <1>10, <2>1
    DEF Queries!Selected, Queries!Before, Queries!Ascending, Queries!Descending
  <2>5. ASSUME NEW row \in walk'.before
        PROVE  (\/ \E m \in DOMAIN walk.seen : walk.seen[m] = row
                \/ ~walk.ended /\ Queries!After(walk.cursor, row))'
    BY <1>2, <1>11, <2>1
    DEF Queries!After, Queries!Before, Queries!Ascending, Queries!Descending
  <2> QED
    BY <1>2, <2>2, <2>3, <2>4, <2>5 DEF WalkStands
<1>13. Queries!TypeOK'
  BY <1>1 DEF PageIsAdded, Queries!TypeOK, Queries!Row, Queries!Walk, Queries!Filters
<1> QED
  BY <1>12, <1>13 DEF PagesInv

\* What a list answers is the first of what is asked for and comes after the cursor.
LEMMA TurnKeeps ==
    ASSUME PagesInv, walk # None, ~walk.ended, NEW limit \in Limits,
           NEW found \in Queries!FirstOf(ToCome, limit + 1), Queries!Turn(found, limit),
           UNCHANGED <<list, rows, open, ahead>>
    PROVE  PagesInv'
<1>1. limit \in Nat /\ limit > 0
  BY CommandsAssumption DEF Queries!PagesAssumption
<1>2. found \in Seq(Queries!Row) /\ Len(found) \in 0..(limit + 1)
  <2>1. found \in Seq(ToCome) /\ Len(found) \in 0..(limit + 1)
    BY <1>1, FoundRows
  <2>2. ToCome \subseteq Queries!Row
    BY DEF ToCome, PagesInv, Queries!TypeOK
  <2> QED
    BY <2>1, <2>2
<1>3. /\ walk \in Queries!Walk /\ walk.seen \in Seq(Queries!Row)
      /\ walk.cursor \in Queries!Row \cup {None}
  BY DEF PagesInv, Queries!TypeOK, Queries!Walk
<1>4. CASE Len(found) > limit
  <2> DEFINE firsts == SubSeq(found, 1, limit)
  <2>1. firsts \in Seq(Queries!Row) /\ Len(firsts) = limit
    BY <1>1, <1>2, <1>4
  <2>2. \A m \in 1..limit : firsts[m] = found[m] /\ found[m] \in Queries!Row
    BY <1>1, <1>2, <1>4
  <2>3. walk' = [walk EXCEPT !.seen = @ \o firsts, !.cursor = found[limit]]
    BY <1>4 DEF Queries!Turn, Queries!lastShown
  <2> HIDE DEF firsts
  <2>4. PageIsAdded(found, limit + 1, limit)
    <3>1. walk.seen \o firsts \in Seq(Queries!Row) /\ found[limit] \in Queries!Row
      BY <1>1, <1>3, <2>1, <2>2
    <3>2. walk' \in Queries!Walk
      BY <1>3, <2>3, <3>1 DEF Queries!Walk
    <3>3. /\ walk'.filter = walk.filter /\ walk'.before = walk.before
          /\ walk'.seen = walk.seen \o firsts /\ walk'.cursor = found[limit]
          /\ walk'.ended = walk.ended
      BY <1>3, <2>3 DEF Queries!Walk
    <3>4. /\ Len(walk'.seen) = Len(walk.seen) + limit
          /\ \A m \in 1..Len(walk.seen) : walk'.seen[m] = walk.seen[m]
          /\ \A m \in 1..limit : walk'.seen[Len(walk.seen) + m] = firsts[m]
      <4>1. \A m \in 1..Len(walk.seen) : (walk.seen \o firsts)[m] = walk.seen[m]
        BY <1>3, <2>1
      <4>2. \A m \in 1..limit : (walk.seen \o firsts)[Len(walk.seen) + m] = firsts[m]
        BY <1>1, <1>3, <2>1
      <4>3. Len(walk.seen \o firsts) = Len(walk.seen) + limit
        BY <1>1, <1>3, <2>1
      <4> QED
        BY <3>3, <4>1, <4>2, <4>3
    <3>5. limit \in 0..Len(found) /\ ~walk'.ended
      BY <1>1, <1>2, <1>4, <3>3
    <3> QED
      BY <1>1, <2>2, <3>2, <3>3, <3>4, <3>5 DEF PageIsAdded
  <2> QED
    BY <1>1, <2>4, PageKeeps
<1>5. CASE ~(Len(found) > limit)
  <2>1. walk' = [walk EXCEPT !.seen = @ \o found, !.ended = TRUE]
    BY <1>5 DEF Queries!Turn
  <2>2. walk.seen \o found \in Seq(Queries!Row)
    BY <1>2, <1>3
  <2>3. walk' \in Queries!Walk
    BY <1>3, <2>1, <2>2 DEF Queries!Walk
  <2>4. /\ walk'.filter = walk.filter /\ walk'.before = walk.before
        /\ walk'.seen = walk.seen \o found /\ walk'.ended
    BY <1>3, <2>1 DEF Queries!Walk
  <2>5. PageIsAdded(found, limit + 1, Len(found))
    BY <1>1, <1>2, <1>3, <1>5, <2>3, <2>4 DEF PageIsAdded
  <2> QED
    BY <1>1, <2>5, PageKeeps
<1> QED
  BY <1>4, <1>5

LEMMA CatalogKeeps ==
    ASSUME PagesInv, NEW filter, NEW limit \in Limits,
           Queries!ListIntegrationProjections(filter, limit)
    PROVE  PagesInv'
<1>1. /\ walk # None /\ ~walk.ended /\ list = "catalog" /\ filter = walk.filter
      /\ UNCHANGED <<list, rows, open, ahead>>
  BY DEF Queries!ListIntegrationProjections, Queries!Reading, Queries!isOfFilter
<1>2. PICK found \in Queries!listCatalogSql(filter, walk.cursor, limit + 1) :
         Queries!Turn(found, limit)
  BY DEF Queries!ListIntegrationProjections
<1>3. found \in Queries!FirstOf(ToCome, limit + 1)
  BY <1>1, <1>2 DEF Queries!listCatalogSql, ToCome
<1> QED
  BY <1>1, <1>2, <1>3, TurnKeeps

\* The fleet has no filter.
LEMMA FleetKeeps ==
    ASSUME PagesInv, NEW limit \in Limits, Queries!ListFleetGateways(limit)
    PROVE  PagesInv'
<1>1. /\ walk # None /\ ~walk.ended /\ list = "fleet"
      /\ UNCHANGED <<list, rows, open, ahead>>
  BY DEF Queries!ListFleetGateways, Queries!Reading
<1>2. walk.filter = None
  BY <1>1 DEF PagesInv, Queries!TypeOK, Queries!Walk, Queries!Filters
<1>3. PICK found \in Queries!listFleetGatewaysSql(walk.cursor, limit + 1) :
         Queries!Turn(found, limit)
  BY DEF Queries!ListFleetGateways
<1>4. ToCome = {row \in rows : Queries!After(walk.cursor, row)}
  BY <1>2 DEF ToCome, Queries!Selected
<1>5. found \in Queries!FirstOf(ToCome, limit + 1)
  BY <1>3, <1>4 DEF Queries!listFleetGatewaysSql
<1> QED
  BY <1>1, <1>3, <1>5, TurnKeeps

LEMMA AuditKeeps ==
    ASSUME PagesInv, NEW limit \in Limits, Queries!SearchAuditEvents(limit)
    PROVE  PagesInv'
<1>1. /\ walk # None /\ ~walk.ended /\ UNCHANGED <<list, rows, open, ahead>>
  BY DEF Queries!SearchAuditEvents, Queries!Reading
<1>2. PICK found \in Queries!searchSql(walk.filter, walk.cursor, limit + 1) :
         Queries!Turn(found, limit)
  BY DEF Queries!SearchAuditEvents
<1>3. found \in Queries!FirstOf(ToCome, limit + 1)
  BY <1>2 DEF Queries!searchSql, ToCome
<1> QED
  BY <1>1, <1>2, <1>3, TurnKeeps

\* Records of telemetry differ by their number, so that what comes after the cursor is what
\* has a higher one.
LEMMA HistoryKeeps ==
    ASSUME PagesInv, NEW limit \in Limits, Queries!GetTelemetryHistory(limit)
    PROVE  PagesInv'
<1> DEFINE from == IF walk.cursor = None THEN 0 ELSE walk.cursor[1] + 1
<1>1. limit \in Nat /\ limit > 0
  BY CommandsAssumption DEF Queries!PagesAssumption
<1>2. /\ walk # None /\ ~walk.ended /\ list = "history"
      /\ UNCHANGED <<list, rows, open, ahead>>
  BY DEF Queries!GetTelemetryHistory, Queries!Reading
<1>3. PICK found \in Queries!selectHistorySql(from, limit) :
         walk' = [walk EXCEPT !.seen = @ \o found,
                              !.cursor = IF found = <<>> THEN @ ELSE found[Len(found)],
                              !.ended = Len(found) < limit]
  BY DEF Queries!GetTelemetryHistory
<1>4. /\ walk \in Queries!Walk /\ walk.seen \in Seq(Queries!Row)
      /\ walk.cursor \in Queries!Row \cup {None} /\ rows \subseteq Queries!Row
      /\ walk.filter = None /\ Queries!TypeOK
  BY <1>2 DEF PagesInv, Queries!TypeOK, Queries!Walk, Queries!Filters
<1>5. \A row \in Queries!Row : row[1] \in Nat /\ row[2] = 0
  BY <1>2, <1>4, RowsAreNumbers DEF Queries!Row, Queries!RowsOf
<1>6. ToCome = {row \in rows : row[1] >= from}
  <2>1. ASSUME NEW row \in rows
        PROVE  Queries!After(walk.cursor, row) <=> row[1] >= from
    BY <1>2, <1>4, <1>5 DEF Queries!After, Queries!Before, Queries!Ascending
  <2> QED
    BY <2>1, <1>4 DEF ToCome, Queries!Selected
<1>7. found \in Queries!FirstOf(ToCome, limit)
  BY <1>3, <1>6 DEF Queries!selectHistorySql
<1>8. found \in Seq(Queries!Row) /\ Len(found) \in 0..limit
  <2>1. found \in Seq(ToCome) /\ Len(found) \in 0..limit
    BY <1>1, <1>7, FoundRows
  <2>2. ToCome \subseteq Queries!Row
    BY <1>4 DEF ToCome
  <2> QED
    BY <2>1, <2>2
<1> DEFINE cursor == IF found = <<>> THEN walk.cursor ELSE found[Len(found)]
           ended == Len(found) < limit
<1>9. /\ cursor \in Queries!Row \cup {None} /\ ended \in BOOLEAN
      /\ ~ended => Len(found) > 0 /\ cursor = found[Len(found)]
  BY <1>1, <1>4, <1>8
<1>10. walk' = [walk EXCEPT !.seen = @ \o found, !.cursor = cursor, !.ended = ended]
  BY <1>3
<1>11. ended => Len(found) < limit
  OBVIOUS
<1> HIDE DEF cursor, ended
<1>12. walk.seen \o found \in Seq(Queries!Row)
  BY <1>4, <1>8
<1>13. walk' \in Queries!Walk
  BY <1>4, <1>9, <1>10, <1>12 DEF Queries!Walk
<1>14. /\ walk'.filter = walk.filter /\ walk'.before = walk.before
       /\ walk'.seen = walk.seen \o found /\ walk'.cursor = cursor
       /\ walk'.ended = ended
  BY <1>4, <1>10 DEF Queries!Walk
<1>15. PageIsAdded(found, limit, Len(found))
  BY <1>1, <1>2, <1>4, <1>8, <1>9, <1>11, <1>13, <1>14 DEF PageIsAdded
<1> QED
  BY <1>1, <1>2, <1>7, <1>15, PageKeeps

LEMMA PagesNext == ASSUME PagesInv, [Queries!Next]_(Queries!vars) PROVE PagesInv'
<1>1. CASE UNCHANGED Queries!vars
  BY <1>1 DEF Queries!vars, PagesInv, WalkStands, Queries!TypeOK, Queries!Row,
       Queries!Walk, Queries!Filters, Queries!InOrder, Queries!Selected, Queries!After,
       Queries!Before, Queries!Ascending, Queries!Descending
<1>2. CASE Queries!Next
  BY <1>2, WritingKeeps, CatchUpKeeps, BeginKeeps, CatalogKeeps, FleetKeeps, AuditKeeps,
     HistoryKeeps
  DEF Queries!Next
<1> QED
  BY <1>1, <1>2

----------------------------------------------------------------------------
(***************************************************************************)
(* The parts together.  They share the clock, and a step of one part that  *)
(* moves it is a tick to all the others.                                   *)
(***************************************************************************)

ClockTicks == UNCHANGED now \/ (now < MaxTime /\ now' = now + 1)

LEMMA JobsTick == Next => ClockTicks
BY DEF Next, Tick, Step, CreateRead, ControlRead, ReceiptRead, Begin, Insert, Replace, Fail,
       ClockTicks

LEMMA EnrollmentTicks == Enrollment!Next => ClockTicks
BY DEF Enrollment!Next, Enrollment!Tick, Enrollment!Restart, Enrollment!Step, Enrollment!Begin,
       Enrollment!FindRow, Enrollment!WriteRow, Enrollment!FindAgain, Enrollment!Fail, ClockTicks

LEMMA WebhooksTick == Webhooks!Next => ClockTicks
BY DEF Webhooks!Next, Webhooks!Tick, Webhooks!Step, Webhooks!Enqueue, Webhooks!ProcessRead,
       Webhooks!RedriveRead, Webhooks!Begin, Webhooks!Write, Webhooks!WriteAgain, Webhooks!Send,
       Webhooks!Fail, ClockTicks

LEMMA ExportsTick == Exports!Next => ClockTicks
BY DEF Exports!Next, Exports!Tick, Exports!RequestDataExport, Exports!ReadOutcome,
       Exports!WriteOutcome, Exports!ReplayOutcome, Exports!Fail, ClockTicks

LEMMA SubscriptionsTick == Subscriptions!Next => ClockTicks
BY DEF Subscriptions!Next, Subscriptions!Tick, Subscriptions!Create, Subscriptions!DisableRead,
       Subscriptions!DisableWrite, Subscriptions!Return, ClockTicks

LEMMA ManifestsTick == Manifests!Next => ClockTicks
BY DEF Manifests!Next, Manifests!Tick, Manifests!Revoke, Manifests!View, Manifests!Receive,
       Manifests!Authenticate, Manifests!VerifyIntegrity, Manifests!Record, Manifests!Refuse,
       ClockTicks

LEMMA ClockAdvances == [ApiNext]_apiVars => ClockTicks
<1>1. UNCHANGED apiVars => ClockTicks
  BY DEF apiVars, ClockTicks
<1>2. ApiNext => ClockTicks
  BY JobsTick, EnrollmentTicks, WebhooksTick, ExportsTick, SubscriptionsTick, ManifestsTick
  DEF ApiNext, InJobs, InEnrollment, InDeployments, InAlarms, InWebhooks, InExports,
      InSubscriptions, InRegistry, InQueries, InManifests, ClockTicks
<1> QED
  BY <1>1, <1>2

\* What is left alone while the clock may move takes a step of its own: a tick, or none.
LEMMA PartsIdle ==
    ASSUME ClockTicks
    PROVE  /\ UNCHANGED enrollmentVars => [Enrollment!Next]_(Enrollment!vars)
           /\ UNCHANGED deploymentVars => [Deployments!Next]_(Deployments!vars)
           /\ UNCHANGED alarmVars => [Alarms!Next]_(Alarms!vars)
           /\ UNCHANGED deliveryVars => [Webhooks!Next]_(Webhooks!vars)
           /\ UNCHANGED exportVars => [Exports!Next]_(Exports!vars)
           /\ UNCHANGED subscriptionVars => [Subscriptions!Next]_(Subscriptions!vars)
           /\ UNCHANGED artifactVars => [Registry!Next]_(Registry!vars)
           /\ UNCHANGED manifestVars => [Manifests!Next]_(Manifests!vars)
           /\ UNCHANGED queryVars => [Queries!Next]_(Queries!vars)
<1>1. UNCHANGED enrollmentVars => [Enrollment!Next]_(Enrollment!vars)
  BY DEF ClockTicks, enrollmentVars, Enrollment!Next, Enrollment!Tick, Enrollment!vars
<1>2. UNCHANGED deploymentVars => [Deployments!Next]_(Deployments!vars)
  BY DEF deploymentVars, Deployments!vars
<1>3. UNCHANGED alarmVars => [Alarms!Next]_(Alarms!vars)
  BY DEF alarmVars, Alarms!vars
<1>4. UNCHANGED deliveryVars => [Webhooks!Next]_(Webhooks!vars)
  BY DEF ClockTicks, deliveryVars, Webhooks!Next, Webhooks!Tick, Webhooks!vars
<1>5. UNCHANGED exportVars => [Exports!Next]_(Exports!vars)
  BY DEF ClockTicks, exportVars, Exports!Next, Exports!Tick, Exports!vars
<1>6. UNCHANGED subscriptionVars => [Subscriptions!Next]_(Subscriptions!vars)
  BY DEF ClockTicks, subscriptionVars, Subscriptions!Next, Subscriptions!Tick,
         Subscriptions!vars
<1>7. UNCHANGED artifactVars => [Registry!Next]_(Registry!vars)
  BY DEF artifactVars, Registry!vars
<1>8. UNCHANGED manifestVars => [Manifests!Next]_(Manifests!vars)
  BY DEF ClockTicks, manifestVars, Manifests!Next, Manifests!Tick, Manifests!vars,
         Manifests!repository
<1>9. UNCHANGED queryVars => [Queries!Next]_(Queries!vars)
  BY DEF queryVars, Queries!vars
<1> QED
  BY <1>1, <1>2, <1>3, <1>4, <1>5, <1>6, <1>7, <1>8, <1>9

\* A step of the API is a step of every part of it.
LEMMA PartsStep ==
    ASSUME [ApiNext]_apiVars
    PROVE  /\ [Enrollment!Next]_(Enrollment!vars)
           /\ [Deployments!Next]_(Deployments!vars)
           /\ [Alarms!Next]_(Alarms!vars)
           /\ [Webhooks!Next]_(Webhooks!vars)
           /\ [Exports!Next]_(Exports!vars)
           /\ [Subscriptions!Next]_(Subscriptions!vars)
           /\ [Registry!Next]_(Registry!vars)
           /\ [Manifests!Next]_(Manifests!vars)
           /\ [Queries!Next]_(Queries!vars)
<1>1. ClockTicks
  BY ClockAdvances
<1>2. UNCHANGED enrollmentVars \/ InEnrollment
  BY DEF ApiNext, InJobs, InDeployments, InAlarms, InWebhooks, InExports, InSubscriptions,
         InRegistry, InQueries, InManifests, apiVars
<1>3. UNCHANGED deploymentVars \/ InDeployments
  BY DEF ApiNext, InJobs, InEnrollment, InAlarms, InWebhooks, InExports, InSubscriptions,
         InRegistry, InQueries, InManifests, apiVars
<1>4. UNCHANGED alarmVars \/ InAlarms
  BY DEF ApiNext, InJobs, InEnrollment, InDeployments, InWebhooks, InExports, InSubscriptions,
         InRegistry, InQueries, InManifests, apiVars
<1>5. UNCHANGED deliveryVars \/ InWebhooks
  BY DEF ApiNext, InJobs, InEnrollment, InDeployments, InAlarms, InExports, InSubscriptions,
         InRegistry, InQueries, InManifests, apiVars
<1>6. UNCHANGED exportVars \/ InExports
  BY DEF ApiNext, InJobs, InEnrollment, InDeployments, InAlarms, InWebhooks, InSubscriptions,
         InRegistry, InQueries, InManifests, apiVars
<1>7. UNCHANGED subscriptionVars \/ InSubscriptions
  BY DEF ApiNext, InJobs, InEnrollment, InDeployments, InAlarms, InWebhooks, InExports,
         InRegistry, InQueries, InManifests, apiVars
<1>8. UNCHANGED artifactVars \/ InRegistry
  BY DEF ApiNext, InJobs, InEnrollment, InDeployments, InAlarms, InWebhooks, InExports,
         InSubscriptions, InQueries, InManifests, apiVars
<1>9. UNCHANGED manifestVars \/ InManifests
  BY DEF ApiNext, InJobs, InEnrollment, InDeployments, InAlarms, InWebhooks, InExports,
         InSubscriptions, InRegistry, InQueries, apiVars
<1>10. UNCHANGED queryVars \/ InQueries
  BY DEF ApiNext, InJobs, InEnrollment, InDeployments, InAlarms, InWebhooks, InExports,
         InSubscriptions, InRegistry, InManifests, apiVars
<1> QED
  BY <1>1, <1>2, <1>3, <1>4, <1>5, <1>6, <1>7, <1>8, <1>9, <1>10, PartsIdle
  DEF InEnrollment, InDeployments, InAlarms, InWebhooks, InExports, InSubscriptions,
      InRegistry, InManifests, InQueries

\* The property of each part follows from its invariant.
LEMMA DeploymentInvImplies == DeploymentInv => EdgeFactsStand
BY DEF DeploymentInv, DeploymentIsTrue, EdgeFactsStand, Deployments!EdgeFactsStand

LEMMA RecordInvsImply ==
    ExportInv /\ SubscriptionInv /\ RegistryInv /\ ManifestInv => RecordsStand
BY ExportInvImplies, SubscriptionInvImplies, ManifestInvImplies DEF RegistryInv, RecordsStand

\* A Gateway is enrolled once: whatever was answered about its registration, its claim
\* and its token is what the row says, and stays so, across restarts and in whichever
\* order commands overtake one another.
THEOREM EnrolledOnce == ApiSpec => []OneEnrollment
<1>1. ApiInit => EnrollmentInv
  BY EnrollmentInit DEF ApiInit
<1>2. EnrollmentInv /\ [ApiNext]_apiVars => EnrollmentInv'
  BY EnrollmentNext, PartsStep
<1>3. EnrollmentInv => OneEnrollment
  BY DEF EnrollmentInv, OneEnrollment
<1> QED
  BY <1>1, <1>2, <1>3, PTL DEF ApiSpec

\* A deployment shows what its Gateway last reported of the intent that holds, whichever
\* commands and reports cross, and whatever is decided on an older copy of it.
THEOREM EdgeFactsAlwaysStand == ApiSpec => []EdgeFactsStand
<1>1. ApiInit => DeploymentInv
  BY DeploymentInit DEF ApiInit
<1>2. DeploymentInv /\ [ApiNext]_apiVars => DeploymentInv'
  BY DeploymentNext, PartsStep
<1>3. DeploymentInv => EdgeFactsStand
  BY DeploymentInvImplies
<1> QED
  BY <1>1, <1>2, <1>3, PTL DEF ApiSpec

\* The alarm that is shown is the last of the stored facts of its occurrence, its gap is
\* real, and it is acknowledged by who said so, in whatever order facts and orders come.
THEOREM AlarmsFollowFacts == ApiSpec => []AlarmFollowsFacts
<1>1. ApiInit => AlarmInv
  BY AlarmInit DEF ApiInit
<1>2. AlarmInv /\ [ApiNext]_apiVars => AlarmInv'
  BY AlarmNext, PartsStep
<1>3. AlarmInv => AlarmFollowsFacts
  BY AlarmInvImplies DEF AlarmFollowsFacts
<1> QED
  BY <1>1, <1>2, <1>3, PTL DEF ApiSpec

\* A Webhook delivery says what the endpoint answered to that attempt, and ends as a dead
\* letter only when it was refused or out of attempts, however many workers try it.
THEOREM DeliveriesSayTruth == ApiSpec => []WebhookTruth
<1>1. ApiInit => DeliveryInv
  BY DeliveryInit DEF ApiInit
<1>2. DeliveryInv /\ [ApiNext]_apiVars => DeliveryInv'
  BY DeliveryNext, PartsStep
<1>3. DeliveryInv => WebhookTruth
  BY DeliveryInvImplies
<1> QED
  BY <1>1, <1>2, <1>3, PTL DEF ApiSpec

\* The outcome of an export, a disabled subscription, a published artifact and a reported
\* manifest stand as a caller was told of them.
THEOREM RecordsAlwaysStand == ApiSpec => []RecordsStand
<1> DEFINE Inv == ExportInv /\ SubscriptionInv /\ RegistryInv /\ ManifestInv
<1>1. ApiInit => Inv
  BY ExportInit, SubscriptionInit, RegistryInit, ManifestInit DEF ApiInit
<1>2. Inv /\ [ApiNext]_apiVars => Inv'
  BY ExportNext, SubscriptionNext, RegistryNext, ManifestNext, PartsStep
<1>3. Inv => RecordsStand
  BY RecordInvsImply
<1> QED
  BY <1>1, <1>2, <1>3, PTL DEF ApiSpec

\* A caller who reads a list page by page is shown, once and in order, everything that was
\* there when it began as far as it has come, whatever is written between the pages.
THEOREM PagesStayComplete == ApiSpec => []PagesAreComplete
<1>1. ApiInit => PagesInv
  BY PagesInit DEF ApiInit
<1>2. PagesInv /\ [ApiNext]_apiVars => PagesInv'
  BY PagesNext, PartsStep
<1>3. PagesInv => PagesAreComplete
  BY PagesInvImplies
<1> QED
  BY <1>1, <1>2, <1>3, PTL DEF ApiSpec
=============================================================================
