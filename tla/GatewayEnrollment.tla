--------------------------- MODULE GatewayEnrollment ---------------------------
(***************************************************************************)
(* The enrollment of one Gateway: RegisterGateway, IssueGatewayEnrollment  *)
(* and ClaimGatewayEnrollment over the store of Gateway identities, which  *)
(* replaces a row only at the revision that was read.  The tokens are made *)
(* by a process, which may remember them, and are never stored: the row    *)
(* holds the digest of one, and one answer gives the token itself to the   *)
(* caller.  A command refused before the row is read is one that is not    *)
(* called.                                                                 *)
(***************************************************************************)
EXTENDS Integers

CONSTANTS
    None,
    Calls,          \* the handlers that can be under way
    Services,       \* the token services, one for each process
    Remembering,    \* those in memory; the others make a new token every time
    ServiceOf,      \* the process a handler runs in
    Commands,       \* [kind, request, value]
    MaxToken,
    MaxTime

Time == 0..MaxTime
Tokens == 1..MaxToken
CommandRequests == {k.request : k \in Commands}
Kinds == {"register", "issue", "claim"}

\* The value of a command is the display name, the expiry of the claim, the
\* fingerprint of the credential request.
EnrollmentAssumption ==
    /\ MaxTime \in Nat /\ MaxToken \in Nat
    /\ ServiceOf \in [Calls -> Services] /\ Remembering \subseteq Services
    /\ \A k \in Commands : k.kind \in Kinds /\ (k.kind = "issue" => k.value \in Nat)

\* done: the commands that made the row.  token: the one whose digest it holds.
Gateway == [state : {"registered", "awaiting-claim", "claimed"}, revision : 1..3,
            done : [Kinds -> Commands \cup {None}], token : Tokens \cup {None},
            issuedAt : Time \cup {None}]
Issue == [token : Tokens, expires : Nat]

\* None is no command and no record.
NoneIsNothing == None \notin Commands \cup Gateway \cup Issue

VARIABLES
    now,
    gateway,
    issues,         \* the tokens a service has made, by the request they are for
    minted,
    calls,
    answers         \* the commands that were answered with success, and the token told

vars == <<now, gateway, issues, minted, calls, answers>>

\* read: the row the next one is made of.  token: the one that is made, or shown.
Call == [command : Commands, at : Time, stage : {"find", "write", "again"},
         read : Gateway \cup {None}, token : Tokens \cup {None}]
Answer == [command : Commands, token : Tokens \cup {None}]

TypeOK ==
    /\ now \in Time
    /\ gateway \in Gateway \cup {None}
    /\ issues \in [Services -> [CommandRequests -> Issue \cup {None}]]
    /\ minted \in 0..MaxToken
    /\ calls \in [Calls -> Call \cup {None}]
    /\ answers \subseteq Answer

Init ==
    /\ now = 0
    /\ gateway = None
    /\ issues = [s \in Services |-> [r \in CommandRequests |-> None]]
    /\ minted = 0
    /\ calls = [c \in Calls |-> None]
    /\ answers = {}

----------------------------------------------------------------------------
Tick == now < MaxTime /\ now' = now + 1
        /\ UNCHANGED <<gateway, issues, minted, calls, answers>>

Told == {a.token : a \in answers} \ {None}

\* The clock is read, and the row is asked for.  A claim shows a token.
Begin(c, k) ==
    /\ calls[c] = None
    /\ k.kind = "issue" => k.value > now
    /\ \E shown \in IF k.kind = "claim" THEN Told ELSE {None} :
         calls' = [calls EXCEPT ![c] = [command |-> k, at |-> now, stage |-> "find",
                                        read |-> None, token |-> shown]]
    /\ UNCHANGED <<now, gateway, issues, minted, answers>>

Return(c) == calls' = [calls EXCEPT ![c] = None]

\* Success, when the answer arrives; the token is in the answer of the call whose
\* write is the one that stands.
Succeed(c, token) ==
    /\ \/ answers' = answers \cup {[command |-> calls[c].command, token |-> token]}
       \/ answers' = answers
    /\ Return(c)

Refuse(c) == Return(c) /\ UNCHANGED answers

\* What a row says of a request that it was made by.  Of a registration it says
\* nothing any more once a claim is issued.
AfterState(kind) == [register |-> "registered", issue |-> "awaiting-claim",
                     claim |-> "claimed"][kind]
isReplay(k) == gateway # None /\ gateway.state = AfterState(k.kind)
               /\ gateway.done[k.kind] = k

\* What a service does with a token it has made: only the one in memory keeps it.
remember(s, request, issue) ==
    issues' = IF s \in Remembering THEN [issues EXCEPT ![s][request] = issue] ELSE issues

\* tokens.issue: a request gets the token that is remembered for it, unless the expiry
\* is another one.
issueToken(c) ==
    LET k == calls[c].command
        s == ServiceOf[c]
        known == issues[s][k.request]
    IN IF known = None
       THEN /\ minted < MaxToken
            /\ minted' = minted + 1
            /\ remember(s, k.request, [token |-> minted + 1, expires |-> k.value])
            /\ calls' = [calls EXCEPT ![c].stage = "write", ![c].read = gateway,
                                      ![c].token = minted + 1]
       ELSE /\ IF known.expires = k.value
               THEN calls' = [calls EXCEPT ![c].stage = "write", ![c].read = gateway,
                                           ![c].token = known.token]
               ELSE Return(c)
            /\ UNCHANGED <<issues, minted>>

GoOn(c) ==
    /\ calls' = [calls EXCEPT ![c].stage = "write", ![c].read = gateway]
    /\ UNCHANGED <<issues, minted>>

isClaimable(c) ==
    /\ gateway.token = calls[c].token
    /\ calls[c].at >= gateway.issuedAt
    /\ calls[c].at < gateway.done.issue.value

\* A claim is compared with the token before anything is said of the row.
FindRow(c) ==
    /\ calls[c] # None
    /\ calls[c].stage = "find"
    /\ LET k == calls[c].command IN
       \/ /\ isReplay(k)
          /\ k.kind = "claim" => gateway.token = calls[c].token
          /\ Succeed(c, None)
          /\ UNCHANGED <<issues, minted>>
       \/ /\ k.kind = "register" /\ gateway = None
          /\ GoOn(c)
          /\ UNCHANGED answers
       \/ /\ k.kind = "issue" /\ gateway # None /\ gateway.state = "registered"
          /\ issueToken(c)
          /\ UNCHANGED answers
       \/ /\ k.kind = "claim" /\ gateway # None /\ gateway.state = "awaiting-claim"
          /\ isClaimable(c)
          /\ GoOn(c)
          /\ UNCHANGED answers
    /\ UNCHANGED <<now, gateway>>

registered(call) ==
    [state |-> "registered", revision |-> 1, token |-> None, issuedAt |-> None,
     done |-> [kind \in Kinds |-> IF kind = "register" THEN call.command ELSE None]]
issued(call) ==
    [call.read EXCEPT !.state = "awaiting-claim", !.revision = @ + 1,
                      !.done["issue"] = call.command, !.token = call.token,
                      !.issuedAt = call.at]
claimed(call) ==
    [call.read EXCEPT !.state = "claimed", !.revision = @ + 1, !.done["claim"] = call.command]
nextRow(call) == CASE call.command.kind = "register" -> registered(call)
                   [] call.command.kind = "issue" -> issued(call)
                   [] call.command.kind = "claim" -> claimed(call)

\* A deviation: any row is replaced.
isAnyRevision(call) == TRUE
isExpectedRevision(call) ==
    IF call.read = None THEN gateway = None
    ELSE gateway # None /\ gateway.revision = call.read.revision

\* Insert or replace; the row, the audit record and the outbox event are written in
\* one transaction.  On a conflict the row is read once more.
WriteRow(c) ==
    LET call == calls[c] IN
    /\ call # None
    /\ call.stage = "write"
    /\ IF isExpectedRevision(call)
       THEN gateway' = nextRow(call)
            /\ Succeed(c, IF call.command.kind = "issue" THEN call.token ELSE None)
       ELSE calls' = [calls EXCEPT ![c].stage = "again"] /\ UNCHANGED <<gateway, answers>>
    /\ UNCHANGED <<now, issues, minted>>

\* After a conflict a replay is told from a race; of a claim the token is not
\* compared again.
FindAgain(c) ==
    /\ calls[c] # None
    /\ calls[c].stage = "again"
    /\ IF isReplay(calls[c].command) THEN Succeed(c, None) ELSE Refuse(c)
    /\ UNCHANGED <<now, gateway, issues, minted>>

\* A refusal, or a store that cannot be reached.
Fail(c) ==
    /\ calls[c] # None
    /\ Refuse(c)
    /\ UNCHANGED <<now, gateway, issues, minted>>

\* A process that starts again has forgotten its tokens; the rows are stored.
Restart(s) ==
    /\ issues' = [issues EXCEPT ![s] = [r \in CommandRequests |-> None]]
    /\ calls' = [c \in Calls |-> IF ServiceOf[c] = s THEN None ELSE calls[c]]
    /\ UNCHANGED <<now, gateway, minted, answers>>

Step(c) ==
    \/ \E k \in Commands : Begin(c, k)
    \/ FindRow(c) \/ WriteRow(c) \/ FindAgain(c) \/ Fail(c)

Next == Tick \/ \E c \in Calls : Step(c) \/ \E s \in Services : Restart(s)

Spec == Init /\ [][Next]_vars

----------------------------------------------------------------------------
\* A Gateway is enrolled once, whoever asks and however often: all the callers who
\* were told that they registered it, issued its claim or claimed it gave the same
\* request and the same name, expiry or credential, which are those of the row; and
\* a token that was told is the one the row can be claimed with.
OneEnrollment ==
    \A a \in answers :
       /\ gateway # None
       /\ a.command = gateway.done[a.command.kind]
       /\ a.token # None => a.token = gateway.token
=============================================================================
