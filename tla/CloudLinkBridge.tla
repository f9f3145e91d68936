--------------------------- MODULE CloudLinkBridge ---------------------------
(***************************************************************************)
(* What the MQTT application bridge keeps of one Gateway, in the memory of *)
(* its process: the assertion of the session the Gateway opened, with the  *)
(* protocols its runtime manifest declares, and the manifests themselves.  *)
(* The session and its durable cursors are in the database and outlive the *)
(* process.  The ingress hands the bridge one message of a Gateway at a    *)
(* time; each is a chain of calls, and any of them may fail, before or     *)
(* after what it does is committed, or the process with it.  Messages      *)
(* arrive more than once and in any order, and the Gateway may at any time *)
(* connect to another process, which goes by the same database.            *)
(***************************************************************************)
EXTENDS Naturals

CONSTANTS
    None,
    Manifests,      \* the reports: their delivery, and what they declare
    Bindings,       \* what an integration stream may carry
    Streams,        \* the integration streams
    MaxEpoch        \* a bound on the sessions of the Gateway

\* The checksum of a manifest is verified against its content, which it names.
BridgeAssumption ==
    /\ MaxEpoch \in Nat
    /\ Manifests \subseteq [stream : STRING, position : Nat \ {0}, digest : Nat,
                            integration : BOOLEAN]
    /\ \A m, n \in Manifests : m.digest = n.digest => m.integration = n.integration
    /\ None \notin Manifests \cup Bindings

Positions == {m.position : m \in Manifests}
ManifestStreams == {m.stream : m \in Manifests}

VARIABLES
    signed,         \* whether the Gateway signs, or is trusted by its connector
    epoch,          \* of the session that was opened last, 0 before the first
    live,           \* whether it is open: silence closes it
    cursor,         \* durable positions of the manifest streams
    history,        \* manifests by generation
    latest,         \* the generation of the latest one, 0 if there is none
    sessions,       \* the assertion of each session
    served,         \* history: the session whose assertion last replaced the others
    handling,       \* the message the bridge is busy with
    acks,           \* the reports whose durable acknowledgement was published
    handedOn        \* the integration uplink that passed last, and what it passed with

vars ==
    <<signed, epoch, live, cursor, history, latest, sessions, served, handling, acks,
      handedOn>>

Epochs == 1..MaxEpoch
Assertion == [integration : BOOLEAN, bound : [Streams -> Bindings \cup {None}]]

Hello == [kind : {"hello"}, epoch : Epochs]
Report == [kind : {"record", "cursor", "answer"}, epoch : Epochs, report : Manifests,
           assertion : Assertion]
Uplink == [kind : {"uplink"}, epoch : Epochs, stream : Streams, binding : Bindings,
           assertion : Assertion]

NoneIsNoRecord == None \notin Assertion /\ None \notin Hello \cup Report \cup Uplink

TypeOK ==
    /\ signed \in BOOLEAN
    /\ epoch \in 0..MaxEpoch /\ live \in BOOLEAN
    /\ cursor \in [ManifestStreams -> Positions \cup {0}]
    /\ history \in [Positions -> Manifests \cup {None}]
    /\ latest \in Positions \cup {0}
    /\ sessions \in [Epochs -> Assertion \cup {None}]
    /\ served \in 0..MaxEpoch
    /\ handling \in Hello \cup Report \cup Uplink \cup {None}
    /\ acks \subseteq Manifests
    /\ handedOn \subseteq [epoch : Epochs, served : 0..MaxEpoch, declared : BOOLEAN]

NoSessions == [e \in Epochs |-> None]
NoHistory == [p \in Positions |-> None]

Init ==
    /\ signed \in BOOLEAN
    /\ epoch = 0 /\ live = FALSE
    /\ cursor = [s \in ManifestStreams |-> 0]
    /\ history = NoHistory /\ latest = 0
    /\ sessions = NoSessions /\ served = 0
    /\ handling = None
    /\ acks = {} /\ handedOn = {}

database == <<epoch, live, cursor>>
manifests == <<history, latest>>
assertions == <<sessions, served>>

----------------------------------------------------------------------------
(* Sessions.                                                               *)

\* OpenCloudLinkSession, or the acceptance of a signed hello: it fences what was open.
Open ==
    /\ epoch < MaxEpoch
    /\ epoch' = epoch + 1 /\ live' = TRUE
    /\ UNCHANGED cursor

\* A hello that came before is answered with its session, unless that one is closed.
Replay == live /\ UNCHANGED database

OpenSession ==
    /\ handling = None
    /\ Open \/ Replay
    /\ handling' = [kind |-> "hello", epoch |-> epoch']
    /\ UNCHANGED <<manifests, assertions, acks, handedOn>>

\* A deviation: the assertions of the sessions before stay.
withOthers == sessions

\* Every assertion of the Gateway is dropped.
withoutOthers == NoSessions

\* RestoreGatewayRuntimeProtocols: what the latest manifest declares.
restoreDeclaredRuntimeProtocols ==
    IF latest = 0 THEN FALSE ELSE history[latest].integration

NewAssertion ==
    [integration |-> restoreDeclaredRuntimeProtocols, bound |-> [s \in Streams |-> None]]

\* Only when the answer is there are the others dropped.  The restoration may fail then:
\* the session is open, and the bridge does not know it.  (A hello that fails before,
\* although its session is open, leaves the assertions as they are: Fail.)
AcceptSession ==
    /\ handling # None /\ handling.kind = "hello"
    /\ \/ sessions' = [withoutOthers EXCEPT ![handling.epoch] = NewAssertion]
       \/ sessions' = withoutOthers
    /\ served' = handling.epoch
    /\ handling' = None
    /\ UNCHANGED <<database, manifests, acks, handedOn>>

\* A health worker closes the session; the bridge is not told.
CloseSilent ==
    /\ live
    /\ live' = FALSE
    /\ UNCHANGED <<epoch, cursor, manifests, assertions, handling, acks, handedOn>>

\* The Gateway is with another process: nor is this bridge told of that.
Elsewhere ==
    /\ \/ Open
       \/ /\ live
          /\ \E s \in ManifestStreams : \E p \in Positions :
               p = cursor[s] + 1 /\ cursor' = [cursor EXCEPT ![s] = p]
          /\ UNCHANGED <<epoch, live>>
    /\ UNCHANGED <<manifests, assertions, handling, acks, handedOn>>

----------------------------------------------------------------------------
(* The assertion a message is handled with.                                *)

\* A signed uplink authenticates itself against the session in the database.  One
\* whose assertion is not known, as after a restart, gets a new one.
authenticateGatewaySignedUplink(e) == signed /\ e = epoch /\ live

AssertionFor(e) ==
    IF ~signed THEN sessions[e]
    ELSE IF ~authenticateGatewaySignedUplink(e) THEN None
    ELSE IF sessions[e] # None THEN sessions[e] ELSE NewAssertion

\* handle, of a delivery that came under session e.
Receive(e) ==
    /\ handling = None
    /\ AssertionFor(e) # None
    /\ sessions' = [sessions EXCEPT ![e] = AssertionFor(e)]
    /\ UNCHANGED <<database, manifests, served, acks, handedOn>>

----------------------------------------------------------------------------
(* Runtime manifests.                                                      *)

ReportManifest(e, m) ==
    /\ Receive(e)
    /\ handling' = [kind |-> "record", epoch |-> e, report |-> m,
                    assertion |-> AssertionFor(e)]

\* The generation is the position of the delivery.  One that is known must have the
\* same content; an older one is history only.
conflicts(m) == history[m.position] # None /\ history[m.position].digest # m.digest

RecordManifest ==
    LET m == handling.report IN
    /\ handling # None /\ handling.kind = "record"
    /\ ~conflicts(m)
    /\ history' = [history EXCEPT ![m.position] = IF @ = None THEN m ELSE @]
    /\ latest' = IF m.position > latest THEN m.position ELSE latest
    /\ handling' = [handling EXCEPT !.kind = "cursor"]
    /\ UNCHANGED <<database, assertions, acks, handedOn>>

\* RecordCloudLinkDurableCursor, under a session that is live: the next position, or
\* one that was recorded before.
RecordCursor ==
    LET m == handling.report IN
    /\ handling # None /\ handling.kind = "cursor"
    /\ handling.epoch = epoch /\ live
    /\ m.position <= cursor[m.stream] + 1
    /\ cursor' = [cursor EXCEPT ![m.stream] = IF m.position > @ THEN m.position ELSE @]
    /\ sessions' = [sessions EXCEPT ![epoch] =
                      [handling.assertion EXCEPT !.integration = m.integration]]
    /\ handling' = [handling EXCEPT !.kind = "answer"]
    /\ UNCHANGED <<epoch, live, manifests, served, acks, handedOn>>

PublishDurableAck ==
    /\ handling # None /\ handling.kind = "answer"
    /\ acks' = acks \cup {handling.report}
    /\ handling' = None
    /\ UNCHANGED <<database, manifests, assertions, handedOn>>

----------------------------------------------------------------------------
(* Integration uplinks.                                                    *)

integrationPreflight(a, s, b) == a.integration /\ a.bound[s] \in {None, b}

ReportIntegration(e, s, b) ==
    /\ Receive(e)
    /\ integrationPreflight(AssertionFor(e), s, b)
    /\ handling' = [kind |-> "uplink", epoch |-> e, stream |-> s, binding |-> b,
                    assertion |-> AssertionFor(e)]

\* The use case of a signed one is fenced: it stores nothing unless the session is still
\* the one of the authentication.  A trusted one carries no such fact.
Unfenced == signed => handling.epoch = epoch /\ live

\* It is handed to its use case.  One that is stored binds its stream.
HandOn ==
    /\ handling # None /\ handling.kind = "uplink"
    /\ handedOn' =
         {[epoch |-> handling.epoch, served |-> served,
           declared |-> \E p \in Positions :
                          IF history[p] = None THEN FALSE ELSE history[p].integration]}
    /\ \/ /\ Unfenced
          /\ sessions' = [sessions EXCEPT ![handling.epoch] =
               [handling.assertion EXCEPT !.bound[handling.stream] = handling.binding]]
       \/ UNCHANGED sessions
    /\ handling' = None
    /\ UNCHANGED <<database, manifests, served, acks>>

\* A refusal, a call that throws, a publication that fails.
Fail ==
    /\ handling # None
    /\ handling' = None
    /\ UNCHANGED <<database, manifests, assertions, acks, handedOn>>

\* The process is started again: the Gateway's session is still open.
Restart ==
    /\ sessions # NoSessions \/ handling # None
    /\ history' = NoHistory /\ latest' = 0
    /\ sessions' = NoSessions
    /\ handling' = None
    /\ acks' = {} /\ handedOn' = {}
    /\ UNCHANGED <<database, served>>

----------------------------------------------------------------------------
Deliver(e) ==
    \/ \E m \in Manifests : ReportManifest(e, m)
    \/ \E s \in Streams, b \in Bindings : ReportIntegration(e, s, b)

\* How the Gateways authenticate is composed once, when the process is built.
Next ==
    /\ \/ OpenSession \/ AcceptSession \/ CloseSilent \/ Elsewhere
       \/ \E e \in 1..epoch : Deliver(e)
       \/ RecordManifest \/ RecordCursor \/ PublishDurableAck
       \/ HandOn \/ Fail \/ Restart
    /\ UNCHANGED signed

Spec == Init /\ [][Next]_vars

----------------------------------------------------------------------------
\* Integration uplinks fail closed: one is handed on only if the Gateway reported a
\* manifest that declares them since the process began, and never in a session that is
\* older than the one the bridge served last, with trusted uplinks only in that one,
\* whatever was delivered late, twice, or across a failed hello or a restart.  And what
\* a report was acknowledged as, a later session can be restored from.  (The session
\* served last may have been fenced, by a hello that failed or came to another process.
\* And the bridge goes by the report that came last, not by the latest manifest.)
FailsClosed ==
    /\ \A u \in handedOn :
         /\ u.declared /\ u.epoch >= u.served
         /\ ~signed => u.epoch = u.served
    /\ \A m \in acks : cursor[m.stream] >= m.position /\ latest >= m.position
                       /\ history[m.position].digest = m.digest
=============================================================================
