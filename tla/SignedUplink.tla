------------------------------ MODULE SignedUplink ------------------------------
(***************************************************************************)
(* Uplinks that a Gateway signs one by one, over the session store that    *)
(* lives in the memory of the process (the only one that remembers which   *)
(* heartbeats it accepted).  A session is opened by a signed hello to a    *)
(* challenge, or by a trusted connector; heartbeats are authenticated,     *)
(* remembered and then recorded, deliveries authenticated and then applied *)
(* with their stream position; a health worker watches.  A call of the     *)
(* store is one step, and between two of them anything may happen: the     *)
(* Gateway connects again, the worker finds it silent, another process of  *)
(* the same installation handles the same message, or the call just ends.  *)
(* One Gateway and one credential generation are looked at.                *)
(***************************************************************************)
EXTENDS Naturals, FiniteSets

CONSTANTS
    None,
    Calls,          \* handlers of uplinks
    Beats,          \* the times the Gateway's heartbeats may carry
    Deliveries,     \* [position, expires]: what it may sign in any session
    Interval,       \* heartbeatIntervalMs
    Grace,          \* three times the interval in the code
    LeaseDuration,
    MaxUint64,
    MaxEpoch, MaxTime               \* bounds of an instance

Domain == INSTANCE CloudLinkSession

Times == 0..MaxTime
Epochs == 1..MaxEpoch

UplinkAssumption ==
    /\ {Interval, Grace, LeaseDuration} \subseteq Nat \ {0}
    /\ Grace >= Interval
    /\ Beats \subseteq Nat
    /\ \A d \in Deliveries : d.position \in Nat \ {0} /\ d.expires \in Nat \cup {None}
    /\ {MaxUint64, MaxEpoch, MaxTime} \subseteq Nat
    /\ None \notin Nat

VARIABLES
    clock,          \* of the installation; the Gateway's may differ from it
    sessions,       \* by epoch, which stands for the session identity
    current,        \* the session the store names as current
    marks,          \* the highest accepted heartbeat of a session
    healthLease,
    position,       \* durable cursor of the Gateway's stream
    uplinkCalls,    \* what is being handled
    sweep,          \* what the health worker is busy with
    taken           \* under which epoch a position was taken, and which was the newest

vars == <<clock, sessions, current, marks, healthLease, position, uplinkCalls, sweep, taken>>
store == <<sessions, current, marks, healthLease, position>>

Heartbeat == [kind : {"heartbeat"}, epoch : Epochs, at : Beats]
Delivery == [kind : {"delivery"}, epoch : Epochs, delivery : Deliveries]
Positions == {d.position : d \in Deliveries}

Row == [gateway : {"gateway"}, generation : {1}, epoch : Epochs, signed : BOOLEAN,
        state : {"active", "suspect", "closed"}, openedAt : Times, activatedAt : Times,
        resumeCursors : Positions \cup {0}, lastHeartbeatAt : Beats \cup {None},
        lastHeartbeatRequestId : Beats \cup {None}, suspectAt : Times \cup {None},
        closedAt : Times \cup {None}, closeReason : Domain!CloseReasons \cup {None},
        revision : Nat]
Verifying == [stage : {"verify"}, message : Heartbeat \cup Delivery, revision : Nat]
Beating == [stage : {"consume"}, message : Heartbeat, revision : Nat]
Replacing == [stage : {"replace"}, message : Heartbeat, revision : Nat, expected : Nat,
              row : Row]
Delivering == [stage : {"consume", "digest"}, message : Delivery]
Swept == [row : Row, at : Times]
Taken == [epoch : Epochs, newest : Epochs]

NoneIsNoRecord ==
    /\ None \notin Row /\ None \notin Verifying \cup Beating \cup Replacing \cup Delivering
    /\ None \notin Swept \cup Taken

TypeOK ==
    /\ clock \in Times
    /\ sessions \in [Epochs -> Row \cup {None}]
    /\ current \in Epochs \cup {None}
    /\ marks \in [Epochs -> Beats \cup {None}]
    /\ healthLease \in [Epochs -> Nat \cup {None}]
    /\ position \in Positions \cup {0}
    /\ uplinkCalls \in
         [Calls -> Verifying \cup Beating \cup Replacing \cup Delivering \cup {None}]
    /\ sweep \in Swept \cup {None}
    /\ taken \in [Positions -> Taken \cup {None}]

Init ==
    /\ clock = 0
    /\ sessions = [e \in Epochs |-> None] /\ current = None
    /\ marks = [e \in Epochs |-> None]
    /\ healthLease = [e \in Epochs |-> None]
    /\ position = 0
    /\ uplinkCalls = [c \in Calls |-> None] /\ sweep = None
    /\ taken = [p \in Positions |-> None]

Tick ==
    /\ clock < MaxTime
    /\ clock' = clock + 1
    /\ UNCHANGED <<store, uplinkCalls, sweep, taken>>

Ends(c) == uplinkCalls' = [uplinkCalls EXCEPT ![c] = None]
Goes(c, call) == uplinkCalls' = [uplinkCalls EXCEPT ![c] = call]

\* A call fails in an await, is refused, or its process is gone.
Drop(c) ==
    /\ uplinkCalls[c] # None
    /\ Ends(c)
    /\ UNCHANGED <<clock, store, sweep, taken>>

----------------------------------------------------------------------------
(* Sessions in the store.                                                  *)

NextEpoch == Cardinality({e \in Epochs : sessions[e] # None}) + 1

\* A session that is opened fences the current one; one that is closed already is left.
fenceCurrent(at) ==
    IF current = None \/ sessions[current].state = "closed" THEN sessions
    ELSE [sessions EXCEPT ![current] = Domain!fenceCloudLinkSession(@, at)]

Activate(at, isSigned) ==
    /\ NextEpoch \in Epochs
    /\ (current # None /\ sessions[current].state # "closed") => at >= sessions[current].openedAt
    /\ sessions' = [fenceCurrent(at) EXCEPT ![NextEpoch] =
                      Domain!buildActiveSession("gateway", 1, NextEpoch, at, isSigned, position)]
    /\ current' = NextEpoch

\* open, of a trusted connector: such a session has no key and no interval.
Open ==
    /\ Activate(clock, FALSE)
    /\ UNCHANGED <<clock, marks, healthLease, position, uplinkCalls, sweep, taken>>

\* acceptAndOpen, of a signed hello whose challenge nobody consumed (SessionChallenge).
AcceptAndOpen ==
    /\ Activate(clock, TRUE)
    /\ UNCHANGED <<clock, marks, healthLease, position, uplinkCalls, sweep, taken>>

----------------------------------------------------------------------------
(* Authentication of an uplink.                                            *)

\* What the Gateway signs for a session of its own, by its own clock; it may send it
\* again, and the network deliver it late or more than once.
Messages == {m \in Heartbeat \cup Delivery : sessions[m.epoch] # None /\ sessions[m.epoch].signed}

\* A deviation: the suspect session is taken as well.
sessionMatchesSuspect(session, message) ==
    session.state \in {"active", "suspect"} /\ session.signed /\ session.epoch = message.epoch

\* The current session, active, of the message's epoch, and opened with a key.
sessionMatches(session, message) ==
    session.state = "active" /\ session.signed /\ session.epoch = message.epoch

FindCurrent(c, message) ==
    /\ uplinkCalls[c] = None
    /\ current # None /\ sessionMatches(sessions[current], message)
    /\ Goes(c, [stage |-> "verify", message |-> message, revision |-> sessions[current].revision])
    /\ UNCHANGED <<clock, store, sweep, taken>>

checkedAdd(left, right) == IF left > MaxUint64 - right THEN None ELSE left + right

unexpired(delivery) == delivery.expires # None => clock < delivery.expires

validateFreshness(message) ==
    IF message.kind = "delivery" THEN unexpired(message.delivery)
    ELSE LET futureBoundary == checkedAdd(clock, Interval)
             staleBoundary == checkedAdd(message.at, Grace)
         IN /\ futureBoundary # None /\ staleBoundary # None
            /\ message.at <= futureBoundary /\ clock < staleBoundary

\* The outcomes of acceptHeartbeat: what is signed for one time of one session is one
\* object, so a second one for that time is a replay and never a conflict.
accepts(message) == marks[message.epoch] # None => message.at > marks[message.epoch]
replays(message) == message.at = marks[message.epoch]

\* Once the signature is verified, clock and mark are one step.  A heartbeat that is
\* replayed is acknowledged without being recorded; the others are minted as a fact.
Evaluate(c) ==
    LET call == uplinkCalls[c]
        message == call.message
    IN
    /\ call # None /\ call.stage = "verify"
    /\ validateFreshness(message)
    /\ \/ /\ message.kind = "delivery"
          /\ Goes(c, [stage |-> "consume", message |-> message])
          /\ UNCHANGED marks
       \/ /\ message.kind = "heartbeat" /\ accepts(message)
          /\ marks' = [marks EXCEPT ![message.epoch] = message.at]
          /\ Goes(c, [call EXCEPT !.stage = "consume"])
       \/ /\ message.kind = "heartbeat" /\ replays(message)
          /\ Ends(c)
          /\ UNCHANGED marks
    /\ UNCHANGED <<clock, sessions, current, healthLease, position, sweep, taken>>

----------------------------------------------------------------------------
(* The commands that consume a fact.                                       *)

\* RecordCloudLinkHeartbeat: the session is found by its identity, current or not; the
\* request is named after the time.
ConsumeHeartbeat(c) ==
    LET call == uplinkCalls[c]
        row == sessions[call.message.epoch]
        at == call.message.at
    IN
    /\ call # None /\ call.stage = "consume" /\ call.message.kind = "heartbeat"
    /\ IF row.lastHeartbeatRequestId = at THEN Ends(c)
       ELSE /\ Domain!CanObserveHeartbeat(row, call.message.epoch, at, at)
            /\ Goes(c, [stage |-> "replace", message |-> call.message,
                        revision |-> call.revision, expected |-> row.revision,
                        row |-> Domain!observeCloudLinkHeartbeat(row, at, at)])
    /\ UNCHANGED <<clock, store, sweep, taken>>

\* replace: by revision, and the health lease goes.
ReplaceSession(c) ==
    LET call == uplinkCalls[c]
        e == call.message.epoch
    IN
    /\ call # None /\ call.stage = "replace"
    /\ sessions[e].revision = call.expected
    /\ sessions' = [sessions EXCEPT ![e] = call.row]
    /\ healthLease' = [healthLease EXCEPT ![e] = None]
    /\ Ends(c)
    /\ UNCHANGED <<clock, current, marks, position, sweep, taken>>

\* RecordCloudLinkDurableCursor: the expiry is looked at again, then the digest of the
\* payload is computed.
ConsumeDelivery(c) ==
    LET call == uplinkCalls[c] IN
    /\ call # None /\ call.stage = "consume" /\ call.message.kind = "delivery"
    /\ unexpired(call.message.delivery)
    /\ Goes(c, [call EXCEPT !.stage = "digest"])
    /\ UNCHANGED <<clock, store, sweep, taken>>

RecordDurableCursor(c) ==
    LET call == uplinkCalls[c]
        at == call.message.delivery.position
    IN
    /\ call # None /\ call.stage = "digest"
    /\ sessions[call.message.epoch].state = "active"
    /\ \/ /\ at = position + 1
          /\ position' = at
          /\ taken' = [taken EXCEPT ![at] =
                         [epoch |-> call.message.epoch, newest |-> NextEpoch - 1]]
       \/ /\ at <= position                     \* replayed
          /\ UNCHANGED <<position, taken>>
    /\ Ends(c)
    /\ UNCHANGED <<clock, sessions, current, marks, healthLease, sweep>>

----------------------------------------------------------------------------
(* The health worker.                                                      *)

Baseline(row) == IF row.state = "suspect" THEN row.suspectAt ELSE Domain!Heard(row)

LeaseDue(e) ==
    /\ sweep = None
    /\ sessions[e] # None /\ sessions[e].signed
    /\ sessions[e].state \in {"active", "suspect"}
    /\ healthLease[e] # None => healthLease[e] <= clock
    /\ clock > Baseline(sessions[e]) + Grace
    /\ healthLease' = [healthLease EXCEPT ![e] = clock + LeaseDuration]
    /\ sweep' = [row |-> sessions[e], at |-> clock]
    /\ UNCHANGED <<clock, sessions, current, marks, position, uplinkCalls, taken>>

CompletedRow ==
    IF sweep.row.state = "active"
    THEN Domain!markCloudLinkSessionSuspect(sweep.row, sweep.at)
    ELSE Domain!markCloudLinkSessionHeartbeatTimedOut(sweep.row, sweep.at)

\* complete: a session that is closed is no longer the current one.
Complete ==
    LET e == sweep.row.epoch IN
    /\ sweep # None
    /\ sweep' = None
    /\ IF sessions[e].revision = sweep.row.revision /\ healthLease[e] # None
       THEN /\ sessions' = [sessions EXCEPT ![e] = CompletedRow]
            /\ healthLease' = [healthLease EXCEPT ![e] = None]
            /\ current' = IF CompletedRow.state = "closed" /\ current = e THEN None ELSE current
       ELSE UNCHANGED <<sessions, healthLease, current>>
    /\ UNCHANGED <<clock, marks, position, uplinkCalls, taken>>

Next ==
    \/ Tick \/ Open \/ AcceptAndOpen \/ Complete
    \/ \E e \in Epochs : LeaseDue(e)
    \/ \E c \in Calls :
         \/ \E message \in Messages : FindCurrent(c, message)
         \/ Evaluate(c) \/ ConsumeHeartbeat(c) \/ ReplaceSession(c)
         \/ ConsumeDelivery(c) \/ RecordDurableCursor(c) \/ Drop(c)

Spec == Init /\ [][Next]_vars

----------------------------------------------------------------------------
\* What a session was last heard at is not above the highest heartbeat that the store
\* remembers, which is at most an interval ahead of the installation's clock: a call
\* that ends between the two writes leaves the row behind the mark, never ahead of it,
\* and a Gateway whose clock is ahead postpones its own timeout by an interval only.
HeardIsAccepted ==
    \A e \in Epochs :
        /\ (sessions[e] # None /\ sessions[e].lastHeartbeatAt # None) =>
             marks[e] # None /\ sessions[e].lastHeartbeatAt <= marks[e]
        /\ marks[e] # None => marks[e] <= clock + Interval

\* A session that was found silent is brought back only by a heartbeat that was
\* authenticated before: a later one is refused, and the session times out.
RecoveryIsOld ==
    \A c \in Calls :
        LET call == uplinkCalls[c]
        IN (/\ call # None /\ call.stage \in {"consume", "replace"}
            /\ call.message.kind = "heartbeat"
            /\ sessions[call.message.epoch].state = "suspect") =>
              call.revision < sessions[call.message.epoch].revision

\* Nothing that was signed in a session is taken once the Gateway opened another.
TakenInOrder ==
    \A p \in Positions :
        /\ taken[p] # None <=> p <= position
        /\ taken[p] # None => taken[p].epoch = taken[p].newest

UplinkTruth == HeardIsAccepted /\ RecoveryIsOld /\ TakenInOrder
=============================================================================
