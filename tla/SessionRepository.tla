-------------------------- MODULE SessionRepository -------------------------
(***************************************************************************)
(* The durable CloudLink session store and everything that writes to it    *)
(* except the challenge handshake.  Module SessionChallenge adds that, and  *)
(* module SessionPlane puts the two together:                              *)
(*                                                                         *)
(*   - OpenCloudLinkSession opens a session and fences the previous one;   *)
(*   - RecordCloudLinkHeartbeat reads a row, applies the domain transition *)
(*     outside any transaction and writes it back under a revision check;  *)
(*   - ReconcileCloudLinkSessionHealth leases overdue rows and completes   *)
(*     each of them from the snapshot the lease returned;                  *)
(*   - RecordCloudLinkDurableCursor advances a stream position.            *)
(*                                                                         *)
(* The transactions are those of the PostgreSQL repository.  Each is one   *)
(* step: open, cursor and challenge transactions hold the row lock of the  *)
(* Gateway's head, heartbeat and health writes are single guarded UPDATEs  *)
(* (module SessionRowLocks looks inside).  What the handlers do between    *)
(* two transactions is not atomic: a heartbeat handler and a health        *)
(* worker work from rows that may have changed, and every clock reading    *)
(* may be up to MaxDelay older than the transaction that uses it.          *)
(***************************************************************************)
EXTENDS CloudLinkSession, FiniteSets

CONSTANTS
    Gateways,       \* (tenant, project, gateway) triples
    Sessions,       \* session identities; the id generators never repeat one
    Streams,        \* (stream id, stream epoch) pairs
    Generations,    \* credential generations
    Requests,       \* request identities of open and heartbeat commands
    Handlers,       \* heartbeat commands that can be in flight at once
    Sweepers,       \* health workers; each has at most one sweep in flight
    LeaseDuration,  \* leaseDurationMs of the health workers
    BatchSize,      \* limit of a sweep
    MaxEpoch,       \* the largest epoch: 2^64 - 1 in the code
    MaxTime, MaxDelay, MaxPosition, MaxRevision    \* bounds of an instance

ASSUME RepositoryAssumption ==
    /\ None \notin Sessions
    /\ None \notin Requests
    /\ None \notin Gateways
    /\ LeaseDuration \in Nat \ {0}
    /\ BatchSize \in Nat \ {0}
    /\ {MaxEpoch, MaxTime, MaxDelay, MaxPosition, MaxRevision} \subseteq Nat

VARIABLES
    now,            \* wall clock of the installation
    head,           \* cloudlink_session_heads, one row per Gateway
    session,        \* cloudlink_sessions; None where the row does not exist
    lease,          \* health_lease_id and health_lease_expires_at of a row
    openRequests,   \* cloudlink_session_open_requests
    cursor,         \* cloudlink_durable_cursors; 0 where there is no row
    outbox,         \* health events in outbox_events
    heartbeats,     \* heartbeat commands between their read and their write
    sweeps          \* health sweeps between their lease and their last write

repositoryVars == <<now, head, session, lease, openRequests, cursor, outbox,
                    heartbeats, sweeps>>

\* Clock readings a step of the present instant may be working with.
RecentInstants == {t \in 0..now : t + MaxDelay >= now}

----------------------------------------------------------------------------
RepositoryInit ==
    /\ now = 0
    /\ head = [g \in Gateways |-> [lastEpoch |-> 0, current |-> None]]
    /\ session = [s \in Sessions |-> None]
    /\ lease = [s \in Sessions |-> None]
    /\ openRequests = [g \in Gateways |-> [r \in Requests |-> None]]
    /\ cursor = [g \in Gateways |-> [st \in Streams |-> 0]]
    /\ outbox = {}
    /\ heartbeats = [h \in Handlers |-> None]
    /\ sweeps = [w \in Sweepers |-> None]

Tick ==
    /\ now < MaxTime
    /\ now' = now + 1
    /\ UNCHANGED <<head, session, lease, openRequests, cursor, outbox,
                   heartbeats, sweeps>>

----------------------------------------------------------------------------
(* Opening a session.                                                      *)

\* An exhausted epoch counter throws and rolls the transaction back.
CanTakeEpoch(g) == head[g].lastEpoch < MaxEpoch
\* A deviation: the counter is not advanced for a reconnect.
sameEpoch(g) == IF head[g].lastEpoch = 0 THEN 1 ELSE head[g].lastEpoch

nextEpoch(g) == head[g].lastEpoch + 1

\* The current session, if there is one, must be closable at the new opening
\* time: fencing a row that is closed already, or that was opened later,
\* throws and rolls the transaction back.
CanFenceCurrent(g, at) ==
    head[g].current # None => CanFence(session[head[g].current], at)

\* A deviation: the previous session is not fenced.
InsertBesideCurrent(g, s, generation, at, signed) ==
    /\ session[s] = None
    /\ CanTakeEpoch(g)
    /\ session' = [session EXCEPT ![s] =
                     buildActiveSession(g, generation, nextEpoch(g), at, signed, cursor[g])]
    /\ head' = [head EXCEPT ![g] = [lastEpoch |-> nextEpoch(g), current |-> s]]

\* What open and acceptAndOpen have in common: fence, insert, move the head.
FenceAndInsert(g, s, generation, at, signed) ==
    /\ session[s] = None
    /\ CanTakeEpoch(g)
    /\ CanFenceCurrent(g, at)
    /\ session' =
         [x \in Sessions |->
            IF x = s THEN buildActiveSession(g, generation, nextEpoch(g), at,
                                             signed, cursor[g])
            ELSE IF x = head[g].current THEN fenceCloudLinkSession(session[x], at)
            ELSE session[x]]
    /\ head' = [head EXCEPT ![g] = [lastEpoch |-> nextEpoch(g), current |-> s]]

\* OpenCloudLinkSession.  A request identity that was used before is answered
\* from the stored row (or refused) and changes nothing.  Such a session has
\* no Gateway key and no heartbeat interval.
Open(g, r, s, generation, at) ==
    /\ openRequests[g][r] = None
    /\ FenceAndInsert(g, s, generation, at, FALSE)
    /\ openRequests' = [openRequests EXCEPT ![g][r] = s]
    /\ UNCHANGED <<now, lease, cursor, outbox, heartbeats, sweeps>>

----------------------------------------------------------------------------
(* Heartbeats: findById, the domain transition, replace.                   *)

\* The observation instants a command may carry: the handler's own clock, or,
\* for a Gateway-signed session, the Gateway's clock within the accepted
\* window around the handler's.
FreshObservation(s, observedAt) ==
    \/ observedAt \in RecentInstants
    \/ /\ s.signed
       /\ observedAt <= now + Interval
       /\ now < observedAt + Grace

\* A session of another credential generation is not found; a wrong epoch, a
\* repeated request or a closed session ends the command here.
HeartbeatRead(h, s, generation, epoch, r, observedAt) ==
    /\ heartbeats[h] = None
    /\ session[s] # None
    /\ session[s].generation = generation
    /\ FreshObservation(session[s], observedAt)
    /\ CanObserveHeartbeat(session[s], epoch, r, observedAt)
    /\ session[s].revision < MaxRevision
    /\ heartbeats' = [heartbeats EXCEPT ![h] =
                        [id |-> s,
                         expectedRevision |-> session[s].revision,
                         row |-> observeCloudLinkHeartbeat(session[s], r, observedAt)]]
    /\ UNCHANGED <<now, head, session, lease, openRequests, cursor, outbox, sweeps>>

\* A deviation: the UPDATE is not guarded by the revision.
replaceUnchecked(id, row, expectedRevision) ==
    /\ session' = [session EXCEPT ![id] = row]
    /\ lease' = [lease EXCEPT ![id] = None]

\* replaceSessionSql: one UPDATE guarded by the revision, which also takes
\* away the health lease.  An observed heartbeat never closes a session, so
\* the head is not touched.
replace(id, row, expectedRevision) ==
    /\ session[id].revision = expectedRevision
    /\ session' = [session EXCEPT ![id] = row]
    /\ lease' = [lease EXCEPT ![id] = None]

HeartbeatReplace(h) ==
    /\ heartbeats[h] # None
    /\ replace(heartbeats[h].id, heartbeats[h].row, heartbeats[h].expectedRevision)
    /\ heartbeats' = [heartbeats EXCEPT ![h] = None]
    /\ UNCHANGED <<now, head, openRequests, cursor, outbox, sweeps>>

\* The row moved on (version-conflict), the storage failed, or the process
\* died: the command ends without a write.
HeartbeatDrop(h) ==
    /\ heartbeats[h] # None
    /\ heartbeats' = [heartbeats EXCEPT ![h] = None]
    /\ UNCHANGED <<now, head, session, lease, openRequests, cursor, outbox, sweeps>>

----------------------------------------------------------------------------
(* Health sweeps.                                                          *)

\* A deviation: the suspicion does not start a grace of its own.
baselineHeard(s) == Heard(s)

\* The instant from which a session's silence is counted.
Baseline(s) == IF s.state = "suspect" THEN s.suspectAt ELSE Heard(s)

\* leaseDueHealthSql: an unclosed signed row, not leased at the moment, whose
\* baseline is more than Grace ago.
Due(at) ==
    {s \in Sessions :
        /\ session[s] # None
        /\ session[s].state \in {"active", "suspect"}
        /\ session[s].signed
        /\ lease[s] = None \/ lease[s].expiresAt <= at
        /\ at > Baseline(session[s]) + Grace}

\* A sweep leases some of the due rows in one UPDATE and remembers them as
\* they were: at most BatchSize of them, and none that another transaction
\* has locked (FOR UPDATE SKIP LOCKED).
leaseDue(w, at, leased) ==
    /\ sweeps[w] = None
    /\ leased # {}
    /\ leased \subseteq Due(at)
    /\ Cardinality(leased) <= BatchSize
    /\ lease' = [s \in Sessions |->
                   IF s \in leased
                   THEN [leaseId |-> w, expiresAt |-> at + LeaseDuration]
                   ELSE lease[s]]
    /\ sweeps' = [sweeps EXCEPT ![w] =
                    [evaluatedAt |-> at,
                     rows |-> [s \in Sessions |->
                                 IF s \in leased THEN session[s] ELSE None]]]
    /\ UNCHANGED <<now, head, session, openRequests, cursor, outbox, heartbeats>>

\* The transition a leased row is due for, judged by the snapshot and by the
\* clock reading the sweep started with.  A row that was due at that reading
\* passes the checks of the transition itself.
healthTransition(row, at) ==
    IF row.state = "active"
    THEN markCloudLinkSessionSuspect(row, at)
    ELSE markCloudLinkSessionHeartbeatTimedOut(row, at)

healthEvent(row) ==
    IF row.state = "closed"
    THEN "cloudlink.session.heartbeat-timed-out.v1"
    ELSE "cloudlink.session.suspected.v1"

\* completeHealthSql: one UPDATE guarded by the revision and by an unexpired
\* lease of this sweep (unexpired at the sweep's own clock reading).
canComplete(w, s) ==
    /\ session[s].revision = sweeps[w].rows[s].revision
    /\ lease[s] # None
    /\ lease[s].leaseId = w
    /\ lease[s].expiresAt > sweeps[w].evaluatedAt

\* A deviation: the head keeps naming a session that timed out.
completeLeavingHead(w, s, row) ==
    /\ canComplete(w, s)
    /\ session' = [session EXCEPT ![s] = row]
    /\ lease' = [lease EXCEPT ![s] = None]
    /\ outbox' = outbox \cup {[session |-> s, revision |-> row.revision,
                               event |-> healthEvent(row)]}
    /\ UNCHANGED head

\* The session row, the outbox event and, for a closed session, the head
\* change in one transaction.
complete(w, s, row) ==
    /\ canComplete(w, s)
    /\ session' = [session EXCEPT ![s] = row]
    /\ lease' = [lease EXCEPT ![s] = None]
    /\ outbox' = outbox \cup {[session |-> s, revision |-> row.revision,
                               event |-> healthEvent(row)]}
    /\ head' = IF row.state = "closed" /\ head[row.gateway].current = s
               THEN [head EXCEPT ![row.gateway].current = None]
               ELSE head

\* The rest of a sweep's batch once s is dealt with.
Without(w, s) ==
    LET rest == [sweeps[w].rows EXCEPT ![s] = None]
    IN  IF \A x \in Sessions : rest[x] = None
        THEN [sweeps EXCEPT ![w] = None]
        ELSE [sweeps EXCEPT ![w].rows = rest]

SweepComplete(w, s) ==
    /\ sweeps[w] # None
    /\ sweeps[w].rows[s] # None
    /\ complete(w, s, healthTransition(sweeps[w].rows[s], sweeps[w].evaluatedAt))
    /\ sweeps' = Without(w, s)
    /\ UNCHANGED <<now, openRequests, cursor, heartbeats>>

\* A deviation: the evidence is committed although no row was updated.
SweepLeaseLostWithEvidence(w, s) ==
    /\ sweeps[w] # None
    /\ sweeps[w].rows[s] # None
    /\ ~canComplete(w, s)
    /\ LET row == healthTransition(sweeps[w].rows[s], sweeps[w].evaluatedAt)
       IN  outbox' = outbox \cup {[session |-> s, revision |-> row.revision,
                                   event |-> healthEvent(row)]}
    /\ sweeps' = Without(w, s)
    /\ UNCHANGED <<now, head, session, lease, openRequests, cursor, heartbeats>>

\* lease-lost: the row changed, or another worker leased it, since.
SweepLeaseLost(w, s) ==
    /\ sweeps[w] # None
    /\ sweeps[w].rows[s] # None
    /\ ~canComplete(w, s)
    /\ sweeps' = Without(w, s)
    /\ UNCHANGED <<now, head, session, lease, openRequests, cursor, outbox, heartbeats>>

\* storage-unavailable ends the whole sweep; so does the death of the worker.
\* The leases it took stay until they expire.
SweepAbort(w) ==
    /\ sweeps[w] # None
    /\ sweeps' = [sweeps EXCEPT ![w] = None]
    /\ UNCHANGED <<now, head, session, lease, openRequests, cursor, outbox, heartbeats>>

----------------------------------------------------------------------------
(* Durable stream positions.                                               *)

\* A deviation: a lower position is written instead of being answered as a replay.
recordReplayedPosition(s, generation, epoch, st, position) ==
    /\ session[s] # None
    /\ session[s].generation = generation
    /\ session[s].state = "active"
    /\ session[s].epoch = epoch
    /\ position <= cursor[session[s].gateway][st] + 1
    /\ position <= MaxPosition
    /\ cursor' = [cursor EXCEPT ![session[s].gateway][st] = position]
    /\ UNCHANGED <<now, head, session, lease, openRequests, outbox, heartbeats, sweeps>>

\* Under the head's lock: the session must exist for the caller's generation
\* (not-found), be active and have the caller's epoch (stale-session).  A
\* position at or below the stored one is a replay, one that skips a position
\* is a gap; neither changes anything.
recordDurableCursor(s, generation, epoch, st, position) ==
    /\ session[s] # None
    /\ session[s].generation = generation
    /\ session[s].state = "active"
    /\ session[s].epoch = epoch
    /\ position = cursor[session[s].gateway][st] + 1
    /\ position <= MaxPosition
    /\ cursor' = [cursor EXCEPT ![session[s].gateway][st] = position]
    /\ UNCHANGED <<now, head, session, lease, openRequests, outbox, heartbeats, sweeps>>

----------------------------------------------------------------------------
HeartbeatNext ==
    \E h \in Handlers :
        \/ \E s \in Sessions, generation \in Generations, epoch \in 1..MaxEpoch,
              r \in Requests, observedAt \in 0..(MaxTime + Interval) :
                HeartbeatRead(h, s, generation, epoch, r, observedAt)
        \/ HeartbeatReplace(h)
        \/ HeartbeatDrop(h)

SweepNext ==
    \E w \in Sweepers :
        \/ \E at \in RecentInstants, leased \in SUBSET Sessions :
                leaseDue(w, at, leased)
        \/ \E s \in Sessions : SweepComplete(w, s) \/ SweepLeaseLost(w, s)
        \/ SweepAbort(w)

OpenNext ==
    \E g \in Gateways, r \in Requests, s \in Sessions,
       generation \in Generations, at \in RecentInstants :
          Open(g, r, s, generation, at)

CursorNext ==
    \E s \in Sessions, generation \in Generations, epoch \in 1..MaxEpoch,
       st \in Streams, position \in 1..MaxPosition :
          recordDurableCursor(s, generation, epoch, st, position)

RepositoryNext == Tick \/ OpenNext \/ HeartbeatNext \/ SweepNext \/ CursorNext
=============================================================================
