------------------------- MODULE SessionPlaneProofs -------------------------
(***************************************************************************)
(* The safety of the session plane, for every value of the constants.      *)
(*                                                                         *)
(* Only three kinds of step change a session row: opening a session (by    *)
(* command or by signed hello), writing a heartbeat back, and completing a *)
(* health transition.  The last two write a row that was computed from an  *)
(* old copy; CopiesAreCurrent says that the revision check lets only a     *)
(* copy of the stored row through, and is what makes the other invariants  *)
(* inductive.                                                              *)
(***************************************************************************)
EXTENDS SessionPlaneTypes

\* An unclosed row has no reason of closure.
ClosedWithReason ==
    \A s \in Sessions :
        Exists(s) /\ session[s].state # "closed"
            => session[s].closeReason \notin CloseReasons

IInv ==
    /\ OneLiveSession
    /\ EpochFencing
    /\ ClosedWithReason
    /\ SilenceBeforeTimeout
    /\ OutboxTruthful
    /\ CopiesAreCurrent

----------------------------------------------------------------------------
(* What the two writers of existing rows do.                               *)

\* What a row says of how its session was opened: no later write changes it.
SameOpening(row, new) ==
    /\ new.gateway = row.gateway
    /\ new.generation = row.generation
    /\ new.epoch = row.epoch
    /\ new.signed = row.signed
    /\ new.openedAt = row.openedAt
    /\ new.resumeCursors = row.resumeCursors

\* s is written; its new row belongs to the same Gateway and epoch, keeps what
\* it says of the opening and has the next revision.
RowWrite(s, new) ==
    /\ Exists(s)
    /\ session[s] \in SessionRow
    /\ session[s].state # "closed"
    /\ new \in SessionRow
    /\ SameOpening(session[s], new)
    /\ new.gateway = session[s].gateway
    /\ new.epoch = session[s].epoch
    /\ new.revision = session[s].revision + 1
    /\ session' = [session EXCEPT ![s] = new]

\* What a heartbeat's write does: one row becomes the observed row, which is
\* live and of the same Gateway and epoch; nothing else moves but its lease.
LEMMA HeartbeatReplaceEffect ==
    ASSUME TypeOK, CopiesAreCurrent, NEW h \in Handlers, HeartbeatReplace(h)
    PROVE  LET s   == heartbeats[h].id
               new == heartbeats[h].row
           IN  /\ s \in Sessions
               /\ RowWrite(s, new)
               /\ new.state = "active"
               /\ new.closeReason = session[s].closeReason
               /\ new.lastHeartbeatAt \in Nat
               /\ new.lastHeartbeatAt >= Heard(session[s])
<1> DEFINE s   == heartbeats[h].id
           new == heartbeats[h].row
           at  == new.lastHeartbeatAt
           r   == new.lastHeartbeatRequestId
<1>1. /\ heartbeats[h] # None
      /\ s \in Sessions
      /\ new \in SessionRow
      /\ at \in Nat \cup {None}
      /\ r \in Requests \cup {None}
  BY DEF HeartbeatReplace, TypeOK, PendingHeartbeat, SessionRow, Instant
<1>2. /\ session[s].revision = heartbeats[h].expectedRevision
      /\ session' = [session EXCEPT ![s] = new]
  BY DEF HeartbeatReplace, replace
<1>3. CurrentBeat(heartbeats[h], session[s])
  BY <1>1 DEF CopiesAreCurrent, HeartbeatCopies, SweepCopies
<1>4. /\ session[s] # None
      /\ session[s].state # "closed"
      /\ at # None
      /\ at >= Heard(session[s])
      /\ new = observeCloudLinkHeartbeat(session[s], r, at)
  BY <1>2, <1>3 DEF CurrentBeat
<1>5. session[s] \in SessionRow
  BY <1>1, <1>4 DEF TypeOK
<1> HIDE DEF s, new, at, r
<1>6. /\ SameOpening(session[s], new)
      /\ new.gateway = session[s].gateway
      /\ new.epoch = session[s].epoch
      /\ new.revision = session[s].revision + 1
      /\ new.state = "active"
      /\ new.closeReason = session[s].closeReason
  <2>1. /\ new.gateway = session[s].gateway
        /\ new.generation = session[s].generation
        /\ new.epoch = session[s].epoch
        /\ new.signed = session[s].signed
        /\ new.openedAt = session[s].openedAt
        /\ new.resumeCursors = session[s].resumeCursors
        /\ new.revision = session[s].revision + 1
        /\ new.state = "active"
        /\ new.closeReason = session[s].closeReason
    BY <1>1, <1>4, <1>5, ObserveRow
  <2> QED
    BY <2>1 DEF SameOpening
<1> QED
  BY <1>1, <1>2, <1>4, <1>5, <1>6 DEF RowWrite, SameOpening, Exists, s, new, at

\* The row a health transition leads to.
LEMMA HealthRow ==
    ASSUME NEW row \in SessionRow, NEW at \in Nat, row.state # "closed",
           at > Baseline(row) + Grace, SilentLongEnough(row),
           row.closeReason \notin CloseReasons
    PROVE  LET new == healthTransition(row, at)
           IN  /\ new \in SessionRow
               /\ SameOpening(row, new)
               /\ new.gateway = row.gateway
               /\ new.epoch = row.epoch
               /\ new.revision = row.revision + 1
               /\ Heard(new) = Heard(row)
               /\ SilentLongEnough(new)
               /\ \/ /\ new.state = "suspect"
                     /\ new.closeReason = row.closeReason
                  \/ new.state = "closed" /\ TimedOut(new)
<1>1. CASE row.state = "active"
  <2> DEFINE new == markCloudLinkSessionSuspect(row, at)
  <2>1. /\ new \in SessionRow
        /\ SameOpening(row, new)
        /\ new.gateway = row.gateway
        /\ new.epoch = row.epoch
        /\ new.revision = row.revision + 1
        /\ Heard(new) = Heard(row)
        /\ new.state = "suspect"
        /\ new.suspectAt = at
        /\ new.closeReason = row.closeReason
    BY SuspectRow DEF SameOpening
  <2>2. new.suspectAt > Heard(row) + Grace
    BY <1>1, <2>1 DEF Baseline
  <2> HIDE DEF new
  <2>3. SilentLongEnough(new)
    BY <2>1, <2>2 DEF SilentLongEnough, TimedOut, CloseReasons
  <2> QED
    BY <1>1, <2>1, <2>3 DEF healthTransition, new
<1>2. CASE row.state = "suspect"
  <2> DEFINE new == markCloudLinkSessionHeartbeatTimedOut(row, at)
  <2>1. /\ new \in SessionRow
        /\ SameOpening(row, new)
        /\ new.gateway = row.gateway
        /\ new.epoch = row.epoch
        /\ new.revision = row.revision + 1
        /\ Heard(new) = Heard(row)
        /\ new.state = "closed"
        /\ new.suspectAt = row.suspectAt
        /\ new.closedAt = at
        /\ new.closeReason = "heartbeat-timeout"
    BY TimeOutRow DEF SameOpening
  <2>2. /\ new.suspectAt > Heard(row) + Grace
        /\ new.closedAt > new.suspectAt + Grace
    BY <1>2, <2>1 DEF Baseline, SilentLongEnough
  <2> HIDE DEF new
  <2>3. SilentLongEnough(new)
    BY <2>1, <2>2 DEF SilentLongEnough
  <2> QED
    BY <1>2, <2>1, <2>3 DEF healthTransition, TimedOut, new
<1> QED
  BY <1>1, <1>2 DEF SessionRow

\* What completing a leased row does: one row becomes the row the health
\* transition leads to, an event is published, and the head is cleared when
\* the session was closed.
LEMMA SweepCompleteEffect ==
    ASSUME TypeOK, CopiesAreCurrent, ClosedWithReason, SilenceBeforeTimeout,
           NEW w \in Sweepers, NEW s \in Sessions, SweepComplete(w, s)
    PROVE  LET new == healthTransition(session[s], sweeps[w].evaluatedAt)
           IN  /\ RowWrite(s, new)
               /\ Heard(new) = Heard(session[s])
               /\ SilentLongEnough(new)
               /\ \/ /\ new.state = "suspect"
                     /\ new.closeReason = session[s].closeReason
                  \/ new.state = "closed" /\ TimedOut(new)
               /\ outbox' = outbox \cup {[session |-> s, revision |-> new.revision,
                                          event |-> healthEvent(new)]}
               /\ head' = IF new.state = "closed" /\ head[new.gateway].current = s
                          THEN [head EXCEPT ![new.gateway].current = None]
                          ELSE head
<1> DEFINE copy == sweeps[w].rows[s]
           at   == sweeps[w].evaluatedAt
           new  == healthTransition(session[s], at)
<1>1. /\ sweeps[w] # None /\ copy # None
      /\ session[s].revision = copy.revision
      /\ session' = [session EXCEPT ![s] = healthTransition(copy, at)]
      /\ outbox' = outbox \cup {[session |-> s,
                                 revision |-> healthTransition(copy, at).revision,
                                 event |-> healthEvent(healthTransition(copy, at))]}
      /\ head' = IF healthTransition(copy, at).state = "closed"
                       /\ head[healthTransition(copy, at).gateway].current = s
                 THEN [head EXCEPT ![healthTransition(copy, at).gateway].current = None]
                 ELSE head
  BY DEF SweepComplete, complete, canComplete
<1>2. at \in Nat
  BY <1>1 DEF TypeOK, Sweep, Instant
<1>3. CurrentCopy(copy, at, session[s])
  BY <1>1 DEF CopiesAreCurrent, HeartbeatCopies, SweepCopies
<1>4. /\ copy = session[s]
      /\ session[s] # None
      /\ session[s].state # "closed"
      /\ at > Baseline(session[s]) + Grace
  BY <1>1, <1>3 DEF CurrentCopy
<1>5. /\ Exists(s)
      /\ session[s] \in SessionRow
      /\ SilentLongEnough(session[s])
      /\ session[s].closeReason \notin CloseReasons
  BY <1>4 DEF Exists, TypeOK, SilenceBeforeTimeout, ClosedWithReason
<1> HIDE DEF copy, at
<1>6. /\ new \in SessionRow
      /\ SameOpening(session[s], new)
      /\ new.gateway = session[s].gateway
      /\ new.epoch = session[s].epoch
      /\ new.revision = session[s].revision + 1
      /\ Heard(new) = Heard(session[s])
      /\ SilentLongEnough(new)
      /\ \/ /\ new.state = "suspect"
            /\ new.closeReason = session[s].closeReason
         \/ new.state = "closed" /\ TimedOut(new)
  BY <1>2, <1>4, <1>5, HealthRow
<1>7. /\ session' = [session EXCEPT ![s] = new]
      /\ outbox' = outbox \cup {[session |-> s, revision |-> new.revision,
                                 event |-> healthEvent(new)]}
      /\ head' = IF new.state = "closed" /\ head[new.gateway].current = s
                 THEN [head EXCEPT ![new.gateway].current = None]
                 ELSE head
  BY <1>1, <1>4
<1> HIDE DEF new
<1>8. RowWrite(s, new)
  BY <1>4, <1>5, <1>6, <1>7 DEF RowWrite
<1> QED
  BY <1>6, <1>7, <1>8 DEF new, at

----------------------------------------------------------------------------
(* One live session per Gateway.                                           *)

\* Writing one row that stays live, or closing it and clearing the head,
\* keeps the head in step with the live rows.
LEMMA OneLiveAfterWrite ==
    ASSUME TypeOK, OneLiveSession, NEW s \in Sessions, NEW new, RowWrite(s, new),
           head' = IF new.state = "closed" /\ head[new.gateway].current = s
                   THEN [head EXCEPT ![new.gateway].current = None]
                   ELSE head
    PROVE  OneLiveSession'
<1> DEFINE g == new.gateway
<1>1. /\ s \in Sessions
      /\ session[s] # None
      /\ session[s].state # "closed"
      /\ session[s].gateway = g
      /\ new \in SessionRow
      /\ g \in Gateways
      /\ session' = [session EXCEPT ![s] = new]
  BY DEF RowWrite, Exists, SessionRow
<1>2. new # None
  BY <1>1, NoneIsNoRow
<1>3. /\ session'[s] = new
      /\ \A x \in Sessions : x # s => session'[x] = session[x]
  BY <1>1 DEF TypeOK
<1>4. head[g].current = s
  BY <1>1 DEF OneLiveSession, LiveSessions, Live, Exists
<1> SUFFICES ASSUME NEW k \in Gateways
             PROVE  (LiveSessions(k) = {head[k].current} \ {None})'
  BY DEF OneLiveSession
<1>5. LiveSessions(k) = {head[k].current} \ {None}
  BY DEF OneLiveSession
<1>6. CASE new.state # "closed"
  <2>1. head' = head
    BY <1>6
  <2>2. LiveSessions(k)' = LiveSessions(k)
    BY <1>1, <1>2, <1>3, <1>6 DEF LiveSessions, Live, Exists
  <2> QED
    BY <2>1, <2>2, <1>5
<1>7. CASE new.state = "closed" /\ k # g
  <2>1. head'[k] = head[k]
    BY <1>1, <1>7 DEF TypeOK
  <2>2. LiveSessions(k)' = LiveSessions(k)
    BY <1>1, <1>2, <1>3, <1>7 DEF LiveSessions, Live, Exists
  <2> QED
    BY <2>1, <2>2, <1>5
<1>8. CASE new.state = "closed" /\ k = g
  <2>1. head'[k].current = None
    BY <1>1, <1>4, <1>8 DEF TypeOK, HeadRow
  <2>2. LiveSessions(k)' = {}
    BY <1>1, <1>3, <1>4, <1>5, <1>8 DEF LiveSessions, Live, Exists
  <2> QED
    BY <2>1, <2>2
<1> QED
  BY <1>6, <1>7, <1>8

\* An opening leaves the new session as the only live one of its Gateway.
LEMMA OneLiveAfterOpen ==
    ASSUME TypeOK, PointersResolve, OneLiveSession,
           NEW g \in Gateways, NEW s \in Sessions, NEW generation \in Generations,
           NEW at \in Nat, NEW signed \in BOOLEAN,
           FenceAndInsert(g, s, generation, at, signed)
    PROVE  OneLiveSession'
<1> DEFINE c == head[g].current
<1>1. /\ ~Exists(s)
      /\ s # c
      /\ session'[s] = buildActiveSession(g, generation, nextEpoch(g), at,
                                          signed, cursor[g])
      /\ session'[s] \in SessionRow
      /\ \A x \in Sessions : x # s /\ x # c => session'[x] = session[x]
      /\ c # None =>
           /\ c \in Sessions
           /\ session[c] \in SessionRow
           /\ session'[c] = fenceCloudLinkSession(session[c], at)
      /\ head'[g] = [lastEpoch |-> nextEpoch(g), current |-> s]
      /\ \A h \in Gateways : h # g => head'[h] = head[h]
  <2> Opened(g, s, generation, at, signed)
    BY FenceAndInsertEffect
  <2> QED
    BY DEF Opened
<1>2. session'[s].state = "active" /\ session'[s].gateway = g
  <2>1. nextEpoch(g) \in Nat /\ cursor[g] \in Cursors
    BY DEF TypeOK, HeadRow, nextEpoch
  <2> QED
    BY <1>1, <2>1, BuildRow
<1>3. c # None => session'[c].state = "closed" /\ session'[c].gateway = session[c].gateway
  BY <1>1, FenceRow
<1>4. s # None /\ session'[s] # None
  BY <1>1, NoneIsNoRow, RepositoryAssumption
<1> SUFFICES ASSUME NEW k \in Gateways
             PROVE  (LiveSessions(k) = {head[k].current} \ {None})'
  BY DEF OneLiveSession
<1>5. LiveSessions(k) = {head[k].current} \ {None}
  BY DEF OneLiveSession
<1>6. LiveSessions(g) = {c} \ {None}
  BY DEF OneLiveSession
<1> HIDE DEF c
<1>7. CASE k = g
  <2>1. LiveSessions(g)' \subseteq {s}
    <3> SUFFICES ASSUME NEW x \in Sessions, x \in LiveSessions(g)', x # s
                 PROVE  FALSE
      BY DEF LiveSessions
    <3>1. CASE x = c
      BY <1>3, <3>1, RepositoryAssumption DEF LiveSessions, Live
    <3>2. CASE x # c
      <4>1. x \in LiveSessions(g)
        BY <1>1, <3>2 DEF LiveSessions, Live, Exists
      <4> QED
        BY <4>1, <3>2, <1>6
    <3> QED
      BY <3>1, <3>2
  <2>2. s \in LiveSessions(g)'
    BY <1>2, <1>4 DEF LiveSessions, Live, Exists
  <2> QED
    BY <1>1, <1>4, <1>7, <2>1, <2>2
<1>8. CASE k # g
  <2>1. LiveSessions(k)' = LiveSessions(k)
    <3>1. s \notin LiveSessions(k)' /\ s \notin LiveSessions(k)
      BY <1>1, <1>2, <1>8 DEF LiveSessions, Live
    <3>2. c # None => c \notin LiveSessions(k)' /\ c \notin LiveSessions(k)
      BY <1>3, <1>6, <1>8 DEF LiveSessions, Live
    <3>3. \A x \in Sessions : x # s /\ x # c =>
            (x \in LiveSessions(k)' <=> x \in LiveSessions(k))
      BY <1>1 DEF LiveSessions, Live, Exists
    <3>4. LiveSessions(k)' \subseteq Sessions /\ LiveSessions(k) \subseteq Sessions
      BY DEF LiveSessions
    <3>5. None \notin Sessions
      BY RepositoryAssumption
    <3> QED
      BY <3>1, <3>2, <3>3, <3>4, <3>5
  <2> QED
    BY <1>1, <1>5, <1>8, <2>1
<1> QED
  BY <1>7, <1>8

----------------------------------------------------------------------------
(* Epochs.                                                                 *)

\* Writing one row of an unchanged Gateway and epoch keeps epochs fenced.
LEMMA EpochsAfterWrite ==
    ASSUME TypeOK, EpochFencing, NEW s \in Sessions, NEW new, RowWrite(s, new),
           \A g \in Gateways : head'[g].lastEpoch = head[g].lastEpoch
    PROVE  EpochFencing'
<1>1. /\ Exists(s) /\ Live(s)
      /\ session'[s] = new
      /\ new # None
      /\ new.gateway = session[s].gateway
      /\ new.epoch = session[s].epoch
      /\ \A x \in Sessions : x # s => session'[x] = session[x]
  BY NoneIsNoRow DEF RowWrite, Live, TypeOK
<1>2. \A x \in Sessions :
        /\ Exists(x)' <=> Exists(x)
        /\ Exists(x) => /\ session[x].gateway \in Gateways
                        /\ session'[x].gateway = session[x].gateway
                        /\ session'[x].epoch = session[x].epoch
        /\ Live(x)' => Live(x)
  BY <1>1 DEF Exists, Live, TypeOK, SessionRow
<1> QED
  BY <1>2 DEF EpochFencing, Live

\* The epoch of an opening is new and the highest.
LEMMA EpochsAfterOpen ==
    ASSUME TypeOK, PointersResolve, EpochFencing, OneLiveSession,
           NEW g \in Gateways, NEW s \in Sessions, NEW generation \in Generations,
           NEW at \in Nat, NEW signed \in BOOLEAN,
           FenceAndInsert(g, s, generation, at, signed)
    PROVE  EpochFencing'
<1> DEFINE c == head[g].current
<1>1. /\ ~Exists(s)
      /\ s # c
      /\ session'[s] = buildActiveSession(g, generation, nextEpoch(g), at,
                                          signed, cursor[g])
      /\ session'[s] \in SessionRow
      /\ \A x \in Sessions : x # s /\ x # c => session'[x] = session[x]
      /\ c # None =>
           /\ c \in Sessions
           /\ session[c] \in SessionRow
           /\ session'[c] = fenceCloudLinkSession(session[c], at)
           /\ session'[c] \in SessionRow
      /\ head'[g] = [lastEpoch |-> nextEpoch(g), current |-> s]
      /\ \A h \in Gateways : h # g => head'[h] = head[h]
  <2> Opened(g, s, generation, at, signed)
    BY FenceAndInsertEffect
  <2> QED
    BY DEF Opened
<1>2. /\ session'[s].gateway = g
      /\ session'[s].epoch = head[g].lastEpoch + 1
      /\ head[g].lastEpoch \in Nat
  <2>1. nextEpoch(g) \in Nat /\ cursor[g] \in Cursors /\ head[g].lastEpoch \in Nat
    BY DEF TypeOK, HeadRow, nextEpoch
  <2> QED
    BY <1>1, <2>1, BuildRow DEF nextEpoch
<1>3. c # None => /\ session'[c].state = "closed"
                  /\ session'[c].gateway = session[c].gateway
                  /\ session'[c].epoch = session[c].epoch
  BY <1>1, FenceRow
<1>4. None \notin Sessions
  BY RepositoryAssumption
<1>5. /\ head'[g].lastEpoch = head[g].lastEpoch + 1
      /\ \A h \in Gateways : h # g => head'[h].lastEpoch = head[h].lastEpoch
  BY <1>1 DEF nextEpoch
<1> HIDE DEF c
<1>6. \A x \in Sessions : x # s =>
        /\ Exists(x)' <=> Exists(x)
        /\ Exists(x) => /\ session[x].gateway \in Gateways
                        /\ session[x].epoch \in Nat
                        /\ session'[x].gateway = session[x].gateway
                        /\ session'[x].epoch = session[x].epoch
                        /\ session[x].epoch \in 1..head[session[x].gateway].lastEpoch
        /\ Live(x)' => Live(x) /\ x # c
  <2> TAKE x \in Sessions
  <2> HAVE x # s
  <2>1. Exists(x) => /\ session[x].gateway \in Gateways
                     /\ session[x].epoch \in Nat
                     /\ session[x].epoch \in 1..head[session[x].gateway].lastEpoch
    BY DEF Exists, TypeOK, SessionRow, EpochFencing
  <2>2. CASE x = c
    BY <1>1, <1>3, <1>4, <2>1, <2>2, NoneIsNoRow DEF Exists, Live
  <2>3. CASE x # c
    BY <1>1, <2>1, <2>3 DEF Exists, Live
  <2> QED
    BY <2>2, <2>3
<1>7. ASSUME NEW x \in Sessions, Exists(x)'
      PROVE  session'[x].epoch \in 1..head'[session'[x].gateway].lastEpoch
  <2>1. CASE x = s
    BY <2>1, <1>2, <1>5
  <2>2. CASE x # s
    <3>1. head[session[x].gateway].lastEpoch \in Nat
      BY <1>6, <1>7, <2>2 DEF TypeOK, HeadRow
    <3>2. head'[session[x].gateway].lastEpoch >= head[session[x].gateway].lastEpoch
      BY <3>1, <1>5, <1>6, <1>7, <2>2
    <3>3. head'[session[x].gateway].lastEpoch \in Nat
      BY <3>1, <1>2, <1>5, <1>6, <1>7, <2>2
    <3> QED
      BY <3>1, <3>2, <3>3, <1>6, <1>7, <2>2
  <2> QED
    BY <2>1, <2>2
<1>8. ASSUME NEW x \in Sessions, NEW y \in Sessions, Exists(x)', Exists(y)', x # y,
             session'[x].gateway = session'[y].gateway
      PROVE  session'[x].epoch # session'[y].epoch
  <2>1. CASE x = s
    BY <2>1, <1>2, <1>6, <1>8
  <2>2. CASE y = s
    BY <2>2, <1>2, <1>6, <1>8
  <2>3. CASE x # s /\ y # s
    BY <2>3, <1>6, <1>8 DEF EpochFencing
  <2> QED
    BY <2>1, <2>2, <2>3
<1>9. ASSUME NEW x \in Sessions, Live(x)'
      PROVE  session'[x].epoch = head'[session'[x].gateway].lastEpoch
  <2>1. CASE x = s
    BY <2>1, <1>2, <1>5
  <2>2. CASE x # s
    <3>1. Live(x) /\ x # c /\ Exists(x)
      BY <1>6, <1>9, <2>2 DEF Live
    <3>2. session[x].gateway # g
      BY <3>1 DEF OneLiveSession, LiveSessions, c
    <3> QED
      BY <3>1, <3>2, <1>5, <1>6, <2>2 DEF EpochFencing
  <2> QED
    BY <2>1, <2>2
<1> QED
  BY <1>7, <1>8, <1>9 DEF EpochFencing

----------------------------------------------------------------------------
(* How a session ended, in its row and in the outbox.                      *)

\* Writing one row that was silent long enough keeps every timeout justified.
LEMMA SilenceAfterWrite ==
    ASSUME TypeOK, ClosedWithReason, SilenceBeforeTimeout,
           NEW s \in Sessions, NEW new, RowWrite(s, new), SilentLongEnough(new),
           new.state # "closed" => new.closeReason = session[s].closeReason
    PROVE  ClosedWithReason' /\ SilenceBeforeTimeout'
<1>1. /\ Exists(s)
      /\ session[s].state # "closed"
      /\ session'[s] = new
      /\ \A x \in Sessions : x # s => session'[x] = session[x]
  BY DEF RowWrite, TypeOK
<1>2. ClosedWithReason'
  BY <1>1 DEF ClosedWithReason, Exists
<1>3. SilenceBeforeTimeout'
  BY <1>1 DEF SilenceBeforeTimeout, Exists
<1> QED
  BY <1>2, <1>3

\* An opening suspects nobody and times nobody out.
LEMMA SilenceAfterOpen ==
    ASSUME TypeOK, PointersResolve, ClosedWithReason, SilenceBeforeTimeout,
           NEW g \in Gateways, NEW s \in Sessions, NEW generation \in Generations,
           NEW at \in Nat, NEW signed \in BOOLEAN,
           FenceAndInsert(g, s, generation, at, signed)
    PROVE  ClosedWithReason' /\ SilenceBeforeTimeout'
<1> DEFINE c == head[g].current
<1>1. /\ session'[s] = buildActiveSession(g, generation, nextEpoch(g), at,
                                          signed, cursor[g])
      /\ \A x \in Sessions : x # s /\ x # c => session'[x] = session[x]
      /\ c # None => /\ session[c] \in SessionRow
                     /\ session'[c] = fenceCloudLinkSession(session[c], at)
  <2> Opened(g, s, generation, at, signed)
    BY FenceAndInsertEffect
  <2> QED
    BY DEF Opened
<1>2. session'[s].state = "active" /\ session'[s].closeReason = None
  <2>1. nextEpoch(g) \in Nat /\ cursor[g] \in Cursors
    BY DEF TypeOK, HeadRow, nextEpoch
  <2> QED
    BY <1>1, <2>1, BuildRow
<1>3. c # None => session'[c].state = "closed" /\ session'[c].closeReason = "fenced"
  BY <1>1, FenceRow
<1>4. \A x \in Sessions : \/ x = s
                          \/ x = c /\ c # None
                          \/ session'[x] = session[x]
  BY <1>1, RepositoryAssumption
<1> HIDE DEF c
<1>5. ClosedWithReason'
  BY <1>2, <1>3, <1>4, NoneAssumption DEF ClosedWithReason, Exists
<1>6. SilenceBeforeTimeout'
  BY <1>2, <1>3, <1>4, NoneAssumption
     DEF SilenceBeforeTimeout, SilentLongEnough, TimedOut, Exists, CloseReasons
<1> QED
  BY <1>5, <1>6

\* A heartbeat's write changes neither a timed-out row nor an event.
LEMMA OutboxAfterHeartbeat ==
    ASSUME TypeOK, ClosedWithReason, OutboxTruthful,
           NEW s \in Sessions, NEW new, RowWrite(s, new),
           new.closeReason = session[s].closeReason, UNCHANGED outbox
    PROVE  OutboxTruthful'
<1>1. /\ Exists(s)
      /\ session[s].closeReason # "heartbeat-timeout"
      /\ session'[s] = new
      /\ \A x \in Sessions : x # s => session'[x] = session[x]
  BY DEF RowWrite, TypeOK, ClosedWithReason, CloseReasons
<1>2. \A x \in Sessions : TimeoutEvents(x)' = TimeoutEvents(x)
  BY DEF TimeoutEvents
<1> QED
  BY <1>1, <1>2 DEF OutboxTruthful, Exists, TimedOut

\* A health write that closes a session publishes its one timeout event, one
\* that suspects it publishes none.
LEMMA OutboxAfterHealth ==
    ASSUME TypeOK, ClosedWithReason, OutboxTruthful,
           NEW s \in Sessions, NEW new, RowWrite(s, new),
           \/ new.state = "suspect" /\ new.closeReason = session[s].closeReason
           \/ new.state = "closed" /\ TimedOut(new),
           outbox' = outbox \cup {[session |-> s, revision |-> new.revision,
                                   event |-> healthEvent(new)]}
    PROVE  OutboxTruthful'
<1> DEFINE event == [session |-> s, revision |-> new.revision,
                     event |-> healthEvent(new)]
<1>1. /\ Exists(s)
      /\ new # None
      /\ session[s].closeReason # "heartbeat-timeout"
      /\ session'[s] = new
      /\ \A x \in Sessions : x # s => session'[x] = session[x]
  BY NoneIsNoRow DEF RowWrite, TypeOK, ClosedWithReason, CloseReasons
<1>2. {e.revision : e \in TimeoutEvents(s)} = {}
  BY <1>1 DEF OutboxTruthful, TimedOut
<1>3. ASSUME NEW x \in Sessions, x # s
      PROVE  TimeoutEvents(x)' = TimeoutEvents(x)
  BY <1>3 DEF TimeoutEvents
<1>4. CASE new.state = "suspect" /\ new.closeReason = session[s].closeReason
  <2>1. event.event = "cloudlink.session.suspected.v1"
    BY <1>4 DEF healthEvent
  <2>2. TimeoutEvents(s)' = TimeoutEvents(s)
    BY <2>1 DEF TimeoutEvents
  <2> QED
    BY <1>1, <1>3, <1>4, <2>2 DEF OutboxTruthful, Exists, TimedOut
<1>5. CASE new.state = "closed" /\ TimedOut(new)
  <2>1. event.event = "cloudlink.session.heartbeat-timed-out.v1"
    BY <1>5 DEF healthEvent
  <2>2. TimeoutEvents(s)' = TimeoutEvents(s) \cup {event}
    BY <2>1 DEF TimeoutEvents
  <2>3. {e.revision : e \in TimeoutEvents(s)'} = {new.revision}
    <3>1. TimeoutEvents(s) = {}
      BY <1>2
    <3>2. TimeoutEvents(s)' = {event} /\ event.revision = new.revision
      BY <2>2, <3>1
    <3> HIDE DEF event
    <3> QED
      BY <3>2
  <2> QED
    BY <1>1, <1>3, <1>5, <2>3 DEF OutboxTruthful, Exists
<1> QED
  BY <1>4, <1>5

\* An opening fences, and fencing is no timeout.
LEMMA OutboxAfterOpen ==
    ASSUME TypeOK, PointersResolve, ClosedWithReason, OutboxTruthful,
           NEW g \in Gateways, NEW s \in Sessions, NEW generation \in Generations,
           NEW at \in Nat, NEW signed \in BOOLEAN,
           FenceAndInsert(g, s, generation, at, signed), UNCHANGED outbox
    PROVE  OutboxTruthful'
<1> DEFINE c == head[g].current
<1>1. /\ ~Exists(s)
      /\ session'[s] = buildActiveSession(g, generation, nextEpoch(g), at,
                                          signed, cursor[g])
      /\ \A x \in Sessions : x # s /\ x # c => session'[x] = session[x]
      /\ c # None => /\ c \in Sessions
                     /\ session[c] \in SessionRow
                     /\ session[c].state # "closed"
                     /\ session'[c] = fenceCloudLinkSession(session[c], at)
  <2> Opened(g, s, generation, at, signed)
    BY FenceAndInsertEffect
  <2> QED
    BY DEF Opened
<1>2. session'[s].closeReason = None
  <2>1. nextEpoch(g) \in Nat /\ cursor[g] \in Cursors
    BY DEF TypeOK, HeadRow, nextEpoch
  <2> QED
    BY <1>1, <2>1, BuildRow
<1>3. c # None => /\ session'[c].closeReason = "fenced"
                  /\ session[c].closeReason # "heartbeat-timeout"
  BY <1>1, FenceRow, NoneIsNoRow DEF ClosedWithReason, Exists, CloseReasons
<1>4. \A x \in Sessions : \/ x = s
                          \/ x = c /\ c # None
                          \/ session'[x] = session[x]
  BY <1>1, RepositoryAssumption
<1>5. \A x \in Sessions : TimeoutEvents(x)' = TimeoutEvents(x)
  BY DEF TimeoutEvents
<1>6. None # "heartbeat-timeout"
  BY NoneAssumption DEF CloseReasons
<1> HIDE DEF c
<1>7. \A x \in Sessions :
        (Exists(x) /\ TimedOut(session[x]))' <=> (Exists(x) /\ TimedOut(session[x]))
  BY <1>1, <1>2, <1>3, <1>4, <1>6 DEF Exists, TimedOut
<1>8. \A x \in Sessions :
        Exists(x) /\ TimedOut(session[x]) => session'[x] = session[x]
  BY <1>1, <1>3, <1>4 DEF TimedOut
<1> QED
  BY <1>5, <1>7, <1>8 DEF OutboxTruthful

----------------------------------------------------------------------------
(* Copies.                                                                 *)

\* A row that exists is kept or gets a greater revision.
RowsAdvance ==
    \A x \in Sessions : Exists(x) =>
        \/ session'[x] = session[x]
        \/ session'[x] \in SessionRow /\ session'[x].revision > session[x].revision

\* Writing one row with a higher revision advances the rows.
LEMMA WriteAdvances ==
    ASSUME TypeOK, NEW s \in Sessions, NEW new, RowWrite(s, new)
    PROVE  RowsAdvance
  BY DEF RowWrite, RowsAdvance, TypeOK, SessionRow

\* An opening advances the rows: the fenced row gets a higher revision.
LEMMA OpenAdvances ==
    ASSUME TypeOK, PointersResolve,
           NEW g \in Gateways, NEW s \in Sessions, NEW generation \in Generations,
           NEW at \in Nat, NEW signed \in BOOLEAN,
           FenceAndInsert(g, s, generation, at, signed)
    PROVE  RowsAdvance
<1>1. Opened(g, s, generation, at, signed)
  BY FenceAndInsertEffect
<1>2. ASSUME head[g].current # None
      PROVE  session'[head[g].current].revision = session[head[g].current].revision + 1
  BY <1>1, <1>2, FenceRow DEF Opened
<1>3. ASSUME NEW x \in Sessions, Exists(x)
      PROVE  \/ session'[x] = session[x]
             \/ session'[x] \in SessionRow /\ session'[x].revision > session[x].revision
  <2>1. x # s
    BY <1>1, <1>3 DEF Opened
  <2>2. CASE x = head[g].current
    <3>1. head[g].current # None
      BY <2>2, RepositoryAssumption
    <3>2. session[x].revision \in Nat
      BY <1>3 DEF Exists, TypeOK, SessionRow
    <3> QED
      BY <1>1, <1>2, <2>2, <3>1, <3>2 DEF Opened
  <2>3. CASE x # head[g].current
    BY <1>1, <2>1, <2>3 DEF Opened
  <2> QED
    BY <2>2, <2>3
<1> QED
  BY <1>3 DEF RowsAdvance

\* A copy of a row stays current, or becomes a stale copy that says so.
LEMMA BeatStaysCurrent ==
    ASSUME TypeOK, RowsAdvance, NEW beat \in PendingHeartbeat,
           CurrentBeat(beat, session[beat.id])
    PROVE  CurrentBeat(beat, session'[beat.id])
<1>1. beat.id \in Sessions /\ beat.expectedRevision \in Nat
  BY DEF PendingHeartbeat
<1>2. Exists(beat.id)
  BY DEF CurrentBeat, Exists
<1>3. CASE session'[beat.id] = session[beat.id]
  BY <1>3
<1>4. CASE /\ session'[beat.id] \in SessionRow
           /\ session'[beat.id].revision > session[beat.id].revision
  <2>1. /\ session[beat.id].revision \in Nat
        /\ session'[beat.id].revision \in Nat
        /\ beat.expectedRevision <= session[beat.id].revision
        /\ session'[beat.id] # None
    BY <1>1, <1>2, <1>4, NoneIsNoRow DEF TypeOK, SessionRow, CurrentBeat, Exists
  <2> QED
    BY <1>1, <1>4, <2>1 DEF CurrentBeat
<1> QED
  BY <1>1, <1>2, <1>3, <1>4 DEF RowsAdvance

\* A sweep's copy of a row stays current, or its revision is behind.
LEMMA CopyStaysCurrent ==
    ASSUME TypeOK, RowsAdvance, NEW s \in Sessions, NEW copy \in SessionRow, NEW at,
           CurrentCopy(copy, at, session[s])
    PROVE  CurrentCopy(copy, at, session'[s])
<1>1. Exists(s) /\ copy.revision \in Nat
  BY DEF CurrentCopy, Exists, SessionRow
<1>2. CASE session'[s] = session[s]
  BY <1>2
<1>3. CASE session'[s] \in SessionRow /\ session'[s].revision > session[s].revision
  <2>1. /\ session[s].revision \in Nat
        /\ session'[s].revision \in Nat
        /\ copy.revision <= session[s].revision
        /\ session'[s] # None
    BY <1>1, <1>3, NoneIsNoRow DEF TypeOK, SessionRow, CurrentCopy, Exists
  <2> QED
    BY <1>1, <1>3, <2>1 DEF CurrentCopy
<1> QED
  BY <1>1, <1>2, <1>3 DEF RowsAdvance

\* When rows only advance, the copies of heartbeats stay current.
LEMMA HeartbeatCopiesKept ==
    ASSUME TypeOK, HeartbeatCopies, RowsAdvance,
           \A h \in Handlers : heartbeats'[h] # None => heartbeats'[h] = heartbeats[h]
    PROVE  HeartbeatCopies'
<1>1. ASSUME NEW h \in Handlers, heartbeats'[h] # None
      PROVE  CurrentBeat(heartbeats'[h], session'[heartbeats'[h].id])
  <2>1. heartbeats'[h] = heartbeats[h] /\ heartbeats[h] \in PendingHeartbeat
    BY <1>1 DEF TypeOK
  <2>2. CurrentBeat(heartbeats[h], session[heartbeats[h].id])
    BY <1>1, <2>1 DEF HeartbeatCopies
  <2> QED
    BY <2>1, <2>2, BeatStaysCurrent
<1> QED
  BY <1>1 DEF HeartbeatCopies

\* No sweep learns of a row.
SweepsShrink ==
    \A w \in Sweepers : sweeps'[w] # None =>
        /\ sweeps[w] # None
        /\ sweeps'[w].evaluatedAt = sweeps[w].evaluatedAt
        /\ \A s \in Sessions :
             sweeps'[w].rows[s] # None => sweeps'[w].rows[s] = sweeps[w].rows[s]

\* When rows only advance, the copies of sweeps stay current.
LEMMA SweepCopiesKept ==
    ASSUME TypeOK, SweepCopies, RowsAdvance, SweepsShrink
    PROVE  SweepCopies'
<1>1. ASSUME NEW w \in Sweepers, NEW s \in Sessions,
             sweeps'[w] # None, sweeps'[w].rows[s] # None
      PROVE  CurrentCopy(sweeps'[w].rows[s], sweeps'[w].evaluatedAt, session'[s])
  <2>1. /\ sweeps[w] # None
        /\ sweeps'[w].evaluatedAt = sweeps[w].evaluatedAt
        /\ sweeps'[w].rows[s] = sweeps[w].rows[s]
    BY <1>1 DEF SweepsShrink
  <2>2. sweeps[w].rows[s] \in SessionRow
    BY <1>1, <2>1 DEF TypeOK, Sweep
  <2>3. CurrentCopy(sweeps[w].rows[s], sweeps[w].evaluatedAt, session[s])
    BY <1>1, <2>1 DEF SweepCopies
  <2> QED
    BY <2>1, <2>2, <2>3, CopyStaysCurrent
<1> QED
  BY <1>1 DEF SweepCopies

\* Taking a row out of a sweep adds no copy.
LEMMA WithoutShrinks ==
    ASSUME TypeOK, NEW w \in Sweepers, NEW s \in Sessions, sweeps[w] # None,
           sweeps' = Without(w, s)
    PROVE  SweepsShrink
<1> DEFINE rest == [sweeps[w].rows EXCEPT ![s] = None]
<1>1. sweeps[w] \in Sweep
  BY DEF TypeOK
<1>2. \A x \in Sessions : rest[x] # None => rest[x] = sweeps[w].rows[x]
  BY <1>1 DEF Sweep
<1>3. \/ sweeps' = [sweeps EXCEPT ![w] = None]
      \/ sweeps' = [sweeps EXCEPT ![w] = [sweeps[w] EXCEPT !.rows = rest]]
  BY DEF Without
<1> HIDE DEF rest
<1>4. CASE sweeps' = [sweeps EXCEPT ![w] = None]
  BY <1>4 DEF SweepsShrink, TypeOK
<1>5. CASE sweeps' = [sweeps EXCEPT ![w] = [sweeps[w] EXCEPT !.rows = rest]]
  <2>1. /\ sweeps'[w].evaluatedAt = sweeps[w].evaluatedAt
        /\ sweeps'[w].rows = rest
    BY <1>1, <1>5 DEF TypeOK, Sweep
  <2>2. \A v \in Sweepers : v # w => sweeps'[v] = sweeps[v]
    BY <1>5 DEF TypeOK
  <2> QED
    BY <1>2, <2>1, <2>2 DEF SweepsShrink
<1> QED
  BY <1>3, <1>4, <1>5

----------------------------------------------------------------------------
(* The step.                                                               *)

\* What a step may never do to a row that exists.
RowsRespected ==
    \A s \in Sessions : Exists(s) =>
        /\ session[s].state = "closed" => session'[s] = session[s]
        /\ Heard(session'[s]) >= Heard(session[s])

\* The last instant a session was heard is an instant.
LEMMA HeardIsNat == ASSUME NEW row \in SessionRow PROVE Heard(row) \in Nat
  BY DEF SessionRow, Heard, Instant

\* A step that leaves rows, heads, events and copies alone keeps the
\* invariant.
LEMMA QuietStep ==
    ASSUME TypeOK, IInv, UNCHANGED <<session, head, outbox>>
    PROVE  /\ OneLiveSession' /\ EpochFencing' /\ ClosedWithReason'
           /\ SilenceBeforeTimeout' /\ OutboxTruthful'
           /\ RowsAdvance /\ RowsRespected
<1> USE DEF IInv
<1>1. OneLiveSession'
  BY DEF OneLiveSession, LiveSessions, Live, Exists
<1>2. EpochFencing'
  BY DEF EpochFencing, Live, Exists
<1>3. ClosedWithReason' /\ SilenceBeforeTimeout'
  BY DEF ClosedWithReason, SilenceBeforeTimeout, Exists
<1>4. OutboxTruthful'
  BY DEF OutboxTruthful, TimeoutEvents, Exists
<1>5. RowsAdvance
  BY DEF RowsAdvance
<1>6. RowsRespected
  BY HeardIsNat DEF RowsRespected, Exists, TypeOK
<1> QED
  BY <1>1, <1>2, <1>3, <1>4, <1>5, <1>6

\* A step that changes neither rows nor copies.
LEMMA IdleStep ==
    ASSUME TypeOK, IInv, HelloCopies',
           UNCHANGED <<session, head, outbox, heartbeats, sweeps>>
    PROVE  IInv' /\ RowsRespected
<1>1. /\ OneLiveSession' /\ EpochFencing' /\ ClosedWithReason'
      /\ SilenceBeforeTimeout' /\ OutboxTruthful'
      /\ RowsAdvance /\ RowsRespected
  BY QuietStep
<1>2. HeartbeatCopies'
  BY <1>1, HeartbeatCopiesKept DEF IInv, CopiesAreCurrent
<1>3. SweepCopies'
  BY <1>1, SweepCopiesKept DEF IInv, CopiesAreCurrent, SweepsShrink
<1> QED
  BY <1>1, <1>2, <1>3 DEF IInv, CopiesAreCurrent

\* An opening, by a request or by a hello, keeps the invariant.
LEMMA OpenStep ==
    ASSUME TypeOK, PointersResolve, IInv, HelloCopies',
           NEW g \in Gateways, NEW s \in Sessions, NEW generation \in Generations,
           NEW at \in Nat, NEW signed \in BOOLEAN,
           FenceAndInsert(g, s, generation, at, signed),
           UNCHANGED <<outbox, heartbeats, sweeps>>
    PROVE  IInv' /\ RowsRespected
<1> USE DEF IInv, CopiesAreCurrent
<1>1. OneLiveSession'
  BY OneLiveAfterOpen
<1>2. EpochFencing'
  BY EpochsAfterOpen
<1>3. ClosedWithReason' /\ SilenceBeforeTimeout'
  BY SilenceAfterOpen
<1>4. OutboxTruthful'
  BY OutboxAfterOpen
<1>5. RowsAdvance
  BY OpenAdvances
<1>6. HeartbeatCopies'
  BY <1>5, HeartbeatCopiesKept
<1>7. SweepCopies'
  BY <1>5, SweepCopiesKept DEF SweepsShrink
<1>8. RowsRespected
  <2>1. Opened(g, s, generation, at, signed)
    BY FenceAndInsertEffect
  <2>2. ASSUME NEW x \in Sessions, Exists(x)
        PROVE  /\ session[x].state = "closed" => session'[x] = session[x]
               /\ Heard(session'[x]) >= Heard(session[x])
    <3>1. session[x] \in SessionRow /\ Heard(session[x]) \in Nat /\ x # s
      BY <2>1, <2>2, HeardIsNat DEF Exists, TypeOK, Opened
    <3>2. CASE x = head[g].current
      <4>1. head[g].current # None
        BY <3>2, RepositoryAssumption
      <4>2. Heard(session'[x]) = Heard(session[x])
        BY <2>1, <3>2, <4>1, FenceRow DEF Opened
      <4> QED
        BY <2>1, <3>1, <3>2, <4>1, <4>2 DEF Opened
    <3>3. CASE x # head[g].current
      BY <2>1, <3>1, <3>3 DEF Opened
    <3> QED
      BY <3>2, <3>3
  <2> QED
    BY <2>2 DEF RowsRespected
<1> QED
  BY <1>1, <1>2, <1>3, <1>4, <1>6, <1>7, <1>8

\* Writing one unclosed row respects closed rows and heartbeats.
LEMMA WriteRespects ==
    ASSUME TypeOK, NEW s \in Sessions, NEW new, RowWrite(s, new),
           Heard(new) >= Heard(session[s])
    PROVE  RowsRespected
<1>1. session[s].state # "closed" /\ session'[s] = new
  BY DEF RowWrite, TypeOK
<1>2. \A x \in Sessions : x # s => session'[x] = session[x]
  BY DEF RowWrite, TypeOK
<1>3. \A x \in Sessions : Exists(x) => Heard(session[x]) \in Nat
  BY HeardIsNat DEF Exists, TypeOK
<1> QED
  BY <1>1, <1>2, <1>3 DEF RowsRespected

\* A heartbeat's write keeps the invariant.
LEMMA HeartbeatReplaceStep ==
    ASSUME TypeOK, IInv, HelloCopies', NEW h \in Handlers, HeartbeatReplace(h)
    PROVE  IInv' /\ RowsRespected
<1> USE DEF IInv, CopiesAreCurrent
<1> DEFINE s   == heartbeats[h].id
           new == heartbeats[h].row
<1>1. /\ s \in Sessions
      /\ RowWrite(s, new)
      /\ new.state = "active"
      /\ new.closeReason = session[s].closeReason
      /\ new.lastHeartbeatAt \in Nat
      /\ new.lastHeartbeatAt >= Heard(session[s])
  BY HeartbeatReplaceEffect
<1>2. UNCHANGED <<head, outbox, sweeps>> /\ heartbeats' = [heartbeats EXCEPT ![h] = None]
  BY DEF HeartbeatReplace
<1> HIDE DEF s, new
<1>3. OneLiveSession'
  BY <1>1, <1>2, OneLiveAfterWrite
<1>4. EpochFencing'
  BY <1>1, <1>2, EpochsAfterWrite
<1>5. ClosedWithReason' /\ SilenceBeforeTimeout'
  <2>1. session[s].closeReason \notin CloseReasons
    BY <1>1 DEF RowWrite, ClosedWithReason
  <2>2. SilentLongEnough(new)
    BY <1>1, <2>1 DEF SilentLongEnough, TimedOut, CloseReasons
  <2> QED
    BY <1>1, <2>2, SilenceAfterWrite
<1>6. OutboxTruthful'
  BY <1>1, <1>2, OutboxAfterHeartbeat
<1>7. RowsAdvance
  BY <1>1, WriteAdvances
<1>8. HeartbeatCopies'
  BY <1>2, <1>7, HeartbeatCopiesKept DEF TypeOK
<1>9. SweepCopies'
  BY <1>2, <1>7, SweepCopiesKept DEF SweepsShrink
<1>10. RowsRespected
  <2>1. Heard(new) = new.lastHeartbeatAt
    BY <1>1, NoneAssumption DEF Heard
  <2> QED
    BY <1>1, <2>1, WriteRespects
<1> QED
  BY <1>3, <1>4, <1>5, <1>6, <1>8, <1>9, <1>10

\* Completing a leased row keeps the invariant.
LEMMA SweepCompleteStep ==
    ASSUME TypeOK, IInv, HelloCopies', NEW w \in Sweepers, NEW s \in Sessions,
           SweepComplete(w, s)
    PROVE  IInv' /\ RowsRespected
<1> USE DEF IInv, CopiesAreCurrent
<1> DEFINE new == healthTransition(session[s], sweeps[w].evaluatedAt)
<1>1. /\ RowWrite(s, new)
      /\ Heard(new) = Heard(session[s])
      /\ SilentLongEnough(new)
      /\ \/ new.state = "suspect" /\ new.closeReason = session[s].closeReason
         \/ new.state = "closed" /\ TimedOut(new)
      /\ outbox' = outbox \cup {[session |-> s, revision |-> new.revision,
                                 event |-> healthEvent(new)]}
      /\ head' = IF new.state = "closed" /\ head[new.gateway].current = s
                 THEN [head EXCEPT ![new.gateway].current = None]
                 ELSE head
  BY SweepCompleteEffect
<1>2. UNCHANGED heartbeats /\ sweeps' = Without(w, s) /\ sweeps[w] # None
  BY DEF SweepComplete
<1> HIDE DEF new
<1>3. OneLiveSession'
  BY <1>1, OneLiveAfterWrite
<1>4. EpochFencing'
  <2>1. \A g \in Gateways : head'[g].lastEpoch = head[g].lastEpoch
    BY <1>1 DEF TypeOK, HeadRow
  <2> QED
    BY <1>1, <2>1, EpochsAfterWrite
<1>5. ClosedWithReason' /\ SilenceBeforeTimeout'
  BY <1>1, SilenceAfterWrite
<1>6. OutboxTruthful'
  BY <1>1, OutboxAfterHealth
<1>7. RowsAdvance
  BY <1>1, WriteAdvances
<1>8. HeartbeatCopies'
  BY <1>2, <1>7, HeartbeatCopiesKept
<1>9. SweepCopies'
  BY <1>2, <1>7, SweepCopiesKept, WithoutShrinks
<1>10. RowsRespected
  <2>1. Heard(session[s]) \in Nat
    BY <1>1, HeardIsNat DEF RowWrite
  <2> QED
    BY <1>1, <2>1, WriteRespects
<1> QED
  BY <1>3, <1>4, <1>5, <1>6, <1>8, <1>9, <1>10

\* A heartbeat's read keeps the invariant: the copy it takes is current.
LEMMA HeartbeatReadStep ==
    ASSUME TypeOK, IInv, HelloCopies',
           NEW h \in Handlers, NEW s \in Sessions, NEW generation \in Generations,
           NEW epoch \in Nat, NEW r \in Requests, NEW observedAt \in Nat,
           HeartbeatRead(h, s, generation, epoch, r, observedAt)
    PROVE  IInv' /\ RowsRespected
<1> USE DEF IInv, CopiesAreCurrent
<1> DEFINE row  == observeCloudLinkHeartbeat(session[s], r, observedAt)
           beat == [id |-> s, expectedRevision |-> session[s].revision, row |-> row]
<1>1. /\ UNCHANGED <<session, head, outbox, sweeps>>
      /\ heartbeats' = [heartbeats EXCEPT ![h] = beat]
      /\ session[s] # None
      /\ CanObserveHeartbeat(session[s], epoch, r, observedAt)
  BY DEF HeartbeatRead
<1>2. /\ OneLiveSession' /\ EpochFencing' /\ ClosedWithReason'
      /\ SilenceBeforeTimeout' /\ OutboxTruthful'
      /\ RowsAdvance /\ RowsRespected
  BY <1>1, QuietStep
<1>3. SweepCopies'
  BY <1>1, <1>2, SweepCopiesKept DEF SweepsShrink
<1>4. session[s] \in SessionRow /\ session[s].revision \in Nat
  BY <1>1 DEF TypeOK, SessionRow
<1>5. /\ row.lastHeartbeatAt = observedAt
      /\ row.lastHeartbeatRequestId = r
  BY <1>4, ObserveRow
<1> HIDE DEF row
<1>6. CurrentBeat(beat, session[s])
  <2>1. row = observeCloudLinkHeartbeat(session[s], row.lastHeartbeatRequestId,
                                        row.lastHeartbeatAt)
    BY <1>5 DEF row
  <2>2. /\ beat.expectedRevision = session[s].revision
        /\ beat.row = row
    OBVIOUS
  <2>3. /\ session[s].state # "closed"
        /\ observedAt >= Heard(session[s])
        /\ observedAt # None
    BY <1>1, NoneAssumption DEF CanObserveHeartbeat
  <2> HIDE DEF beat
  <2> QED
    BY <1>1, <1>4, <1>5, <2>1, <2>2, <2>3 DEF CurrentBeat
<1>7. HeartbeatCopies'
  <2>1. ASSUME NEW k \in Handlers, heartbeats'[k] # None
        PROVE  CurrentBeat(heartbeats'[k], session'[heartbeats'[k].id])
    <3>1. CASE k = h
      <4>1. heartbeats'[k] = beat /\ beat.id = s
        BY <1>1, <3>1 DEF TypeOK
      <4> QED
        BY <1>1, <1>6, <4>1
    <3>2. CASE k # h
      <4>1. heartbeats'[k] = heartbeats[k]
        BY <1>1, <3>2 DEF TypeOK
      <4> QED
        BY <1>1, <2>1, <4>1 DEF HeartbeatCopies
    <3> QED
      BY <3>1, <3>2
  <2> QED
    BY <2>1 DEF HeartbeatCopies
<1> QED
  BY <1>2, <1>3, <1>7

\* A heartbeat that ends without a write keeps the invariant.
LEMMA HeartbeatDropStep ==
    ASSUME TypeOK, IInv, HelloCopies', NEW h \in Handlers, HeartbeatDrop(h)
    PROVE  IInv' /\ RowsRespected
<1> USE DEF IInv, CopiesAreCurrent
<1>1. /\ UNCHANGED <<session, head, outbox, sweeps>>
      /\ heartbeats' = [heartbeats EXCEPT ![h] = None]
  BY DEF HeartbeatDrop
<1>2. /\ OneLiveSession' /\ EpochFencing' /\ ClosedWithReason'
      /\ SilenceBeforeTimeout' /\ OutboxTruthful'
      /\ RowsAdvance /\ RowsRespected
  BY <1>1, QuietStep
<1>3. SweepCopies'
  BY <1>1, <1>2, SweepCopiesKept DEF SweepsShrink
<1>4. HeartbeatCopies'
  BY <1>1, <1>2, HeartbeatCopiesKept DEF TypeOK
<1> QED
  BY <1>2, <1>3, <1>4

\* Leasing due rows keeps the invariant: the copies taken are current.
LEMMA LeaseDueStep ==
    ASSUME TypeOK, IInv, HelloCopies',
           NEW w \in Sweepers, NEW at \in RecentInstants, NEW leased \in SUBSET Sessions,
           leaseDue(w, at, leased)
    PROVE  IInv' /\ RowsRespected
<1> USE DEF IInv, CopiesAreCurrent
<1> DEFINE rows  == [s \in Sessions |-> IF s \in leased THEN session[s] ELSE None]
           sweep == [evaluatedAt |-> at, rows |-> rows]
<1>1. /\ UNCHANGED <<session, head, outbox, heartbeats>>
      /\ sweeps' = [sweeps EXCEPT ![w] = sweep]
      /\ leased \subseteq Due(at)
  BY DEF leaseDue
<1>2. /\ OneLiveSession' /\ EpochFencing' /\ ClosedWithReason'
      /\ SilenceBeforeTimeout' /\ OutboxTruthful'
      /\ RowsAdvance /\ RowsRespected
  BY <1>1, QuietStep
<1>3. HeartbeatCopies'
  BY <1>1, <1>2, HeartbeatCopiesKept
<1>4. ASSUME NEW s \in Sessions, rows[s] # None
      PROVE  CurrentCopy(rows[s], at, session[s])
  <2>1. s \in Due(at) /\ rows[s] = session[s]
    BY <1>1, <1>4
  <2>2. /\ session[s] # None
        /\ session[s].state # "closed"
        /\ at > Baseline(session[s]) + Grace
    BY <2>1 DEF Due
  <2>3. session[s].revision \in Nat
    BY <2>2 DEF TypeOK, SessionRow
  <2> HIDE DEF rows
  <2> QED
    BY <2>1, <2>2, <2>3 DEF CurrentCopy
<1> HIDE DEF rows
<1>5. SweepCopies'
  <2>1. ASSUME NEW v \in Sweepers, NEW s \in Sessions,
               sweeps'[v] # None, sweeps'[v].rows[s] # None
        PROVE  CurrentCopy(sweeps'[v].rows[s], sweeps'[v].evaluatedAt, session'[s])
    <3>1. CASE v = w
      <4>1. sweeps'[v].rows = rows /\ sweeps'[v].evaluatedAt = at
        BY <1>1, <3>1 DEF TypeOK
      <4> QED
        BY <1>1, <1>4, <2>1, <4>1
    <3>2. CASE v # w
      <4>1. sweeps'[v] = sweeps[v]
        BY <1>1, <3>2 DEF TypeOK
      <4> QED
        BY <1>1, <2>1, <4>1 DEF SweepCopies
    <3> QED
      BY <3>1, <3>2
  <2> QED
    BY <2>1 DEF SweepCopies
<1> QED
  BY <1>2, <1>3, <1>5

\* Skipping a row whose lease is lost keeps the invariant.
LEMMA SweepLeaseLostStep ==
    ASSUME TypeOK, IInv, HelloCopies', NEW w \in Sweepers, NEW s \in Sessions,
           SweepLeaseLost(w, s)
    PROVE  IInv' /\ RowsRespected
<1> USE DEF IInv, CopiesAreCurrent
<1>1. /\ UNCHANGED <<session, head, outbox, heartbeats>>
      /\ SweepsShrink
  BY WithoutShrinks DEF SweepLeaseLost
<1>2. /\ OneLiveSession' /\ EpochFencing' /\ ClosedWithReason'
      /\ SilenceBeforeTimeout' /\ OutboxTruthful'
      /\ RowsAdvance /\ RowsRespected
  BY <1>1, QuietStep
<1>3. HeartbeatCopies' /\ SweepCopies'
  BY <1>1, <1>2, HeartbeatCopiesKept, SweepCopiesKept
<1> QED
  BY <1>2, <1>3

\* A sweep that ends early keeps the invariant.
LEMMA SweepAbortStep ==
    ASSUME TypeOK, IInv, HelloCopies', NEW w \in Sweepers, SweepAbort(w)
    PROVE  IInv' /\ RowsRespected
<1> USE DEF IInv, CopiesAreCurrent
<1>1. /\ UNCHANGED <<session, head, outbox, heartbeats>>
      /\ SweepsShrink
  BY DEF SweepAbort, SweepsShrink, TypeOK
<1>2. /\ OneLiveSession' /\ EpochFencing' /\ ClosedWithReason'
      /\ SilenceBeforeTimeout' /\ OutboxTruthful'
      /\ RowsAdvance /\ RowsRespected
  BY <1>1, QuietStep
<1>3. HeartbeatCopies' /\ SweepCopies'
  BY <1>1, <1>2, HeartbeatCopiesKept, SweepCopiesKept
<1> QED
  BY <1>2, <1>3

\* The empty database satisfies the safety part of the invariant.
LEMMA SafetyInit == Init => IInv
<1> SUFFICES ASSUME Init PROVE IInv
  OBVIOUS
<1> USE DEF Init, RepositoryInit, ChallengeInit
<1>1. OneLiveSession
  BY DEF OneLiveSession, LiveSessions, Live, Exists
<1>2. EpochFencing
  BY DEF EpochFencing, Live, Exists
<1>3. ClosedWithReason /\ SilenceBeforeTimeout
  BY DEF ClosedWithReason, SilenceBeforeTimeout, Exists
<1>4. OutboxTruthful
  BY DEF OutboxTruthful, TimeoutEvents, Exists
<1>5. CopiesAreCurrent
  BY DEF CopiesAreCurrent, HeartbeatCopies, SweepCopies, HelloCopies
<1> QED
  BY <1>1, <1>2, <1>3, <1>4, <1>5 DEF IInv

Inv == TypeOK /\ PointersResolve /\ IInv

\* The empty database satisfies the inductive invariant.
LEMMA InvInit == Init => Inv
  BY TypeInit, SafetyInit DEF Inv

\* Every step keeps the inductive invariant, closed rows and heartbeats.
LEMMA InvNext == Inv /\ [Next]_vars => Inv' /\ RowsRespected
<1> SUFFICES ASSUME Inv, [Next]_vars PROVE Inv' /\ RowsRespected
  OBVIOUS
<1>1. TypeOK /\ PointersResolve /\ IInv
  BY DEF Inv
<1>2. TypeOK' /\ PointersResolve'
  BY <1>1, TypeNext
<1>3. HelloCopies'
  BY <1>2 DEF PointersResolve, HelloCopies
<1>4. MaxTime + Interval \in Nat /\ MaxEpoch \in Nat
  BY RepositoryAssumption, IntervalAssumption
<1> SUFFICES IInv' /\ RowsRespected
  BY <1>2 DEF Inv
<1>5. CASE Tick
  BY <1>1, <1>3, <1>5, IdleStep DEF Tick
<1>6. ASSUME NEW g \in Gateways, NEW r \in Requests, NEW s \in Sessions,
             NEW generation \in Generations, NEW at \in RecentInstants,
             Open(g, r, s, generation, at)
      PROVE  IInv' /\ RowsRespected
  <2>1. /\ at \in Nat
        /\ FenceAndInsert(g, s, generation, at, FALSE)
        /\ UNCHANGED <<outbox, heartbeats, sweeps>>
    BY <1>1, <1>6, InstantsAreNat DEF Open
  <2> QED
    BY <1>1, <1>3, <2>1, OpenStep
<1>7. CASE HeartbeatNext
  <2>1. ASSUME NEW h \in Handlers, NEW s \in Sessions, NEW generation \in Generations,
               NEW epoch \in 1..MaxEpoch, NEW r \in Requests,
               NEW observedAt \in 0..(MaxTime + Interval),
               HeartbeatRead(h, s, generation, epoch, r, observedAt)
        PROVE  IInv' /\ RowsRespected
    BY <1>1, <1>3, <1>4, <2>1, HeartbeatReadStep
  <2>2. ASSUME NEW h \in Handlers, HeartbeatReplace(h)
        PROVE  IInv' /\ RowsRespected
    BY <1>1, <1>3, <2>2, HeartbeatReplaceStep
  <2>3. ASSUME NEW h \in Handlers, HeartbeatDrop(h)
        PROVE  IInv' /\ RowsRespected
    BY <1>1, <1>3, <2>3, HeartbeatDropStep
  <2> QED
    BY <1>7, <2>1, <2>2, <2>3 DEF HeartbeatNext
<1>8. CASE SweepNext
  <2>1. ASSUME NEW w \in Sweepers, NEW at \in RecentInstants,
               NEW leased \in SUBSET Sessions, leaseDue(w, at, leased)
        PROVE  IInv' /\ RowsRespected
    BY <1>1, <1>3, <2>1, LeaseDueStep
  <2>2. ASSUME NEW w \in Sweepers, NEW s \in Sessions, SweepComplete(w, s)
        PROVE  IInv' /\ RowsRespected
    BY <1>1, <1>3, <2>2, SweepCompleteStep
  <2>3. ASSUME NEW w \in Sweepers, NEW s \in Sessions, SweepLeaseLost(w, s)
        PROVE  IInv' /\ RowsRespected
    BY <1>1, <1>3, <2>3, SweepLeaseLostStep
  <2>4. ASSUME NEW w \in Sweepers, SweepAbort(w)
        PROVE  IInv' /\ RowsRespected
    BY <1>1, <1>3, <2>4, SweepAbortStep
  <2> QED
    BY <1>8, <2>1, <2>2, <2>3, <2>4 DEF SweepNext
<1>9. CASE CursorNext
  <2>1. UNCHANGED <<session, head, outbox, heartbeats, sweeps>>
    BY <1>9 DEF CursorNext, recordDurableCursor
  <2> QED
    BY <1>1, <1>3, <2>1, IdleStep
<1>10. CASE IssueNext
  <2>1. UNCHANGED <<session, head, outbox, heartbeats, sweeps>>
    BY <1>10 DEF IssueNext, issue, IssueAgain, repositoryVars
  <2> QED
    BY <1>1, <1>3, <2>1, IdleStep
<1>11. ASSUME NEW a \in Acceptors, NEW s \in Sessions, NEW openedAt \in RecentInstants,
              acceptAndOpen(a, s, openedAt)
       PROVE  IInv' /\ RowsRespected
  <2> DEFINE g == challenge[hellos[a].challenge].gateway
  <2>1. /\ hellos[a] \in PendingHello
        /\ hellos[a].challenge \in Challenges
        /\ hellos[a].generation \in Generations
    BY <1>1, <1>11 DEF acceptAndOpen, TypeOK, PendingHello
  <2>2. g \in Gateways
    BY <1>1, <1>11, <2>1 DEF acceptAndOpen, PointersResolve, TypeOK, ChallengeRow
  <2>3. /\ openedAt \in Nat
        /\ FenceAndInsert(g, s, hellos[a].generation, openedAt, TRUE)
        /\ UNCHANGED <<outbox, heartbeats, sweeps>>
    BY <1>1, <1>11, InstantsAreNat DEF acceptAndOpen
  <2> HIDE DEF g
  <2> QED
    BY <1>1, <1>3, <2>1, <2>2, <2>3, OpenStep
<1>12. ASSUME NEW a \in Acceptors,
              \/ HelloDrop(a)
              \/ \E c \in Challenges, generation \in Generations, q \in HelloStates,
                    f \in Fingerprints : AcceptHello(a, c, generation, q, f)
       PROVE  IInv' /\ RowsRespected
  <2>1. UNCHANGED <<session, head, outbox, heartbeats, sweeps>>
    BY <1>12 DEF HelloDrop, AcceptHello, repositoryVars
  <2> QED
    BY <1>1, <1>3, <2>1, IdleStep
<1>13. CASE UNCHANGED vars
  BY <1>1, <1>3, <1>13, IdleStep DEF vars, repositoryVars
<1>14. CASE RepositoryNext
  BY <1>14, <1>5, <1>6, <1>7, <1>8, <1>9 DEF RepositoryNext, OpenNext
<1>15. CASE ChallengeNext
  BY <1>15, <1>10, <1>11, <1>12 DEF ChallengeNext, HelloNext
<1> QED
  BY <1>13, <1>14, <1>15 DEF Next

\* The inductive invariant holds in every reachable state.
LEMMA InvHolds == Spec => []Inv
<1>1. Inv /\ [Next]_vars => Inv'
  BY InvNext
<1> QED
  BY InvInit, <1>1, PTL DEF Spec

----------------------------------------------------------------------------
(* What every step leaves of the openings.                                 *)

\* No session is opened or forgotten, and no row forgets its opening.
KeepsOpening(x) ==
    /\ Exists(x)' <=> Exists(x)
    /\ Exists(x) => SameOpening(session[x], session'[x])
OldRows == \A x \in Sessions : KeepsOpening(x)

\* One session is opened, at the position and one past the epoch its Gateway
\* has reached; the other rows keep their openings.
NewRow(g, s, generation, at, signed) ==
    /\ ~Exists(s)
    /\ Exists(s)'
    /\ session'[s].gateway = g
    /\ session'[s].generation = generation
    /\ session'[s].epoch = head[g].lastEpoch + 1
    /\ session'[s].signed = signed
    /\ session'[s].openedAt = at
    /\ session'[s].resumeCursors = cursor[g]
    /\ \A x \in Sessions : x # s => KeepsOpening(x)

\* A row that is not written keeps its opening.
LEMMA UnwrittenKeeps ==
    ASSUME NEW x \in Sessions, session'[x] = session[x]
    PROVE  KeepsOpening(x)
  BY DEF KeepsOpening, SameOpening, Exists

\* The two writers of existing rows keep every opening.
LEMMA WriteKeepsOpenings ==
    ASSUME TypeOK, NEW s \in Sessions, NEW new, RowWrite(s, new)
    PROVE  OldRows
<1>1. /\ Exists(s)
      /\ new \in SessionRow
      /\ SameOpening(session[s], new)
      /\ session'[s] = new
      /\ \A x \in Sessions : x # s => session'[x] = session[x]
  BY DEF RowWrite, TypeOK
<1>2. KeepsOpening(s)
  BY <1>1, NoneIsNoRow DEF KeepsOpening, Exists
<1>3. \A x \in Sessions : x # s => KeepsOpening(x)
  BY <1>1, UnwrittenKeeps
<1> QED
  BY <1>2, <1>3 DEF OldRows

\* An opening adds its row and keeps the openings of the others.
LEMMA OpenAddsRow ==
    ASSUME TypeOK, PointersResolve,
           NEW g \in Gateways, NEW s \in Sessions, NEW generation \in Generations,
           NEW at \in Nat, NEW signed \in BOOLEAN,
           FenceAndInsert(g, s, generation, at, signed)
    PROVE  NewRow(g, s, generation, at, signed)
<1> DEFINE c == head[g].current
<1>1. /\ ~Exists(s)
      /\ s # c
      /\ session'[s] = buildActiveSession(g, generation, nextEpoch(g), at,
                                          signed, cursor[g])
      /\ session'[s] \in SessionRow
      /\ \A x \in Sessions : x # s /\ x # c => session'[x] = session[x]
      /\ c # None =>
           /\ c \in Sessions
           /\ session[c] \in SessionRow
           /\ session'[c] = fenceCloudLinkSession(session[c], at)
           /\ session'[c] \in SessionRow
  <2> Opened(g, s, generation, at, signed)
    BY FenceAndInsertEffect
  <2> QED
    BY DEF Opened
<1>2. /\ session'[s].gateway = g
      /\ session'[s].generation = generation
      /\ session'[s].epoch = head[g].lastEpoch + 1
      /\ session'[s].signed = signed
      /\ session'[s].openedAt = at
      /\ session'[s].resumeCursors = cursor[g]
  <2>1. nextEpoch(g) \in Nat /\ cursor[g] \in Cursors
    BY DEF TypeOK, HeadRow, nextEpoch
  <2> QED
    BY <1>1, <2>1, BuildRow DEF nextEpoch
<1>3. Exists(s)'
  BY <1>1, NoneIsNoRow DEF Exists
<1> HIDE DEF c
<1>4. ASSUME NEW x \in Sessions, x # s PROVE KeepsOpening(x)
  <2>1. CASE x = c
    <3>1. c # None
      BY <2>1, RepositoryAssumption
    <3>2. /\ session'[c].gateway = session[c].gateway
          /\ session'[c].generation = session[c].generation
          /\ session'[c].epoch = session[c].epoch
          /\ session'[c].signed = session[c].signed
          /\ session'[c].openedAt = session[c].openedAt
          /\ session'[c].resumeCursors = session[c].resumeCursors
      BY <1>1, <3>1, FenceRow
    <3>3. session[c] # None /\ session'[c] # None
      BY <1>1, <3>1, NoneIsNoRow
    <3> QED
      BY <2>1, <3>2, <3>3 DEF KeepsOpening, SameOpening, Exists
  <2>2. CASE x # c
    BY <1>1, <1>4, <2>2, UnwrittenKeeps
  <2> QED
    BY <2>1, <2>2
<1> QED
  BY <1>1, <1>2, <1>3, <1>4 DEF NewRow

\* What a hello in flight names.
LEMMA HelloResolves ==
    ASSUME TypeOK, PointersResolve, NEW a \in Acceptors, hellos[a] # None
    PROVE  /\ hellos[a] \in PendingHello
           /\ hellos[a].challenge \in Challenges
           /\ hellos[a].generation \in Generations
           /\ hellos[a].fingerprint \in Fingerprints
           /\ hellos[a].evaluatedAt \in Nat
           /\ challenge[hellos[a].challenge] # None
           /\ challenge[hellos[a].challenge] \in ChallengeRow
           /\ challenge[hellos[a].challenge].gateway \in Gateways
<1>1. /\ hellos[a] \in PendingHello
      /\ challenge[hellos[a].challenge] # None
  BY DEF TypeOK, PointersResolve
<1>2. /\ hellos[a].challenge \in Challenges
      /\ hellos[a].generation \in Generations
      /\ hellos[a].fingerprint \in Fingerprints
      /\ hellos[a].evaluatedAt \in Nat
  BY <1>1 DEF PendingHello, Instant
<1>3. challenge[hellos[a].challenge] \in ChallengeRow
  BY <1>1, <1>2 DEF TypeOK
<1>4. challenge[hellos[a].challenge].gateway \in Gateways
  BY <1>3 DEF ChallengeRow
<1> QED
  BY <1>1, <1>2, <1>3, <1>4

\* Accepting a hello adds the signed row of its challenge's Gateway.
LEMMA AcceptAddsRow ==
    ASSUME TypeOK, PointersResolve,
           NEW a \in Acceptors, NEW s \in Sessions, NEW openedAt \in RecentInstants,
           acceptAndOpen(a, s, openedAt)
    PROVE  NewRow(challenge[hellos[a].challenge].gateway, s, hellos[a].generation,
                  openedAt, TRUE)
<1> DEFINE g == challenge[hellos[a].challenge].gateway
<1>1. g \in Gateways /\ hellos[a].generation \in Generations
  BY HelloResolves DEF acceptAndOpen
<1>2. openedAt \in Nat
  BY InstantsAreNat
<1>3. FenceAndInsert(g, s, hellos[a].generation, openedAt, TRUE)
  BY DEF acceptAndOpen
<1> HIDE DEF g
<1>4. NewRow(g, s, hellos[a].generation, openedAt, TRUE)
  BY <1>1, <1>2, <1>3, OpenAddsRow
<1> QED
  BY <1>4 DEF g

\* A step of the repository opens an unsigned session or keeps the openings.
LEMMA RepositoryShape ==
    ASSUME Inv, RepositoryNext
    PROVE  \/ OldRows /\ UNCHANGED cursor /\ now' >= now
           \/ OldRows /\ CursorNext /\ UNCHANGED now
           \/ \E g \in Gateways, s \in Sessions, generation \in Generations, at \in Nat :
                 NewRow(g, s, generation, at, FALSE) /\ UNCHANGED <<cursor, now>>
<1>1. /\ TypeOK /\ PointersResolve /\ CopiesAreCurrent
      /\ ClosedWithReason /\ SilenceBeforeTimeout
      /\ now \in Nat
  BY DEF Inv, IInv, TypeOK, Instant
<1>2. UNCHANGED session => OldRows
  BY UnwrittenKeeps DEF OldRows
<1>3. CASE Tick
  <2>1. UNCHANGED session /\ UNCHANGED cursor /\ now' = now + 1
    BY <1>3 DEF Tick
  <2>2. OldRows
    BY <1>2, <2>1
  <2>3. now' >= now
    BY <1>1, <2>1
  <2> QED
    BY <2>1, <2>2, <2>3
<1>4. CASE OpenNext
  <2>1. PICK g \in Gateways, r \in Requests, s \in Sessions,
             generation \in Generations, at \in RecentInstants :
               Open(g, r, s, generation, at)
    BY <1>4 DEF OpenNext
  <2>2. /\ at \in Nat
        /\ FenceAndInsert(g, s, generation, at, FALSE)
        /\ UNCHANGED <<cursor, now>>
    BY <1>1, <2>1, InstantsAreNat DEF Open
  <2>3. NewRow(g, s, generation, at, FALSE)
    BY <1>1, <2>2, OpenAddsRow
  <2> QED
    BY <2>2, <2>3
<1>5. CASE HeartbeatNext
  <2>1. UNCHANGED <<cursor, now>>
    BY <1>5 DEF HeartbeatNext, HeartbeatRead, HeartbeatReplace, HeartbeatDrop
  <2>2. OldRows
    <3>1. CASE \E h \in Handlers : HeartbeatReplace(h)
      BY <1>1, <3>1, HeartbeatReplaceEffect, WriteKeepsOpenings
    <3>2. CASE ~\E h \in Handlers : HeartbeatReplace(h)
      BY <1>2, <1>5, <3>2 DEF HeartbeatNext, HeartbeatRead, HeartbeatDrop
    <3> QED
      BY <3>1, <3>2
  <2> QED
    BY <1>1, <2>1, <2>2
<1>6. CASE SweepNext
  <2>1. UNCHANGED <<cursor, now>>
    BY <1>6 DEF SweepNext, leaseDue, SweepComplete, SweepLeaseLost, SweepAbort
  <2>2. OldRows
    <3>1. CASE \E w \in Sweepers, s \in Sessions : SweepComplete(w, s)
      BY <1>1, <3>1, SweepCompleteEffect, WriteKeepsOpenings
    <3>2. CASE ~\E w \in Sweepers, s \in Sessions : SweepComplete(w, s)
      BY <1>2, <1>6, <3>2 DEF SweepNext, leaseDue, SweepLeaseLost, SweepAbort
    <3> QED
      BY <3>1, <3>2
  <2> QED
    BY <1>1, <2>1, <2>2
<1>7. CASE CursorNext
  BY <1>2, <1>7 DEF CursorNext, recordDurableCursor
<1> QED
  BY <1>3, <1>4, <1>5, <1>6, <1>7 DEF RepositoryNext

----------------------------------------------------------------------------
(* Stream positions.                                                       *)

\* Keeping the openings and moving positions only forward keeps the order of
\* the resume positions.
LEMMA ResumeKept ==
    ASSUME TypeOK, ResumeMonotone, OldRows,
           \A g \in Gateways, st \in Streams :
              /\ cursor[g][st] \in Nat
              /\ cursor'[g][st] \in Nat
              /\ cursor'[g][st] >= cursor[g][st]
    PROVE  ResumeMonotone'
<1>1. ASSUME NEW s \in Sessions, NEW st \in Streams, Exists(s)
      PROVE  session[s].gateway \in Gateways /\ session[s].resumeCursors[st] \in Nat
  BY <1>1 DEF Exists, TypeOK, SessionRow, Cursors
<1>2. \A x \in Sessions :
        /\ Exists(x)' => Exists(x)
        /\ Exists(x) => /\ session'[x].gateway = session[x].gateway
                        /\ session'[x].epoch = session[x].epoch
                        /\ session'[x].resumeCursors = session[x].resumeCursors
  BY DEF OldRows, KeepsOpening, SameOpening
<1>3. ASSUME NEW s \in Sessions, NEW st \in Streams, Exists(s)'
      PROVE  session'[s].resumeCursors[st] <= cursor'[session'[s].gateway][st]
  <2>1. session[s].resumeCursors[st] <= cursor[session[s].gateway][st]
    BY <1>2, <1>3 DEF ResumeMonotone
  <2> QED
    BY <1>1, <1>2, <1>3, <2>1
<1>4. ASSUME NEW s \in Sessions, NEW st \in Streams, Exists(s)',
             NEW t \in Sessions, Exists(t)',
             session'[t].gateway = session'[s].gateway,
             session'[t].epoch < session'[s].epoch
      PROVE  session'[t].resumeCursors[st] <= session'[s].resumeCursors[st]
  BY <1>2, <1>4 DEF ResumeMonotone
<1> QED
  BY <1>3, <1>4 DEF ResumeMonotone

\* A new session has the highest epoch and the highest positions.
LEMMA ResumeAfterOpen ==
    ASSUME TypeOK, EpochFencing, ResumeMonotone, UNCHANGED cursor,
           NEW g \in Gateways, NEW s \in Sessions, NEW generation, NEW at, NEW signed,
           NewRow(g, s, generation, at, signed)
    PROVE  ResumeMonotone'
<1>1. /\ Exists(s)'
      /\ session'[s].gateway = g
      /\ session'[s].epoch = head[g].lastEpoch + 1
      /\ session'[s].resumeCursors = cursor[g]
      /\ head[g].lastEpoch \in Nat
      /\ \A st \in Streams : cursor[g][st] \in Nat
  BY DEF NewRow, TypeOK, HeadRow, Cursors
<1>2. \A x \in Sessions : x # s =>
        /\ Exists(x)' => Exists(x)
        /\ Exists(x) => /\ session'[x].gateway = session[x].gateway
                        /\ session'[x].epoch = session[x].epoch
                        /\ session'[x].resumeCursors = session[x].resumeCursors
  BY DEF NewRow, KeepsOpening, SameOpening
<1>3. \A x \in Sessions : Exists(x) =>
        session[x].epoch \in 1..head[session[x].gateway].lastEpoch
  BY DEF EpochFencing
<1>4. ASSUME NEW x \in Sessions, NEW st \in Streams, Exists(x)'
      PROVE  session'[x].resumeCursors[st] <= cursor'[session'[x].gateway][st]
  <2>1. CASE x = s
    BY <1>1, <2>1
  <2>2. CASE x # s
    BY <1>2, <1>4, <2>2 DEF ResumeMonotone
  <2> QED
    BY <2>1, <2>2
<1>5. ASSUME NEW x \in Sessions, NEW st \in Streams, Exists(x)',
             NEW t \in Sessions, Exists(t)',
             session'[t].gateway = session'[x].gateway,
             session'[t].epoch < session'[x].epoch
      PROVE  session'[t].resumeCursors[st] <= session'[x].resumeCursors[st]
  <2>1. CASE x = s /\ t # s
    BY <1>1, <1>2, <1>5, <2>1 DEF ResumeMonotone
  <2>2. CASE t = s
    <3>1. CASE x = s
      BY <1>1, <1>5, <2>2, <3>1
    <3>2. CASE x # s
      <4>1. session[x].epoch \in 1..head[g].lastEpoch
        BY <1>1, <1>2, <1>3, <1>5, <2>2, <3>2
      <4> QED
        BY <1>1, <1>2, <1>5, <2>2, <3>2, <4>1
    <3> QED
      BY <3>1, <3>2
  <2>3. CASE x # s /\ t # s
    BY <1>2, <1>5, <2>3 DEF ResumeMonotone
  <2> QED
    BY <2>1, <2>2, <2>3
<1> QED
  BY <1>4, <1>5 DEF ResumeMonotone

\* Every step keeps the order of the resume positions.
LEMMA ResumeNext == Inv /\ ResumeMonotone /\ [Next]_vars => ResumeMonotone'
<1> SUFFICES ASSUME Inv, ResumeMonotone, [Next]_vars PROVE ResumeMonotone'
  OBVIOUS
<1>1. TypeOK /\ PointersResolve /\ EpochFencing
  BY DEF Inv, IInv
<1>2. \A g \in Gateways, st \in Streams : cursor[g][st] \in Nat
  BY <1>1 DEF TypeOK, Cursors
<1>3. OldRows /\ UNCHANGED cursor => ResumeMonotone'
  BY <1>1, <1>2, ResumeKept
<1>4. CASE RepositoryNext
  <2>1. CASE OldRows /\ CursorNext
    <3>1. PICK s \in Sessions, generation \in Generations, epoch \in 1..MaxEpoch,
               st \in Streams, position \in 1..MaxPosition :
                 recordDurableCursor(s, generation, epoch, st, position)
      BY <2>1 DEF CursorNext
    <3>2. session[s].gateway \in Gateways
      BY <1>1, <3>1 DEF recordDurableCursor, TypeOK, SessionRow
    <3>3. \A g \in Gateways, x \in Streams :
             cursor'[g][x] \in {cursor[g][x], cursor[g][x] + 1}
      BY <1>1, <3>1, <3>2 DEF recordDurableCursor, TypeOK, Cursors
    <3> QED
      BY <1>1, <1>2, <2>1, <3>3, ResumeKept
  <2>2. CASE \E g \in Gateways, s \in Sessions, generation \in Generations, at \in Nat :
               NewRow(g, s, generation, at, FALSE) /\ UNCHANGED <<cursor, now>>
    BY <1>1, <2>2, ResumeAfterOpen
  <2> QED
    BY <1>3, <1>4, <2>1, <2>2, RepositoryShape
<1>5. CASE ChallengeNext
  <2>1. CASE \E a \in Acceptors, s \in Sessions, openedAt \in RecentInstants :
               acceptAndOpen(a, s, openedAt)
    <3>1. PICK a \in Acceptors, s \in Sessions, openedAt \in RecentInstants :
               acceptAndOpen(a, s, openedAt)
      BY <2>1
    <3>2. UNCHANGED cursor
      BY <3>1 DEF acceptAndOpen
    <3>3. NewRow(challenge[hellos[a].challenge].gateway, s, hellos[a].generation,
                 openedAt, TRUE)
      BY <1>1, <3>1, AcceptAddsRow
    <3>4. challenge[hellos[a].challenge].gateway \in Gateways
      BY <1>1, <3>1, HelloResolves DEF acceptAndOpen
    <3> QED
      BY <1>1, <3>2, <3>3, <3>4, ResumeAfterOpen
  <2>2. CASE ~\E a \in Acceptors, s \in Sessions, openedAt \in RecentInstants :
               acceptAndOpen(a, s, openedAt)
    <3>1. UNCHANGED <<session, cursor>>
      BY <1>5, <2>2 DEF ChallengeNext, IssueNext, HelloNext, issue, IssueAgain,
                        AcceptHello, HelloDrop, repositoryVars
    <3> QED
      BY <1>3, <3>1, UnwrittenKeeps DEF OldRows
  <2> QED
    BY <2>1, <2>2
<1>6. CASE UNCHANGED vars
  <2>1. UNCHANGED <<session, cursor>>
    BY <1>6 DEF vars, repositoryVars
  <2> QED
    BY <1>3, <2>1, UnwrittenKeeps DEF OldRows
<1> QED
  BY <1>4, <1>5, <1>6 DEF Next

----------------------------------------------------------------------------
(* The handshake.                                                          *)

\* The three columns of a consumption are written together, and never before
\* the challenge was issued.
ConsumedWhole(row) ==
    /\ row.session = None <=> row.consumedAt = None
    /\ row.fingerprint = None <=> row.consumedAt = None
    /\ row.issuedAt <= now

\* A consumed challenge and the session it names agree.
OpenedFor(row, opened) ==
    /\ row.supersededAt = None
    /\ row.consumedAt \in row.issuedAt..(row.expiresAt - 1)
    /\ opened # None
    /\ opened.signed
    /\ opened.gateway = row.gateway
    /\ opened.generation = row.generation
    /\ row.consumedAt <= opened.openedAt

ChallengeRows ==
    \A c \in Challenges : challenge[c] # None =>
        /\ ConsumedWhole(challenge[c])
        /\ challenge[c].consumedAt # None =>
             /\ challenge[c].session \in Sessions
             /\ OpenedFor(challenge[c], session[challenge[c].session])

OneChallengeEach ==
    \A c, d \in Challenges :
        /\ challenge[c] # None /\ challenge[d] # None
        /\ challenge[c].session # None
        /\ challenge[c].session = challenge[d].session
        => c = d

SignedByChallenge ==
    \A s \in Sessions :
        Exists(s) /\ session[s].signed =>
            \E c \in Challenges : challenge[c] # None /\ challenge[c].session = s

\* A hello is verified after its challenge was issued.
HelloAfterIssue ==
    \A a \in Acceptors :
        hellos[a] # None =>
            /\ challenge[hellos[a].challenge] # None
            /\ hellos[a].evaluatedAt >= challenge[hellos[a].challenge].issuedAt

HandshakeInv ==
    /\ OnePendingChallenge
    /\ ChallengeRows
    /\ OneChallengeEach
    /\ SignedByChallenge
    /\ HelloAfterIssue

\* The fields of a challenge the arguments below compare.
LEMMA ChallengeFields ==
    ASSUME TypeOK, NEW c \in Challenges, challenge[c] # None
    PROVE  /\ challenge[c] \in ChallengeRow
           /\ challenge[c].gateway \in Gateways
           /\ challenge[c].issuedAt \in Nat
           /\ challenge[c].expiresAt \in Nat
           /\ challenge[c].session \in Sessions \cup {None}
           /\ challenge[c].consumedAt \in Nat \cup {None}
<1>1. challenge[c] \in ChallengeRow
  BY DEF TypeOK
<1> QED
  BY <1>1 DEF ChallengeRow, Instant

\* While no challenge changes, the agreement of challenges and sessions
\* survives every step that keeps the openings of the sessions.
LEMMA ChallengeRowsKept ==
    ASSUME TypeOK, ChallengeRows, UNCHANGED challenge, now' \in Nat, now' >= now,
           \A x \in Sessions : Exists(x) => KeepsOpening(x)
    PROVE  ChallengeRows'
<1> SUFFICES ASSUME NEW c \in Challenges, challenge[c] # None
             PROVE  /\ ConsumedWhole(challenge[c])'
                    /\ challenge[c].consumedAt # None =>
                         /\ challenge[c].session \in Sessions
                         /\ OpenedFor(challenge[c], session[challenge[c].session])'
  BY DEF ChallengeRows
<1>1. challenge[c].issuedAt \in Nat /\ now \in Nat
  BY ChallengeFields DEF TypeOK, Instant
<1>2. ConsumedWhole(challenge[c])
  BY DEF ChallengeRows
<1>3. ConsumedWhole(challenge[c])'
  BY <1>1, <1>2 DEF ConsumedWhole
<1>4. ASSUME challenge[c].consumedAt # None
      PROVE  /\ challenge[c].session \in Sessions
             /\ OpenedFor(challenge[c], session[challenge[c].session])'
  <2> DEFINE s == challenge[c].session
  <2>1. s \in Sessions /\ OpenedFor(challenge[c], session[s])
    BY <1>4 DEF ChallengeRows
  <2>2. Exists(s)
    BY <2>1 DEF OpenedFor, Exists
  <2>3. session'[s] # None /\ SameOpening(session[s], session'[s])
    BY <2>1, <2>2 DEF KeepsOpening, Exists
  <2> HIDE DEF s
  <2>4. OpenedFor(challenge[c], session'[s])
    BY <2>1, <2>3 DEF OpenedFor, SameOpening
  <2>5. OpenedFor(challenge'[c], session'[challenge'[c].session])
    BY <2>4 DEF s
  <2> QED
    BY <2>1, <2>5 DEF s
<1> QED
  BY <1>3, <1>4

\* A step that touches no challenge and opens no signed session keeps the
\* handshake invariant, if it drops hellos only.
LEMMA HandshakeQuiet ==
    ASSUME TypeOK, HandshakeInv, UNCHANGED challenge, now' \in Nat, now' >= now,
           \A a \in Acceptors : hellos'[a] \in {hellos[a], None},
           \A x \in Sessions : Exists(x) => KeepsOpening(x),
           \A x \in Sessions : Exists(x)' /\ ~Exists(x) => ~session'[x].signed
    PROVE  HandshakeInv'
<1>1. OnePendingChallenge' /\ OneChallengeEach'
  BY DEF HandshakeInv, OnePendingChallenge, Pending, OneChallengeEach
<1>2. ChallengeRows'
  BY ChallengeRowsKept DEF HandshakeInv
<1>3. SignedByChallenge'
  <2> SUFFICES ASSUME NEW s \in Sessions, Exists(s)', session'[s].signed
               PROVE  \E c \in Challenges : challenge[c] # None /\ challenge[c].session = s
    BY DEF SignedByChallenge
  <2>1. Exists(s)
    OBVIOUS
  <2>2. session[s].signed
    BY <2>1 DEF KeepsOpening, SameOpening
  <2> QED
    BY <2>1, <2>2 DEF HandshakeInv, SignedByChallenge
<1>4. HelloAfterIssue'
  BY DEF HandshakeInv, HelloAfterIssue
<1> QED
  BY <1>1, <1>2, <1>3, <1>4 DEF HandshakeInv

\* Looking a hello's challenge up keeps the handshake invariant: the clock is
\* not behind the challenge.
LEMMA HandshakeHello ==
    ASSUME TypeOK, HandshakeInv,
           NEW a \in Acceptors, NEW c \in Challenges, NEW generation, NEW q, NEW f,
           AcceptHello(a, c, generation, q, f)
    PROVE  HandshakeInv'
<1> DEFINE fresh == [challenge |-> c, generation |-> generation,
                     fingerprint |-> f, evaluatedAt |-> now]
<1>1. /\ challenge[c] # None
      /\ hellos' = [hellos EXCEPT ![a] = fresh]
      /\ UNCHANGED challenge /\ UNCHANGED session /\ UNCHANGED now
  BY DEF AcceptHello, repositoryVars
<1>2. OnePendingChallenge' /\ OneChallengeEach' /\ SignedByChallenge'
  BY <1>1 DEF HandshakeInv, OnePendingChallenge, Pending, OneChallengeEach,
              SignedByChallenge, Exists
<1>3. ChallengeRows'
  BY <1>1 DEF HandshakeInv, ChallengeRows, ConsumedWhole
<1>4. HelloAfterIssue'
  <2>1. challenge[c].issuedAt <= now
    BY <1>1 DEF HandshakeInv, ChallengeRows, ConsumedWhole
  <2>2. challenge[c].issuedAt \in Nat /\ now \in Nat
    BY <1>1, ChallengeFields DEF TypeOK, Instant
  <2>3. ASSUME NEW b \in Acceptors, hellos'[b] # None
        PROVE  /\ challenge[hellos'[b].challenge] # None
               /\ hellos'[b].evaluatedAt >= challenge[hellos'[b].challenge].issuedAt
    <3>1. CASE b = a
      <4>1. hellos'[b].challenge = c /\ hellos'[b].evaluatedAt = now
        BY <1>1, <3>1 DEF TypeOK
      <4> QED
        BY <1>1, <2>1, <2>2, <4>1
    <3>2. CASE b # a
      <4>1. hellos'[b] = hellos[b]
        BY <1>1, <3>2 DEF TypeOK
      <4> QED
        BY <2>3, <4>1 DEF HandshakeInv, HelloAfterIssue
    <3> QED
      BY <3>1, <3>2
  <2> QED
    BY <1>1, <2>3 DEF HelloAfterIssue
<1> QED
  BY <1>2, <1>3, <1>4 DEF HandshakeInv

\* Issuing a challenge keeps the handshake invariant: what was pending is
\* superseded, what was consumed stays as it was.
LEMMA HandshakeIssue ==
    ASSUME TypeOK, PointersResolve, HandshakeInv,
           NEW g \in Gateways, NEW generation \in Generations, NEW q \in HelloStates,
           NEW c \in Challenges, NEW at \in RecentInstants,
           issue(g, generation, q, c, at)
    PROVE  HandshakeInv'
<1> DEFINE fresh == [gateway |-> g, generation |-> generation, request |-> q,
                     issuedAt |-> at, expiresAt |-> at + ChallengeTtl,
                     fingerprint |-> None, session |-> None,
                     consumedAt |-> None, supersededAt |-> None]
<1>1. /\ challenge[c] = None
      /\ challenge' =
           [x \in Challenges |->
              IF x = c THEN fresh
              ELSE IF x \in Pending(g) THEN [challenge[x] EXCEPT !.supersededAt = at]
              ELSE challenge[x]]
      /\ UNCHANGED hellos /\ UNCHANGED session /\ UNCHANGED now
  BY DEF issue, repositoryVars
<1>2. at \in Nat /\ now \in Nat /\ at <= now /\ at # None
  BY InstantsAreNat, NoneAssumption DEF TypeOK, Instant, RecentInstants
<1>3. /\ challenge'[c].gateway = g
      /\ challenge'[c].issuedAt = at
      /\ challenge'[c].fingerprint = None
      /\ challenge'[c].session = None
      /\ challenge'[c].consumedAt = None
      /\ challenge'[c].supersededAt = None
  BY <1>1
<1>4. ASSUME NEW x \in Challenges, x # c
      PROVE  /\ challenge'[x] # None <=> challenge[x] # None
             /\ challenge[x] # None =>
                  /\ challenge'[x].gateway = challenge[x].gateway
                  /\ challenge'[x].generation = challenge[x].generation
                  /\ challenge'[x].issuedAt = challenge[x].issuedAt
                  /\ challenge'[x].expiresAt = challenge[x].expiresAt
                  /\ challenge'[x].fingerprint = challenge[x].fingerprint
                  /\ challenge'[x].session = challenge[x].session
                  /\ challenge'[x].consumedAt = challenge[x].consumedAt
             /\ x \in Pending(g) => challenge'[x].supersededAt = at
             /\ x \notin Pending(g) => challenge'[x] = challenge[x]
  <2>1. CASE x \in Pending(g)
    <3>1. challenge[x] \in ChallengeRow
      BY <2>1 DEF Pending, TypeOK
    <3>2. challenge'[x] = [challenge[x] EXCEPT !.supersededAt = at]
      BY <1>1, <1>4, <2>1
    <3>3. challenge'[x] \in ChallengeRow
      BY <1>2, <3>1, <3>2 DEF ChallengeRow, Instant
    <3> QED
      BY <2>1, <3>1, <3>2, <3>3, NoneIsNoRow DEF ChallengeRow
  <2>2. CASE x \notin Pending(g)
    BY <1>1, <1>4, <2>2
  <2> QED
    BY <2>1, <2>2
<1> HIDE DEF fresh
<1>5. OnePendingChallenge'
  <2> SUFFICES ASSUME NEW k \in Gateways, NEW x \in Pending(k)', NEW y \in Pending(k)'
               PROVE  x = y
    BY DEF OnePendingChallenge
  <2>1. ASSUME NEW z \in Pending(k)'
        PROVE  /\ z \in Challenges
               /\ z = c => k = g
               /\ z # c => k # g /\ z \in Pending(k)
    <3>1. /\ z \in Challenges
          /\ challenge'[z] # None
          /\ challenge'[z].gateway = k
          /\ challenge'[z].consumedAt = None
          /\ challenge'[z].supersededAt = None
      BY DEF Pending
    <3>2. z = c => k = g
      BY <1>3, <3>1
    <3>3. z # c => z \notin Pending(g) /\ challenge'[z] = challenge[z]
      BY <1>2, <1>4, <3>1
    <3>4. z # c => k # g /\ z \in Pending(k)
      BY <3>1, <3>3 DEF Pending
    <3> QED
      BY <3>1, <3>2, <3>4
  <2>2. k # g => x \in Pending(k) /\ y \in Pending(k)
    BY <2>1
  <2>3. k = g => x = c /\ y = c
    BY <2>1
  <2> QED
    BY <2>2, <2>3 DEF HandshakeInv, OnePendingChallenge
<1>6. ChallengeRows'
  <2> SUFFICES ASSUME NEW x \in Challenges, challenge'[x] # None
               PROVE  /\ ConsumedWhole(challenge[x])'
                      /\ challenge'[x].consumedAt # None =>
                           /\ challenge'[x].session \in Sessions
                           /\ OpenedFor(challenge[x], session[challenge[x].session])'
    BY DEF ChallengeRows
  <2>1. CASE x = c
    BY <1>1, <1>2, <1>3, <2>1 DEF ConsumedWhole
  <2>2. CASE x # c
    <3>1. challenge[x] # None /\ ConsumedWhole(challenge[x])
      BY <1>4, <2>2 DEF HandshakeInv, ChallengeRows
    <3>2. ConsumedWhole(challenge[x])'
      BY <1>1, <1>4, <2>2, <3>1 DEF ConsumedWhole
    <3>3. ASSUME challenge'[x].consumedAt # None
          PROVE  /\ challenge'[x].session \in Sessions
                 /\ OpenedFor(challenge[x], session[challenge[x].session])'
      <4>1. challenge[x].consumedAt # None
        BY <1>4, <2>2, <3>1, <3>3
      <4>2. challenge'[x] = challenge[x]
        BY <1>4, <2>2, <4>1 DEF Pending
      <4> QED
        BY <1>1, <3>1, <4>1, <4>2 DEF HandshakeInv, ChallengeRows, OpenedFor
    <3> QED
      BY <3>2, <3>3
  <2> QED
    BY <2>1, <2>2
<1>7. OneChallengeEach'
  BY <1>3, <1>4 DEF HandshakeInv, OneChallengeEach
<1>8. SignedByChallenge'
  <2> SUFFICES ASSUME NEW s \in Sessions, Exists(s)', session'[s].signed
               PROVE  \E x \in Challenges : challenge'[x] # None /\ challenge'[x].session = s
    BY DEF SignedByChallenge
  <2>1. Exists(s) /\ session[s].signed
    BY <1>1 DEF Exists
  <2>2. PICK x \in Challenges : challenge[x] # None /\ challenge[x].session = s
    BY <2>1 DEF HandshakeInv, SignedByChallenge
  <2>3. challenge'[x] # None /\ challenge'[x].session = s
    BY <1>1, <1>4, <2>2
  <2> QED
    BY <2>3
<1>9. HelloAfterIssue'
  <2> SUFFICES ASSUME NEW a \in Acceptors, hellos[a] # None
               PROVE  /\ challenge'[hellos[a].challenge] # None
                      /\ hellos[a].evaluatedAt >= challenge'[hellos[a].challenge].issuedAt
    BY <1>1 DEF HelloAfterIssue
  <2>1. /\ hellos[a].challenge \in Challenges
        /\ challenge[hellos[a].challenge] # None
        /\ hellos[a].evaluatedAt >= challenge[hellos[a].challenge].issuedAt
    BY HelloResolves DEF HandshakeInv, HelloAfterIssue
  <2> QED
    BY <1>1, <1>4, <2>1
<1> QED
  BY <1>5, <1>6, <1>7, <1>8, <1>9 DEF HandshakeInv

\* Consuming a challenge and opening its session keep the handshake
\* invariant: the challenge was not consumed, and the session is new.
LEMMA HandshakeAccept ==
    ASSUME TypeOK, PointersResolve, HandshakeInv,
           NEW a \in Acceptors, NEW s \in Sessions, NEW openedAt \in RecentInstants,
           acceptAndOpen(a, s, openedAt)
    PROVE  HandshakeInv'
<1> DEFINE c   == hellos[a].challenge
           old == challenge[c]
           at  == hellos[a].evaluatedAt
<1>1. /\ c \in Challenges
      /\ old # None
      /\ old \in ChallengeRow
      /\ hellos[a].generation \in Generations
      /\ hellos[a].fingerprint \in Fingerprints
      /\ at \in Nat
      /\ old.gateway \in Gateways
  BY HelloResolves DEF acceptAndOpen
<1>2. NewRow(old.gateway, s, hellos[a].generation, openedAt, TRUE)
  BY AcceptAddsRow
<1>3. /\ old.supersededAt = None
      /\ old.generation = hellos[a].generation
      /\ old.fingerprint = None
      /\ at < old.expiresAt
      /\ openedAt >= at
  BY DEF acceptAndOpen, CanConsume
<1>4. /\ at >= old.issuedAt
      /\ old.consumedAt = None
      /\ old.session = None
      /\ old.issuedAt <= now
      /\ old.issuedAt \in Nat /\ old.expiresAt \in Nat
  <2>1. at >= old.issuedAt
    BY DEF acceptAndOpen, HandshakeInv, HelloAfterIssue
  <2>2. ConsumedWhole(old)
    BY <1>1 DEF HandshakeInv, ChallengeRows
  <2>3. old.issuedAt \in Nat /\ old.expiresAt \in Nat
    BY <1>1 DEF ChallengeRow, Instant
  <2> QED
    BY <1>3, <2>1, <2>2, <2>3 DEF ConsumedWhole
<1>5. /\ challenge' = [challenge EXCEPT ![c] =
            [old EXCEPT !.fingerprint = hellos[a].fingerprint,
                        !.session = s,
                        !.consumedAt = at]]
      /\ hellos' = [hellos EXCEPT ![a] = None]
      /\ UNCHANGED now
  BY <1>1 DEF acceptAndOpen, ConsumeChallenge
<1>6. at # None /\ s # None /\ hellos[a].fingerprint # None
  BY <1>1, NoneAssumption, RepositoryAssumption, ChallengeAssumption
<1> DEFINE new == [old EXCEPT !.fingerprint = hellos[a].fingerprint,
                              !.session = s,
                              !.consumedAt = at]
<1>7. /\ new # None
      /\ new.gateway = old.gateway
      /\ new.generation = old.generation
      /\ new.issuedAt = old.issuedAt
      /\ new.expiresAt = old.expiresAt
      /\ new.supersededAt = None
      /\ new.fingerprint # None
      /\ new.session = s
      /\ new.consumedAt = at
  <2>1. new \in ChallengeRow
    BY <1>1 DEF ChallengeRow, Instant
  <2> QED
    BY <1>1, <1>3, <1>6, <2>1, NoneIsNoRow DEF ChallengeRow
<1>8. /\ challenge'[c] = new
      /\ \A x \in Challenges : x # c => challenge'[x] = challenge[x]
  BY <1>1, <1>5 DEF TypeOK
<1>9. \A x \in Acceptors : hellos'[x] # None => hellos'[x] = hellos[x]
  BY <1>5 DEF TypeOK
<1>10. /\ session'[s] # None
       /\ session'[s].signed = TRUE
       /\ session'[s].gateway = old.gateway
       /\ session'[s].generation = hellos[a].generation
       /\ session'[s].openedAt = openedAt
       /\ ~Exists(s)
       /\ \A x \in Sessions : x # s => KeepsOpening(x)
  BY <1>2 DEF NewRow, Exists
<1>11. openedAt \in Nat
  BY InstantsAreNat
<1> HIDE DEF new, c, old, at
<1>12. \A x \in Challenges : challenge[x] # None => challenge[x].session # s
  <2> SUFFICES ASSUME NEW x \in Challenges, challenge[x] # None, challenge[x].session = s
               PROVE  FALSE
    OBVIOUS
  <2>1. ConsumedWhole(challenge[x])
    BY DEF HandshakeInv, ChallengeRows
  <2>2. challenge[x].consumedAt # None
    BY <1>6, <2>1 DEF ConsumedWhole
  <2>3. OpenedFor(challenge[x], session[s])
    BY <2>2 DEF HandshakeInv, ChallengeRows
  <2> QED
    BY <1>10, <2>3 DEF OpenedFor, Exists
<1>13. OnePendingChallenge'
  <2> SUFFICES ASSUME NEW k \in Gateways, NEW x \in Pending(k)', NEW y \in Pending(k)'
               PROVE  x = y
    BY DEF OnePendingChallenge
  <2>1. \A z \in Pending(k)' : z \in Pending(k)
    BY <1>6, <1>7, <1>8 DEF Pending
  <2> QED
    BY <2>1 DEF HandshakeInv, OnePendingChallenge
<1>14. ChallengeRows'
  <2> SUFFICES ASSUME NEW x \in Challenges, challenge'[x] # None
               PROVE  /\ ConsumedWhole(challenge[x])'
                      /\ challenge'[x].consumedAt # None =>
                           /\ challenge'[x].session \in Sessions
                           /\ OpenedFor(challenge[x], session[challenge[x].session])'
    BY DEF ChallengeRows
  <2>1. CASE x = c
    <3>1. ConsumedWhole(challenge[x])'
      BY <1>4, <1>5, <1>6, <1>7, <1>8, <2>1 DEF ConsumedWhole
    <3>2. OpenedFor(new, session'[s])
      BY <1>1, <1>3, <1>4, <1>7, <1>10, <1>11 DEF OpenedFor, old, at
    <3> QED
      BY <1>7, <1>8, <2>1, <3>1, <3>2
  <2>2. CASE x # c
    <3>1. challenge'[x] = challenge[x] /\ ConsumedWhole(challenge[x])
      BY <1>8, <2>2 DEF HandshakeInv, ChallengeRows
    <3>2. ConsumedWhole(challenge[x])'
      BY <1>5, <3>1 DEF ConsumedWhole
    <3>3. ASSUME challenge[x].consumedAt # None
          PROVE  /\ challenge[x].session \in Sessions
                 /\ OpenedFor(challenge[x], session'[challenge[x].session])
      <4> DEFINE t == challenge[x].session
      <4>1. t \in Sessions /\ OpenedFor(challenge[x], session[t])
        BY <3>1, <3>3 DEF HandshakeInv, ChallengeRows
      <4>2. t # s /\ Exists(t)
        BY <1>12, <3>1, <4>1 DEF OpenedFor, Exists
      <4>3. session'[t] # None /\ SameOpening(session[t], session'[t])
        BY <1>10, <4>1, <4>2 DEF KeepsOpening, Exists
      <4> HIDE DEF t
      <4>4. OpenedFor(challenge[x], session'[t])
        BY <4>1, <4>3 DEF OpenedFor, SameOpening
      <4> QED
        BY <4>1, <4>4 DEF t
    <3> QED
      BY <3>1, <3>2, <3>3
  <2> QED
    BY <2>1, <2>2
<1>15. OneChallengeEach'
  BY <1>7, <1>8, <1>12 DEF HandshakeInv, OneChallengeEach
<1>16. SignedByChallenge'
  <2> SUFFICES ASSUME NEW x \in Sessions, Exists(x)', session'[x].signed
               PROVE  \E d \in Challenges : challenge'[d] # None /\ challenge'[d].session = x
    BY DEF SignedByChallenge
  <2>1. CASE x = s
    BY <1>1, <1>7, <1>8, <2>1 DEF c
  <2>2. CASE x # s
    <3>1. Exists(x) /\ session[x].signed
      BY <1>10, <2>2 DEF KeepsOpening, SameOpening
    <3>2. PICK d \in Challenges : challenge[d] # None /\ challenge[d].session = x
      BY <3>1 DEF HandshakeInv, SignedByChallenge
    <3>3. d # c
      BY <1>4, <3>2, RepositoryAssumption DEF old
    <3> QED
      BY <1>8, <3>2, <3>3
  <2> QED
    BY <2>1, <2>2
<1>17. HelloAfterIssue'
  <2> SUFFICES ASSUME NEW b \in Acceptors, hellos'[b] # None
               PROVE  /\ challenge'[hellos'[b].challenge] # None
                      /\ hellos'[b].evaluatedAt >= challenge'[hellos'[b].challenge].issuedAt
    BY DEF HelloAfterIssue
  <2>1. hellos'[b] = hellos[b]
    BY <1>9
  <2>2. /\ hellos[b].challenge \in Challenges
        /\ challenge[hellos[b].challenge] # None
        /\ hellos[b].evaluatedAt >= challenge[hellos[b].challenge].issuedAt
    BY <2>1, HelloResolves DEF HandshakeInv, HelloAfterIssue
  <2>3. CASE hellos[b].challenge = c
    BY <1>7, <1>8, <2>1, <2>2, <2>3 DEF old
  <2>4. CASE hellos[b].challenge # c
    BY <1>8, <2>1, <2>2, <2>4
  <2> QED
    BY <2>3, <2>4
<1> QED
  BY <1>13, <1>14, <1>15, <1>16, <1>17 DEF HandshakeInv

\* Every step keeps the handshake invariant.
LEMMA HandshakeNext == Inv /\ HandshakeInv /\ [Next]_vars => HandshakeInv'
<1> SUFFICES ASSUME Inv, HandshakeInv, [Next]_vars PROVE HandshakeInv'
  OBVIOUS
<1>1. TypeOK /\ PointersResolve /\ now \in Nat /\ now' \in Nat
  BY InvNext DEF Inv, TypeOK, Instant
<1>2. ASSUME UNCHANGED session, UNCHANGED challenge, UNCHANGED now,
             \A a \in Acceptors : hellos'[a] \in {hellos[a], None}
      PROVE  HandshakeInv'
  <2>1. OldRows
    BY <1>2, UnwrittenKeeps DEF OldRows
  <2> QED
    BY <1>1, <1>2, <2>1, HandshakeQuiet DEF OldRows, KeepsOpening
<1>3. CASE RepositoryNext /\ UNCHANGED challengeVars
  <2>1. UNCHANGED challenge /\ UNCHANGED hellos
    BY <1>3 DEF challengeVars
  <2>2. CASE OldRows /\ now' >= now
    BY <1>1, <2>1, <2>2, HandshakeQuiet DEF OldRows, KeepsOpening
  <2>3. CASE \E g \in Gateways, s \in Sessions, generation \in Generations, at \in Nat :
               NewRow(g, s, generation, at, FALSE) /\ UNCHANGED <<cursor, now>>
    <3>1. PICK g \in Gateways, s \in Sessions, generation \in Generations, at \in Nat :
               NewRow(g, s, generation, at, FALSE) /\ UNCHANGED <<cursor, now>>
      BY <2>3
    <3>2. /\ UNCHANGED now
          /\ ~Exists(s)
          /\ ~session'[s].signed
          /\ \A x \in Sessions : x # s => KeepsOpening(x)
      BY <3>1 DEF NewRow
    <3>3. \A x \in Sessions : Exists(x) => KeepsOpening(x)
      BY <3>2
    <3>4. \A x \in Sessions : Exists(x)' /\ ~Exists(x) => ~session'[x].signed
      BY <3>2 DEF KeepsOpening
    <3>5. now' >= now
      BY <1>1, <3>2
    <3> QED
      BY <1>1, <2>1, <3>3, <3>4, <3>5, HandshakeQuiet
  <2>4. UNCHANGED now => now' >= now
    BY <1>1
  <2> QED
    BY <1>3, <2>2, <2>3, <2>4, RepositoryShape
<1>4. CASE IssueNext
  <2>1. PICK g \in Gateways, at \in RecentInstants :
           \/ \E generation \in Generations, q \in HelloStates, c \in Challenges :
                 issue(g, generation, q, c, at)
           \/ IssueAgain(g, at)
    BY <1>4 DEF IssueNext
  <2>2. CASE IssueAgain(g, at)
    <3>1. /\ UNCHANGED session /\ UNCHANGED challenge /\ UNCHANGED now
          /\ UNCHANGED hellos
      BY <2>2 DEF IssueAgain, repositoryVars
    <3> QED
      BY <1>2, <3>1
  <2> QED
    BY <1>1, <2>1, <2>2, HandshakeIssue
<1>5. CASE HelloNext
  <2>1. PICK a \in Acceptors :
           \/ \E c \in Challenges, generation \in Generations, q \in HelloStates,
                 f \in Fingerprints : AcceptHello(a, c, generation, q, f)
           \/ \E s \in Sessions, openedAt \in RecentInstants :
                 acceptAndOpen(a, s, openedAt)
           \/ HelloDrop(a)
    BY <1>5 DEF HelloNext
  <2>2. CASE HelloDrop(a)
    <3>1. /\ UNCHANGED session /\ UNCHANGED challenge /\ UNCHANGED now
          /\ hellos' = [hellos EXCEPT ![a] = None]
      BY <2>2 DEF HelloDrop, repositoryVars
    <3>2. \A b \in Acceptors : hellos'[b] \in {hellos[b], None}
      BY <1>1, <3>1 DEF TypeOK
    <3> QED
      BY <1>2, <3>1, <3>2
  <2> QED
    BY <1>1, <2>1, <2>2, HandshakeHello, HandshakeAccept
<1>6. CASE UNCHANGED vars
  <2>1. /\ UNCHANGED session /\ UNCHANGED challenge /\ UNCHANGED now
        /\ UNCHANGED hellos
    BY <1>6 DEF vars, repositoryVars, challengeVars
  <2> QED
    BY <1>2, <2>1
<1> QED
  BY <1>3, <1>4, <1>5, <1>6 DEF Next, ChallengeNext

\* The handshake invariant says of every signed session what opened it.
LEMMA HandshakeOpensOnce == TypeOK /\ HandshakeInv => ChallengeOpensOnce
<1> SUFFICES ASSUME TypeOK, HandshakeInv PROVE ChallengeOpensOnce
  OBVIOUS
<1>1. OnePendingChallenge
  BY DEF HandshakeInv
<1> SUFFICES ASSUME NEW s \in Sessions
             PROVE  /\ Exists(s) /\ session[s].signed <=> OpenedBy(s) # {}
                    /\ \A c, d \in OpenedBy(s) : c = d
                    /\ \A c \in OpenedBy(s) :
                         LET row == challenge[c]
                         IN  /\ row.gateway = session[s].gateway
                             /\ row.generation = session[s].generation
                             /\ row.supersededAt = None
                             /\ row.fingerprint # None
                             /\ row.consumedAt \in row.issuedAt..(row.expiresAt - 1)
                             /\ row.consumedAt <= session[s].openedAt
  BY <1>1 DEF ChallengeOpensOnce
<1>2. s # None
  BY RepositoryAssumption
<1>3. ASSUME NEW c \in OpenedBy(s)
      PROVE  /\ c \in Challenges
             /\ challenge[c] # None
             /\ challenge[c].session = s
             /\ challenge[c].fingerprint # None
             /\ OpenedFor(challenge[c], session[s])
  <2>1. c \in Challenges /\ challenge[c] # None /\ challenge[c].session = s
    BY DEF OpenedBy
  <2>2. ConsumedWhole(challenge[c])
    BY <2>1 DEF HandshakeInv, ChallengeRows
  <2>3. challenge[c].consumedAt # None /\ challenge[c].fingerprint # None
    BY <1>2, <2>1, <2>2 DEF ConsumedWhole
  <2> QED
    BY <2>1, <2>3 DEF HandshakeInv, ChallengeRows
<1>4. Exists(s) /\ session[s].signed => OpenedBy(s) # {}
  BY DEF HandshakeInv, SignedByChallenge, OpenedBy
<1>5. OpenedBy(s) # {} => Exists(s) /\ session[s].signed
  BY <1>3 DEF OpenedFor, Exists
<1>6. \A c, d \in OpenedBy(s) : c = d
  BY <1>2, <1>3 DEF HandshakeInv, OneChallengeEach
<1>7. ASSUME NEW c \in OpenedBy(s)
      PROVE  /\ challenge[c].gateway = session[s].gateway
             /\ challenge[c].generation = session[s].generation
             /\ challenge[c].supersededAt = None
             /\ challenge[c].fingerprint # None
             /\ challenge[c].consumedAt \in challenge[c].issuedAt..(challenge[c].expiresAt - 1)
             /\ challenge[c].consumedAt <= session[s].openedAt
  BY <1>3 DEF OpenedFor
<1> QED
  BY <1>4, <1>5, <1>6, <1>7

----------------------------------------------------------------------------
(* Refinement.                                                             *)

\* The owner read off the rows is the owner the head names.
LEMMA OwnersAreHeads ==
    ASSUME OneLiveSession
    PROVE  [g \in Gateways |-> LiveSessions(g)]
             = [g \in Gateways |-> {head[g].current} \ {None}]
  BY DEF OneLiveSession

\* An opening grants: the Gateway has a new owner, under the next epoch.
LEMMA OpeningGrants ==
    ASSUME TypeOK, PointersResolve, OneLiveSession, OneLiveSession', UNCHANGED cursor,
           NEW g \in Gateways, NEW s \in Sessions, NEW generation \in Generations,
           NEW at \in Nat, NEW signed \in BOOLEAN,
           FenceAndInsert(g, s, generation, at, signed)
    PROVE  Authority!Grant(g, s)
<1>1. NewRow(g, s, generation, at, signed)
  BY OpenAddsRow
<1>2. head' = [head EXCEPT ![g] = [lastEpoch |-> head[g].lastEpoch + 1, current |-> s]]
  BY DEF FenceAndInsert, nextEpoch
<1>3. /\ ~Exists(s)
      /\ Exists(s)'
      /\ \A x \in Sessions : x # s => (Exists(x)' <=> Exists(x))
  BY <1>1 DEF NewRow, KeepsOpening
<1>4. \A k \in Gateways : head[k] \in HeadRow
  BY DEF TypeOK
<1>5. /\ head'[g].current = s
      /\ head'[g].lastEpoch = head[g].lastEpoch + 1
      /\ \A k \in Gateways : k # g => head'[k] = head[k]
  BY <1>2 DEF TypeOK
<1>6. s # None
  BY RepositoryAssumption
<1>7. [k \in Gateways |-> LiveSessions(k)]'
        = [[k \in Gateways |-> LiveSessions(k)] EXCEPT ![g] = {s}]
  BY <1>5, <1>6 DEF OneLiveSession
<1>8. [k \in Gateways |-> head[k].lastEpoch]'
        = [[k \in Gateways |-> head[k].lastEpoch] EXCEPT ![g] = @ + 1]
  BY <1>5
<1>9. /\ s \notin {x \in Sessions : Exists(x)}
      /\ {x \in Sessions : Exists(x)}' = {x \in Sessions : Exists(x)} \cup {s}
  BY <1>3
<1> QED
  BY <1>7, <1>8, <1>9 DEF Authority!Grant

\* A step that keeps the heads, the positions and the set of sessions shows
\* nothing to the authority.
LEMMA HeadsHide ==
    ASSUME OneLiveSession, OneLiveSession', UNCHANGED head, UNCHANGED cursor,
           \A x \in Sessions : Exists(x)' <=> Exists(x)
    PROVE  UNCHANGED Authority!authorityVars
<1>1. [g \in Gateways |-> LiveSessions(g)]' = [g \in Gateways |-> LiveSessions(g)]
  BY DEF OneLiveSession
<1>2. [g \in Gateways |-> head[g].lastEpoch]' = [g \in Gateways |-> head[g].lastEpoch]
  OBVIOUS
<1>3. {x \in Sessions : Exists(x)}' = {x \in Sessions : Exists(x)}
  OBVIOUS
<1> QED
  BY <1>1, <1>2, <1>3 DEF Authority!authorityVars

\* Completing a health transition releases the Gateway, or shows nothing.
LEMMA SweepReleases ==
    ASSUME Inv, Inv', NEW w \in Sweepers, NEW s \in Sessions, SweepComplete(w, s)
    PROVE  [Authority!Next]_(Authority!authorityVars)
<1> DEFINE new == healthTransition(session[s], sweeps[w].evaluatedAt)
<1>1. /\ TypeOK /\ OneLiveSession /\ OneLiveSession'
      /\ CopiesAreCurrent /\ ClosedWithReason /\ SilenceBeforeTimeout
  BY DEF Inv, IInv
<1>2. /\ RowWrite(s, new)
      /\ head' = IF new.state = "closed" /\ head[new.gateway].current = s
                 THEN [head EXCEPT ![new.gateway].current = None]
                 ELSE head
      /\ UNCHANGED cursor
  BY <1>1, SweepCompleteEffect DEF SweepComplete
<1>3. \A x \in Sessions : Exists(x)' <=> Exists(x)
  BY <1>1, <1>2, WriteKeepsOpenings DEF OldRows, KeepsOpening
<1>4. PICK g \in Gateways :
         /\ new.gateway = g /\ session[s].gateway = g
         /\ session[s] # None /\ session[s].state # "closed"
  BY <1>2 DEF RowWrite, SessionRow, Exists
<1> HIDE DEF new
<1>5. CASE head' = head
  BY <1>1, <1>2, <1>3, <1>5, HeadsHide
<1>6. CASE head' # head
  <2>1. head' = [head EXCEPT ![g].current = None]
    BY <1>2, <1>4, <1>6
  <2>2. head[g] \in HeadRow
    BY <1>1, <1>4 DEF TypeOK
  <2>3. /\ head'[g].current = None
        /\ head'[g].lastEpoch = head[g].lastEpoch
        /\ \A k \in Gateways : k # g => head'[k] = head[k]
    BY <1>1, <1>4, <2>1, <2>2 DEF TypeOK, HeadRow
  <2>4. s \in LiveSessions(g)
    BY <1>4 DEF LiveSessions, Live, Exists
  <2>5. [k \in Gateways |-> LiveSessions(k)]'
          = [[k \in Gateways |-> LiveSessions(k)] EXCEPT ![g] = {}]
    <3>1. \A k \in Gateways : LiveSessions(k)' = IF k = g THEN {} ELSE LiveSessions(k)
      BY <1>1, <2>3 DEF OneLiveSession
    <3> QED
      BY <3>1
  <2>6. [k \in Gateways |-> head[k].lastEpoch]' = [k \in Gateways |-> head[k].lastEpoch]
    BY <2>3
  <2>7. {x \in Sessions : Exists(x)}' = {x \in Sessions : Exists(x)}
    BY <1>3
  <2>8. [k \in Gateways |-> LiveSessions(k)][g] # {}
    BY <1>4, <2>4
  <2>9. Authority!Release(g)
    BY <1>2, <2>5, <2>6, <2>7, <2>8 DEF Authority!Release
  <2> QED
    BY <1>4, <2>9 DEF Authority!Next
<1> QED
  BY <1>5, <1>6

\* A recorded position is an advance under an owner.
LEMMA CursorAdvances ==
    ASSUME Inv, Inv', CursorNext
    PROVE  Authority!Next
<1>1. TypeOK
  BY DEF Inv
<1>2. PICK s \in Sessions, generation \in Generations, epoch \in 1..MaxEpoch,
           st \in Streams, position \in 1..MaxPosition :
             recordDurableCursor(s, generation, epoch, st, position)
  BY DEF CursorNext
<1> DEFINE g == session[s].gateway
<1>3. /\ session[s] # None
      /\ session[s].state = "active"
      /\ cursor' = [cursor EXCEPT ![g][st] = cursor[g][st] + 1]
      /\ UNCHANGED head /\ UNCHANGED session
  BY <1>2 DEF recordDurableCursor
<1>4. g \in Gateways
  BY <1>1, <1>3 DEF TypeOK, SessionRow
<1>5. s \in LiveSessions(g)
  BY <1>3 DEF LiveSessions, Live, Exists
<1> HIDE DEF g
<1>6. [k \in Gateways |-> LiveSessions(k)][g] # {}
  BY <1>4, <1>5
<1>7. [k \in Gateways |-> LiveSessions(k)]' = [k \in Gateways |-> LiveSessions(k)]
  BY <1>3 DEF LiveSessions, Live, Exists
<1>8. /\ [k \in Gateways |-> head[k].lastEpoch]' = [k \in Gateways |-> head[k].lastEpoch]
      /\ {x \in Sessions : Exists(x)}' = {x \in Sessions : Exists(x)}
  BY <1>3 DEF Exists
<1>9. cursor' = [cursor EXCEPT ![g][st] = @ + 1]
  BY <1>3
<1>10. Authority!Advance(g, st)
  BY <1>6, <1>7, <1>8, <1>9 DEF Authority!Advance
<1> QED
  BY <1>4, <1>10 DEF Authority!Next

\* The empty database is an authority without owners.
LEMMA AuthorityInit == Init => Authority!Init
<1> SUFFICES ASSUME Init PROVE Authority!Init
  OBVIOUS
<1>1. /\ \A s \in Sessions : ~Exists(s)
      /\ \A g \in Gateways : head[g].lastEpoch = 0
      /\ cursor = [g \in Gateways |-> [st \in Streams |-> 0]]
  BY DEF Init, RepositoryInit, Exists
<1>2. \A g \in Gateways : LiveSessions(g) = {}
  BY <1>1 DEF LiveSessions, Live
<1> QED
  BY <1>1, <1>2 DEF Authority!Init

\* Every step of the plane is a step of the authority or shows it nothing.
LEMMA AuthorityNext == Inv /\ [Next]_vars => [Authority!Next]_(Authority!authorityVars)
<1> SUFFICES ASSUME Inv, [Next]_vars
             PROVE  [Authority!Next]_(Authority!authorityVars)
  OBVIOUS
<1>1. Inv'
  BY InvNext
<1>2. /\ TypeOK /\ PointersResolve /\ OneLiveSession /\ OneLiveSession'
      /\ CopiesAreCurrent
  BY <1>1 DEF Inv, IInv
<1>3. ASSUME UNCHANGED session, UNCHANGED head, UNCHANGED cursor
      PROVE  UNCHANGED Authority!authorityVars
  BY <1>2, <1>3, HeadsHide DEF Exists
<1>4. CASE Tick
  BY <1>3, <1>4 DEF Tick
<1>5. CASE OpenNext
  <2>1. PICK g \in Gateways, r \in Requests, s \in Sessions,
             generation \in Generations, at \in RecentInstants :
               Open(g, r, s, generation, at)
    BY <1>5 DEF OpenNext
  <2>2. /\ at \in Nat
        /\ FenceAndInsert(g, s, generation, at, FALSE)
        /\ UNCHANGED cursor
    BY <1>2, <2>1, InstantsAreNat DEF Open
  <2>3. Authority!Grant(g, s)
    BY <1>2, <2>2, OpeningGrants
  <2> QED
    BY <2>3 DEF Authority!Next
<1>6. CASE HeartbeatNext
  <2>1. CASE \E h \in Handlers : HeartbeatReplace(h)
    <3>1. PICK h \in Handlers : HeartbeatReplace(h)
      BY <2>1
    <3>2. UNCHANGED head /\ UNCHANGED cursor
      BY <3>1 DEF HeartbeatReplace
    <3>3. OldRows
      BY <1>2, <3>1, HeartbeatReplaceEffect, WriteKeepsOpenings
    <3> QED
      BY <1>2, <3>2, <3>3, HeadsHide DEF OldRows, KeepsOpening
  <2>2. CASE ~\E h \in Handlers : HeartbeatReplace(h)
    BY <1>3, <1>6, <2>2 DEF HeartbeatNext, HeartbeatRead, HeartbeatDrop
  <2> QED
    BY <2>1, <2>2
<1>7. CASE SweepNext
  <2>1. CASE \E w \in Sweepers, s \in Sessions : SweepComplete(w, s)
    BY <1>1, <2>1, SweepReleases
  <2>2. CASE ~\E w \in Sweepers, s \in Sessions : SweepComplete(w, s)
    BY <1>3, <1>7, <2>2 DEF SweepNext, leaseDue, SweepLeaseLost, SweepAbort
  <2> QED
    BY <2>1, <2>2
<1>8. CASE CursorNext
  BY <1>1, <1>8, CursorAdvances
<1>9. CASE IssueNext
  BY <1>3, <1>9 DEF IssueNext, issue, IssueAgain, repositoryVars
<1>10. CASE HelloNext
  <2>1. CASE \E a \in Acceptors, s \in Sessions, openedAt \in RecentInstants :
               acceptAndOpen(a, s, openedAt)
    <3>1. PICK a \in Acceptors, s \in Sessions, openedAt \in RecentInstants :
               acceptAndOpen(a, s, openedAt)
      BY <2>1
    <3> DEFINE g == challenge[hellos[a].challenge].gateway
    <3>2. /\ FenceAndInsert(g, s, hellos[a].generation, openedAt, TRUE)
          /\ UNCHANGED cursor
      BY <3>1 DEF acceptAndOpen
    <3>3. g \in Gateways /\ hellos[a].generation \in Generations /\ openedAt \in Nat
      BY <1>2, <3>1, HelloResolves, InstantsAreNat DEF acceptAndOpen
    <3> HIDE DEF g
    <3>4. Authority!Grant(g, s)
      BY <1>2, <3>2, <3>3, OpeningGrants
    <3> QED
      BY <3>3, <3>4 DEF Authority!Next
  <2>2. CASE ~\E a \in Acceptors, s \in Sessions, openedAt \in RecentInstants :
               acceptAndOpen(a, s, openedAt)
    BY <1>3, <1>10, <2>2 DEF HelloNext, AcceptHello, HelloDrop, repositoryVars
  <2> QED
    BY <2>1, <2>2
<1>11. CASE UNCHANGED vars
  BY <1>3, <1>11 DEF vars, repositoryVars
<1>12. CASE RepositoryNext
  BY <1>12, <1>4, <1>5, <1>6, <1>7, <1>8 DEF RepositoryNext
<1>13. CASE ChallengeNext
  BY <1>13, <1>9, <1>10 DEF ChallengeNext
<1> QED
  BY <1>11, <1>12, <1>13 DEF Next

----------------------------------------------------------------------------
(* Theorems.                                                               *)

\* The head of a Gateway always names its only unclosed session.
THEOREM OneConnection == Spec => []OneLiveSession
<1>1. Inv => OneLiveSession
  BY DEF Inv, IInv
<1> QED
  BY InvHolds, <1>1, PTL

\* Epochs are unique per Gateway and the live session has the highest.
THEOREM EpochsFence == Spec => []EpochFencing
<1>1. Inv => EpochFencing
  BY DEF Inv, IInv
<1> QED
  BY InvHolds, <1>1, PTL

\* Nobody is suspected or timed out who was heard within the grace.
THEOREM TimeoutsAreJustified == Spec => []SilenceBeforeTimeout
<1>1. Inv => SilenceBeforeTimeout
  BY DEF Inv, IInv
<1> QED
  BY InvHolds, <1>1, PTL

\* A timeout event is published exactly for the sessions that timed out.
THEOREM OutboxTellsTheTruth == Spec => []OutboxTruthful
<1>1. Inv => OutboxTruthful
  BY DEF Inv, IInv
<1> QED
  BY InvHolds, <1>1, PTL

\* The revision check lets only copies of the stored row be written.
THEOREM RevisionsIdentifyCopies == Spec => []CopiesAreCurrent
<1>1. Inv => CopiesAreCurrent
  BY DEF Inv, IInv
<1> QED
  BY InvHolds, <1>1, PTL

\* A reconnect never resumes behind an earlier connection, nor ahead of the store.
THEOREM ResumesNeverRegress == Spec => []ResumeMonotone
<1>1. Init => Inv /\ ResumeMonotone
  BY InvInit DEF Init, RepositoryInit, ResumeMonotone, Exists
<1>2. Inv /\ ResumeMonotone /\ [Next]_vars => Inv' /\ ResumeMonotone'
  BY InvNext, ResumeNext
<1> QED
  BY <1>1, <1>2, PTL DEF Spec

\* A challenge opens at most one session, its own Gateway's, while it is
\* valid, and every signed session has the challenge that opened it.
THEOREM ChallengesOpenOnce == Spec => []ChallengeOpensOnce
<1>1. Init => Inv /\ HandshakeInv
  <2> SUFFICES ASSUME Init PROVE Inv /\ HandshakeInv
    OBVIOUS
  <2>1. /\ challenge = [c \in Challenges |-> None]
        /\ hellos = [a \in Acceptors |-> None]
        /\ session = [s \in Sessions |-> None]
    BY DEF Init, RepositoryInit, ChallengeInit
  <2>2. HandshakeInv
    BY <2>1 DEF HandshakeInv, OnePendingChallenge, Pending, ChallengeRows,
                OneChallengeEach, SignedByChallenge, HelloAfterIssue, Exists
  <2> QED
    BY <2>2, InvInit
<1>2. Inv /\ HandshakeInv /\ [Next]_vars => Inv' /\ HandshakeInv'
  BY InvNext, HandshakeNext
<1>3. Inv /\ HandshakeInv => ChallengeOpensOnce
  BY HandshakeOpensOnce DEF Inv
<1> QED
  BY <1>1, <1>2, <1>3, PTL DEF Spec

\* No step brings a closed session back, or changes anything about it.
THEOREM ClosedStaysClosed == Spec => ClosedIsFinal
<1>1. Inv /\ [Next]_vars =>
        [\A s \in Sessions :
           Exists(s) /\ session[s].state = "closed" => session'[s] = session[s]]_vars
  BY InvNext DEF RowsRespected
<1> QED
  BY InvHolds, <1>1, PTL DEF Spec, ClosedIsFinal

\* No step moves back what a session has last heard.
THEOREM NoHeartbeatIsLost == Spec => HeartbeatsAreKept
<1>1. Inv /\ [Next]_vars =>
        [\A s \in Sessions : Exists(s) => Heard(session'[s]) >= Heard(session[s])]_vars
  BY InvNext DEF RowsRespected
<1> QED
  BY InvHolds, <1>1, PTL DEF Spec, HeartbeatsAreKept

\* The plane implements the abstract authority: at most one owner per Gateway,
\* granted under growing epochs, and positions that advance one at a time.
THEOREM PlaneIsAuthority == Spec => ImplementsAuthority
<1>1. Init => Inv /\ Authority!Init
  BY InvInit, AuthorityInit
<1>2. Inv /\ [Next]_vars => Inv' /\ [Authority!Next]_(Authority!authorityVars)
  BY InvNext, AuthorityNext
<1> QED
  BY <1>1, <1>2, PTL DEF Spec, ImplementsAuthority, Authority!Spec
=============================================================================
