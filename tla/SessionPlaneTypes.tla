------------------------- MODULE SessionPlaneTypes --------------------------
(***************************************************************************)
(* The shapes of the session plane's tables and in-flight commands are     *)
(* invariant, for every value of the constants.                            *)
(***************************************************************************)
EXTENDS SessionPlane, TLAPS

----------------------------------------------------------------------------
(* The domain transitions: the record they return, field by field.         *)

\* Writing one field of a row leaves a row.
LEMMA FieldUpdates ==
    ASSUME NEW row \in SessionRow
    PROVE  /\ \A x \in {"active", "suspect", "closed"} :
                [row EXCEPT !.state = x] \in SessionRow
           /\ \A x \in Nat \cup {None} :
                /\ [row EXCEPT !.lastHeartbeatAt = x] \in SessionRow
                /\ [row EXCEPT !.suspectAt = x] \in SessionRow
                /\ [row EXCEPT !.closedAt = x] \in SessionRow
           /\ \A x \in Requests \cup {None} :
                [row EXCEPT !.lastHeartbeatRequestId = x] \in SessionRow
           /\ \A x \in CloseReasons : [row EXCEPT !.closeReason = x] \in SessionRow
           /\ [row EXCEPT !.revision = @ + 1] \in SessionRow
<1>1. \A x \in {"active", "suspect", "closed"} : [row EXCEPT !.state = x] \in SessionRow
  BY DEF SessionRow
<1>2. \A x \in Nat \cup {None} : [row EXCEPT !.lastHeartbeatAt = x] \in SessionRow
  BY DEF SessionRow, Instant
<1>3. \A x \in Nat \cup {None} : [row EXCEPT !.suspectAt = x] \in SessionRow
  BY DEF SessionRow, Instant
<1>4. \A x \in Nat \cup {None} : [row EXCEPT !.closedAt = x] \in SessionRow
  BY DEF SessionRow, Instant
<1>5. \A x \in Requests \cup {None} : [row EXCEPT !.lastHeartbeatRequestId = x] \in SessionRow
  BY DEF SessionRow
<1>6. \A x \in CloseReasons : [row EXCEPT !.closeReason = x] \in SessionRow
  BY DEF SessionRow
<1>7. [row EXCEPT !.revision = @ + 1] \in SessionRow
  BY DEF SessionRow
<1> QED
  BY <1>1, <1>2, <1>3, <1>4, <1>5, <1>6, <1>7

\* Observing a heartbeat turns a row into a row, and says which fields it
\* writes.
LEMMA ObserveRow ==
    ASSUME NEW row \in SessionRow, NEW r \in Requests \cup {None},
           NEW at \in Nat \cup {None}, NEW new, new = observeCloudLinkHeartbeat(row, r, at)
    PROVE  /\ new \in SessionRow
           /\ new.gateway = row.gateway
           /\ new.generation = row.generation
           /\ new.epoch = row.epoch
           /\ new.signed = row.signed
           /\ new.openedAt = row.openedAt
           /\ new.resumeCursors = row.resumeCursors
           /\ new.state = "active"
           /\ new.lastHeartbeatAt = at
           /\ new.lastHeartbeatRequestId = r
           /\ new.closeReason = row.closeReason
           /\ new.revision = row.revision + 1
<1> DEFINE r1 == [row EXCEPT !.state = "active"]
           r2 == [r1 EXCEPT !.lastHeartbeatAt = at]
           r3 == [r2 EXCEPT !.lastHeartbeatRequestId = r]
           r4 == [r3 EXCEPT !.revision = @ + 1]
<1>1. r4 \in SessionRow
  BY FieldUpdates
<1>2. new = r4
  BY DEF observeCloudLinkHeartbeat
<1> QED
  BY <1>1, <1>2 DEF observeCloudLinkHeartbeat, SessionRow

\* Suspecting a session turns its row into a row.
LEMMA SuspectRow ==
    ASSUME NEW row \in SessionRow, NEW at \in Nat,
           NEW new, new = markCloudLinkSessionSuspect(row, at)
    PROVE  /\ new \in SessionRow
           /\ new.gateway = row.gateway
           /\ new.generation = row.generation
           /\ new.epoch = row.epoch
           /\ new.signed = row.signed
           /\ new.openedAt = row.openedAt
           /\ new.resumeCursors = row.resumeCursors
           /\ Heard(new) = Heard(row)
           /\ new.state = "suspect"
           /\ new.suspectAt = at
           /\ new.closeReason = row.closeReason
           /\ new.revision = row.revision + 1
<1> DEFINE r1 == [row EXCEPT !.state = "suspect"]
           r2 == [r1 EXCEPT !.suspectAt = at]
           r3 == [r2 EXCEPT !.revision = @ + 1]
<1>1. r3 \in SessionRow
  BY FieldUpdates
<1>2. new = r3
  BY DEF markCloudLinkSessionSuspect
<1> QED
  BY <1>1, <1>2 DEF markCloudLinkSessionSuspect, SessionRow, Heard

\* Timing a session out turns its row into a row.
LEMMA TimeOutRow ==
    ASSUME NEW row \in SessionRow, NEW at \in Nat,
           NEW new, new = markCloudLinkSessionHeartbeatTimedOut(row, at)
    PROVE  /\ new \in SessionRow
           /\ new.gateway = row.gateway
           /\ new.generation = row.generation
           /\ new.epoch = row.epoch
           /\ new.signed = row.signed
           /\ new.openedAt = row.openedAt
           /\ new.resumeCursors = row.resumeCursors
           /\ Heard(new) = Heard(row)
           /\ new.state = "closed"
           /\ new.suspectAt = row.suspectAt
           /\ new.closedAt = at
           /\ new.closeReason = "heartbeat-timeout"
           /\ new.revision = row.revision + 1
<1> DEFINE r1 == [row EXCEPT !.state = "closed"]
           r2 == [r1 EXCEPT !.closedAt = at]
           r3 == [r2 EXCEPT !.closeReason = "heartbeat-timeout"]
           r4 == [r3 EXCEPT !.revision = @ + 1]
<1>1. r4 \in SessionRow
  BY FieldUpdates DEF CloseReasons
<1>2. new = r4
  BY DEF markCloudLinkSessionHeartbeatTimedOut
<1> QED
  BY <1>1, <1>2 DEF markCloudLinkSessionHeartbeatTimedOut, SessionRow, Heard

\* Fencing a session turns its row into a row.
LEMMA FenceRow ==
    ASSUME NEW row \in SessionRow, NEW at \in Nat,
           NEW new, new = fenceCloudLinkSession(row, at)
    PROVE  /\ new \in SessionRow
           /\ new.gateway = row.gateway
           /\ new.generation = row.generation
           /\ new.epoch = row.epoch
           /\ new.signed = row.signed
           /\ new.openedAt = row.openedAt
           /\ new.resumeCursors = row.resumeCursors
           /\ Heard(new) = Heard(row)
           /\ new.state = "closed"
           /\ new.suspectAt = row.suspectAt
           /\ new.closeReason = "fenced"
           /\ new.revision = row.revision + 1
<1> DEFINE r1 == [row EXCEPT !.state = "closed"]
           r2 == [r1 EXCEPT !.closedAt = at]
           r3 == [r2 EXCEPT !.closeReason = "fenced"]
           r4 == [r3 EXCEPT !.revision = @ + 1]
<1>1. r4 \in SessionRow
  BY FieldUpdates DEF CloseReasons
<1>2. new = r4
  BY DEF fenceCloudLinkSession
<1> QED
  BY <1>1, <1>2 DEF fenceCloudLinkSession, SessionRow, Heard

\* The row an opening inserts is an active row of the given Gateway, epoch
\* and opening time.
LEMMA BuildRow ==
    ASSUME NEW g \in Gateways, NEW generation \in Generations, NEW epoch \in Nat,
           NEW at \in Nat, NEW signed \in BOOLEAN, NEW cursors \in Cursors,
           NEW new, new = buildActiveSession(g, generation, epoch, at, signed, cursors)
    PROVE  /\ new \in SessionRow
           /\ new.gateway = g
           /\ new.generation = generation
           /\ new.epoch = epoch
           /\ new.signed = signed
           /\ new.openedAt = at
           /\ new.resumeCursors = cursors
           /\ new.state = "active"
           /\ new.closeReason = None
<1> DEFINE Row(state, activatedAt, resumeCursors, revision) ==
             [ gateway                |-> g,
               generation             |-> generation,
               epoch                  |-> epoch,
               signed                 |-> signed,
               state                  |-> state,
               openedAt               |-> at,
               activatedAt            |-> activatedAt,
               resumeCursors          |-> resumeCursors,
               lastHeartbeatAt        |-> None,
               lastHeartbeatRequestId |-> None,
               suspectAt              |-> None,
               closedAt               |-> None,
               closeReason            |-> None,
               revision               |-> revision ]
<1>1. createCloudLinkSession(g, generation, epoch, at, signed)
        = Row("negotiating", None, None, 1)
  BY DEF createCloudLinkSession
<1>2. negotiateCloudLinkSession(Row("negotiating", None, None, 1))
        = Row("resuming", None, None, 2)
  <2>1. [Row("negotiating", None, None, 1) EXCEPT !.state = "resuming"]
          = Row("resuming", None, None, 1)
    OBVIOUS
  <2>2. [Row("resuming", None, None, 1) EXCEPT !.revision = @ + 1]
          = Row("resuming", None, None, 2)
    OBVIOUS
  <2>3. ASSUME NEW row
        PROVE  negotiateCloudLinkSession(row)
                 = [[row EXCEPT !.state = "resuming"] EXCEPT !.revision = @ + 1]
    BY DEF negotiateCloudLinkSession
  <2> HIDE DEF Row
  <2> QED
    BY <2>1, <2>2, <2>3
<1>3. activateCloudLinkSession(Row("resuming", None, None, 2), at, cursors)
        = Row("active", at, cursors, 3)
  <2>1. [Row("resuming", None, None, 2) EXCEPT !.state = "active"]
          = Row("active", None, None, 2)
    OBVIOUS
  <2>2. [Row("active", None, None, 2) EXCEPT !.activatedAt = at]
          = Row("active", at, None, 2)
    OBVIOUS
  <2>3. [Row("active", at, None, 2) EXCEPT !.resumeCursors = cursors]
          = Row("active", at, cursors, 2)
    OBVIOUS
  <2>4. [Row("active", at, cursors, 2) EXCEPT !.revision = @ + 1]
          = Row("active", at, cursors, 3)
    OBVIOUS
  <2>5. ASSUME NEW row
        PROVE  activateCloudLinkSession(row, at, cursors)
                 = [[[[row EXCEPT !.state = "active"] EXCEPT !.activatedAt = at]
                      EXCEPT !.resumeCursors = cursors] EXCEPT !.revision = @ + 1]
    BY DEF activateCloudLinkSession
  <2> HIDE DEF Row
  <2>6. [[Row("resuming", None, None, 2) EXCEPT !.state = "active"]
           EXCEPT !.activatedAt = at] = Row("active", at, None, 2)
    BY <2>1, <2>2
  <2>7. [[Row("active", at, None, 2) EXCEPT !.resumeCursors = cursors]
           EXCEPT !.revision = @ + 1] = Row("active", at, cursors, 3)
    BY <2>3, <2>4
  <2> QED
    BY <2>5, <2>6, <2>7
<1>4. new = Row("active", at, cursors, 3)
  BY <1>1, <1>2, <1>3 DEF buildActiveSession
<1> QED
  BY <1>4 DEF SessionRow, Instant

----------------------------------------------------------------------------
(* Types.  A fence writes the row the head names, and an accepted hello    *)
(* reads the challenge it names, so the types need those rows to exist.    *)

PointersResolve ==
    /\ \A g \in Gateways : head[g].current # None => Exists(head[g].current)
    /\ \A a \in Acceptors :
         hellos[a] # None => challenge[hellos[a].challenge] # None

\* The clock readings of a step are instants.
LEMMA InstantsAreNat == ASSUME TypeOK PROVE RecentInstants \subseteq Nat
  BY DEF TypeOK, RecentInstants, Instant

\* The rows after opening a session: a new active row, the previous current
\* row closed, every other row as before.
Opened(g, s, generation, at, signed) ==
    /\ session' \in [Sessions -> SessionRow \cup {None}]
    /\ head' \in [Gateways -> HeadRow]
    /\ ~Exists(s)
    /\ s # head[g].current
    /\ session'[s] = buildActiveSession(g, generation, nextEpoch(g), at,
                                        signed, cursor[g])
    /\ session'[s] \in SessionRow
    /\ \A x \in Sessions : x # s /\ x # head[g].current =>
         session'[x] = session[x]
    /\ head[g].current # None =>
         /\ head[g].current \in Sessions
         /\ session[head[g].current] \in SessionRow
         /\ session[head[g].current].state # "closed"
         /\ session'[head[g].current]
              = fenceCloudLinkSession(session[head[g].current], at)
         /\ session'[head[g].current] \in SessionRow
    /\ head'[g] = [lastEpoch |-> nextEpoch(g), current |-> s]
    /\ \A h \in Gateways : h # g => head'[h] = head[h]

\* What an opening does, spelled out: one new row, the head moved to it, the
\* previous session (if any) fenced, every other row as it was.
LEMMA FenceAndInsertEffect ==
    ASSUME TypeOK, PointersResolve,
           NEW g \in Gateways, NEW s \in Sessions, NEW generation \in Generations,
           NEW at \in Nat, NEW signed \in BOOLEAN,
           FenceAndInsert(g, s, generation, at, signed)
    PROVE  Opened(g, s, generation, at, signed)
<1> DEFINE c == head[g].current
<1>1. /\ head[g] \in HeadRow
      /\ head[g].lastEpoch \in Nat
      /\ c \in Sessions \cup {None}
      /\ cursor[g] \in Cursors
  BY DEF TypeOK, HeadRow
<1>2. nextEpoch(g) \in Nat
  BY <1>1 DEF nextEpoch
<1>3. /\ session[s] = None
      /\ CanFenceCurrent(g, at)
      /\ session' =
           [x \in Sessions |->
              IF x = s THEN buildActiveSession(g, generation, nextEpoch(g), at,
                                               signed, cursor[g])
              ELSE IF x = c THEN fenceCloudLinkSession(session[x], at)
              ELSE session[x]]
      /\ head' = [head EXCEPT ![g] = [lastEpoch |-> nextEpoch(g), current |-> s]]
  BY DEF FenceAndInsert
<1>4. ~Exists(s) /\ s # c
  <2>1. ~Exists(s)
    BY <1>3 DEF Exists
  <2>2. s # None
    BY RepositoryAssumption
  <2> QED
    BY <2>1, <2>2 DEF PointersResolve
<1>5. buildActiveSession(g, generation, nextEpoch(g), at, signed, cursor[g]) \in SessionRow
  BY <1>1, <1>2, BuildRow
<1>6. ASSUME c # None
      PROVE  /\ c \in Sessions
             /\ session[c] \in SessionRow
             /\ session[c].state # "closed"
             /\ fenceCloudLinkSession(session[c], at) \in SessionRow
  <2>1. c \in Sessions /\ session[c] # None
    BY <1>1, <1>6 DEF PointersResolve, Exists
  <2>2. session[c] \in SessionRow
    BY <2>1 DEF TypeOK
  <2>3. session[c].state # "closed"
    BY <1>3, <1>6 DEF CanFenceCurrent, CanFence
  <2> QED
    BY <2>1, <2>2, <2>3, FenceRow
<1>7. \A x \in Sessions : session'[x] \in SessionRow \cup {None}
  <2> TAKE x \in Sessions
  <2>1. CASE x = s
    BY <2>1, <1>3, <1>5
  <2>2. CASE x # s /\ x = c
    BY <2>2, <1>3, <1>6, RepositoryAssumption
  <2>3. CASE x # s /\ x # c
    BY <2>3, <1>3 DEF TypeOK
  <2> QED
    BY <2>1, <2>2, <2>3
<1>8. session' \in [Sessions -> SessionRow \cup {None}]
  BY <1>3, <1>7
<1>9. head' \in [Gateways -> HeadRow]
  BY <1>2, <1>3 DEF TypeOK, HeadRow
<1>10. session'[s] = buildActiveSession(g, generation, nextEpoch(g), at, signed, cursor[g])
  BY <1>3
<1>11. \A x \in Sessions : x # s /\ x # c => session'[x] = session[x]
  BY <1>3
<1>12. c # None => session'[c] = fenceCloudLinkSession(session[c], at)
  BY <1>3, <1>4, <1>6
<1>13. /\ head'[g] = [lastEpoch |-> nextEpoch(g), current |-> s]
       /\ \A h \in Gateways : h # g => head'[h] = head[h]
  BY <1>3 DEF TypeOK
<1> HIDE DEF c
<1> QED
  BY <1>4, <1>5, <1>6, <1>8, <1>9, <1>10, <1>11, <1>12, <1>13 DEF c, Opened

\* What a leased row becomes is a row again.
LEMMA HealthTransitionRow ==
    ASSUME NEW row \in SessionRow, NEW at \in Nat
    PROVE  /\ healthTransition(row, at) \in SessionRow
           /\ healthTransition(row, at).revision = row.revision + 1
           /\ healthTransition(row, at).gateway = row.gateway
<1>1. CASE row.state = "active"
  BY <1>1, SuspectRow DEF healthTransition
<1>2. CASE row.state # "active"
  BY <1>2, TimeOutRow DEF healthTransition
<1> QED
  BY <1>1, <1>2

\* Taking a row out of a sweep leaves a sweep, or none.
LEMMA WithoutType ==
    ASSUME TypeOK, NEW w \in Sweepers, NEW s \in Sessions, sweeps[w] # None
    PROVE  Without(w, s) \in [Sweepers -> Sweep \cup {None}]
<1> DEFINE rest == [sweeps[w].rows EXCEPT ![s] = None]
<1>1. sweeps[w] \in Sweep
  BY DEF TypeOK
<1>2. rest \in [Sessions -> SessionRow \cup {None}]
  BY <1>1 DEF Sweep
<1>3. [sweeps EXCEPT ![w] = None] \in [Sweepers -> Sweep \cup {None}]
  BY DEF TypeOK
<1>4. [sweeps[w] EXCEPT !.rows = rest] \in Sweep
  <2> HIDE DEF rest
  <2> QED
    BY <1>1, <1>2 DEF Sweep
<1>5. [sweeps EXCEPT ![w].rows = rest] \in [Sweepers -> Sweep \cup {None}]
  <2> HIDE DEF rest
  <2> QED
    BY <1>4 DEF TypeOK
<1> QED
  BY <1>3, <1>5 DEF Without

\* The empty database is well typed and its pointers resolve.
LEMMA TypeInit == Init => TypeOK /\ PointersResolve
<1> SUFFICES ASSUME Init PROVE TypeOK /\ PointersResolve
  OBVIOUS
<1> USE DEF Init, RepositoryInit, ChallengeInit
<1>1. TypeOK
  BY DEF TypeOK, HeadRow, Instant, Cursors, RateRow
<1>2. PointersResolve
  BY DEF PointersResolve
<1> QED
  BY <1>1, <1>2

\* Opening a session, by either way, keeps the tables it writes typed and the
\* pointers resolved.
LEMMA FenceAndInsertTypes ==
    ASSUME TypeOK, PointersResolve,
           NEW g \in Gateways, NEW s \in Sessions, NEW generation \in Generations,
           NEW at \in Nat, NEW signed \in BOOLEAN,
           FenceAndInsert(g, s, generation, at, signed)
    PROVE  /\ session' \in [Sessions -> SessionRow \cup {None}]
           /\ head' \in [Gateways -> HeadRow]
           /\ \A h \in Gateways : head'[h].current # None => session'[head'[h].current] # None
           /\ \A x \in Sessions : Exists(x) => Exists(x)'
<1>1. /\ session' \in [Sessions -> SessionRow \cup {None}]
      /\ head' \in [Gateways -> HeadRow]
      /\ session'[s] \in SessionRow
      /\ head[g].current # None => session'[head[g].current] \in SessionRow
      /\ \A x \in Sessions : x # s /\ x # head[g].current => session'[x] = session[x]
      /\ head'[g] = [lastEpoch |-> nextEpoch(g), current |-> s]
      /\ \A h \in Gateways : h # g => head'[h] = head[h]
  BY FenceAndInsertEffect DEF Opened
<1>2. \A x \in Sessions : Exists(x) => Exists(x)'
  BY <1>1, NoneIsNoRow, RepositoryAssumption DEF Exists
<1>3. Exists(s)'
  BY <1>1, NoneIsNoRow DEF Exists
<1>4. ASSUME NEW h \in Gateways, head'[h].current # None
      PROVE  session'[head'[h].current] # None
  <2>1. CASE h = g
    BY <2>1, <1>1, <1>3 DEF Exists
  <2>2. CASE h # g
    <3>1. head'[h] = head[h] /\ head[h].current \in Sessions
      BY <2>2, <1>1, <1>4 DEF TypeOK, HeadRow
    <3> QED
      BY <3>1, <1>2, <1>4 DEF PointersResolve, Exists
  <2> QED
    BY <2>1, <2>2
<1> QED
  BY <1>1, <1>2, <1>4

\* The passing of time keeps types and pointers.
LEMMA TypeTick ==
    ASSUME TypeOK, PointersResolve, Tick, UNCHANGED challengeVars
    PROVE  TypeOK' /\ PointersResolve'
<1> USE DEF Tick, challengeVars
<1>1. TypeOK'
  BY DEF TypeOK, Instant
<1>2. PointersResolve'
  BY DEF PointersResolve, Exists
<1> QED
  BY <1>1, <1>2

\* OpenCloudLinkSession keeps types and pointers.
LEMMA TypeOpen ==
    ASSUME TypeOK, PointersResolve, UNCHANGED challengeVars,
           NEW g \in Gateways, NEW r \in Requests, NEW s \in Sessions,
           NEW generation \in Generations, NEW at \in RecentInstants,
           Open(g, r, s, generation, at)
    PROVE  TypeOK' /\ PointersResolve'
<1>1. /\ FenceAndInsert(g, s, generation, at, FALSE)
      /\ at \in Nat
      /\ openRequests' = [openRequests EXCEPT ![g][r] = s]
      /\ UNCHANGED <<now, lease, cursor, outbox, heartbeats, sweeps, challengeVars>>
  BY InstantsAreNat DEF Open
<1>2. /\ session' \in [Sessions -> SessionRow \cup {None}]
      /\ head' \in [Gateways -> HeadRow]
      /\ \A h \in Gateways : head'[h].current # None => session'[head'[h].current] # None
  BY <1>1, FenceAndInsertTypes
<1>3. openRequests' \in [Gateways -> [Requests -> Sessions \cup {None}]]
  BY <1>1 DEF TypeOK
<1>4. TypeOK'
  BY <1>1, <1>2, <1>3 DEF TypeOK, challengeVars
<1>5. PointersResolve'
  BY <1>1, <1>2 DEF PointersResolve, Exists, challengeVars
<1> QED
  BY <1>4, <1>5

\* A heartbeat's read keeps types and pointers: the row it carries is a row.
LEMMA TypeHeartbeatRead ==
    ASSUME TypeOK, PointersResolve, UNCHANGED challengeVars,
           NEW h \in Handlers, NEW s \in Sessions, NEW generation \in Generations,
           NEW epoch \in Nat, NEW r \in Requests, NEW observedAt \in Nat,
           HeartbeatRead(h, s, generation, epoch, r, observedAt)
    PROVE  TypeOK' /\ PointersResolve'
<1>1. /\ session[s] \in SessionRow
      /\ session[s].revision \in Nat
  BY DEF HeartbeatRead, TypeOK, SessionRow
<1>2. observeCloudLinkHeartbeat(session[s], r, observedAt) \in SessionRow
  BY <1>1, ObserveRow
<1>3. heartbeats' \in [Handlers -> PendingHeartbeat \cup {None}]
  BY <1>1, <1>2 DEF HeartbeatRead, TypeOK, PendingHeartbeat
<1>4. TypeOK'
  BY <1>3 DEF HeartbeatRead, TypeOK, challengeVars
<1>5. PointersResolve'
  BY DEF HeartbeatRead, PointersResolve, Exists, challengeVars
<1> QED
  BY <1>4, <1>5

\* A heartbeat's write keeps types and pointers.
LEMMA TypeHeartbeatReplace ==
    ASSUME TypeOK, PointersResolve, UNCHANGED challengeVars,
           NEW h \in Handlers, HeartbeatReplace(h)
    PROVE  TypeOK' /\ PointersResolve'
<1>1. /\ heartbeats[h] \in PendingHeartbeat
      /\ heartbeats[h].id \in Sessions
      /\ heartbeats[h].row \in SessionRow
  BY DEF HeartbeatReplace, TypeOK, PendingHeartbeat
<1>2. /\ session' \in [Sessions -> SessionRow \cup {None}]
      /\ lease' \in [Sessions -> LeaseRow \cup {None}]
      /\ heartbeats' \in [Handlers -> PendingHeartbeat \cup {None}]
  BY <1>1 DEF HeartbeatReplace, replace, TypeOK
<1>3. TypeOK'
  BY <1>2 DEF HeartbeatReplace, TypeOK, challengeVars
<1>4. \A x \in Sessions : Exists(x) => Exists(x)'
  BY <1>1, NoneIsNoRow DEF HeartbeatReplace, replace, Exists, TypeOK
<1>5. PointersResolve'
  BY <1>4 DEF HeartbeatReplace, PointersResolve, TypeOK, HeadRow, challengeVars
<1> QED
  BY <1>3, <1>5

\* A heartbeat that ends without a write keeps types and pointers.
LEMMA TypeHeartbeatDrop ==
    ASSUME TypeOK, PointersResolve, UNCHANGED challengeVars,
           NEW h \in Handlers, HeartbeatDrop(h)
    PROVE  TypeOK' /\ PointersResolve'
<1> USE DEF HeartbeatDrop, challengeVars
<1>1. TypeOK'
  BY DEF TypeOK
<1>2. PointersResolve'
  BY DEF PointersResolve, Exists
<1> QED
  BY <1>1, <1>2

\* Leasing due rows keeps types and pointers.
LEMMA TypeLeaseDue ==
    ASSUME TypeOK, PointersResolve, UNCHANGED challengeVars,
           NEW w \in Sweepers, NEW at \in RecentInstants, NEW leased \in SUBSET Sessions,
           leaseDue(w, at, leased)
    PROVE  TypeOK' /\ PointersResolve'
<1>1. at \in Nat /\ at + LeaseDuration \in Nat
  BY InstantsAreNat, RepositoryAssumption
<1>2. lease' \in [Sessions -> LeaseRow \cup {None}]
  BY <1>1 DEF leaseDue, TypeOK, LeaseRow, Instant
<1>3. sweeps' \in [Sweepers -> Sweep \cup {None}]
  <2> DEFINE rows == [s \in Sessions |-> IF s \in leased THEN session[s] ELSE None]
  <2>1. rows \in [Sessions -> SessionRow \cup {None}]
    BY DEF TypeOK
  <2>2. sweeps' = [sweeps EXCEPT ![w] = [evaluatedAt |-> at, rows |-> rows]]
    BY DEF leaseDue
  <2> HIDE DEF rows
  <2> QED
    BY <1>1, <2>1, <2>2 DEF TypeOK, Sweep, Instant
<1>4. TypeOK'
  BY <1>2, <1>3 DEF leaseDue, TypeOK, challengeVars
<1>5. PointersResolve'
  BY DEF leaseDue, PointersResolve, Exists, challengeVars
<1> QED
  BY <1>4, <1>5

\* Completing a leased row keeps types and pointers.
LEMMA TypeSweepComplete ==
    ASSUME TypeOK, PointersResolve, UNCHANGED challengeVars,
           NEW w \in Sweepers, NEW s \in Sessions, SweepComplete(w, s)
    PROVE  TypeOK' /\ PointersResolve'
<1> DEFINE copy == sweeps[w].rows[s]
           row  == healthTransition(copy, sweeps[w].evaluatedAt)
<1>1. sweeps[w] \in Sweep /\ copy # None
  BY DEF SweepComplete, TypeOK
<1>2. copy \in SessionRow /\ sweeps[w].evaluatedAt \in Nat
  BY <1>1 DEF Sweep, Instant
<1>3. row \in SessionRow
  BY <1>2, HealthTransitionRow
<1>4. row.gateway \in Gateways /\ row.revision \in Nat
  BY <1>3 DEF SessionRow
<1>5. /\ session' = [session EXCEPT ![s] = row]
      /\ lease' = [lease EXCEPT ![s] = None]
      /\ outbox' = outbox \cup {[session |-> s, revision |-> row.revision,
                                 event |-> healthEvent(row)]}
      /\ head' = IF row.state = "closed" /\ head[row.gateway].current = s
                 THEN [head EXCEPT ![row.gateway].current = None]
                 ELSE head
      /\ sweeps' = Without(w, s)
      /\ UNCHANGED <<now, openRequests, cursor, heartbeats>>
  BY DEF SweepComplete, complete
<1> HIDE DEF row
<1>6. session' \in [Sessions -> SessionRow \cup {None}]
  BY <1>3, <1>5 DEF TypeOK
<1>7. lease' \in [Sessions -> LeaseRow \cup {None}]
  BY <1>5 DEF TypeOK
<1>8. outbox' \subseteq HealthEvent
  BY <1>4, <1>5 DEF TypeOK, HealthEvent, healthEvent
<1>9. head' \in [Gateways -> HeadRow]
  BY <1>4, <1>5 DEF TypeOK, HeadRow
<1>10. sweeps' \in [Sweepers -> Sweep \cup {None}]
  BY <1>1, <1>5, WithoutType DEF SweepComplete
<1>11. TypeOK'
  BY <1>5, <1>6, <1>7, <1>8, <1>9, <1>10 DEF TypeOK, challengeVars
<1>12. \A x \in Sessions : Exists(x) => session'[x] # None
  BY <1>3, <1>5, NoneIsNoRow DEF Exists, TypeOK
<1>13. ASSUME NEW g \in Gateways, head'[g].current # None
       PROVE  head'[g].current = head[g].current /\ head[g].current \in Sessions
  BY <1>4, <1>5, <1>13 DEF TypeOK, HeadRow
<1>14. PointersResolve'
  BY <1>12, <1>13 DEF PointersResolve, Exists, challengeVars
<1> QED
  BY <1>11, <1>14

\* Skipping a row whose lease is lost keeps types and pointers.
LEMMA TypeSweepLeaseLost ==
    ASSUME TypeOK, PointersResolve, UNCHANGED challengeVars,
           NEW w \in Sweepers, NEW s \in Sessions, SweepLeaseLost(w, s)
    PROVE  TypeOK' /\ PointersResolve'
<1>1. sweeps' \in [Sweepers -> Sweep \cup {None}]
  BY WithoutType DEF SweepLeaseLost
<1>2. TypeOK'
  BY <1>1 DEF SweepLeaseLost, TypeOK, challengeVars
<1>3. PointersResolve'
  BY DEF SweepLeaseLost, PointersResolve, Exists, challengeVars
<1> QED
  BY <1>2, <1>3

\* A sweep that ends early keeps types and pointers.
LEMMA TypeSweepAbort ==
    ASSUME TypeOK, PointersResolve, UNCHANGED challengeVars,
           NEW w \in Sweepers, SweepAbort(w)
    PROVE  TypeOK' /\ PointersResolve'
<1> USE DEF SweepAbort, challengeVars
<1>1. TypeOK'
  BY DEF TypeOK
<1>2. PointersResolve'
  BY DEF PointersResolve, Exists
<1> QED
  BY <1>1, <1>2

\* Recording a stream position keeps types and pointers.
LEMMA TypeRecordDurableCursor ==
    ASSUME TypeOK, PointersResolve, UNCHANGED challengeVars,
           NEW s \in Sessions, NEW generation \in Generations, NEW epoch \in Nat,
           NEW st \in Streams, NEW position \in Nat,
           recordDurableCursor(s, generation, epoch, st, position)
    PROVE  TypeOK' /\ PointersResolve'
<1>1. session[s].gateway \in Gateways
  BY DEF recordDurableCursor, TypeOK, SessionRow
<1>2. cursor' \in [Gateways -> Cursors]
  BY <1>1 DEF recordDurableCursor, TypeOK, Cursors
<1>3. TypeOK'
  BY <1>2 DEF recordDurableCursor, TypeOK, challengeVars
<1>4. PointersResolve'
  BY DEF recordDurableCursor, PointersResolve, Exists, challengeVars
<1> QED
  BY <1>3, <1>4

\* Counting a challenge request leaves well-typed rate windows.
LEMMA CountRequestType ==
    ASSUME TypeOK, NEW g \in Gateways, NEW at \in Nat, CountRequest(g, at)
    PROVE  rate' \in [Gateways -> RateRow]
<1>1. rate[g] \in RateRow
  BY DEF TypeOK
<1>2. [rate[g] EXCEPT !.count = @ + 1] \in RateRow
  BY <1>1 DEF RateRow
<1>3. [startedAt |-> at, count |-> 1] \in RateRow
  BY DEF RateRow, Instant
<1>4. rate' = [rate EXCEPT ![g] = IF ResetsWindow(g, at)
                                  THEN [startedAt |-> at, count |-> 1]
                                  ELSE [rate[g] EXCEPT !.count = @ + 1]]
  BY DEF CountRequest
<1> QED
  BY <1>2, <1>3, <1>4 DEF TypeOK

\* Issuing a challenge keeps types and pointers.
LEMMA TypeIssue ==
    ASSUME TypeOK, PointersResolve,
           NEW g \in Gateways, NEW generation \in Generations, NEW q \in HelloStates,
           NEW c \in Challenges, NEW at \in RecentInstants,
           issue(g, generation, q, c, at)
    PROVE  TypeOK' /\ PointersResolve'
<1>1. at \in Nat /\ at + ChallengeTtl \in Nat
  BY InstantsAreNat, ChallengeAssumption
<1>2. rate' \in [Gateways -> RateRow]
  BY <1>1, CountRequestType DEF issue
<1> DEFINE fresh == [gateway |-> g, generation |-> generation, request |-> q,
                     issuedAt |-> at, expiresAt |-> at + ChallengeTtl,
                     fingerprint |-> None, session |-> None,
                     consumedAt |-> None, supersededAt |-> None]
<1>3. challenge' =
        [x \in Challenges |->
           IF x = c THEN fresh
           ELSE IF x \in Pending(g) THEN [challenge[x] EXCEPT !.supersededAt = at]
           ELSE challenge[x]]
  BY DEF issue
<1>4. fresh \in ChallengeRow
  BY <1>1 DEF ChallengeRow, Instant
<1>5. \A x \in Challenges :
        x \in Pending(g) => [challenge[x] EXCEPT !.supersededAt = at] \in ChallengeRow
  BY <1>1 DEF Pending, TypeOK, ChallengeRow, Instant
<1> HIDE DEF fresh
<1>6. challenge' \in [Challenges -> ChallengeRow \cup {None}]
  BY <1>3, <1>4, <1>5 DEF TypeOK
<1>7. \A x \in Challenges : challenge[x] # None => challenge'[x] # None
  BY <1>3, <1>4, <1>5, NoneIsNoRow
<1>8. TypeOK'
  BY <1>2, <1>6 DEF issue, TypeOK, repositoryVars
<1>9. PointersResolve'
  BY <1>7 DEF issue, PointersResolve, Exists, TypeOK, PendingHello, repositoryVars
<1> QED
  BY <1>8, <1>9

\* Returning the pending challenge again keeps types and pointers.
LEMMA TypeIssueAgain ==
    ASSUME TypeOK, PointersResolve,
           NEW g \in Gateways, NEW at \in RecentInstants, IssueAgain(g, at)
    PROVE  TypeOK' /\ PointersResolve'
<1>1. at \in Nat
  BY InstantsAreNat
<1>2. rate' \in [Gateways -> RateRow]
  BY <1>1, CountRequestType DEF IssueAgain
<1>3. TypeOK'
  BY <1>2 DEF IssueAgain, TypeOK, repositoryVars
<1>4. PointersResolve'
  BY DEF IssueAgain, PointersResolve, Exists, repositoryVars
<1> QED
  BY <1>3, <1>4

\* Looking up the challenge of a hello keeps types and pointers.
LEMMA TypeAcceptHello ==
    ASSUME TypeOK, PointersResolve,
           NEW a \in Acceptors, NEW c \in Challenges, NEW generation \in Generations,
           NEW q \in HelloStates, NEW f \in Fingerprints,
           AcceptHello(a, c, generation, q, f)
    PROVE  TypeOK' /\ PointersResolve'
<1>1. hellos' \in [Acceptors -> PendingHello \cup {None}]
  BY DEF AcceptHello, TypeOK, PendingHello, Instant
<1>2. TypeOK'
  BY <1>1 DEF AcceptHello, TypeOK, repositoryVars
<1>3. PointersResolve'
  BY DEF AcceptHello, PointersResolve, Exists, TypeOK, repositoryVars
<1> QED
  BY <1>2, <1>3

\* Consuming a challenge and opening its session keeps types and pointers.
LEMMA TypeAcceptAndOpen ==
    ASSUME TypeOK, PointersResolve,
           NEW a \in Acceptors, NEW s \in Sessions, NEW openedAt \in RecentInstants,
           acceptAndOpen(a, s, openedAt)
    PROVE  TypeOK' /\ PointersResolve'
<1> DEFINE hello == hellos[a]
           c     == hello.challenge
           g     == challenge[c].gateway
<1>1. /\ hello \in PendingHello
      /\ c \in Challenges
      /\ hello.generation \in Generations
      /\ hello.fingerprint \in Fingerprints
      /\ hello.evaluatedAt \in Nat
  BY DEF acceptAndOpen, TypeOK, PendingHello, Instant
<1>2. challenge[c] \in ChallengeRow
  BY <1>1 DEF acceptAndOpen, PointersResolve, TypeOK
<1>3. g \in Gateways
  BY <1>2 DEF ChallengeRow
<1>4. openedAt \in Nat
  BY InstantsAreNat
<1>5. /\ FenceAndInsert(g, s, hello.generation, openedAt, TRUE)
      /\ ConsumeChallenge(hello, s)
      /\ hellos' = [hellos EXCEPT ![a] = None]
      /\ UNCHANGED <<rate, now, lease, openRequests, cursor, outbox, heartbeats, sweeps>>
  BY DEF acceptAndOpen
<1> HIDE DEF g, c, hello
<1>6. /\ session' \in [Sessions -> SessionRow \cup {None}]
      /\ head' \in [Gateways -> HeadRow]
      /\ \A h \in Gateways : head'[h].current # None => session'[head'[h].current] # None
  BY <1>1, <1>3, <1>4, <1>5, FenceAndInsertTypes
<1>7. [challenge[c] EXCEPT !.fingerprint = hello.fingerprint, !.session = s,
                           !.consumedAt = hello.evaluatedAt] \in ChallengeRow
  BY <1>1, <1>2 DEF ChallengeRow, Instant
<1>8. challenge' = [challenge EXCEPT ![c] =
         [challenge[c] EXCEPT !.fingerprint = hello.fingerprint, !.session = s,
                              !.consumedAt = hello.evaluatedAt]]
  BY <1>1, <1>5 DEF ConsumeChallenge, c
<1>9. challenge' \in [Challenges -> ChallengeRow \cup {None}]
  BY <1>7, <1>8 DEF TypeOK
<1>10. \A x \in Challenges : challenge[x] # None => challenge'[x] # None
  BY <1>7, <1>8, NoneIsNoRow DEF TypeOK
<1>11. hellos' \in [Acceptors -> PendingHello \cup {None}]
  BY <1>5 DEF TypeOK
<1>12. TypeOK'
  BY <1>5, <1>6, <1>9, <1>11 DEF TypeOK
<1>13. \A b \in Acceptors : hellos'[b] # None =>
          hellos'[b] = hellos[b] /\ hellos[b].challenge \in Challenges
  BY <1>5 DEF TypeOK, PendingHello
<1>14. PointersResolve'
  BY <1>6, <1>10, <1>13 DEF PointersResolve, Exists
<1> QED
  BY <1>12, <1>14

\* A hello that writes nothing keeps types and pointers.
LEMMA TypeHelloDrop ==
    ASSUME TypeOK, PointersResolve, NEW a \in Acceptors, HelloDrop(a)
    PROVE  TypeOK' /\ PointersResolve'
<1> USE DEF HelloDrop, repositoryVars
<1>1. TypeOK'
  BY DEF TypeOK
<1>2. PointersResolve'
  BY DEF PointersResolve, Exists
<1> QED
  BY <1>1, <1>2

\* A step that changes no variable keeps types and pointers.
LEMMA TypeStutter ==
    ASSUME TypeOK, PointersResolve, UNCHANGED vars
    PROVE  TypeOK' /\ PointersResolve'
<1> USE DEF vars, repositoryVars, challengeVars
<1>1. TypeOK'
  BY DEF TypeOK
<1>2. PointersResolve'
  BY DEF PointersResolve, Exists
<1> QED
  BY <1>1, <1>2

\* Every step of the plane keeps types and pointers.
LEMMA TypeNext ==
    TypeOK /\ PointersResolve /\ [Next]_vars => TypeOK' /\ PointersResolve'
<1> SUFFICES ASSUME TypeOK, PointersResolve, [Next]_vars
             PROVE  TypeOK' /\ PointersResolve'
  OBVIOUS
<1>1. MaxTime + Interval \in Nat /\ MaxEpoch \in Nat /\ MaxPosition \in Nat
  BY RepositoryAssumption, IntervalAssumption
<1>2. CASE RepositoryNext /\ UNCHANGED challengeVars
  <2>1. CASE Tick
    BY <1>2, <2>1, TypeTick
  <2>2. CASE OpenNext
    BY <1>2, <2>2, TypeOpen DEF OpenNext
  <2>3. CASE HeartbeatNext
    <3>1. ASSUME NEW h \in Handlers, NEW s \in Sessions, NEW generation \in Generations,
                 NEW epoch \in 1..MaxEpoch, NEW r \in Requests,
                 NEW observedAt \in 0..(MaxTime + Interval),
                 HeartbeatRead(h, s, generation, epoch, r, observedAt)
          PROVE  TypeOK' /\ PointersResolve'
      BY <1>1, <1>2, <3>1, TypeHeartbeatRead
    <3>2. ASSUME NEW h \in Handlers, HeartbeatReplace(h)
          PROVE  TypeOK' /\ PointersResolve'
      BY <1>2, <3>2, TypeHeartbeatReplace
    <3>3. ASSUME NEW h \in Handlers, HeartbeatDrop(h)
          PROVE  TypeOK' /\ PointersResolve'
      BY <1>2, <3>3, TypeHeartbeatDrop
    <3> QED
      BY <2>3, <3>1, <3>2, <3>3 DEF HeartbeatNext
  <2>4. CASE SweepNext
    <3>1. ASSUME NEW w \in Sweepers, NEW at \in RecentInstants,
                 NEW leased \in SUBSET Sessions, leaseDue(w, at, leased)
          PROVE  TypeOK' /\ PointersResolve'
      BY <1>2, <3>1, TypeLeaseDue
    <3>2. ASSUME NEW w \in Sweepers, NEW s \in Sessions, SweepComplete(w, s)
          PROVE  TypeOK' /\ PointersResolve'
      BY <1>2, <3>2, TypeSweepComplete
    <3>3. ASSUME NEW w \in Sweepers, NEW s \in Sessions, SweepLeaseLost(w, s)
          PROVE  TypeOK' /\ PointersResolve'
      BY <1>2, <3>3, TypeSweepLeaseLost
    <3>4. ASSUME NEW w \in Sweepers, SweepAbort(w)
          PROVE  TypeOK' /\ PointersResolve'
      BY <1>2, <3>4, TypeSweepAbort
    <3> QED
      BY <2>4, <3>1, <3>2, <3>3, <3>4 DEF SweepNext
  <2>5. CASE CursorNext
    <3>1. ASSUME NEW s \in Sessions, NEW generation \in Generations,
                 NEW epoch \in 1..MaxEpoch, NEW st \in Streams,
                 NEW position \in 1..MaxPosition,
                 recordDurableCursor(s, generation, epoch, st, position)
          PROVE  TypeOK' /\ PointersResolve'
      BY <1>1, <1>2, <3>1, TypeRecordDurableCursor
    <3> QED
      BY <2>5, <3>1 DEF CursorNext
  <2> QED
    BY <1>2, <2>1, <2>2, <2>3, <2>4, <2>5 DEF RepositoryNext
<1>3. CASE ChallengeNext
  <2>1. CASE IssueNext
    BY <2>1, TypeIssue, TypeIssueAgain DEF IssueNext
  <2>2. CASE HelloNext
    BY <2>2, TypeAcceptHello, TypeAcceptAndOpen, TypeHelloDrop DEF HelloNext
  <2> QED
    BY <1>3, <2>1, <2>2 DEF ChallengeNext
<1>4. CASE UNCHANGED vars
  BY <1>4, TypeStutter
<1> QED
  BY <1>2, <1>3, <1>4 DEF Next

\* The tables and the in-flight commands keep their shapes, for any number of
\* Gateways, sessions, handlers and workers and for any bounds.
THEOREM TypeCorrect == Spec => []TypeOK
<1>1. Init => TypeOK /\ PointersResolve
  BY TypeInit
<1>2. TypeOK /\ PointersResolve /\ [Next]_vars => TypeOK' /\ PointersResolve'
  BY TypeNext
<1> QED
  BY <1>1, <1>2, PTL DEF Spec
=============================================================================
