------------------------- MODULE SessionHealthSweep -------------------------
(***************************************************************************)
(* The health workers over a long time.  Module SessionPlane checks what a *)
(* sweep may write; here the question is whether sweeping gets anywhere:   *)
(* every session whose Gateway fell silent is closed in the end, although  *)
(* a batch is bounded, workers die while they hold leases, storage fails,  *)
(* other sessions keep becoming due again, and workers are shut down.      *)
(*                                                                         *)
(* Time is relative, so that it need not stop: a session has the age of    *)
(* its baseline, cut off where it no longer matters, a lease the time it   *)
(* has left, and a revision check is the question whether the row was      *)
(* written since the worker saw it.  A clock reading belongs to the step   *)
(* that uses it.                                                           *)
(***************************************************************************)
EXTENDS Naturals, FiniteSets, Sequences

CONSTANTS
    None,
    Sessions,       \* Gateway-signed sessions, each of a Gateway of its own
    Sweepers,       \* health workers
    Stoppable,      \* the workers that may be shut down
    Grace,          \* the silence that is tolerated
    LeaseDuration,
    BatchSize,
    MaxFailures     \* how often storage fails, a worker dies in mid-sweep or a
                    \* sweep outlives its lease

SweepAssumption ==
    /\ IsFiniteSet(Sessions)
    /\ Stoppable \subseteq Sweepers
    /\ {Grace, MaxFailures} \subseteq Nat
    /\ {LeaseDuration, BatchSize} \subseteq Nat \ {0}
    /\ None \notin {"fresh", "stale"}

VARIABLES
    state,      \* of each session: "active", "suspect", "closed"
    age,        \* time since the baseline, at most Grace + 1
    beaten,     \* whether the session ever recorded a heartbeat
    order,      \* the sessions by COALESCE(last_heartbeat_at, suspect_at,
                \* activated_at), the earliest first
    alive,      \* whether the session's Gateway still sends heartbeats
    lease,      \* None, or the holder and the time left, 0 once it expired
    sweeps,     \* the leased rows a worker still has to complete, each "fresh"
                \* or, once another writer changed the row, "stale"
    scheduler,  \* of each worker: "running", "closing", "stopped"
    failures

vars == <<state, age, beaten, order, alive, lease, sweeps, scheduler, failures>>

Orders == {o \in [1..Cardinality(Sessions) -> Sessions] :
             \A i, j \in DOMAIN o : o[i] = o[j] => i = j}

TypeOK ==
    /\ state \in [Sessions -> {"active", "suspect", "closed"}]
    /\ age \in [Sessions -> 0..(Grace + 1)]
    /\ beaten \in [Sessions -> BOOLEAN]
    /\ order \in Orders
    /\ alive \in [Sessions -> BOOLEAN]
    /\ lease \in [Sessions -> [holder : Sweepers, left : 0..LeaseDuration] \cup {None}]
    /\ sweeps \in [Sweepers -> [Sessions -> {None, "fresh", "stale"}]]
    /\ scheduler \in [Sweepers -> {"running", "closing", "stopped"}]
    /\ failures \in 0..MaxFailures

Idle == [s \in Sessions |-> None]
InFlight(w) == sweeps[w] # Idle

\* An expired lease stays in its row until another worker overwrites it.
Holds(w, s) == IF lease[s] = None THEN FALSE ELSE lease[s].holder = w
Leased(s) == IF lease[s] = None THEN FALSE ELSE lease[s].left > 0

Init ==
    /\ state = [s \in Sessions |-> "active"]
    /\ age = [s \in Sessions |-> 0]
    /\ beaten = [s \in Sessions |-> FALSE]
    /\ order \in Orders
    /\ alive = [s \in Sessions |-> TRUE]
    /\ lease = [s \in Sessions |-> None]
    /\ sweeps = [w \in Sweepers |-> Idle]
    /\ scheduler = [w \in Sweepers |-> "running"]
    /\ failures = 0

----------------------------------------------------------------------------
\* The lease of a batch that is still being worked on is about to run out.
Overrun == \E w \in Sweepers, s \in Sessions :
             sweeps[w][s] = "fresh" /\ Holds(w, s) /\ Leased(s) /\ lease[s].left = 1

\* Time passes.  A sweep that is slower than its lease counts as a failure:
\* two workers that are always that slow take the rows from each other for
\* ever, so from some time on a sweep must be faster.
Tick ==
    /\ Overrun => failures < MaxFailures
    /\ failures' = IF Overrun THEN failures + 1 ELSE failures
    /\ age' = [s \in Sessions |-> IF age[s] <= Grace THEN age[s] + 1 ELSE age[s]]
    /\ lease' = [s \in Sessions |->
                   IF Leased(s) THEN [lease[s] EXCEPT !.left = @ - 1] ELSE lease[s]]
    /\ UNCHANGED <<state, beaten, order, alive, sweeps, scheduler>>

\* The row of s gets the latest sort key, and every worker's copy is stale.
MoveToEnd(s) == order' = Append(SelectSeq(order, LAMBDA x : x # s), s)
Outdate(s, w) ==
    [v \in Sweepers |->
       IF v = w THEN [sweeps[v] EXCEPT ![s] = None]
       ELSE IF sweeps[v][s] # None THEN [sweeps[v] EXCEPT ![s] = "stale"]
       ELSE sweeps[v]]

\* A deviation: the write leaves the revision and the lease as they were.
HeartbeatUnnoticed(s) ==
    /\ alive[s]
    /\ state[s] # "closed"
    /\ state' = [state EXCEPT ![s] = "active"]
    /\ age' = [age EXCEPT ![s] = 0]
    /\ beaten' = [beaten EXCEPT ![s] = TRUE]
    /\ MoveToEnd(s)
    /\ UNCHANGED <<alive, lease, sweeps, scheduler, failures>>

\* RecordCloudLinkHeartbeat: the session is active again and loses its lease.
Heartbeat(s) ==
    /\ alive[s]
    /\ state[s] # "closed"
    /\ state' = [state EXCEPT ![s] = "active"]
    /\ age' = [age EXCEPT ![s] = 0]
    /\ beaten' = [beaten EXCEPT ![s] = TRUE]
    /\ lease' = [lease EXCEPT ![s] = None]
    /\ sweeps' = Outdate(s, None)
    /\ MoveToEnd(s)
    /\ UNCHANGED <<alive, scheduler, failures>>

\* The Gateway, or the connection to it, is gone for good.
FallSilent(s) ==
    /\ alive[s]
    /\ alive' = [alive EXCEPT ![s] = FALSE]
    /\ UNCHANGED <<state, age, beaten, order, lease, sweeps, scheduler, failures>>

----------------------------------------------------------------------------
(* A sweep.                                                                *)

\* A deviation: an expired lease still hides its row.
DueNeverLeased == {s \in Sessions : state[s] # "closed" /\ lease[s] = None /\ age[s] > Grace}

Due == {s \in Sessions : state[s] # "closed" /\ ~Leased(s) /\ age[s] > Grace}

\* The first rows of the due ones in the order of the query, up to the limit.
Before(r, s) == \E i, j \in DOMAIN order : i < j /\ order[i] = r /\ order[j] = s
Batch == {s \in Due : Cardinality({r \in Due : Before(r, s)}) < BatchSize}

\* A deviation: a worker that is shut down schedules its next sweep.
SweepLeaseWhileClosing(w) ==
    /\ scheduler[w] # "stopped"
    /\ ~InFlight(w)
    /\ Batch # {}
    /\ lease' = [s \in Sessions |->
                   IF s \in Batch THEN [holder |-> w, left |-> LeaseDuration]
                   ELSE lease[s]]
    /\ sweeps' = [sweeps EXCEPT ![w] =
                    [s \in Sessions |-> IF s \in Batch THEN "fresh" ELSE None]]
    /\ UNCHANGED <<state, age, beaten, order, alive, scheduler, failures>>

\* The timer of a running worker fires and the sweep leases its batch.
SweepLease(w) ==
    /\ scheduler[w] = "running"
    /\ ~InFlight(w)
    /\ Batch # {}
    /\ lease' = [s \in Sessions |->
                   IF s \in Batch THEN [holder |-> w, left |-> LeaseDuration]
                   ELSE lease[s]]
    /\ sweeps' = [sweeps EXCEPT ![w] =
                    [s \in Sessions |-> IF s \in Batch THEN "fresh" ELSE None]]
    /\ UNCHANGED <<state, age, beaten, order, alive, scheduler, failures>>

\* The row is as it was leased and the lease has not passed to another worker.
\* (A lease that merely ran out is still accepted: the UPDATE compares it
\* with the clock reading the sweep started with.)
StillLeased(w, s) ==
    /\ sweeps[w][s] = "fresh"
    /\ Holds(w, s)

Suspect(w, s) ==
    /\ StillLeased(w, s)
    /\ state[s] = "active"
    /\ state' = [state EXCEPT ![s] = "suspect"]
    /\ age' = [age EXCEPT ![s] = 0]
    /\ lease' = [lease EXCEPT ![s] = None]
    /\ sweeps' = Outdate(s, w)
    /\ IF beaten[s] THEN UNCHANGED order ELSE MoveToEnd(s)
    /\ UNCHANGED <<beaten, alive, scheduler, failures>>

TimeOut(w, s) ==
    /\ StillLeased(w, s)
    /\ state[s] = "suspect"
    /\ state' = [state EXCEPT ![s] = "closed"]
    /\ lease' = [lease EXCEPT ![s] = None]
    /\ sweeps' = Outdate(s, w)
    /\ UNCHANGED <<age, beaten, order, alive, scheduler, failures>>

LeaseLost(w, s) ==
    /\ sweeps[w][s] # None
    /\ ~StillLeased(w, s)
    /\ sweeps' = [sweeps EXCEPT ![w][s] = None]
    /\ UNCHANGED <<state, age, beaten, order, alive, lease, scheduler, failures>>

\* Storage is unavailable, or the worker process dies and is started again:
\* the batch is forgotten and its leases run out by themselves.
SweepFail(w) ==
    /\ InFlight(w)
    /\ failures < MaxFailures
    /\ failures' = failures + 1
    /\ sweeps' = [sweeps EXCEPT ![w] = Idle]
    /\ UNCHANGED <<state, age, beaten, order, alive, lease, scheduler>>

----------------------------------------------------------------------------
(* Shutting a worker down: no further sweep starts, the one in flight is   *)
(* awaited.                                                                *)

Close(w) ==
    /\ w \in Stoppable
    /\ scheduler[w] = "running"
    /\ scheduler' = [scheduler EXCEPT ![w] = "closing"]
    /\ UNCHANGED <<state, age, beaten, order, alive, lease, sweeps, failures>>

Closed(w) ==
    /\ scheduler[w] = "closing"
    /\ ~InFlight(w)
    /\ scheduler' = [scheduler EXCEPT ![w] = "stopped"]
    /\ UNCHANGED <<state, age, beaten, order, alive, lease, sweeps, failures>>

----------------------------------------------------------------------------
CompleteOne(w) ==
    \E s \in Sessions : Suspect(w, s) \/ TimeOut(w, s) \/ LeaseLost(w, s)

Next ==
    \/ Tick
    \/ \E s \in Sessions : Heartbeat(s) \/ FallSilent(s)
    \/ \E w \in Sweepers :
          SweepLease(w) \/ CompleteOne(w) \/ SweepFail(w) \/ Close(w) \/ Closed(w)

\* Time passes, the timer of a running worker fires, a sweep proceeds through
\* its batch and an awaited shutdown returns.  Nothing makes a Gateway beat,
\* fall silent, or a worker fail.
Fairness ==
    /\ WF_vars(Tick)
    /\ \A w \in Sweepers :
          WF_vars(SweepLease(w)) /\ WF_vars(CompleteOne(w)) /\ WF_vars(Closed(w))

Spec == Init /\ [][Next]_vars /\ Fairness

----------------------------------------------------------------------------
\* A session whose Gateway is gone is closed in the end, however the workers
\* share the work: the batch order cannot starve it behind sessions that keep
\* recovering, and a lease of a dead worker does not hide it for ever.  (A silent
\* Gateway stays silent and a closed session closed.)
SilentSessionsClose == <>[](\A s \in Sessions : ~alive[s] => state[s] = "closed")

\* close() of a scheduler returns: none is closing for ever.
ShutdownReturns == <>[](\A w \in Sweepers : scheduler[w] # "closing")

\* A copy of a row that the worker's UPDATE would still accept is a copy of a
\* session that is overdue at this moment, not only when it was leased: a
\* heartbeat between the lease and the write makes the write fail.
SweepsStayJustified ==
    \A s \in Sessions, w \in Sweepers :
        StillLeased(w, s) => state[s] # "closed" /\ age[s] > Grace
=============================================================================
