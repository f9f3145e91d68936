----------------------------- MODULE ApiLifecycle -----------------------------
(***************************************************************************)
(* The API process from its start to its exit.  It listens, answers        *)
(* requests, which may query one of its databases, and may watch the       *)
(* sessions with a scheduler of its own.  Signals come at any moment and   *)
(* more than once, a listen that fails counts as one; the close they begin *)
(* goes through the HTTP server, the scheduler and the pools, in this      *)
(* order, and nobody is certain to answer it: a deadline ends the process  *)
(* then.                                                                   *)
(***************************************************************************)
EXTENDS Naturals

CONSTANTS
    None,
    Handlers        \* requests in flight, which are served by any number of them

\* auditRepository, which the fleet shares, integrationProjectionStore and
\* cloudLinkHealthWorker have a pool each.
Pools == {"audit", "projections", "health"}
Read == {"audit", "projections"}

\* A handler that is None is not at anything.
ApiAssumption == None \notin Read \cup {"authenticating"}

VARIABLES
    listening,      \* the HTTP server
    handlers,       \* of a request: the pool it has a client of, or what it is at
    scheduler,      \* of health sweeps
    sweep,
    stop,           \* what runtime.close() awaits, or how it ended
    pools,          \* "none" if the store is in memory or the worker is disabled
    api             \* the process

vars == <<listening, handlers, scheduler, sweep, stop, pools, api>>

Ended == {"clean", "failed", "killed"}

TypeOK ==
    /\ listening \in {"binding", "up", "refused", "down"}
    /\ handlers \in [Handlers -> {None, "authenticating"} \cup Read]
    /\ scheduler \in {"none", "running", "closed"}
    /\ sweep \in BOOLEAN
    /\ stop \in {"none", "app", "scheduler", "pools", "closed", "failed"}
    /\ pools \in [Pools -> {"none", "open", "ending", "ended"}]
    /\ api \in {"running", "shutting-down"} \cup Ended

\* composeApiRuntime, by the environment; the first sweep begins at once.
Init ==
    /\ listening = "binding"
    /\ handlers = [h \in Handlers |-> None]
    /\ scheduler \in {"none", "running"}
    /\ sweep = (scheduler = "running")
    /\ stop = "none"
    /\ pools \in [Pools -> {"none", "open"}]
    /\ pools["health"] = IF scheduler = "none" THEN "none" ELSE "open"
    /\ api = "running"

Alive == api \notin Ended

----------------------------------------------------------------------------
(* Serving.                                                                *)

\* app.listen.  A server that is closed meanwhile does not listen any more.
Listen ==
    /\ Alive /\ listening = "binding"
    /\ \/ stop \in {"none", "app"} /\ listening' = "up"
       \/ listening' = "refused"
    /\ UNCHANGED <<handlers, scheduler, sweep, stop, pools, api>>

Arrives(h) ==
    /\ Alive /\ listening = "up" /\ stop = "none"
    /\ handlers[h] = None
    /\ handlers' = [handlers EXCEPT ![h] = "authenticating"]
    /\ UNCHANGED <<listening, scheduler, sweep, stop, pools, api>>

\* A use case takes a client; a pool that is ended gives none, which fails the request.
Queries(h) ==
    /\ Alive /\ handlers[h] = "authenticating"
    /\ \E p \in Read : pools[p] = "open" /\ handlers' = [handlers EXCEPT ![h] = p]
    /\ UNCHANGED <<listening, scheduler, sweep, stop, pools, api>>

\* The client is released; a use case may go on to its next transaction.
Released(h) ==
    /\ Alive /\ handlers[h] \in Read
    /\ handlers' = [handlers EXCEPT ![h] = "authenticating"]
    /\ UNCHANGED <<listening, scheduler, sweep, stop, pools, api>>

Answered(h) ==
    /\ Alive /\ handlers[h] = "authenticating"
    /\ handlers' = [handlers EXCEPT ![h] = None]
    /\ UNCHANGED <<listening, scheduler, sweep, stop, pools, api>>

\* The timer of the scheduler, which a close clears.
Sweep ==
    /\ Alive /\ scheduler = "running" /\ ~sweep
    /\ sweep' = TRUE
    /\ UNCHANGED <<listening, handlers, scheduler, stop, pools, api>>

Swept ==
    /\ Alive /\ sweep
    /\ sweep' = FALSE
    /\ UNCHANGED <<listening, handlers, scheduler, stop, pools, api>>

----------------------------------------------------------------------------
(* Closing.                                                                *)

\* shutdown, and the catch of the listen.  runtime.close() begins once.
closeOrExit ==
    /\ Alive
    /\ api' = "shutting-down"
    /\ stop' = IF stop = "none" THEN "app" ELSE stop
    /\ UNCHANGED <<listening, handlers, scheduler, sweep, pools>>

Signal == api = "running" /\ closeOrExit
ListenFailed == listening = "refused" /\ api = "running" /\ closeOrExit

\* app.close(): connections are closed over the requests that are being handled, which
\* go on.  scheduler.close() takes the timer away before it waits.
AppCloses ==
    /\ Alive /\ stop = "app"
    /\ listening' = IF listening = "up" THEN "down" ELSE listening
    /\ stop' = "scheduler"
    /\ scheduler' = IF scheduler = "running" THEN "closed" ELSE scheduler
    /\ UNCHANGED <<handlers, sweep, pools, api>>

AppCloseFails ==
    /\ Alive /\ stop = "app"
    /\ stop' = "failed"
    /\ UNCHANGED <<listening, handlers, scheduler, sweep, pools, api>>

\* A deviation: the sweep under way is not waited for.
sweptAnyway == TRUE

\* await inFlight
isSwept == ~sweep

\* All pools are told to end at once.
SchedulerCloses ==
    /\ Alive /\ stop = "scheduler" /\ isSwept
    /\ stop' = "pools"
    /\ pools' = [p \in Pools |-> IF pools[p] = "open" THEN "ending" ELSE pools[p]]
    /\ UNCHANGED <<listening, handlers, scheduler, sweep, api>>

\* A pool waits for the clients that are out.
PoolEnds(p) ==
    /\ Alive /\ pools[p] = "ending"
    /\ \A h \in Handlers : handlers[h] # p
    /\ p = "health" => ~sweep
    /\ pools' = [pools EXCEPT ![p] = "ended"]
    /\ UNCHANGED <<listening, handlers, scheduler, sweep, stop, api>>

\* Promise.all: of all, or of the first that fails.
PoolsEnd ==
    /\ Alive /\ stop = "pools"
    /\ \/ /\ \A p \in Pools : pools[p] \in {"none", "ended"}
          /\ stop' = "closed"
       \/ /\ \E p \in Pools : pools[p] = "ending"
          /\ stop' = "failed"
    /\ UNCHANGED <<listening, handlers, scheduler, sweep, pools, api>>

----------------------------------------------------------------------------
(* The end.                                                                *)

\* A deviation: the listen that failed leaves no trace in the exit code.
exitsClean == "clean"

\* process.exitCode
exitsAs == IF listening = "refused" THEN "failed" ELSE "clean"

\* After a clean close the process ends when nothing is left to do, and the top-level
\* await of the listen came to something.
Exit ==
    /\ api = "shutting-down" /\ stop = "closed"
    /\ listening # "binding"
    /\ \A h \in Handlers : handlers[h] = None
    /\ api' = exitsAs
    /\ UNCHANGED <<listening, handlers, scheduler, sweep, stop, pools>>

\* process.exit(1), when the close failed or the deadline wins the race.
ExitFailed ==
    /\ api = "shutting-down" /\ stop = "failed"
    /\ api' = "killed"
    /\ UNCHANGED <<listening, handlers, scheduler, sweep, stop, pools>>

\* A deviation: the close is awaited for as long as it takes.
mayWait == FALSE

isOverdue == stop # "closed"

Deadline ==
    /\ api = "shutting-down" /\ isOverdue
    /\ api' = "killed"
    /\ UNCHANGED <<listening, handlers, scheduler, sweep, stop, pools>>

Serve == \E h \in Handlers : Arrives(h) \/ Queries(h) \/ Released(h) \/ Answered(h)
Close == AppCloses \/ AppCloseFails \/ SchedulerCloses \/ PoolsEnd \/ \E p \in Pools : PoolEnds(p)

Next ==
    \/ Listen \/ Serve \/ Sweep \/ Swept
    \/ Signal \/ ListenFailed \/ Close \/ Exit \/ ExitFailed \/ Deadline

\* A listen comes to something, a request that waits for no database is answered, the
\* timer of the deadline fires, what is done exits.  Nobody answers a query, a sweep or
\* a close, and nobody sends a signal.
Fairness ==
    /\ WF_vars(Listen) /\ WF_vars(ListenFailed)
    /\ \A h \in Handlers : WF_vars(Answered(h))
    /\ WF_vars(Exit) /\ WF_vars(Deadline)

Spec == Init /\ [][Next]_vars /\ Fairness

----------------------------------------------------------------------------
\* A sweep runs and a request queries over pools that nobody has closed under them, and
\* a close that is reported as clean left neither behind: no listener, no sweep that
\* runs or could begin, no pool.  Only then, and if it ever listened, does the process
\* end with success.
ApiClosesCleanly ==
    /\ sweep => pools["health"] = "open"
    /\ \A h \in Handlers : handlers[h] \in Read => pools[handlers[h]] \in {"open", "ending"}
    /\ stop = "closed" =>
         /\ listening # "up" /\ scheduler # "running" /\ ~sweep
         /\ \A p \in Pools : pools[p] \in {"none", "ended"}
    /\ api = "clean" => stop = "closed" /\ listening = "down"

\* A process that was told to stop ends, whoever does not answer it.
ApiEnds == <>[](api # "shutting-down")
=============================================================================
