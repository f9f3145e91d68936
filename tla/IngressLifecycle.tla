--------------------------- MODULE IngressLifecycle ---------------------------
(***************************************************************************)
(* The CloudLink ingress process from its start to its exit: it connects   *)
(* to the broker, subscribes, hands the uplinks of each Gateway on in      *)
(* their order, and is shut down by signals that may come at any moment,   *)
(* while it still connects included.  The broker, the database and a       *)
(* handler of an uplink may fail to answer for ever; only the connect is   *)
(* bounded, so a deadline ends the process when close() does not.          *)
(***************************************************************************)
EXTENDS Naturals

CONSTANTS
    Gateways,
    MaxUplinks      \* a bound on the uplinks of one Gateway

IngressAssumption == MaxUplinks \in Nat

VARIABLES
    start,          \* what runtime.start() awaits, or how it ended
    transport,      \* the connection to the broker
    draining,       \* the closing flag of the ingress
    uplinks,        \* of each Gateway: received, handed to the bridge, done
    close,          \* what runtime.close() awaits, or how it ended
    pool,           \* the connections to the database
    process         \* "running", "shutting-down" once a deadline runs, or its end

vars == <<start, transport, draining, uplinks, close, pool, process>>

Settled == {"started", "failed", "closed-early"}
Awaited == {"connect", "subscribe", "give-up", "hand-off"}
Ended == {"clean", "killed"}

TypeOK ==
    /\ start \in Awaited \cup Settled
    /\ transport \in {"none", "open", "closed", "stuck"}
    /\ draining \in BOOLEAN
    /\ uplinks \in [Gateways -> [received : 0..MaxUplinks, begun : 0..MaxUplinks,
                                 done : 0..MaxUplinks]]
    /\ close \in {"none", "start", "drain", "transport", "end-pool", "end-pool-failed",
                  "closed", "failed"}
    /\ pool \in {"open", "ended"}
    /\ process \in {"running", "shutting-down"} \cup Ended

\* The last thing server.ts does when it is loaded is to start the runtime.
Init ==
    /\ start = "connect"
    /\ transport = "none"
    /\ draining = FALSE
    /\ uplinks = [g \in Gateways |-> [received |-> 0, begun |-> 0, done |-> 0]]
    /\ close = "none"
    /\ pool = "open"
    /\ process = "running"

Alive == process \notin Ended
InFlight == \E g \in Gateways : uplinks[g].done < uplinks[g].received

----------------------------------------------------------------------------
(* Starting.                                                               *)

\* connectNodeMqttTransport, bounded by connectTimeoutMs.
Connect ==
    /\ Alive /\ start = "connect"
    /\ start' = "subscribe"
    /\ transport' = "open"
    /\ UNCHANGED <<draining, uplinks, close, pool, process>>

ConnectFails ==
    /\ Alive /\ start = "connect"
    /\ start' = "failed"
    /\ UNCHANGED <<transport, draining, uplinks, close, pool, process>>

\* A close that landed in the meantime has already begun: the ingress is closed
\* again instead of being kept.
subscribed == IF close # "none" THEN "hand-off" ELSE "started"

Subscribe ==
    /\ Alive /\ start = "subscribe"
    /\ start' = subscribed
    /\ draining' = (start' = "hand-off")
    /\ UNCHANGED <<transport, uplinks, close, pool, process>>

\* The transport is closed without waiting for uplinks that came before.
SubscribeFails ==
    /\ Alive /\ start = "subscribe"
    /\ start' = "give-up"
    /\ UNCHANGED <<transport, draining, uplinks, close, pool, process>>

\* transport.close(), which may also fail.
CloseTransport ==
    /\ transport' \in {"closed", "stuck"}
    /\ UNCHANGED <<draining, uplinks, pool, process>>

GiveUp ==
    /\ Alive /\ start = "give-up"
    /\ start' = "failed"
    /\ CloseTransport
    /\ UNCHANGED close

\* started.close() inside start(): drained, and its failure is that of the start.
HandOff ==
    /\ Alive /\ start = "hand-off" /\ ~InFlight
    /\ CloseTransport
    /\ start' = IF transport' = "closed" THEN "closed-early" ELSE "failed"
    /\ UNCHANGED close

----------------------------------------------------------------------------
(* Uplinks.  A persistent session of the broker delivers before it has     *)
(* answered the subscription.                                              *)

Receive(g) ==
    /\ Alive /\ transport = "open" /\ start # "connect" /\ ~draining
    /\ uplinks[g].received < MaxUplinks
    /\ uplinks' = [uplinks EXCEPT ![g].received = @ + 1]
    /\ UNCHANGED <<start, transport, draining, close, pool, process>>

\* The next one waits for the tail of its Gateway.
Begin(g) ==
    /\ Alive
    /\ uplinks[g].begun < uplinks[g].received
    /\ uplinks[g].begun = uplinks[g].done
    /\ uplinks' = [uplinks EXCEPT ![g].begun = @ + 1]
    /\ UNCHANGED <<start, transport, draining, close, pool, process>>

\* bridge.handle resolves or throws; either is only observed.
Done(g) ==
    /\ Alive
    /\ uplinks[g].done < uplinks[g].begun
    /\ uplinks' = [uplinks EXCEPT ![g].done = @ + 1]
    /\ UNCHANGED <<start, transport, draining, close, pool, process>>

----------------------------------------------------------------------------
(* Closing.                                                                *)

\* A signal, of which there may be many, and a start that failed.  close() begins
\* once: with the start, if that is under way, or with what it came to.
Shutdown ==
    /\ Alive
    /\ process' = "shutting-down"
    /\ close' = IF close # "none" THEN close
                ELSE IF start \in Awaited THEN "start"
                ELSE IF start = "started" THEN "drain" ELSE "end-pool"
    /\ draining' = (draining \/ close' = "drain")
    /\ UNCHANGED <<start, transport, uplinks, pool>>

Signal == process = "running" /\ Shutdown
StartFailed == start = "failed" /\ process = "running" /\ Shutdown

\* The start that close() awaited fails; only the hand-over is no error.
CloseAwaitsStart ==
    /\ Alive /\ close = "start" /\ start \in {"failed", "closed-early"}
    /\ close' = IF start = "failed" THEN "end-pool-failed" ELSE "end-pool"
    /\ UNCHANGED <<start, transport, draining, uplinks, pool, process>>

\* A deviation: the transport is closed over uplinks that are being handled.
drainedAnyway == TRUE

drained == ~InFlight

CloseDrained ==
    /\ Alive /\ close = "drain" /\ drained
    /\ close' = "transport"
    /\ UNCHANGED <<start, transport, draining, uplinks, pool, process>>

CloseClosesTransport ==
    /\ Alive /\ close = "transport"
    /\ CloseTransport
    /\ close' = IF transport' = "closed" THEN "end-pool" ELSE "end-pool-failed"
    /\ UNCHANGED start

\* The pool is ended whatever became of the transport.
CloseEndsPool ==
    /\ Alive /\ close \in {"end-pool", "end-pool-failed"}
    /\ pool' = "ended"
    /\ close' = IF close = "end-pool" THEN "closed" ELSE "failed"
    /\ UNCHANGED <<start, transport, draining, uplinks, process>>

\* Nothing is left that keeps the process running, or process.exit(1).
Exit ==
    /\ process = "shutting-down"
    /\ \/ close = "closed" /\ transport # "stuck" /\ process' = "clean"
       \/ close = "failed" /\ process' = "killed"
    /\ UNCHANGED <<start, transport, draining, uplinks, close, pool>>

\* A deviation: close() is simply awaited.
closeOrWait == close = "failed" /\ process' = "killed"

\* The deadline of closeOrExit wins the race.
closeOrExit == close # "closed" /\ process' = "killed"

Deadline ==
    /\ process = "shutting-down"
    /\ closeOrExit
    /\ UNCHANGED <<start, transport, draining, uplinks, close, pool>>

----------------------------------------------------------------------------
Handle == \E g \in Gateways : Receive(g) \/ Begin(g) \/ Done(g)
Close ==
    \/ CloseAwaitsStart \/ CloseDrained \/ CloseClosesTransport \/ CloseEndsPool \/ Exit

Next ==
    \/ Connect \/ ConnectFails \/ Subscribe \/ SubscribeFails \/ GiveUp \/ HandOff
    \/ Handle \/ Signal \/ StartFailed \/ Close \/ Deadline

\* A connect is answered or times out, what failed is closed, the timer of a deadline
\* fires, what is closed exits.  Nobody answers a subscription, a drain or a close of
\* the transport, and nobody sends a signal.
Fairness ==
    /\ WF_vars(Connect \/ ConnectFails)
    /\ WF_vars(StartFailed)
    /\ WF_vars(Deadline)
    /\ \A g \in Gateways : WF_vars(Begin(g)) /\ WF_vars(Done(g))
    /\ WF_vars(Exit)

Spec == Init /\ [][Next]_vars /\ Fairness

----------------------------------------------------------------------------
\* A shutdown that reports a clean close left nothing behind: no connection to the
\* broker and none that a start under way could still open, no pool, and nothing in
\* flight.  (Uplinks that came before a subscription that failed are not drained.)
CleanClose ==
    /\ close = "closed" =>
         /\ transport # "open"
         /\ start \in Settled
         /\ pool = "ended"
    /\ pool = "ended" /\ start # "failed" => ~InFlight

\* A process that was told to stop ends, whoever does not answer it.  (One whose start
\* failed and could not close its transport has nothing more to close and no deadline:
\* it may stay for as long as the transport does.)
ShutdownEnds ==
    <>[](process = "shutting-down" => start = "failed" /\ transport = "stuck")
=============================================================================
