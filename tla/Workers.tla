------------------------------ MODULE Workers --------------------------------
(***************************************************************************)
(* The parts that run on their own, side by side: the health workers, the  *)
(* delivery of acknowledgements, the transactions inside the session       *)
(* repository, the life of the ingress process, the bridge inside it, the  *)
(* uplinks that are signed one by one, the planning of deployment stacks,  *)
(* two pages of the web console, and the life of the API process.  Each    *)
(* looks at one part of the system closely and has variables of its own,   *)
(* so the parts take their steps in any order.  What each promises is a    *)
(* definition of its own module.                                           *)
(***************************************************************************)
EXTENDS Naturals, FiniteSets

CONSTANTS None, Sessions, Workers, MaxFailures                  \* of several parts
CONSTANTS Stoppable, Grace, LeaseDuration, BatchSize            \* health workers
CONSTANTS Acks, LeaseTicks, RetryTicks, BatchLimit, MaxRequests \* delivery
CONSTANTS Openers, Beaters, Completers, Recorders               \* transactions
CONSTANTS Gateways, MaxUplinks                                  \* the ingress
CONSTANTS Manifests, Bindings, Streams, MaxEpoch                \* the bridge
CONSTANTS Plans, PlanRequests, PlanCommands                     \* planning
CONSTANTS UplinkCalls, Beats, SignedDeliveries                  \* signed uplinks
CONSTANTS Interval, UplinkLease, MaxUint64, MaxTime
CONSTANTS ListedGateways, MaxFetches, PageSize                  \* the fleet page
CONSTANTS Integrations, Readings, Loads                         \* the other page
CONSTANTS Handlers                                              \* the API

VARIABLES state, age, beaten, order, alive, lease, sweeps, scheduler, sweepFailures
VARIABLES outbox, queue, deliveries, sent, owed, failures, requests
VARIABLES current, row, position, headLock, rowLock, pc, copy
VARIABLES start, transport, draining, uplinks, close, pool, process
VARIABLES signed, epoch, live, cursor, history, latest, sessions, served, handling, acks,
          handedOn
VARIABLES records, executions, holder, directories, artifacts, child
VARIABLES clock, opened, active, marks, healthLease, taking, uplinkCalls, sweep, taken
VARIABLES enrollments, fleet, page, fetches, fetchFailures
VARIABLES selected, detail, readings, catalog, loads
VARIABLES listening, handlers, apiScheduler, apiSweep, stop, pools, api

sweepVars == <<state, age, beaten, order, alive, lease, sweeps, scheduler, sweepFailures>>
deliveryVars == <<outbox, queue, deliveries, sent, owed, failures, requests>>
rowsVars == <<current, row, position, headLock, rowLock, pc, copy>>
ingressVars == <<start, transport, draining, uplinks, close, pool, process>>
bridgeVars == <<signed, epoch, live, cursor, history, latest, sessions, served, handling,
                acks, handedOn>>
planningVars == <<records, executions, holder, directories, artifacts, child>>
uplinkVars == <<clock, opened, active, marks, healthLease, taking, uplinkCalls, sweep, taken>>
fleetVars == <<enrollments, fleet, page, fetches, fetchFailures>>
integrationsVars == <<selected, detail, readings, catalog, loads>>
apiVars == <<listening, handlers, apiScheduler, apiSweep, stop, pools, api>>
workersVars == <<sweepVars, deliveryVars, rowsVars, ingressVars, bridgeVars, planningVars,
                 uplinkVars, fleetVars, integrationsVars, apiVars>>

Sweep == INSTANCE SessionHealthSweep WITH Sweepers <- Workers, failures <- sweepFailures
Delivery == INSTANCE AckDelivery
Rows == INSTANCE SessionRowLocks
Ingress == INSTANCE IngressLifecycle
Bridge == INSTANCE CloudLinkBridge
Planning == INSTANCE StackPlanning WITH Requests <- PlanRequests, Commands <- PlanCommands
Uplink == INSTANCE SignedUplink WITH
    Calls <- UplinkCalls, Deliveries <- SignedDeliveries, LeaseDuration <- UplinkLease,
    sessions <- opened, current <- active, position <- taking
FleetPage == INSTANCE FleetConsole WITH Gateways <- ListedGateways, failures <- fetchFailures
Detail == INSTANCE IntegrationsPage
Api == INSTANCE ApiLifecycle WITH scheduler <- apiScheduler, sweep <- apiSweep

ASSUME WorkersAssumption ==
    /\ Sweep!SweepAssumption /\ Delivery!OutboxAssumption /\ Delivery!DeliveryAssumption
    /\ Rows!RowLocksAssumption /\ Rows!NoneIsNoRecord
    /\ Ingress!IngressAssumption /\ Bridge!BridgeAssumption /\ Bridge!NoneIsNoRecord
    /\ Planning!PlanningAssumption /\ Planning!NoneIsNoRecord
    /\ Uplink!UplinkAssumption /\ Uplink!NoneIsNoRecord
    /\ FleetPage!ConsoleAssumption /\ FleetPage!NoneIsNoRecord
    /\ Detail!NoneIsNoRecord /\ Api!ApiAssumption

WorkersInit ==
    /\ Sweep!Init /\ Delivery!Init /\ Rows!Init /\ Ingress!Init /\ Bridge!Init
    /\ Planning!Init /\ Uplink!Init /\ FleetPage!Init /\ Detail!Init /\ Api!Init

\* A step of one part leaves the others as they are.
InSweep(A) ==
    /\ A
    /\ UNCHANGED <<deliveryVars, rowsVars, ingressVars, bridgeVars, planningVars,
                   uplinkVars, fleetVars, integrationsVars, apiVars>>
InDelivery(A) ==
    /\ A
    /\ UNCHANGED <<sweepVars, rowsVars, ingressVars, bridgeVars, planningVars,
                   uplinkVars, fleetVars, integrationsVars, apiVars>>
InRows(A) ==
    /\ A
    /\ UNCHANGED <<sweepVars, deliveryVars, ingressVars, bridgeVars, planningVars,
                   uplinkVars, fleetVars, integrationsVars, apiVars>>
InIngress(A) ==
    /\ A
    /\ UNCHANGED <<sweepVars, deliveryVars, rowsVars, bridgeVars, planningVars,
                   uplinkVars, fleetVars, integrationsVars, apiVars>>
InBridge(A) ==
    /\ A
    /\ UNCHANGED <<sweepVars, deliveryVars, rowsVars, ingressVars, planningVars,
                   uplinkVars, fleetVars, integrationsVars, apiVars>>
InPlanning(A) ==
    /\ A
    /\ UNCHANGED <<sweepVars, deliveryVars, rowsVars, ingressVars, bridgeVars,
                   uplinkVars, fleetVars, integrationsVars, apiVars>>
InUplink(A) ==
    /\ A
    /\ UNCHANGED <<sweepVars, deliveryVars, rowsVars, ingressVars, bridgeVars,
                   planningVars, fleetVars, integrationsVars, apiVars>>
InFleetPage(A) ==
    /\ A
    /\ UNCHANGED <<sweepVars, deliveryVars, rowsVars, ingressVars, bridgeVars,
                   planningVars, uplinkVars, integrationsVars, apiVars>>
InDetail(A) ==
    /\ A
    /\ UNCHANGED <<sweepVars, deliveryVars, rowsVars, ingressVars, bridgeVars,
                   planningVars, uplinkVars, fleetVars, apiVars>>
InApi(A) ==
    /\ A
    /\ UNCHANGED <<sweepVars, deliveryVars, rowsVars, ingressVars, bridgeVars,
                   planningVars, uplinkVars, fleetVars, integrationsVars>>

WorkersNext ==
    \/ InSweep(Sweep!Next) \/ InDelivery(Delivery!Next) \/ InRows(Rows!Next)
    \/ InIngress(Ingress!Next) \/ InBridge(Bridge!Next) \/ InPlanning(Planning!Next)
    \/ InUplink(Uplink!Next) \/ InFleetPage(FleetPage!Next) \/ InDetail(Detail!Next)
    \/ InApi(Api!Next)

WorkersSpec == WorkersInit /\ [][WorkersNext]_workersVars

----------------------------------------------------------------------------
\* Health workers: a copy that a worker's UPDATE would accept is of a session that
\* is overdue at this moment (SessionHealthSweep).
SweepsStayJustified == Sweep!SweepsStayJustified
\* A session whose Gateway is gone is closed in the end (SessionHealthSweep).
SilentSessionsClose == Sweep!SilentSessionsClose

\* A row counts as published only if it was published after it was last asked for
\* (AckDelivery).
PublishedMeansAnswered == Delivery!PublishedMeansAnswered
\* What is asked for is published after that, and its row is marked (AckDelivery).
AcksAreSettled == Delivery!OwedIsPublished /\ Delivery!RowsAreMarked

\* The committed head names the only committed live row (SessionRowLocks).
CommittedOneLive == Rows!CommittedOneLive
\* A committed write is based on the row that it replaces (SessionRowLocks).
NoLostUpdate == Rows!NoLostUpdate
\* A transaction that took its first lock ends, a request to plan is answered, and a
\* token whose Gateway has claimed it is put away (SessionRowLocks, StackPlanning,
\* FleetConsole).
WorkEnds == Rows!EveryTransactionEnds /\ Planning!PlansEnd /\ FleetPage!PairingIsLeft

\* An integration uplink is handed on only if it was declared, and in no session that the
\* bridge has replaced; what a report was acknowledged as stands (CloudLinkBridge).
FailsClosed == Bridge!FailsClosed
\* A clean close of the ingress, or of the API, left nothing behind (IngressLifecycle,
\* ApiLifecycle).
CleanClose == Ingress!CleanClose /\ Api!ApiClosesCleanly
\* A scheduler of health workers that is closed, and an ingress or API process that was
\* told to stop, end (SessionHealthSweep, IngressLifecycle, ApiLifecycle).
ShutdownsEnd == Sweep!ShutdownReturns /\ Ingress!ShutdownEnds /\ Api!ApiEnds

\* A plan is made under its lease, tells what it leaves behind, and stands once it is
\* recorded (StackPlanning).
PlansStand == Planning!PlansStand
\* What a session shows of its heartbeats and deliveries is what the store accepted
\* (SignedUplink).
UplinkTruth == Uplink!UplinkTruth
\* The pages of the console show what was answered last for what is chosen, and nothing
\* of what was given up (FleetConsole, IntegrationsPage).
ConsoleIsHonest == FleetPage!PairingIsTrue /\ Detail!PageIsHonest
=============================================================================
