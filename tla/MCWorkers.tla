------------------------------ MODULE MCWorkers ------------------------------
(***************************************************************************)
(* An instance of Workers for TLC.  The parts share no state, so a         *)
(* behaviour is one of one of them, the "scenario", while the other parts  *)
(* stay where they began.  The fairness of each part is that of its own    *)
(* module, of its steps within the scenario.                               *)
(***************************************************************************)
EXTENDS Workers

VARIABLE scenario

vars == <<scenario, workersVars>>

\* A first report, one that takes the integration streams back, and one of a new
\* stream.
MCManifests == {[stream |-> "a", position |-> 1, digest |-> 1, integration |-> TRUE],
                [stream |-> "a", position |-> 2, digest |-> 2, integration |-> FALSE],
                [stream |-> "b", position |-> 1, digest |-> 3, integration |-> FALSE]}

\* One request that is sent with two contents.
MCPlanCommands == {[request |-> 1, stack |-> "s", content |-> 1],
                   [request |-> 1, stack |-> "s", content |-> 2]}

\* A delivery that expires.
MCSignedDeliveries == {[position |-> 1, expires |-> 2]}

Within(s, A) == scenario = s /\ A /\ UNCHANGED scenario

OfSweep(A) == Within("sweep", InSweep(A))
OfDelivery(A) == Within("delivery", InDelivery(A))
OfRows(A) == Within("rows", InRows(A))
OfIngress(A) == Within("ingress", InIngress(A))
OfPlanning(A) == Within("planning", InPlanning(A))
OfFleetPage(A) == Within("fleet page", InFleetPage(A))
OfApi(A) == Within("api", InApi(A))

MCInit ==
    /\ scenario \in {"sweep", "delivery", "rows", "ingress", "bridge", "planning",
                     "uplink", "fleet page", "integrations page", "api"}
    /\ WorkersInit
    /\ scenario # "sweep" => order = CHOOSE o \in Sweep!Orders : TRUE
    /\ scenario # "bridge" => signed
    /\ scenario # "integrations page" => loads = {CHOOSE l \in Loads : TRUE}
    /\ scenario # "api" => apiScheduler = "none" /\ pools = [p \in Api!Pools |-> "none"]

MCNext ==
    \/ OfSweep(Sweep!Next) \/ OfDelivery(Delivery!Next) \/ OfRows(Rows!Next)
    \/ OfIngress(Ingress!Next) \/ Within("bridge", InBridge(Bridge!Next))
    \/ OfPlanning(Planning!Next) \/ Within("uplink", InUplink(Uplink!Next))
    \/ OfFleetPage(FleetPage!Next) \/ Within("integrations page", InDetail(Detail!Next))
    \/ OfApi(Api!Next)

SweepFairness ==
    /\ WF_vars(OfSweep(Sweep!Tick))
    /\ \A w \in Workers :
         /\ WF_vars(OfSweep(Sweep!SweepLease(w)))
         /\ WF_vars(OfSweep(Sweep!CompleteOne(w)))
         /\ WF_vars(OfSweep(Sweep!Closed(w)))

DeliveryFairness ==
    /\ WF_vars(OfDelivery(Delivery!OutboxTick /\ UNCHANGED requests))
    /\ \A w \in Workers :
         WF_vars(OfDelivery(Delivery!DeliveryStep(w) /\ UNCHANGED requests))

RowsFairness ==
    \A t \in Rows!Transactions : WF_vars(OfRows(Rows!InFlight(t) /\ Rows!Step(t)))

IngressFairness ==
    /\ WF_vars(OfIngress(Ingress!Connect \/ Ingress!ConnectFails))
    /\ WF_vars(OfIngress(Ingress!StartFailed))
    /\ WF_vars(OfIngress(Ingress!Deadline))
    /\ \A g \in Gateways :
         WF_vars(OfIngress(Ingress!Begin(g))) /\ WF_vars(OfIngress(Ingress!Done(g)))
    /\ WF_vars(OfIngress(Ingress!Exit))

PlanningFairness == \A p \in Plans : WF_vars(OfPlanning(Planning!Step(p)))

FleetPageFairness ==
    /\ SF_vars(OfFleetPage(FleetPage!Poll))
    /\ WF_vars(OfFleetPage(FleetPage!ServeSome))
    /\ WF_vars(OfFleetPage(FleetPage!LoadSome))
    /\ WF_vars(OfFleetPage(FleetPage!CommandSome))

ApiFairness ==
    /\ WF_vars(OfApi(Api!Listen)) /\ WF_vars(OfApi(Api!ListenFailed))
    /\ \A h \in Handlers : WF_vars(OfApi(Api!Answered(h)))
    /\ WF_vars(OfApi(Api!Exit)) /\ WF_vars(OfApi(Api!Deadline))

MCSpec ==
    MCInit /\ [][MCNext]_vars
           /\ SweepFairness /\ DeliveryFairness /\ RowsFairness /\ IngressFairness
           /\ PlanningFairness /\ FleetPageFairness /\ ApiFairness
=============================================================================
