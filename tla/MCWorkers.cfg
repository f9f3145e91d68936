CONSTANTS
    None = None
    Sessions = {s1, s2}
    Workers = {w1, w2}
    MaxFailures = 1
    Stoppable = {w2}
    Grace = 1
    LeaseDuration = 2
    BatchSize = 1
    Acks = {a1, a2}
    LeaseTicks = 2
    RetryTicks = 1
    BatchLimit = 2
    MaxRequests = 4
    Openers = {o1, o2}
    Beaters = {b1}
    Completers = {c1, c2}
    Recorders = {k1}
    Gateways = {g1, g2}
    MaxUplinks = 2
    Bindings = {x, y}
    Manifests <- MCManifests
    Streams = {i1}
    MaxEpoch = 2
    Plans = {p1, p2}
    PlanRequests = {1}
    PlanCommands <- MCPlanCommands
    UplinkCalls = {"call"}
    Beats = {1, 3}
    SignedDeliveries <- MCSignedDeliveries
    Interval = 1
    UplinkLease = 1
    MaxUint64 = 5
    MaxTime = 4
    ListedGateways = {1, 2}
    MaxFetches = 2
    PageSize = 1
    Integrations = {"a", "b"}
    Readings = {"r", "s"}
    Loads = {"l", "m"}
    Handlers = {1, 2}
SPECIFICATION MCSpec
CHECK_DEADLOCK FALSE
INVARIANTS
    SweepsStayJustified
    PublishedMeansAnswered
    CommittedOneLive
    CleanClose
    FailsClosed
    PlansStand
    UplinkTruth
    ConsoleIsHonest
PROPERTIES
    SilentSessionsClose
    AcksAreSettled
    NoLostUpdate
    WorkEnds
    ShutdownsEnd
