CONSTANTS
    None = None
    j1 = j1
    x = x
    y = y
    z = z
    a = a
    b = b
    p1 = p1
    p2 = p2
    r1 = r1
    r2 = r2
    MaxTime = 1
    Processes = {p1, p2}
    Jobs = {j1}
    Requests = {0, 1, 2, 3, 4, 5, 6, 7, 8, 9, 10, 11, 12}
    Creations <- MCCreations
    Orders <- MCOrders
    Messages <- MCMessages
    MaxSequence = 3
    EnrollmentCalls = {1, 2}
    Services = {x, y}
    Remembering = {x}
    ServiceOf <- MCServiceOf
    EnrollmentCommands <- MCEnrollmentCommands
    MaxToken = 2
    Artifacts = {a, b}
    DeploymentRequests = {0, 1, 2, 3, 4, 5, 6, 7}
    Starts <- MCStarts
    Controls <- MCControls
    Rollbacks <- MCRollbacks
    DeploymentReports <- MCDeploymentReports
    Occurrences = {"o"}
    AlarmDeliveries <- MCAlarmDeliveries
    AlarmOrders <- MCAlarmOrders
    Workers = {p1, p2}
    WebhookRequests = {r1, r2}
    MaxAttempts = 2
    ExportRequests = {r1, r2, x, y}
    Expiry = 1
    Callers = {p1, p2}
    SubscriptionRequests = {r1, r2, x}
    Publishers = {p1, p2}
    Publications <- MCPublications
    ListedGateways = {1, 2}
    Integrations = {1, 2}
    Places = {1, 2, 3}
    EventActions = {1, 2}
    Limits = {1, 2}
    Reporters = {p1, p2}
    ManifestReports <- MCManifestReports
SYMMETRY ProcessSymmetry
SPECIFICATION MCSpec
INVARIANTS
    ProjectionFollowsReceipts
    OneHistory
    OneEnrollment
    EdgeFactsStand
    AlarmFollowsFacts
    WebhookTruth
    RecordsStand
    PagesAreComplete
CHECK_DEADLOCK FALSE
