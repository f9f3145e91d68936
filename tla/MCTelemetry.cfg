CONSTANTS
    None = None
    s1 = s1
    s2 = s2
    s3 = s3
    x = x
    y = y
    z = z
    Acks <- MCAcks
    Workers = {}
    LeaseTicks = 1
    RetryTicks = 1
    BatchLimit = 1
    MaxFailures = 0
    Persisters = {c1, c2}
    Deliveries <- AllDeliveries
    MaxPosition = 4
    Window = 1
    MaximumRecords = 4
    History = 0
SPECIFICATION Spec
INVARIANTS
    CursorIsContiguous
    AcknowledgedIsStored
    UsageIsExact
    ReceiptsStand
CHECK_DEADLOCK FALSE
