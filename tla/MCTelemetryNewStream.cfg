CONSTANTS
    None = None
    s1 = s1
    s2 = s2
    s3 = s3
    x = x
    y = y
    z = z
    Acks <- MCAcks
    Workers = {}
    LeaseTicks = 1
    RetryTicks = 1
    BatchLimit = 1
    MaxFailures = 0
    Persisters = {c1, c2}
    Deliveries <- BridgeDeliveries
    MaxPosition = 3
    Window = 2
    MaximumRecords = 3
    History <- NewStream
SPECIFICATION Spec
INVARIANTS
    CursorIsContiguous
CHECK_DEADLOCK FALSE
