CONSTANTS
    None = None
    j1 = j1
    on = on
    off = off
    r1 = r1
    r2 = r2
    r3 = r3
    a = a
    b = b
    x = x
    y = y
    z = z
    p1 = p1
    p2 = p2
    Processes = {p1, p2}
    Jobs = {j1}
    Commands <- MCCommands
    Messages <- MCMessages
    StreamIds = {a, b}
    MaxStreamEpoch = 1
    MaxPosition = 2
    MaxEpoch = 2
    MaxTime = 1
SYMMETRY ProcessSymmetry
SPECIFICATION Spec
INVARIANTS
    OneIntentPerJob
    OneOfferPerSession
    EvidenceIsContiguous
    AcknowledgedIsStored
CHECK_DEADLOCK FALSE
