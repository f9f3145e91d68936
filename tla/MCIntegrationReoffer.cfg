CONSTANTS
    None = None
    j1 = j1
    on = on
    off = off
    r1 = r1
    r2 = r2
    r3 = r3
    a = a
    b = b
    x = x
    y = y
    z = z
    p1 = p1
    p2 = p2
    Processes = {p1, p2}
    Jobs = {j1}
    Commands <- OneCommand
    Messages <- MCMessages
    StreamIds = {a, b}
    MaxStreamEpoch = 1
    MaxPosition = 2
    MaxEpoch = 2
    MaxTime = 1
SPECIFICATION Spec
CHECK_DEADLOCK FALSE
PROPERTIES
    NotOfferedAfterReceipt
