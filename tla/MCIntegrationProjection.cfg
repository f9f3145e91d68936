CONSTANTS
    None = None
    i1 = i1
    i2 = i2
    x = x
    y = y
    a = a
    b = b
    p1 = p1
    p2 = p2
    Processes = {p1, p2}
    Messages <- MCMessages
    Integrations = {i1, i2}
    Generations = {1, 2}
    Points = {x, y}
    Streams = {a, b}
    MaxPosition = 3
    MaxTime = 1
    Stores = {"memory", "postgres"}
    MaxVersion = 2
SYMMETRY ProcessSymmetry
SPECIFICATION Spec
INVARIANTS
    AcknowledgedIsApplied
    ProjectionIsSum
PROPERTIES
    NeverBackwards
CHECK_DEADLOCK FALSE
