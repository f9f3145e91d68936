CONSTANTS
    None = None
    Interval = 1
    Grace = 1
    Gateways = {g1}
    Sessions = {s1}
    Streams = {}
    Generations = {1}
    Requests = {r1}
    Handlers = {}
    Sweepers = {w1}
    LeaseDuration = 1
    BatchSize = 1
    MaxEpoch = 1
    MaxTime = 5
    MaxDelay = 0
    MaxPosition = 0
    MaxRevision = 5
    Challenges = {c1}
    HelloStates = {q1}
    Fingerprints = {f1}
    Acceptors = {a1}
    ChallengeTtl = 1
    RateWindow = 1
    RateMaximum = 1
SYMMETRY Symmetry
SPECIFICATION Spec
CHECK_DEADLOCK FALSE
PROPERTIES
    EvidenceUnderValidLease
