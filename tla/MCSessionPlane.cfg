CONSTANTS
    None = None
    Interval = 1
    Grace = 1
    Gateways = {g1}
    Sessions = {s1, s2}
    Streams = {st1}
    Generations = {1}
    Requests = {r1}
    Handlers = {h1, h2}
    Sweepers = {w1, w2}
    LeaseDuration = 1
    BatchSize = 1
    MaxEpoch = 2
    MaxTime = 4
    MaxDelay = 0
    MaxPosition = 2
    MaxRevision = 5
    Challenges = {c1}
    HelloStates = {q1}
    Fingerprints = {f1}
    Acceptors = {a1}
    ChallengeTtl = 1
    RateWindow = 1
    RateMaximum = 1
SYMMETRY Symmetry
SPECIFICATION Spec
CHECK_DEADLOCK FALSE
INVARIANTS
    OneLiveSession
    EpochFencing
    SilenceBeforeTimeout
    OutboxTruthful
    ResumeMonotone
PROPERTIES
    HeartbeatsAreKept
    ImplementsAuthority
