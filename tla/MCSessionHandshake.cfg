CONSTANTS
    None = None
    Interval = 1
    Grace = 1
    Gateways = {g1}
    Sessions = {s1, s2, s3}
    Streams = {}
    Generations = {1, 2}
    Requests = {r1}
    Handlers = {}
    Sweepers = {}
    LeaseDuration = 1
    BatchSize = 1
    MaxEpoch = 2
    MaxTime = 3
    MaxDelay = 1
    MaxPosition = 0
    MaxRevision = 4
    Challenges = {c1, c2}
    HelloStates = {q1}
    Fingerprints = {f1, f2}
    Acceptors = {a1, a2}
    ChallengeTtl = 2
    RateWindow = 2
    RateMaximum = 2
SYMMETRY Symmetry
SPECIFICATION Spec
CHECK_DEADLOCK FALSE
INVARIANTS
    ChallengeOpensOnce
