CONSTANTS
    r1 = r1
    r2 = r2
    Requests = {r1, r2}
    NoOrder = NoOrder
    Faults = {"commit"}
    RequestTTL = 4
    ServiceTimeout = 1
    CleanupTimeout = 0
    CompleteTimeout = 1
    CompleteAttempts = 2
    RateLimit = 2
    MaxClock = 6
SPECIFICATION Spec
SYMMETRY RequestSymmetry
INVARIANT DedupWithinTTL
CHECK_DEADLOCK FALSE
