CONSTANTS
    r1 = r1
    r2 = r2
    r3 = r3
    Requests = {r1, r2, r3}
    NoOrder = NoOrder
    Faults = {"crash", "reply_lost"}
    RequestTTL = 4
    ServiceTimeout = 1
    CleanupTimeout = 0
    CompleteTimeout = 1
    CompleteAttempts = 2
    RateLimit = 2
    MaxClock = 6
SPECIFICATION Spec
SYMMETRY RequestSymmetry
INVARIANTS DedupWithinTTL ErrorMeansNoOrder RecoveryNeverOlder
CHECK_DEADLOCK FALSE
