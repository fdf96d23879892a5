CONSTANTS
    r1 = r1
    r2 = r2
    Requests = {r1, r2}
    NoOrder = NoOrder
    Faults = {"crash", "reply_lost", "resend", "commit", "late", "foreign"}
    RequestTTL = 1
    ServiceTimeout = 1
    CleanupTimeout = 0
    CompleteTimeout = 1
    CompleteAttempts = 2
    RateLimit = 1
    MaxClock = 2
SPECIFICATION FairSpec
INVARIANTS TypeOK SuccessIsDurable OrderAndEventAtomic
PROPERTY RequestAnswered
CHECK_DEADLOCK FALSE
