CONSTANTS
    w1 = w1
    w2 = w2
    e1 = e1
    e2 = e2
    Workers = {w1, w2}
    Events = {e1, e2}
    Unsupported = {e2}
    CreatedAt <- CreatedInOrder
    BatchSize = 1
    MaxRetries = 1
    MaxFaults = 2
SPECIFICATION FairSpec
INVARIANTS TypeOK RetryBound OneWorkerPerRow FailedAfterAllRetries
PROPERTIES KeepsContract EveryRowClosed
CHECK_DEADLOCK FALSE
