CONSTANTS
    w1 = w1
    e1 = e1
    e2 = e2
    Workers = {w1}
    Events = {e1}
    Unsupported = {}
    CreatedAt <- CreatedInOrder
    BatchSize = 1
    MaxRetries = 1
    MaxFaults = 0
SPECIFICATION Spec
INVARIANT PendingBelowMaxRetries
CHECK_DEADLOCK FALSE
