CONSTANTS
    r1 = r1
    w1 = w1
    NoTask = NoTask
    Requests = {r1}
    Workers = {w1}
    QueueSize = 1
    Staleness = 1
    ServiceTimeout = 1
    MaxVersions = 2
    MaxFaults = 1
SPECIFICATION Spec
INVARIANTS TypeOK WrongBlockHasReason NoOrderLeftBehind
