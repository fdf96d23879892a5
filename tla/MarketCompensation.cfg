CONSTANTS
    c1 = c1
    c2 = c2
    o1 = o1
    off = off
    deleted = deleted
    on = on
    garbled = garbled
    Consumers = {c1, c2}
    None = None
    Events = {off, deleted, on, garbled}
    Unavailable = {off, deleted}
    Malformed = {garbled}
    UpdatedAt <- UpdatedAtOf
    Orders = {o1}
    DLQEnabled = TRUE
    MaxRetries = 1
    MaxLog = 2
    Histories <- Partitions
    MaxDisruptions = 1
SPECIFICATION FairSpec
INVARIANTS TypeOK NothingLost BlockFollowsCommit
PROPERTIES KeepsContract EveryMessageSettled
CHECK_DEADLOCK FALSE
