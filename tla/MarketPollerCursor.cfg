CONSTANTS
    i1 = i1
    i2 = i2
    w1 = w1
    w2 = w2
    Instances = {i1, i2}
    Markets = {1, 2}
    Writers = {w1, w2}
    BatchSize = 1
    Serialized = FALSE
    Faults = {"crash", "db", "commit"}
    MaxClock = 4
    MaxFaults = 2
SPECIFICATION FairSpec
INVARIANTS TypeOK SkippedOnlyIfLate
PROPERTY EveryChangeAnnounced
CHECK_DEADLOCK FALSE
