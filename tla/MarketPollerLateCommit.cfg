CONSTANTS
    i1 = i1
    i2 = i2
    w1 = w1
    w2 = w2
    Instances = {i1}
    Markets = {1, 2}
    Writers = {w1, w2}
    BatchSize = 2
    Serialized = FALSE
    Faults = {}
    MaxClock = 4
    MaxFaults = 0
SPECIFICATION Spec
INVARIANT NoChangeSkipped
CHECK_DEADLOCK FALSE
