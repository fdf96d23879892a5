CONSTANTS
    r1 = r1
    w1 = w1
    Services = {"order", "spot"}
    Requests = {r1}
    Watchers = {w1}
    QueueSize = 1
    SuccessThreshold = 1
    FailureThreshold = 2
    MaxStreak = 3
    MaxStray = 1
    MaxFaults = 1
SPECIFICATION FairSpec
INVARIANTS TypeOK NothingUsedAfterClose ExitIsClean StatusFollowsChecks
PROPERTIES StopsOnItsOwn
CHECK_DEADLOCK FALSE
