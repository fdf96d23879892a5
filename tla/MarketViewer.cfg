CONSTANTS
    i1 = i1
    Instances = {i1}
    Markets = {1, 2}
    Existing = {1}
    Admin = Admin
    Viewer = Viewer
    User = User
    CacheTTL = 1
    ServiceTimeout = 1
    DefaultLimit = 1
    MaxLimit = 2
    CacheLimit = 1
    Requested = {1, User}
    Faults = {"crash", "redis", "db", "corrupt", "remove", "late"}
    MaxLoads = 1
    MaxChanges = 2
    MaxFaults = 1
SPECIFICATION Spec
INVARIANTS TypeOK StalenessBounded StaleEntryHasReason WalkFindsAll
CHECK_DEADLOCK FALSE
