SPECIFICATION Spec
CONSTANTS
    t1 = t1  t2 = t2  a1 = a1  a2 = a2
    Tasks = {t1}
    NoTask = NoTask
    Apps = {a1}
    AppOf <- OneApp
    AllowRetry = {t1}
    Removed = {}
    MaxAttempts = 2
    MaxConcurrent = 2
    AppCapacity = 2
    BatchSize = 1
    MaxClaims = 2
    MaxStops = 0
    StoreFaults = FALSE
INVARIANTS
    RunningIsReachable
CHECK_DEADLOCK FALSE
