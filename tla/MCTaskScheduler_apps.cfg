SPECIFICATION Spec
CONSTANTS
    t1 = t1  t2 = t2  a1 = a1  a2 = a2
    Tasks = {t1, t2}
    NoTask = NoTask
    Apps = {a1, a2}
    AppOf <- OneApp
    AllowRetry = {t1}
    Removed = {}
    MaxAttempts = 2
    MaxConcurrent = 2
    AppCapacity = 1
    BatchSize = 1
    MaxClaims = 3
    MaxStops = 0
    StoreFaults = FALSE
INVARIANTS
    SlotsAreAccounted
    UnsafeRunsOnce
CHECK_DEADLOCK FALSE
