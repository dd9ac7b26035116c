SPECIFICATION Spec
CONSTANTS
    t1 = t1  t2 = t2  a1 = a1  a2 = a2
    Tasks = {t1}
    NoTask = NoTask
    Apps = {a1}
    AppOf <- OneApp
    AllowRetry = {t1}
    Removed = {t1}
    MaxAttempts = 3
    MaxConcurrent = 2
    AppCapacity = 2
    BatchSize = 1
    MaxClaims = 3
    MaxStops = 2
    StoreFaults = TRUE
INVARIANTS
    AttemptsRunOnce
    CancelIsSeen
PROPERTIES
    KeepsTaskContract
CHECK_DEADLOCK FALSE
