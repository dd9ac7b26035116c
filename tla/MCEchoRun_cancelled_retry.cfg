SPECIFICATION FairSpec
CONSTANTS
    e1 = e1
    r1 = r1
    r2 = r2
    w1 = w1
    c1 = c1
    NoRun = NoRun
    NoEcho = NoEcho
    NoWorker = NoWorker
    Echoes = {e1}
    Runs = {r1, r2}
    Workers = {w1}
    Calls = {c1}
    CallKinds = {"safe"}
    MaxRunAttempts = 2
    QueueCapacity = 2
    MaxChildren = 1
    MaxStops = 0
    StoreFaults = FALSE
PROPERTIES
    CancelledNotRetried
CHECK_DEADLOCK FALSE
