SPECIFICATION Spec
CONSTANTS
    e1 = e1
    r1 = r1
    r2 = r2
    r3 = r3
    w1 = w1
    w2 = w2
    c1 = c1
    NoRun = NoRun
    NoEcho = NoEcho
    NoWorker = NoWorker
    Echoes = {e1}
    Runs = {r1, r2, r3}
    Workers = {w1, w2}
    Calls = {c1}
    CallKinds = {"safe", "unsafe", "child"}
    MaxRunAttempts = 2
    QueueCapacity = 2
    MaxChildren = 1
    MaxStops = 1
    StoreFaults = FALSE
SYMMETRY Symmetry
INVARIANTS
    RestartCommits
CHECK_DEADLOCK FALSE
