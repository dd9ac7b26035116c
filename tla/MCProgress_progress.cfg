SPECIFICATION ProgressSpec
CONSTANTS
    Focuses = {"stream", "control", "loader", "task"}
    \* EventStream
    Streams = {"s1"}
    ChannelSize = 1
    MaxEvents = 3
    \* ServiceControl
    Contents = {"x", "y"}
    NoContent = "none"
    MaxSaves = 3
    MaxKills = 1
    \* Loader
    LoaderCallers = {"g1", "g2"}
    LoaderParts = 1
    MaxLoads = 4
    MaxUpgrades = 2
    \* TaskScheduler
    Tasks = {"t1"}
    NoTask = "none"
    Apps = {"app"}
    AppOf <- MCAppOf
    AllowRetry = {"t1"}
    Removed = {"t1"}
    MaxAttempts = 2
    MaxConcurrent = 1
    AppCapacity = 1
    BatchSize = 1
    MaxClaims = 2
    MaxStops = 2
    StoreFaults = FALSE
INVARIANTS
    GaplessStream
    NoChangeIsLost
    CallsKeepTheirRuntime
PROPERTIES
    StreamsEnd
    SettingsTakeEffect
    RetiredAreStopped
    TaskSettles
CHECK_DEADLOCK FALSE
