SPECIFICATION ComponentsSpec
CONSTANTS
    Focuses = {"intake", "qq", "store", "bookings", "timetable", "process",
               "install", "sync", "resolve", "agent", "host", "weather"}
    \* AccessIntake
    IntakeWorkers = {"w1", "w2"}
    Senders = {"p1", "p2"}
    Operators = {}
    NoUser = "none"
    Deliveries <- MCDeliveries
    Provisioned = {"p2"}
    MaxMembers = 1
    MaxCommands = 2
    \* QQManager
    QQRunners = {1, 2, 3}
    NoRunner = 0
    QQContents = {"off", "x", "y"}
    QQOff = "off"
    MaxGeneration = 3
    \* PackageStore
    DocIds = {1, 2, 3}
    Readers = {"g1"}
    Revisions = {"r1", "r2"}
    NoRevision = "none"
    SnapshotDocs <- MCSnapshotDocs
    PageSize = 1
    \* Bookings
    BookingKinds = {"seats", "courts", "agenda", "rooms"}
    BookingIds = {1, 2, 3}
    Slots = {"s1", "s2"}
    NoSlot = "none"
    BookingCalls = {"b1", "b2"}
    BookingPage = 1
    MaxActive = 1
    \* Timetable
    Tables = {"t1"}
    NoTable = "none"
    TimetableCalls = {"e1", "e2"}
    Imported = 2
    CoursePage = 1
    MaxTables = 1
    MaxCourses = 3
    \* ProcessHost
    Executors = {"e"}
    Providers = {"p"}
    \* PackageInstall
    Packages = {"app", "lib"}
    Newest = 2
    Needs <- MCPackageNeeds
    MaxOperations = 5
    MaxDeaths = 1
    \* ProjectSync
    MaxSyncs = 4
    Mishaps = 1
    \* DependencyResolve
    Required <- MCRequired
    ProjectNeeds <- MCProjectNeeds
    Published <- MCPublished
    Latest = 3
    Locks <- MCLocks
    MaxPasses = 3
    MaxPublished = 1
    \* AgentStream
    MaxTurns = 2
    MaxCapabilityCalls = 2
    MaxExecutionUnits = 2
    MaxOutputBytes = 2
    MaxCostMicrousd = 0
    CostBound = 1
    RetriesBound = 2
    ProviderRetries = 1
    MaxRunAttempts = 2
    CallIds = {"c1", "c2"}
    TurnUnits = {0, 2}
    TurnCosts = {0, 1}
    AnswerLength = 2
    WireSize = 1
    \* RuntimeHost
    GuestCalls = {"i1", "i2"}
    LifecycleSlots = {"h1", "h2"}
    Abandonable = {"describe", "start", "health", "stop"}
    MaxConcurrent = 2
    MaxGuests = 2
    \* Weather
    WeatherCalls = {"v1", "v2"}
    WeatherRequests <- MCWeatherRequests
    MaxRetries = 1
    Burst = 1
    Rate = 1
    CacheCapacity = 1
    Ttl <- MCTtl
    AccuWeatherKey = TRUE
    MaxTime = 2
    MaxInvocations = 2
INVARIANTS
    EchoIsOfItsMessage
    DisabledAreShutOut
    RunnerIsCurrent
    PagedReadIsWhole
    OverbookingIsBounded
    TimetablesAreWhole
    ExitsAreAccounted
    
    SyncIsAtomic
    ResolvedClosureIsConsistent
    FramesAreTaken
    ReplyIsShownOnce
    GuestsOutliveCalls
    AnswersAreFresh
    ProviderQuotaHolds
CHECK_DEADLOCK FALSE
