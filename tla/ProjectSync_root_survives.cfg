SPECIFICATION SyncSpec
CONSTANTS
    MaxSyncs = 4
    Mishaps = 2
INVARIANTS
    RootSurvives
CHECK_DEADLOCK FALSE
