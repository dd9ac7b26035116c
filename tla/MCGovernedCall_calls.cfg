SPECIFICATION FairSpec
CONSTANTS
    c1 = c1  c2 = c2  c3 = c3  k1 = k1  k2 = k2
    a1 = a1  a2 = a2  f1 = f1  r1 = r1
    Calls = {c1, c2, c3}
    NoCall = NoCall  NoArg = NoArg  NoConf = NoConf  NoKey = NoKey
    Keys = {k1, k2}
    Args = {a1, a2}
    Confs = {f1}
    Runs = {r1}
    KeyOf <- KeyOfCalls
    ArgOf <- ArgOfCalls
    ConfOf <- ConfOfCalls
    RunOf <- RunOfKeys
    MaxVersions = 2
    MaxStops = 1
    StoreFaults = TRUE
INVARIANTS
    AnswersAgree
    EffectsAreConfirmed
PROPERTIES
    KeepsCallContract
    CallsEnd
CHECK_DEADLOCK FALSE
