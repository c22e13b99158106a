SPECIFICATION LifecycleSpec
CONSTANTS
    a1 = a1
    a2 = a2
    b = b
    m = m
    A = A
    B = B
    C = C
    Config = config
    Callback = callback
    NoComp = NoComp
    Names = {A, B, C}
    Comps = {config, a1, a2, b}
    Middlewares = {m}
    Raw <- MCRawSmall
    Needs <- MCNeeds
    MaxRegistrations = 5
    Keys = {k1, k2, k3}
    Clients = {c1}
    NoCall = NoCall
    Capacity = 2
    MaxLog = 5
    MaxRestarts = 1
INVARIANTS
    OneEntryPerName
    LifecycleOrder
    StateTellsCalls
    Wired
    ListIsStore
    RestartKeepsKeys
PROPERTIES
    RetryGetsUp
    InitiateEnds
CHECK_DEADLOCK FALSE
