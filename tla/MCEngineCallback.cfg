SPECIFICATION Spec
CONSTANTS
    a1 = a1
    a2 = a2
    b = b
    m = m
    A = A
    B = B
    C = C
    Config = config
    Callback = callback
    NoComp = NoComp
    Names = {A, B, C}
    Comps = {config, a1, a2, b}
    Middlewares = {m}
    Raw <- MCRaw
    Needs <- MCNeeds
    MaxRegistrations = 3
PROPERTY
    CallbackAfterComponents
CHECK_DEADLOCK FALSE
