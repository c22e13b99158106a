CONSTANTS
    Threads = {t1, t2, t3}
    Conns = {x1, x2, x3, x4}
    NoConn = NoConn
    MaxIdle = 2
SPECIFICATION FairSpec
INVARIANTS Accounting NoLostWakeup NoLeak
PROPERTY GetReturns
CHECK_DEADLOCK FALSE
