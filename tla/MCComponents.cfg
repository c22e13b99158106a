SPECIFICATION FairSpec
CONSTANTS
    u1 = u1
    u2 = u2
    u3 = u3
    Users = {u1, u2}
    Names = {"n"}
    MaxMade = 3
    MaxUses = 2
    None = None
    Callers = {u1, u2, u3}
    Scanning = {u1}
    MaxActive = 2
    Nobody = Nobody
    Commanders = {u1, u2}
    KeyPrefixes <- MCKeyPrefixes
    RedisKeys <- MCRedisKeys
    KeyTypes = {"string", "int", "other"}
    Members = {1}
    MaxActiveConns = 1
    MaxIdleConns = 1
    Queriers = {u1, u2}
    Conditions = {1}
    MaxEdits = 2
    MaxTime = 3
    Key = "key"
    EnvironmentKey = "KEY"
    log = log
    database = database
    kvstore = kvstore
    session = session
    list <- FourComponents
    Outside = {config}
    MaxCalls = 2
INVARIANTS
    HandlerIsShared
    HeldByOne
    ClientsRemain
    ConnectionsReturned
    QueryIsOwn
    SortsByDependency
PROPERTIES
    OperationsReturn
    EditIsLoaded
    MergedEnds
CHECK_DEADLOCK FALSE
