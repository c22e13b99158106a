SPECIFICATION Spec
CONSTANTS
    Methods = {"GET", "POST"}
    HostLists <- MCHostLists
    RequestHosts <- MCRequestHosts
    Places <- MCPlaces
    ConfiguredRoutes <- MCConfiguredRoutes
    NilRoute = NilRoute
    OptionSets <- MCOptionSets
    Callbacks <- MCCallbacks
    Middlewares <- MCMiddlewares
    MaxRegistrations = 3
    MaxStartups = 2
    LabelFuncs = 2
    Statuses = {404}
    MaxWrites = 2
    Followed <- MCFollowed
    c1 = c1
    c2 = c2
    r1 = r1
    r2 = r2
    Clients = {c1, c2}
    Requests = {r1, r2}
    Sids = {1, 2}
    Carriers <- MCCarriers
    Handlings = {r1, r2}
    Structs <- MCStructs
    Values <- MCValues
    Limit = 2
    Bad = 9
    MaxLength = 3
SYMMETRY Alike
INVARIANTS
    ShutdownsNest
    AccessIsLogged
    ErrorIsAnswered
    ReportedAsSent
    RoutedAsRegistered
    WildcardIsCorrect
    OwnSession
    NeverPermanent
    DestroyedStays
    BoundAsSent
    MissingIsRefused
    
CHECK_DEADLOCK FALSE
