CONSTANTS
    c1 = c1  c2 = c2  p1 = p1  p2 = p2  m1 = m1  m2 = m2
    Client <- Clients
    Proxy <- Proxies
    Controller = {}
    Sends <- OneSend
    HopLimit = 3
    MaxKeys = 2
    Connected <- Everyone
    Unsteady = {p1}
    ROUTES_EXPIRATION_TIME = 1
    RepositoryTypes = {"InMemory", "Redis"}
    CONVERSATIONS_EXPIRATION_TIME = 1
SPECIFICATION Spec
INVARIANTS
    TypeOK
    PassedEveryHop
    NoHopToItself
    OneRouteWaits
    NoTraceOfDelivered
    LandingFindsSource
PROPERTIES
    KeepsPromise
    OnlyExpiryInterrupts
