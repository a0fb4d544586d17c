CONSTANTS
    c1 = c1  c2 = c2  p1 = p1  p2 = p2  m1 = m1  m2 = m2
    Client <- Clients
    Proxy <- Proxies
    Controller = {}
    Sends <- OneSend
    HopLimit = 3
    MaxKeys = 1
    Connected <- Everyone
    Unsteady = {}
    ROUTES_EXPIRATION_TIME = 1
    RepositoryTypes = {"InMemory"}
    CONVERSATIONS_EXPIRATION_TIME = 1
SPECIFICATION Spec
INVARIANTS
    NoHandlerPanics
