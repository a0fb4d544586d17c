CONSTANTS
    c1 = c1  c2 = c2  p1 = p1  p2 = p2  m1 = m1  m2 = m2
    Client <- Clients
    Proxy <- Proxies
    Controller = {}
    Sends <- TwoSends
    HopLimit = 1
    MaxKeys = 1
    Connected <- Everyone
    Unsteady = {}
    ROUTES_EXPIRATION_TIME = 0
    RepositoryTypes = {"InMemory"}
    CONVERSATIONS_EXPIRATION_TIME = 0
SYMMETRY Interchangeable
SPECIFICATION Spec
PROPERTIES
    KeepsPromise
    OnlyExpiryInterrupts
