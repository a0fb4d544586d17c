CONSTANTS
    c1 = c1  p1 = p1  k1 = k1
    Client = {c1}
    Proxy = {}
    Controller = {k1}
    Sends = {}
    SESSIONS_EXPIRATION_TIME = 2
    PING_INTERVAL = 1
    MaxKeys = 2
    MaxConns = 2
    Files <- MembersFiles
    pwd = "new"
    Punctual = {c1}
SPECIFICATION FairSpec
INVARIANTS
    TypeOK
    PunctualStaysListed
    ClientEntryBacked
    LastRecordDecides
PROPERTIES
    IsRegistry
    SilentSessionsEnd
