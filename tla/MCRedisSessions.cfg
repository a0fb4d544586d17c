CONSTANTS
    c1 = c1  p1 = p1  s1 = s1  s2 = s2
    Client = {c1}
    Proxy = {p1}
    Controller = {}
    Sends = {}
    Server = {s1, s2}
    Readers = {s1}
    SESSIONS_EXPIRATION_TIME = 1
    MaxKeys = 2
    Returning = {p1}
SPECIFICATION FairSpec
INVARIANTS
    TypeOK
    EntryOutlivesSession
    StableMembersFound
PROPERTIES
    IsRegistry
    GoneMembersForgotten
