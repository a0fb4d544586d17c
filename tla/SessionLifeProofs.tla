------------------------- MODULE SessionLifeProofs --------------------------
(***************************************************************************)
(* The life of a session, for any members, member files, times and bounds: *)
(* the types, whose password opens it, and that it lasts as long as its    *)
(* member pings in time.                                                   *)
(***************************************************************************)
EXTENDS SessionStoreProofs

LoggingIn == Client \cup Proxy

StoreTypes ==
    /\ IsMap(sessions, AccessKey, Wrappers(Conn, SESSIONS_EXPIRATION_TIME))
    /\ IsMap(clients, Client, 1 .. MaxKeys)
    /\ IsMap(proxies, Proxy, 1 .. MaxKeys)
    /\ IsMap(controllers, Controller, 1 .. MaxKeys)
    /\ issued \in [Member -> 0 .. MaxKeys]
    /\ IsMap(opening, AccessKey, Conn)

FileTypes ==
    /\ csv \in Files
    /\ seeded \in 0 .. Len(csv)
    /\ DOMAIN members \subseteq {csv[i][1] : i \in 1 .. seeded}

\* A member holds no key but its own, waits for one that was made, and runs
\* only once the server does.
ManagerOK(c) ==
    /\ manager[c].key = NoKey \/ Owner(manager[c].key) = c
    /\ manager[c].pc = "login_sent" => manager[c].asked \in 1 .. issued[c]
    /\ manager[c].pc # "offline" => IsSeeded

ManagersOK ==
    /\ manager \in [LoggingIn -> Managers]
    /\ \A c \in LoggingIn : ManagerOK(c)

TypeInv == StoreTypes /\ FileTypes /\ ManagersOK

\* No key is ahead of its member's count, and none is opened twice.
KeysIssued ==
    /\ \A key \in DOMAIN sessions \cup DOMAIN opening : key[2] =< issued[key[1]]
    /\ DOMAIN sessions \cap DOMAIN opening = {}

\* The last readable record of uid so far gives it this password.
RecordDecides(uid, password) ==
    \E i \in 1 .. seeded :
        /\ IsReadable(csv, csv[i]) /\ csv[i][1] = uid /\ csv[i][2] = password
        /\ \A j \in i + 1 .. seeded : csv[j][1] = uid => ~IsReadable(csv, csv[j])

MembersOK ==
    /\ \A uid \in DOMAIN members : RecordDecides(uid, members[uid])
    /\ \A c \in LoggingIn :
          issued[c] > 0 => IsSeeded /\ validate_credentials(members, c, pwd)

\* The first key of c leads to a session, or to a login under way, that lasts
\* for a time yet.
Lasts(c, time) ==
    /\ IndexOf(c) = 1
    /\ <<c, 1>> \notin DOMAIN opening =>
          has_session(<<c, 1>>) /\ sessions[<<c, 1>>].left >= time

PunctualOK(c) ==
    issued[c] = 1 =>
        /\ manager[c].pc = "login_sent" => Lasts(c, PING_INTERVAL)
        /\ manager[c].pc \in {"alive", "ping"} =>
              /\ manager[c].key = <<c, 1>> /\ <<c, 1>> \notin DOMAIN opening
              /\ Lasts(c, manager[c].due)

LifeInv ==
    /\ TypeInv
    /\ KeysIssued
    /\ MembersOK
    /\ \A c \in Punctual : PunctualOK(c)

-----------------------------------------------------------------------------
(* HashMaps.                                                               *)

LEMMA InsertTyped ==
    ASSUME NEW K, NEW V, NEW map, IsMap(map, K, V), NEW key \in K, NEW value \in V
    PROVE  IsMap(Insert(map, key, value), K, V)
  BY DEF IsMap, Insert

LEMMA RemoveTyped ==
    ASSUME NEW K, NEW V, NEW map, IsMap(map, K, V), NEW key
    PROVE  IsMap(Remove(map, key), K, V)
  BY DEF IsMap, Remove

LEMMA WithoutTyped ==
    ASSUME NEW K, NEW V, NEW map, IsMap(map, K, V), NEW uids
    PROVE  IsMap(Without(map, uids), K, V)
  BY DEF IsMap, Without

LEMMA RetainTyped ==
    ASSUME NEW K, NEW V, NEW map, IsMap(map, K, V)
    PROVE  IsMap(Retain(map), K, V)
  BY DEF IsMap, Retain

LEMMA ElapseTyped ==
    ASSUME NEW K, NEW V, NEW ttl \in Nat, NEW map, IsMap(map, K, Wrappers(V, ttl))
    PROVE  IsMap(Elapse(map), K, Wrappers(V, ttl))
  <1>1. ASSUME NEW k \in DOMAIN map
        PROVE  [map[k] EXCEPT !.left = IF @ < 0 THEN @ ELSE @ - 1] \in Wrappers(V, ttl)
    <2>1. map[k] \in [value : V, left : -1 .. ttl]
      BY DEF IsMap, Wrappers
    <2> QED BY <2>1 DEF Wrappers
  <1> QED BY <1>1 DEF IsMap, Elapse

-----------------------------------------------------------------------------
(* Types.                                                                  *)

\* The operations of the repository, and the passage of time.
LEMMA SetIndexTypes ==
    ASSUME StoreTypes, NEW c \in Member, NEW conn \in Conn, SetIndex(c, conn)
    PROVE  StoreTypes'
  <1> DEFINE n == issued[c] + 1
  <1>1. n \in 1 .. MaxKeys /\ <<c, n>> \in AccessKey /\ n \in 0 .. MaxKeys
    <2>1. issued[c] \in 0 .. MaxKeys /\ issued[c] < MaxKeys /\ MaxKeys \in Nat
      BY SessionAssumption DEF StoreTypes, SetIndex
    <2> QED BY <2>1 DEF AccessKey
  <1>2. /\ issued' = [issued EXCEPT ![c] = n]
        /\ opening' = Insert(opening, <<c, n>>, conn)
        /\ clients' = IF c \in Client THEN Insert(clients, c, n) ELSE clients
        /\ proxies' = IF c \in Proxy THEN Insert(proxies, c, n) ELSE proxies
        /\ controllers' = IF c \in Controller THEN Insert(controllers, c, n)
                                              ELSE controllers
        /\ sessions' = sessions
    BY DEF SetIndex
  <1> HIDE DEF n
  <1>3. issued' \in [Member -> 0 .. MaxKeys]
    BY <1>1, <1>2 DEF StoreTypes
  <1> QED BY <1>1, <1>2, <1>3, InsertTyped DEF StoreTypes

LEMMA SetSessionTypes ==
    ASSUME StoreTypes, NEW key \in DOMAIN opening, SetSession(key)
    PROVE  StoreTypes'
  <1>1. key \in AccessKey /\ opening[key] \in Conn
    BY DEF StoreTypes, IsMap
  <1>2. SESSIONS_EXPIRATION_TIME \in -1 .. SESSIONS_EXPIRATION_TIME
    BY SessionAssumption
  <1>3. Wrap(opening[key], SESSIONS_EXPIRATION_TIME)
            \in Wrappers(Conn, SESSIONS_EXPIRATION_TIME)
    BY <1>1, <1>2 DEF Wrap, Wrappers
  <1> QED BY <1>1, <1>3, InsertTyped, RemoveTyped DEF StoreTypes, SetSession

LEMMA GetSessionTypes ==
    ASSUME StoreTypes, NEW key, get_session(key)
    PROVE  StoreTypes'
  <1>1. SESSIONS_EXPIRATION_TIME \in -1 .. SESSIONS_EXPIRATION_TIME
    BY SessionAssumption
  <1>2. has_session(key) =>
            Renew(sessions[key], SESSIONS_EXPIRATION_TIME)
                \in Wrappers(Conn, SESSIONS_EXPIRATION_TIME)
    BY <1>1 DEF StoreTypes, IsMap, has_session, Renew, Wrappers
  <1>3. IsMap(sessions', AccessKey, Wrappers(Conn, SESSIONS_EXPIRATION_TIME))
    BY <1>2 DEF StoreTypes, IsMap, has_session, get_session
  <1> QED BY <1>3 DEF StoreTypes, get_session

LEMMA RemoveSessionTypes ==
    ASSUME StoreTypes, NEW key, remove_session(key)
    PROVE  StoreTypes'
  BY RemoveTyped DEF StoreTypes, remove_session

LEMMA SweepTypes ==
    ASSUME StoreTypes, kill_expired_sessions
    PROVE  StoreTypes'
  BY RetainTyped, WithoutTyped DEF StoreTypes, kill_expired_sessions

LEMMA ElapseTypes ==
    ASSUME StoreTypes, sessions' = Elapse(sessions),
           UNCHANGED <<clients, proxies, controllers, issued, opening>>
    PROVE  StoreTypes'
  BY ElapseTyped, SessionAssumption DEF StoreTypes

LEMMA SameStoreTypes ==
    ASSUME StoreTypes, UNCHANGED storeVars
    PROVE  StoreTypes'
  BY DEF StoreTypes, storeVars

LEMMA NoKeyIsNone == NoKey \notin AccessKey
  <1>1. \A key \in AccessKey : Len(key) = 2
    BY DEF AccessKey
  <1>2. Len(NoKey) = 0
    BY DEF NoKey
  <1> QED BY <1>1, <1>2

\* Keys are never taken back.
LEMMA IssuedGrows ==
    ASSUME StoreTypes, StoreStep
    PROVE  \A c \in Member : issued[c] \in Nat /\ issued'[c] \in Nat /\ issued[c] =< issued'[c]
  <1>1. \A c \in Member : issued[c] \in Nat
    BY SessionAssumption DEF StoreTypes
  <1>2. ASSUME NEW c \in Member, NEW conn, SetIndex(c, conn)
        PROVE  issued' = [issued EXCEPT ![c] = @ + 1]
    BY <1>2 DEF SetIndex
  <1>3. \/ \E c \in Member : issued' = [issued EXCEPT ![c] = @ + 1]
        \/ issued' = issued
    BY <1>2 DEF StoreStep, SetSession, get_session, remove_session,
                kill_expired_sessions, storeVars
  <1> QED BY <1>1, <1>3 DEF StoreTypes

\* An action leaves every manager but that of its actor alone.
LEMMA ManagerStep ==
    ASSUME ManagersOK, StoreTypes, StoreStep, IsSeeded => IsSeeded',
           NEW c \in LoggingIn, NEW m \in Managers,
           manager' = [manager EXCEPT ![c] = m],
           m.key = NoKey \/ Owner(m.key) = c,
           m.pc = "login_sent" => m.asked \in 1 .. issued'[c],
           m.pc # "offline" => IsSeeded'
    PROVE  ManagersOK'
  <1>1. manager' \in [LoggingIn -> Managers]
    BY DEF ManagersOK
  <1>2. ManagerOK(c)'
    BY DEF ManagersOK, ManagerOK
  <1>3. ASSUME NEW d \in LoggingIn, d # c
        PROVE  ManagerOK(d)'
    <2>1. manager'[d] = manager[d] /\ ManagerOK(d)
      BY <1>3 DEF ManagersOK
    <2>2. issued[d] \in Nat /\ issued'[d] \in Nat /\ issued[d] =< issued'[d]
      BY IssuedGrows DEF LoggingIn, Member
    <2> QED BY <2>1, <2>2 DEF ManagerOK
  <1> QED BY <1>1, <1>2, <1>3 DEF ManagersOK

\* The managers stay as they are, as the store, the file or nothing changes.
LEMMA SameManagers ==
    ASSUME ManagersOK, StoreTypes, StoreStep, IsSeeded => IsSeeded', manager' = manager
    PROVE  ManagersOK'
  <1>1. ASSUME NEW d \in LoggingIn
        PROVE  ManagerOK(d)'
    <2>1. ManagerOK(d)
      BY DEF ManagersOK
    <2>2. issued[d] \in Nat /\ issued'[d] \in Nat /\ issued[d] =< issued'[d]
      BY IssuedGrows DEF LoggingIn, Member
    <2> QED BY <2>1, <2>2 DEF ManagerOK
  <1> QED BY <1>1 DEF ManagersOK

LEMMA NoManagerTyped ==
    ASSUME NEW conn \in Conn
    PROVE  /\ NoManager(conn) \in Managers
           /\ NoManager(conn).key = NoKey /\ NoManager(conn).pc = "offline"
  <1>1. 0 \in 0 .. MaxKeys /\ 0 \in 0 .. PING_INTERVAL
    BY SessionAssumption
  <1> QED BY <1>1 DEF NoManager, Managers

\* What a member does keeps the managers in order.
LEMMA ActorKeepsManagers ==
    ASSUME ManagersOK, StoreTypes, StoreStep, UNCHANGED memberVars, NEW c \in LoggingIn,
           \/ Authenticate(c) \/ Start(c) \/ LoginError(c) \/ PingError(c)
           \/ Reconnect(c) \/ LogoutCheckSession(c) \/ Crash(c)
    PROVE  ManagersOK'
  <1> DEFINE old == manager[c]
             Fits(m) == /\ m \in Managers
                        /\ manager' = [manager EXCEPT ![c] = m]
                        /\ m.key = NoKey \/ Owner(m.key) = c
                        /\ m.pc = "login_sent" => m.asked \in 1 .. issued'[c]
                        /\ m.pc # "offline" => IsSeeded'
  <1>1. /\ old \in Managers /\ ManagerOK(c) /\ old.conn \in Conn
        /\ IsSeeded' = IsSeeded
        /\ 0 \in 0 .. MaxKeys /\ 0 \in 0 .. PING_INTERVAL
        /\ PING_INTERVAL \in 0 .. PING_INTERVAL
        /\ MaxKeys \in Nat
    BY SessionAssumption DEF ManagersOK, memberVars, IsSeeded, Managers
  <1>2. issued[c] \in 0 .. MaxKeys /\ c \in Member
    BY DEF StoreTypes, LoggingIn, Member
  <1>3. \A m : Fits(m) => ManagersOK'
    BY <1>1, ManagerStep
  <1>4. CASE Start(c)
    <2>1. old.conn + 1 \in Conn
      BY <1>1, <1>4, SessionAssumption DEF Start, Conn
    <2>2. Fits([old EXCEPT !.pc = "login", !.conn = @ + 1])
      BY <1>1, <1>4, <2>1 DEF Start, ManagerOK, Managers
    <2> QED BY <1>3, <2>2
  <1>5. CASE LoginSetIndex(c)
    <2>1. issued[c] < MaxKeys /\ issued' = [issued EXCEPT ![c] = @ + 1]
      BY <1>5 DEF LoginSetIndex, SetIndex
    <2>2. issued[c] + 1 \in 0 .. MaxKeys /\ issued[c] + 1 \in 1 .. issued'[c]
      BY <1>1, <1>2, <2>1 DEF StoreTypes
    <2>3. Fits([old EXCEPT !.pc = "login_sent", !.asked = issued[c] + 1])
      BY <1>1, <1>5, <2>2 DEF LoginSetIndex, ManagerOK, Managers
    <2> QED BY <1>3, <2>3
  <1>6. CASE LoginResponse(c)
    <2>1. old.asked \in 1 .. MaxKeys
      BY <1>1, <1>2, <1>6 DEF LoginResponse, ManagerOK
    <2>2. <<c, old.asked>> \in AccessKey /\ Owner(<<c, old.asked>>) = c
      BY <1>2, <2>1 DEF AccessKey, Owner
    <2>3. Fits([old EXCEPT !.pc = "alive", !.key = <<c, old.asked>>, !.asked = 0,
                           !.due = PING_INTERVAL])
      BY <1>1, <1>6, <2>2 DEF LoginResponse, ManagerOK, Managers
    <2> QED BY <1>3, <2>3
  <1>7. CASE LoginError(c)
    <2>1. Fits([old EXCEPT !.pc = "login", !.asked = 0])
      BY <1>1, <1>7 DEF LoginError, ManagerOK, Managers
    <2> QED BY <1>3, <2>1
  <1>8. CASE PingCheckSession(c) \/ PingError(c)
    <2>1. \E p \in {"ping", "login"} : manager' = [manager EXCEPT ![c].pc = p]
      BY <1>8 DEF PingCheckSession, PingError
    <2>2. PICK p \in {"ping", "login"} : manager' = [manager EXCEPT ![c].pc = p]
      BY <2>1
    <2>3. Fits([old EXCEPT !.pc = p])
      BY <1>1, <1>8, <2>2 DEF ManagerOK, Managers, PingCheckSession, PingError
    <2> QED BY <1>3, <2>3
  <1>9. CASE PingCompare(c)
    <2>1. \/ manager' = [manager EXCEPT ![c].pc = "alive", ![c].due = PING_INTERVAL]
          \/ manager' = [manager EXCEPT ![c].pc = "login"]
      BY <1>9 DEF PingCompare
    <2>2. \/ Fits([old EXCEPT !.pc = "alive", !.due = PING_INTERVAL])
          \/ Fits([old EXCEPT !.pc = "login"])
      BY <1>1, <1>9, <2>1 DEF ManagerOK, Managers, PingCompare
    <2> QED BY <1>3, <2>2
  <1>10. CASE Reconnect(c)
    <2>1. old.conn + 1 \in Conn
      BY <1>1, <1>10, SessionAssumption DEF Reconnect, Conn
    <2>2. Fits([old EXCEPT !.conn = @ + 1])
      BY <1>1, <1>10, <2>1 DEF Reconnect, ManagerOK, Managers
    <2> QED BY <1>3, <2>2
  <1>11. CASE LogoutCheckSession(c)
    <2>1. \/ manager' = [manager EXCEPT ![c].pc = "logout"]
          \/ manager' = [manager EXCEPT ![c] = NoManager(old.conn)]
      BY <1>11 DEF LogoutCheckSession
    <2>2. \/ Fits([old EXCEPT !.pc = "logout"])
          \/ Fits(NoManager(old.conn))
      BY <1>1, <1>11, <2>1, NoManagerTyped DEF ManagerOK, Managers, LogoutCheckSession
    <2> QED BY <1>3, <2>2
  <1>12. CASE LogoutRemoveSession(c) \/ Crash(c)
    <2>1. Fits(NoManager(old.conn))
      BY <1>1, <1>12, NoManagerTyped DEF LogoutRemoveSession, Crash
    <2> QED BY <1>3, <2>1
  <1> QED BY <1>4, <1>5, <1>6, <1>7, <1>8, <1>9, <1>10, <1>11, <1>12 DEF Authenticate

\* Time brings the next ping nearer and changes nothing else of a manager.
LEMMA TickKeepsManagers ==
    ASSUME ManagersOK, StoreTypes, Tick
    PROVE  ManagersOK'
  <1>1. /\ UNCHANGED memberVars /\ issued' = issued
        /\ manager' = [c \in LoggingIn |->
              [manager[c] EXCEPT !.due = IF @ = 0 THEN 0 ELSE @ - 1]]
    BY DEF Tick, ManagersOK
  <1>2. ASSUME NEW c \in LoggingIn
        PROVE  manager'[c] \in Managers /\ ManagerOK(c)'
    <2>1. manager[c] \in Managers /\ manager[c].due \in 0 .. PING_INTERVAL /\ ManagerOK(c)
      BY DEF ManagersOK, Managers
    <2>2. (IF manager[c].due = 0 THEN 0 ELSE manager[c].due - 1) \in 0 .. PING_INTERVAL
      BY <2>1, SessionAssumption
    <2>3. manager'[c] \in Managers
      BY <1>1, <2>1, <2>2 DEF Managers
    <2>4. /\ manager'[c].pc = manager[c].pc /\ manager'[c].key = manager[c].key
          /\ manager'[c].asked = manager[c].asked
      BY <1>1, <2>1 DEF Managers
    <2>5. IsSeeded' = IsSeeded
      BY <1>1 DEF memberVars, IsSeeded
    <2> QED BY <1>1, <2>1, <2>3, <2>4, <2>5 DEF ManagerOK
  <1> QED BY <1>1, <1>2 DEF ManagersOK

\* One record more.
LEMMA SeedKeepsFile ==
    ASSUME FileTypes, seed_members_from_csv
    PROVE  FileTypes' /\ (IsSeeded => IsSeeded')
  <1>1. Len(csv) \in Nat /\ seeded \in 0 .. Len(csv) /\ seeded < Len(csv)
    BY SessionAssumption DEF FileTypes, seed_members_from_csv
  <1>2. seeded' = seeded + 1 /\ csv' = csv
    BY DEF seed_members_from_csv
  <1>3. DOMAIN members' \subseteq DOMAIN members \cup {csv[seeded + 1][1]}
    BY DEF seed_members_from_csv, set_member, Insert
  <1>4. DOMAIN members' \subseteq {csv[i][1] : i \in 1 .. seeded + 1}
    <2>1. 1 .. seeded \subseteq 1 .. seeded + 1 /\ seeded + 1 \in 1 .. seeded + 1
      BY <1>1
    <2> QED BY <1>3, <2>1 DEF FileTypes
  <1>5. seeded + 1 \in 0 .. Len(csv) /\ ~IsSeeded
    BY <1>1 DEF IsSeeded
  <1> QED BY <1>2, <1>4, <1>5 DEF FileTypes

\* Every step but those of the seeding leaves the members alone.
LEMMA MembersStep ==
    ASSUME Next
    PROVE  UNCHANGED memberVars \/ seed_members_from_csv
  <1>1. ASSUME NEW c \in Client \cup Proxy, Authenticate(c)
        PROVE  UNCHANGED memberVars
    BY <1>1 DEF Authenticate, LoginSetIndex, LoginResponse, PingCheckSession, PingCompare,
                LogoutRemoveSession
  <1>2. ASSUME NEW c \in Client \cup Proxy,
               \/ Start(c) \/ LoginError(c) \/ PingError(c) \/ Reconnect(c)
               \/ LogoutCheckSession(c) \/ Crash(c) \/ UseKey(c)
        PROVE  UNCHANGED memberVars
    BY <1>2 DEF Start, LoginError, PingError, Reconnect, LogoutCheckSession, Crash, UseKey
  <1>3. ASSUME NEW key \in DOMAIN opening, LoginSetSession(key) \/ HeartbeatSetSession(key)
        PROVE  UNCHANGED memberVars
    BY <1>3 DEF LoginSetSession, HeartbeatSetSession
  <1>4. ASSUME NEW c \in Controller, HeartbeatSetIndex(c)
        PROVE  UNCHANGED memberVars
    BY <1>4 DEF HeartbeatSetIndex
  <1>5. Sweep \/ Tick => UNCHANGED memberVars
    BY DEF Sweep, Tick
  <1> QED BY <1>1, <1>2, <1>3, <1>4, <1>5 DEF Next

LEMMA InitTypes ==
    ASSUME Init
    PROVE  TypeInv
  <1>1. 0 \in 0 .. MaxKeys /\ 0 \in Conn
    BY SessionAssumption DEF Conn
  <1>2. StoreTypes
    BY <1>1 DEF Init, StoreTypes, IsMap, EmptyMap
  <1>3. FileTypes
    BY SessionAssumption DEF Init, initialize, FileTypes, EmptyMap
  <1>4. ManagersOK
    BY <1>1, NoManagerTyped DEF Init, ManagersOK, ManagerOK, LoggingIn
  <1> QED BY <1>2, <1>3, <1>4 DEF TypeInv

LEMMA NextKeepsStoreTypes ==
    ASSUME TypeInv, Next
    PROVE  StoreTypes'
  <1>1. StoreTypes /\ \A c \in LoggingIn : manager[c].conn \in Conn
    BY DEF TypeInv, ManagersOK, Managers
  <1>2. 0 \in Conn
    BY SessionAssumption DEF Conn
  <1>3. ASSUME NEW c \in Client \cup Proxy, Authenticate(c) \/ LogoutCheckSession(c) \/ UseKey(c)
        PROVE  StoreTypes'
    <2>1. c \in Member /\ c \in LoggingIn
      BY DEF Member, LoggingIn
    <2> QED BY <1>1, <1>3, <2>1, SetIndexTypes, GetSessionTypes, RemoveSessionTypes,
               SameStoreTypes
            DEF Authenticate, LoginSetIndex, LoginResponse, PingCheckSession, PingCompare,
                LogoutRemoveSession, LogoutCheckSession, UseKey
  <1>4. ASSUME NEW c \in Client \cup Proxy,
               Start(c) \/ LoginError(c) \/ PingError(c) \/ Reconnect(c) \/ Crash(c)
        PROVE  StoreTypes'
    BY <1>1, <1>4, SameStoreTypes DEF Start, LoginError, PingError, Reconnect, Crash
  <1>5. ASSUME NEW key \in DOMAIN opening, LoginSetSession(key) \/ HeartbeatSetSession(key)
        PROVE  StoreTypes'
    BY <1>1, <1>5, SetSessionTypes DEF LoginSetSession, HeartbeatSetSession
  <1>6. ASSUME NEW c \in Controller, HeartbeatSetIndex(c)
        PROVE  StoreTypes'
    BY <1>1, <1>2, <1>6, SetIndexTypes DEF HeartbeatSetIndex, Member
  <1>7. Sweep \/ Tick \/ seed_members_from_csv => StoreTypes'
    BY <1>1, SweepTypes, ElapseTypes, SameStoreTypes DEF Sweep, Tick, seed_members_from_csv
  <1> QED BY <1>3, <1>4, <1>5, <1>6, <1>7 DEF Next

LEMMA NextKeepsManagers ==
    ASSUME TypeInv, Next
    PROVE  ManagersOK'
  <1>1. StoreTypes /\ FileTypes /\ ManagersOK /\ StoreStep
    BY NextIsStoreStep DEF TypeInv
  <1>2. IsSeeded => IsSeeded'
    BY <1>1, MembersStep, SeedKeepsFile DEF memberVars, IsSeeded
  <1>3. ASSUME NEW c \in Client \cup Proxy,
               \/ Authenticate(c) \/ Start(c) \/ LoginError(c) \/ PingError(c)
               \/ Reconnect(c) \/ LogoutCheckSession(c) \/ Crash(c)
        PROVE  ManagersOK'
    <2>1. UNCHANGED memberVars
      BY <1>3 DEF Authenticate, LoginSetIndex, LoginResponse, PingCheckSession, PingCompare,
                  LogoutRemoveSession, Start, LoginError, PingError, Reconnect,
                  LogoutCheckSession, Crash
    <2> QED BY <1>1, <1>3, <2>1, ActorKeepsManagers DEF LoggingIn
  <1>4. ASSUME \/ \E c \in Client \cup Proxy : UseKey(c)
               \/ \E key \in DOMAIN opening : LoginSetSession(key) \/ HeartbeatSetSession(key)
               \/ \E c \in Controller : HeartbeatSetIndex(c)
               \/ seed_members_from_csv \/ Sweep
        PROVE  manager' = manager
    BY <1>4 DEF UseKey, LoginSetSession, HeartbeatSetSession, HeartbeatSetIndex,
                seed_members_from_csv, Sweep
  <1> QED BY <1>1, <1>2, <1>3, <1>4, SameManagers, TickKeepsManagers DEF Next

LEMMA NextKeepsTypes ==
    ASSUME TypeInv, [Next]_vars
    PROVE  TypeInv'
  <1>1. CASE Next
    <2>1. FileTypes'
      BY <1>1, MembersStep, SeedKeepsFile DEF TypeInv, FileTypes, memberVars
    <2> QED BY <1>1, <2>1, NextKeepsStoreTypes, NextKeepsManagers DEF TypeInv
  <1>2. CASE UNCHANGED vars
    BY <1>2 DEF vars, memberVars, storeVars, TypeInv, StoreTypes, FileTypes, ManagersOK,
                ManagerOK, IsSeeded
  <1> QED BY <1>1, <1>2

\* SessionStore is type correct for any members, files, times and bounds.
THEOREM StoreTypeCorrect == Spec => []TypeOK
  <1>1. TypeInv => TypeOK
    BY DEF TypeInv, StoreTypes, FileTypes, ManagersOK, TypeOK, LoggingIn
  <1> QED BY <1>1, InitTypes, NextKeepsTypes, PTL DEF Spec

-----------------------------------------------------------------------------
(* Keys.                                                                   *)

LEMMA KeysStep ==
    ASSUME StoreTypes, KeysIssued, StoreStep
    PROVE  KeysIssued'
  <1>1. DOMAIN sessions \cup DOMAIN opening \subseteq AccessKey
    BY DEF StoreTypes, IsMap
  <1>2. \A key \in AccessKey :
            /\ issued[key[1]] \in Nat /\ issued'[key[1]] \in Nat
            /\ issued[key[1]] =< issued'[key[1]] /\ key[2] \in Nat
    BY IssuedGrows, SessionAssumption DEF AccessKey
  <1>3. CASE \E c \in Member : \E conn : SetIndex(c, conn)
    <2>1. PICK c \in Member : \E conn : SetIndex(c, conn)
      BY <1>3
    <2> DEFINE key == <<c, issued[c] + 1>>
    <2>2. /\ DOMAIN opening' = DOMAIN opening \cup {key}
          /\ DOMAIN sessions' = DOMAIN sessions
          /\ issued' = [issued EXCEPT ![c] = @ + 1]
      BY <2>1 DEF SetIndex, Insert
    <2>3. key[2] = issued[c] + 1 /\ key[1] = c /\ issued[c] \in Nat /\ issued'[c] = issued[c] + 1
      BY <2>2, SessionAssumption DEF StoreTypes
    <2>4. key \notin DOMAIN sessions
      BY <2>3 DEF KeysIssued
    <2>5. ASSUME NEW k \in DOMAIN sessions \cup DOMAIN opening
          PROVE  k[2] =< issued'[k[1]]
      <3>1. k \in AccessKey /\ k[2] =< issued[k[1]]
        BY <1>1 DEF KeysIssued
      <3> QED BY <1>2, <3>1
    <2>6. key[2] =< issued'[key[1]]
      BY <2>3
    <2> HIDE DEF key
    <2> QED BY <2>2, <2>4, <2>5, <2>6 DEF KeysIssued
  <1>4. CASE \E key \in DOMAIN opening : SetSession(key)
    <2>1. PICK key \in DOMAIN opening : SetSession(key)
      BY <1>4
    <2>2. /\ DOMAIN sessions' = DOMAIN sessions \cup {key}
          /\ DOMAIN opening' = DOMAIN opening \ {key} /\ issued' = issued
      BY <2>1 DEF SetSession, Insert, Remove
    <2> QED BY <2>2 DEF KeysIssued
  <1>5. ASSUME DOMAIN sessions' \subseteq DOMAIN sessions, issued' = issued, opening' = opening
        PROVE  KeysIssued'
    BY <1>5 DEF KeysIssued
  <1>6. CASE \/ \E c \in Client \cup Proxy : get_session(manager[c].key)
             \/ \E c \in Client \cup Proxy : remove_session(manager[c].key)
             \/ UNCHANGED storeVars
             \/ sessions' = Elapse(sessions) /\ UNCHANGED <<clients, proxies, controllers, issued, opening>>
    BY <1>5, <1>6 DEF get_session, remove_session, Remove, storeVars, Elapse
  <1>7. CASE kill_expired_sessions
    BY <1>5, <1>7, SweepEffect
  <1> QED BY <1>3, <1>4, <1>6, <1>7 DEF StoreStep

-----------------------------------------------------------------------------
(* Members.                                                                *)

\* A new record decides for its uid; the others keep theirs.
LEMMA SeedDecides ==
    ASSUME FileTypes, \A uid \in DOMAIN members : RecordDecides(uid, members[uid]),
           seed_members_from_csv, NEW uid \in DOMAIN members'
    PROVE  RecordDecides(uid, members[uid])'
  <1> DEFINE n == seeded + 1
  <1>1. /\ seeded \in Nat /\ seeded' = n /\ csv' = csv /\ n \in 1 .. Len(csv)
        /\ DOMAIN csv = 1 .. Len(csv)
    BY SessionAssumption DEF FileTypes, seed_members_from_csv
  <1>2. CASE n \in read_members_from_csv(csv) /\ uid = csv[n][1]
    <2>1. members' = Insert(members, uid, csv[n][2])
      BY <1>2 DEF seed_members_from_csv, set_member
    <2>2. members'[uid] = csv[n][2]
      BY <2>1 DEF Insert
    <2>3. \A j \in n + 1 .. n : FALSE
      BY <1>1
    <2>4. n \in 1 .. n
      BY <1>1
    <2>5. IsReadable(csv, csv[n])
      BY <1>2 DEF read_members_from_csv
    <2> QED BY <1>1, <1>2, <2>2, <2>3, <2>4, <2>5 DEF RecordDecides
  <1>3. CASE n \notin read_members_from_csv(csv) \/ uid # csv[n][1]
    <2>1. uid \in DOMAIN members /\ members'[uid] = members[uid]
      BY <1>3 DEF seed_members_from_csv, set_member, Insert
    <2>2. PICK i \in 1 .. seeded :
              /\ IsReadable(csv, csv[i]) /\ csv[i][1] = uid /\ csv[i][2] = members[uid]
              /\ \A j \in i + 1 .. seeded : csv[j][1] = uid => ~IsReadable(csv, csv[j])
      BY <2>1 DEF RecordDecides
    <2>3. csv[n][1] = uid => ~IsReadable(csv, csv[n])
      BY <1>1, <1>3 DEF read_members_from_csv
    <2>4. \A j \in i + 1 .. n : j \in i + 1 .. seeded \/ j = n
      BY <1>1
    <2>5. i \in 1 .. n
      BY <1>1
    <2> QED BY <1>1, <2>1, <2>2, <2>3, <2>4, <2>5 DEF RecordDecides
  <1> QED BY <1>2, <1>3

\* Whoever gets a first key has shown its password to a server that is up.
LEMMA FirstKey ==
    ASSUME TypeInv, Next, NEW c \in LoggingIn, issued[c] = 0, issued'[c] > 0
    PROVE  IsSeeded /\ validate_credentials(members, c, pwd)
  <1>1. issued' # issued
    OBVIOUS
  <1>2. c \in Member /\ c \notin Controller /\ issued \in [Member -> 0 .. MaxKeys]
    BY MemberAssumption DEF LoggingIn, Member, TypeInv, StoreTypes
  <1>3. ASSUME NEW d \in Member, NEW conn, SetIndex(d, conn)
        PROVE  d = c
    BY <1>2, <1>3 DEF SetIndex
  <1>4. ASSUME NEW d \in Client \cup Proxy, Authenticate(d)
        PROVE  LoginSetIndex(d)
    BY <1>1, <1>4 DEF Authenticate, LoginResponse, PingCheckSession, PingCompare,
                LogoutRemoveSession, storeVars, get_session, remove_session
  <1>5. ASSUME NEW d \in Client \cup Proxy,
               \/ Start(d) \/ LoginError(d) \/ PingError(d) \/ Reconnect(d)
               \/ LogoutCheckSession(d) \/ Crash(d) \/ UseKey(d)
        PROVE  FALSE
    BY <1>1, <1>5 DEF Start, LoginError, PingError, Reconnect, LogoutCheckSession, Crash,
                      UseKey, storeVars, get_session
  <1>6. ASSUME NEW key \in DOMAIN opening, LoginSetSession(key) \/ HeartbeatSetSession(key)
        PROVE  FALSE
    BY <1>1, <1>6 DEF LoginSetSession, HeartbeatSetSession, SetSession
  <1>7. ASSUME NEW d \in Controller, HeartbeatSetIndex(d)
        PROVE  FALSE
    BY <1>2, <1>3, <1>7 DEF HeartbeatSetIndex, Member
  <1>8. Sweep \/ Tick \/ seed_members_from_csv => FALSE
    BY <1>1 DEF Sweep, Tick, seed_members_from_csv, storeVars, kill_expired_sessions
  <1>9. PICK d \in Client \cup Proxy : LoginSetIndex(d)
    BY <1>4, <1>5, <1>6, <1>7, <1>8 DEF Next
  <1>10. d = c
    BY <1>3, <1>9 DEF LoginSetIndex, Member
  <1>11. manager[c].pc = "login" /\ validate_credentials(members, c, pwd)
    BY <1>9, <1>10 DEF LoginSetIndex
  <1>12. ManagerOK(c)
    BY DEF TypeInv, ManagersOK
  <1> QED BY <1>11, <1>12 DEF ManagerOK

LEMMA NextKeepsMembers ==
    ASSUME TypeInv, MembersOK, Next
    PROVE  MembersOK'
  <1>1. CASE seed_members_from_csv
    <2>1. \A uid \in DOMAIN members' : RecordDecides(uid, members[uid])'
      BY <1>1, SeedDecides DEF TypeInv, MembersOK
    <2>2. ~IsSeeded /\ issued' = issued
      BY <1>1, SessionAssumption
         DEF seed_members_from_csv, IsSeeded, storeVars, TypeInv, FileTypes
    <2> QED BY <2>1, <2>2 DEF MembersOK
  <1>2. CASE UNCHANGED memberVars
    <2>1. /\ csv' = csv /\ members' = members /\ seeded' = seeded /\ IsSeeded' = IsSeeded
      BY <1>2 DEF memberVars, IsSeeded
    <2>2. \A uid \in DOMAIN members' : RecordDecides(uid, members[uid])'
      BY <2>1 DEF MembersOK, RecordDecides
    <2>3. ASSUME NEW c \in LoggingIn, issued'[c] > 0
          PROVE  IsSeeded /\ validate_credentials(members, c, pwd)
      <3>1. issued[c] \in Nat
        BY SessionAssumption DEF TypeInv, StoreTypes, LoggingIn, Member
      <3> QED BY <2>3, <3>1, FirstKey DEF MembersOK
    <2>4. \A c : validate_credentials(members, c, pwd)' = validate_credentials(members, c, pwd)
      BY <2>1 DEF validate_credentials, has_member, get_member
    <2> QED BY <2>1, <2>2, <2>3, <2>4 DEF MembersOK
  <1> QED BY <1>1, <1>2, MembersStep

-----------------------------------------------------------------------------
(* How long a session lasts.                                               *)

\* The steps that neither let time pass nor are about a new key or the end of
\* the session of c.
OthersStep(c) ==
    \/ \E d \in Member \ {c} : \E conn : SetIndex(d, conn)
    \/ \E key \in DOMAIN opening : SetSession(key)
    \/ \E key : get_session(key)
    \/ \E key : remove_session(key) /\ (has_session(key) => Owner(key) # c)
    \/ kill_expired_sessions
    \/ UNCHANGED storeVars

\* The sweep spares a member whose only session has not expired.
LEMMA NotSwept ==
    ASSUME StoreTypes, KeysIssued, NEW c \in LoggingIn, issued[c] = 1,
           NEW time \in 0 .. PING_INTERVAL, Lasts(c, time)
    PROVE  c \notin Swept /\ <<c, 1>> \notin Expired
  <1>1. ASSUME NEW key \in DOMAIN sessions, Owner(key) = c
        PROVE  key = <<c, 1>>
    <2>1. key \in AccessKey /\ key[2] =< issued[key[1]]
      BY DEF StoreTypes, IsMap, KeysIssued
    <2>2. PICK n \in 1 .. MaxKeys : key = <<c, n>>
      BY <1>1, <2>1 DEF AccessKey, Owner
    <2>3. n =< 1
      BY <2>1, <2>2
    <2> QED BY <2>2, <2>3
  <1>2. ASSUME <<c, 1>> \in DOMAIN sessions
        PROVE  ~IsExpired(sessions[<<c, 1>>])
    <2>1. <<c, 1>> \notin DOMAIN opening
      BY <1>2 DEF KeysIssued
    <2>2. sessions[<<c, 1>>].left >= time
      BY <2>1 DEF Lasts
    <2>3. sessions[<<c, 1>>].left \in Int
      BY <1>2, SessionAssumption DEF StoreTypes, IsMap, Wrappers
    <2> QED BY <2>2, <2>3, SessionAssumption DEF IsExpired
  <1> QED BY <1>1, <1>2 DEF Swept, Expired

LEMMA OthersKeepIt ==
    ASSUME StoreTypes, KeysIssued, NEW c \in LoggingIn, issued[c] = 1,
           NEW time \in 0 .. PING_INTERVAL, Lasts(c, time), OthersStep(c)
    PROVE  /\ Lasts(c, time)'
           /\ <<c, 1>> \notin DOMAIN opening => <<c, 1>> \notin DOMAIN opening'
  <1> DEFINE key1 == <<c, 1>>
  <1>1. /\ c \in Member /\ time \in Int /\ SESSIONS_EXPIRATION_TIME \in Int
        /\ SESSIONS_EXPIRATION_TIME >= time
    BY SessionAssumption DEF LoggingIn, Member
  <1>2. /\ IndexOf(c) = 1
        /\ key1 \notin DOMAIN opening =>
              key1 \in DOMAIN sessions /\ sessions[key1].left >= time
    BY DEF Lasts, has_session
  <1>3. ASSUME IndexOf(c)' = IndexOf(c),
               key1 \in DOMAIN opening' => key1 \in DOMAIN opening,
               key1 \notin DOMAIN opening' =>
                   key1 \in DOMAIN sessions' /\ sessions'[key1].left >= time
        PROVE  Lasts(c, time)' /\ (key1 \notin DOMAIN opening => key1 \notin DOMAIN opening')
    BY <1>2, <1>3 DEF Lasts, has_session
  <1>4. CASE \E d \in Member \ {c} : \E conn : SetIndex(d, conn)
    <2>1. PICK d \in Member \ {c} : \E conn : SetIndex(d, conn)
      BY <1>4
    <2>2. PICK conn : SetIndex(d, conn)
      BY <2>1
    <2>3. IndexOf(c)' = IndexOf(c)
      BY <1>1, <2>2, SetIndexEntry
    <2>4. sessions' = sessions /\ DOMAIN opening' = DOMAIN opening \cup {<<d, issued[d] + 1>>}
      BY <2>2 DEF SetIndex, Insert
    <2>5. key1 \in DOMAIN opening' <=> key1 \in DOMAIN opening
      BY <2>4
    <2> QED BY <1>2, <1>3, <2>3, <2>4, <2>5
  <1>5. ASSUME UNCHANGED <<clients, proxies, controllers>>
        PROVE  IndexOf(c)' = IndexOf(c)
    BY <1>5 DEF IndexOf, IndexMap
  <1>6. CASE \E key \in DOMAIN opening : SetSession(key)
    <2>1. PICK key \in DOMAIN opening : SetSession(key)
      BY <1>6
    <2>2. /\ sessions' = Insert(sessions, key, Wrap(opening[key], SESSIONS_EXPIRATION_TIME))
          /\ DOMAIN opening' = DOMAIN opening \ {key}
          /\ UNCHANGED <<clients, proxies, controllers>>
      BY <2>1 DEF SetSession, Remove
    <2>3. CASE key = key1
      <3>1. key1 \in DOMAIN sessions' /\ sessions'[key1].left = SESSIONS_EXPIRATION_TIME
        BY <2>2, <2>3 DEF Insert, Wrap
      <3> QED BY <1>1, <1>3, <1>5, <2>2, <2>3, <3>1
    <2>4. CASE key # key1
      <3>1. key1 \in DOMAIN sessions =>
                key1 \in DOMAIN sessions' /\ sessions'[key1] = sessions[key1]
        BY <2>2, <2>4 DEF Insert
      <3> QED BY <1>2, <1>3, <1>5, <2>2, <2>4, <3>1
    <2> QED BY <2>3, <2>4
  <1>7. CASE \E key : get_session(key)
    <2>1. PICK key : get_session(key)
      BY <1>7
    <2>2. opening' = opening /\ DOMAIN sessions' = DOMAIN sessions
          /\ UNCHANGED <<clients, proxies, controllers>>
      BY <2>1 DEF get_session
    <2>3. ASSUME key1 \in DOMAIN sessions, sessions[key1].left >= time
          PROVE  sessions'[key1].left >= time
      <3>1. sessions[key1] \in Wrappers(Conn, SESSIONS_EXPIRATION_TIME)
        BY <2>3 DEF StoreTypes, IsMap
      <3>2. \/ sessions'[key1] = sessions[key1]
            \/ sessions'[key1].left = SESSIONS_EXPIRATION_TIME
        BY <2>1, <2>3, <3>1 DEF get_session, has_session, Renew, Wrappers
      <3> QED BY <1>1, <2>3, <3>2
    <2> QED BY <1>2, <1>3, <1>5, <2>2, <2>3
  <1>8. CASE \E key : remove_session(key) /\ (has_session(key) => Owner(key) # c)
    <2>1. PICK key : remove_session(key) /\ (has_session(key) => Owner(key) # c)
      BY <1>8
    <2>2. IndexOf(c)' = IndexOf(c)
      BY <1>1, <2>1, RemoveSessionEntry
    <2>3. key1 \in DOMAIN sessions =>
              key1 \in DOMAIN sessions' /\ sessions'[key1] = sessions[key1]
      BY <2>1 DEF remove_session, Remove, has_session, Owner
    <2>4. opening' = opening
      BY <2>1 DEF remove_session
    <2> QED BY <1>2, <1>3, <2>2, <2>3, <2>4
  <1>9. CASE kill_expired_sessions
    <2>1. c \notin Swept /\ key1 \notin Expired
      BY NotSwept
    <2>2. IndexOf(c)' = IndexOf(c)
      BY <1>1, <1>9, <2>1, SweepEntry
    <2>3. key1 \in DOMAIN sessions =>
              key1 \in DOMAIN sessions' /\ sessions'[key1] = sessions[key1]
      BY <1>9, <2>1 DEF kill_expired_sessions, Retain, Expired
    <2>4. opening' = opening
      BY <1>9 DEF kill_expired_sessions
    <2> QED BY <1>2, <1>3, <2>2, <2>3, <2>4
  <1>10. CASE UNCHANGED storeVars
    BY <1>2, <1>3, <1>5, <1>10 DEF storeVars
  <1> QED BY <1>4, <1>6, <1>7, <1>8, <1>9, <1>10 DEF OthersStep

\* Such a step leaves a punctual member as it is, if its manager goes on as
\* before or gives the session up.
LEMMA GoesOn ==
    ASSUME TypeInv, KeysIssued, NEW c \in LoggingIn, PunctualOK(c), OthersStep(c),
           manager'[c].pc = "login_sent" => manager[c].pc = "login_sent",
           manager'[c].pc \in {"alive", "ping"} =>
               /\ manager[c].pc \in {"alive", "ping"}
               /\ manager'[c].key = manager[c].key /\ manager'[c].due = manager[c].due
    PROVE  PunctualOK(c)'
  <1>1. StoreTypes /\ c \in Member /\ manager[c] \in Managers
    BY DEF TypeInv, ManagersOK, LoggingIn, Member
  <1>2. issued'[c] = issued[c]
    <2>1. \/ \E d \in Member \ {c} : issued' = [issued EXCEPT ![d] = @ + 1]
          \/ issued' = issued
      BY DEF OthersStep, SetIndex, SetSession, get_session, remove_session,
             kill_expired_sessions, storeVars
    <2> QED BY <1>1, <2>1 DEF StoreTypes
  <1>3. PING_INTERVAL \in 0 .. PING_INTERVAL /\ manager[c].due \in 0 .. PING_INTERVAL
    BY <1>1, SessionAssumption DEF Managers
  <1>4. ASSUME issued'[c] = 1, manager'[c].pc = "login_sent"
        PROVE  Lasts(c, PING_INTERVAL)'
    <2>1. Lasts(c, PING_INTERVAL)
      BY <1>2, <1>4 DEF PunctualOK
    <2> QED BY <1>1, <1>2, <1>3, <1>4, <2>1, OthersKeepIt
  <1>5. ASSUME issued'[c] = 1, manager'[c].pc \in {"alive", "ping"}
        PROVE  /\ manager'[c].key = <<c, 1>> /\ <<c, 1>> \notin DOMAIN opening'
               /\ Lasts(c, manager[c].due)'
    <2>1. /\ manager[c].key = <<c, 1>> /\ <<c, 1>> \notin DOMAIN opening
          /\ Lasts(c, manager[c].due)
      BY <1>2, <1>5 DEF PunctualOK
    <2>2. PICK time \in 0 .. PING_INTERVAL : time = manager[c].due
      BY <1>3
    <2>3. Lasts(c, time)' /\ <<c, 1>> \notin DOMAIN opening'
      BY <1>1, <1>2, <1>5, <2>1, <2>2, OthersKeepIt
    <2>4. manager'[c].due = time
      BY <1>5, <2>2
    <2> QED BY <1>5, <2>1, <2>3, <2>4 DEF Lasts
  <1> QED BY <1>4, <1>5 DEF PunctualOK

\* What a punctual member does itself.
LEMMA PunctualActs ==
    ASSUME TypeInv, KeysIssued, NEW c \in LoggingIn, PunctualOK(c),
           \/ Authenticate(c) \/ Start(c) \/ LoginError(c) \/ PingError(c)
           \/ Reconnect(c) \/ LogoutCheckSession(c) \/ Crash(c) \/ UseKey(c)
    PROVE  PunctualOK(c)'
  <1>1. /\ manager \in [LoggingIn -> Managers] /\ manager[c] \in Managers
        /\ ManagerOK(c) /\ StoreTypes /\ c \in Member
        /\ issued[c] \in Nat
    BY SessionAssumption DEF TypeInv, ManagersOK, StoreTypes, LoggingIn, Member
  <1>2. ASSUME manager'[c].pc \notin {"login_sent", "alive", "ping"}
        PROVE  PunctualOK(c)'
    BY <1>2 DEF PunctualOK
  <1>3. CASE Start(c) \/ LoginError(c) \/ PingError(c)
    <2>1. manager'[c].pc = "login"
      BY <1>1, <1>3 DEF Start, LoginError, PingError, Managers
    <2> QED BY <1>2, <2>1
  <1>4. CASE LogoutCheckSession(c) \/ LogoutRemoveSession(c) \/ Crash(c)
    <2>1. manager'[c].pc \in {"logout", "offline"}
      BY <1>1, <1>4 DEF LogoutCheckSession, LogoutRemoveSession, Crash, NoManager, Managers
    <2> QED BY <1>2, <2>1
  <1>5. CASE LoginSetIndex(c)
    <2>1. SetIndex(c, manager[c].conn) /\ manager'[c].pc = "login_sent"
      BY <1>1, <1>5 DEF LoginSetIndex, Managers
    <2>2. /\ issued'[c] = issued[c] + 1
          /\ DOMAIN opening' = DOMAIN opening \cup {<<c, issued[c] + 1>>}
      BY <1>1, <2>1 DEF SetIndex, Insert, StoreTypes
    <2>3. IndexOf(c)' = issued[c] + 1
      BY <1>1, <2>1, SetIndexEntry
    <2>4. issued'[c] = 1 => IndexOf(c)' = 1 /\ <<c, 1>> \in DOMAIN opening'
      BY <1>1, <2>2, <2>3
    <2> QED BY <2>1, <2>4 DEF PunctualOK, Lasts
  <1>6. CASE LoginResponse(c)
    <2>1. /\ manager[c].pc = "login_sent" /\ UNCHANGED storeVars
          /\ <<c, manager[c].asked>> \notin DOMAIN opening
          /\ manager'[c].pc = "alive" /\ manager'[c].due = PING_INTERVAL
          /\ manager'[c].key = <<c, manager[c].asked>>
      BY <1>1, <1>6 DEF LoginResponse, Managers
    <2>2. ASSUME issued[c] = 1
          PROVE  manager[c].asked = 1 /\ Lasts(c, PING_INTERVAL)
      BY <1>1, <2>1, <2>2 DEF ManagerOK, PunctualOK
    <2>3. Lasts(c, PING_INTERVAL) => Lasts(c, PING_INTERVAL)'
      BY <2>1 DEF Lasts, storeVars, IndexOf, IndexMap, has_session
    <2>4. issued' = issued /\ opening' = opening
      BY <2>1 DEF storeVars
    <2> QED BY <2>1, <2>2, <2>3, <2>4 DEF PunctualOK, Lasts
  <1>7. CASE PingCheckSession(c)
    <2>1. /\ get_session(manager[c].key) /\ manager[c].pc = "alive"
          /\ manager'[c].pc \in {"ping", "login"}
          /\ manager'[c].key = manager[c].key /\ manager'[c].due = manager[c].due
      BY <1>1, <1>7 DEF PingCheckSession, Managers
    <2>2. OthersStep(c)
      BY <2>1 DEF OthersStep
    <2> QED BY <2>1, <2>2, GoesOn
  <1>8. CASE PingCompare(c)
    <2>0. /\ manager[c].pc = "ping" /\ get_session(manager[c].key)
          /\ \/ manager' = [manager EXCEPT ![c].pc = "login"]
             \/ /\ manager' = [manager EXCEPT ![c].pc = "alive", ![c].due = PING_INTERVAL]
                /\ has_session(manager[c].key)
      BY <1>8 DEF PingCompare
    <2>1. /\ manager[c].pc = "ping" /\ get_session(manager[c].key)
          /\ manager'[c].key = manager[c].key
          /\ \/ manager'[c].pc = "login"
             \/ /\ manager'[c].pc = "alive" /\ manager'[c].due = PING_INTERVAL
                /\ has_session(manager[c].key)
      BY <1>1, <2>0 DEF Managers
    <2>2. issued' = issued /\ opening' = opening /\ IndexOf(c)' = IndexOf(c)
      BY <2>1 DEF get_session, IndexOf, IndexMap
    <2>3. ASSUME issued[c] = 1, manager'[c].pc = "alive"
          PROVE  /\ manager[c].key = <<c, 1>> /\ <<c, 1>> \notin DOMAIN opening
                 /\ Lasts(c, PING_INTERVAL)'
      <3>1. /\ manager[c].key = <<c, 1>> /\ <<c, 1>> \notin DOMAIN opening
            /\ IndexOf(c) = 1 /\ <<c, 1>> \in DOMAIN sessions
        BY <2>1, <2>3 DEF PunctualOK, Lasts, has_session
      <3>2. sessions[<<c, 1>>] \in Wrappers(Conn, SESSIONS_EXPIRATION_TIME)
        BY <1>1, <3>1 DEF StoreTypes, IsMap
      <3>3. /\ <<c, 1>> \in DOMAIN sessions'
            /\ sessions'[<<c, 1>>].left = SESSIONS_EXPIRATION_TIME
        BY <2>1, <3>1, <3>2 DEF get_session, has_session, Renew, Wrappers
      <3>4. SESSIONS_EXPIRATION_TIME >= PING_INTERVAL
        BY SessionAssumption
      <3> QED BY <2>2, <3>1, <3>3, <3>4 DEF Lasts, has_session
    <2>4. CASE manager'[c].pc = "login"
      BY <1>2, <2>4
    <2>5. CASE manager'[c].pc = "alive" /\ manager'[c].due = PING_INTERVAL
      BY <2>1, <2>2, <2>3, <2>5 DEF PunctualOK, Lasts
    <2> QED BY <2>1, <2>4, <2>5
  <1>9. CASE Reconnect(c)
    <2>1. /\ UNCHANGED storeVars /\ manager'[c].pc = manager[c].pc
          /\ manager'[c].key = manager[c].key /\ manager'[c].due = manager[c].due
      BY <1>1, <1>9 DEF Reconnect, Managers
    <2>2. OthersStep(c)
      BY <2>1 DEF OthersStep
    <2> QED BY <2>1, <2>2, GoesOn
  <1>10. CASE UseKey(c)
    <2>1. OthersStep(c) /\ manager' = manager
      BY <1>10 DEF OthersStep, UseKey
    <2> QED BY <2>1, GoesOn
  <1> QED BY <1>3, <1>4, <1>5, <1>6, <1>7, <1>8, <1>9, <1>10 DEF Authenticate

\* What the others do, and the controller.
LEMMA OthersAct ==
    ASSUME TypeInv, KeysIssued, NEW c \in LoggingIn, PunctualOK(c),
           \/ \E d \in (Client \cup Proxy) \ {c} :
                 \/ Authenticate(d) \/ Start(d) \/ LoginError(d) \/ PingError(d)
                 \/ Reconnect(d) \/ LogoutCheckSession(d) \/ Crash(d) \/ UseKey(d)
           \/ \E key \in DOMAIN opening : LoginSetSession(key) \/ HeartbeatSetSession(key)
           \/ \E d \in Controller : HeartbeatSetIndex(d)
           \/ seed_members_from_csv
           \/ Sweep
    PROVE  PunctualOK(c)'
  <1>1. manager \in [LoggingIn -> Managers] /\ StoreTypes
    BY DEF TypeInv, ManagersOK
  <1>2. ASSUME NEW d \in (Client \cup Proxy) \ {c},
               \/ Authenticate(d) \/ Start(d) \/ LoginError(d) \/ PingError(d)
               \/ Reconnect(d) \/ LogoutCheckSession(d) \/ Crash(d) \/ UseKey(d)
        PROVE  OthersStep(c) /\ manager'[c] = manager[c]
    <2>1. manager'[c] = manager[c]
      BY <1>1, <1>2
         DEF Authenticate, LoginSetIndex, LoginResponse, PingCheckSession, PingCompare,
             LogoutRemoveSession, Start, LoginError, PingError, Reconnect,
             LogoutCheckSession, Crash, UseKey
    <2>2. CASE LoginSetIndex(d)
      BY <2>1, <2>2 DEF LoginSetIndex, OthersStep, Member
    <2>3. CASE LogoutRemoveSession(d)
      <3>1. has_session(manager[d].key) => manager[d].key # NoKey
        BY <1>1, NoKeyIsNone DEF has_session, StoreTypes, IsMap
      <3>2. has_session(manager[d].key) => Owner(manager[d].key) # c
        BY <3>1 DEF TypeInv, ManagersOK, ManagerOK, LoggingIn
      <3> QED BY <2>1, <2>3, <3>2 DEF LogoutRemoveSession, OthersStep
    <2>4. CASE PingCheckSession(d) \/ PingCompare(d) \/ LogoutCheckSession(d) \/ UseKey(d)
      BY <2>1, <2>4 DEF PingCheckSession, PingCompare, LogoutCheckSession, UseKey, OthersStep
    <2>5. CASE \/ LoginResponse(d) \/ Start(d) \/ LoginError(d) \/ PingError(d)
               \/ Reconnect(d) \/ Crash(d)
      BY <2>1, <2>5 DEF LoginResponse, Start, LoginError, PingError, Reconnect, Crash, OthersStep
    <2> QED BY <1>2, <2>1, <2>2, <2>3, <2>4, <2>5 DEF Authenticate
  <1>3. ASSUME NEW key \in DOMAIN opening, LoginSetSession(key) \/ HeartbeatSetSession(key)
        PROVE  OthersStep(c) /\ manager' = manager
    BY <1>3 DEF LoginSetSession, HeartbeatSetSession, OthersStep
  <1>4. ASSUME NEW d \in Controller, HeartbeatSetIndex(d)
        PROVE  OthersStep(c) /\ manager' = manager
    <2>1. d \in Member \ {c}
      BY MemberAssumption DEF Member, LoggingIn
    <2> QED BY <1>4, <2>1 DEF HeartbeatSetIndex, OthersStep
  <1>5. seed_members_from_csv \/ Sweep => OthersStep(c) /\ manager' = manager
    BY DEF seed_members_from_csv, Sweep, OthersStep
  <1>6. OthersStep(c) /\ manager'[c] = manager[c]
    BY <1>2, <1>3, <1>4, <1>5
  <1> QED BY <1>6, GoesOn

\* Time passes for the session and for the next ping alike.
LEMMA TickKeepsPunctual ==
    ASSUME TypeInv, NEW c \in Punctual, c \in LoggingIn, PunctualOK(c), Tick
    PROVE  PunctualOK(c)'
  <1>1. /\ manager[c] \in Managers /\ manager[c].due \in Nat /\ InTime(c)
        /\ sessions' = Elapse(sessions) /\ issued' = issued /\ opening' = opening
        /\ IndexOf(c)' = IndexOf(c)
    BY SessionAssumption DEF TypeInv, ManagersOK, Managers, Tick, IndexOf, IndexMap
  <1>2. /\ manager'[c].pc = manager[c].pc /\ manager'[c].key = manager[c].key
        /\ manager[c].due > 0 => manager'[c].due = manager[c].due - 1
    BY <1>1 DEF Tick, TypeInv, ManagersOK, Managers
  <1>3. ASSUME issued[c] = 1, manager[c].pc = "alive"
        PROVE  /\ manager[c].key = <<c, 1>> /\ <<c, 1>> \notin DOMAIN opening
               /\ IndexOf(c) = 1 /\ <<c, 1>> \in DOMAIN sessions'
               /\ sessions'[<<c, 1>>].left >= manager'[c].due
    <2>1. /\ manager[c].key = <<c, 1>> /\ <<c, 1>> \notin DOMAIN opening
          /\ IndexOf(c) = 1 /\ <<c, 1>> \in DOMAIN sessions
          /\ sessions[<<c, 1>>].left >= manager[c].due
      BY <1>3 DEF PunctualOK, Lasts, has_session
    <2>2. manager[c].due > 0
      BY <1>1, <1>3 DEF InTime
    <2>3. /\ sessions[<<c, 1>>] \in Wrappers(Conn, SESSIONS_EXPIRATION_TIME)
          /\ sessions[<<c, 1>>].left \in Int
      BY <2>1, SessionAssumption DEF TypeInv, StoreTypes, IsMap, Wrappers
    <2>4. ~(sessions[<<c, 1>>].left < 0)
      BY <1>1, <2>1, <2>2, <2>3
    <2>5. sessions'[<<c, 1>>].left = sessions[<<c, 1>>].left - 1
      BY <1>1, <2>1, <2>3, <2>4 DEF Elapse, Wrappers
    <2>6. <<c, 1>> \in DOMAIN sessions'
      BY <1>1, <2>1 DEF Elapse
    <2> QED BY <1>1, <1>2, <2>1, <2>2, <2>3, <2>5, <2>6
  <1>4. manager[c].pc \notin {"login_sent", "ping"}
    BY <1>1 DEF InTime
  <1> QED BY <1>1, <1>2, <1>3, <1>4 DEF PunctualOK, Lasts, has_session

-----------------------------------------------------------------------------

LEMMA InitLife ==
    ASSUME Init
    PROVE  LifeInv
  <1>1. TypeInv
    BY InitTypes
  <1>2. DOMAIN sessions = {} /\ DOMAIN opening = {} /\ DOMAIN members = {}
        /\ \A c \in Member : issued[c] = 0
    BY DEF Init, initialize, EmptyMap
  <1>3. \A c \in Punctual : c \in Member /\ c \in LoggingIn
    BY SessionAssumption DEF Member, LoggingIn
  <1>4. KeysIssued
    BY <1>2 DEF KeysIssued
  <1>5. MembersOK
    BY <1>2 DEF MembersOK, LoggingIn, Member
  <1>6. \A c \in Punctual : PunctualOK(c)
    BY <1>2, <1>3 DEF PunctualOK
  <1> QED BY <1>1, <1>4, <1>5, <1>6 DEF LifeInv

\* LifeInv is an inductive invariant of the in-memory sessions.
LEMMA NextKeepsLife ==
    ASSUME LifeInv, [Next]_vars
    PROVE  LifeInv'
  <1>1. TypeInv' /\ KeysIssued'
    BY NextKeepsTypes, NextIsStoreStep, KeysStep DEF LifeInv, TypeInv
  <1>2. CASE Next
    <2>1. MembersOK'
      BY <1>2, NextKeepsMembers DEF LifeInv
    <2>2. ASSUME NEW c \in Punctual
          PROVE  PunctualOK(c)'
      <3>1. c \in LoggingIn /\ c \in Client \cup Proxy
        BY SessionAssumption DEF LoggingIn
      <3>2. TypeInv /\ KeysIssued /\ PunctualOK(c)
        BY DEF LifeInv
      <3>3. CASE Tick
        BY <3>1, <3>2, <3>3, TickKeepsPunctual
      <3>4. CASE \E d \in Client \cup Proxy :
                    /\ d = c
                    /\ \/ Authenticate(d) \/ Start(d) \/ LoginError(d) \/ PingError(d)
                       \/ Reconnect(d) \/ LogoutCheckSession(d) \/ Crash(d) \/ UseKey(d)
        BY <3>1, <3>2, <3>4, PunctualActs
      <3> QED BY <1>2, <3>1, <3>2, <3>3, <3>4, OthersAct DEF Next
    <2> QED BY <1>1, <2>1, <2>2 DEF LifeInv
  <1>3. CASE UNCHANGED vars
    <2>1. UNCHANGED <<csv, members, seeded, sessions, clients, proxies, controllers, issued,
                      opening, manager>>
      BY <1>3 DEF vars, memberVars, storeVars
    <2>2. MembersOK'
      BY <2>1 DEF LifeInv, MembersOK, RecordDecides, IsSeeded, validate_credentials,
                  has_member, get_member
    <2>3. \A c \in Punctual : PunctualOK(c)'
      BY <2>1 DEF LifeInv, PunctualOK, Lasts, IndexOf, IndexMap, has_session
    <2> QED BY <1>1, <2>2, <2>3 DEF LifeInv
  <1> QED BY <1>2, <1>3

\* With any times, as long as the ping interval is not longer than a session's
\* TTL: a member that logged in once and pings in time is accepted and found.
THEOREM PunctualIsListed == Spec => []PunctualStaysListed
  <1>1. ASSUME LifeInv
        PROVE  PunctualStaysListed
    BY <1>1 DEF LifeInv, PunctualOK, Lasts, PunctualStaysListed
  <1> QED BY <1>1, InitLife, NextKeepsLife, PTL DEF Spec

\* With any member file: a key is only given for the password in the last
\* readable record of its member.
THEOREM LastRecordWins == Spec => []LastRecordDecides
  <1>1. ASSUME LifeInv, NEW c \in Client \cup Proxy, issued[c] > 0
        PROVE  \E i \in DOMAIN csv :
                  /\ IsReadable(csv, csv[i]) /\ csv[i][1] = c /\ csv[i][2] = pwd
                  /\ \A j \in i + 1 .. Len(csv) :
                        csv[j][1] = c => ~IsReadable(csv, csv[j])
    <2>1. seeded = Len(csv) /\ RecordDecides(c, pwd)
      BY <1>1 DEF LifeInv, MembersOK, LoggingIn, IsSeeded, validate_credentials,
                  has_member, get_member
    <2>2. DOMAIN csv = 1 .. Len(csv)
      BY <1>1, SessionAssumption DEF LifeInv, TypeInv, FileTypes
    <2> QED BY <2>1, <2>2 DEF RecordDecides
  <1>2. LifeInv => LastRecordDecides
    BY <1>1 DEF LastRecordDecides
  <1> QED BY <1>2, InitLife, NextKeepsLife, PTL DEF Spec

=============================================================================
