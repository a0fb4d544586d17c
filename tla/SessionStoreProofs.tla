------------------------- MODULE SessionStoreProofs -------------------------
(***************************************************************************)
(* The in-memory sessions, for any members, times and bounds: the clients  *)
(* map leads nowhere only while set_session is between its inserts, and    *)
(* the store implements SessionRegistry.                                   *)
(***************************************************************************)
EXTENDS SessionStore, TLAPS

\* As much of the types as the argument needs.
StoreOK ==
    /\ issued \in [Member -> 0 .. MaxKeys]
    /\ DOMAIN sessions \subseteq AccessKey
    /\ DOMAIN opening \subseteq AccessKey
    /\ DOMAIN clients \subseteq Client

Inv == StoreOK /\ ClientEntryBacked

\* What a step does to the maps: one operation of the repository, a tick, or
\* nothing.
StoreStep ==
    \/ \E c \in Member : \E conn : SetIndex(c, conn)
    \/ \E key \in DOMAIN opening : SetSession(key)
    \/ \E c \in Client \cup Proxy : get_session(manager[c].key)
    \/ \E c \in Client \cup Proxy : remove_session(manager[c].key)
    \/ kill_expired_sessions
    \/ sessions' = Elapse(sessions) /\ UNCHANGED <<clients, proxies, controllers, issued, opening>>
    \/ UNCHANGED storeVars

-----------------------------------------------------------------------------

\* No action does more than one of these.
LEMMA NextIsStoreStep ==
    ASSUME [Next]_vars
    PROVE  StoreStep
  <1>1. ASSUME NEW c \in Client \cup Proxy, Authenticate(c)
        PROVE  StoreStep
    <2>1. c \in Member
      BY DEF Member
    <2> QED BY <1>1, <2>1 DEF Authenticate, LoginSetIndex, LoginResponse, PingCheckSession,
                              PingCompare, LogoutRemoveSession, StoreStep
  <1>2. ASSUME NEW c \in Client \cup Proxy,
               Start(c) \/ LoginError(c) \/ PingError(c) \/ Reconnect(c) \/ Crash(c)
        PROVE  UNCHANGED storeVars
    BY <1>2 DEF Start, LoginError, PingError, Reconnect, Crash
  <1>3. ASSUME NEW c \in Client \cup Proxy, LogoutCheckSession(c) \/ UseKey(c)
        PROVE  StoreStep
    BY <1>3 DEF LogoutCheckSession, UseKey, StoreStep
  <1>4. ASSUME NEW key \in DOMAIN opening, LoginSetSession(key) \/ HeartbeatSetSession(key)
        PROVE  StoreStep
    BY <1>4 DEF LoginSetSession, HeartbeatSetSession, StoreStep
  <1>5. ASSUME NEW c \in Controller, HeartbeatSetIndex(c)
        PROVE  StoreStep
    BY <1>5 DEF HeartbeatSetIndex, Member, StoreStep
  <1>6. Sweep \/ Tick => StoreStep
    BY DEF Sweep, Tick, StoreStep
  <1>7. UNCHANGED vars \/ seed_members_from_csv => UNCHANGED storeVars
    BY DEF vars, seed_members_from_csv
  <1>8. UNCHANGED storeVars => StoreStep
    BY DEF StoreStep
  <1> QED BY <1>1, <1>2, <1>3, <1>4, <1>5, <1>6, <1>7, <1>8 DEF Next

-----------------------------------------------------------------------------

LEMMA OwnerOf == \A c, n : Owner(<<c, n>>) = c
  BY DEF Owner

\* The key a login makes is one of its member.
LEMMA NewKeyIsKey ==
    ASSUME StoreOK, NEW c \in Member, issued[c] < MaxKeys
    PROVE  /\ issued[c] + 1 \in 1 .. MaxKeys
           /\ <<c, issued[c] + 1>> \in AccessKey
  <1>1. issued[c] \in 0 .. MaxKeys /\ MaxKeys \in Nat
    BY SessionAssumption DEF StoreOK
  <1> QED BY <1>1 DEF AccessKey

\* The first insert: whatever it leads to is being opened.
LEMMA SetIndexKeeps ==
    ASSUME Inv, NEW c \in Member, NEW conn, SetIndex(c, conn)
    PROVE  Inv'
  <1> DEFINE n == issued[c] + 1
  <1>1. /\ n \in 1 .. MaxKeys /\ <<c, n>> \in AccessKey
        /\ n \in 0 .. MaxKeys
    BY NewKeyIsKey DEF Inv, SetIndex
  <1>2. /\ issued' = [issued EXCEPT ![c] = n]
        /\ opening' = Insert(opening, <<c, n>>, conn)
        /\ clients' = IF c \in Client THEN Insert(clients, c, n) ELSE clients
        /\ sessions' = sessions
    BY DEF SetIndex
  <1> HIDE DEF n
  <1>3. DOMAIN opening' = DOMAIN opening \cup {<<c, n>>}
    BY <1>2 DEF Insert
  <1>4. DOMAIN clients' \subseteq Client
    BY <1>2 DEF Inv, StoreOK, Insert
  <1>5. StoreOK'
    BY <1>1, <1>2, <1>3, <1>4 DEF Inv, StoreOK
  <1>6. ASSUME NEW d \in DOMAIN clients'
        PROVE  \/ d = c /\ clients'[d] = n
               \/ d \in DOMAIN clients /\ clients'[d] = clients[d]
    BY <1>2 DEF Insert
  <1>7. ClientEntryBacked'
    BY <1>2, <1>3, <1>6 DEF Inv, ClientEntryBacked, has_session
  <1> QED BY <1>5, <1>7 DEF Inv

\* The second: the key is accepted as it stops being opened.
LEMMA SetSessionKeeps ==
    ASSUME Inv, NEW key \in DOMAIN opening, SetSession(key)
    PROVE  Inv'
  <1>1. /\ DOMAIN sessions' = DOMAIN sessions \cup {key}
        /\ DOMAIN opening' = DOMAIN opening \ {key}
        /\ clients' = clients /\ issued' = issued
    BY DEF SetSession, Insert, Remove
  <1>2. StoreOK'
    BY <1>1 DEF Inv, StoreOK
  <1>3. ClientEntryBacked'
    BY <1>1 DEF Inv, ClientEntryBacked, has_session
  <1> QED BY <1>2, <1>3 DEF Inv

\* Renewals and the passage of time keep the keys.
LEMMA SameKeysKeep ==
    ASSUME Inv, DOMAIN sessions' = DOMAIN sessions, UNCHANGED <<clients, issued, opening>>
    PROVE  Inv'
  BY DEF Inv, StoreOK, ClientEntryBacked, has_session

\* A logout takes the entry of the member with the session.
LEMMA RemoveSessionKeeps ==
    ASSUME Inv, NEW key, remove_session(key)
    PROVE  Inv'
  <1>1. /\ DOMAIN sessions' = DOMAIN sessions \ {key}
        /\ issued' = issued /\ opening' = opening
        /\ clients' = IF has_session(key) THEN Remove(clients, Owner(key)) ELSE clients
    BY DEF remove_session, Remove
  <1>2. /\ DOMAIN clients' \subseteq DOMAIN clients
        /\ \A c \in DOMAIN clients' : clients'[c] = clients[c]
    BY <1>1 DEF Remove
  <1>3. StoreOK'
    BY <1>1, <1>2 DEF Inv, StoreOK
  <1>4. ASSUME NEW c \in DOMAIN clients', <<c, clients[c]>> = key
        PROVE  ~has_session(key)
    BY <1>1, <1>4, OwnerOf DEF Remove
  <1>5. ClientEntryBacked'
    BY <1>1, <1>2, <1>4 DEF Inv, ClientEntryBacked, has_session
  <1> QED BY <1>3, <1>5 DEF Inv

\* What the sweep takes: the sessions that have expired and their owners.
Expired == {key \in DOMAIN sessions : IsExpired(sessions[key])}

Swept == {Owner(key) : key \in Expired}

LEMMA SweepEffect ==
    ASSUME kill_expired_sessions
    PROVE  /\ DOMAIN sessions' = DOMAIN sessions \ Expired
           /\ clients' = Without(clients, Swept)
           /\ proxies' = Without(proxies, Swept)
           /\ controllers' = Without(controllers, Swept)
           /\ issued' = issued /\ opening' = opening
  BY DEF kill_expired_sessions, Expired, Swept, Retain

\* A client that stays in the map has no session that ends.
LEMMA SweepKeeps ==
    ASSUME Inv, kill_expired_sessions
    PROVE  Inv'
  <1>1. /\ DOMAIN clients' = DOMAIN clients \ Swept
        /\ \A c \in DOMAIN clients' : clients'[c] = clients[c]
    BY SweepEffect DEF Without
  <1>2. StoreOK'
    BY <1>1, SweepEffect DEF Inv, StoreOK
  <1>3. ASSUME NEW c \in DOMAIN clients'
        PROVE  <<c, clients[c]>> \notin Expired
    BY <1>1, OwnerOf DEF Swept
  <1>4. ClientEntryBacked'
    BY <1>1, <1>3, SweepEffect DEF Inv, ClientEntryBacked, has_session
  <1> QED BY <1>2, <1>4 DEF Inv

LEMMA InitInv ==
    ASSUME Init
    PROVE  Inv
  <1>1. 0 \in 0 .. MaxKeys
    BY SessionAssumption
  <1> QED BY <1>1 DEF Init, Inv, StoreOK, ClientEntryBacked, EmptyMap

\* Inv is an inductive invariant of the in-memory sessions.
LEMMA NextKeeps ==
    ASSUME Inv, [Next]_vars
    PROVE  Inv'
  <1>1. StoreStep
    BY NextIsStoreStep
  <1>2. CASE \E c \in Client \cup Proxy : get_session(manager[c].key)
    <2>1. PICK c \in Client \cup Proxy : get_session(manager[c].key)
      BY <1>2
    <2>2. DOMAIN sessions' = DOMAIN sessions /\ UNCHANGED <<clients, issued, opening>>
      BY <2>1 DEF get_session
    <2> QED BY <2>2, SameKeysKeep
  <1>3. CASE \E c \in Client \cup Proxy : remove_session(manager[c].key)
    <2>1. PICK key : remove_session(key)
      BY <1>3 DEF remove_session
    <2> QED BY <2>1, RemoveSessionKeeps
  <1>4. CASE sessions' = Elapse(sessions)
             /\ UNCHANGED <<clients, proxies, controllers, issued, opening>>
    <2>1. DOMAIN sessions' = DOMAIN sessions
      BY <1>4 DEF Elapse
    <2> QED BY <1>4, <2>1, SameKeysKeep
  <1>5. CASE UNCHANGED storeVars
    BY <1>5, SameKeysKeep DEF storeVars
  <1> QED BY <1>1, <1>2, <1>3, <1>4, <1>5, SetIndexKeeps, SetSessionKeeps, SweepKeeps
          DEF StoreStep

\* For any members, files and bounds: the entry of a client leads to a session
\* that is accepted or whose login is under way.
THEOREM ClientEntriesBacked == Spec => []ClientEntryBacked
  <1>1. Inv => ClientEntryBacked
    BY DEF Inv
  <1> QED BY <1>1, InitInv, NextKeeps, PTL DEF Spec

-----------------------------------------------------------------------------
(* SessionStore implements SessionRegistry.                                *)

\* The three maps as the registry sees them.
Shown == [c \in Member |-> IndexOf(c)]

LEMMA SameMembers == Registry!Member = Member
  BY DEF Registry!Member, Member

\* A uid of one kind is looked up in the map of that kind.
LEMMA KindOf ==
    ASSUME NEW c \in Member
    PROVE  \/ /\ c \in Client /\ c \notin Proxy \cup Controller
              /\ IndexMap(c) = clients /\ IndexMap(c)' = clients'
           \/ /\ c \in Proxy /\ c \notin Client \cup Controller
              /\ IndexMap(c) = proxies /\ IndexMap(c)' = proxies'
           \/ /\ c \in Controller /\ c \notin Client \cup Proxy
              /\ IndexMap(c) = controllers /\ IndexMap(c)' = controllers'
  BY MemberAssumption DEF Member, IndexMap

\* What each operation does to a member's entry.
LEMMA SetIndexEntry ==
    ASSUME NEW c \in Member, NEW conn, SetIndex(c, conn), NEW d \in Member
    PROVE  IndexOf(d)' = IF d = c THEN issued[c] + 1 ELSE IndexOf(d)
  <1> DEFINE n == issued[c] + 1
  <1>1. /\ clients' = IF c \in Client THEN Insert(clients, c, n) ELSE clients
        /\ proxies' = IF c \in Proxy THEN Insert(proxies, c, n) ELSE proxies
        /\ controllers' = IF c \in Controller THEN Insert(controllers, c, n)
                                              ELSE controllers
    BY DEF SetIndex
  <1> HIDE DEF n
  <1>2. IndexMap(d)' = IF d = c THEN Insert(IndexMap(d), c, n) ELSE IndexMap(d)'
    BY <1>1, KindOf
  <1>3. d # c => \/ IndexMap(d)' = IndexMap(d)
                 \/ IndexMap(d)' = Insert(IndexMap(d), c, n)
    BY <1>1, KindOf
  <1>4. IndexOf(d)' = IF d = c THEN n ELSE IndexOf(d)
    BY <1>2, <1>3 DEF IndexOf, Insert
  <1> QED BY <1>4 DEF n

LEMMA RemoveSessionEntry ==
    ASSUME NEW key, remove_session(key), NEW d \in Member
    PROVE  IndexOf(d)' = IF has_session(key) /\ d \in {Owner(key)} \cap Client
                         THEN 0 ELSE IndexOf(d)
  <1>1. IndexMap(d)' = IF has_session(key) /\ d \in Client
                       THEN Remove(IndexMap(d), Owner(key)) ELSE IndexMap(d)
    BY KindOf DEF remove_session
  <1> QED BY <1>1 DEF IndexOf, Remove

LEMMA SweepEntry ==
    ASSUME kill_expired_sessions, NEW d \in Member
    PROVE  IndexOf(d)' = IF d \in Swept THEN 0 ELSE IndexOf(d)
  <1>1. IndexMap(d)' = Without(IndexMap(d), Swept)
    BY SweepEffect, KindOf
  <1> QED BY <1>1 DEF IndexOf, Without

\* A step that keeps the keys and the maps is no step of the registry.
LEMMA SameRegistry ==
    ASSUME issued' = issued, DOMAIN opening' = DOMAIN opening,
           DOMAIN sessions' = DOMAIN sessions,
           UNCHANGED <<clients, proxies, controllers>>
    PROVE  UNCHANGED Registry!sessionVars
  BY DEF Registry!sessionVars, IndexOf, IndexMap

\* The first insert of set_session.
LEMMA SetIndexIsPutIndex ==
    ASSUME Inv, NEW c \in Member, NEW conn, SetIndex(c, conn)
    PROVE  Registry!PutIndex(c)
  <1> DEFINE n == issued[c] + 1
  <1>1. /\ issued[c] < MaxKeys
        /\ issued' = [issued EXCEPT ![c] = n]
        /\ DOMAIN opening' = DOMAIN opening \cup {<<c, n>>}
        /\ DOMAIN sessions' = DOMAIN sessions
    BY DEF SetIndex, Insert
  <1>2. \A d \in Member : IndexOf(d)' = IF d = c THEN n ELSE IndexOf(d)
    BY SetIndexEntry
  <1>3. Shown' = [Shown EXCEPT ![c] = n]
    BY <1>2 DEF Shown
  <1> QED BY <1>1, <1>3 DEF Registry!PutIndex, Shown

\* The second.
LEMMA SetSessionIsPutSession ==
    ASSUME NEW key \in DOMAIN opening, SetSession(key)
    PROVE  Registry!PutSession(key)
  <1>1. /\ DOMAIN opening' = DOMAIN opening \ {key}
        /\ DOMAIN sessions' = DOMAIN sessions \cup {key}
        /\ issued' = issued
        /\ UNCHANGED <<clients, proxies, controllers>>
    BY DEF SetSession, Insert, Remove
  <1> QED BY <1>1 DEF Registry!PutSession, IndexOf, IndexMap

\* A logout ends one session, and may unlist its owner.
LEMMA RemoveSessionEnds ==
    ASSUME Inv, NEW key, remove_session(key)
    PROVE  [Registry!RegistryNext]_(Registry!sessionVars)
  <1>1. /\ DOMAIN sessions' = DOMAIN sessions \ {key}
        /\ clients' = IF has_session(key) THEN Remove(clients, Owner(key)) ELSE clients
        /\ UNCHANGED <<proxies, controllers, issued, opening>>
    BY DEF remove_session, Remove
  <1>2. CASE ~has_session(key)
    BY <1>1, <1>2, SameRegistry DEF has_session
  <1>3. CASE has_session(key)
    <2> DEFINE unlisted == {Owner(key)} \cap Client
    <2>1. key \in DOMAIN sessions /\ Owner(key) \in Member
      BY <1>3 DEF has_session, Inv, StoreOK, AccessKey, Owner
    <2>2. \A d \in Member : IndexOf(d)' = IF d \in unlisted THEN 0 ELSE IndexOf(d)
      BY <1>3, RemoveSessionEntry
    <2>3. Shown' = [d \in Member |-> IF d \in unlisted THEN 0 ELSE Shown[d]]
      BY <2>2 DEF Shown
    <2>4. unlisted \in SUBSET Member
      BY <2>1
    <2>5. PICK u \in SUBSET Member : u = unlisted
      BY <2>4
    <2> HIDE DEF unlisted
    <2>6. Registry!EndSessions({key}, u)
      BY <1>1, <2>1, <2>3, <2>5, SameMembers DEF Registry!EndSessions, Shown
    <2> QED BY <2>1, <2>6, SameMembers DEF Registry!RegistryNext
  <1> QED BY <1>2, <1>3

\* The sweep ends every expired session and unlists their owners.
LEMMA SweepEnds ==
    ASSUME Inv, kill_expired_sessions
    PROVE  [Registry!RegistryNext]_(Registry!sessionVars)
  <1>1. Expired \in SUBSET DOMAIN sessions
    BY DEF Expired
  <1>2. Swept \in SUBSET Member
    BY DEF Swept, Expired, Inv, StoreOK, AccessKey, Owner
  <1>3. \A d \in Member : IndexOf(d)' = IF d \in Swept THEN 0 ELSE IndexOf(d)
    BY SweepEntry
  <1>4. Shown' = [d \in Member |-> IF d \in Swept THEN 0 ELSE Shown[d]]
    BY <1>3 DEF Shown
  <1>5. CASE Expired \cup Swept = {}
    <2>1. DOMAIN sessions' = DOMAIN sessions /\ issued' = issued /\ opening' = opening
      BY <1>5, SweepEffect
    <2>2. Shown' = Shown
      BY <1>4, <1>5 DEF Shown
    <2> QED BY <2>1, <2>2 DEF Registry!sessionVars, Shown
  <1>6. CASE Expired \cup Swept # {}
    <2>1. PICK e \in SUBSET DOMAIN sessions, u \in SUBSET Member :
              e = Expired /\ u = Swept
      BY <1>1, <1>2
    <2>2. Registry!EndSessions(e, u)
      BY <1>4, <1>6, <2>1, SweepEffect, SameMembers DEF Registry!EndSessions, Shown
    <2> QED BY <2>2, SameMembers DEF Registry!RegistryNext
  <1> QED BY <1>5, <1>6

\* Every step is a step of the registry, or none.
LEMMA RegistryStep ==
    ASSUME Inv, [Next]_vars
    PROVE  [Registry!RegistryNext]_(Registry!sessionVars)
  <1>1. StoreStep
    BY NextIsStoreStep
  <1>2. CASE \E c \in Member : \E conn : SetIndex(c, conn)
    BY <1>2, SetIndexIsPutIndex, SameMembers DEF Registry!RegistryNext
  <1>3. CASE \E key \in DOMAIN opening : SetSession(key)
    BY <1>3, SetSessionIsPutSession DEF Registry!RegistryNext
  <1>4. CASE \E c \in Client \cup Proxy : get_session(manager[c].key)
    <2>1. PICK c \in Client \cup Proxy : get_session(manager[c].key)
      BY <1>4
    <2>2. /\ DOMAIN sessions' = DOMAIN sessions
          /\ UNCHANGED <<clients, proxies, controllers, issued, opening>>
      BY <2>1 DEF get_session
    <2> QED BY <2>2, SameRegistry
  <1>5. CASE \E c \in Client \cup Proxy : remove_session(manager[c].key)
    <2>1. PICK key : remove_session(key)
      BY <1>5 DEF remove_session
    <2> QED BY <2>1, RemoveSessionEnds
  <1>6. CASE sessions' = Elapse(sessions)
             /\ UNCHANGED <<clients, proxies, controllers, issued, opening>>
    <2>1. DOMAIN sessions' = DOMAIN sessions
      BY <1>6 DEF Elapse
    <2> QED BY <1>6, <2>1, SameRegistry
  <1>7. CASE UNCHANGED storeVars
    BY <1>7, SameRegistry DEF storeVars
  <1> QED BY <1>1, <1>2, <1>3, <1>4, <1>5, <1>6, <1>7, SweepEnds DEF StoreStep

\* The in-memory repository keeps the promise that Relay builds on.
THEOREM StoreImplementsRegistry == Spec => IsRegistry
  <1>1. Init => Registry!RegistryInit
    <2>1. Init => Shown = [c \in Member |-> 0]
      BY DEF Init, Shown, IndexOf, IndexMap, EmptyMap
    <2> QED BY <2>1, SameMembers DEF Init, Registry!RegistryInit, EmptyMap, Shown
  <1> QED BY <1>1, InitInv, NextKeeps, RegistryStep, PTL
          DEF Spec, IsRegistry, Registry!RegistrySpec

=============================================================================
