------------------------ MODULE RedisSessionsProofs ------------------------
(***************************************************************************)
(* For any controllers, members and bounds: the Redis sessions keep their  *)
(* types, who is accepted has an index entry too unless an EXPIRE was      *)
(* missed, and a lookup finds whoever is listed as long as it takes.       *)
(***************************************************************************)
EXTENDS RedisSessions, TLAPS

\* Some controller is about to renew the entry of c.
Renewing(c) == \E s \in Server : task[s].pc = "expire" /\ Owner(task[s].key) = c

\* The registers of an operation hold what its next command needs.
RegistersOK ==
    \A s \in Server :
        /\ task[s].pc = "expire" => task[s].key \in AccessKey
        /\ task[s].pc \in {"get_session", "get_client_session"} =>
              task[s].got \in AccessKey

\* EntryOutlivesSession is not inductive: that the entry is there says nothing
\* of how long.  It has at least as long to live as the session, or will be
\* renewed.
OutlivesBy(key, c) ==
    /\ c \in DOMAIN index
    /\ sessions[key].left <= index[c].left \/ Renewing(c)

EntriesOK ==
    \A key \in DOMAIN sessions : Owner(key) \in cut \/ OutlivesBy(key, Owner(key))

Inv == TypeOK /\ RegistersOK /\ EntriesOK

-----------------------------------------------------------------------------

\* The bookkeeping of who stays listed touches nothing else.
LEMMA WatchedKeeps ==
    ASSUME TypeOK, task' = Watched(task)
    PROVE  /\ task' \in [Server -> Tasks]
           /\ \A s \in Server : /\ task'[s].pc = task[s].pc
                                /\ task'[s].key = task[s].key
                                /\ task'[s].got = task[s].got
  <1> DEFINE S(s) == {c \in task[s].stable : IsListed(c)' /\ KeyOf(c)' = KeyOf(c)}
  <1>1. task' = [s \in Server |-> [task[s] EXCEPT !.stable = S(s)]]
    BY DEF Watched
  <1>2. \A s \in Server : S(s) \in SUBSET Member
    BY DEF TypeOK, Tasks
  <1>3. \A s \in Server : task[s] \in Tasks
    BY DEF TypeOK
  <1> HIDE DEF S
  <1> QED BY <1>1, <1>2, <1>3 DEF Tasks

\* HashMap::insert and remove keep a map a map.
LEMMA MapKept ==
    ASSUME NEW K, NEW V, NEW map, IsMap(map, K, V)
    PROVE  /\ \A k \in K, v \in V : IsMap(Insert(map, k, v), K, V)
           /\ \A k \in K : IsMap(Remove(map, k), K, V)
  BY DEF IsMap, Insert, Remove

\* So does the passage of time.
LEMMA TimeKept ==
    ASSUME NEW K, NEW V, NEW ttl \in Nat, NEW map, IsMap(map, K, Wrappers(V, ttl))
    PROVE  IsMap(Retain(Elapse(map)), K, Wrappers(V, ttl))
  <1> DEFINE e == Elapse(map)
  <1>1. DOMAIN e = DOMAIN map
    BY DEF Elapse
  <1>2. ASSUME NEW k \in DOMAIN map
        PROVE  e[k] \in Wrappers(V, ttl)
    <2>1. map[k] \in Wrappers(V, ttl)
      BY DEF IsMap
    <2>2. e[k] = [map[k] EXCEPT !.left = IF @ < 0 THEN @ ELSE @ - 1]
      BY DEF Elapse
    <2> QED BY <2>1, <2>2 DEF Wrappers
  <1> HIDE DEF e
  <1>3. IsMap(Retain(e), K, Wrappers(V, ttl))
    BY <1>1, <1>2 DEF IsMap, Retain
  <1> QED BY <1>3 DEF e

\* A wrapped value is a wrapper, and so is a renewed one.
LEMMA WrapKept ==
    ASSUME NEW V, NEW ttl \in Nat
    PROVE  /\ \A v \in V : Wrap(v, ttl) \in Wrappers(V, ttl) /\ Wrap(v, ttl).left = ttl
           /\ \A w \in Wrappers(V, ttl) :
                 /\ Renew(w, ttl) \in Wrappers(V, ttl)
                 /\ Renew(w, ttl).left = ttl
                 /\ w.left \in Int /\ w.left <= ttl
  BY DEF Wrap, Renew, Wrappers

-----------------------------------------------------------------------------

\* An operation that is not running.
LEMMA IdleIsTask == Idle \in Tasks /\ Idle.pc = "idle"
  BY DEF Idle, Tasks

LEMMA InitInv ==
    ASSUME Init
    PROVE  Inv
  <1>1. IsMap(EmptyMap, AccessKey, Wrappers(Member, SESSIONS_EXPIRATION_TIME))
    BY DEF IsMap, EmptyMap
  <1>2. IsMap(EmptyMap, Member, Wrappers(1 .. MaxKeys, SESSIONS_EXPIRATION_TIME))
    BY DEF IsMap, EmptyMap
  <1>3. issued \in [Member -> 0 .. MaxKeys]
    BY RedisAssumption DEF Init
  <1>4. TypeOK
    BY <1>1, <1>2, <1>3, IdleIsTask DEF Init, TypeOK
  <1>5. RegistersOK
    BY IdleIsTask DEF Init, RegistersOK
  <1>6. EntriesOK
    BY DEF Init, EntriesOK, EmptyMap
  <1> QED BY <1>4, <1>5, <1>6 DEF Inv

\* set_session gives the member a fresh entry.
LEMMA SetSessionKeeps ==
    ASSUME Inv, NEW s \in Server, NEW c \in Member, set_session(s, c)
    PROVE  Inv'
  <1> DEFINE n == issued[c] + 1
  <1> DEFINE ttl == SESSIONS_EXPIRATION_TIME
  <1>0. ttl \in Nat /\ MaxKeys \in Nat \ {0}
    BY RedisAssumption
  <1>1. TypeOK
    BY DEF Inv
  <1>2. n \in 1 .. MaxKeys
    BY <1>0, <1>1 DEF TypeOK, set_session
  <1>3. /\ issued' = [issued EXCEPT ![c] = n]
        /\ index' = Insert(index, c, Wrap(n, ttl))
        /\ sessions' = Insert(sessions, <<c, n>>, Wrap(c, ttl))
        /\ task' = Watched(task)
        /\ cut' = cut \ {c}
        /\ gone' = gone
    BY DEF set_session, EXPIRY_TIME
  <1> HIDE DEF n
  <1>4. /\ Wrap(n, ttl) \in Wrappers(1 .. MaxKeys, ttl) /\ Wrap(n, ttl).left = ttl
        /\ Wrap(c, ttl) \in Wrappers(Member, ttl) /\ Wrap(c, ttl).left = ttl
    BY <1>0, <1>2, WrapKept
  <1>5. <<c, n>> \in AccessKey /\ Owner(<<c, n>>) = c
    BY <1>2 DEF AccessKey, Owner
  <1>6. /\ IsMap(index', Member, Wrappers(1 .. MaxKeys, ttl))
        /\ IsMap(sessions', AccessKey, Wrappers(Member, ttl))
    BY <1>1, <1>3, <1>4, <1>5, MapKept DEF TypeOK
  <1>7. TypeOK'
    BY <1>1, <1>2, <1>3, <1>6, WatchedKeeps DEF TypeOK
  <1>8. RegistersOK'
    BY <1>1, <1>3, WatchedKeeps DEF Inv, RegistersOK
  <1>9. EntriesOK'
    <2> SUFFICES ASSUME NEW key \in DOMAIN sessions', Owner(key) \notin cut'
                 PROVE  OutlivesBy(key, Owner(key))'
      BY DEF EntriesOK
    <2>1. CASE Owner(key) = c
      <3>1. c \in DOMAIN index' /\ index'[c].left = ttl
        BY <1>3, <1>4 DEF Insert
      <3>2. sessions'[key] \in Wrappers(Member, ttl)
        BY <1>6 DEF IsMap
      <3>3. sessions'[key].left <= ttl
        BY <1>0, <3>2, WrapKept
      <3> QED BY <2>1, <3>1, <3>3 DEF OutlivesBy
    <2>2. CASE Owner(key) # c
      <3>1. key \in DOMAIN sessions /\ sessions'[key] = sessions[key]
        BY <1>3, <1>5, <2>2 DEF Insert
      <3>2. OutlivesBy(key, Owner(key))
        BY <1>3, <2>2, <3>1 DEF Inv, EntriesOK
      <3>3. Owner(key) \in DOMAIN index' /\ index'[Owner(key)] = index[Owner(key)]
        BY <1>3, <2>2, <3>2 DEF Insert, OutlivesBy
      <3>4. Renewing(Owner(key)) => Renewing(Owner(key))'
        BY <1>1, <1>3, WatchedKeeps DEF Renewing
      <3> QED BY <3>1, <3>2, <3>3, <3>4 DEF OutlivesBy
    <2> QED BY <2>1, <2>2
  <1> QED BY <1>7, <1>8, <1>9 DEF Inv

\* GETEX: the entry may now be the shorter-lived one, but will be renewed.
LEMMA GetSessionKeeps ==
    ASSUME Inv, NEW s \in Server, NEW key \in IssuedKeys, get_session(s, key)
    PROVE  Inv'
  <1> DEFINE ttl == SESSIONS_EXPIRATION_TIME
  <1>0. ttl \in Nat /\ MaxKeys \in Nat \ {0}
    BY RedisAssumption
  <1>1. TypeOK /\ key \in AccessKey
    BY DEF Inv, IssuedKeys
  <1>2. /\ task[s].pc = "idle" /\ key \in DOMAIN sessions
        /\ sessions' = [sessions EXCEPT ![key] = Renew(@, ttl)]
        /\ task' = [task EXCEPT ![s].pc = "expire", ![s].key = key]
        /\ index' = index /\ issued' = issued /\ gone' = gone /\ cut' = cut
    BY DEF get_session, EXPIRY_TIME
  <1>3. Renew(sessions[key], ttl) \in Wrappers(Member, ttl)
    BY <1>0, <1>1, <1>2, WrapKept DEF TypeOK, IsMap
  <1>4. IsMap(sessions', AccessKey, Wrappers(Member, ttl))
    BY <1>1, <1>2, <1>3 DEF TypeOK, IsMap
  <1>5. /\ task' \in [Server -> Tasks]
        /\ task'[s].pc = "expire" /\ task'[s].key = key
        /\ \A r \in Server \ {s} : task'[r] = task[r]
    <2> DEFINE t == [task[s] EXCEPT !.pc = "expire", !.key = key]
    <2>1. task[s] \in Tasks
      BY <1>1 DEF TypeOK
    <2>2. t \in Tasks /\ t.pc = "expire" /\ t.key = key
      BY <1>1, <2>1 DEF Tasks
    <2>3. task' = [task EXCEPT ![s] = t]
      BY <1>1, <1>2 DEF TypeOK
    <2> HIDE DEF t
    <2> QED BY <1>1, <2>2, <2>3 DEF TypeOK
  <1>6. TypeOK'
    BY <1>1, <1>2, <1>4, <1>5 DEF TypeOK
  <1>7. RegistersOK'
    BY <1>1, <1>5 DEF Inv, RegistersOK
  <1>8. \A c : Renewing(c) => Renewing(c)'
    BY <1>2, <1>5 DEF Renewing
  <1>9. EntriesOK'
    <2> SUFFICES ASSUME NEW k \in DOMAIN sessions', Owner(k) \notin cut'
                 PROVE  OutlivesBy(k, Owner(k))'
      BY DEF EntriesOK
    <2>1. k \in DOMAIN sessions /\ OutlivesBy(k, Owner(k))
      BY <1>2 DEF Inv, EntriesOK
    <2>2. CASE k = key
      BY <1>2, <1>5, <2>1, <2>2 DEF OutlivesBy, Renewing
    <2>3. CASE k # key
      BY <1>2, <1>8, <2>1, <2>3 DEF OutlivesBy
    <2> QED BY <2>2, <2>3
  <1> QED BY <1>6, <1>7, <1>9 DEF Inv

\* EXPIRE: the entry has the full time again, so no session outlives it.
LEMMA GetSessionExpireKeeps ==
    ASSUME Inv, NEW s \in Server, GetSessionExpire(s)
    PROVE  Inv'
  <1> DEFINE ttl == SESSIONS_EXPIRATION_TIME
  <1> DEFINE c == Owner(task[s].key)
  <1>0. ttl \in Nat /\ MaxKeys \in Nat \ {0}
    BY RedisAssumption
  <1>1. TypeOK
    BY DEF Inv
  <1>2. /\ task[s].pc = "expire"
        /\ task' = [task EXCEPT ![s] = Idle]
        /\ sessions' = sessions /\ issued' = issued /\ gone' = gone
        /\ \/ /\ c \in DOMAIN index
              /\ index' = [index EXCEPT ![c] = Renew(@, ttl)]
              /\ cut' = cut \ {c}
           \/ c \notin DOMAIN index /\ index' = index /\ cut' = cut
    BY DEF GetSessionExpire, EXPIRY_TIME
  <1> HIDE DEF c
  <1>3. c \in DOMAIN index => /\ Renew(index[c], ttl) \in Wrappers(1 .. MaxKeys, ttl)
                              /\ Renew(index[c], ttl).left = ttl
    BY <1>0, <1>1, WrapKept DEF TypeOK, IsMap
  <1>4. IsMap(index', Member, Wrappers(1 .. MaxKeys, ttl)) /\ DOMAIN index' = DOMAIN index
    BY <1>1, <1>2, <1>3 DEF TypeOK, IsMap
  <1>5. /\ task' \in [Server -> Tasks]
        /\ task'[s].pc = "idle"
        /\ \A r \in Server \ {s} : task'[r] = task[r]
    BY <1>1, <1>2, IdleIsTask DEF TypeOK
  <1>6. TypeOK'
    BY <1>1, <1>2, <1>4, <1>5 DEF TypeOK
  <1>7. RegistersOK'
    BY <1>5 DEF Inv, RegistersOK
  <1>8. \A d : d # c /\ Renewing(d) => Renewing(d)'
    BY <1>5 DEF Renewing, c
  <1>9. EntriesOK'
    <2> SUFFICES ASSUME NEW k \in DOMAIN sessions', Owner(k) \notin cut'
                 PROVE  OutlivesBy(k, Owner(k))'
      BY DEF EntriesOK
    <2>1. CASE Owner(k) = c
      <3>1. c \in DOMAIN index
        BY <1>2, <2>1 DEF Inv, EntriesOK, OutlivesBy
      <3>2. index'[c].left = ttl
        BY <1>2, <1>3, <3>1
      <3>3. sessions'[k] \in Wrappers(Member, ttl)
        BY <1>6 DEF TypeOK, IsMap
      <3>4. sessions'[k].left <= ttl
        BY <1>0, <3>3, WrapKept
      <3> QED BY <1>4, <2>1, <3>1, <3>2, <3>4 DEF OutlivesBy
    <2>2. CASE Owner(k) # c
      <3>1. OutlivesBy(k, Owner(k))
        BY <1>2, <2>2 DEF Inv, EntriesOK
      <3>2. index'[Owner(k)] = index[Owner(k)]
        BY <1>2, <2>2, <3>1 DEF OutlivesBy
      <3> QED BY <1>2, <1>4, <1>8, <2>2, <3>1, <3>2 DEF OutlivesBy
    <2> QED BY <2>1, <2>2
  <1> QED BY <1>6, <1>7, <1>9 DEF Inv

\* Ending a session asks nothing of its entry.
LEMMA RemoveSessionKeeps ==
    ASSUME Inv, NEW s \in Server, NEW key \in IssuedKeys, remove_session(s, key)
    PROVE  Inv'
  <1>1. TypeOK /\ key \in AccessKey
    BY DEF Inv, IssuedKeys
  <1>2. /\ sessions' = Remove(sessions, key)
        /\ task' = Watched(task)
        /\ index' = index /\ issued' = issued /\ gone' = gone /\ cut' = cut
    BY DEF remove_session
  <1>3. IsMap(sessions', AccessKey, Wrappers(Member, SESSIONS_EXPIRATION_TIME))
    BY <1>1, <1>2, MapKept DEF TypeOK
  <1>4. TypeOK'
    BY <1>1, <1>2, <1>3, WatchedKeeps DEF TypeOK
  <1>5. RegistersOK'
    BY <1>1, <1>2, WatchedKeeps DEF Inv, RegistersOK
  <1>6. \A c : Renewing(c) => Renewing(c)'
    BY <1>1, <1>2, WatchedKeeps DEF Renewing
  <1>7. \A k \in DOMAIN sessions' : k \in DOMAIN sessions /\ sessions'[k] = sessions[k]
    BY <1>2 DEF Remove
  <1>8. EntriesOK'
    BY <1>2, <1>6, <1>7 DEF Inv, EntriesOK, OutlivesBy
  <1> QED BY <1>4, <1>5, <1>8 DEF Inv

\* A tick takes the entry only together with the sessions it outlives, or under
\* the hands of a get_session.
LEMMA TickKeeps ==
    ASSUME Inv, Tick
    PROVE  Inv'
  <1> DEFINE ttl == SESSIONS_EXPIRATION_TIME
  <1>0. ttl \in Nat /\ MaxKeys \in Nat \ {0}
    BY RedisAssumption
  <1>1. TypeOK
    BY DEF Inv
  <1>2. /\ sessions' = Retain(Elapse(sessions))
        /\ index' = Retain(Elapse(index))
        /\ task' = Watched(task)
        /\ cut' = cut \cup {c \in DOMAIN index \ DOMAIN index' : Renewing(c)}
        /\ issued' = issued /\ gone' = gone
    BY DEF Tick, Renewing
  <1>3. /\ IsMap(sessions', AccessKey, Wrappers(Member, ttl))
        /\ IsMap(index', Member, Wrappers(1 .. MaxKeys, ttl))
    BY <1>0, <1>1, <1>2, TimeKept DEF TypeOK
  <1>4. DOMAIN index \subseteq Member
    BY <1>1 DEF TypeOK, IsMap
  <1>5. TypeOK'
    BY <1>1, <1>2, <1>3, <1>4, WatchedKeeps DEF TypeOK
  <1>6. RegistersOK'
    BY <1>1, <1>2, WatchedKeeps DEF Inv, RegistersOK
  <1>7. \A c : Renewing(c) => Renewing(c)'
    BY <1>1, <1>2, WatchedKeeps DEF Renewing
  <1>8. EntriesOK'
    <2> SUFFICES ASSUME NEW k \in DOMAIN sessions', Owner(k) \notin cut'
                 PROVE  OutlivesBy(k, Owner(k))'
      BY DEF EntriesOK
    <2> DEFINE c == Owner(k)
    <2>1. k \in DOMAIN sessions /\ ~IsExpired(Elapse(sessions)[k])
          /\ sessions'[k] = Elapse(sessions)[k]
      BY <1>2 DEF Retain, Elapse
    <2>2. OutlivesBy(k, c)
      BY <1>2, <2>1 DEF Inv, EntriesOK
    <2>3. sessions[k] \in Wrappers(Member, ttl) /\ index[c] \in Wrappers(1 .. MaxKeys, ttl)
      BY <1>1, <2>1, <2>2 DEF TypeOK, IsMap, OutlivesBy
    <2>4. sessions[k].left \in Int /\ sessions'[k].left = sessions[k].left - 1
          /\ sessions[k].left - 1 >= 0
      BY <2>1, <2>3 DEF Elapse, IsExpired, Wrappers
    <2>5. /\ index[c].left \in Int
          /\ index[c].left > 0 => /\ c \in DOMAIN index'
                                  /\ index'[c].left = index[c].left - 1
      <3>1. index[c].left \in Int
        BY <2>3 DEF Wrappers
      <3>2. Elapse(index)[c] = [index[c] EXCEPT !.left = IF @ < 0 THEN @ ELSE @ - 1]
            /\ DOMAIN Elapse(index) = DOMAIN index
        BY <2>2 DEF Elapse, OutlivesBy
      <3>3. ASSUME index[c].left > 0
            PROVE  Elapse(index)[c].left = index[c].left - 1
        BY <2>3, <3>1, <3>2, <3>3 DEF Wrappers
      <3>4. ASSUME index[c].left > 0
            PROVE  c \in DOMAIN index' /\ index'[c] = Elapse(index)[c]
        <4> DEFINE e == Elapse(index)
        <4>1. c \in DOMAIN e /\ ~IsExpired(e[c])
          BY <2>2, <3>1, <3>2, <3>3, <3>4 DEF IsExpired, OutlivesBy
        <4>2. index' = Retain(e)
          BY <1>2
        <4> HIDE DEF e
        <4>3. c \in DOMAIN index' /\ index'[c] = e[c]
          BY <4>1, <4>2 DEF Retain
        <4> QED BY <4>3 DEF e
      <3> QED BY <3>1, <3>3, <3>4
    <2>6. CASE sessions[k].left <= index[c].left
      BY <2>4, <2>5, <2>6 DEF OutlivesBy
    <2>7. CASE Renewing(c)
      <3>1. c \in DOMAIN index'
        BY <1>2, <2>2, <2>7 DEF OutlivesBy
      <3> QED BY <1>7, <2>7, <3>1 DEF OutlivesBy
    <2> QED BY <2>2, <2>6, <2>7 DEF OutlivesBy
  <1> QED BY <1>5, <1>6, <1>8 DEF Inv

\* The key an index entry leads to is one.
LEMMA KeyOfIsKey ==
    ASSUME TypeOK, NEW c \in DOMAIN index
    PROVE  c \in Member /\ KeyOf(c) \in AccessKey
  BY DEF TypeOK, IsMap, Wrappers, KeyOf, AccessKey

\* A step of an operation that only reads.
LEMMA LookUpKeeps ==
    ASSUME Inv, NEW s \in Server, NEW t \in Tasks,
           task' = [task EXCEPT ![s] = t],
           UNCHANGED <<storeVars, gone, cut>>,
           task[s].pc # "expire", t.pc # "expire",
           t.pc \in {"get_session", "get_client_session"} => t.got \in AccessKey
    PROVE  Inv'
  <1>1. /\ task' \in [Server -> Tasks]
        /\ task'[s] = t
        /\ \A r \in Server \ {s} : task'[r] = task[r]
    BY DEF Inv, TypeOK
  <1>2. TypeOK'
    BY <1>1 DEF Inv, TypeOK, storeVars
  <1>3. RegistersOK'
    BY <1>1 DEF Inv, RegistersOK
  <1>4. \A c : Renewing(c) => Renewing(c)'
    BY <1>1 DEF Renewing
  <1>5. EntriesOK'
    BY <1>4 DEF Inv, EntriesOK, OutlivesBy, storeVars
  <1> QED BY <1>2, <1>3, <1>5 DEF Inv

\* get_proxies and get_client change nothing that others rely on.
LEMMA ReadsKeep ==
    ASSUME Inv, NEW s \in Server,
           \/ \E key \in IssuedKeys : get_proxies(s, key)
           \/ \E p \in Proxy : Scan(s, p) \/ GetProxiesGetIndex(s, p)
           \/ ScanEnds(s)
           \/ GetProxiesGetSession(s)
           \/ \E c \in Client : get_client(s, c)
           \/ GetClientGetSession(s)
           \/ Return(s)
    PROVE  Inv'
  <1>1. TypeOK /\ task[s] \in Tasks
    BY DEF Inv, TypeOK
  <1>2. ASSUME NEW key \in IssuedKeys, get_proxies(s, key)
        PROVE  Inv'
    <2> DEFINE stable == {p \in Proxy : IsListed(p)}
    <2> DEFINE t == [Idle EXCEPT !.pc = "scan", !.key = key, !.unseen = Proxy,
                                 !.stable = stable]
    <2>1. task' = [task EXCEPT ![s] = t] /\ task[s].pc = "idle"
          /\ UNCHANGED <<storeVars, gone, cut>>
      BY <1>2 DEF get_proxies
    <2>2. Proxy \subseteq Member /\ stable \subseteq Member
      BY DEF Member
    <2>3. key \in AccessKey
      BY DEF IssuedKeys
    <2> HIDE DEF stable
    <2>4. t \in Tasks /\ t.pc = "scan"
      BY <2>2, <2>3 DEF Tasks, Idle
    <2> QED BY <2>1, <2>4, LookUpKeeps
  <1>3. ASSUME NEW p \in Proxy, GetProxiesGetIndex(s, p)
        PROVE  Inv'
    <2>1. CASE p \in DOMAIN index
      <3> DEFINE t == [task[s] EXCEPT !.pc = "get_session", !.got = KeyOf(p),
                                      !.all = @ \ {p}]
      <3>1. task' = [task EXCEPT ![s] = t] /\ task[s].pc = "get_index"
            /\ UNCHANGED <<storeVars, gone, cut>>
        BY <1>3, <2>1 DEF GetProxiesGetIndex
      <3>2. KeyOf(p) \in AccessKey
        BY <1>1, <2>1, KeyOfIsKey
      <3>3. t \in Tasks /\ t.pc = "get_session" /\ t.got \in AccessKey
        BY <1>1, <3>2 DEF Tasks
      <3> HIDE DEF t
      <3> QED BY <3>1, <3>3, LookUpKeeps
    <2>2. CASE p \notin DOMAIN index
      <3> DEFINE t == [task[s] EXCEPT !.pc = "panicked"]
      <3>1. task' = [task EXCEPT ![s] = t] /\ task[s].pc = "get_index"
            /\ UNCHANGED <<storeVars, gone, cut>>
        BY <1>3, <2>2 DEF GetProxiesGetIndex
      <3>2. t \in Tasks /\ t.pc = "panicked"
        BY <1>1 DEF Tasks
      <3> HIDE DEF t
      <3> QED BY <3>1, <3>2, LookUpKeeps
    <2> QED BY <2>1, <2>2
  <1>4. ASSUME GetProxiesGetSession(s)
        PROVE  Inv'
    <2>0. task[s].pc = "get_session" /\ UNCHANGED <<storeVars, gone, cut>>
      BY <1>4 DEF GetProxiesGetSession
    <2>1. CASE task[s].got \in DOMAIN sessions
      <3> DEFINE pushed == task[s].found \cup Pushes(task[s].got, task[s].key)
      <3> DEFINE pc == IF task[s].all = {} THEN "done" ELSE "get_index"
      <3> DEFINE t == [task[s] EXCEPT !.pc = pc, !.found = pushed, !.got = NoKey]
      <3>1. task' = [task EXCEPT ![s] = t]
        BY <1>4, <2>1 DEF GetProxiesGetSession
      <3>2. pushed \subseteq AccessKey
        BY <1>1, <2>0 DEF Inv, RegistersOK, Tasks, Pushes
      <3>3. pc \in {"done", "get_index"}
        OBVIOUS
      <3> HIDE DEF pushed, pc
      <3>4. t \in Tasks /\ t.pc = pc
        BY <1>1, <3>2, <3>3 DEF Tasks
      <3> HIDE DEF t
      <3> QED BY <2>0, <3>1, <3>3, <3>4, LookUpKeeps
    <2>2. CASE task[s].got \notin DOMAIN sessions
      <3> DEFINE t == [task[s] EXCEPT !.pc = "panicked"]
      <3>1. task' = [task EXCEPT ![s] = t]
        BY <1>4, <2>2 DEF GetProxiesGetSession
      <3>2. t \in Tasks /\ t.pc = "panicked"
        BY <1>1 DEF Tasks
      <3> HIDE DEF t
      <3> QED BY <2>0, <3>1, <3>2, LookUpKeeps
    <2> QED BY <2>1, <2>2
  <1>5. ASSUME NEW c \in Client, get_client(s, c)
        PROVE  Inv'
    <2> DEFINE pc == IF c \in DOMAIN index THEN "get_client_session" ELSE "panicked"
    <2> DEFINE got == IF c \in DOMAIN index THEN KeyOf(c) ELSE NoKey
    <2> DEFINE stable == {d \in {c} : IsListed(d)}
    <2> DEFINE t == [Idle EXCEPT !.pc = pc, !.got = got, !.scanned = {c},
                                 !.stable = stable]
    <2>1. task' = [task EXCEPT ![s] = t] /\ task[s].pc = "idle"
          /\ UNCHANGED <<storeVars, gone, cut>>
      BY <1>5 DEF get_client
    <2>2. /\ {c} \subseteq Member /\ stable \subseteq Member
          /\ got \in AccessKey \cup {NoKey}
          /\ pc \in {"get_client_session", "panicked"}
          /\ pc = "get_client_session" => got \in AccessKey
      BY <1>1, KeyOfIsKey DEF Member
    <2> HIDE DEF pc, got, stable
    <2>3. t \in Tasks /\ t.pc = pc /\ t.got = got
      BY <2>2 DEF Tasks, Idle
    <2> HIDE DEF t
    <2> QED BY <2>1, <2>2, <2>3, LookUpKeeps
  <1>6. ASSUME GetClientGetSession(s)
        PROVE  Inv'
    <2> DEFINE found == {task[s].got} \cap DOMAIN sessions
    <2> DEFINE t == [task[s] EXCEPT !.pc = "done", !.found = found]
    <2>1. task' = [task EXCEPT ![s] = t] /\ task[s].pc = "get_client_session"
          /\ UNCHANGED <<storeVars, gone, cut>>
      BY <1>1, <1>6 DEF GetClientGetSession, TypeOK
    <2>2. found \subseteq AccessKey
      BY <2>1 DEF Inv, RegistersOK
    <2> HIDE DEF found
    <2>3. t \in Tasks /\ t.pc = "done"
      BY <1>1, <2>2 DEF Tasks
    <2> HIDE DEF t
    <2> QED BY <2>1, <2>3, LookUpKeeps
  <1>7. ASSUME NEW p \in Proxy, Scan(s, p)
        PROVE  Inv'
    <2> DEFINE all == task[s].all \cup ({p} \cap DOMAIN index)
    <2> DEFINE t == [task[s] EXCEPT !.unseen = @ \ {p}, !.all = all]
    <2>1. task' = [task EXCEPT ![s] = t] /\ task[s].pc = "scan"
          /\ UNCHANGED <<storeVars, gone, cut>>
      BY <1>1, <1>7 DEF Scan, TypeOK
    <2>2. all \subseteq Member
      BY <1>1 DEF Tasks, Member
    <2> HIDE DEF all
    <2>3. t \in Tasks /\ t.pc = task[s].pc
      BY <1>1, <2>2 DEF Tasks
    <2> HIDE DEF t
    <2> QED BY <2>1, <2>3, LookUpKeeps
  <1>8. ASSUME ScanEnds(s)
        PROVE  Inv'
    <2> DEFINE pc == IF task[s].all = {} THEN "done" ELSE "get_index"
    <2> DEFINE t == [task[s] EXCEPT !.pc = pc, !.scanned = task[s].all]
    <2>1. task' = [task EXCEPT ![s] = t] /\ task[s].pc = "scan"
          /\ UNCHANGED <<storeVars, gone, cut>>
      BY <1>1, <1>8 DEF ScanEnds, TypeOK
    <2>2. pc \in {"done", "get_index"}
      OBVIOUS
    <2> HIDE DEF pc
    <2>3. t \in Tasks /\ t.pc = pc
      BY <1>1, <2>2 DEF Tasks
    <2> HIDE DEF t
    <2> QED BY <2>1, <2>2, <2>3, LookUpKeeps
  <1>9. ASSUME Return(s)
        PROVE  Inv'
    <2>1. task' = [task EXCEPT ![s] = Idle] /\ task[s].pc # "expire"
          /\ UNCHANGED <<storeVars, gone, cut>>
      BY <1>9 DEF Return
    <2> QED BY <2>1, IdleIsTask, LookUpKeeps
  <1> QED BY <1>2, <1>3, <1>4, <1>5, <1>6, <1>7, <1>8, <1>9

\* A controller that dies between the two commands leaves its member in cut.
LEMMA CrashKeeps ==
    ASSUME Inv, NEW s \in Server, Crash(s)
    PROVE  Inv'
  <1>1. CASE task[s].pc # "expire"
    <2>1. task' = [task EXCEPT ![s] = Idle] /\ UNCHANGED <<storeVars, gone, cut>>
      BY <1>1 DEF Crash
    <2> QED BY <1>1, <2>1, IdleIsTask, LookUpKeeps
  <1>2. CASE task[s].pc = "expire"
    <2> DEFINE c == Owner(task[s].key)
    <2>1. /\ task' = [task EXCEPT ![s] = Idle]
          /\ cut' = cut \cup {c}
          /\ UNCHANGED <<storeVars, gone>>
      BY <1>2 DEF Crash
    <2>2. c \in Member
      BY <1>2 DEF Inv, RegistersOK, AccessKey, Owner
    <2>3. /\ task' \in [Server -> Tasks]
          /\ task'[s].pc = "idle"
          /\ \A r \in Server \ {s} : task'[r] = task[r]
      BY <2>1, IdleIsTask DEF Inv, TypeOK
    <2>4. \A d : d # c /\ Renewing(d) => Renewing(d)'
      BY <2>3 DEF Renewing
    <2> HIDE DEF c
    <2>5. TypeOK'
      BY <2>1, <2>2, <2>3 DEF Inv, TypeOK, storeVars
    <2>6. RegistersOK'
      BY <2>3 DEF Inv, RegistersOK
    <2>7. EntriesOK'
      BY <2>1, <2>4 DEF Inv, EntriesOK, OutlivesBy, storeVars
    <2> QED BY <2>5, <2>6, <2>7 DEF Inv
  <1> QED BY <1>1, <1>2

\* A member that leaves, and steps that change nothing.
LEMMA LeaveKeeps ==
    ASSUME Inv, UNCHANGED <<storeVars, task, cut>>, gone' \subseteq Member
    PROVE  Inv'
  BY DEF Inv, TypeOK, RegistersOK, EntriesOK, OutlivesBy, Renewing, storeVars

\* Inv is an inductive invariant of the Redis sessions.
LEMMA NextKeeps ==
    ASSUME Inv, [Next]_vars
    PROVE  Inv'
  <1>1. ASSUME NEW s \in Server, Serve(s)
        PROVE  Inv'
    <2>1. \A key \in KeysUsed : key \in IssuedKeys
      BY DEF KeysUsed
    <2> QED BY <1>1, <2>1, SetSessionKeeps, GetSessionKeeps, RemoveSessionKeeps,
               GetSessionExpireKeeps, ReadsKeep DEF Serve
  <1>2. ASSUME NEW c \in Member, Leave(c)
        PROVE  Inv'
    <2>1. UNCHANGED <<storeVars, task, cut>> /\ gone' \subseteq Member
      BY <1>2 DEF Leave, Inv, TypeOK
    <2> QED BY <2>1, LeaveKeeps
  <1>3. CASE UNCHANGED vars
    <2>1. UNCHANGED <<storeVars, task, cut>> /\ gone' \subseteq Member
      BY <1>3 DEF vars, Inv, TypeOK
    <2> QED BY <2>1, LeaveKeeps
  <1> QED BY <1>1, <1>2, <1>3, CrashKeeps, TickKeeps DEF Next

-----------------------------------------------------------------------------

\* The maps, tasks and histories of the Redis sessions keep their types.
THEOREM RedisTypes == Spec => []TypeOK
  <1>1. Inv => TypeOK
    BY DEF Inv
  <1> QED BY <1>1, InitInv, NextKeeps, PTL DEF Spec

\* For any number of controllers and members: as long as no get_session missed
\* its EXPIRE, a member whose session is accepted has an entry in the index.
THEOREM AcceptedIsFound == Spec => []EntryOutlivesSession
  <1>1. Inv => EntryOutlivesSession
    BY DEF Inv, EntriesOK, OutlivesBy, EntryOutlivesSession
  <1> QED BY <1>1, InitInv, NextKeeps, PTL DEF Spec

-----------------------------------------------------------------------------
(* RedisSessions implements SessionRegistry.                               *)

\* The index as the registry sees it.
Shown == [c \in Member |-> IF c \in DOMAIN index THEN index[c].value ELSE 0]

LEMMA SameMembers == Registry!Member = Member
  BY DEF Registry!Member, Member

\* A step that keeps the keys and what the entries lead to is no step of the
\* registry.
LEMMA SameRegistry ==
    ASSUME issued' = issued, DOMAIN sessions' = DOMAIN sessions, Shown' = Shown
    PROVE  UNCHANGED Registry!sessionVars
  BY DEF Registry!sessionVars, Shown

\* Every step is a step of the registry, or none.
LEMMA RegistryStep ==
    ASSUME Inv, [Next]_vars
    PROVE  [Registry!RegistryNext]_(Registry!sessionVars)
  <1>1. TypeOK
    BY DEF Inv
  <1>2. ASSUME UNCHANGED storeVars
        PROVE  UNCHANGED Registry!sessionVars
    BY <1>2, SameRegistry DEF storeVars, Shown
  <1>3. ASSUME NEW s \in Server, NEW c \in Member, set_session(s, c)
        PROVE  Registry!OpenSession(c)
    <2>1. /\ issued[c] < MaxKeys
          /\ issued' = [issued EXCEPT ![c] = @ + 1]
          /\ index' = Insert(index, c, Wrap(issued[c] + 1, EXPIRY_TIME))
          /\ sessions' = Insert(sessions, <<c, issued[c] + 1>>, Wrap(c, EXPIRY_TIME))
      BY <1>1, <1>3, RedisAssumption DEF set_session, TypeOK
    <2>2. DOMAIN sessions' = DOMAIN sessions \cup {<<c, issued[c] + 1>>}
      BY <2>1 DEF Insert
    <2>3. Shown' = [Shown EXCEPT ![c] = issued[c] + 1]
      BY <2>1 DEF Shown, Insert, Wrap
    <2> QED BY <2>1, <2>2, <2>3 DEF Registry!OpenSession, Shown
  <1>4. ASSUME NEW s \in Server, NEW key, get_session(s, key)
        PROVE  UNCHANGED Registry!sessionVars
    BY <1>4, SameRegistry DEF get_session, Shown
  <1>5. ASSUME NEW s \in Server, GetSessionExpire(s)
        PROVE  UNCHANGED Registry!sessionVars
    <2> DEFINE c == Owner(task[s].key)
    <2>1. /\ sessions' = sessions /\ issued' = issued
          /\ \/ c \in DOMAIN index /\ index' = [index EXCEPT ![c] = Renew(@, EXPIRY_TIME)]
             \/ index' = index
      BY <1>5 DEF GetSessionExpire
    <2>2. \A d \in DOMAIN index : /\ d \in Member
                                  /\ Renew(index[d], EXPIRY_TIME).value = index[d].value
      BY <1>1 DEF TypeOK, IsMap, Renew, Wrappers
    <2> HIDE DEF c
    <2>3. /\ DOMAIN index' = DOMAIN index
          /\ \A d \in DOMAIN index : index'[d].value = index[d].value
      BY <2>1, <2>2
    <2>4. Shown' = Shown
      BY <2>3 DEF Shown
    <2> QED BY <2>1, <2>4, SameRegistry
  <1>6. ASSUME NEW s \in Server, NEW key, remove_session(s, key)
        PROVE  Registry!RegistryNext
    <2>1. /\ key \in DOMAIN sessions
          /\ DOMAIN sessions' = DOMAIN sessions \ {key}
          /\ index' = index /\ issued' = issued
      BY <1>6 DEF remove_session, Remove
    <2>2. Registry!EndSessions({key}, {})
      <3>1. Shown = [c \in Member |-> IF c \in {} THEN 0 ELSE Shown[c]]
        BY DEF Shown
      <3> QED BY <2>1, <3>1, SameMembers DEF Registry!EndSessions, Shown
    <2> QED BY <2>1, <2>2, SameMembers DEF Registry!RegistryNext
  <1>7. ASSUME Tick
        PROVE  [Registry!RegistryNext]_(Registry!sessionVars)
    <2> DEFINE ended == DOMAIN sessions \ DOMAIN sessions'
    <2> DEFINE unlisted == DOMAIN index \ DOMAIN index'
    <2>1. /\ sessions' = Retain(Elapse(sessions))
          /\ index' = Retain(Elapse(index))
          /\ issued' = issued
      BY <1>7 DEF Tick
    <2>2. DOMAIN sessions' = DOMAIN sessions \ ended
      BY <2>1 DEF Retain, Elapse
    <2>3. /\ DOMAIN index' \subseteq DOMAIN index
          /\ \A c \in DOMAIN index' : index'[c] = Elapse(index)[c]
      BY <2>1 DEF Retain, Elapse
    <2>4. ASSUME NEW c \in DOMAIN index'
          PROVE  index'[c].value = index[c].value
      <3>1. c \in DOMAIN index /\ index[c] \in Wrappers(1 .. MaxKeys, SESSIONS_EXPIRATION_TIME)
        BY <1>1, <2>3 DEF TypeOK, IsMap
      <3>2. Elapse(index)[c] = [index[c] EXCEPT !.left = IF @ < 0 THEN @ ELSE @ - 1]
        BY <3>1 DEF Elapse
      <3>3. Elapse(index)[c].value = index[c].value
        BY <3>1, <3>2 DEF Wrappers
      <3> QED BY <2>3, <3>3
    <2>5. unlisted \in SUBSET Member /\ ended \in SUBSET DOMAIN sessions
      BY <1>1 DEF TypeOK, IsMap
    <2>6. Shown' = [c \in Member |-> IF c \in unlisted THEN 0 ELSE Shown[c]]
      BY <2>3, <2>4 DEF Shown
    <2>7. CASE ended \cup unlisted = {}
      BY <2>1, <2>2, <2>6, <2>7, SameRegistry DEF Shown
    <2>8. CASE ended \cup unlisted # {}
      <3>1. PICK e \in SUBSET DOMAIN sessions, u \in SUBSET Member :
                e = ended /\ u = unlisted
        BY <2>5
      <3> HIDE DEF ended, unlisted
      <3>2. Registry!EndSessions(e, u)
        BY <2>1, <2>2, <2>6, <2>8, <3>1, SameMembers DEF Registry!EndSessions, Shown
      <3> QED BY <3>2, SameMembers DEF Registry!RegistryNext
    <2> QED BY <2>7, <2>8
  <1>8. ASSUME NEW s \in Server,
               \/ \E key \in IssuedKeys : get_proxies(s, key)
               \/ \E p \in Proxy : Scan(s, p) \/ GetProxiesGetIndex(s, p)
               \/ ScanEnds(s)
               \/ GetProxiesGetSession(s)
               \/ \E c \in Client : get_client(s, c)
               \/ GetClientGetSession(s)
               \/ Return(s)
               \/ Crash(s)
        PROVE  UNCHANGED storeVars
    BY <1>8 DEF get_proxies, Scan, ScanEnds, GetProxiesGetIndex, GetProxiesGetSession, get_client,
                GetClientGetSession, Return, Crash
  <1>9. ASSUME NEW c \in Member, Leave(c)
        PROVE  UNCHANGED storeVars
    BY <1>9 DEF Leave
  <1>10. UNCHANGED vars => UNCHANGED storeVars
    BY DEF vars
  <1>11. \A c \in Member : Registry!OpenSession(c) => Registry!RegistryNext
    BY SameMembers DEF Registry!RegistryNext
  <1>12. ASSUME NEW s \in Server, Serve(s)
         PROVE  [Registry!RegistryNext]_(Registry!sessionVars)
    BY <1>2, <1>3, <1>4, <1>5, <1>6, <1>8, <1>11, <1>12 DEF Serve
  <1> QED BY <1>2, <1>7, <1>8, <1>9, <1>10, <1>12 DEF Next

\* Several controllers on one Redis keep the promise that Relay builds on.
THEOREM RedisImplementsRegistry == Spec => IsRegistry
  <1>1. Init => Registry!RegistryInit
    BY SameMembers DEF Init, Registry!RegistryInit, EmptyMap
  <1> QED BY <1>1, InitInv, NextKeeps, RegistryStep, PTL
          DEF Spec, IsRegistry, Registry!RegistrySpec

-----------------------------------------------------------------------------
(* Reading key by key.                                                     *)

\* Where the members are that were listed all along, while t looks them up:
\* still to come, found, or just being read.
Accounted(t, c) ==
    \/ c \in t.all
    \/ KeyOf(c) \in t.found \cup {t.key}
    \/ t.pc = "get_session" /\ KeyOf(c) = t.got

\* SCAN does not pass over a member that stays listed, an entry is only read
\* when it is known, and what was read of a member that stays listed is still
\* true.
ReadOK(t) ==
    /\ \A c \in t.stable : IsListed(c)
    /\ t.pc = "scan" => t.stable \subseteq t.unseen \cup t.all
    /\ t.pc \notin {"scan", "expire"} =>
          t.stable \subseteq t.scanned /\ t.all \subseteq t.scanned
    /\ t.pc \in {"get_index", "get_session"} => \A c \in t.stable : Accounted(t, c)
    /\ t.pc = "get_session" =>
          \E c \in t.scanned : t.got[1] = c /\ (c \in t.stable => KeyOf(c) = t.got)
    /\ t.pc = "get_client_session" => \A c \in t.stable : KeyOf(c) = t.got
    /\ t.pc = "done" => \A c \in t.stable : KeyOf(c) \in t.found \cup {t.key}
    /\ t.pc = "panicked" => t.stable # t.scanned

ReadsOK == \A s \in Server : ReadOK(task[s])

\* A step of a reader, which leaves the store alone.
LEMMA ReaderStep ==
    ASSUME TypeOK, ReadsOK, NEW s \in Server, NEW t, ReadOK(t),
           task' = [task EXCEPT ![s] = t], UNCHANGED storeVars
    PROVE  ReadsOK'
  <1>1. \A r \in Server : task'[r] = IF r = s THEN t ELSE task[r]
    BY DEF TypeOK
  <1>2. \A c : KeyOf(c)' = KeyOf(c) /\ IsListed(c)' = IsListed(c)
    BY DEF KeyOf, IsListed, storeVars
  <1>3. ASSUME NEW r \in Server
        PROVE  ReadOK(task[r])'
    <2>1. PICK u : u = task'[r] /\ ReadOK(u)
      BY <1>1 DEF ReadsOK
    <2> QED BY <1>2, <2>1 DEF ReadOK, Accounted
  <1> QED BY <1>3 DEF ReadsOK

\* A step that changes the store: of the members it looks up a reader keeps
\* those in mind that stay listed under the same key.
LEMMA StoreChange ==
    ASSUME ReadsOK,
           \A r \in Server :
               \/ task'[r] = Idle
               \/ /\ task'[r].scanned = task[r].scanned /\ task'[r].all = task[r].all
                  /\ task'[r].unseen = task[r].unseen
                  /\ \/ task'[r].pc = "expire"
                     \/ /\ task'[r].pc = task[r].pc /\ task'[r].key = task[r].key
                        /\ task'[r].got = task[r].got /\ task'[r].found = task[r].found
                  /\ task'[r].stable \subseteq task[r].stable
                  /\ \A c \in task'[r].stable : IsListed(c)' /\ KeyOf(c)' = KeyOf(c)
    PROVE  ReadsOK'
  <1> SUFFICES ASSUME NEW r \in Server
               PROVE  ReadOK(task[r])'
    BY DEF ReadsOK
  <1>1. CASE task'[r] = Idle
    BY <1>1 DEF ReadOK, Idle
  <1>2. CASE task'[r] # Idle
    <2>1. PICK t, u : t = task[r] /\ u = task'[r]
      OBVIOUS
    <2>2. /\ ReadOK(t) /\ u.scanned = t.scanned /\ u.all = t.all /\ u.unseen = t.unseen
          /\ \/ u.pc = "expire"
             \/ u.pc = t.pc /\ u.key = t.key /\ u.got = t.got /\ u.found = t.found
          /\ u.stable \subseteq t.stable
          /\ \A c \in u.stable : IsListed(c)' /\ KeyOf(c)' = KeyOf(c)
      BY <1>2, <2>1 DEF ReadsOK
    <2>3. ReadOK(u)'
      <3>1. CASE u.pc = "expire"
        BY <2>2, <3>1 DEF ReadOK
      <3>2. CASE u.pc = t.pc /\ u.key = t.key /\ u.got = t.got /\ u.found = t.found
        <4>1. \A c \in u.stable : Accounted(t, c) => Accounted(u, c)'
          BY <2>2, <3>2 DEF Accounted
        <4> QED BY <2>2, <3>2, <4>1 DEF ReadOK
      <3> QED BY <2>2, <3>1, <3>2
    <2> QED BY <2>1, <2>3 DEF ReadOK, Accounted
  <1> QED BY <1>1, <1>2

\* Renewals touch neither the keys nor what the index leads to.
LEMMA SameView ==
    ASSUME DOMAIN index' = DOMAIN index, DOMAIN sessions' = DOMAIN sessions,
           \A c \in DOMAIN index : index'[c].value = index[c].value
    PROVE  \A c : IsListed(c) => IsListed(c)' /\ KeyOf(c)' = KeyOf(c)
  BY DEF IsListed, KeyOf

LEMMA WatchedReads ==
    ASSUME TypeOK, ReadsOK, task' = Watched(task)
    PROVE  ReadsOK'
  <1> DEFINE S(s) == {c \in task[s].stable : IsListed(c)' /\ KeyOf(c)' = KeyOf(c)}
  <1>1. task' = [s \in Server |-> [task[s] EXCEPT !.stable = S(s)]]
    BY DEF Watched
  <1>2. ASSUME NEW s \in Server
        PROVE  /\ task'[s].scanned = task[s].scanned /\ task'[s].all = task[s].all
               /\ task'[s].unseen = task[s].unseen
               /\ task'[s].pc = task[s].pc /\ task'[s].key = task[s].key
               /\ task'[s].got = task[s].got /\ task'[s].found = task[s].found
               /\ task'[s].stable = S(s)
    <2>1. task[s] \in Tasks
      BY DEF TypeOK
    <2> HIDE DEF S
    <2> QED BY <1>1, <2>1 DEF Tasks
  <1> QED BY <1>2, StoreChange

\* The operations that write.
LEMMA WritesKeepReads ==
    ASSUME Inv, ReadsOK, NEW s \in Server,
           \/ \E c \in Member : set_session(s, c)
           \/ \E key \in KeysUsed : get_session(s, key) \/ remove_session(s, key)
           \/ GetSessionExpire(s)
    PROVE  ReadsOK'
  <1>1. TypeOK /\ \A r \in Server : task[r] \in Tasks /\ ReadOK(task[r])
    BY DEF Inv, TypeOK, ReadsOK
  <1>2. CASE \/ \E c \in Member : set_session(s, c)
             \/ \E key \in KeysUsed : remove_session(s, key)
    BY <1>1, <1>2, WatchedReads DEF set_session, remove_session
  <1>3. ASSUME NEW key \in KeysUsed, get_session(s, key)
        PROVE  ReadsOK'
    <2>1. \A c : IsListed(c) => IsListed(c)' /\ KeyOf(c)' = KeyOf(c)
      BY <1>3, SameView DEF get_session
    <2>2. \A r \in Server :
              /\ task'[r].scanned = task[r].scanned /\ task'[r].all = task[r].all
              /\ task'[r].unseen = task[r].unseen
              /\ task'[r].stable = task[r].stable
              /\ task'[r] = task[r] \/ task'[r].pc = "expire"
      BY <1>1, <1>3 DEF get_session, TypeOK, Tasks
    <2> QED BY <1>1, <2>1, <2>2, StoreChange DEF ReadOK
  <1>4. CASE GetSessionExpire(s)
    <2>1. DOMAIN index' = DOMAIN index /\ sessions' = sessions
          /\ \A c \in DOMAIN index : index'[c].value = index[c].value
      <3>1. \A c \in DOMAIN index : index[c] \in Wrappers(1 .. MaxKeys, SESSIONS_EXPIRATION_TIME)
        BY <1>1 DEF TypeOK, IsMap
      <3> QED BY <1>4, <3>1 DEF GetSessionExpire, Renew, Wrappers
    <2>2. \A c : IsListed(c) => IsListed(c)' /\ KeyOf(c)' = KeyOf(c)
      BY <2>1, SameView
    <2>3. \A r \in Server : task'[r] = Idle \/ task'[r] = task[r]
      BY <1>1, <1>4 DEF GetSessionExpire, TypeOK
    <2> QED BY <1>1, <2>2, <2>3, StoreChange DEF ReadOK
  <1> QED BY <1>2, <1>3, <1>4

\* The operations that read, command by command.
LEMMA LookUpsKeepReads ==
    ASSUME Inv, ReadsOK, NEW s \in Server,
           \/ \E key \in IssuedKeys : get_proxies(s, key)
           \/ \E p \in Proxy : Scan(s, p) \/ GetProxiesGetIndex(s, p)
           \/ ScanEnds(s)
           \/ GetProxiesGetSession(s)
           \/ \E c \in Client : get_client(s, c)
           \/ GetClientGetSession(s)
           \/ Return(s) \/ Crash(s)
    PROVE  ReadsOK'
  <1>1. TypeOK /\ task[s] \in Tasks /\ ReadOK(task[s])
    BY DEF Inv, TypeOK, ReadsOK
  <1>2. \A t : ReadOK(t) /\ task' = [task EXCEPT ![s] = t] /\ UNCHANGED storeVars => ReadsOK'
    BY <1>1, ReaderStep
  <1>3. ASSUME NEW key \in IssuedKeys, get_proxies(s, key)
        PROVE  ReadsOK'
    <2> DEFINE stable == {p \in Proxy : IsListed(p)}
               t == [Idle EXCEPT !.pc = "scan", !.key = key, !.unseen = Proxy,
                                 !.stable = stable]
    <2>1. task' = [task EXCEPT ![s] = t] /\ UNCHANGED storeVars
      BY <1>3 DEF get_proxies
    <2>2. stable \subseteq Proxy /\ \A p \in stable : IsListed(p)
      OBVIOUS
    <2>3. t.pc = "scan" /\ t.unseen = Proxy /\ t.stable = stable
      BY DEF Idle
    <2> HIDE DEF stable, t
    <2>4. ReadOK(t)
      BY <2>2, <2>3 DEF ReadOK
    <2> QED BY <1>2, <2>1, <2>4
  <1>4. ASSUME NEW p \in Proxy, GetProxiesGetIndex(s, p)
        PROVE  ReadsOK'
    <2>1. /\ UNCHANGED storeVars /\ task[s].pc = "get_index"
          /\ p \in task[s].all /\ p \in task[s].scanned
      BY <1>1, <1>4 DEF GetProxiesGetIndex, ReadOK
    <2>2. CASE p \in DOMAIN index
      <3> DEFINE t == [task[s] EXCEPT !.pc = "get_session", !.got = KeyOf(p), !.all = @ \ {p}]
      <3>1. task' = [task EXCEPT ![s] = t]
        BY <1>4, <2>2 DEF GetProxiesGetIndex
      <3>2. /\ t.pc = "get_session" /\ t.got = KeyOf(p) /\ t.all = task[s].all \ {p}
            /\ t.scanned = task[s].scanned /\ t.stable = task[s].stable
            /\ t.found = task[s].found /\ t.key = task[s].key
        BY <1>1 DEF Tasks
      <3>3. KeyOf(p)[1] = p
        BY DEF KeyOf
      <3> HIDE DEF t
      <3>4. \A c \in t.stable : Accounted(t, c)
        BY <1>1, <2>1, <3>2 DEF ReadOK, Accounted
      <3>5. ReadOK(t)
        BY <1>1, <2>1, <3>2, <3>3, <3>4 DEF ReadOK
      <3> QED BY <1>2, <2>1, <3>1, <3>5
    <2>3. CASE p \notin DOMAIN index
      <3> DEFINE t == [task[s] EXCEPT !.pc = "panicked"]
      <3>1. task' = [task EXCEPT ![s] = t]
        BY <1>4, <2>3 DEF GetProxiesGetIndex
      <3>2. /\ t.pc = "panicked" /\ t.all = task[s].all
            /\ t.scanned = task[s].scanned /\ t.stable = task[s].stable
        BY <1>1 DEF Tasks
      <3>3. p \notin task[s].stable
        BY <1>1, <2>3 DEF ReadOK, IsListed
      <3> HIDE DEF t
      <3>4. ReadOK(t)
        BY <1>1, <2>1, <3>2, <3>3 DEF ReadOK
      <3> QED BY <1>2, <2>1, <3>1, <3>4
    <2> QED BY <2>2, <2>3
  <1>5. ASSUME GetProxiesGetSession(s)
        PROVE  ReadsOK'
    <2>1. UNCHANGED storeVars /\ task[s].pc = "get_session"
      BY <1>5 DEF GetProxiesGetSession
    <2>2. CASE task[s].got \in DOMAIN sessions
      <3> DEFINE pushed == task[s].found \cup Pushes(task[s].got, task[s].key)
                 pc == IF task[s].all = {} THEN "done" ELSE "get_index"
                 t == [task[s] EXCEPT !.pc = pc, !.found = pushed, !.got = NoKey]
      <3>1. task' = [task EXCEPT ![s] = t]
        BY <1>5, <2>2 DEF GetProxiesGetSession
      <3>2. /\ t.pc = pc /\ t.all = task[s].all /\ t.found = pushed
            /\ t.scanned = task[s].scanned /\ t.stable = task[s].stable
            /\ t.key = task[s].key
        BY <1>1 DEF Tasks
      <3>3. /\ task[s].found \subseteq pushed
            /\ task[s].got \in pushed \cup {task[s].key}
            /\ pc \in {"done", "get_index"} /\ (pc = "done" => task[s].all = {})
        BY DEF Pushes
      <3> HIDE DEF pushed, pc, t
      <3>4. \A c \in t.stable : c \in t.all \/ KeyOf(c) \in t.found \cup {t.key}
        BY <1>1, <2>1, <3>2, <3>3 DEF ReadOK, Accounted
      <3>5. ReadOK(t)
        BY <1>1, <2>1, <3>2, <3>3, <3>4 DEF ReadOK, Accounted
      <3> QED BY <1>2, <2>1, <3>1, <3>5
    <2>3. CASE task[s].got \notin DOMAIN sessions
      <3> DEFINE t == [task[s] EXCEPT !.pc = "panicked"]
      <3>1. task' = [task EXCEPT ![s] = t]
        BY <1>5, <2>3 DEF GetProxiesGetSession
      <3>2. /\ t.pc = "panicked" /\ t.all = task[s].all
            /\ t.scanned = task[s].scanned /\ t.stable = task[s].stable
        BY <1>1 DEF Tasks
      <3>3. task[s].stable # task[s].scanned
        BY <1>1, <2>1, <2>3 DEF ReadOK, IsListed
      <3> HIDE DEF t
      <3>4. ReadOK(t)
        BY <1>1, <2>1, <3>2, <3>3 DEF ReadOK
      <3> QED BY <1>2, <2>1, <3>1, <3>4
    <2> QED BY <2>2, <2>3
  <1>6. ASSUME NEW c \in Client, get_client(s, c)
        PROVE  ReadsOK'
    <2> DEFINE pc == IF c \in DOMAIN index THEN "get_client_session" ELSE "panicked"
               got == IF c \in DOMAIN index THEN KeyOf(c) ELSE NoKey
               stable == {d \in {c} : IsListed(d)}
               t == [Idle EXCEPT !.pc = pc, !.got = got, !.scanned = {c}, !.stable = stable]
    <2>1. task' = [task EXCEPT ![s] = t] /\ UNCHANGED storeVars
      BY <1>6 DEF get_client
    <2>2. /\ pc \in {"get_client_session", "panicked"}
          /\ stable \subseteq {c} /\ \A d \in stable : IsListed(d)
          /\ pc = "get_client_session" => got = KeyOf(c)
          /\ pc = "panicked" => c \notin stable
      BY DEF IsListed
    <2>3. t.pc = pc /\ t.all = {} /\ t.scanned = {c} /\ t.stable = stable /\ t.got = got
      BY DEF Idle
    <2> HIDE DEF pc, got, stable, t
    <2>4. ReadOK(t)
      BY <2>2, <2>3 DEF ReadOK
    <2> QED BY <1>2, <2>1, <2>4
  <1>7. ASSUME GetClientGetSession(s)
        PROVE  ReadsOK'
    <2> DEFINE found == {task[s].got} \cap DOMAIN sessions
               t == [task[s] EXCEPT !.pc = "done", !.found = found]
    <2>1. task' = [task EXCEPT ![s] = t] /\ task[s].pc = "get_client_session"
          /\ UNCHANGED storeVars
      BY <1>1, <1>7 DEF GetClientGetSession, TypeOK
    <2>2. /\ t.pc = "done" /\ t.all = task[s].all /\ t.found = found
          /\ t.scanned = task[s].scanned /\ t.stable = task[s].stable
      BY <1>1 DEF Tasks
    <2>3. \A c \in task[s].stable : KeyOf(c) \in found
      BY <1>1, <2>1 DEF ReadOK, IsListed
    <2> HIDE DEF found, t
    <2>4. ReadOK(t)
      BY <1>1, <2>1, <2>2, <2>3 DEF ReadOK
    <2> QED BY <1>2, <2>1, <2>4
  <1>8. ASSUME NEW p \in Proxy, Scan(s, p)
        PROVE  ReadsOK'
    <2> DEFINE all == task[s].all \cup ({p} \cap DOMAIN index)
               t == [task[s] EXCEPT !.unseen = @ \ {p}, !.all = all]
    <2>1. task' = [task EXCEPT ![s] = t] /\ task[s].pc = "scan"
          /\ UNCHANGED storeVars
      BY <1>1, <1>8 DEF Scan, TypeOK
    <2>2. /\ t.pc = "scan" /\ t.unseen = task[s].unseen \ {p} /\ t.all = all
          /\ t.stable = task[s].stable
      BY <1>1, <2>1 DEF Tasks
    <2>3. \A c \in task[s].stable : c \in DOMAIN index
      BY <1>1 DEF ReadOK, IsListed
    <2> HIDE DEF t
    <2>4. ReadOK(t)
      BY <1>1, <2>1, <2>2, <2>3 DEF ReadOK
    <2> QED BY <1>2, <2>1, <2>4
  <1>9. ASSUME ScanEnds(s)
        PROVE  ReadsOK'
    <2> DEFINE pc == IF task[s].all = {} THEN "done" ELSE "get_index"
               t == [task[s] EXCEPT !.pc = pc, !.scanned = task[s].all]
    <2>1. /\ task' = [task EXCEPT ![s] = t] /\ UNCHANGED storeVars
          /\ task[s].pc = "scan" /\ task[s].unseen = {}
      BY <1>1, <1>9 DEF ScanEnds, TypeOK
    <2>2. /\ t.pc = pc /\ t.all = task[s].all /\ t.scanned = task[s].all
          /\ t.stable = task[s].stable
      BY <1>1 DEF Tasks
    <2>3. pc \in {"done", "get_index"} /\ (pc = "done" => task[s].all = {})
      OBVIOUS
    <2> HIDE DEF pc, t
    <2>4. ReadOK(t)
      BY <1>1, <2>1, <2>2, <2>3 DEF ReadOK, Accounted
    <2> QED BY <1>2, <2>1, <2>4
  <1>10. CASE Return(s) \/ Crash(s)
    <2>1. task' = [task EXCEPT ![s] = Idle] /\ UNCHANGED storeVars
      BY <1>10 DEF Return, Crash
    <2>2. ReadOK(Idle)
      BY DEF ReadOK, Idle
    <2> QED BY <1>2, <2>1, <2>2
  <1> QED BY <1>3, <1>4, <1>5, <1>6, <1>7, <1>8, <1>9, <1>10

LEMMA NextKeepsReads ==
    ASSUME Inv, ReadsOK, [Next]_vars
    PROVE  ReadsOK'
  <1>1. CASE \E s \in Server : Serve(s) \/ Crash(s)
    BY <1>1, WritesKeepReads, LookUpsKeepReads DEF Serve
  <1>2. CASE Tick
    BY <1>2, WatchedReads DEF Tick, Inv
  <1>3. CASE (\E c \in Member : Leave(c)) \/ UNCHANGED vars
    <2>1. UNCHANGED <<sessions, index, task>>
      BY <1>3 DEF Leave, vars, storeVars
    <2> QED BY <2>1 DEF ReadsOK, ReadOK, Accounted, KeyOf, IsListed
  <1> QED BY <1>1, <1>2, <1>3 DEF Next

\* With any number of controllers that write meanwhile: a lookup finds whoever
\* is listed under one key from its beginning to its end, and panics only when
\* somebody it looked for was not.
THEOREM StableFound == Spec => []StableMembersFound
  <1>1. Init => ReadsOK
    BY DEF Init, ReadsOK, ReadOK, Idle
  <1>2. ReadsOK => StableMembersFound
    BY DEF ReadsOK, ReadOK, StableMembersFound
  <1> QED BY <1>1, <1>2, InitInv, NextKeeps, NextKeepsReads, PTL DEF Spec

=============================================================================
