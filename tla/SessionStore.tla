---------------------------- MODULE SessionStore ----------------------------
(***************************************************************************)
(* Logging in, staying logged in and logging out, with the in-memory       *)
(* SessionRepository (controller/src/storage/inmemory/                     *)
(* session_repository.rs), the handlers of AuthService and the AuthManager *)
(* loop that every client and proxy runs (gateway/src/auth.rs), each cut   *)
(* at its awaits.                                                          *)
(*                                                                         *)
(* A session is accepted as long as its key is in the sessions map; the    *)
(* member is found by its uid through the clients, proxies or controllers  *)
(* map, which hold the number of its key.  Time is counted in ticks of     *)
(* 5 seconds: the sweeper's period and the ping interval.                  *)
(***************************************************************************)
EXTENDS Members, Membership

CONSTANTS
    SESSIONS_EXPIRATION_TIME,
    PING_INTERVAL,
    MaxKeys,      \* bound on the logins of a member
    MaxConns,     \* bound on the connections a member opens
    Files,        \* the member files a controller may be started with
    pwd,          \* the password the members log in with
    Punctual      \* the members whose calls never take a whole tick

ASSUME SessionAssumption ==
    /\ SESSIONS_EXPIRATION_TIME \in Nat
    /\ PING_INTERVAL \in Nat \ {0}
    /\ PING_INTERVAL =< SESSIONS_EXPIRATION_TIME
    /\ MaxKeys \in Nat \ {0}
    /\ MaxConns \in Nat
    /\ \A file \in Files :
          /\ Len(file) \in Nat /\ DOMAIN file = 1 .. Len(file)
          /\ Len(file) > 0 => Len(file[1]) > 1
    /\ Punctual \subseteq Client \cup Proxy

VARIABLES
    csv,          \* the records of MEMBERS_CSV_FILE
    members,      \* uid -> password
    seeded,       \* the records that set_members is past
    sessions,     \* access key -> connection it was made on, wrapped
    clients, proxies, controllers,   \* uid -> number of its access key
    issued,       \* the number of keys made for each member
    opening,      \* set_session calls between their two inserts
    manager       \* the AuthManager of each client and proxy

storeVars == <<sessions, clients, proxies, controllers, issued, opening>>

memberVars == <<csv, members, seeded>>

vars == <<memberVars, storeVars, manager>>

AccessKey == Member \X (1 .. MaxKeys)

Owner(key) == key[1]

NoKey == <<>>

Conn == 0 .. MaxConns

\* Of a process that has ended only the number of its connections is kept.
NoManager(conn) ==
    [pc |-> "offline", key |-> NoKey, asked |-> 0, conn |-> conn, due |-> 0]

Managers ==
    [pc : {"offline", "login", "login_sent", "alive", "ping", "logout"},
     key : AccessKey \cup {NoKey},   \* ClientSession::access_key
     asked : 0 .. MaxKeys,           \* the key a login under way will bring
     conn : Conn,                    \* its connection to the controller
     due : 0 .. PING_INTERVAL]       \* time to the next ping

TypeOK ==
    /\ csv \in Files
    /\ seeded \in 0 .. Len(csv)
    /\ DOMAIN members \subseteq {csv[i][1] : i \in 1 .. seeded}
    /\ IsMap(sessions, AccessKey, Wrappers(Conn, SESSIONS_EXPIRATION_TIME))
    /\ IsMap(clients, Client, 1 .. MaxKeys)
    /\ IsMap(proxies, Proxy, 1 .. MaxKeys)
    /\ IsMap(controllers, Controller, 1 .. MaxKeys)
    /\ issued \in [Member -> 0 .. MaxKeys]
    /\ IsMap(opening, AccessKey, Conn)
    /\ manager \in [Client \cup Proxy -> Managers]

\* A file that cannot be opened ends the controller here.
initialize ==
    /\ csv \in Files
    /\ members = EmptyMap
    /\ seeded = 0

Init ==
    /\ initialize
    /\ sessions = EmptyMap
    /\ clients = EmptyMap
    /\ proxies = EmptyMap
    /\ controllers = EmptyMap
    /\ issued = [c \in Member |-> 0]
    /\ opening = EmptyMap
    /\ manager = [c \in Client \cup Proxy |-> NoManager(0)]

-----------------------------------------------------------------------------
(* Seeding; main.rs awaits it before the heartbeat and the server start.   *)

\* set_members awaits one set_member after the other, in the order of the file.
seed_members_from_csv ==
    /\ seeded < Len(csv)
    /\ seeded' = seeded + 1
    /\ members' = IF seeded + 1 \in read_members_from_csv(csv)
                  THEN set_member(members, csv[seeded + 1])
                  ELSE members
    /\ UNCHANGED <<csv, storeVars, manager>>

IsSeeded == seeded = Len(csv)

-----------------------------------------------------------------------------
(* SessionRepository.                                                      *)

has_session(key) == key \in DOMAIN sessions

\* Faulty variant: controllers are put among the proxies.
SetIndexMixed(c, conn) ==
    /\ issued[c] < MaxKeys
    /\ issued' = [issued EXCEPT ![c] = @ + 1]
    /\ opening' = Insert(opening, <<c, issued[c] + 1>>, conn)
    /\ clients' = IF c \in Client
                  THEN Insert(clients, c, issued[c] + 1) ELSE clients
    /\ proxies' = IF c \notin Client
                  THEN Insert(proxies, c, issued[c] + 1) ELSE proxies
    /\ UNCHANGED <<sessions, controllers>>

\* set_session: the index first; its lock is released before the second insert.
SetIndex(c, conn) ==
    /\ issued[c] < MaxKeys
    /\ issued' = [issued EXCEPT ![c] = @ + 1]
    /\ opening' = Insert(opening, <<c, issued[c] + 1>>, conn)
    /\ clients' = IF c \in Client
                  THEN Insert(clients, c, issued[c] + 1) ELSE clients
    /\ proxies' = IF c \in Proxy
                  THEN Insert(proxies, c, issued[c] + 1) ELSE proxies
    /\ controllers' = IF c \in Controller
                      THEN Insert(controllers, c, issued[c] + 1) ELSE controllers
    /\ UNCHANGED sessions

SetSession(key) ==
    /\ key \in DOMAIN opening
    /\ sessions' = Insert(sessions, key,
                          Wrap(opening[key], SESSIONS_EXPIRATION_TIME))
    /\ opening' = Remove(opening, key)
    /\ UNCHANGED <<clients, proxies, controllers, issued>>

\* Faulty variant: the session is read, not renewed.
get_session_stale(key) ==
    UNCHANGED <<sessions, clients, proxies, controllers, issued, opening>>

\* Faulty variant: a session that has ended is entered anew.
get_session_revives(key) ==
    /\ sessions' = IF key # NoKey
                   THEN Insert(sessions, key, Wrap(0, SESSIONS_EXPIRATION_TIME))
                   ELSE sessions
    /\ UNCHANGED <<clients, proxies, controllers, issued, opening>>

\* Renews whatever the map still holds, expired or not.
get_session(key) ==
    /\ sessions' = IF has_session(key)
                   THEN [sessions EXCEPT
                           ![key] = Renew(@, SESSIONS_EXPIRATION_TIME)]
                   ELSE sessions
    /\ UNCHANGED <<clients, proxies, controllers, issued, opening>>

\* Faulty variant: no index is cleaned.
remove_session_only(key) ==
    /\ sessions' = Remove(sessions, key)
    /\ UNCHANGED <<clients, proxies, controllers, issued, opening>>

\* Only the clients map is cleaned, whichever kind of member logs out.
remove_session(key) ==
    /\ sessions' = Remove(sessions, key)
    /\ clients' = IF has_session(key) THEN Remove(clients, Owner(key)) ELSE clients
    /\ UNCHANGED <<proxies, controllers, issued, opening>>

Without(map, uids) == [c \in DOMAIN map \ uids |-> map[c]]

\* Faulty variant: the maps are cleaned, the sessions stay.
kill_expired_index ==
    LET uids == {Owner(key) : key \in {k \in DOMAIN sessions : IsExpired(sessions[k])}}
    IN  /\ clients' = Without(clients, uids)
        /\ proxies' = Without(proxies, uids)
        /\ controllers' = Without(controllers, uids)
        /\ UNCHANGED <<sessions, issued, opening>>

\* The uids of expired sessions leave the maps, whichever key they lead to.
kill_expired_sessions ==
    LET uids == {Owner(key) : key \in {k \in DOMAIN sessions : IsExpired(sessions[k])}}
    IN  /\ sessions' = Retain(sessions)
        /\ clients' = Without(clients, uids)
        /\ proxies' = Without(proxies, uids)
        /\ controllers' = Without(controllers, uids)
        /\ UNCHANGED <<issued, opening>>

-----------------------------------------------------------------------------
(* AuthManager and the AuthService handlers it calls.                      *)

\* The process starts, or is started again; it must reach the server.
Start(c) ==
    /\ IsSeeded
    /\ manager[c].pc = "offline"
    /\ manager[c].conn < MaxConns
    /\ manager' = [manager EXCEPT ![c].pc = "login", ![c].conn = @ + 1]
    /\ UNCHANGED <<memberVars, storeVars>>

\* AuthService::login up to the first insert of set_session.  A refused login
\* changes nothing: start_auth_handler tries it again after AUTH_DELAY.
LoginSetIndex(c) ==
    /\ manager[c].pc = "login"
    /\ validate_credentials(members, c, pwd)
    /\ SetIndex(c, manager[c].conn)
    /\ manager' = [manager EXCEPT ![c].pc = "login_sent",
                                ![c].asked = issued[c] + 1]
    /\ UNCHANGED memberVars

\* Its second insert, which may also run after the caller has given up.
LoginSetSession(key) ==
    /\ Owner(key) \notin Controller
    /\ SetSession(key)
    /\ UNCHANGED <<memberVars, manager>>

LoginResponse(c) ==
    /\ manager[c].pc = "login_sent"
    /\ <<c, manager[c].asked>> \notin DOMAIN opening
    /\ manager' = [manager EXCEPT ![c].pc = "alive",
                                ![c].key = <<c, manager[c].asked>>,
                                ![c].asked = 0,
                                ![c].due = PING_INTERVAL]
    /\ UNCHANGED <<memberVars, storeVars>>

\* The call fails; start_auth_handler tries again after AUTH_DELAY.
LoginError(c) ==
    /\ manager[c].pc = "login_sent"
    /\ manager' = [manager EXCEPT ![c].pc = "login", ![c].asked = 0]
    /\ UNCHANGED <<memberVars, storeVars>>

\* AuthService::ping, its guard; an error ends keep_alive, and a login follows.
PingCheckSession(c) ==
    /\ manager[c].pc = "alive"
    /\ manager[c].due = 0
    /\ get_session(manager[c].key)
    /\ manager' = [manager EXCEPT ![c].pc =
                     IF has_session(manager[c].key) THEN "ping" ELSE "login"]
    /\ UNCHANGED memberVars

\* The rest of the handler: unwrap the session and compare the connection.
PingCompare(c) ==
    /\ manager[c].pc = "ping"
    /\ get_session(manager[c].key)
    /\ IF /\ has_session(manager[c].key)
          /\ sessions[manager[c].key].value = manager[c].conn
       THEN manager' = [manager EXCEPT ![c].pc = "alive", ![c].due = PING_INTERVAL]
       ELSE manager' = [manager EXCEPT ![c].pc = "login"]
    /\ UNCHANGED memberVars

PingError(c) ==
    /\ manager[c].pc = "ping"
    /\ manager' = [manager EXCEPT ![c].pc = "login"]
    /\ UNCHANGED <<memberVars, storeVars>>

\* The channel reconnects by itself; the controller sees another address.
Reconnect(c) ==
    /\ manager[c].pc = "alive"
    /\ manager[c].conn < MaxConns
    /\ manager' = [manager EXCEPT ![c].conn = @ + 1]
    /\ UNCHANGED <<memberVars, storeVars>>

\* Cancelled by the user, which the loops notice before a login and right after
\* a login or a ping: AuthService::logout, its guard, then the removal.
LogoutCheckSession(c) ==
    /\ \/ manager[c].pc = "login"
       \/ manager[c].pc = "alive" /\ manager[c].due = PING_INTERVAL
    /\ get_session(manager[c].key)
    /\ IF has_session(manager[c].key)
       THEN manager' = [manager EXCEPT ![c].pc = "logout"]
       ELSE manager' = [manager EXCEPT ![c] = NoManager(@.conn)]
    /\ UNCHANGED memberVars

LogoutRemoveSession(c) ==
    /\ manager[c].pc = "logout"
    /\ remove_session(manager[c].key)
    /\ manager' = [manager EXCEPT ![c] = NoManager(@.conn)]
    /\ UNCHANGED memberVars

\* The process dies at any point, without logging out.
Crash(c) ==
    /\ manager[c].pc # "offline"
    /\ manager' = [manager EXCEPT ![c] = NoManager(@.conn)]
    /\ UNCHANGED <<memberVars, storeVars>>

\* guards::check_session in the handlers of RouteService and InfoService.
UseKey(c) ==
    /\ manager[c].pc = "alive"
    /\ get_session(manager[c].key)
    /\ UNCHANGED <<memberVars, manager>>

-----------------------------------------------------------------------------
(* The controller's own session (main.rs) and the passage of time.         *)

HeartbeatSetIndex(c) ==
    /\ IsSeeded
    /\ \A key \in DOMAIN opening : Owner(key) # c
    /\ SetIndex(c, 0)
    /\ UNCHANGED <<memberVars, manager>>

HeartbeatSetSession(key) ==
    /\ Owner(key) \in Controller
    /\ SetSession(key)
    /\ UNCHANGED <<memberVars, manager>>

Sweep == kill_expired_sessions /\ UNCHANGED <<memberVars, manager>>

InTime(c) ==
    /\ manager[c].pc \notin {"login_sent", "ping", "logout"}
    /\ manager[c].pc = "alive" => manager[c].due > 0

Tick ==
    /\ \A c \in Punctual : InTime(c)
    /\ sessions' = Elapse(sessions)
    /\ manager' = [c \in DOMAIN manager |->
          [manager[c] EXCEPT !.due = IF @ = 0 THEN 0 ELSE @ - 1]]
    /\ UNCHANGED <<clients, proxies, controllers, issued, opening>>
    /\ UNCHANGED memberVars

Authenticate(c) ==
    \/ LoginSetIndex(c)
    \/ LoginResponse(c)
    \/ PingCheckSession(c)
    \/ PingCompare(c)
    \/ LogoutRemoveSession(c)

Next ==
    \/ \E c \in Client \cup Proxy :
          \/ Authenticate(c)
          \/ Start(c)
          \/ LoginError(c)
          \/ PingError(c)
          \/ Reconnect(c)
          \/ LogoutCheckSession(c)
          \/ Crash(c)
          \/ UseKey(c)
    \/ \E key \in DOMAIN opening : LoginSetSession(key) \/ HeartbeatSetSession(key)
    \/ \E c \in Controller : HeartbeatSetIndex(c)
    \/ seed_members_from_csv
    \/ Sweep
    \/ Tick

Spec == Init /\ [][Next]_vars

\* Time goes on, and the punctual are punctual.  Nothing else is certain: every
\* operation of the repository waits for locks, and get_client or get_proxies
\* may block the sweep, and all that queue up behind it, for ever (SweepEnds of
\* RepositoryLocks).
FairSpec ==
    /\ Spec
    /\ []<>(\A c \in Punctual : InTime(c))
    /\ SF_vars(Tick)

\* The sweep always gets its locks in the end.
SweepRuns == WF_vars(Sweep)

\* A controller in which nobody waits for a lock for ever.
UnblockedSpec == FairSpec /\ SweepRuns

-----------------------------------------------------------------------------
(* What makes it correct.                                                  *)

IndexMap(c) ==
    CASE c \in Client -> clients [] c \in Proxy -> proxies [] OTHER -> controllers

IndexOf(c) == IF c \in DOMAIN IndexMap(c) THEN IndexMap(c)[c] ELSE 0

Registry ==
    INSTANCE SessionRegistry WITH
        sessions <- DOMAIN sessions, index <- [c \in Member |-> IndexOf(c)],
        opening <- DOMAIN opening, Connected <- {}

\* The store is a SessionRegistry, so what Relay relies on is true of it: a key
\* is new, is in the index before it is accepted, and once its session has
\* ended is never accepted again, in spite of get_session's renewals.
IsRegistry == Registry!RegistrySpec

\* A member that logged in once and pings in time is accepted and found, at
\* every moment: renewal, TTL and sweep period fit together.
PunctualStaysListed ==
    \A c \in Punctual :
        manager[c].pc \in {"alive", "ping"} /\ issued[c] = 1 =>
            has_session(<<c, 1>>) /\ IndexOf(c) = 1

\* The clients map leads nowhere only while set_session is between its inserts
\* (or was cut there): logout and sweep take both entries.
ClientEntryBacked ==
    \A c \in DOMAIN clients :
        has_session(<<c, clients[c]>>) \/ <<c, clients[c]>> \in DOMAIN opening

\* Whoever was given a key showed the password of the last readable record of
\* its uid in the file, the one that an operator who appends to it means.
LastRecordDecides ==
    \A c \in Client \cup Proxy :
        issued[c] > 0 =>
            \E i \in DOMAIN csv :
                /\ IsReadable(csv, csv[i]) /\ csv[i][1] = c /\ csv[i][2] = pwd
                /\ \A j \in i + 1 .. Len(csv) :
                      csv[j][1] = c => ~IsReadable(csv, csv[j])

\* As long as the sweep gets its locks, a member that is gone for good does not
\* stay logged in, whatever it left half done; a client leaves no entry in the
\* index either, unless its last set_session was cut between its inserts.
SilentSessionsEnd ==
    SweepRuns =>
        \A c \in Client \cup Proxy :
            <>[](manager[c].pc = "offline") =>
                <>[](/\ \A n \in 1 .. MaxKeys : ~has_session(<<c, n>>)
                     /\ c \in DOMAIN clients => <<c, clients[c]>> \in DOMAIN opening)

\* info_service.rs, given_client_session_when_getting_status_then_returns_
\* expected_status: a client that has a session, and pings it, is counted
\* among the connected clients.
SessionIsCounted ==
    \A c \in Client :
        manager[c].pc = "alive" /\ has_session(manager[c].key) => c \in DOMAIN clients

\* README.md: "all information has associated a TTL and it is removed when is
\* no longer needed", of the entry of a proxy that is gone.
GoneProxyIsForgotten ==
    \A p \in Proxy :
        (manager[p].pc = "offline") ~> (manager[p].pc # "offline" \/ p \notin DOMAIN proxies)

=============================================================================
