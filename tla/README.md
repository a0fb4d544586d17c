# fuzzy-chat: a TLA+ model

fuzzy-chat is a chat network in which no server carries a message from its
sender to its recipient in one go. A *controller* knows who is logged in and
hands out routes one hop at a time; *proxies* pass a message on, each knowing
only the next hop; *clients* type commands and print what they receive. This
directory holds a model of that system, the TLC runs that check it on small
networks, and proofs, checked by TLAPS, of its main safety properties for
networks of any size.

Paths below are relative to the root of the repository.

## The system

| Part | State it keeps | Operations | Talks to |
| --- | --- | --- | --- |
| Route repository, in memory (`controller/src/storage/inmemory/route_repository.rs`) | `routes`: nonce -> route; `conversations`: id -> from, to, routes so far; both with a TTL | `set_conversation`, `get_conversation`, `remove_conversation`, `set_route`, `get_route`, `remove_route`, the sweep every 30 s | route manager |
| Session repository, in memory (`.../inmemory/session_repository.rs`) | `sessions`: key -> session with a TTL; `clients`, `proxies`, `controllers`: uid -> key | `set_session`, `get_session` (renews), `remove_session`, `get_client`, `get_proxies`, the counts, the sweep every 5 s | session manager |
| Session manager, `AuthService` | none of its own | `login` (compares the password), `ping`, `logout`, `check_session` | repositories, members |
| Route manager, strategy, `RouteService` | none of its own | `initialize`, `route`, `redeem` | both repositories; called by clients and proxies |
| `InfoService` | none | `status` | session repository; called by proxies |
| Authentication loop (`gateway/src/auth.rs`) | the session of a client or proxy | log in, ping every 5 s, log in again after an error, log out | `AuthService` |
| `ProxyService` | its session | `execute_command`: redeem, then status, next proxy or recipient | controller, other proxies, clients |
| Client process (`client/src/main.rs`) | lines typed, one command at a time, the session shared with the authentication loop, the cancellation token | input thread, command loop (`send_message`, `get_status`), shutdown | controller, first proxy |
| `LandingService` of the client | a channel of 100 messages to the listener | `receive`: redeem, then hand to the listener, which prints | controller; called by the last proxy |
| Controller start-up and heartbeat | the controller's own session | a new session every 2 s | session repository |
| Redis backend (`controller/src/storage/redis/`) | the same maps as Redis keys with TTLs; no sweep | the same operations, of one or two commands each | shared by several controllers |
| Membership | uid -> password, from a CSV file | seeding at start-up, look-up at login | `AuthService` |
| Command-line parsing | none | `Command::from_str` | client commands |

### What is hard about it

* **Interleaving at awaits.** Every handler is an async function with several
  awaits, each a lock, a repository call or a remote call. Other commands, the
  sweeps, logins and logouts run in between. What a guard found may be gone when
  the next line unwraps it.
* **A command is a chain of nested calls** from the client over three
  proxies to the recipient. Any of them, or any connection, may be lost; then the sender is told of a failure,
  while the far end of the chain may still be at work.
* **Time.** Sessions live 10 s unless renewed, conversations and routes a fixed
  time, and entries are visible until the next sweep, expired or not.
* **Two maps for one fact.** A session is in `sessions` and, under its uid, in
  one of three index maps, each with a lock of its own. They are changed one
  after the other, and an old and a new session of a member share one entry.
* **Locks.** tokio's RwLocks are fair, so that two operations which take two of
  them in opposite orders stop the whole repository. A client or proxy holds its
  authenticator's lock while it waits for the controller.
* **Two backends.** What is one step under a lock in memory is several commands in
  Redis, between which other controllers write and keys expire.
* **Shutdown.** The tasks of a client share a token, a session and two channels,
  and each looks at them at its own points.

### What makes it correct

* Users: a message is handed to a listener once at most, only to that of its
  recipient, under the true sender's name, and before the sender is told that it
  was sent.
* Routing: every message goes through the full number of proxies; redeemed
  routes and delivered conversations leave no trace; live conversations are not
  swept; the recipient always learns the source.
* Sessions: a member that pings in time stays accepted and listed; an ended key
  is never accepted again; a member that is gone is logged out in the end.
* Membership: who logs in showed the password of its last readable record.
* The client: a line is understood as meant, unless the recipient's name occurs in
  the command word; commands go out with the newest key; after Ctrl-C at most one
  more command is begun.
* Progress: every command is answered and no operation waits for a lock for ever,
  as long as `get_client` and `get_proxies` do not block the sessions in memory; all
  routing data goes; what arrives is printed, unless its call is lost before it is in
  the channel; and a client that is told to stop stops.

What the code does not keep of this is under "What the code does not do".

## The modules

```
Members  ExpiringMaps
   |         |
   +----+----+----------------+--------------------+
        |                     |                    |
  MessageDelivery        RouteStore         SessionRegistry <~~ SessionStore  (+ Membership)
        |  (promise)    (both backends)            |        <~~ RedisSessions
        +-----------+---------+--------------------+         (both implement it)
                    |
                  Relay  ---- implements MessageDelivery

CommandLine --> ClientProcess               RepositoryLocks (on its own)
```

| Module | What it is | How it corresponds to the code |
| --- | --- | --- |
| `Members` | who takes part, and the commands | `Component` of the crosscutting crate |
| `ExpiringMaps` | HashMaps of values with a TTL | `ExpirationWrapper`. `left` is the distance of `expires_at` from now; it stops at -1, so that time needs no bound |
| `MessageDelivery` | **abstract**: what users are promised | the outermost calls: a command typed, an answer logged, a message handed to the listener |
| `RouteStore` | the route repository, in memory or in Redis (`repository_type`) | in memory one operator per method, each one step under its locks; in Redis one per command or transaction, and what expires is gone |
| `SessionRegistry` | **abstract**: what the relay may rely on from sessions | which keys are accepted and which key a uid leads to; a session may end at any time |
| `Relay` | a command's way through the network | `call[m]` is the chain of command `m`. `pc` is the await its innermost handler has reached, the other fields are what the handlers hold in local variables. One action per stretch between two awaits |
| `Membership` | the member file and the member repository | which records are read, `set_member`, look-up and `validate_credentials`, as operators |
| `SessionStore` | logging in, staying and out, with the maps in memory | one operator per repository method, one action per stretch of the `AuthService` handlers and of the `AuthManager` loop. The members are seeded one record a step (`seeded`); nobody logs in before the end of it, as `main` awaits it before it serves |
| `RedisSessions` | the session repository in Redis | one action per Redis command or transaction, and one per key that a SCAN comes to; `task[s]` is the operation controller `s` is in, since its connection is locked for the whole of it |
| `RepositoryLocks` | the RwLocks of the repositories and of the authenticator | an operation is the list of its lock requests; a task runs one operation, several tasks may run the same one; a fair FIFO queue per lock |
| `CommandLine` | `Command::from_str` | lines are sequences of characters, since the property is about where a name is found in one; `Meant` is the reference |
| `ClientProcess` | the tasks of a client | input thread, command loop, authentication loop, landing service, listener and `main`, one action per stretch between two awaits |
| `MCRelay`, `MCSessionStore`, `MCRedisSessions`, `MCLocks`, `MCClient` | constants for TLC | |
| `RelayProofs`, `RelayHopsProofs`, `SessionStoreProofs`, `SessionLifeProofs`, `RedisSessionsProofs`, `LocksProofs`, `CommandLineProofs`, `ClientProofs` | theorems | see "The proofs" |

`Relay` does not model time in sessions; it is built on `SessionRegistry`, where
a session may end whenever it likes. `SessionStore` and `RedisSessions` are checked
and proved to implement that module (`IsRegistry`), so what holds of `Relay` holds
with either store. `ClientProcess` leaves open what the controller answers; how
it answers is in `Relay` and `SessionStore`.

A definition marked "Faulty variant" is not part of any specification: it is a
plausible mistake in the definition that follows it, kept to show that a property
would notice it.

### Choices worth knowing

* uuids do not collide. A conversation is named by the command it is made for, a
  nonce by the command and its position, an access key by its member and number.
  The "already present" returns of `set_conversation` and `set_route` are
  therefore never taken.
* A panicking handler ends its call with an error, as tonic does, and nothing
  else; `panicked` is a `pc` of its own so that panics can be spoken about.
* `get_proxies` returns sessions in the order of a HashMap, that is in any order.
  The strategy draws an index below the *last* one (0 if there is none); over all
  orders every listed proxy may come out, and `NextProxies` says so by computing
  it, not by assuming it. That order does not change while the map does not, which
  no property speaks of.
* `inbox` of `MessageDelivery` and `Relay` is what `LandingService::receive` has put
  into the channel to the listener. From there to the screen it is `ClientProcess`.
* In `Relay` a look-up of a session is one step that may also never come: in memory
  `get_client` and `get_proxies` can block the session repository (see
  `session_locks`), so no step that uses it is fair there (`WaitsForSessions`).
* A proxy may use any key it was ever given, since its session may be replaced
  while a handler holds a copy.
* `Break` cuts a chain as a whole, where it calls the controller for a route or
  for the status, or another member; `LoseConnection` cuts only its way back to
  the client: the sender is told of a failure and the message may yet arrive.
* `path` is a history variable: the proxies that redeemed a route of the command.
* In Redis the routes of a conversation are one hash with one TTL, which `set_route`
  renews as a whole; `remove_route` looks in another hash and finds nothing, so in
  the model it removes nothing. `get_proxies` is one step in `Relay`, with the
  panic of its unwraps; it is taken apart in `RedisSessions`.
* In `SessionStore` a tick is 5 s, the ping interval and the period of the sweep.
  `Punctual` members answer within a tick; the others may be as late as they like.
* In `RedisSessions` `cut` remembers of whom a `get_session` missed its second
  command, by a crash or because the entry expired in between; `stable` is whom an
  operation found listed when it began and who has been ever since. Both are history.
* Redis guarantees of a SCAN that a key which is there all the time is returned, and
  of any other that it may be; in `RedisSessions` the cursor comes to each key once,
  at a moment of its own, and returns it if it is there. That a key may be returned
  twice is left out: it would be read twice and listed twice.
* In `RepositoryLocks` an early return makes fewer requests than the list; a task
  that waits for fewer locks blocks less, so the full list is the one to check.
  `set_session` and the counts are given with the clients map; the other index
  maps are used in the same way. The three operations of the authentication loop
  may overlap there although one task runs them, which only adds behaviours.
* In `ClientProcess` a key is the number of the login that brought it. Any line of
  `Lines` may be typed; blank lines are not sent by the code. `main` aborts the task
  that accepts connections; calls on those it has may still arrive until it returns.
  `cut` is the messages whose call was lost while it waited for room in the channel.

## The runs

| Run | Instance | Shows |
| --- | --- | --- |
| `relay_one` | 1 command (any sender, recipient, kind), 2 clients, 2 proxies, 3 hops as in the code, TTL 1 tick, in memory and Redis; `p1` may log in a second time or end its sessions at any point | the promise to the users, the number of hops, no hop to itself without a second login, at most one waiting route, no trace of delivered messages, a source for every landing, only expired conversations go |
| `relay_two` | 2 commands at once, 1 hop, steady sessions, TTL 0, in memory | that commands do not disturb each other |
| `relay_live` | 1 command, 2 hops, the sessions of a client and a proxy may end at any point, fairness | every command is answered or, in memory, waits for the session repository for ever; all routing data goes |
| `session_store` | 1 punctual client, 1 controller, 2 logins and 2 connections each, TTL 2 ticks, ping 1, three member files (one with a last record that is too long); fairness | the store is a `SessionRegistry`; a punctual client is always listed; client entries are backed by a session; the last readable record decides; if the sweep gets its locks, the sessions of a client that is gone end and so does its index entry. Proxies are not in this run: their sessions are kept and swept in the same way, their entries are the subject of `proxy_forgotten` |
| `redis_sessions` | 2 controllers on one Redis (one of them looks members up), a client and a proxy, one of them logging in twice; fairness of time | the store is a `SessionRegistry`; who is accepted has an index entry (of whichever key), unless a `get_session` missed its `EXPIRE`; look-ups find whoever stays listed and panic only otherwise; members that are gone are forgotten |
| `locks` | in turn: the route operations, the session operations without `get_client` and `get_proxies`, two Redis operations, the users of the authenticator; `set_route`, `set_session`, `remove_session` and the Redis `set_route` also twice | no operation waits for ever; the waits never close a circle (`NoCircularWait`); no deadlock |
| `client` | 2 of 4 lines typed, 2 logins, 2 messages, a channel of 1, calls that are lost; fairness | see "What makes it correct", the client |
| `relay_panic`, `redis_routes`, `session_counted`, `proxy_forgotten`, `session_locks` | | expected violations, see below |

Why the bounds are enough for the cases that matter: two proxies are the least
with which a command can be handed on and handed back; with one of them logging
in twice, the cases "listed under another key" and "key no longer accepted"
occur. A TTL of one tick lets an entry expire before, between and after any two
steps, and also live through all of them. Two commands are enough for one to
take another's data, as each step touches the data of one command or, in the
sweep, of all. Two keys per member give an old and a new session side by side.
`relay_one` reaches a delivery over the code's three hops; there the clients stay
logged in. `relay_live` also ends the session of a client, so that between them
every guard of the controller fails and every unwrap in its handlers panics
somewhere. Two controllers are the least whose commands interleave; look-ups write
nothing, so one that makes them is enough. A channel of one is full with one message
while a second arrives; the four lines are
a command in capitals, one without a message, one without a message whose
recipient's name occurs in the command word, and a status. Symmetry is used in `relay_two` only, where clients, proxies and
commands are all treated alike and nothing temporal beyond safety is checked.

TLC checks for deadlock in every run but `session_locks`, whose point it is, and
`client`, where the process exits. In `Relay`, `SessionStore` and `RedisSessions`
time can always go on, so there the check says little and the liveness properties
say it instead; in `RepositoryLocks` it is the property itself.

### Fairness

tokio polls every task that is ready and fires every timer, so a handler that can
go on does, and time goes on. How far that reaches depends on the locks, of which
the run `session_locks` shows that they may never be granted.

* `Relay`: `Handle` is fair except where a handler waits for the session repository
  in memory (`WaitsForSessions`: it may be blocked for good by `get_client` and
  `get_proxies`). So `EveryCommandEnds` says that a command is answered or waits
  there for ever. `Tick` and the sweep of the routes are fair: they use only the
  locks of the route repository, whose order `NoCircularWait` confirms. A lost
  connection or a cancelled handler is reported to its caller by the transport,
  which is why `failed` and `panicked` chains return their error; the panic of a
  handler is an answer in this sense, and `NoHandlerPanics` speaks of it.
* `SessionStore`: time goes on and the punctual members are punctual infinitely
  often (`FairSpec`); that the sweep runs is not assumed. `SilentSessionsEnd` says
  what follows if it does (`SweepRuns`). `proxy_forgotten` is checked with
  `UnblockedSpec`, where the sweep is fair: the entry stays even then.
* `RedisSessions`: only the passage of time is fair.
* `RepositoryLocks`: a task that has begun is polled and a free lock is granted. A
  call to the controller that is made under a lock comes to its end; the code sets
  no deadline for it, so this is assumed of the transport.
* `ClientProcess`: the tasks are polled and what they await ends, with an answer or
  an error. `recv_timeout` in the command loop blocks a worker thread, so this
  takes a second one, as `#[tokio::main]` gives it on a machine with two processors
  or more.

Nobody has to type a command, start, log in, log out, stop a client or crash, and a
login handler may be cut between its two inserts, so none of these is fair.

### What the code does not do

Five runs state what the README, a comment or a test says of the program, and
TLC finds a behaviour of the code that breaks it.

* `session_locks`: `get_client` and `get_proxies` lock an index map and then
  `sessions`; the sweep locks `sessions` and then the index maps. Each waits for
  the other for ever, and every later operation queues up behind them.
* `session_counted`: the sweep removes the index entry of an expired session by
  uid, without looking at the key in it. A client that logged in again (after a
  refused ping, say) loses the entry of its new session: it goes on pinging, but
  is neither counted nor found by `get_client`.
* `proxy_forgotten`: `remove_session` cleans only the `clients` map. The entry of
  a proxy that logged out stays and is counted; no session is left by whose
  expiry the sweep would remove it.
* `relay_panic`: `route` and `redeem` check a conversation and look it up again
  with `unwrap`. A sweep in between makes the handler panic where the test of the
  same situation expects `NotFound`.
* `redis_routes`: the Redis `remove_route` builds its key from the nonce where
  `set_route` and `get_route` build it from the conversation id, so redeemed
  routes stay until their hash expires.

A sixth disagreement is proved instead of run. `Command::from_str` looks for the
recipient in the whole line (`client/src/command.rs:24`), so a name that is part of
the command word is found there. For `/send nd` it returns a message "nd" to "nd"
where the usage text "Usage: /send <to> <message>" (line 31) and the test
`send_command_from_str_with_no_content_returns_error` (line 160,
`assert!(command.is_err())`) ask for an error; `/send nd hello` sends "nd hello".
`MisreadIffNameInCommand` proves that these lines, and no others, are misread. The
property checked in the run `client`, `UnderstoodUnlessNameInCommand`, says only that
no other line is, so that it stays true of a corrected parser.

## The proofs

`RelayProofs` proves of `Relay`, for every value of the constants:

| Theorem | States |
| --- | --- |
| `Invariant` | `Spec => []Inv`, the inductive invariant |
| `TypeCorrect` | `TypeOK` |
| `EveryHopPassed` | `PassedEveryHop`: a message handed to a listener was redeemed by `HopLimit` proxies |
| `AtMostOneRoute` | `OneRouteWaits` (in memory) |
| `DeliveredLeaveNoTrace` | `NoTraceOfDelivered` |
| `SourceIsThere` | `LandingFindsSource`: the unwrap in `LandingService::receive` is safe |
| `OnlyExpiry` | the action property `OnlyExpiryInterrupts` |
| `Refinement` | `KeepsPromise`: `Relay` implements `MessageDelivery` |

Assumed of the constants: clients, proxies and controllers are disjoint
(`MemberAssumption`), TTLs are naturals (`TTLAssumption`), at least one login per
member (`RegistryAssumption`), at least one hop, finitely many proxies, and that
the placeholder `Nobody` is no client (`RelayAssumption`). TLC evaluates them in
the runs of `MCRelay`.

`RelayHopsProofs` builds on it, from the same assumptions:

| Theorem | States |
| --- | --- |
| `NoSelfHop` | `NoHopToItself`: a proxy that logged in only once never relays to itself |

The argument. The properties speak of what is in an inbox and in the maps; why
they hold lies in the chain that is under way. So `Inv` adds to `TypeOK`

* `CallsOK`: for every `pc`, how many routes were stored against how many were
  redeemed (`hop` against `Len(path)`), where the command is, and when its last
  route is an end route. The heart is that a route becomes an end route only
  after `HopLimit` others, and that a chain counts its hops as the controller does;
* `RoutesOK`: a stored route is the last one of its command and agrees with what
  the chain remembers of it;
* `ConversationsOK`: a conversation names the true sender and counts as many
  routes as the chain; it is gone once the end route was redeemed;
* `InboxOK`, `DeliveredOK`, `OutcomeOK`: what is handed over, answered and
  reported agree with each other.

None of these is inductive without the others: that the number of hops is right
needs the length of the conversation, that needs the chain's count, and that the
count is right after a redeem needs the route just removed to have been the last.
There is one lemma per action (or per group of actions that only read), and the
lemmas `Invariant` rests on are also what the refinement uses: a step that hands
a message over maps to `Deliver`, one that answers to `Succeed` or `Fail`, `Submit` to
`SubmitCommand`, all others to stuttering.

For `NoSelfHop` the proof follows whose key a handler asks with. `get_proxies`
leaves out the one session of the caller's own key, so that the caller can be
chosen only if the index holds another key of it. `HopOK` carries that fact along
the chain: the handler that leaves is the last of `path` and asks with a key of its
own; the hop it has chosen, and then the one that redeems, is another proxy or has
logged in again. `IndexOK`, that the index leads to keys already made, excludes
that "another key" is one still to come. Most steps only move `pc`; `QuietMoves`
lists these moves and one lemma covers them.

### Sessions in memory

`SessionStoreProofs` proves of `SessionStore`, for any members, member files, times
and bounds (`MemberAssumption`, `SessionAssumption`):

| Theorem | States |
| --- | --- |
| `ClientEntriesBacked` | `ClientEntryBacked` |
| `StoreImplementsRegistry` | `IsRegistry` |

A first lemma reduces every action to one operation of the repository
(`StoreStep`), so the rest speaks of seven cases and not of sixteen. The invariant
is `ClientEntryBacked` with as much of the types as the argument needs. For the
refinement the three index maps become one function to key numbers; a ping, whose
renewal leaves the set of keys as it is, is a stuttering step, and the sweep is
one step that ends several sessions.

`SessionLifeProofs` builds on it, from the same assumptions:

| Theorem | States |
| --- | --- |
| `StoreTypeCorrect` | `TypeOK` |
| `PunctualIsListed` | `PunctualStaysListed` |
| `LastRecordWins` | `LastRecordDecides` |

`LifeInv` has four parts. `TypeInv` adds to the types that a member holds no key
but its own and runs only once the members are seeded. `KeysIssued`: no key is
ahead of its member's count, and none is in `sessions` while it is still being
opened. `PunctualOK`: the session of a punctual member has at least as long to
live as there is time to its next ping (`Lasts`); that it is not swept first is
where the assumption `PING_INTERVAL =< SESSIONS_EXPIRATION_TIME` enters, and
that no other session of the member takes its entry along is where `KeysIssued` does.
`MembersOK`: after any number of records the repository holds for each uid what
the last readable of these says (a record as long as the first one, `IsReadable`), and whoever was given a key passed
`validate_credentials` after the last of them.

### Sessions in Redis

`RedisSessionsProofs` proves of `RedisSessions`, for any number of controllers and
members (`MemberAssumption`, `RedisAssumption`):

| Theorem | States |
| --- | --- |
| `RedisTypes` | `TypeOK` |
| `AcceptedIsFound` | `EntryOutlivesSession` |
| `RedisImplementsRegistry` | `IsRegistry` |
| `StableFound` | `StableMembersFound` |

That an index entry is there says nothing of how long it will be, so
`EntryOutlivesSession` is not inductive: `EntriesOK` says that it has at least as
long to live as each session of the member, or that some controller is about to
renew it. `RegistersOK` ties what an operation holds to its next command. For
`StableFound`, `ReadsOK` says of every look-up under way that whoever has been
listed since its beginning is still to be scanned, is among those still to be read,
is the one just read, or has been found.

### Locks

`LocksProofs` proves of `RepositoryLocks`, for any mixes of tasks, with any
number of tasks of the same operation (`TaskAssumption`: every task runs one of the
operations):

| Theorem | States |
| --- | --- |
| `LocksInvariant` | `Spec => []LocksInv`, the inductive invariant |
| `OthersNeverLockUp` | `NoCircularWait`, if no task runs `get_client` or `get_proxies` |

`Rank` gives the order in which the locks of each component are taken, and
`ProgramsInOrder` shows that every operation but these two keeps to it. `LocksInv`
says that guards and queues fit the programs: whoever holds a lock took it and has
not released it, whoever waits has asked for that very lock and is in its queue
once. If everybody waited, take a waiting operation whose lock has the highest rank
of all: whoever holds that lock waits for one of higher rank still. The exception
is needed: with `get_client` the run `session_locks` finds the circle. TLC also shows on the
run `locks` that each operation ends, which is more than the theorem says.

### The client

`CommandLineProofs` proves of `CommandLine`:

| Theorem | States |
| --- | --- |
| `MisreadIffNameInCommand` | for every line that is not blank, `from_str` and `Meant` differ if and only if `NameInCommand` |

The argument goes over positions in the line. The blanks tell where the first two
words begin and end (`CommandWord`, `NameWord`). As a name has no blank in it, an
occurrence of it before the place where it was typed lies within the command word
(`NameOccurs`). If there is none, `find` gives that place, and there is a message
exactly if there is a third word; if there is one, the message found reaches further
to the left than the one typed, so that it is longer (`FoundMessage`).

`ClientProofs` proves of `ClientProcess`, for any lines of characters that are not
blank and any number of logins and messages (`ClientAssumption`):

| Theorem | States |
| --- | --- |
| `LoopStops` | `LoopStopsOnlyUnauthenticated` |
| `NewestKey` | `CommandsUseNewestKey` |
| `OneAfterCancel` | `OneCommandAfterCancel` |
| `ClientTypeCorrect` | `TypeOK`; the channel to the listener stays within its capacity |
| `OnlyNamesMislead` | `UnderstoodUnlessNameInCommand`, from `MisreadIffNameInCommand` |

The invariant says when the two tasks still share a session (`CancelOK`: they part
only after the cancellation), that a key once there stays (`KeyOK`), and that a
command begun after the cancellation is the last (`LateOK`).

### Only model-checked

All liveness (`EveryCommandEnds`, `RoutingDataGoes`, `SilentSessionsEnd`,
`GoneMembersForgotten`, `EveryOperationEnds`, `ArrivedIsPrinted`, `ShutdownEnds`),
which the prover does not do. Every invariant, every other action property and every
refinement that a passing run checks is also proved. The inductive invariants were
checked with TLC on the instances of the runs before they were proved.

## Not modelled

* Settings, TLS, tracing, logging and networking helpers: fixed at start-up, or no
  state. The start-up of the gRPC servers.
* A proxy that redeems the same route twice (`OneRouteWaits` shows that one may be
  left over, not what becomes of it).
* The counts that `status` returns, beyond the size of the index maps; the checks
  of arguments, which refuse a call before anything happens.
* In Redis: the conversion of values to and from JSON, the counts, and the loss of
  the connection, on which every operation panics.
* A restart of a controller. In memory everything is lost and members log in
  again; on Redis the members of an older file stay (see the hazards).
* The shutdown of a controller or proxy; that of the client is in `ClientProcess`.

## Plan

Done: the relay over both repositories with its promise; both session
repositories as implementations of `SessionRegistry`; membership; the locks; the
client process and its parsing; proofs of all their safety properties. Nothing of the plan is left. What a further step could add: a second call that
redeems a route left over by a cut one, and a controller that starts again on a
Redis with the members of an older file.
