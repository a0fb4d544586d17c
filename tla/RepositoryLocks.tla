-------------------------- MODULE RepositoryLocks ---------------------------
(***************************************************************************)
(* The RwLocks of the controller's repositories and of a client or proxy.  *)
(* In memory each map has a tokio RwLock of its own; a Redis repository    *)
(* has one, around its connection; a client or proxy has one around its    *)
(* Authenticator and one around its ClientSession.  An operation takes its *)
(* locks one after the other, keeping what it has until its guards go out  *)
(* of scope.  Here an operation is the list of its lock requests; Release  *)
(* stands for the end of a block or call that drops a guard before the     *)
(* operation goes on.  At its end it drops them all.  A task runs one      *)
(* operation, over and over; several tasks may run the same one.           *)
(* An early return (no such client, no such session) makes fewer requests; *)
(* the list is that of the run to the end.                                 *)
(*                                                                         *)
(* tokio's RwLock is fair: requests queue up, readers are let in together, *)
(* and a request waits behind an earlier one even if the lock is only read *)
(* at the moment.                                                          *)
(***************************************************************************)
EXTENDS Sequences, Integers

CONSTANT Mixes   \* the sets of tasks that run together

\* A task has the name of its operation and a number.
Task == UNION Mixes

Operation(task) == task[1]

VARIABLES
    mix,         \* the tasks of this behaviour
    pc,          \* the request a task has reached; 0 when not running
    guards,      \* lock -> the tasks that hold it, and how
    queue        \* lock -> the tasks that wait for it, and how

vars == <<mix, pc, guards, queue>>

Read(lock) == [lock |-> lock, mode |-> "read"]
Write(lock) == [lock |-> lock, mode |-> "write"]
Release(lock) == [lock |-> lock, mode |-> "release"]

-----------------------------------------------------------------------------
(* session_repository.rs                                                   *)

KillExpiredSessions ==
    <<Write("sessions"), Write("clients"), Write("controllers"), Write("proxies")>>

\* Faulty variant: the clients stay locked while the session is inserted.
SetSessionHolding == <<Write("clients"), Write("sessions")>>

SetSession == <<Write("clients"), Release("clients"), Write("sessions")>>

GetSession == <<Write("sessions")>>

RemoveSession == <<Write("sessions"), Write("clients")>>

GetProxies == <<Read("proxies"), Read("sessions")>>

GetClient == <<Read("clients"), Read("sessions")>>

CountClients == <<Read("clients")>>

(* route_repository.rs                                                     *)

KillExpiredRoutes == <<Write("routes"), Write("conversations")>>

SetConversation == <<Write("conversations")>>

RemoveConversation == <<Write("conversations")>>

GetConversation == <<Read("conversations")>>

\* Faulty variant: the conversations are locked before the routes.
SetRouteInverted == <<Write("conversations"), Write("routes")>>

SetRoute == <<Write("routes"), Write("conversations")>>

GetRoute == <<Read("routes")>>

RemoveRoute == <<Write("routes")>>

(* redis/route_repository.rs: set_route and one of the plain operations.   *)

RedisSetRoute ==
    <<Write("connection"), Release("connection"), Write("connection")>>

RedisGetRoute == <<Write("connection")>>

(* gateway/src/auth.rs and auth_client.rs: the Authenticator is held over  *)
(* the whole call to the controller, in a ping with the session as well.   *)
(* start_auth_handler runs its three one at a time; here they may overlap. *)

GetSessionTwice == <<Read("session"), Release("session"), Read("session")>>

AuthManagerAuthenticate ==
    <<Write("authenticator"), Write("session"), Release("session")>> \o GetSessionTwice

AuthManagerPing == <<Write("authenticator"), Read("session")>>

AuthManagerLogout == <<Write("authenticator"), Read("session"), Release("session")>>

\* In the handlers of a proxy.
CheckAuthentication == <<Write("authenticator")>> \o GetSessionTwice

\* The client's command loop reads the session by itself.
StartCmdHandler == <<Read("session")>>

Program ==
    [kill_expired_sessions |-> KillExpiredSessions, set_session |-> SetSession,
     get_session |-> GetSession, remove_session |-> RemoveSession,
     get_proxies |-> GetProxies, get_client |-> GetClient,
     count_clients |-> CountClients,
     kill_expired_routes |-> KillExpiredRoutes,
     set_conversation |-> SetConversation,
     remove_conversation |-> RemoveConversation,
     get_conversation |-> GetConversation, set_route |-> SetRoute,
     get_route |-> GetRoute, remove_route |-> RemoveRoute,
     redis_set_route |-> RedisSetRoute, redis_get_route |-> RedisGetRoute,
     authenticate |-> AuthManagerAuthenticate, ping |-> AuthManagerPing,
     logout |-> AuthManagerLogout, check_authentication |-> CheckAuthentication,
     start_cmd_handler |-> StartCmdHandler]

Lock ==
    {"sessions", "clients", "controllers", "proxies", "routes", "conversations",
     "connection", "authenticator", "session"}

ASSUME TaskAssumption == \A task \in Task : Operation(task) \in DOMAIN Program

\* What a task asks for, each time it runs.
Steps(task) == Program[Operation(task)]

-----------------------------------------------------------------------------

Guards == [task : Task, mode : {"read", "write"}]

TypeOK ==
    /\ mix \in Mixes
    /\ pc \in [Task -> Nat]
    /\ \A task \in Task : pc[task] <= Len(Steps(task)) + 1
    /\ guards \in [Lock -> SUBSET Guards]
    /\ queue \in [Lock -> Seq(Guards)]

Init ==
    /\ mix \in Mixes
    /\ pc = [task \in Task |-> 0]
    /\ guards = [lock \in Lock |-> {}]
    /\ queue = [lock \in Lock |-> <<>>]

Running(task) == pc[task] \in 1 .. Len(Steps(task))

Request(task) == Steps(task)[pc[task]]

Waits(task) == \E lock \in Lock : \E i \in DOMAIN queue[lock] : queue[lock][i].task = task

\* Readers share a lock, a writer has it alone.
Compatible(mode, held) ==
    IF mode = "read" THEN \A g \in held : g.mode = "read" ELSE held = {}

Dropped(task) == [lock \in Lock |-> {g \in guards[lock] : g.task # task}]

Begin(task) ==
    /\ task \in mix
    /\ pc[task] = 0
    /\ pc' = [pc EXCEPT ![task] = 1]
    /\ UNCHANGED <<mix, guards, queue>>

\* .read().await or .write().await: the lock is free, or the task queues up.
Acquire(task) ==
    /\ Running(task)
    /\ Request(task).mode # "release"
    /\ ~Waits(task)
    /\ LET lock == Request(task).lock
           guard == [task |-> task, mode |-> Request(task).mode]
       IN  IF queue[lock] = <<>> /\ Compatible(guard.mode, guards[lock])
           THEN /\ guards' = [guards EXCEPT ![lock] = @ \cup {guard}]
                /\ pc' = [pc EXCEPT ![task] = @ + 1]
                /\ UNCHANGED <<mix, queue>>
           ELSE /\ queue' = [queue EXCEPT ![lock] = Append(@, guard)]
                /\ UNCHANGED <<mix, pc, guards>>

\* The first of the queue gets the lock as soon as it can.
Grant(lock) ==
    /\ queue[lock] # <<>>
    /\ LET guard == Head(queue[lock])
       IN  /\ Compatible(guard.mode, guards[lock])
           /\ guards' = [guards EXCEPT ![lock] = @ \cup {guard}]
           /\ pc' = [pc EXCEPT ![guard.task] = @ + 1]
    /\ queue' = [queue EXCEPT ![lock] = Tail(@)]
    /\ UNCHANGED mix

Drop(task) ==
    /\ Running(task)
    /\ Request(task).mode = "release"
    /\ guards' = [guards EXCEPT ![Request(task).lock] = Dropped(task)[Request(task).lock]]
    /\ pc' = [pc EXCEPT ![task] = @ + 1]
    /\ UNCHANGED <<mix, queue>>

Finish(task) ==
    /\ pc[task] = Len(Steps(task)) + 1
    /\ guards' = Dropped(task)
    /\ pc' = [pc EXCEPT ![task] = 0]
    /\ UNCHANGED <<mix, queue>>

Next ==
    \/ \E task \in Task : Begin(task) \/ Acquire(task) \/ Drop(task) \/ Finish(task)
    \/ \E lock \in Lock : Grant(lock)

Spec == Init /\ [][Next]_vars

\* A running task is polled; that it runs its operation again is not assumed.
Fairness ==
    /\ \A task \in Task : WF_vars(Acquire(task) \/ Drop(task) \/ Finish(task))
    /\ \A lock \in Lock : WF_vars(Grant(lock))

FairSpec == Spec /\ Fairness

-----------------------------------------------------------------------------

\* As long as a task is under way, one of those under way is not waiting,
\* or the first of a queue can have its lock: the locks that the repositories
\* and AuthManager keep while they ask for another never close a circle.
NoCircularWait ==
    (\E task \in Task : pc[task] # 0) =>
        \/ \E task \in Task : pc[task] # 0 /\ ~Waits(task)
        \/ \E lock \in Lock :
              /\ queue[lock] # <<>>
              /\ Compatible(Head(queue[lock]).mode, guards[lock])

\* Every operation that starts comes to its end, whatever runs beside it, the
\* same operation included: the locks are taken in an order in which nobody
\* waits for somebody who waits.
EveryOperationEnds == \A task \in Task : (pc[task] # 0) ~> (pc[task] = 0)

\* README.md: "all information has associated a TTL and it is removed when is
\* no longer needed": a sweep of the sessions that starts comes to its end.
SweepEnds ==
    \A task \in Task : Operation(task) = "kill_expired_sessions" =>
        (pc[task] # 0) ~> (pc[task] = 0)

=============================================================================
