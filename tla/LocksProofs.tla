---------------------------- MODULE LocksProofs -----------------------------
(***************************************************************************)
(* Which operations on the repositories and the authenticator can stand in *)
(* each other's way for ever, for any number of tasks that run them.     *)
(***************************************************************************)
EXTENDS RepositoryLocks, SequenceTheorems, TLAPS

Mode == {"read", "write", "release"}

Requests == [lock : Lock, mode : Mode]

\* The order in which the locks of each component are taken.
Rank ==
    [sessions |-> 1, clients |-> 2, controllers |-> 3, proxies |-> 4,
     routes |-> 1, conversations |-> 2, connection |-> 1,
     authenticator |-> 1, session |-> 2]

Releases(program, n, lock) ==
    program[n].mode = "release" /\ program[n].lock = lock

\* By its n-th request a program has locked this one and not released it since.
Keeps(program, n, lock) ==
    \E j \in 1 .. n - 1 :
        /\ program[j].lock = lock /\ program[j].mode # "release"
        /\ \A k \in j + 1 .. n - 1 : ~Releases(program, k, lock)

\* Every lock is asked for after those of lower rank only.
InOrder(program) ==
    /\ program \in Seq(Requests)
    /\ \A n \in 1 .. Len(program) : program[n].mode # "release" =>
          \A lock \in Lock :
              Keeps(program, n, lock) => Rank[lock] < Rank[program[n].lock]

\* A guard belongs to a task that is under way and keeps that lock.
GuardsOK ==
    \A lock \in Lock : \A g \in guards[lock] :
        pc[g.task] # 0 /\ Keeps(Steps(g.task), pc[g.task], lock)

\* Who is in the queue q of a lock has asked for that lock, and is there once.
QueueOK(q, lock) ==
    \A i \in DOMAIN q :
        /\ Running(q[i].task)
        /\ Request(q[i].task).lock = lock
        /\ Request(q[i].task).mode = q[i].mode
        /\ \A j \in DOMAIN q : q[j].task = q[i].task => j = i

QueuesOK == \A lock \in Lock : QueueOK(queue[lock], lock)

LocksInv == TypeOK /\ GuardsOK /\ QueuesOK

-----------------------------------------------------------------------------
(* The programs.                                                           *)

\* get_session and is_authenticated after the requests s.
LEMMA SessionTwice ==
    ASSUME NEW s \in Seq(Requests), NEW c, c = s \o GetSessionTwice
    PROVE  /\ c \in Seq(Requests) /\ Len(c) = Len(s) + 3
           /\ \A i \in 1 .. Len(s) : c[i] = s[i]
           /\ c[Len(s) + 1] = Read("session")
           /\ c[Len(s) + 2] = Release("session")
           /\ c[Len(s) + 3] = Read("session")
  <1> DEFINE t == GetSessionTwice
  <1>1. /\ t \in Seq(Requests) /\ Len(t) = 3
        /\ t[1] = Read("session") /\ t[2] = Release("session") /\ t[3] = Read("session")
    BY DEF GetSessionTwice, Read, Release, Requests, Lock, Mode
  <1> HIDE DEF t
  <1>2. /\ c \in Seq(Requests) /\ Len(c) = Len(s) + Len(t)
        /\ \A i \in 1 .. Len(s) + Len(t) :
              c[i] = IF i <= Len(s) THEN s[i] ELSE t[i - Len(s)]
    BY <1>1, ConcatProperties, Zenon DEF t
  <1>3. Len(s) \in Nat
    OBVIOUS
  <1>4. ASSUME NEW i \in 1 .. 3
        PROVE  c[Len(s) + i] = t[i]
    <2>1. /\ Len(s) + i \in 1 .. Len(s) + Len(t)
          /\ ~(Len(s) + i <= Len(s)) /\ Len(s) + i - Len(s) = i
      BY <1>1, <1>3
    <2> QED BY <1>2, <2>1
  <1>5. ASSUME NEW i \in 1 .. Len(s)
        PROVE  c[i] = s[i]
    <2>1. i \in 1 .. Len(s) + Len(t) /\ i <= Len(s)
      BY <1>1, <1>3
    <2> QED BY <1>2, <2>1
  <1>6. 1 \in 1 .. 3 /\ 2 \in 1 .. 3 /\ 3 \in 1 .. 3
    OBVIOUS
  <1> QED BY <1>1, <1>2, <1>4, <1>5, <1>6

\* session_repository.rs, but for get_client and get_proxies.
LEMMA SessionPrograms ==
    /\ InOrder(KillExpiredSessions) /\ InOrder(SetSession) /\ InOrder(GetSession)
    /\ InOrder(RemoveSession) /\ InOrder(CountClients)
  <1> USE DEF InOrder, Keeps, Releases, Requests, Rank, Read, Write, Release, Lock, Mode
  <1>1. InOrder(KillExpiredSessions)
    BY DEF KillExpiredSessions
  <1>2. InOrder(SetSession)
    BY DEF SetSession
  <1>3. InOrder(GetSession) /\ InOrder(CountClients)
    BY DEF GetSession, CountClients
  <1>4. InOrder(RemoveSession)
    BY DEF RemoveSession
  <1> QED BY <1>1, <1>2, <1>3, <1>4

\* route_repository.rs, in memory and in Redis.
LEMMA RoutePrograms ==
    /\ InOrder(KillExpiredRoutes) /\ InOrder(SetRoute)
    /\ InOrder(SetConversation) /\ InOrder(RemoveConversation) /\ InOrder(GetConversation)
    /\ InOrder(GetRoute) /\ InOrder(RemoveRoute)
    /\ InOrder(RedisSetRoute) /\ InOrder(RedisGetRoute)
  <1> USE DEF InOrder, Keeps, Releases, Requests, Rank, Read, Write, Release, Lock, Mode
  <1>1. InOrder(KillExpiredRoutes) /\ InOrder(SetRoute)
    BY DEF KillExpiredRoutes, SetRoute
  <1>2. InOrder(SetConversation) /\ InOrder(RemoveConversation) /\ InOrder(GetConversation)
    BY DEF SetConversation, RemoveConversation, GetConversation
  <1>3. InOrder(GetRoute) /\ InOrder(RemoveRoute) /\ InOrder(RedisGetRoute)
    BY DEF GetRoute, RemoveRoute, RedisGetRoute
  <1>4. InOrder(RedisSetRoute)
    BY DEF RedisSetRoute
  <1> QED BY <1>1, <1>2, <1>3, <1>4

\* The authenticator first, then the session.
LEMMA AuthPrograms ==
    /\ InOrder(AuthManagerAuthenticate) /\ InOrder(AuthManagerPing)
    /\ InOrder(AuthManagerLogout) /\ InOrder(CheckAuthentication)
    /\ InOrder(StartCmdHandler)
  <1> USE DEF Requests, Read, Write, Release, Lock, Mode
  <1>1. InOrder(AuthManagerPing) /\ InOrder(StartCmdHandler)
    BY DEF AuthManagerPing, StartCmdHandler, InOrder, Keeps, Releases, Rank
  <1>2. InOrder(AuthManagerLogout)
    BY DEF AuthManagerLogout, InOrder, Keeps, Releases, Rank
  <1>3. InOrder(AuthManagerAuthenticate)
    <2> DEFINE s == <<Write("authenticator"), Write("session"), Release("session")>>
    <2>1. PICK a : a = AuthManagerAuthenticate
      OBVIOUS
    <2>2. /\ s \in Seq(Requests) /\ Len(s) = 3 /\ s[1] = Write("authenticator")
          /\ s[2] = Write("session") /\ s[3] = Release("session")
      OBVIOUS
    <2>3. a = s \o GetSessionTwice
      BY <2>1 DEF AuthManagerAuthenticate
    <2> HIDE DEF s
    <2>4. /\ a \in Seq(Requests) /\ Len(a) = 6 /\ \A i \in 1 .. 3 : a[i] = s[i]
          /\ a[4] = Read("session") /\ a[5] = Release("session") /\ a[6] = Read("session")
      <3>1. Len(s) + 1 = 4 /\ Len(s) + 2 = 5 /\ Len(s) + 3 = 6
        BY <2>2
      <3>2. /\ a \in Seq(Requests) /\ Len(a) = Len(s) + 3
            /\ \A i \in 1 .. Len(s) : a[i] = s[i]
            /\ a[Len(s) + 1] = Read("session")
            /\ a[Len(s) + 2] = Release("session")
            /\ a[Len(s) + 3] = Read("session")
        BY <2>2, <2>3, SessionTwice, Zenon
      <3> QED BY <2>2, <3>1, <3>2
    <2>5. InOrder(a)
      BY <2>2, <2>4 DEF InOrder, Keeps, Releases, Rank
    <2> QED BY <2>1, <2>5
  <1>4. InOrder(CheckAuthentication)
    <2> DEFINE s == <<Write("authenticator")>>
    <2>1. PICK a : a = CheckAuthentication
      OBVIOUS
    <2>2. s \in Seq(Requests) /\ Len(s) = 1 /\ s[1] = Write("authenticator")
      OBVIOUS
    <2>3. a = s \o GetSessionTwice
      BY <2>1 DEF CheckAuthentication
    <2> HIDE DEF s
    <2>4. /\ a \in Seq(Requests) /\ Len(a) = 4 /\ \A i \in 1 .. 1 : a[i] = s[i]
          /\ a[2] = Read("session") /\ a[3] = Release("session") /\ a[4] = Read("session")
      <3>1. Len(s) + 1 = 2 /\ Len(s) + 2 = 3 /\ Len(s) + 3 = 4
        BY <2>2
      <3>2. /\ a \in Seq(Requests) /\ Len(a) = Len(s) + 3
            /\ \A i \in 1 .. Len(s) : a[i] = s[i]
            /\ a[Len(s) + 1] = Read("session")
            /\ a[Len(s) + 2] = Release("session")
            /\ a[Len(s) + 3] = Read("session")
        BY <2>2, <2>3, SessionTwice, Zenon
      <3> QED BY <2>2, <3>1, <3>2
    <2>5. InOrder(a)
      BY <2>2, <2>4 DEF InOrder, Keeps, Releases, Rank
    <2> QED BY <2>1, <2>5
  <1> QED BY <1>1, <1>2, <1>3, <1>4

\* The two operations that take an index before the sessions.
IndexFirst == {"get_client", "get_proxies"}

\* Every other operation takes its locks in the order of their ranks.
LEMMA ProgramsInOrder ==
    \A op \in DOMAIN Program \ IndexFirst : InOrder(Program[op])
  BY SessionPrograms, RoutePrograms, AuthPrograms DEF Program, IndexFirst

LEMMA ProgramsTyped ==
    ASSUME NEW task \in Task
    PROVE  Steps(task) \in Seq(Requests)
  <1>1. GetClient \in Seq(Requests) /\ GetProxies \in Seq(Requests)
    BY DEF GetClient, GetProxies, Requests, Read, Lock, Mode
  <1>2. Program["get_client"] = GetClient /\ Program["get_proxies"] = GetProxies
    BY DEF Program
  <1>3. Operation(task) \in DOMAIN Program
    BY TaskAssumption
  <1> QED BY <1>1, <1>2, <1>3, ProgramsInOrder DEF IndexFirst, InOrder, Steps

\* A lock is kept until it is released.
LEMMA KeepsOn ==
    ASSUME NEW program \in Seq(Requests), NEW n \in 1 .. Len(program), NEW lock,
           ~Releases(program, n, lock),
           \/ Keeps(program, n, lock)
           \/ program[n].lock = lock
    PROVE  Keeps(program, n + 1, lock)
  <1>1. CASE Keeps(program, n, lock)
    <2>1. PICK j \in 1 .. n - 1 :
              /\ program[j].lock = lock /\ program[j].mode # "release"
              /\ \A k \in j + 1 .. n - 1 : ~Releases(program, k, lock)
      BY <1>1 DEF Keeps
    <2>2. j \in 1 .. (n + 1) - 1
      OBVIOUS
    <2>3. \A k \in j + 1 .. (n + 1) - 1 : ~Releases(program, k, lock)
      <3> SUFFICES ASSUME NEW k \in j + 1 .. (n + 1) - 1
                   PROVE  ~Releases(program, k, lock)
        OBVIOUS
      <3>1. k = n \/ k \in j + 1 .. n - 1
        OBVIOUS
      <3> QED BY <2>1, <3>1
    <2> QED BY <2>1, <2>2, <2>3 DEF Keeps
  <1>2. CASE program[n].lock = lock
    <2>1. program[n].mode # "release"
      BY <1>2 DEF Releases
    <2>2. n \in 1 .. (n + 1) - 1 /\ n + 1 .. (n + 1) - 1 = {}
      OBVIOUS
    <2> QED BY <1>2, <2>1, <2>2 DEF Keeps
  <1> QED BY <1>1, <1>2

-----------------------------------------------------------------------------
(* Every step keeps the invariant.                                         *)

\* A request of a running task.
LEMMA RequestTyped ==
    ASSUME TypeOK, NEW task \in Task, Running(task)
    PROVE  /\ Request(task) \in Requests
           /\ pc[task] \in 1 .. Len(Steps(task)) /\ pc[task] \in Nat
           /\ Steps(task) \in Seq(Requests)
           /\ Request(task) = Steps(task)[pc[task]]
  BY ProgramsTyped DEF TypeOK, Running, Request

\* The queues are in order if they were made of requests that still stand.
LEMMA QueuesStay ==
    ASSUME \A lock \in Lock : QueueOK(queue'[lock], lock),
           \A lock \in Lock : \A i \in DOMAIN queue'[lock] :
               pc'[queue'[lock][i].task] = pc[queue'[lock][i].task]
    PROVE  QueuesOK'
  <1>1. ASSUME NEW lock \in Lock
        PROVE  QueueOK(queue[lock], lock)'
    <2>1. PICK q : q = queue'[lock]
      OBVIOUS
    <2>2. QueueOK(q, lock) /\ \A i \in DOMAIN q : pc'[q[i].task] = pc[q[i].task]
      BY <2>1
    <2> QED BY <2>1, <2>2 DEF QueueOK, Running, Request
  <1> QED BY <1>1 DEF QueuesOK

\* Members of a queue are guards of tasks.
LEMMA QueueTyped ==
    ASSUME NEW q \in Seq(Guards), NEW i \in DOMAIN q
    PROVE  q[i] \in Guards /\ q[i].task \in Task /\ q[i].mode # "release"
  <1>1. q[i] \in Guards
    OBVIOUS
  <1> QED BY <1>1 DEF Guards

LEMMA InitLocks == Init => LocksInv
  <1> SUFFICES ASSUME Init PROVE LocksInv
    OBVIOUS
  <1>1. \A task \in Task : Len(Steps(task)) \in Nat
    BY ProgramsTyped
  <1>2. TypeOK
    BY <1>1 DEF Init, TypeOK
  <1> QED BY <1>2 DEF Init, LocksInv, GuardsOK, QueuesOK, QueueOK

LEMMA BeginKeeps ==
    ASSUME LocksInv, NEW task \in Task, Begin(task)
    PROVE  LocksInv'
  <1>1. /\ pc[task] = 0 /\ pc' = [pc EXCEPT ![task] = 1] /\ UNCHANGED <<mix, guards, queue>>
        /\ TypeOK
    BY DEF Begin, LocksInv
  <1>2. Steps(task) \in Seq(Requests)
    BY ProgramsTyped
  <1>3. TypeOK'
    BY <1>1, <1>2 DEF TypeOK
  <1>4. GuardsOK'
    BY <1>1 DEF LocksInv, GuardsOK, TypeOK, Guards
  <1>5. QueuesOK'
    <2>1. ASSUME NEW lock \in Lock, NEW i \in DOMAIN queue[lock]
          PROVE  queue[lock][i].task # task /\ queue[lock][i].task \in Task
      BY <1>1, <2>1, QueueTyped DEF LocksInv, QueuesOK, QueueOK, TypeOK, Running
    <2>2. \A lock \in Lock : QueueOK(queue[lock], lock)
      BY DEF LocksInv, QueuesOK
    <2> QED BY <1>1, <2>1, <2>2, QueuesStay DEF TypeOK
  <1> QED BY <1>3, <1>4, <1>5 DEF LocksInv

LEMMA FinishKeeps ==
    ASSUME LocksInv, NEW task \in Task, Finish(task)
    PROVE  LocksInv'
  <1>1. /\ pc[task] = Len(Steps(task)) + 1 /\ pc' = [pc EXCEPT ![task] = 0]
        /\ guards' = Dropped(task) /\ UNCHANGED <<mix, queue>> /\ TypeOK
    BY DEF Finish, LocksInv
  <1>2. Steps(task) \in Seq(Requests) /\ ~Running(task)
    BY <1>1, ProgramsTyped DEF Running
  <1>3. TypeOK'
    BY <1>1, <1>2 DEF TypeOK, Dropped
  <1>4. GuardsOK'
    BY <1>1 DEF LocksInv, GuardsOK, TypeOK, Guards, Dropped
  <1>5. QueuesOK'
    <2>1. ASSUME NEW lock \in Lock, NEW i \in DOMAIN queue[lock]
          PROVE  queue[lock][i].task # task /\ queue[lock][i].task \in Task
      BY <1>1, <1>2, <2>1, QueueTyped DEF LocksInv, QueuesOK, QueueOK, TypeOK
    <2>2. \A lock \in Lock : QueueOK(queue[lock], lock)
      BY DEF LocksInv, QueuesOK
    <2> QED BY <1>1, <2>1, <2>2, QueuesStay DEF TypeOK
  <1> QED BY <1>3, <1>4, <1>5 DEF LocksInv

\* A task that goes on to its next request, and what it holds then.
LEMMA MoveOn ==
    ASSUME LocksInv, NEW task \in Task, Running(task),
           pc' = [pc EXCEPT ![task] = @ + 1],
           guards' \in [Lock -> SUBSET Guards],
           \A lock \in Lock : \A g \in guards'[lock] :
               IF g.task = task
               THEN /\ ~Releases(Steps(task), pc[task], lock)
                    /\ g \in guards[lock] \/ lock = Request(task).lock
               ELSE g \in guards[lock]
    PROVE  /\ pc' \in [Task -> Nat]
           /\ \A o \in Task : pc'[o] <= Len(Steps(o)) + 1
           /\ GuardsOK'
  <1>1. /\ TypeOK /\ pc[task] \in 1 .. Len(Steps(task)) /\ Steps(task) \in Seq(Requests)
        /\ Request(task) = Steps(task)[pc[task]]
    BY RequestTyped DEF LocksInv
  <1>2. /\ pc'[task] = pc[task] + 1 /\ pc' \in [Task -> Nat]
        /\ \A o \in Task : o # task => pc'[o] = pc[o]
    BY <1>1 DEF TypeOK
  <1>3. \A o \in Task : pc'[o] <= Len(Steps(o)) + 1
    BY <1>1, <1>2 DEF TypeOK
  <1>4. ASSUME NEW lock \in Lock, NEW g \in guards'[lock]
        PROVE  pc'[g.task] # 0 /\ Keeps(Steps(g.task), pc'[g.task], lock)
    <2>1. g.task \in Task
      BY <1>4 DEF Guards
    <2>2. CASE g.task # task
      BY <1>2, <2>1, <2>2 DEF LocksInv, GuardsOK
    <2>3. CASE g.task = task
      <3>1. ~Releases(Steps(task), pc[task], lock)
            /\ (Keeps(Steps(task), pc[task], lock) \/ Steps(task)[pc[task]].lock = lock)
        BY <1>1, <2>3 DEF LocksInv, GuardsOK
      <3>2. Keeps(Steps(task), pc[task] + 1, lock)
        BY <1>1, <3>1, KeepsOn
      <3> QED BY <1>1, <1>2, <2>3, <3>2
    <2> QED BY <2>2, <2>3
  <1> QED BY <1>2, <1>3, <1>4 DEF GuardsOK

LEMMA DropKeeps ==
    ASSUME LocksInv, NEW task \in Task, Drop(task)
    PROVE  LocksInv'
  <1> DEFINE l == Request(task).lock
  <1>1. /\ Running(task) /\ Request(task).mode = "release" /\ UNCHANGED <<mix, queue>>
        /\ guards' = [guards EXCEPT ![l] = {g \in guards[l] : g.task # task}]
        /\ pc' = [pc EXCEPT ![task] = @ + 1] /\ TypeOK
    BY RequestTyped DEF Drop, Dropped, LocksInv, Requests
  <1>2. /\ Request(task) \in Requests /\ Request(task) = Steps(task)[pc[task]]
        /\ Steps(task) \in Seq(Requests)
    BY <1>1, RequestTyped
  <1>3. l \in Lock
    BY <1>2 DEF Requests
  <1> HIDE DEF l
  <1>4. guards' \in [Lock -> SUBSET Guards]
    BY <1>1, <1>3 DEF TypeOK
  <1>5. \A lock \in Lock : \A g \in guards'[lock] :
            IF g.task = task
            THEN ~Releases(Steps(task), pc[task], lock) /\ g \in guards[lock]
            ELSE g \in guards[lock]
    BY <1>1, <1>2, <1>3 DEF TypeOK, Releases, l
  <1>6. /\ pc' \in [Task -> Nat] /\ GuardsOK'
        /\ \A o \in Task : pc'[o] <= Len(Steps(o)) + 1
    BY <1>1, <1>4, <1>5, MoveOn
  <1>7. TypeOK'
    BY <1>1, <1>4, <1>6 DEF TypeOK
  <1>8. ASSUME NEW lock \in Lock, NEW i \in DOMAIN queue[lock]
        PROVE  queue[lock][i].task # task
    <2>1. queue[lock][i] \in Guards
      BY <1>1, <1>8 DEF TypeOK
    <2>2. Request(queue[lock][i].task).mode = queue[lock][i].mode
      BY <1>8 DEF LocksInv, QueuesOK, QueueOK
    <2> QED BY <1>1, <2>1, <2>2 DEF Guards
  <1>9. QueuesOK'
    <2>1. ASSUME NEW lock \in Lock, NEW i \in DOMAIN queue[lock]
          PROVE  queue[lock][i].task # task /\ queue[lock][i].task \in Task
      BY <1>1, <1>8, <2>1, QueueTyped DEF TypeOK
    <2>2. \A lock \in Lock : QueueOK(queue[lock], lock)
      BY DEF LocksInv, QueuesOK
    <2> QED BY <1>1, <2>1, <2>2, QueuesStay DEF TypeOK
  <1> QED BY <1>6, <1>7, <1>9 DEF LocksInv

\* The lock is given to a task that is in no queue any more.
LEMMA LockTaken ==
    ASSUME LocksInv, NEW task \in Task, Running(task), Request(task).mode # "release",
           LET guard == [task |-> task, mode |-> Request(task).mode]
           IN  guards' = [guards EXCEPT ![Request(task).lock] = @ \cup {guard}],
           pc' = [pc EXCEPT ![task] = @ + 1],
           UNCHANGED mix,
           queue' \in [Lock -> Seq(Guards)],
           \A lock \in Lock : QueueOK(queue'[lock], lock),
           \A lock \in Lock : \A i \in DOMAIN queue'[lock] : queue'[lock][i].task # task
    PROVE  LocksInv'
  <1> DEFINE l == Request(task).lock
             guard == [task |-> task, mode |-> Request(task).mode]
  <1>1. /\ Request(task) \in Requests /\ Request(task) = Steps(task)[pc[task]]
        /\ TypeOK
    BY RequestTyped DEF LocksInv
  <1>2. l \in Lock /\ guard \in Guards /\ guard.task = task
    BY <1>1 DEF Requests, Mode, Guards
  <1>3. guards' = [guards EXCEPT ![l] = @ \cup {guard}]
    OBVIOUS
  <1> HIDE DEF guard
  <1>4. guards' \in [Lock -> SUBSET Guards]
    BY <1>1, <1>2, <1>3 DEF TypeOK
  <1>5. \A lock \in Lock : \A g \in guards'[lock] :
            g \in guards[lock] \/ (g.task = task /\ lock = l)
    BY <1>1, <1>2, <1>3 DEF TypeOK
  <1>6. \A lock \in Lock : ~Releases(Steps(task), pc[task], lock)
    BY <1>1 DEF Releases
  <1>7. /\ pc' \in [Task -> Nat] /\ GuardsOK'
        /\ \A o \in Task : pc'[o] <= Len(Steps(o)) + 1
    BY <1>4, <1>5, <1>6, MoveOn
  <1>8. TypeOK'
    BY <1>1, <1>4, <1>7 DEF TypeOK
  <1>9. QueuesOK'
    <2>1. ASSUME NEW lock \in Lock, NEW i \in DOMAIN queue'[lock]
          PROVE  queue'[lock][i].task # task /\ queue'[lock][i].task \in Task
      <3>1. queue'[lock] \in Seq(Guards)
        OBVIOUS
      <3> QED BY <2>1, <3>1, QueueTyped
    <2> QED BY <1>1, <2>1, QueuesStay DEF TypeOK
  <1> QED BY <1>7, <1>8, <1>9 DEF LocksInv

\* .read().await or .write().await: the lock at once, or the end of its queue.
LEMMA AcquireKeeps ==
    ASSUME LocksInv, NEW task \in Task, Acquire(task)
    PROVE  LocksInv'
  <1> DEFINE l == Request(task).lock
             guard == [task |-> task, mode |-> Request(task).mode]
  <1>1. /\ Running(task) /\ Request(task).mode # "release" /\ ~Waits(task)
        /\ TypeOK /\ QueuesOK
    BY DEF Acquire, LocksInv
  <1>2. Request(task) \in Requests
    BY <1>1, RequestTyped
  <1>3. l \in Lock /\ guard \in Guards /\ guard.task = task /\ guard.mode = Request(task).mode
    BY <1>1, <1>2 DEF Requests, Mode, Guards
  <1>4. \A lock \in Lock : \A i \in DOMAIN queue[lock] : queue[lock][i].task # task
    BY <1>1 DEF Waits
  <1>5. CASE queue[l] = <<>> /\ Compatible(guard.mode, guards[l])
    <2>1. /\ guards' = [guards EXCEPT ![l] = @ \cup {guard}]
          /\ pc' = [pc EXCEPT ![task] = @ + 1] /\ UNCHANGED <<mix, queue>>
      BY <1>5 DEF Acquire
    <2>2. queue' \in [Lock -> Seq(Guards)] /\ \A lock \in Lock : QueueOK(queue'[lock], lock)
      BY <1>1, <2>1 DEF TypeOK, QueuesOK
    <2> QED BY <1>1, <1>4, <2>1, <2>2, LockTaken
  <1>6. CASE ~(queue[l] = <<>> /\ Compatible(guard.mode, guards[l]))
    <2>1. queue' = [queue EXCEPT ![l] = Append(@, guard)] /\ UNCHANGED <<mix, pc, guards>>
      BY <1>6 DEF Acquire
    <2> HIDE DEF guard, l
    <2>2. queue[l] \in Seq(Guards) /\ QueueOK(queue[l], l)
          /\ \A i \in DOMAIN queue[l] : queue[l][i].task # task
      BY <1>1, <1>3, <1>4 DEF TypeOK, QueuesOK
    <2>3. PICK q : q = Append(queue[l], guard)
      OBVIOUS
    <2>4. /\ q \in Seq(Guards) /\ DOMAIN q = DOMAIN queue[l] \cup {Len(queue[l]) + 1}
          /\ q[Len(queue[l]) + 1] = guard
          /\ \A i \in DOMAIN queue[l] : q[i] = queue[l][i]
      BY <1>3, <2>2, <2>3
    <2>5. QueueOK(q, l)
      BY <1>1, <1>3, <2>2, <2>4 DEF QueueOK, l
    <2>6. queue' = [queue EXCEPT ![l] = q]
      BY <1>3, <2>1, <2>3
    <2>7. TypeOK'
      BY <1>1, <1>3, <2>1, <2>4, <2>6 DEF TypeOK
    <2>8. GuardsOK'
      BY <2>1 DEF LocksInv, GuardsOK
    <2>9. \A lock \in Lock : QueueOK(queue'[lock], lock)
      BY <1>1, <1>3, <2>5, <2>6 DEF TypeOK, QueuesOK
    <2>10. QueuesOK'
      BY <2>1, <2>9, QueuesStay
    <2> QED BY <2>7, <2>8, <2>10 DEF LocksInv
  <1> QED BY <1>5, <1>6

\* The first of the queue leaves it with the lock.
LEMMA GrantKeeps ==
    ASSUME LocksInv, NEW lock \in Lock, Grant(lock)
    PROVE  LocksInv'
  <1> DEFINE q == queue[lock]
             task == Head(q).task
  <1>1. /\ q # <<>> /\ q \in Seq(Guards) /\ QueueOK(q, lock) /\ TypeOK /\ QueuesOK
        /\ UNCHANGED mix
    BY DEF Grant, LocksInv, TypeOK, QueuesOK
  <1>2. 1 \in DOMAIN q /\ Head(q) = q[1] /\ Head(q) \in Guards
    BY <1>1
  <1>3. /\ task \in Task /\ Running(task) /\ Request(task).lock = lock
        /\ Request(task).mode = Head(q).mode /\ Request(task).mode # "release"
        /\ Head(q) = [task |-> task, mode |-> Request(task).mode]
    BY <1>1, <1>2 DEF QueueOK, Guards
  <1>4. /\ guards' = [guards EXCEPT ![lock] = @ \cup {Head(q)}]
        /\ pc' = [pc EXCEPT ![task] = @ + 1]
        /\ queue' = [queue EXCEPT ![lock] = Tail(q)]
    BY DEF Grant
  <1> HIDE DEF q
  <1>5. /\ Tail(q) \in Seq(Guards) /\ Len(Tail(q)) = Len(q) - 1
        /\ \A i \in 1 .. Len(q) - 1 : Tail(q)[i] = q[i + 1] /\ i + 1 \in DOMAIN q
    BY <1>1
  <1>6. PICK t : t = Tail(q)
    OBVIOUS
  <1>7. /\ t \in Seq(Guards) /\ DOMAIN t = 1 .. Len(q) - 1
        /\ \A i \in DOMAIN t : t[i] = q[i + 1] /\ i + 1 \in DOMAIN q /\ i + 1 # 1
    BY <1>1, <1>5, <1>6
  <1>8. QueueOK(t, lock) /\ \A i \in DOMAIN t : t[i].task # task
    <2>1. ASSUME NEW i \in DOMAIN t
          PROVE  /\ Running(t[i].task) /\ Request(t[i].task).lock = lock
                 /\ Request(t[i].task).mode = t[i].mode /\ t[i].task # task
                 /\ \A j \in DOMAIN t : t[j].task = t[i].task => j = i
      BY <1>1, <1>2, <1>7 DEF QueueOK
    <2> QED BY <2>1 DEF QueueOK
  <1>9. queue' \in [Lock -> Seq(Guards)] /\ \A k \in Lock : QueueOK(queue'[k], k)
    BY <1>1, <1>4, <1>6, <1>7, <1>8 DEF TypeOK, QueuesOK
  <1>10. \A k \in Lock : \A i \in DOMAIN queue'[k] : queue'[k][i].task # task
    <2> SUFFICES ASSUME NEW k \in Lock, k # lock, NEW i \in DOMAIN queue[k]
                 PROVE  queue[k][i].task # task
      BY <1>1, <1>4, <1>6, <1>8 DEF TypeOK
    <2>1. Request(queue[k][i].task).lock = k
      BY <1>1 DEF QueuesOK, QueueOK
    <2> QED BY <1>3, <2>1
  <1> HIDE DEF task
  <1> QED BY <1>1, <1>3, <1>4, <1>9, <1>10, LockTaken

LEMMA NextLocks == LocksInv /\ [Next]_vars => LocksInv'
  <1> SUFFICES ASSUME LocksInv, [Next]_vars PROVE LocksInv'
    OBVIOUS
  <1>1. CASE UNCHANGED vars
    BY <1>1 DEF vars, LocksInv, TypeOK, GuardsOK, QueuesOK, QueueOK, Running, Request
  <1> QED BY <1>1, BeginKeeps, AcquireKeeps, DropKeeps, FinishKeeps, GrantKeeps DEF Next

\* Guards and queues fit the requests of the tasks in every state.
THEOREM LocksInvariant == Spec => []LocksInv
  BY InitLocks, NextLocks, PTL DEF Spec

-----------------------------------------------------------------------------
(* What it is for.                                                         *)

\* Nobody waits for a lock of rank r if nobody waits for one of higher rank:
\* the holder, which waits as well, could only wait for such a one.
LEMMA HolderWaitsHigher ==
    ASSUME LocksInv, \A task \in Task : Operation(task) \notin IndexFirst,
           \A task \in Task : pc[task] # 0 => Waits(task),
           \A lock \in Lock : queue[lock] # <<>> =>
               ~Compatible(Head(queue[lock]).mode, guards[lock]),
           NEW lock \in Lock, queue[lock] # <<>>
    PROVE  \E higher \in Lock : queue[higher] # <<>> /\ Rank[lock] < Rank[higher]
  <1>1. guards[lock] # {}
    BY DEF Compatible
  <1>2. PICK g : g \in guards[lock]
    BY <1>1
  <1>3. g.task \in Task
    BY <1>2 DEF LocksInv, TypeOK, Guards
  <1>4. pc[g.task] # 0 /\ Keeps(Steps(g.task), pc[g.task], lock)
    BY <1>2 DEF LocksInv, GuardsOK
  <1>5. PICK higher \in Lock : \E i \in DOMAIN queue[higher] : queue[higher][i].task = g.task
    BY <1>3, <1>4 DEF Waits
  <1>6. PICK i \in DOMAIN queue[higher] : queue[higher][i].task = g.task
    BY <1>5
  <1>7. queue[higher][i] \in Guards /\ queue[higher] # <<>>
    BY <1>6 DEF LocksInv, TypeOK
  <1>8. /\ Running(g.task) /\ Request(g.task).lock = higher
        /\ Request(g.task).mode # "release"
    BY <1>6, <1>7 DEF LocksInv, QueuesOK, QueueOK, Guards
  <1>9. Operation(g.task) \in DOMAIN Program \ IndexFirst
    BY <1>3, TaskAssumption
  <1>10. InOrder(Steps(g.task))
    BY <1>9, ProgramsInOrder DEF Steps
  <1>11. Rank[lock] < Rank[higher]
    BY <1>4, <1>8, <1>10 DEF InOrder, Running, Request
  <1> QED BY <1>7, <1>11

\* The operations of the repositories and of AuthManager never wait for each
\* other in a circle, whichever of them run together, as long as get_client and
\* get_proxies are not among them: all others take their locks in one order.
THEOREM OthersNeverLockUp ==
    ASSUME \A task \in Task : Operation(task) \notin IndexFirst
    PROVE  Spec => []NoCircularWait
  <1>1. ASSUME LocksInv
        PROVE  NoCircularWait
    <2> SUFFICES ASSUME NEW task \in Task, pc[task] # 0,
                        \A o \in Task : pc[o] # 0 => Waits(o),
                        \A lock \in Lock : queue[lock] # <<>> =>
                            ~Compatible(Head(queue[lock]).mode, guards[lock])
                 PROVE  FALSE
      BY DEF NoCircularWait
    <2> DEFINE Idle(r) == \A lock \in Lock : Rank[lock] = r => queue[lock] = <<>>
    <2>1. \A lock \in Lock : Rank[lock] \in 1 .. 4
      BY DEF Rank, Lock
    <2>2. \A lock \in Lock : queue[lock] # <<>> =>
              \E higher \in Lock : queue[higher] # <<>> /\ Rank[lock] < Rank[higher]
      BY <1>1, HolderWaitsHigher
    <2>3. Idle(4)
      BY <2>1, <2>2
    <2>4. Idle(3)
      BY <2>1, <2>2, <2>3
    <2>5. Idle(2)
      BY <2>1, <2>2, <2>3, <2>4
    <2>6. Idle(1)
      BY <2>1, <2>2, <2>3, <2>4, <2>5
    <2>7. \A lock \in Lock : queue[lock] = <<>>
      BY <2>1, <2>3, <2>4, <2>5, <2>6
    <2>8. Waits(task)
      OBVIOUS
    <2> QED BY <2>7, <2>8 DEF Waits
  <1> QED BY <1>1, LocksInvariant, PTL

=============================================================================
