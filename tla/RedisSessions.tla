---------------------------- MODULE RedisSessions ----------------------------
(***************************************************************************)
(* The SessionRepository in Redis (controller/src/storage/redis/           *)
(* session_repository.rs).  Several controllers share one Redis; each has  *)
(* one connection and holds its lock for a whole operation, so a           *)
(* controller runs one operation at a time, and the commands of different  *)
(* controllers interleave.  A command or a MULTI is one step.              *)
(*                                                                         *)
(* Keys ss:<access key> are the sessions; c_ss:, p_ss: and ctrl_ss:<uid>   *)
(* are the index.  Each expires by itself.                                 *)
(***************************************************************************)
EXTENDS Members, ExpiringMaps

CONSTANTS
    Server,       \* the controllers that share the Redis
    Readers,      \* bound: the ones that look members up (reads do not interact)
    SESSIONS_EXPIRATION_TIME,
    MaxKeys,      \* bound on the logins of a member
    Returning     \* the members that log in more than once

ASSUME RedisAssumption ==
    /\ SESSIONS_EXPIRATION_TIME \in Nat
    /\ MaxKeys \in Nat \ {0}
    /\ Returning \subseteq Member
    /\ Readers \subseteq Server

VARIABLES
    sessions,     \* access key -> uid, wrapped
    index,        \* uid -> number of its access key, wrapped
    issued,       \* the number of keys made for each member
    task,         \* the operation each controller is in
    gone,         \* the members that have left for good
    cut           \* members of whom a get_session missed its second command

storeVars == <<sessions, index, issued>>

vars == <<storeVars, task, gone, cut>>

AccessKey == Member \X (1 .. MaxKeys)

Owner(key) == key[1]

NoKey == <<>>

Tasks ==
    [pc : {"idle", "expire", "scan", "get_index", "get_session", "get_client_session",
           "done", "panicked"},
     key : AccessKey \cup {NoKey},    \* the access key of the caller
     got : AccessKey \cup {NoKey},    \* the one read from the index
     unseen : SUBSET Member,          \* whom SCAN has not come to yet
     scanned : SUBSET Member,         \* whom the operation looks up
     all : SUBSET Member,             \* of these, the ones still to come
     found : SUBSET AccessKey,
     stable : SUBSET Member]          \* of these, listed ever since it began

Idle == [pc |-> "idle", key |-> NoKey, got |-> NoKey, unseen |-> {},
         scanned |-> {}, all |-> {}, found |-> {}, stable |-> {}]

TypeOK ==
    /\ IsMap(sessions, AccessKey, Wrappers(Member, SESSIONS_EXPIRATION_TIME))
    /\ IsMap(index, Member, Wrappers(1 .. MaxKeys, SESSIONS_EXPIRATION_TIME))
    /\ issued \in [Member -> 0 .. MaxKeys]
    /\ task \in [Server -> Tasks]
    /\ gone \subseteq Member
    /\ cut \subseteq Member

Init ==
    /\ sessions = EmptyMap
    /\ index = EmptyMap
    /\ issued = [c \in Member |-> 0]
    /\ task = [s \in Server |-> Idle]
    /\ gone = {}
    /\ cut = {}

-----------------------------------------------------------------------------

\* Faulty variant: as_millis() where Redis counts in seconds.
EXPIRY_TIME_in_millis == SESSIONS_EXPIRATION_TIME * 1000

EXPIRY_TIME == SESSIONS_EXPIRATION_TIME

KeyOf(c) == <<c, index[c].value>>

IsListed(c) == c \in DOMAIN index /\ KeyOf(c) \in DOMAIN sessions

\* Bookkeeping, for a step after which the operations are those of tasks: who
\* is still listed, and under the same key.
Watched(tasks) ==
    [s \in Server |-> [tasks[s] EXCEPT !.stable =
        {c \in @ : IsListed(c)' /\ KeyOf(c)' = KeyOf(c)}]]

IssuedKeys == {key \in AccessKey : key[2] <= issued[Owner(key)]}

\* The keys that are still in use.
KeysUsed == {key \in IssuedKeys : Owner(key) \notin gone}

\* set_session: one transaction.  No task is between two steps of it.
set_session(s, c) ==
    /\ task[s].pc = "idle"
    /\ c \notin gone
    /\ issued[c] < IF c \in Returning THEN MaxKeys ELSE 1
    /\ issued' = [issued EXCEPT ![c] = @ + 1]
    /\ index' = Insert(index, c, Wrap(issued[c] + 1, EXPIRY_TIME))
    /\ sessions' = Insert(sessions, <<c, issued[c] + 1>>,
                          Wrap(c, EXPIRY_TIME))
    /\ task' = Watched(task)
    /\ cut' = cut \ {c}
    /\ UNCHANGED gone

\* Faulty variant: the index entry is not renewed.
get_session_only(s, key) ==
    /\ task[s].pc = "idle"
    /\ key \in DOMAIN sessions
    /\ sessions' = [sessions EXCEPT ![key] = Renew(@, EXPIRY_TIME)]
    /\ UNCHANGED <<index, issued, task, gone, cut>>

\* get_session: GETEX, after which nothing is left to do when there is no such
\* key, ...
get_session(s, key) ==
    /\ task[s].pc = "idle"
    /\ key \in DOMAIN sessions
    /\ sessions' = [sessions EXCEPT ![key] = Renew(@, EXPIRY_TIME)]
    /\ task' = [task EXCEPT ![s].pc = "expire", ![s].key = key]
    /\ UNCHANGED <<index, issued, gone, cut>>

\* Faulty variant: the entry is written, with the key the caller came with.
GetSessionSetIndex(s) ==
    /\ task[s].pc = "expire"
    /\ LET c == Owner(task[s].key)
       IN  index' = Insert(index, c, Wrap(task[s].key[2], EXPIRY_TIME))
    /\ sessions' = sessions
    /\ task' = Watched([task EXCEPT ![s] = Idle])
    /\ UNCHANGED <<issued, gone, cut>>

\* ... and EXPIRE of the index entry of that uid, whichever key it leads to.
GetSessionExpire(s) ==
    /\ task[s].pc = "expire"
    /\ LET c == Owner(task[s].key)
       IN  IF c \in DOMAIN index
           THEN /\ index' = [index EXCEPT ![c] = Renew(@, EXPIRY_TIME)]
                /\ cut' = cut \ {c}
           ELSE UNCHANGED <<index, cut>>
    /\ task' = [task EXCEPT ![s] = Idle]
    /\ UNCHANGED <<sessions, issued, gone>>

\* remove_session: the index is left to expire.
remove_session(s, key) ==
    /\ task[s].pc = "idle"
    /\ key \in DOMAIN sessions
    /\ sessions' = Remove(sessions, key)
    /\ index' = index
    /\ task' = Watched(task)
    /\ UNCHANGED <<issued, gone, cut>>

-----------------------------------------------------------------------------
(* get_proxies and get_client.  A panic drops the connection's guard and   *)
(* fails the call; the controller goes on.                                 *)

\* SCAN of p_ss:*, ...
get_proxies(s, key) ==
    /\ s \in Readers
    /\ task[s].pc = "idle"
    /\ task' = [task EXCEPT ![s] =
          [Idle EXCEPT !.pc = "scan", !.key = key, !.unseen = Proxy,
                       !.stable = {p \in Proxy : IsListed(p)}]]
    /\ UNCHANGED <<storeVars, gone, cut>>

\* ... which takes many commands: the cursor comes to each key once, in any
\* order, while others write, and returns those it finds there.
Scan(s, p) ==
    /\ task[s].pc = "scan"
    /\ p \in task[s].unseen
    /\ task' = [task EXCEPT ![s].unseen = @ \ {p},
                            ![s].all = @ \cup ({p} \cap DOMAIN index)]
    /\ UNCHANGED <<storeVars, gone, cut>>

\* if all.is_empty() { return None; }
ScanEnds(s) ==
    /\ task[s].pc = "scan"
    /\ task[s].unseen = {}
    /\ task' = [task EXCEPT ![s].pc = IF task[s].all = {} THEN "done" ELSE "get_index",
                            ![s].scanned = task[s].all]
    /\ UNCHANGED <<storeVars, gone, cut>>

\* Faulty variant: reading an index entry renews it.
GetProxiesGetExIndex(s, p) ==
    /\ task[s].pc = "get_index"
    /\ p \in task[s].all
    /\ IF p \in DOMAIN index
       THEN /\ task' = [task EXCEPT ![s].pc = "get_session", ![s].got = KeyOf(p),
                                    ![s].all = @ \ {p}]
            /\ index' = [index EXCEPT ![p] = Renew(@, EXPIRY_TIME)]
       ELSE /\ task' = [task EXCEPT ![s].pc = "panicked"]
            /\ index' = index
    /\ UNCHANGED <<sessions, issued, gone, cut>>

\* GET of an index entry, unwrapped.
GetProxiesGetIndex(s, p) ==
    /\ task[s].pc = "get_index"
    /\ p \in task[s].all
    /\ task' = [task EXCEPT ![s] =
          IF p \in DOMAIN index
          THEN [@ EXCEPT !.pc = "get_session", !.got = KeyOf(p),
                         !.all = task[s].all \ {p}]
          ELSE [@ EXCEPT !.pc = "panicked"]]
    /\ UNCHANGED <<storeVars, gone, cut>>

\* Faulty variant: the caller is told by its uid, not by its key.
PushesOthers(got, key) == IF Owner(got) = Owner(key) THEN {} ELSE {got}

\* if session.access_key != access_key { proxies.push(session) }
Pushes(got, key) == IF got = key THEN {} ELSE {got}

\* GET of the session it leads to, unwrapped as well.
GetProxiesGetSession(s) ==
    /\ task[s].pc = "get_session"
    /\ task' = [task EXCEPT ![s] =
          IF @.got \in DOMAIN sessions
          THEN [@ EXCEPT !.pc = IF task[s].all = {} THEN "done" ELSE "get_index",
                         !.found = task[s].found \cup Pushes(task[s].got, task[s].key),
                         !.got = NoKey]
          ELSE [@ EXCEPT !.pc = "panicked"]]
    /\ UNCHANGED <<storeVars, gone, cut>>

\* GET of the index entry of a client, unwrapped.
get_client(s, uid) ==
    /\ s \in Readers
    /\ task[s].pc = "idle"
    /\ task' = [task EXCEPT ![s] =
          [Idle EXCEPT !.pc = IF uid \in DOMAIN index THEN "get_client_session"
                              ELSE "panicked",
                       !.got = IF uid \in DOMAIN index THEN KeyOf(uid) ELSE NoKey,
                       !.scanned = {uid},
                       !.stable = {c \in {uid} : IsListed(c)}]]
    /\ UNCHANGED <<storeVars, gone, cut>>

\* GET of the session, None when it is missing.
GetClientGetSession(s) ==
    /\ task[s].pc = "get_client_session"
    /\ task' = [task EXCEPT ![s].pc = "done",
                            ![s].found = {task[s].got} \cap DOMAIN sessions]
    /\ UNCHANGED <<storeVars, gone, cut>>

\* The caller has its answer, or sees the call fail.
Return(s) ==
    /\ task[s].pc \in {"done", "panicked"}
    /\ task' = [task EXCEPT ![s] = Idle]
    /\ UNCHANGED <<storeVars, gone, cut>>

-----------------------------------------------------------------------------
(* Around the store.                                                       *)

\* A controller dies in the middle of an operation, and is started again.
Crash(s) ==
    /\ task[s].pc \notin {"idle", "done", "panicked"}
    /\ cut' = IF task[s].pc = "expire" THEN cut \cup {Owner(task[s].key)} ELSE cut
    /\ task' = [task EXCEPT ![s] = Idle]
    /\ UNCHANGED <<storeVars, gone>>

\* A member falls silent and does not come back.
Leave(c) ==
    /\ c \notin gone
    /\ gone' = gone \cup {c}
    /\ UNCHANGED <<storeVars, task, cut>>

\* Redis drops what expires.  An entry may go while a get_session is about to
\* renew it.
Tick ==
    /\ sessions' = Retain(Elapse(sessions))
    /\ index' = Retain(Elapse(index))
    /\ task' = Watched(task)
    /\ cut' = cut \cup
          {c \in DOMAIN index \ DOMAIN index' :
              \E s \in Server : task[s].pc = "expire" /\ Owner(task[s].key) = c}
    /\ UNCHANGED <<issued, gone>>

Serve(s) ==
    \/ \E c \in Member : set_session(s, c)
    \/ \E key \in KeysUsed : get_session(s, key) \/ remove_session(s, key)
    \/ \E key \in IssuedKeys : get_proxies(s, key)
    \/ \E c \in Client : get_client(s, c)
    \/ \E p \in Proxy : Scan(s, p) \/ GetProxiesGetIndex(s, p)
    \/ ScanEnds(s)
    \/ GetSessionExpire(s)
    \/ GetProxiesGetSession(s)
    \/ GetClientGetSession(s)
    \/ Return(s)

Next ==
    \/ \E s \in Server : Serve(s) \/ Crash(s)
    \/ \E c \in Member : Leave(c)
    \/ Tick

Spec == Init /\ [][Next]_vars

\* Time passes; nothing else is needed for sessions to end.
FairSpec == Spec /\ WF_vars(Tick)

-----------------------------------------------------------------------------
(* What makes it correct.                                                  *)

Registry ==
    INSTANCE SessionRegistry WITH
        sessions <- DOMAIN sessions,
        index <- [c \in Member |-> IF c \in DOMAIN index THEN index[c].value ELSE 0],
        opening <- {}, Connected <- {}

\* The promise of the in-memory store is kept, with several controllers: the
\* index only moves to newer keys, and a session that has ended is not accepted
\* again.
IsRegistry == Registry!RegistrySpec

\* Who is accepted also has an index entry, of whichever key: it lives as long
\* as any session of the member, unless a get_session missed its EXPIRE.
EntryOutlivesSession ==
    \A key \in DOMAIN sessions : Owner(key) \in DOMAIN index \cup cut

\* get_proxies and get_client read key by key while other controllers write:
\* they still find everybody who is listed from beginning to end, except the
\* session of the caller, and panic only when somebody was not.
StableMembersFound ==
    \A s \in Server :
        /\ task[s].pc = "done" =>
              {KeyOf(c) : c \in task[s].stable} \ {task[s].key} \subseteq task[s].found
        /\ task[s].pc = "panicked" => task[s].stable # task[s].scanned

\* README.md: "all information has associated a TTL and it is removed when is
\* no longer needed": of a member that is gone nothing is left in the end,
\* proxies included.
GoneMembersForgotten ==
    \A c \in Member :
        (c \in gone) ~> (/\ c \notin DOMAIN index
                         /\ \A key \in DOMAIN sessions : Owner(key) # c)

=============================================================================
