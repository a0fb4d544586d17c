---- MODULE RouteStore ----
(***************************************************************************)
(* The RouteRepository of the controller, in memory or in Redis            *)
(* (controller/src/storage/inmemory/ and redis/route_repository.rs): the   *)
(* routes that wait to be redeemed and the conversations they belong to.   *)
(* In memory each operation takes its locks, works and releases them, so   *)
(* it is one step; in Redis each command or transaction is one.            *)
(*                                                                         *)
(* Redis keeps the routes of a conversation in one hash and an entry that  *)
(* expires is gone at once; in memory it stays until the sweep finds it.   *)
(*                                                                         *)
(* A conversation id is a fresh uuid.  It is named by the send it is made  *)
(* for, and a nonce by the send and its position: <<m, 1>>, <<m, 2>>, ...  *)
(* Since uuids do not collide, the "already present" returns of            *)
(* set_conversation and set_route are never taken.                         *)
(***************************************************************************)
EXTENDS Members, ExpiringMaps, Sequences

CONSTANTS
    ROUTES_EXPIRATION_TIME,
    CONVERSATIONS_EXPIRATION_TIME,
    RepositoryTypes    \* the settings of REPOSITORY that are looked at

ASSUME TTLAssumption ==
    /\ ROUTES_EXPIRATION_TIME \in Nat
    /\ CONVERSATIONS_EXPIRATION_TIME \in Nat
    /\ RepositoryTypes \subseteq {"InMemory", "Redis"}

VARIABLES
    repository_type,   \* read once, when the controller starts
    routes,
    conversations

routeVars == <<repository_type, routes, conversations>>

ConversationId == Sends

Nonce == ConversationId \X Nat

\* models.rs: Route, reduced to whom it leads to and whether it is the last.
Routes == [target : Member, end_route : BOOLEAN]

\* models.rs: Conversation.  Of its routes only their number is ever read.
Conversations == [from : Member, to : Member \cup {CONTROLLER_UID},
                  routes : Seq(Routes)]

RouteStoreTypeOK ==
    /\ repository_type \in RepositoryTypes
    /\ IsMap(routes, Nonce, Wrappers(Routes, ROUTES_EXPIRATION_TIME))
    /\ IsMap(conversations, ConversationId,
             Wrappers(Conversations, CONVERSATIONS_EXPIRATION_TIME))

\* RepositoryType::get_from_env
RouteStoreInit ==
    /\ repository_type \in RepositoryTypes
    /\ routes = EmptyMap
    /\ conversations = EmptyMap

----

InMemory == repository_type = "InMemory"

\* What RouteManager::initialize stores.  There is one strategy, so the
\* routing_id is left out.
NewConversation(from, to) == [from |-> from, to |-> to, routes |-> <<>>]

set_conversation(id, from, to) ==
    /\ conversations' =
          Insert(conversations, id,
                 Wrap(NewConversation(from, to), CONVERSATIONS_EXPIRATION_TIME))
    /\ UNCHANGED <<repository_type, routes>>

\* Faulty variant: every conversation is removed.
remove_conversation_all(id) ==
    /\ conversations' = EmptyMap
    /\ UNCHANGED <<repository_type, routes>>

remove_conversation(id) ==
    /\ conversations' = Remove(conversations, id)
    /\ UNCHANGED <<repository_type, routes>>

\* get_conversation(..).is_some(): in memory an expired entry is found until
\* it is swept.
has_conversation(id) == id \in DOMAIN conversations

get_conversation(id) == conversations[id].value

\* In memory: the route is stored even when its conversation is no longer
\* there; the caller is then told that nothing was stored.
set_route(id, nonce, route) ==
    /\ routes' = Insert(routes, nonce, Wrap(route, ROUTES_EXPIRATION_TIME))
    /\ conversations' =
          IF has_conversation(id)
          THEN [conversations EXCEPT ![id].value.routes = Append(@, route)]
          ELSE conversations
    /\ UNCHANGED repository_type

\* The routes that share a Redis hash with those of conversation id.
SameHash(id, nonce) == nonce[1] = id

\* Redis: the transaction that ends set_route.  It renews the hash as a whole
\* and writes the conversation back from the copy read before.
exec_set_route(id, nonce, route, copy) ==
    /\ routes' =
          [n \in DOMAIN routes \cup {nonce} |->
              IF n = nonce THEN Wrap(route, ROUTES_EXPIRATION_TIME)
              ELSE IF SameHash(id, n) THEN Renew(routes[n], ROUTES_EXPIRATION_TIME)
              ELSE routes[n]]
    /\ conversations' =
          Insert(conversations, id,
                 Wrap([copy EXCEPT !.routes = Append(@, route)],
                      CONVERSATIONS_EXPIRATION_TIME))
    /\ UNCHANGED repository_type

\* In memory the conversation id that get_route is given is not looked at; in
\* Redis it names the hash.
has_route(nonce) == nonce \in DOMAIN routes

get_route(nonce) == routes[nonce].value

\* Faulty variant: nothing is removed.
remove_route_not(nonce) == UNCHANGED <<repository_type, routes, conversations>>

\* Redis: the key is made of the nonce where get_route and set_route make it of
\* the conversation id, so there is nothing to remove.
remove_route(nonce) ==
    /\ routes' = IF InMemory THEN Remove(routes, nonce) ELSE routes
    /\ UNCHANGED <<repository_type, conversations>>

\* Faulty variant: live entries are removed too.
kill_all_routes ==
    /\ InMemory
    /\ routes' = EmptyMap
    /\ conversations' = EmptyMap
    /\ UNCHANGED repository_type

\* Faulty variant: routes are not looked at.
kill_expired_conversations ==
    /\ InMemory
    /\ conversations' = Retain(conversations)
    /\ UNCHANGED <<repository_type, routes>>

\* The body of the background task of the in-memory repository.
kill_expired_routes ==
    /\ InMemory
    /\ routes' = Retain(routes)
    /\ conversations' = Retain(conversations)
    /\ UNCHANGED repository_type

\* A tick passes.  Redis drops what expires.
RouteStoreTick ==
    /\ routes' = IF InMemory THEN Elapse(routes) ELSE Retain(Elapse(routes))
    /\ conversations' = IF InMemory THEN Elapse(conversations)
                        ELSE Retain(Elapse(conversations))
    /\ UNCHANGED repository_type

====
