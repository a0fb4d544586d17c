------------------------------- MODULE Relay --------------------------------
(***************************************************************************)
(* A command travelling through the network, over the repositories in      *)
(* memory or in Redis: the client's Commander, the controller's            *)
(* RouteService and InfoService, the proxies' ProxyService and the         *)
(* recipient's LandingService, each handler cut at its awaits, so that the *)
(* handlers of other commands, expiry, logins and logouts come in between. *)
(*                                                                         *)
(* A command is one chain of nested gRPC calls.  The client asks the       *)
(* controller for a conversation and a first route and calls that proxy;   *)
(* a proxy redeems the nonce it was called with, asks for the next route   *)
(* and calls on, until HopLimit routes are stored and the next route is    *)
(* the recipient.  call[m] is the chain of command m: the handler step it  *)
(* has reached (pc) and what the handlers carry along.                     *)
(***************************************************************************)
EXTENDS MessageDelivery, RouteStore, SessionRegistry, FiniteSets

CONSTANTS
    HopLimit,    \* the 3 of RandomRouteStrategy::has_reached_final_route
    Unsteady     \* bound: the members whose sessions change in this model

\* Stands for a call to nobody yet and for a missing source_info.
Nobody == "nobody"

NoConversation == [from |-> Nobody, to |-> Nobody, routes |-> <<>>]

ASSUME RelayAssumption ==
    /\ HopLimit \in Nat \ {0}
    /\ Nobody \notin Client
    /\ Unsteady \subseteq Member
    /\ IsFiniteSet(Proxy)

VARIABLES call

vars == <<call, deliveryVars, routeVars, sessionVars>>

Step ==
    {"init", "init_unwrap", "set_conversation",                \* initialize
     "route", "route_conversation", "route_unwrap",            \* route
     "get_client", "get_proxies", "set_route", "exec_set_route",
     "connect", "authenticate",                                \* the next hop
     "redeem", "redeem_conversation", "get_route",             \* redeem
     "remove_route", "source_unwrap", "finalize",
     "redeemed", "status", "reply"}                            \* its answer

Ended == {"done", "failed", "panicked"}

Calls ==
    [pc : Step \cup Ended,
     key : AccessKey,                \* access key of the handler's requests
     at : Client \cup Proxy,         \* who runs the command now
     next : Client \cup Proxy \cup {Nobody},   \* target of the last route
     end : BOOLEAN,                  \* end_route of the last route
     hop : Nat,                      \* routes stored so far
     source : Client \cup {Nobody},  \* source_info of the last redeem
     copy : Conversations \cup {NoConversation},   \* read by set_route (Redis)
     path : Seq(Proxy)]              \* history: the proxies that redeemed

TypeOK ==
    /\ IsMap(command, Sends, Commands)
    /\ outcome \in [DOMAIN command -> Outcomes]
    /\ inbox \in [Client -> Seq(TextMessages)]
    /\ call \in [DOMAIN command -> Calls]
    /\ RouteStoreTypeOK
    /\ RegistryTypeOK

Init ==
    /\ DeliveryInit
    /\ RouteStoreInit
    /\ RegistryInit
    /\ call = EmptyMap

At(m, pc) == m \in DOMAIN call /\ call[m].pc = pc

Running(m) == m \in DOMAIN call /\ call[m].pc \in Step

\* The nonce of the last route made for command m.
NonceOf(m) == <<m, call[m].hop>>

\* A step that only reads: the chain of m goes on, or ends.
Ask(m, pc, holds, then, otherwise) ==
    /\ At(m, pc)
    /\ call' = [call EXCEPT ![m].pc = IF holds THEN then ELSE otherwise]
    /\ UNCHANGED <<deliveryVars, routeVars, sessionVars>>

\* guards::check_session and guards::check_conversation.
CheckSession(m, pc, then) ==
    Ask(m, pc, m \in DOMAIN call /\ has_session(call[m].key), then, "failed")

CheckConversation(m, pc, then) ==
    Ask(m, pc, has_conversation(m), then, "failed")

-----------------------------------------------------------------------------
(* The client: start_cmd_handler, Commander::send_message and get_status.  *)

NewCall(from, key) ==
    [pc |-> "init", key |-> key, at |-> from, next |-> Nobody, end |-> FALSE,
     hop |-> 0, source |-> Nobody, copy |-> NoConversation, path |-> <<>>]

Submit(m) ==
    /\ \E new \in Commands :
          /\ SubmitCommand(m, new)
          /\ \E key \in KeysGivenTo(new.from) :
                call' = Insert(call, m, NewCall(new.from, key))
    /\ UNCHANGED <<routeVars, sessionVars>>

-----------------------------------------------------------------------------
(* RouteService::initialize.                                               *)

InitializeCheckSession(m) == CheckSession(m, "init", "init_unwrap")

InitializeGetSession(m) ==
    Ask(m, "init_unwrap", m \in DOMAIN call /\ has_session(call[m].key),
        "set_conversation", "panicked")

InitializeConversation(m) ==
    /\ At(m, "set_conversation")
    /\ set_conversation(m, Owner(call[m].key), command[m].to)
    /\ call' = [call EXCEPT ![m].pc = "route"]
    /\ UNCHANGED <<deliveryVars, sessionVars>>

-----------------------------------------------------------------------------
(* RouteService::route and handle_route, for the client or a proxy.        *)

RouteCheckSession(m) == CheckSession(m, "route", "route_conversation")

RouteCheckConversation(m) ==
    CheckConversation(m, "route_conversation", "route_unwrap")

\* Faulty variant: one route less.
HasReachedFinalRouteEarly(conversation) ==
    Len(conversation.routes) = HopLimit - 1

\* RandomRouteStrategy::has_reached_final_route
HasReachedFinalRoute(conversation) == Len(conversation.routes) = HopLimit

RouteGetConversation(m) ==
    /\ At(m, "route_unwrap")
    /\ call' = [call EXCEPT ![m].pc =
          IF ~has_conversation(m) THEN "panicked"
          ELSE IF HasReachedFinalRoute(get_conversation(m))
          THEN "get_client" ELSE "get_proxies"]
    /\ UNCHANGED <<deliveryVars, routeVars, sessionVars>>

\* The handler leaves with the session of the next member, or not_found.
PickNext(m, unwraps, candidates, end) ==
    /\ \/ /\ ~unwraps
          /\ call' = [call EXCEPT ![m].pc = "panicked"]
       \/ /\ unwraps
          /\ candidates = {}
          /\ call' = [call EXCEPT ![m].pc = "failed"]
       \/ /\ unwraps
          /\ \E c \in candidates :
                call' = [call EXCEPT ![m].pc = "set_route", ![m].next = c,
                                     ![m].end = end]
    /\ UNCHANGED <<deliveryVars, routeVars, sessionVars>>

\* get_client on Redis unwraps the index entry.
ClientUnwraps(uid) == InMemory \/ (uid \in Client /\ index[uid] # 0)

\* get_proxies on Redis unwraps the session of every proxy in the index.
ProxiesUnwrap == InMemory \/ \A p \in Proxy : index[p] # 0 => IsListed(p)

\* Faulty variant: the last route is not stored as an end route.
RoutePickClientNotEnd(m) ==
    /\ At(m, "get_client")
    /\ PickNext(m, ClientUnwraps(command[m].to),
                {c \in Client : c = command[m].to /\ has_client(c)}, FALSE)

RoutePickClient(m) ==
    /\ At(m, "get_client")
    /\ PickNext(m, ClientUnwraps(command[m].to),
                {c \in Client : c = command[m].to /\ has_client(c)}, TRUE)

\* get_proxies returns the sessions in the iteration order of a HashMap.
Listings(S) ==
    {s \in [1 .. Cardinality(S) -> S] :
        \A i, j \in 1 .. Cardinality(S) : i # j => s[i] # s[j]}

\* RandomRouteStrategy::get_next_route: a random index below the last one,
\* or 0 when there is no such index.
GetNextRoute(proxies) ==
    LET numbers == 0 .. Len(proxies) - 2
    IN  {proxies[i + 1] : i \in IF numbers = {} THEN {0} ELSE numbers}

NextProxies(key) ==
    IF ListedProxies(key) = {} THEN {}
    ELSE UNION {GetNextRoute(s) : s \in Listings(ListedProxies(key))}

\* One step: a proxy that Redis lists may be picked when its session is read,
\* and a change in between shows as one before or as a Break.  In memory it takes
\* two locks, as get_client does, and may wait for them for ever (Fairness).
RoutePickProxy(m) ==
    /\ At(m, "get_proxies")
    /\ PickNext(m, ProxiesUnwrap, NextProxies(call[m].key), FALSE)

\* The route that RouteManager::store_route makes, and its nonce.
NewRoute(m) == [target |-> call[m].next, end_route |-> call[m].end]

NewNonce(m) == <<m, call[m].hop + 1>>

RouteStoreRoute(m) ==
    /\ At(m, "set_route")
    /\ InMemory
    /\ set_route(m, NewNonce(m), NewRoute(m))
    /\ call' = [call EXCEPT ![m].hop = @ + 1,
          ![m].pc = IF has_conversation(m) THEN "connect" ELSE "failed"]
    /\ UNCHANGED <<deliveryVars, sessionVars>>

\* Redis: set_route reads the conversation and unwraps it ...
RouteReadConversation(m) ==
    /\ At(m, "set_route")
    /\ ~InMemory
    /\ call' = IF has_conversation(m)
               THEN [call EXCEPT ![m].pc = "exec_set_route",
                                 ![m].copy = get_conversation(m)]
               ELSE [call EXCEPT ![m].pc = "panicked"]
    /\ UNCHANGED <<deliveryVars, routeVars, sessionVars>>

\* ... and writes it back in a transaction of its own, whatever has become of
\* it meanwhile.
RouteExecSetRoute(m) ==
    /\ At(m, "exec_set_route")
    /\ ~InMemory
    /\ exec_set_route(m, NewNonce(m), NewRoute(m), call[m].copy)
    /\ call' = [call EXCEPT ![m].hop = @ + 1, ![m].copy = NoConversation,
                            ![m].pc = "connect"]
    /\ UNCHANGED <<deliveryVars, sessionVars>>

-----------------------------------------------------------------------------
(* The caller takes the route: Commander::send_message and get_status call *)
(* a proxy in any case; ProxyService::send calls a proxy (route_command)   *)
(* or, at the end of the route, the recipient (land_command), which it     *)
(* hands its own access key.                                               *)

Connect(m) ==
    /\ At(m, "connect")
    /\ LET lands == call[m].end /\ call[m].at \in Proxy
       IN  call' = [call EXCEPT ![m].at = call[m].next,
               ![m].pc = IF lands THEN "redeem" ELSE "authenticate"]
    /\ UNCHANGED <<deliveryVars, routeVars, sessionVars>>

\* Faulty variant: a proxy that is not logged in goes on with no key.
AuthenticateUnchecked(m) ==
    /\ At(m, "authenticate")
    /\ call' = [call EXCEPT ![m].pc = "redeem", ![m].key = <<>>]
    /\ UNCHANGED <<deliveryVars, routeVars, sessionVars>>

\* ProxyService::check_authentication.  The key is one the proxy was given,
\* perhaps of a session that has ended or been replaced since.
Authenticate(m) ==
    /\ At(m, "authenticate")
    /\ \/ call' = [call EXCEPT ![m].pc = "failed"]
       \/ \E key \in KeysGivenTo(call[m].at) :
             call' = [call EXCEPT ![m].pc = "redeem", ![m].key = key]
    /\ UNCHANGED <<deliveryVars, routeVars, sessionVars>>

-----------------------------------------------------------------------------
(* RouteService::redeem, for a proxy or the recipient.                     *)

RedeemCheckSession(m) == CheckSession(m, "redeem", "redeem_conversation")

RedeemCheckConversation(m) ==
    CheckConversation(m, "redeem_conversation", "get_route")

\* RouteManager::redeem_route: look up, then remove.
RedeemGetRoute(m) ==
    /\ At(m, "get_route")
    /\ call' = IF has_route(NonceOf(m))
               THEN [call EXCEPT ![m].pc = "remove_route",
                                 ![m].end = get_route(NonceOf(m)).end_route]
               ELSE [call EXCEPT ![m].pc = "failed"]
    /\ UNCHANGED <<deliveryVars, routeVars, sessionVars>>

RedeemRemoveRoute(m) ==
    /\ At(m, "remove_route")
    /\ remove_route(NonceOf(m))
    /\ call' = [call EXCEPT
          ![m].pc = IF call[m].end THEN "source_unwrap" ELSE "redeemed"]
    /\ UNCHANGED <<deliveryVars, sessionVars>>

\* Faulty variant: the recipient is named as the source.
RedeemGetSourceTo(m) ==
    /\ At(m, "source_unwrap")
    /\ call' = IF has_conversation(m)
               THEN [call EXCEPT ![m].pc = "finalize",
                                 ![m].source = command[m].to]
               ELSE [call EXCEPT ![m].pc = "panicked"]
    /\ UNCHANGED <<deliveryVars, routeVars, sessionVars>>

\* Faulty variant: the source of whichever conversation comes first.
RedeemGetSourceAny(m) ==
    /\ At(m, "source_unwrap")
    /\ \E id \in DOMAIN conversations :
          call' = [call EXCEPT ![m].pc = "finalize",
                               ![m].source = get_conversation(id).from]
    /\ UNCHANGED <<deliveryVars, routeVars, sessionVars>>

RedeemGetSource(m) ==
    /\ At(m, "source_unwrap")
    /\ call' = IF has_conversation(m)
               THEN [call EXCEPT ![m].pc = "finalize",
                                 ![m].source = get_conversation(m).from]
               ELSE [call EXCEPT ![m].pc = "panicked"]
    /\ UNCHANGED <<deliveryVars, routeVars, sessionVars>>

\* Faulty variant: the conversation is kept.
RedeemFinalizeKeeps(m) ==
    /\ At(m, "finalize")
    /\ call' = [call EXCEPT ![m].pc = "redeemed"]
    /\ UNCHANGED <<deliveryVars, routeVars, sessionVars>>

RedeemFinalize(m) ==
    /\ At(m, "finalize")
    /\ remove_conversation(m)
    /\ call' = [call EXCEPT ![m].pc = "redeemed"]
    /\ UNCHANGED <<deliveryVars, sessionVars>>

-----------------------------------------------------------------------------
(* The holder of the redeemed route: ProxyService::execute_command goes on *)
(* with the status or the next route, LandingService::receive hands the    *)
(* message to the listener; it panics when the redeem brought no           *)
(* source_info.                                                            *)

Execute(m) ==
    /\ At(m, "redeemed")
    /\ call[m].at \in Proxy
    /\ call' = [call EXCEPT ![m].path = Append(@, call[m].at),
          ![m].pc = IF command[m].cmd = "Status" THEN "status" ELSE "route"]
    /\ UNCHANGED <<deliveryVars, routeVars, sessionVars>>

\* InfoService::status answers with the counts of the indexes.
Status(m) == CheckSession(m, "status", "reply")

Receive(m) ==
    /\ At(m, "redeemed")
    /\ call[m].at \in Client
    /\ IF call[m].source = Nobody
       THEN /\ call' = [call EXCEPT ![m].pc = "panicked"]
            /\ UNCHANGED deliveryVars
       ELSE /\ call' = [call EXCEPT ![m].pc = "reply"]
            /\ DeliverText(m, call[m].at, call[m].source)
    /\ UNCHANGED <<routeVars, sessionVars>>

\* The response travels back through every handler to the client.
Reply(m) ==
    /\ At(m, "reply")
    /\ call' = [call EXCEPT ![m].pc = "done"]
    /\ IF outcome[m] = "pending" THEN Report(m, "ok") ELSE UNCHANGED deliveryVars
    /\ UNCHANGED <<routeVars, sessionVars>>

\* Faulty variant: the caller of a handler that panics is left waiting.
ReturnErrorNotPanic(m) ==
    /\ At(m, "failed")
    /\ Report(m, "err")
    /\ UNCHANGED <<call, routeVars, sessionVars>>

\* So does an error; a panicking handler ends its call with one.
ReturnError(m) ==
    /\ m \in DOMAIN call
    /\ call[m].pc \in {"failed", "panicked"}
    /\ Report(m, "err")
    /\ UNCHANGED <<call, routeVars, sessionVars>>

-----------------------------------------------------------------------------
(* The environment.                                                        *)

\* The steps at which the one that is called is another member, not the
\* controller.
Hop == {"connect", "authenticate", "redeemed", "reply"}

\* The chain is cut at one of the steps pcs: the one that is called cannot be
\* reached, or it or the connection is lost and its handler cancelled.
CutAt(m, pcs) ==
    /\ Running(m)
    /\ call[m].pc \in pcs
    /\ call' = [call EXCEPT ![m].pc = "failed"]
    /\ UNCHANGED <<deliveryVars, routeVars, sessionVars>>

RouterFails(m) == CutAt(m, Step \ (Hop \cup {"status"}))

InformerFails(m) == CutAt(m, {"status"})

PeerFails(m) == CutAt(m, Hop)

Break(m) == RouterFails(m) \/ InformerFails(m) \/ PeerFails(m)

\* A connection on the way back to the client is lost: the client is told so,
\* the handlers beyond it go on.  Before the first proxy is called this is Break.
LoseConnection(m) ==
    /\ Running(m)
    /\ call[m].at \in Proxy \/ call[m].path # <<>>
    /\ Report(m, "err")
    /\ UNCHANGED <<call, routeVars, sessionVars>>

\* A controller sweep that ends several sessions at once is several of these.
SessionChange ==
    /\ \/ InMemory /\ \E c \in Unsteady : PutIndex(c)
       \/ \E key \in opening : PutSession(key)
       \/ ~InMemory /\ \E c \in Unsteady : OpenSession(c) \/ EndSessions({}, {c})
       \/ \E key \in sessions :
             /\ Owner(key) \in Unsteady
             /\ \/ EndSessions({key}, {})
                \/ InMemory /\ EndSessions({key}, {Owner(key)})
    /\ UNCHANGED <<call, deliveryVars, routeVars>>

Tick ==
    /\ RouteStoreTick
    /\ UNCHANGED <<call, deliveryVars, sessionVars>>

Sweep ==
    /\ kill_expired_routes
    /\ UNCHANGED <<call, deliveryVars, sessionVars>>

-----------------------------------------------------------------------------

Handle(m) ==
    \/ InitializeCheckSession(m)
    \/ InitializeGetSession(m)
    \/ InitializeConversation(m)
    \/ RouteCheckSession(m)
    \/ RouteCheckConversation(m)
    \/ RouteGetConversation(m)
    \/ RoutePickClient(m)
    \/ RoutePickProxy(m)
    \/ RouteStoreRoute(m)
    \/ RouteReadConversation(m)
    \/ RouteExecSetRoute(m)
    \/ Connect(m)
    \/ Authenticate(m)
    \/ RedeemCheckSession(m)
    \/ RedeemCheckConversation(m)
    \/ RedeemGetRoute(m)
    \/ RedeemRemoveRoute(m)
    \/ RedeemGetSource(m)
    \/ RedeemFinalize(m)
    \/ Execute(m)
    \/ Status(m)
    \/ Receive(m)
    \/ Reply(m)
    \/ ReturnError(m)

Next ==
    \/ \E m \in Sends : Submit(m) \/ Handle(m) \/ Break(m) \/ LoseConnection(m)
    \/ SessionChange
    \/ Tick
    \/ Sweep

Spec == Init /\ [][Next]_vars

\* The steps that wait for the session repository: to check or look up a
\* session, or at the authenticator of a proxy, which is held by a ping or
\* login that waits for it.
AsksSessions ==
    {"init", "init_unwrap", "route", "get_client", "get_proxies", "authenticate",
     "redeem", "status"}

\* In memory get_client and get_proxies may block that repository for ever (see
\* SweepEnds of RepositoryLocks), so these steps need not come to an end there.
WaitsForSessions(m) == InMemory /\ m \in DOMAIN call /\ call[m].pc \in AsksSessions

\* tokio polls every task and timer that is ready, and the locks of the route
\* repository are always granted; nothing else is sure to happen.
Fairness ==
    /\ \A m \in Sends : WF_vars(Handle(m) /\ ~WaitsForSessions(m))
    /\ WF_vars(Tick)
    /\ WF_vars(Sweep)

FairSpec == Spec /\ Fairness

-----------------------------------------------------------------------------
(* What makes the relay correct.                                           *)

\* The relay keeps the promise made to the users (MessageDelivery): a message
\* arrives once at most, only at its recipient, under its sender's name, and
\* is in the inbox before Commander::send_message returns Ok.
KeepsPromise == DeliverySpec

\* A message that LandingService::receive hands to the listener has been
\* through exactly HopLimit redeems by proxies, whatever was stored, swept or
\* lost meanwhile: no proxy is skipped and none hands a message to its recipient
\* early; and no command goes round for longer, also when Redis writes back an
\* old copy.
PassedEveryHop ==
    /\ \A m \in DOMAIN call : Len(call[m].path) <= HopLimit
    /\ \A c \in Client : \A i \in DOMAIN inbox[c] :
          Len(call[inbox[c][i].msg].path) = HopLimit

\* get_proxies leaves out the caller, so no proxy relays to itself, unless it
\* has logged in again: then it may be listed under a key it does not use yet.
NoHopToItself ==
    \A m \in DOMAIN call : \A i \in 1 .. Len(call[m].path) - 1 :
        call[m].path[i] = call[m].path[i + 1] => issued[call[m].path[i]] > 1

\* At any time at most the route just handed out waits to be redeemed: every
\* earlier one has been removed by redeem_route, also when the command failed.
\* (In memory; Redis keeps them, see RedeemedRoutesGo.)
OneRouteWaits ==
    InMemory => \A m \in Sends : \A i, j \in 1 .. HopLimit + 1 :
        /\ has_route(<<m, i>>) /\ has_route(<<m, j>>) => i = j
        /\ has_route(<<m, i>>) => i = call[m].hop

\* "after that, all routing information expire and is removed from the system"
\* (README.md): once a message is in the inbox the controller holds neither
\* its conversation nor, in memory, any of its routes.
NoTraceOfDelivered ==
    \A m \in Sends : IsDelivered(m) =>
        /\ ~has_conversation(m)
        /\ InMemory => \A i \in 1 .. HopLimit + 1 : ~has_route(<<m, i>>)

\* The same of the routes, whatever the repository: remove_route leaves no
\* route behind once the message it led on is in the inbox.
RedeemedRoutesGo ==
    \A m \in Sends : IsDelivered(m) =>
        \A i \in 1 .. HopLimit + 1 : ~has_route(<<m, i>>)

\* LandingService::receive never unwraps a missing source_info: whoever is
\* called by land_command redeems a route that was stored as an end route.
LandingFindsSource ==
    \A m \in DOMAIN call :
        At(m, "redeemed") /\ call[m].at \in Client =>
            call[m].source = command[m].from

\* A live conversation is taken away from a command under way by nothing but
\* its own redeem of the end route; only an expired one is swept, and Redis
\* drops one at the end of its time.
OnlyExpiryInterrupts ==
    [][\A m \in Sends :
          has_conversation(m) /\ ~has_conversation(m)' =>
              \/ IsExpired(conversations[m])
              \/ ~InMemory /\ conversations[m].left = 0
              \/ At(m, "finalize")]_vars

\* Every command that is typed is answered, with a result or an error, or else
\* waits for the locks of the sessions in memory; for nothing else, and in Redis
\* for nothing at all, does it wait for ever.
EveryCommandEnds ==
    \A m \in Sends :
        (m \in DOMAIN command) ~>
            \/ m \in DOMAIN outcome /\ outcome[m] # "pending"
            \/ []WaitsForSessions(m)

\* Routing data of commands that broke off is removed in the end, by the sweep
\* or by Redis, and so are the routes that redeem_route left there.
RoutingDataGoes ==
    \A m \in Sends :
        has_conversation(m) \/ (\E i \in 1 .. HopLimit + 1 : has_route(<<m, i>>))
            ~> ~has_conversation(m) /\ \A i \in 1 .. HopLimit + 1 : ~has_route(<<m, i>>)

\* Every unwrap of the handlers finds what the guard before it found.
NoHandlerPanics == \A m \in DOMAIN call : call[m].pc # "panicked"

=============================================================================
