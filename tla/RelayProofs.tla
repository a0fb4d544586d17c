---------------------------- MODULE RelayProofs -----------------------------
(***************************************************************************)
(* What Relay guarantees for any number of clients, proxies and commands,  *)
(* any hop limit and any TTLs.                                             *)
(***************************************************************************)
EXTENDS Relay, FiniteSetTheorems, TLAPS

-----------------------------------------------------------------------------
(* The inductive invariant.  CallOK says, for each stretch of the handlers,*)
(* where a command is, how far it has come and where it is led next; the   *)
(* other conjuncts tie the controller's maps and the inboxes to it.        *)

Early == {"init", "init_unwrap", "set_conversation"}

Asking == {"route", "route_conversation", "route_unwrap",
           "get_client", "get_proxies", "set_route", "exec_set_route"}

Redeeming == {"authenticate", "redeem", "redeem_conversation", "get_route",
              "remove_route"}

\* The steps at which the last route has been handed out and not redeemed.
Holding == {"connect"} \cup Redeeming

\* The steps at which the last route may still be waiting (in memory).
Waiting == {"failed"} \cup Holding

\* The h-th route leads to the recipient if it is the last, or to a proxy.
NextOK(r, q, h) ==
    /\ r.end => h = HopLimit + 1 /\ r.next = q.to /\ q.cmd = "Send"
    /\ ~r.end => h <= HopLimit /\ r.next \in Proxy

\* The command is with its recipient.
LandedOK(r, q) ==
    r.at = q.to /\ q.cmd = "Send" /\ Len(r.path) = HopLimit

HolderOK(r, q) ==
    /\ r.hop = Len(r.path) + 1
    /\ q.cmd = "Status" => r.hop = 1

CallOK(r, q) ==
    /\ Len(r.path) <= HopLimit
    /\ r.pc \in Early =>
          /\ r.hop = 0 /\ r.path = <<>>
          /\ r.at = q.from /\ Owner(r.key) = q.from
    /\ r.pc \in Asking =>
          /\ r.hop = Len(r.path) /\ r.hop <= HopLimit
          /\ r.at \in Client \/ q.cmd = "Status" => r.hop = 0
    /\ r.pc = "get_client" => r.hop = HopLimit
    /\ r.pc = "get_proxies" => r.hop # HopLimit
    /\ r.pc \in {"set_route", "exec_set_route"} => NextOK(r, q, r.hop + 1)
    /\ r.pc = "exec_set_route" =>
          /\ r.copy \in Conversations
          /\ r.copy.from = q.from /\ Len(r.copy.routes) = r.hop
    /\ r.pc = "connect" =>
          /\ HolderOK(r, q) /\ NextOK(r, q, r.hop)
          /\ r.at \in Client => r.hop = 1
    /\ r.pc \in Redeeming =>
          /\ HolderOK(r, q)
          /\ r.end => LandedOK(r, q)
          /\ ~r.end => r.hop <= HopLimit /\ r.at \in Proxy
    /\ r.pc = "authenticate" => ~r.end
    /\ r.pc \in {"source_unwrap", "finalize"} => LandedOK(r, q)
    /\ r.pc = "finalize" => r.source = q.from
    /\ r.pc = "redeemed" =>
          /\ r.at \in Client => LandedOK(r, q) /\ r.source = q.from
          /\ r.at \in Proxy => HolderOK(r, q) /\ r.hop <= HopLimit
    /\ r.pc = "status" => q.cmd = "Status"

CallsOK == \A m \in DOMAIN call : CallOK(call[m], command[m])

\* A route with nonce n, of a command whose record is r: Redis may hold earlier
\* ones, which say nothing about the last.
RouteOK(n, route, r) ==
    /\ n[2] <= r.hop
    /\ n[2] = r.hop /\ r.pc \in Holding => route.end_route = r.end
    /\ InMemory => n[2] = r.hop /\ r.pc \in Waiting

RoutesOK ==
    \A n \in DOMAIN routes :
        n[1] \in DOMAIN call /\ RouteOK(n, routes[n].value, call[n[1]])

\* The record r may follow the record q: what is known of routes stays true.
KeepsRoutes(q, r) ==
    /\ r.hop = q.hop
    /\ r.pc \in Holding => q.pc \in Holding /\ r.end = q.end
    /\ q.pc \in Waiting => r.pc \in Waiting

\* The record r of a command q whose conversation is still there.
OpenOK(r, q) ==
    /\ r.pc \notin Early
    /\ r.pc = "redeemed" => r.at \in Proxy
    /\ r.pc \in {"reply", "done"} => q.cmd = "Status"

ConversationsOK ==
    \A m \in DOMAIN conversations :
        /\ m \in DOMAIN call
        /\ conversations[m].value.from = command[m].from
        /\ Len(conversations[m].value.routes) = call[m].hop
        /\ OpenOK(call[m], command[m])
        /\ ~IsDelivered(m)

\* The record r of a command whose message was handed to the listener.
HandedOK(r) == r.pc \in {"reply", "done", "failed"} /\ Len(r.path) = HopLimit

InboxOK ==
    \A c \in Client : \A i \in DOMAIN inbox[c] :
        LET m == inbox[c][i].msg
        IN  /\ m \in DOMAIN call
            /\ HandedOK(call[m])
            /\ command[m] = [cmd |-> "Send", from |-> inbox[c][i].from, to |-> c]
            /\ InMemory => \A n \in DOMAIN routes : n[1] # m

DeliveredOK ==
    \A m \in DOMAIN call :
        call[m].pc \in {"reply", "done"} /\ command[m].cmd = "Send" => IsDelivered(m)

OutcomeOK == \A m \in DOMAIN call : outcome[m] = "ok" => call[m].pc = "done"

Inv ==
    /\ TypeOK
    /\ CallsOK
    /\ RoutesOK
    /\ ConversationsOK
    /\ InboxOK
    /\ DeliveredOK
    /\ OutcomeOK

-----------------------------------------------------------------------------
(* Facts the step lemmas share.                                            *)

\* A command in an inbox has been answered by LandingService::receive.
LEMMA Handed ==
    ASSUME Inv, NEW m, IsDelivered(m)
    PROVE  /\ m \in DOMAIN call
           /\ HandedOK(call[m])
           /\ InMemory => \A n \in DOMAIN routes : n[1] # m
  <1>1. PICK c \in Client : \E i \in DOMAIN inbox[c] : inbox[c][i].msg = m
    BY DEF IsDelivered
  <1>2. PICK i \in DOMAIN inbox[c] : inbox[c][i].msg = m
    BY <1>1
  <1> QED BY <1>2, Zenon DEF Inv, InboxOK

\* A step of the chain of m that touches nothing but the chain: what has to be
\* shown of its new record r.
LEMMA ChainStep ==
    ASSUME Inv, NEW m \in DOMAIN call, NEW r \in Calls,
           call' = [call EXCEPT ![m] = r],
           UNCHANGED <<deliveryVars, routeVars, sessionVars>>,
           CallOK(r, command[m]),
           KeepsRoutes(call[m], r),
           m \in DOMAIN conversations => OpenOK(r, command[m]),
           IsDelivered(m) => HandedOK(r),
           r.pc \in {"reply", "done"} /\ command[m].cmd = "Send" => IsDelivered(m),
           outcome[m] = "ok" => r.pc = "done"
    PROVE  Inv'
  <1> USE DEF deliveryVars, routeVars, sessionVars
  <1>1. DOMAIN call' = DOMAIN call /\ call'[m] = r
        /\ \A n \in DOMAIN call : n # m => call'[n] = call[n]
    BY DEF Inv, TypeOK
  <1>2. TypeOK'
    BY <1>1 DEF Inv, TypeOK, RouteStoreTypeOK, RegistryTypeOK, IsMap
  <1>3. CallsOK'
    BY <1>1 DEF Inv, CallsOK
  <1>4. RoutesOK'
    BY <1>1 DEF Inv, RoutesOK, RouteOK, KeepsRoutes, InMemory
  <1>5. ConversationsOK'
    BY <1>1 DEF Inv, ConversationsOK, IsDelivered, KeepsRoutes
  <1>6. InboxOK'
    BY <1>1 DEF Inv, InboxOK, IsDelivered, InMemory
  <1>7. DeliveredOK'
    BY <1>1 DEF Inv, DeliveredOK, IsDelivered
  <1>8. OutcomeOK'
    BY <1>1 DEF Inv, OutcomeOK
  <1> QED BY <1>2, <1>3, <1>4, <1>5, <1>6, <1>7, <1>8 DEF Inv

-----------------------------------------------------------------------------
(* Every step keeps the invariant.  First the steps that only read.        *)

\* The two ends that a step may give to a chain that is under way.
LEMMA EndStep ==
    ASSUME Inv, NEW m \in DOMAIN call, call[m].pc \in Step,
           NEW end \in {"failed", "panicked"},
           end = "panicked" => call[m].pc \notin Waiting \cup {"reply"},
           call' = [call EXCEPT ![m].pc = end],
           UNCHANGED <<deliveryVars, routeVars, sessionVars>>
    PROVE  Inv'
  <1> DEFINE r == [call[m] EXCEPT !.pc = end]
  <1>1. call[m] \in Calls
    BY DEF Inv, TypeOK
  <1>2. r \in Calls /\ r.pc = end /\ r.hop = call[m].hop /\ r.end = call[m].end
        /\ r.path = call[m].path
    BY <1>1 DEF Calls, Ended
  <1>3. call' = [call EXCEPT ![m] = r]
    BY DEF Inv, TypeOK
  <1>4. CallOK(r, command[m])
    BY <1>2 DEF Inv, CallsOK, CallOK, Early, Asking, Redeeming
  <1>5. KeepsRoutes(call[m], r)
    BY <1>2 DEF KeepsRoutes, Waiting, Holding, Redeeming
  <1>6. OpenOK(r, command[m])
    BY <1>2 DEF OpenOK, Early
  <1>7. IsDelivered(m) => HandedOK(r)
    BY <1>2, Handed DEF HandedOK, Step
  <1>8. outcome[m] # "ok"
    BY DEF Inv, OutcomeOK, Step
  <1> HIDE DEF r
  <1> QED BY <1>2, <1>3, <1>4, <1>5, <1>6, <1>7, <1>8, ChainStep

\* A step that moves a chain on, with what its new record has to keep.
LEMMA MoveStep ==
    ASSUME Inv, NEW m \in DOMAIN call, NEW r \in Calls,
           call[m].pc \in Step \ {"reply"},
           r.pc \in Step \ {"reply"},
           call' = [call EXCEPT ![m] = r],
           UNCHANGED <<deliveryVars, routeVars, sessionVars>>,
           CallOK(r, command[m]),
           KeepsRoutes(call[m], r),
           m \in DOMAIN conversations => OpenOK(r, command[m])
    PROVE  Inv'
  <1>2. ~IsDelivered(m)
    BY Handed DEF HandedOK, Step
  <1>3. outcome[m] # "ok"
    BY DEF Inv, OutcomeOK, Step
  <1>4. r.pc \notin {"reply", "done"}
    BY DEF Step
  <1> QED BY <1>2, <1>3, <1>4, ChainStep

\* The guards of the handlers: only pc changes, within one stretch.
GuardMoves ==
    {<<"init", "init_unwrap", "failed">>,
     <<"init_unwrap", "set_conversation", "panicked">>,
     <<"route", "route_conversation", "failed">>,
     <<"route_conversation", "route_unwrap", "failed">>,
     <<"redeem", "redeem_conversation", "failed">>,
     <<"redeem_conversation", "get_route", "failed">>}

\* A guard of a handler lets the chain go on within its stretch, or ends it.
LEMMA GuardStep ==
    ASSUME Inv, NEW m \in DOMAIN call, NEW pc, NEW then, NEW otherwise,
           <<pc, then, otherwise>> \in GuardMoves,
           call[m].pc = pc,
           \/ call' = [call EXCEPT ![m].pc = then]
           \/ call' = [call EXCEPT ![m].pc = otherwise],
           UNCHANGED <<deliveryVars, routeVars, sessionVars>>
    PROVE  Inv'
  <1> DEFINE r == [call[m] EXCEPT !.pc = then]
  <1>1. /\ pc \in Step \ {"reply"} /\ then \in Step \ {"reply"}
        /\ otherwise \in {"failed", "panicked"}
        /\ otherwise = "panicked" => pc \notin Waiting
        /\ pc \in Waiting <=> then \in Waiting
        /\ pc \in Holding <=> then \in Holding
    BY DEF GuardMoves, Step, Waiting, Holding, Redeeming
  <1>2. call[m] \in Calls /\ CallOK(call[m], command[m])
    BY DEF Inv, TypeOK, CallsOK
  <1>4. CASE call' = [call EXCEPT ![m].pc = otherwise]
    BY <1>1, <1>4, EndStep
  <1>5. CASE call' = [call EXCEPT ![m].pc = then]
    <2>1. /\ r \in Calls /\ r.pc = then /\ r.hop = call[m].hop /\ r.end = call[m].end
          /\ r.path = call[m].path /\ r.at = call[m].at /\ r.key = call[m].key
      BY <1>1, <1>2 DEF Calls
    <2>2. call' = [call EXCEPT ![m] = r]
      BY <1>5 DEF Inv, TypeOK
    <2>3. CallOK(r, command[m])
      BY <1>2, <2>1 DEF CallOK, GuardMoves, Early, Asking, Redeeming,
            HolderOK, LandedOK
    <2>4. m \in DOMAIN conversations => OpenOK(r, command[m])
      BY <2>1 DEF Inv, ConversationsOK, OpenOK, GuardMoves, Early
    <2>5. KeepsRoutes(call[m], r)
      BY <1>1, <2>1 DEF KeepsRoutes
    <2> HIDE DEF r
    <2> QED BY <1>1, <2>1, <2>2, <2>3, <2>4, <2>5, MoveStep
  <1> QED BY <1>4, <1>5

\* guards::check_session and guards::check_conversation, and the unwrap after
\* the first check_session of initialize: each is a guard step.
LEMMA GuardsKeep ==
    ASSUME Inv, NEW m \in Sends,
           \/ InitializeCheckSession(m) \/ InitializeGetSession(m)
           \/ RouteCheckSession(m) \/ RouteCheckConversation(m)
           \/ RedeemCheckSession(m) \/ RedeemCheckConversation(m)
    PROVE  Inv'
  <1> USE DEF Ask, At, CheckSession, CheckConversation
  <1>1. CASE InitializeCheckSession(m)
    <2>1. <<"init", "init_unwrap", "failed">> \in GuardMoves
      BY DEF GuardMoves
    <2> QED BY <1>1, <2>1, GuardStep DEF InitializeCheckSession
  <1>2. CASE InitializeGetSession(m)
    <2>1. <<"init_unwrap", "set_conversation", "panicked">> \in GuardMoves
      BY DEF GuardMoves
    <2> QED BY <1>2, <2>1, GuardStep DEF InitializeGetSession
  <1>3. CASE RouteCheckSession(m)
    <2>1. <<"route", "route_conversation", "failed">> \in GuardMoves
      BY DEF GuardMoves
    <2> QED BY <1>3, <2>1, GuardStep DEF RouteCheckSession
  <1>4. CASE RouteCheckConversation(m)
    <2>1. <<"route_conversation", "route_unwrap", "failed">> \in GuardMoves
      BY DEF GuardMoves
    <2> QED BY <1>4, <2>1, GuardStep DEF RouteCheckConversation
  <1>5. CASE RedeemCheckSession(m)
    <2>1. <<"redeem", "redeem_conversation", "failed">> \in GuardMoves
      BY DEF GuardMoves
    <2> QED BY <1>5, <2>1, GuardStep DEF RedeemCheckSession
  <1>6. CASE RedeemCheckConversation(m)
    <2>1. <<"redeem_conversation", "get_route", "failed">> \in GuardMoves
      BY DEF GuardMoves
    <2> QED BY <1>6, <2>1, GuardStep DEF RedeemCheckConversation
  <1> QED BY <1>1, <1>2, <1>3, <1>4, <1>5, <1>6

\* get_conversation(..).unwrap() of the route handler: which kind of member is
\* asked for is decided by the number of routes stored, which is hop.
LEMMA RouteGetConversationKeeps ==
    ASSUME Inv, NEW m \in Sends, RouteGetConversation(m)
    PROVE  Inv'
  <1> DEFINE pc == IF HasReachedFinalRoute(get_conversation(m))
                   THEN "get_client" ELSE "get_proxies"
             r == [call[m] EXCEPT !.pc = pc]
  <1>1. /\ m \in DOMAIN call /\ call[m].pc = "route_unwrap"
        /\ UNCHANGED <<deliveryVars, routeVars, sessionVars>>
    BY DEF RouteGetConversation, At
  <1>2. call[m] \in Calls /\ CallOK(call[m], command[m])
    BY <1>1 DEF Inv, TypeOK, CallsOK
  <1>3. call[m].pc \in Step \ {"reply"} /\ call[m].pc \notin Waiting
    BY <1>1 DEF Step, Waiting, Holding, Redeeming
  <1>4. CASE ~has_conversation(m)
    <2>1. call' = [call EXCEPT ![m].pc = "panicked"]
      BY <1>4 DEF RouteGetConversation
    <2> QED BY <1>1, <1>3, <2>1, EndStep
  <1>5. CASE has_conversation(m)
    <2>1. call' = [call EXCEPT ![m] = r]
      BY <1>1, <1>5 DEF RouteGetConversation, Inv, TypeOK
    <2>2. /\ r \in Calls /\ r.pc = pc /\ r.hop = call[m].hop /\ r.path = call[m].path
          /\ r.at = call[m].at
      BY <1>2 DEF Calls, Step
    <2>3. pc = "get_client" <=> call[m].hop = HopLimit
      BY <1>5 DEF Inv, ConversationsOK, has_conversation, get_conversation,
            HasReachedFinalRoute
    <2>4. CallOK(r, command[m])
      BY <1>1, <1>2, <2>2, <2>3 DEF CallOK, Early, Asking, Redeeming
    <2>5. OpenOK(r, command[m]) /\ KeepsRoutes(call[m], r)
      BY <1>3, <2>2 DEF OpenOK, Early, KeepsRoutes, Holding, Redeeming
    <2>6. r.pc \in Step \ {"reply"}
      BY <2>2 DEF Step
    <2> HIDE DEF r, pc
    <2> QED BY <1>1, <1>3, <2>1, <2>2, <2>4, <2>5, <2>6, MoveStep
  <1> QED BY <1>4, <1>5

\* handle_route's session: the recipient after HopLimit routes, else a proxy.
LEMMA PickNextKeeps ==
    ASSUME Inv, NEW m \in DOMAIN call, NEW unwraps, NEW candidates,
           NEW end \in BOOLEAN,
           call[m].pc \in {"get_client", "get_proxies"},
           PickNext(m, unwraps, candidates, end),
           end => /\ call[m].pc = "get_client"
                  /\ \A c \in candidates : c \in Client /\ c = command[m].to,
           ~end => /\ call[m].pc = "get_proxies"
                   /\ candidates \subseteq Proxy
    PROVE  Inv'
  <1>1. UNCHANGED <<deliveryVars, routeVars, sessionVars>>
    BY DEF PickNext
  <1>2. /\ call[m] \in Calls /\ CallOK(call[m], command[m])
        /\ m \in DOMAIN command /\ command[m] \in Commands
    BY DEF Inv, TypeOK, CallsOK, IsMap
  <1>3. call[m].pc \in Step \ {"reply"} /\ call[m].pc \notin Waiting
    BY DEF Step, Waiting, Holding, Redeeming
  <1>4. CASE \E e \in {"failed", "panicked"} : call' = [call EXCEPT ![m].pc = e]
    BY <1>1, <1>3, <1>4, EndStep
  <1>5. ASSUME NEW c \in candidates,
               call' = [call EXCEPT ![m].pc = "set_route", ![m].next = c,
                                    ![m].end = end]
        PROVE  Inv'
    <2> DEFINE r == [call[m] EXCEPT !.pc = "set_route", !.next = c, !.end = end]
    <2>1. call' = [call EXCEPT ![m] = r]
      BY <1>5 DEF Inv, TypeOK
    <2>2. c \in Client \cup Proxy
      OBVIOUS
    <2>3. /\ r \in Calls /\ r.pc = "set_route" /\ r.hop = call[m].hop
          /\ r.path = call[m].path /\ r.at = call[m].at /\ r.next = c /\ r.end = end
      BY <1>2, <2>2 DEF Calls, Step
    <2>4. call[m].hop = Len(call[m].path) /\ call[m].hop <= HopLimit /\ call[m].hop \in Nat
          /\ (call[m].at \in Client \/ command[m].cmd = "Status" => call[m].hop = 0)
          /\ (call[m].pc = "get_client" => call[m].hop = HopLimit)
          /\ (call[m].pc = "get_proxies" => call[m].hop # HopLimit)
      BY <1>2 DEF CallOK, Asking, Calls
    <2>5. NextOK(r, command[m], r.hop + 1)
      BY <1>2, <2>3, <2>4, RelayAssumption DEF NextOK, Commands
    <2>6. CallOK(r, command[m])
      BY <1>2, <2>3, <2>4, <2>5 DEF CallOK, Early, Asking, Redeeming
    <2>7. OpenOK(r, command[m]) /\ r.pc \in Step \ {"reply"} /\ KeepsRoutes(call[m], r)
      BY <1>3, <2>3 DEF OpenOK, Early, Step, KeepsRoutes, Holding, Redeeming
    <2> HIDE DEF r
    <2> QED BY <1>1, <1>3, <2>1, <2>3, <2>6, <2>7, MoveStep
  <1> QED BY <1>4, <1>5 DEF PickNext

\* get_client names the recipient of the conversation, or nobody.
LEMMA RoutePickClientKeeps ==
    ASSUME Inv, NEW m \in Sends, RoutePickClient(m)
    PROVE  Inv'
  BY PickNextKeeps DEF RoutePickClient, At

\* Whatever the order of the listing and the random index, a listed proxy.
LEMMA NextProxiesListed ==
    ASSUME NEW key
    PROVE  NextProxies(key) \subseteq ListedProxies(key)
  <1> DEFINE S == ListedProxies(key)
  <1> SUFFICES ASSUME S # {}, NEW s \in Listings(S), NEW p \in GetNextRoute(s)
               PROVE  p \in S
    BY DEF NextProxies
  <1>1. IsFiniteSet(S)
    BY RelayAssumption, FS_Subset DEF ListedProxies
  <1>2. Cardinality(S) \in Nat \ {0}
    BY <1>1, FS_CardinalityType, FS_EmptySet
  <1> DEFINE n == Cardinality(S)
  <1> HIDE DEF S, n
  <1>3. s \in [1 .. n -> S] /\ Len(s) = n
    BY <1>2 DEF Listings, n
  <1>4. PICK i \in IF 0 .. n - 2 = {} THEN {0} ELSE 0 .. n - 2 : p = s[i + 1]
    BY <1>3 DEF GetNextRoute
  <1>5. i + 1 \in 1 .. n
    BY <1>2, <1>4 DEF n
  <1> QED BY <1>3, <1>4, <1>5

\* get_proxies and get_next_route name a proxy, or nobody.
LEMMA RoutePickProxyKeeps ==
    ASSUME Inv, NEW m \in Sends, RoutePickProxy(m)
    PROVE  Inv'
  <1>1. NextProxies(call[m].key) \subseteq Proxy
    BY NextProxiesListed DEF ListedProxies
  <1> QED BY <1>1, PickNextKeeps DEF RoutePickProxy, At

\* The caller takes the route: an end route leads from a proxy to the recipient.
LEMMA ConnectKeeps ==
    ASSUME Inv, NEW m \in Sends, Connect(m)
    PROVE  Inv'
  <1> DEFINE pc == IF call[m].end /\ call[m].at \in Proxy THEN "redeem" ELSE "authenticate"
             r == [call[m] EXCEPT !.at = call[m].next, !.pc = pc]
  <1>1. /\ m \in DOMAIN call /\ call[m].pc = "connect"
        /\ UNCHANGED <<deliveryVars, routeVars, sessionVars>>
        /\ call' = [call EXCEPT ![m].at = call[m].next, ![m].pc = pc]
    BY DEF Connect, At
  <1>2. /\ call[m] \in Calls /\ CallOK(call[m], command[m])
        /\ m \in DOMAIN command /\ command[m] \in Commands
    BY <1>1 DEF Inv, TypeOK, CallsOK, IsMap
  <1>3. /\ HolderOK(call[m], command[m]) /\ NextOK(call[m], command[m], call[m].hop)
        /\ call[m].at \in Client => call[m].hop = 1
    BY <1>1, <1>2 DEF CallOK
  <1>4. call[m].next \in Client \cup Proxy
    BY <1>2, <1>3 DEF NextOK, Calls, Commands
  <1>5. call' = [call EXCEPT ![m] = r]
    BY <1>1 DEF Inv, TypeOK
  <1>7. pc \in {"redeem", "authenticate"} /\ (call[m].end => pc = "redeem")
    BY <1>2, <1>3, RelayAssumption DEF NextOK, Calls
  <1>a. pc = "redeem" => call[m].end
    OBVIOUS
  <1> HIDE DEF pc
  <1>6. /\ r \in Calls /\ r.pc = pc /\ r.hop = call[m].hop /\ r.end = call[m].end
        /\ r.path = call[m].path /\ r.at = call[m].next
    BY <1>2, <1>4, <1>7 DEF Calls, Step
  <1>8. CallOK(r, command[m])
    <2>1. call[m].hop \in Nat /\ Len(call[m].path) \in Nat
      BY <1>2 DEF Calls
    <2> QED BY <1>2, <1>3, <1>6, <1>7, <1>a, <2>1, RelayAssumption
            DEF CallOK, Early, Asking, Redeeming, HolderOK, NextOK, LandedOK
  <1>9. /\ KeepsRoutes(call[m], r) /\ OpenOK(r, command[m]) /\ r.pc \in Step \ {"reply"}
        /\ call[m].pc \in Step \ {"reply"}
    BY <1>1, <1>6, <1>7 DEF KeepsRoutes, Waiting, Holding, Redeeming, OpenOK, Early, Step
  <1> HIDE DEF r
  <1> QED BY <1>1, <1>5, <1>6, <1>8, <1>9, MoveStep

\* check_authentication only exchanges the access key.
LEMMA AuthenticateKeeps ==
    ASSUME Inv, NEW m \in Sends, Authenticate(m)
    PROVE  Inv'
  <1>1. /\ m \in DOMAIN call /\ call[m].pc = "authenticate"
        /\ UNCHANGED <<deliveryVars, routeVars, sessionVars>>
    BY DEF Authenticate, At
  <1>2. call[m] \in Calls /\ CallOK(call[m], command[m])
    BY <1>1 DEF Inv, TypeOK, CallsOK
  <1>3. call[m].pc \in Step \ {"reply"}
    BY <1>1 DEF Step
  <1>4. CASE call' = [call EXCEPT ![m].pc = "failed"]
    BY <1>1, <1>3, <1>4, EndStep
  <1>5. ASSUME NEW key \in KeysGivenTo(call[m].at),
               call' = [call EXCEPT ![m].pc = "redeem", ![m].key = key]
        PROVE  Inv'
    <2> DEFINE r == [call[m] EXCEPT !.pc = "redeem", !.key = key]
    <2>1. call' = [call EXCEPT ![m] = r]
      BY <1>1, <1>5 DEF Inv, TypeOK
    <2>2. key \in AccessKey
      BY DEF KeysGivenTo
    <2>3. /\ r \in Calls /\ r.pc = "redeem" /\ r.hop = call[m].hop
          /\ r.path = call[m].path /\ r.at = call[m].at /\ r.end = call[m].end
      BY <1>2, <2>2 DEF Calls, Step
    <2>4. CallOK(r, command[m])
      BY <1>1, <1>2, <2>3 DEF CallOK, Early, Asking, Redeeming, HolderOK, LandedOK
    <2>5. KeepsRoutes(call[m], r) /\ OpenOK(r, command[m]) /\ r.pc \in Step \ {"reply"}
      BY <1>1, <2>3 DEF KeepsRoutes, Waiting, Holding, Redeeming, OpenOK, Early, Step
    <2> HIDE DEF r
    <2> QED BY <1>1, <1>3, <2>1, <2>3, <2>4, <2>5, MoveStep
  <1> QED BY <1>4, <1>5 DEF Authenticate

\* The stored route says what the caller was told: end_route is end.
LEMMA RedeemGetRouteKeeps ==
    ASSUME Inv, NEW m \in Sends, RedeemGetRoute(m)
    PROVE  Inv'
  <1> DEFINE r == [call[m] EXCEPT !.pc = "remove_route",
                                  !.end = get_route(NonceOf(m)).end_route]
  <1>1. /\ m \in DOMAIN call /\ call[m].pc = "get_route"
        /\ UNCHANGED <<deliveryVars, routeVars, sessionVars>>
    BY DEF RedeemGetRoute, At
  <1>2. call[m] \in Calls /\ CallOK(call[m], command[m])
    BY <1>1 DEF Inv, TypeOK, CallsOK
  <1>3. call[m].pc \in Step \ {"reply"}
    BY <1>1 DEF Step
  <1>4. CASE ~has_route(NonceOf(m))
    <2>1. call' = [call EXCEPT ![m].pc = "failed"]
      BY <1>4 DEF RedeemGetRoute
    <2> QED BY <1>1, <1>3, <2>1, EndStep
  <1>5. CASE has_route(NonceOf(m))
    <2>1. call' = [call EXCEPT ![m] = r]
      BY <1>1, <1>5 DEF RedeemGetRoute, Inv, TypeOK
    <2>2. get_route(NonceOf(m)).end_route = call[m].end
      BY <1>1, <1>5 DEF has_route, get_route, NonceOf, Inv, RoutesOK, RouteOK,
            Holding, Redeeming
    <2>3. /\ r \in Calls /\ r.pc = "remove_route" /\ r.hop = call[m].hop
          /\ r.path = call[m].path /\ r.at = call[m].at /\ r.end = call[m].end
      BY <1>2, <2>2 DEF Calls, Step
    <2>4. CallOK(r, command[m])
      BY <1>1, <1>2, <2>3 DEF CallOK, Early, Asking, Redeeming, HolderOK, LandedOK
    <2>5. KeepsRoutes(call[m], r) /\ OpenOK(r, command[m]) /\ r.pc \in Step \ {"reply"}
      BY <1>1, <2>3 DEF KeepsRoutes, Waiting, Holding, Redeeming, OpenOK, Early, Step
    <2> HIDE DEF r
    <2> QED BY <1>1, <1>3, <2>1, <2>3, <2>4, <2>5, MoveStep
  <1> QED BY <1>4, <1>5

\* get_source: the conversation that is still there names the sender.
LEMMA RedeemGetSourceKeeps ==
    ASSUME Inv, NEW m \in Sends, RedeemGetSource(m)
    PROVE  Inv'
  <1> DEFINE r == [call[m] EXCEPT !.pc = "finalize",
                                  !.source = get_conversation(m).from]
  <1>1. /\ m \in DOMAIN call /\ call[m].pc = "source_unwrap"
        /\ UNCHANGED <<deliveryVars, routeVars, sessionVars>>
    BY DEF RedeemGetSource, At
  <1>2. /\ call[m] \in Calls /\ CallOK(call[m], command[m])
        /\ m \in DOMAIN command /\ command[m] \in Commands
    BY <1>1 DEF Inv, TypeOK, CallsOK, IsMap
  <1>3. call[m].pc \in Step \ {"reply"} /\ call[m].pc \notin Waiting
    BY <1>1 DEF Step, Waiting, Holding, Redeeming
  <1>4. CASE ~has_conversation(m)
    <2>1. call' = [call EXCEPT ![m].pc = "panicked"]
      BY <1>4 DEF RedeemGetSource
    <2> QED BY <1>1, <1>3, <2>1, EndStep
  <1>5. CASE has_conversation(m)
    <2>1. call' = [call EXCEPT ![m] = r]
      BY <1>1, <1>5 DEF RedeemGetSource, Inv, TypeOK
    <2>2. get_conversation(m).from = command[m].from
      BY <1>5 DEF has_conversation, get_conversation, Inv, ConversationsOK
    <2>3. command[m].from \in Client
      BY <1>2 DEF Commands
    <2>4. /\ r \in Calls /\ r.pc = "finalize" /\ r.hop = call[m].hop
          /\ r.path = call[m].path /\ r.at = call[m].at
          /\ r.source = command[m].from
      BY <1>2, <2>2, <2>3 DEF Calls, Step
    <2>5. CallOK(r, command[m])
      BY <1>1, <1>2, <2>4 DEF CallOK, Early, Asking, Redeeming, LandedOK
    <2>6. OpenOK(r, command[m]) /\ r.pc \in Step \ {"reply"} /\ KeepsRoutes(call[m], r)
      BY <1>3, <2>4 DEF OpenOK, Early, Step, KeepsRoutes, Holding, Redeeming
    <2> HIDE DEF r
    <2> QED BY <1>1, <1>3, <2>1, <2>4, <2>5, <2>6, MoveStep
  <1> QED BY <1>4, <1>5

\* execute_command: the proxy that redeemed is one more on the path.
LEMMA ExecuteKeeps ==
    ASSUME Inv, NEW m \in Sends, Execute(m)
    PROVE  Inv'
  <1> DEFINE pc == IF command[m].cmd = "Status" THEN "status" ELSE "route"
             r == [call[m] EXCEPT !.path = Append(call[m].path, call[m].at), !.pc = pc]
  <1>1. /\ m \in DOMAIN call /\ call[m].pc = "redeemed" /\ call[m].at \in Proxy
        /\ UNCHANGED <<deliveryVars, routeVars, sessionVars>>
    BY DEF Execute, At
  <1>2. call[m] \in Calls /\ CallOK(call[m], command[m])
    BY <1>1 DEF Inv, TypeOK, CallsOK
  <1>3. call[m].pc \in Step \ {"reply"} /\ call[m].pc \notin Waiting
    BY <1>1 DEF Step, Waiting, Holding, Redeeming
  <1>4. call' = [call EXCEPT ![m] = r]
    BY <1>1 DEF Execute, Inv, TypeOK
  <1>5. /\ pc \in {"status", "route"}
        /\ (pc = "status") <=> (command[m].cmd = "Status")
    OBVIOUS
  <1> HIDE DEF pc
  <1>6. call[m].path \in Seq(Proxy)
    BY <1>2 DEF Calls
  <1>7. /\ Append(call[m].path, call[m].at) \in Seq(Proxy)
        /\ Len(Append(call[m].path, call[m].at)) = Len(call[m].path) + 1
    BY <1>1, <1>6
  <1>8. /\ r \in Calls /\ r.pc = pc /\ r.hop = call[m].hop /\ r.at = call[m].at
        /\ Len(r.path) = Len(call[m].path) + 1
    BY <1>2, <1>5, <1>7 DEF Calls, Step
  <1>9. CallOK(r, command[m])
    <2>1. r.at \notin Client
      BY <1>1, <1>8, MemberAssumption
    <2>2. HolderOK(call[m], command[m]) /\ call[m].hop <= HopLimit
      BY <1>1, <1>2 DEF CallOK
    <2> QED BY <1>5, <1>8, <2>1, <2>2 DEF CallOK, Early, Asking, Redeeming, HolderOK
  <1>10. OpenOK(r, command[m]) /\ r.pc \in Step \ {"reply"} /\ KeepsRoutes(call[m], r)
    BY <1>3, <1>5, <1>8 DEF OpenOK, Early, Step, KeepsRoutes, Holding, Redeeming
  <1> HIDE DEF r
  <1> QED BY <1>1, <1>3, <1>4, <1>8, <1>9, <1>10, MoveStep

\* InfoService::status answers only a Status command.
LEMMA StatusKeeps ==
    ASSUME Inv, NEW m \in Sends, Status(m)
    PROVE  Inv'
  <1> USE DEF Status, CheckSession, Ask, At
  <1>1. /\ m \in DOMAIN call /\ call[m].pc = "status"
        /\ UNCHANGED <<deliveryVars, routeVars, sessionVars>>
    OBVIOUS
  <1>2. call[m] \in Calls /\ CallOK(call[m], command[m])
    BY <1>1 DEF Inv, TypeOK, CallsOK
  <1>3. call[m].pc \in Step /\ call[m].pc \notin Waiting
    BY <1>1 DEF Step, Waiting, Holding, Redeeming
  <1>4. CASE call' = [call EXCEPT ![m].pc = "failed"]
    BY <1>1, <1>3, <1>4, EndStep
  <1>5. CASE call' = [call EXCEPT ![m].pc = "reply"]
    <2> DEFINE r == [call[m] EXCEPT !.pc = "reply"]
    <2>1. call' = [call EXCEPT ![m] = r]
      BY <1>1, <1>5 DEF Inv, TypeOK
    <2>2. r \in Calls /\ r.pc = "reply" /\ r.hop = call[m].hop /\ r.path = call[m].path
      BY <1>2 DEF Calls, Step
    <2>3. command[m].cmd = "Status"
      BY <1>1, <1>2 DEF CallOK
    <2>4. CallOK(r, command[m]) /\ OpenOK(r, command[m])
      BY <1>2, <2>2, <2>3 DEF CallOK, OpenOK, Early, Asking, Redeeming
    <2>5. ~IsDelivered(m)
      BY <1>1, Handed DEF HandedOK
    <2>6. KeepsRoutes(call[m], r)
      BY <1>3, <2>2 DEF KeepsRoutes, Holding, Redeeming
    <2>7. outcome[m] # "ok"
      BY <1>1 DEF Inv, OutcomeOK
    <2> HIDE DEF r
    <2> QED BY <1>1, <2>1, <2>2, <2>3, <2>4, <2>5, <2>6, <2>7, ChainStep
  <1> QED BY <1>4, <1>5

\* A chain that is cut anywhere leaves its data behind, as EndStep allows.
LEMMA BreakKeeps ==
    ASSUME Inv, NEW m \in Sends, Break(m)
    PROVE  Inv'
  BY EndStep DEF Break, RouterFails, InformerFails, PeerFails, CutAt, Running

-----------------------------------------------------------------------------
(* The steps that write the controller's maps.                             *)

\* A step of the chain of m that also changes the routes and the conversation
\* of m, and of m alone: what has to be shown of them.
LEMMA StoreStep ==
    ASSUME Inv, NEW m \in DOMAIN call, NEW r \in Calls,
           call[m].pc \in Step \ {"reply"},
           r.pc \in (Step \ {"reply"}) \cup {"failed"},
           call' = [call EXCEPT ![m] = r],
           UNCHANGED <<deliveryVars, sessionVars, repository_type>>,
           RouteStoreTypeOK',
           CallOK(r, command[m]),
           \A n \in DOMAIN routes' :
               \/ n[1] # m /\ n \in DOMAIN routes /\ routes'[n] = routes[n]
               \/ n[1] = m /\ RouteOK(n, routes'[n].value, r),
           \A id \in DOMAIN conversations' :
               \/ /\ id # m /\ id \in DOMAIN conversations
                  /\ conversations'[id] = conversations[id]
               \/ /\ id = m
                  /\ conversations'[id].value.from = command[m].from
                  /\ Len(conversations'[id].value.routes) = r.hop
                  /\ OpenOK(r, command[m])
    PROVE  Inv'
  <1> USE DEF deliveryVars, sessionVars
  <1>1. DOMAIN call' = DOMAIN call /\ call'[m] = r
        /\ \A n \in DOMAIN call : n # m => call'[n] = call[n]
    BY DEF Inv, TypeOK
  <1>2. ~IsDelivered(m)
    BY Handed DEF HandedOK, Step
  <1>3. \A id : IsDelivered(id)' <=> IsDelivered(id)
    BY DEF IsDelivered
  <1>4. TypeOK'
    BY <1>1 DEF Inv, TypeOK, RegistryTypeOK, IsMap
  <1>5. CallsOK'
    BY <1>1 DEF Inv, CallsOK
  <1>6. RoutesOK'
    <2> SUFFICES ASSUME NEW n \in DOMAIN routes'
                 PROVE  /\ n[1] \in DOMAIN call
                        /\ RouteOK(n, routes'[n].value, call'[n[1]])
      BY <1>1 DEF RoutesOK, RouteOK, InMemory
    <2>1. CASE n[1] = m
      BY <1>1, <2>1
    <2>2. CASE n[1] # m
      BY <1>1, <2>2 DEF Inv, RoutesOK
    <2> QED BY <2>1, <2>2
  <1>7. ConversationsOK'
    <2> SUFFICES ASSUME NEW id \in DOMAIN conversations'
                 PROVE  /\ id \in DOMAIN call
                        /\ conversations'[id].value.from = command[id].from
                        /\ Len(conversations'[id].value.routes) = call'[id].hop
                        /\ OpenOK(call'[id], command[id])
                        /\ ~IsDelivered(id)
      BY <1>1, <1>3 DEF ConversationsOK
    <2>1. CASE id = m
      BY <1>1, <1>2, <2>1
    <2>2. CASE id # m
      BY <1>1, <2>2 DEF Inv, ConversationsOK
    <2> QED BY <2>1, <2>2
  <1>8. InboxOK'
    <2>1. \A c \in Client : \A i \in DOMAIN inbox[c] : inbox[c][i].msg # m
      BY <1>2 DEF IsDelivered
    <2>2. \A n \in DOMAIN routes' : n[1] = m \/ n \in DOMAIN routes
      OBVIOUS
    <2> QED BY <1>1, <2>1, <2>2 DEF Inv, InboxOK, InMemory
  <1>9. DeliveredOK'
    BY <1>1, <1>3 DEF Inv, DeliveredOK, Step
  <1>10. OutcomeOK'
    BY <1>1 DEF Inv, OutcomeOK, Step
  <1> QED BY <1>4, <1>5, <1>6, <1>7, <1>8, <1>9, <1>10 DEF Inv

\* Routes that a step does not touch.
LEMMA RoutesStay ==
    ASSUME Inv, NEW m \in DOMAIN call, NEW r, KeepsRoutes(call[m], r), routes' = routes
    PROVE  \A n \in DOMAIN routes' :
              \/ n[1] # m /\ n \in DOMAIN routes /\ routes'[n] = routes[n]
              \/ n[1] = m /\ RouteOK(n, routes'[n].value, r)
  BY DEF Inv, RoutesOK, RouteOK, KeepsRoutes

\* HashMap::insert and remove keep the type of a map.
LEMMA MapUpdates ==
    ASSUME NEW K, NEW V, NEW map, IsMap(map, K, V)
    PROVE  /\ \A k \in K, v \in V : IsMap(Insert(map, k, v), K, V)
           /\ \A k : IsMap(Remove(map, k), K, V)
           /\ \A k \in DOMAIN map : map[k] \in V
  BY DEF IsMap, Insert, Remove

\* The conversation starts with no routes, under the name of the member whose
\* access key was shown: the client that typed the command.
LEMMA InitializeConversationKeeps ==
    ASSUME Inv, NEW m \in Sends, InitializeConversation(m)
    PROVE  Inv'
  <1> DEFINE r == [call[m] EXCEPT !.pc = "route"]
             w == Wrap([from |-> Owner(call[m].key), to |-> command[m].to,
                        routes |-> <<>>], CONVERSATIONS_EXPIRATION_TIME)
  <1>1. /\ m \in DOMAIN call /\ call[m].pc = "set_conversation"
        /\ UNCHANGED <<deliveryVars, sessionVars>>
        /\ conversations' = Insert(conversations, m, w)
        /\ UNCHANGED <<routes, repository_type>>
    BY DEF InitializeConversation, At, set_conversation, NewConversation
  <1>2. /\ call[m] \in Calls /\ CallOK(call[m], command[m])
        /\ m \in DOMAIN command /\ command[m] \in Commands
    BY <1>1 DEF Inv, TypeOK, CallsOK, IsMap
  <1>3. call[m].pc \in Step \ {"reply"} /\ call[m].pc \notin Waiting
    BY <1>1 DEF Step, Waiting, Holding, Redeeming
  <1>4. call' = [call EXCEPT ![m] = r]
    BY <1>1 DEF InitializeConversation, Inv, TypeOK
  <1>5. /\ r \in Calls /\ r.pc = "route" /\ r.hop = 0 /\ r.path = <<>>
        /\ r.pc \in Step \ {"reply"}
        /\ Owner(call[m].key) = command[m].from
    BY <1>1, <1>2 DEF Calls, Step, CallOK, Early
  <1>6. /\ w \in Wrappers(Conversations, CONVERSATIONS_EXPIRATION_TIME)
        /\ w.value.from = command[m].from
        /\ w.value.routes = <<>>
    <2>1. command[m].from \in Client /\ command[m].to \in Client \cup {CONTROLLER_UID}
      BY <1>2 DEF Commands
    <2> QED BY <1>5, <2>1, TTLAssumption DEF Wrap, Wrappers, Conversations, Member
  <1> HIDE DEF w
  <1>7. RouteStoreTypeOK'
    BY <1>1, <1>6, MapUpdates DEF Inv, TypeOK, RouteStoreTypeOK, ConversationId
  <1>8. CallOK(r, command[m]) /\ OpenOK(r, command[m])
    BY <1>5, RelayAssumption DEF CallOK, OpenOK, Early, Asking, Redeeming
  <1>9. KeepsRoutes(call[m], r)
    <2>1. call[m].hop = 0
      BY <1>1, <1>2 DEF CallOK, Early
    <2> QED BY <1>3, <1>5, <2>1 DEF KeepsRoutes, Holding, Redeeming
  <1>10. Len(w.value.routes) = 0
    BY <1>6
  <1> HIDE DEF r
  <1>11. \A id \in DOMAIN conversations' :
            \/ /\ id # m /\ id \in DOMAIN conversations
               /\ conversations'[id] = conversations[id]
            \/ /\ id = m
               /\ conversations'[id].value.from = command[m].from
               /\ Len(conversations'[id].value.routes) = r.hop
               /\ OpenOK(r, command[m])
    BY <1>1, <1>5, <1>6, <1>8, <1>10 DEF Insert
  <1>12. \A n \in DOMAIN routes' :
            \/ n[1] # m /\ n \in DOMAIN routes /\ routes'[n] = routes[n]
            \/ n[1] = m /\ RouteOK(n, routes'[n].value, r)
    BY <1>1, <1>9, RoutesStay
  <1> QED BY <1>1, <1>3, <1>4, <1>5, <1>7, <1>8, <1>11, <1>12, StoreStep

\* store_route: the route of the next hop waits, and is the only one.
LEMMA RouteStoreRouteKeeps ==
    ASSUME Inv, NEW m \in Sends, RouteStoreRoute(m)
    PROVE  Inv'
  <1> DEFINE pc == IF has_conversation(m) THEN "connect" ELSE "failed"
             r == [call[m] EXCEPT !.hop = call[m].hop + 1, !.pc = pc]
             nonce == <<m, call[m].hop + 1>>
             route == [target |-> call[m].next, end_route |-> call[m].end]
             w == Wrap(route, ROUTES_EXPIRATION_TIME)
  <1>1. /\ m \in DOMAIN call /\ call[m].pc = "set_route" /\ InMemory
        /\ UNCHANGED <<deliveryVars, sessionVars, repository_type>>
        /\ routes' = Insert(routes, nonce, w)
        /\ conversations' =
              IF has_conversation(m)
              THEN [conversations EXCEPT ![m].value.routes = Append(@, route)]
              ELSE conversations
    BY DEF RouteStoreRoute, At, set_route, NewNonce, NewRoute
  <1>2. /\ call[m] \in Calls /\ CallOK(call[m], command[m])
        /\ m \in DOMAIN command /\ command[m] \in Commands
    BY <1>1 DEF Inv, TypeOK, CallsOK, IsMap
  <1>3. call[m].pc \in Step \ {"reply"} /\ call[m].pc \notin Waiting
    BY <1>1 DEF Step, Waiting, Holding, Redeeming
  <1>4. call' = [call EXCEPT ![m] = r]
    BY <1>1 DEF RouteStoreRoute, Inv, TypeOK
  <1>5. pc \in {"connect", "failed"}
    OBVIOUS
  <1> HIDE DEF pc
  <1>6. /\ r \in Calls /\ r.pc = pc /\ r.hop = call[m].hop + 1
        /\ r.path = call[m].path /\ r.at = call[m].at
        /\ r.end = call[m].end /\ r.next = call[m].next
    <2>1. call[m].hop + 1 \in Nat
      BY <1>2 DEF Calls
    <2>2. pc \in Step \cup Ended
      BY <1>5 DEF Step, Ended
    <2> HIDE DEF pc
    <2> QED BY <1>2, <2>1, <2>2 DEF Calls
  <1>7. /\ call[m].hop = Len(call[m].path) /\ call[m].hop <= HopLimit
        /\ call[m].at \in Client \/ command[m].cmd = "Status" => call[m].hop = 0
        /\ NextOK(call[m], command[m], call[m].hop + 1)
    BY <1>1, <1>2 DEF CallOK, Asking
  <1>8. CallOK(r, command[m])
    <2>1. call[m].hop \in Nat
      BY <1>2 DEF Calls
    <2>2. NextOK(r, command[m], r.hop) /\ HolderOK(r, command[m])
      BY <1>6, <1>7, <2>1 DEF HolderOK, NextOK
    <2>3. r.at \in Client => r.hop = 1
      BY <1>6, <1>7
    <2> HIDE DEF r
    <2> QED BY <1>2, <1>5, <1>6, <2>2, <2>3 DEF CallOK, Early, Asking, Redeeming
  <1>9. OpenOK(r, command[m]) /\ r.pc \in Waiting
        /\ r.pc \in (Step \ {"reply"}) \cup {"failed"}
    BY <1>5, <1>6 DEF OpenOK, Early, Waiting, Holding, Step
  <1>10. route \in Routes
    <2>1. call[m].next \in Member /\ call[m].end \in BOOLEAN
      BY <1>2, <1>7 DEF NextOK, Calls, Commands, Member
    <2> QED BY <2>1 DEF Routes
  <1>11. w \in Wrappers(Routes, ROUTES_EXPIRATION_TIME)
         /\ w.value.end_route = call[m].end
    BY <1>10, TTLAssumption DEF Wrap, Wrappers
  <1> HIDE DEF w, route
  <1>12. nonce \in Nonce /\ nonce[1] = m /\ nonce[2] = r.hop
    BY <1>2, <1>6 DEF Nonce, ConversationId, Calls
  <1> HIDE DEF nonce, r
  <1>13. \A n \in DOMAIN routes' :
            \/ n[1] # m /\ n \in DOMAIN routes /\ routes'[n] = routes[n]
            \/ n[1] = m /\ RouteOK(n, routes'[n].value, r)
    <2>0. r.hop \in Nat
      BY <1>6 DEF Calls
    <2> SUFFICES ASSUME NEW n \in DOMAIN routes', n # nonce
                 PROVE  n[1] # m /\ n \in DOMAIN routes /\ routes'[n] = routes[n]
      <3>1. nonce \in DOMAIN routes' /\ routes'[nonce] = w
        BY <1>1 DEF Insert
      <3>2. RouteOK(nonce, routes'[nonce].value, r)
        BY <1>6, <1>9, <1>11, <1>12, <2>0, <3>1 DEF RouteOK
      <3> QED BY <1>12, <3>2
    <2>1. n \in DOMAIN routes /\ routes'[n] = routes[n]
      BY <1>1 DEF Insert
    <2> QED BY <1>1, <1>3, <2>1 DEF Inv, RoutesOK, RouteOK
  <1>14. /\ IsMap(conversations', ConversationId,
                  Wrappers(Conversations, CONVERSATIONS_EXPIRATION_TIME))
         /\ \A id \in DOMAIN conversations' :
               \/ /\ id # m /\ id \in DOMAIN conversations
                  /\ conversations'[id] = conversations[id]
               \/ /\ id = m
                  /\ conversations'[id].value.from = command[m].from
                  /\ Len(conversations'[id].value.routes) = r.hop
                  /\ OpenOK(r, command[m])
    <2>0. IsMap(conversations, ConversationId,
                Wrappers(Conversations, CONVERSATIONS_EXPIRATION_TIME))
      BY DEF Inv, TypeOK, RouteStoreTypeOK
    <2>1. CASE ~has_conversation(m)
      BY <1>1, <2>0, <2>1 DEF has_conversation
    <2>2. CASE has_conversation(m)
      <3> DEFINE v == conversations[m].value
                 new == [conversations[m] EXCEPT !.value =
                            [v EXCEPT !.routes = Append(v.routes, route)]]
      <3>1. /\ m \in DOMAIN conversations
            /\ conversations[m] \in Wrappers(Conversations, CONVERSATIONS_EXPIRATION_TIME)
        BY <2>0, <2>2 DEF has_conversation, IsMap
      <3>2. v \in Conversations /\ v.routes \in Seq(Routes)
        BY <3>1 DEF Wrappers, Conversations
      <3>3. v.from = command[m].from /\ Len(v.routes) = call[m].hop
        BY <3>1 DEF Inv, ConversationsOK
      <3>4. /\ Append(v.routes, route) \in Seq(Routes)
            /\ Len(Append(v.routes, route)) = call[m].hop + 1
        BY <1>10, <3>2, <3>3
      <3>5. conversations' = [conversations EXCEPT ![m] = new]
        BY <1>1, <2>2, <3>1 DEF Wrappers, Conversations
      <3>6. /\ new \in Wrappers(Conversations, CONVERSATIONS_EXPIRATION_TIME)
            /\ new.value.from = command[m].from
            /\ new.value.routes = Append(v.routes, route)
        BY <3>1, <3>2, <3>3, <3>4 DEF Wrappers, Conversations
      <3> HIDE DEF new, v
      <3>7. /\ DOMAIN conversations' = DOMAIN conversations
            /\ conversations'[m] = new
            /\ \A id \in DOMAIN conversations : id # m => conversations'[id] = conversations[id]
            /\ IsMap(conversations', ConversationId,
                     Wrappers(Conversations, CONVERSATIONS_EXPIRATION_TIME))
        BY <2>0, <3>1, <3>5, <3>6 DEF IsMap
      <3> QED BY <1>6, <1>9, <3>4, <3>6, <3>7
    <2> QED BY <2>1, <2>2
  <1>15. RouteStoreTypeOK'
    BY <1>1, <1>11, <1>12, <1>14, MapUpdates DEF Inv, TypeOK, RouteStoreTypeOK
  <1> QED BY <1>1, <1>3, <1>4, <1>6, <1>8, <1>9, <1>13, <1>14, <1>15, StoreStep

\* set_route on Redis, first half: the copy is the conversation as it stands.
LEMMA RouteReadConversationKeeps ==
    ASSUME Inv, NEW m \in Sends, RouteReadConversation(m)
    PROVE  Inv'
  <1> DEFINE r == [call[m] EXCEPT !.pc = "exec_set_route", !.copy = get_conversation(m)]
  <1>1. /\ m \in DOMAIN call /\ call[m].pc = "set_route"
        /\ UNCHANGED <<deliveryVars, routeVars, sessionVars>>
    BY DEF RouteReadConversation, At
  <1>2. call[m] \in Calls /\ CallOK(call[m], command[m])
    BY <1>1 DEF Inv, TypeOK, CallsOK
  <1>3. call[m].pc \in Step \ {"reply"} /\ call[m].pc \notin Waiting
    BY <1>1 DEF Step, Waiting, Holding, Redeeming
  <1>4. CASE ~has_conversation(m)
    <2>1. call' = [call EXCEPT ![m].pc = "panicked"]
      BY <1>4 DEF RouteReadConversation
    <2> QED BY <1>1, <1>3, <2>1, EndStep
  <1>5. CASE has_conversation(m)
    <2>1. call' = [call EXCEPT ![m] = r]
      BY <1>1, <1>5 DEF RouteReadConversation, Inv, TypeOK
    <2>2. /\ get_conversation(m) \in Conversations
          /\ get_conversation(m).from = command[m].from
          /\ Len(get_conversation(m).routes) = call[m].hop
      BY <1>5 DEF has_conversation, get_conversation, Inv, TypeOK, ConversationsOK,
            RouteStoreTypeOK, IsMap, Wrappers
    <2>3. /\ r \in Calls /\ r.pc = "exec_set_route" /\ r.hop = call[m].hop
          /\ r.path = call[m].path /\ r.at = call[m].at /\ r.next = call[m].next
          /\ r.end = call[m].end /\ r.copy = get_conversation(m)
      BY <1>2, <2>2 DEF Calls, Step
    <2>4. CallOK(r, command[m])
      BY <1>1, <1>2, <2>2, <2>3 DEF CallOK, Early, Asking, Redeeming, NextOK
    <2>5. OpenOK(r, command[m]) /\ r.pc \in Step \ {"reply"} /\ KeepsRoutes(call[m], r)
      BY <1>3, <2>3 DEF OpenOK, Early, Step, KeepsRoutes, Holding, Redeeming
    <2> HIDE DEF r
    <2> QED BY <1>1, <1>3, <2>1, <2>3, <2>4, <2>5, MoveStep
  <1> QED BY <1>4, <1>5

\* Second half: the transaction stores the route of the next hop beside those
\* redeemed before, and the conversation with one route more, even if it has
\* expired in between.
LEMMA RouteExecSetRouteKeeps ==
    ASSUME Inv, NEW m \in Sends, RouteExecSetRoute(m)
    PROVE  Inv'
  <1> DEFINE r == [call[m] EXCEPT !.hop = call[m].hop + 1, !.copy = NoConversation,
                                  !.pc = "connect"]
             nonce == <<m, call[m].hop + 1>>
             route == [target |-> call[m].next, end_route |-> call[m].end]
             copy == call[m].copy
             w == Wrap(route, ROUTES_EXPIRATION_TIME)
             v == Wrap([copy EXCEPT !.routes = Append(copy.routes, route)],
                       CONVERSATIONS_EXPIRATION_TIME)
  <1>1. /\ m \in DOMAIN call /\ call[m].pc = "exec_set_route" /\ ~InMemory
        /\ UNCHANGED <<deliveryVars, sessionVars, repository_type>>
        /\ routes' =
              [n \in DOMAIN routes \cup {nonce} |->
                  IF n = nonce THEN w
                  ELSE IF n[1] = m THEN Renew(routes[n], ROUTES_EXPIRATION_TIME)
                  ELSE routes[n]]
        /\ conversations' = Insert(conversations, m, v)
    BY DEF RouteExecSetRoute, At, exec_set_route, NewNonce, NewRoute, SameHash
  <1>2. /\ call[m] \in Calls /\ CallOK(call[m], command[m])
        /\ m \in DOMAIN command /\ command[m] \in Commands
    BY <1>1 DEF Inv, TypeOK, CallsOK, IsMap
  <1>3. call[m].pc \in Step \ {"reply"} /\ call[m].hop \in Nat
    BY <1>1, <1>2 DEF Step, Calls
  <1>4. call' = [call EXCEPT ![m] = r]
    BY <1>1 DEF RouteExecSetRoute, Inv, TypeOK
  <1>5. /\ r \in Calls /\ r.pc = "connect" /\ r.hop = call[m].hop + 1
        /\ r.path = call[m].path /\ r.at = call[m].at
        /\ r.end = call[m].end /\ r.next = call[m].next
    <2>1. /\ call[m].hop + 1 \in Nat
          /\ "connect" \in Step \cup Ended
          /\ NoConversation \in Conversations \cup {NoConversation}
      BY <1>3 DEF Step
    <2> QED BY <1>2, <2>1 DEF Calls
  <1>6. /\ call[m].hop = Len(call[m].path) /\ call[m].hop <= HopLimit
        /\ call[m].at \in Client \/ command[m].cmd = "Status" => call[m].hop = 0
        /\ NextOK(call[m], command[m], call[m].hop + 1)
        /\ copy \in Conversations
        /\ copy.from = command[m].from /\ Len(copy.routes) = call[m].hop
    BY <1>1, <1>2 DEF CallOK, Asking
  <1>7. CallOK(r, command[m])
    <2>1. NextOK(r, command[m], r.hop) /\ HolderOK(r, command[m])
      BY <1>3, <1>5, <1>6 DEF HolderOK, NextOK
    <2>2. r.at \in Client => r.hop = 1
      BY <1>5, <1>6
    <2> HIDE DEF r
    <2> QED BY <1>2, <1>5, <2>1, <2>2 DEF CallOK, Early, Asking, Redeeming
  <1>8. OpenOK(r, command[m]) /\ r.pc \in (Step \ {"reply"}) \cup {"failed"}
    BY <1>5 DEF OpenOK, Early, Step
  <1>9. route \in Routes
    <2>1. call[m].next \in Member /\ call[m].end \in BOOLEAN
      BY <1>2, <1>6 DEF NextOK, Calls, Commands, Member
    <2> QED BY <2>1 DEF Routes
  <1>10. w \in Wrappers(Routes, ROUTES_EXPIRATION_TIME) /\ w.value = route
    BY <1>9, TTLAssumption DEF Wrap, Wrappers
  <1>11. /\ v \in Wrappers(Conversations, CONVERSATIONS_EXPIRATION_TIME)
         /\ v.value.from = command[m].from
         /\ Len(v.value.routes) = r.hop
    <2> HIDE DEF route, copy, r
    <2>1. copy.routes \in Seq(Routes)
      BY <1>6 DEF Conversations
    <2>2. /\ Append(copy.routes, route) \in Seq(Routes)
          /\ Len(Append(copy.routes, route)) = r.hop
      BY <1>5, <1>6, <1>9, <2>1
    <2>3. /\ [copy EXCEPT !.routes = Append(copy.routes, route)] \in Conversations
          /\ [copy EXCEPT !.routes = Append(copy.routes, route)].from = copy.from
          /\ [copy EXCEPT !.routes = Append(copy.routes, route)].routes
                = Append(copy.routes, route)
      BY <1>6, <2>2 DEF Conversations
    <2> DEFINE new == [copy EXCEPT !.routes = Append(copy.routes, route)]
    <2>4. v = [value |-> new, left |-> CONVERSATIONS_EXPIRATION_TIME]
      BY DEF Wrap
    <2> HIDE DEF new, v
    <2>5. v.value = new /\ v.left = CONVERSATIONS_EXPIRATION_TIME
      BY <2>4
    <2>6. v \in Wrappers(Conversations, CONVERSATIONS_EXPIRATION_TIME)
      BY <2>3, <2>4, TTLAssumption DEF Wrappers, new
    <2> QED BY <1>6, <2>2, <2>3, <2>5, <2>6 DEF new
  <1>12. nonce \in Nonce /\ nonce[1] = m /\ nonce[2] = r.hop
    BY <1>3, <1>5 DEF Nonce, ConversationId
  <1>13. route.end_route = r.end
    BY <1>5
  <1> HIDE DEF v, w, route, nonce, r
  <1>14. \A n \in DOMAIN routes :
            /\ n \in Nonce
            /\ routes[n] \in Wrappers(Routes, ROUTES_EXPIRATION_TIME)
            /\ Renew(routes[n], ROUTES_EXPIRATION_TIME)
                   \in Wrappers(Routes, ROUTES_EXPIRATION_TIME)
    BY TTLAssumption DEF Inv, TypeOK, RouteStoreTypeOK, IsMap, Renew, Wrappers
  <1>15. RouteStoreTypeOK'
    <2>1. IsMap(routes', Nonce, Wrappers(Routes, ROUTES_EXPIRATION_TIME))
      BY <1>1, <1>10, <1>12, <1>14 DEF IsMap
    <2>2. IsMap(conversations', ConversationId,
                Wrappers(Conversations, CONVERSATIONS_EXPIRATION_TIME))
      BY <1>1, <1>11, MapUpdates DEF Inv, TypeOK, RouteStoreTypeOK, ConversationId
    <2> QED BY <1>1, <2>1, <2>2 DEF Inv, TypeOK, RouteStoreTypeOK
  <1>16. ASSUME NEW n \in DOMAIN routes'
         PROVE  \/ n[1] # m /\ n \in DOMAIN routes /\ routes'[n] = routes[n]
                \/ n[1] = m /\ RouteOK(n, routes'[n].value, r)
    <2>1. CASE n = nonce
      <3>1. routes'[n] = w
        BY <1>1, <2>1
      <3> QED BY <1>1, <1>3, <1>5, <1>10, <1>12, <1>13, <2>1, <3>1 DEF RouteOK
    <2>2. CASE n # nonce /\ n[1] = m
      <3>1. n \in DOMAIN routes
        BY <1>1, <2>2
      <3>2. n[2] \in Nat /\ n[2] <= call[m].hop
        BY <1>14, <2>2, <3>1 DEF Inv, RoutesOK, RouteOK, Nonce
      <3>3. n[2] <= r.hop /\ n[2] # r.hop
        BY <1>3, <1>5, <3>2
      <3> QED BY <1>1, <2>2, <3>3 DEF RouteOK
    <2>3. CASE n # nonce /\ n[1] # m
      BY <1>1, <2>3
    <2> QED BY <2>1, <2>2, <2>3
  <1>17. \A id \in DOMAIN conversations' :
            \/ /\ id # m /\ id \in DOMAIN conversations
               /\ conversations'[id] = conversations[id]
            \/ /\ id = m
               /\ conversations'[id].value.from = command[m].from
               /\ Len(conversations'[id].value.routes) = r.hop
               /\ OpenOK(r, command[m])
    BY <1>1, <1>8, <1>11 DEF Insert
  <1> QED BY <1>1, <1>3, <1>4, <1>5, <1>7, <1>8, <1>15, <1>16, <1>17, StoreStep

\* redeem_route: in memory the route that waited is gone at the moment it is
\* used; in Redis it stays, but is not the last one for long.
LEMMA RedeemRemoveRouteKeeps ==
    ASSUME Inv, NEW m \in Sends, RedeemRemoveRoute(m)
    PROVE  Inv'
  <1> DEFINE pc == IF call[m].end THEN "source_unwrap" ELSE "redeemed"
             r == [call[m] EXCEPT !.pc = pc]
  <1>1. /\ m \in DOMAIN call /\ call[m].pc = "remove_route"
        /\ UNCHANGED <<deliveryVars, sessionVars, conversations, repository_type>>
        /\ routes' = IF InMemory THEN Remove(routes, NonceOf(m)) ELSE routes
    BY DEF RedeemRemoveRoute, At, remove_route
  <1>2. call[m] \in Calls /\ CallOK(call[m], command[m])
    BY <1>1 DEF Inv, TypeOK, CallsOK
  <1>3. call[m].pc \in Step \ {"reply"}
    BY <1>1 DEF Step
  <1>4. call' = [call EXCEPT ![m] = r]
    BY <1>1 DEF RedeemRemoveRoute, Inv, TypeOK
  <1>5. /\ pc \in {"source_unwrap", "redeemed"}
        /\ (pc = "source_unwrap") => call[m].end
        /\ (pc = "redeemed") => ~call[m].end
    OBVIOUS
  <1> HIDE DEF pc
  <1>6. /\ r \in Calls /\ r.pc = pc /\ r.hop = call[m].hop
        /\ r.path = call[m].path /\ r.at = call[m].at /\ r.end = call[m].end
    BY <1>2, <1>5 DEF Calls, Step
  <1>7. /\ HolderOK(call[m], command[m])
        /\ call[m].end => LandedOK(call[m], command[m])
        /\ ~call[m].end => call[m].hop <= HopLimit /\ call[m].at \in Proxy
    BY <1>1, <1>2 DEF CallOK, Redeeming
  <1>8. CallOK(r, command[m]) /\ OpenOK(r, command[m])
    BY <1>2, <1>5, <1>6, <1>7, MemberAssumption
        DEF CallOK, OpenOK, Early, Asking, Redeeming, HolderOK, LandedOK
  <1>9. r.pc \in (Step \ {"reply"}) \cup {"failed"}
    BY <1>5, <1>6 DEF Step
  <1>10. RouteStoreTypeOK'
    BY <1>1, MapUpdates DEF Inv, TypeOK, RouteStoreTypeOK
  <1>11. ASSUME NEW n \in DOMAIN routes'
         PROVE  \/ n[1] # m /\ n \in DOMAIN routes /\ routes'[n] = routes[n]
                \/ n[1] = m /\ RouteOK(n, routes'[n].value, r)
    <2>0. n \in DOMAIN routes /\ routes'[n] = routes[n]
      BY <1>1 DEF Remove
    <2>1. CASE InMemory
      <3>1. n # NonceOf(m)
        BY <1>1, <2>1 DEF Remove
      <3>2. n \in Nonce
        BY <2>0 DEF Inv, TypeOK, RouteStoreTypeOK, IsMap
      <3>3. n = <<n[1], n[2]>>
        BY <3>2 DEF Nonce
      <3>4. n[2] = call[n[1]].hop
        BY <2>0, <2>1 DEF Inv, RoutesOK, RouteOK
      <3> QED BY <2>0, <3>1, <3>3, <3>4 DEF NonceOf
    <2>2. CASE ~InMemory
      BY <1>5, <1>6, <2>0, <2>2 DEF Inv, RoutesOK, RouteOK, Holding, Redeeming
    <2> QED BY <2>1, <2>2
  <1> HIDE DEF r
  <1>12. \A id \in DOMAIN conversations' :
            \/ /\ id # m /\ id \in DOMAIN conversations
               /\ conversations'[id] = conversations[id]
            \/ /\ id = m
               /\ conversations'[id].value.from = command[m].from
               /\ Len(conversations'[id].value.routes) = r.hop
               /\ OpenOK(r, command[m])
    BY <1>1, <1>6, <1>8 DEF Inv, ConversationsOK
  <1> QED BY <1>1, <1>3, <1>4, <1>6, <1>8, <1>9, <1>10, <1>11, <1>12, StoreStep

\* finalize: the conversation is gone before the recipient is answered.
LEMMA FinalizeKeeps ==
    ASSUME Inv, NEW m \in Sends, RedeemFinalize(m)
    PROVE  Inv'
  <1> DEFINE r == [call[m] EXCEPT !.pc = "redeemed"]
  <1>1. /\ m \in DOMAIN call /\ call[m].pc = "finalize"
        /\ UNCHANGED <<deliveryVars, sessionVars, routes, repository_type>>
        /\ conversations' = Remove(conversations, m)
    BY DEF RedeemFinalize, At, remove_conversation
  <1>2. /\ call[m] \in Calls /\ CallOK(call[m], command[m])
        /\ m \in DOMAIN command /\ command[m] \in Commands
    BY <1>1 DEF Inv, TypeOK, CallsOK, IsMap
  <1>3. call[m].pc \in Step \ {"reply"} /\ call[m].pc \notin Waiting
    BY <1>1 DEF Step, Waiting, Holding, Redeeming
  <1>4. call' = [call EXCEPT ![m] = r]
    BY <1>1 DEF RedeemFinalize, Inv, TypeOK
  <1>5. /\ r \in Calls /\ r.pc = "redeemed" /\ r.path = call[m].path
        /\ r.at = call[m].at /\ r.source = call[m].source /\ r.hop = call[m].hop
    BY <1>2 DEF Calls, Step
  <1>6. LandedOK(call[m], command[m]) /\ call[m].source = command[m].from
    BY <1>1, <1>2 DEF CallOK
  <1>7. r.at \notin Proxy
    BY <1>2, <1>5, <1>6, MemberAssumption DEF LandedOK, Commands
  <1>8. CallOK(r, command[m])
    BY <1>2, <1>5, <1>6, <1>7 DEF CallOK, Early, Asking, Redeeming, LandedOK
  <1>9. r.pc \in (Step \ {"reply"}) \cup {"failed"}
    BY <1>5 DEF Step
  <1>10. RouteStoreTypeOK'
    BY <1>1, MapUpdates DEF Inv, TypeOK, RouteStoreTypeOK
  <1>11. \A n \in DOMAIN routes' :
            \/ n[1] # m /\ n \in DOMAIN routes /\ routes'[n] = routes[n]
            \/ n[1] = m /\ RouteOK(n, routes'[n].value, r)
    <2>1. KeepsRoutes(call[m], r)
      BY <1>3, <1>5 DEF KeepsRoutes, Holding, Redeeming
    <2> QED BY <1>1, <2>1, RoutesStay
  <1>12. \A id \in DOMAIN conversations' :
            /\ id # m /\ id \in DOMAIN conversations
            /\ conversations'[id] = conversations[id]
    BY <1>1 DEF Remove
  <1> HIDE DEF r
  <1> QED BY <1>1, <1>3, <1>4, <1>5, <1>8, <1>9, <1>10, <1>11, <1>12, StoreStep

-----------------------------------------------------------------------------
(* The steps that the users see, and those of the environment.             *)

\* receive: the message is new in the inbox of its recipient, no route of it
\* waits, and the unwrap of source_info does not panic.
LEMMA ReceiveKeeps ==
    ASSUME Inv, NEW m \in Sends, Receive(m)
    PROVE  /\ Inv'
           /\ command[m].cmd = "Send" /\ ~IsDelivered(m)
           /\ DeliverText(m, command[m].to, command[m].from)
  <1> DEFINE r == [call[m] EXCEPT !.pc = "reply"]
             text == [msg |-> m, from |-> command[m].from]
             c == command[m].to
  <1>1. /\ m \in DOMAIN call /\ call[m].pc = "redeemed" /\ call[m].at \in Client
        /\ UNCHANGED <<routeVars, sessionVars>>
    BY DEF Receive, At
  <1>2. /\ call[m] \in Calls /\ CallOK(call[m], command[m])
        /\ m \in DOMAIN command /\ command[m] \in Commands
    BY <1>1 DEF Inv, TypeOK, CallsOK, IsMap
  <1>3. /\ call[m].at = command[m].to /\ call[m].source = command[m].from
        /\ command[m].cmd = "Send" /\ Len(call[m].path) = HopLimit
    BY <1>1, <1>2 DEF CallOK, LandedOK
  <1>4. command[m].from \in Client /\ command[m].to \in Client
    BY <1>1, <1>2, <1>3 DEF Commands
  <1>5. ~IsDelivered(m)
    BY <1>1, Handed DEF HandedOK
  <1>6. InMemory => \A n \in DOMAIN routes : n[1] # m
    BY <1>1 DEF Inv, RoutesOK, RouteOK, Waiting, Holding, Redeeming
  <1>7. m \notin DOMAIN conversations
    BY <1>1, MemberAssumption DEF Inv, ConversationsOK, OpenOK
  <1>8. /\ DeliverText(m, c, command[m].from)
        /\ call' = [call EXCEPT ![m].pc = "reply"]
    BY <1>3, <1>4, RelayAssumption DEF Receive
  <1>9. /\ inbox' = [inbox EXCEPT ![c] = Append(inbox[c], text)]
        /\ command' = command /\ outcome' = outcome
    BY <1>8 DEF DeliverText
  <1>10. /\ inbox \in [Client -> Seq(TextMessages)]
         /\ text \in TextMessages
    BY <1>4 DEF Inv, TypeOK, TextMessages
  <1>11. /\ inbox' \in [Client -> Seq(TextMessages)]
         /\ inbox'[c] = Append(inbox[c], text)
         /\ \A d \in Client : d # c => inbox'[d] = inbox[d]
    BY <1>4, <1>9, <1>10
  <1>12. /\ DOMAIN inbox'[c] = DOMAIN inbox[c] \cup {Len(inbox[c]) + 1}
         /\ inbox'[c][Len(inbox[c]) + 1] = text
         /\ \A i \in DOMAIN inbox[c] : inbox'[c][i] = inbox[c][i]
    BY <1>4, <1>10, <1>11
  <1>13. /\ DOMAIN call' = DOMAIN call /\ call'[m] = r
         /\ \A n \in DOMAIN call : n # m => call'[n] = call[n]
    BY <1>1, <1>8 DEF Inv, TypeOK
  <1>14. r \in Calls /\ r.pc = "reply" /\ r.path = call[m].path /\ r.hop = call[m].hop
    BY <1>2 DEF Calls, Step
  <1>15. text.msg = m /\ text.from = command[m].from
    OBVIOUS
  <1> DEFINE last == Len(inbox[c]) + 1
  <1> HIDE DEF r, text, c, last
  <1>a. /\ \A d \in Client : \A i \in DOMAIN inbox[d] :
              i \in DOMAIN inbox'[d] /\ inbox'[d][i] = inbox[d][i]
        /\ \A d \in Client : \A i \in DOMAIN inbox'[d] :
              i \in DOMAIN inbox[d] \/ (d = c /\ i = last)
        /\ c \in Client /\ last \in DOMAIN inbox'[c] /\ inbox'[c][last] = text
    BY <1>4, <1>11, <1>12 DEF c, last
  <1>16. \A id : IsDelivered(id)' <=> IsDelivered(id) \/ id = m
    <2>1. IsDelivered(m)'
      BY <1>a, <1>15 DEF IsDelivered
    <2>2. ASSUME NEW id, IsDelivered(id)
          PROVE  IsDelivered(id)'
      BY <1>a, <2>2 DEF IsDelivered
    <2>3. ASSUME NEW id, id # m, IsDelivered(id)'
          PROVE  IsDelivered(id)
      <3>1. PICK d \in Client : \E i \in DOMAIN inbox'[d] : inbox'[d][i].msg = id
        BY <2>3 DEF IsDelivered
      <3>2. PICK i \in DOMAIN inbox'[d] : inbox'[d][i].msg = id
        BY <3>1
      <3>3. i \in DOMAIN inbox[d] /\ inbox[d][i].msg = id
        BY <1>a, <1>15, <2>3, <3>2
      <3> QED BY <3>3 DEF IsDelivered
    <2> QED BY <2>1, <2>2, <2>3
  <1>17. TypeOK'
    <2>1. call' \in [DOMAIN command' -> Calls]
      BY <1>1, <1>8, <1>9, <1>13, <1>14 DEF Inv, TypeOK
    <2>2. RouteStoreTypeOK' /\ RegistryTypeOK'
      BY <1>1 DEF Inv, TypeOK, routeVars, sessionVars, RouteStoreTypeOK,
            RegistryTypeOK, IsMap
    <2> QED BY <1>9, <1>11, <2>1, <2>2 DEF Inv, TypeOK, IsMap
  <1>18. CallsOK'
    <2>1. CallOK(r, command[m])
      BY <1>2, <1>14 DEF CallOK, Early, Asking, Redeeming
    <2> QED BY <1>9, <1>13, <2>1 DEF Inv, CallsOK
  <1>19. RoutesOK'
    <2>1. r.pc \notin Holding
      BY <1>14 DEF Holding, Redeeming
    <2> QED BY <1>1, <1>6, <1>13, <1>14, <2>1 DEF Inv, RoutesOK, RouteOK, routeVars, InMemory
  <1>20. ConversationsOK'
    BY <1>1, <1>7, <1>9, <1>13, <1>16 DEF Inv, ConversationsOK, routeVars
  <1>21. InboxOK'
    <2>0. routes' = routes /\ (InMemory' <=> InMemory)
      BY <1>1 DEF routeVars, InMemory
    <2>1. HandedOK(r)
      BY <1>3, <1>14 DEF HandedOK
    <2>2. \A d \in Client : \A i \in DOMAIN inbox[d] : inbox[d][i].msg # m
      BY <1>5 DEF IsDelivered
    <2>3. command[m] = [cmd |-> "Send", from |-> command[m].from, to |-> c]
      BY <1>2, <1>3 DEF Commands, c
    <2> SUFFICES ASSUME NEW d \in Client, NEW i \in DOMAIN inbox'[d]
                 PROVE  /\ inbox'[d][i].msg \in DOMAIN call
                        /\ HandedOK(call'[inbox'[d][i].msg])
                        /\ command[inbox'[d][i].msg] =
                              [cmd |-> "Send", from |-> inbox'[d][i].from, to |-> d]
                        /\ InMemory => \A n \in DOMAIN routes : n[1] # inbox'[d][i].msg
      BY <1>9, <1>13, <2>0 DEF InboxOK
    <2>4. CASE d = c /\ i = last
      BY <1>1, <1>6, <1>a, <1>13, <1>15, <2>1, <2>3, <2>4
    <2>5. CASE ~(d = c /\ i = last)
      <3>1. i \in DOMAIN inbox[d] /\ inbox'[d][i] = inbox[d][i]
        BY <1>a, <2>5
      <3>2. inbox[d][i].msg # m
        BY <2>2, <3>1
      <3> QED BY <1>13, <3>1, <3>2 DEF Inv, InboxOK
    <2> QED BY <2>4, <2>5
  <1>22. DeliveredOK'
    BY <1>9, <1>13, <1>16 DEF Inv, DeliveredOK
  <1>23. OutcomeOK'
    BY <1>1, <1>9, <1>13 DEF Inv, OutcomeOK
  <1> USE DEF c
  <1> QED BY <1>3, <1>5, <1>8, <1>17, <1>18, <1>19, <1>20, <1>21, <1>22, <1>23 DEF Inv

\* What the client is told changes nothing else: an error may be reported at
\* any time, a success only of a chain that has come to its end.
LEMMA ReportStep ==
    ASSUME Inv, NEW m \in DOMAIN call, NEW result \in {"ok", "err"},
           Report(m, result),
           \/ call' = call
           \/ call[m].pc = "reply" /\ call' = [call EXCEPT ![m].pc = "done"],
           result = "ok" => call'[m].pc = "done",
           UNCHANGED <<routeVars, sessionVars>>
    PROVE  Inv'
  <1>1. /\ command' = command /\ inbox' = inbox /\ outcome[m] = "pending"
        /\ outcome' = [outcome EXCEPT ![m] = result]
        /\ routes' = routes /\ conversations' = conversations
        /\ repository_type' = repository_type /\ (InMemory' <=> InMemory)
    BY DEF Report, routeVars, InMemory
  <1>2. /\ DOMAIN call' = DOMAIN call
        /\ \A n \in DOMAIN call : n # m => call'[n] = call[n]
        /\ call[m] \in Calls /\ call \in [DOMAIN call -> Calls]
        /\ outcome \in [DOMAIN call -> Outcomes]
        /\ DOMAIN command = DOMAIN call
    BY DEF Inv, TypeOK
  <1>3. /\ call'[m] \in Calls /\ call'[m].hop = call[m].hop
        /\ call'[m].end = call[m].end /\ call'[m].path = call[m].path
        /\ call'[m].pc = call[m].pc \/ (call[m].pc = "reply" /\ call'[m].pc = "done")
        /\ call' = call \/ call'[m].pc = "done"
    <2>1. CASE call' = call
      BY <1>2, <2>1
    <2>2. CASE call[m].pc = "reply" /\ call' = [call EXCEPT ![m].pc = "done"]
      <3>1. call'[m] = [call[m] EXCEPT !.pc = "done"]
        BY <1>2, <2>2
      <3> QED BY <1>2, <2>2, <3>1 DEF Calls, Ended
    <2> QED BY <2>1, <2>2
  <1>4. \A id : IsDelivered(id)' <=> IsDelivered(id)
    BY <1>1 DEF IsDelivered
  <1>5. TypeOK'
    <2>1. call' \in [DOMAIN call -> Calls] /\ outcome' \in [DOMAIN call -> Outcomes]
      BY <1>1, <1>2, <1>3 DEF Outcomes
    <2>2. RegistryTypeOK' /\ RouteStoreTypeOK'
      BY <1>1 DEF Inv, TypeOK, RouteStoreTypeOK, RegistryTypeOK, IsMap, sessionVars
    <2> QED BY <1>1, <1>2, <2>1, <2>2 DEF Inv, TypeOK, IsMap
  <1>6. CallsOK'
    <2>1. CallOK(call'[m], command[m])
      <3>1. CASE call' = call
        BY <3>1 DEF Inv, CallsOK
      <3>2. CASE call'[m].pc = "done"
        BY <1>3, <3>2 DEF Inv, CallsOK, CallOK, Early, Asking, Redeeming
      <3> QED BY <1>3, <3>1, <3>2
    <2> QED BY <1>1, <1>2, <2>1 DEF Inv, CallsOK
  <1>7. RoutesOK'
    BY <1>1, <1>2, <1>3 DEF Inv, RoutesOK, RouteOK, Waiting, Holding, Redeeming
  <1>8. ConversationsOK'
    <2>1. m \in DOMAIN conversations => OpenOK(call'[m], command[m])
      <3>1. CASE call' = call
        BY <3>1 DEF Inv, ConversationsOK
      <3>2. CASE call[m].pc = "reply" /\ call'[m].pc = "done"
        BY <3>2 DEF Inv, ConversationsOK, OpenOK, Early
      <3> QED BY <1>3, <3>1, <3>2
    <2> QED BY <1>1, <1>2, <1>3, <1>4, <2>1 DEF Inv, ConversationsOK
  <1>9. InboxOK'
    <2>1. HandedOK(call[m]) => HandedOK(call'[m])
      BY <1>3 DEF HandedOK
    <2> QED BY <1>1, <1>2, <2>1 DEF Inv, InboxOK
  <1>10. DeliveredOK'
    BY <1>1, <1>2, <1>3, <1>4 DEF Inv, DeliveredOK
  <1>11. OutcomeOK'
    BY <1>1, <1>2, <1>3 DEF Inv, OutcomeOK
  <1> QED BY <1>5, <1>6, <1>7, <1>8, <1>9, <1>10, <1>11 DEF Inv

\* An answer or an error that travels back, and a connection lost on its way.
LEMMA ReturnKeeps ==
    ASSUME Inv, NEW m \in Sends,
           ReturnError(m) \/ LoseConnection(m)
    PROVE  Inv'
  BY ReportStep DEF ReturnError, LoseConnection, Running

\* The answer reaches the client, unless it was told of an error before.
LEMMA ReplyKeeps ==
    ASSUME Inv, NEW m \in Sends, Reply(m)
    PROVE  Inv'
  <1>1. /\ m \in DOMAIN call /\ call[m].pc = "reply"
        /\ call' = [call EXCEPT ![m].pc = "done"]
        /\ UNCHANGED <<routeVars, sessionVars>>
    BY DEF Reply, At
  <1>2. call[m] \in Calls
    BY <1>1 DEF Inv, TypeOK
  <1>3. CASE outcome[m] = "pending"
    <2>1. Report(m, "ok")
      BY <1>3 DEF Reply
    <2>2. call'[m].pc = "done"
      BY <1>1, <1>2 DEF Inv, TypeOK, Calls
    <2> QED BY <1>1, <2>1, <2>2, ReportStep
  <1>4. CASE outcome[m] # "pending"
    <2> DEFINE r == [call[m] EXCEPT !.pc = "done"]
    <2>1. /\ call' = [call EXCEPT ![m] = r]
          /\ UNCHANGED <<deliveryVars, routeVars, sessionVars>>
      BY <1>1, <1>4 DEF Inv, TypeOK, Reply
    <2>2. r \in Calls /\ r.pc = "done" /\ r.hop = call[m].hop /\ r.path = call[m].path
      BY <1>2 DEF Calls, Ended
    <2>3. CallOK(r, command[m])
      BY <1>1, <2>2 DEF Inv, CallsOK, CallOK, Early, Asking, Redeeming
    <2>4. KeepsRoutes(call[m], r)
      BY <1>1, <2>2 DEF KeepsRoutes, Waiting, Holding, Redeeming
    <2>5. m \in DOMAIN conversations => OpenOK(r, command[m])
      BY <1>1, <2>2 DEF Inv, ConversationsOK, OpenOK, Early
    <2>6. IsDelivered(m) => HandedOK(r)
      BY <2>2, Handed DEF HandedOK
    <2>7. command[m].cmd = "Send" => IsDelivered(m)
      BY <1>1 DEF Inv, DeliveredOK
    <2> HIDE DEF r
    <2> QED BY <1>1, <2>1, <2>2, <2>3, <2>4, <2>5, <2>6, <2>7, ChainStep
  <1> QED BY <1>3, <1>4

\* What is still in a map has kept its value.
KeepsValues(map, new) ==
    \A k \in DOMAIN new : k \in DOMAIN map /\ new[k].value = map[k].value

\* Expiry and the sweep: entries keep what they hold for as long as they stay.
LEMMA ExpiryStep ==
    ASSUME Inv, RouteStoreTypeOK',
           UNCHANGED <<call, deliveryVars, sessionVars, repository_type>>,
           KeepsValues(routes, routes'),
           KeepsValues(conversations, conversations')
    PROVE  Inv'
  <1> USE DEF deliveryVars, sessionVars
  <1>1. TypeOK'
    BY DEF Inv, TypeOK, RegistryTypeOK, IsMap
  <1>2. CallsOK' /\ DeliveredOK' /\ OutcomeOK'
    BY DEF Inv, CallsOK, DeliveredOK, OutcomeOK, IsDelivered
  <1>3. RoutesOK'
    BY DEF Inv, RoutesOK, RouteOK, KeepsValues, InMemory
  <1>4. ConversationsOK'
    BY DEF Inv, ConversationsOK, IsDelivered, KeepsValues
  <1>5. InboxOK'
    BY DEF Inv, InboxOK, KeepsValues, InMemory
  <1> QED BY <1>1, <1>2, <1>3, <1>4, <1>5 DEF Inv

\* A tick or a retain keeps the type of a map and the values that stay in it.
LEMMA MapExpiry ==
    ASSUME NEW K, NEW V, NEW ttl \in Nat, NEW map, IsMap(map, K, Wrappers(V, ttl))
    PROVE  /\ IsMap(Elapse(map), K, Wrappers(V, ttl))
           /\ KeepsValues(map, Elapse(map))
           /\ IsMap(Retain(map), K, Wrappers(V, ttl))
           /\ KeepsValues(map, Retain(map))
           /\ IsMap(Retain(Elapse(map)), K, Wrappers(V, ttl))
           /\ KeepsValues(map, Retain(Elapse(map)))
  <1>1. \A k \in DOMAIN map : map[k] \in Wrappers(V, ttl)
    BY DEF IsMap
  <1>2. ASSUME NEW w \in Wrappers(V, ttl)
        PROVE  LET v == [w EXCEPT !.left = IF @ < 0 THEN @ ELSE @ - 1]
               IN  v \in Wrappers(V, ttl) /\ v.value = w.value
    BY DEF Wrappers
  <1>3. IsMap(Elapse(map), K, Wrappers(V, ttl)) /\ KeepsValues(map, Elapse(map))
    BY <1>1, <1>2 DEF IsMap, Elapse, KeepsValues
  <1>4. ASSUME NEW any, IsMap(any, K, Wrappers(V, ttl))
        PROVE  IsMap(Retain(any), K, Wrappers(V, ttl)) /\ KeepsValues(any, Retain(any))
    BY <1>4 DEF IsMap, Retain, KeepsValues
  <1>5. /\ IsMap(Retain(Elapse(map)), K, Wrappers(V, ttl))
        /\ KeepsValues(Elapse(map), Retain(Elapse(map)))
    BY <1>3, <1>4
  <1>6. KeepsValues(map, Retain(Elapse(map)))
    BY <1>3, <1>5 DEF KeepsValues
  <1> QED BY <1>3, <1>4, <1>5, <1>6

\* The clock and kill_expired_routes keep the invariant.
LEMMA ExpiryKeeps ==
    ASSUME Inv, Tick \/ Sweep
    PROVE  Inv'
  <1>1. /\ IsMap(routes, Nonce, Wrappers(Routes, ROUTES_EXPIRATION_TIME))
        /\ IsMap(conversations, ConversationId,
                 Wrappers(Conversations, CONVERSATIONS_EXPIRATION_TIME))
    BY DEF Inv, TypeOK, RouteStoreTypeOK
  <1>2. /\ routes' \in {Elapse(routes), Retain(routes), Retain(Elapse(routes))}
        /\ conversations' \in {Elapse(conversations), Retain(conversations),
                                Retain(Elapse(conversations))}
    BY DEF Tick, Sweep, RouteStoreTick, kill_expired_routes
  <1>3. UNCHANGED <<call, deliveryVars, sessionVars, repository_type>>
    BY DEF Tick, Sweep, RouteStoreTick, kill_expired_routes
  <1>4. /\ IsMap(routes', Nonce, Wrappers(Routes, ROUTES_EXPIRATION_TIME))
        /\ KeepsValues(routes, routes')
    BY <1>1, <1>2, MapExpiry, TTLAssumption
  <1>5. /\ IsMap(conversations', ConversationId,
                 Wrappers(Conversations, CONVERSATIONS_EXPIRATION_TIME))
        /\ KeepsValues(conversations, conversations')
    BY <1>1, <1>2, MapExpiry, TTLAssumption
  <1>6. RouteStoreTypeOK'
    BY <1>3, <1>4, <1>5 DEF Inv, TypeOK, RouteStoreTypeOK
  <1> QED BY <1>3, <1>4, <1>5, <1>6, ExpiryStep

\* Logins, logouts and session expiry leave commands under way alone.
LEMMA SessionChangeKeeps ==
    ASSUME Inv, SessionChange
    PROVE  Inv'
  <1> USE DEF deliveryVars, routeVars
  <1>1. UNCHANGED <<call, deliveryVars, routeVars>>
    BY DEF SessionChange
  <1>2. RegistryTypeOK'
    <2>1. RegistryTypeOK
      BY DEF Inv, TypeOK
    <2>2. ASSUME NEW c \in Unsteady, PutIndex(c)
          PROVE  RegistryTypeOK'
      <3>1. c \in Member /\ issued[c] + 1 \in 1 .. MaxKeys
        BY <2>1, <2>2, RelayAssumption, RegistryAssumption DEF PutIndex, RegistryTypeOK
      <3> QED BY <2>1, <2>2, <3>1, RegistryAssumption DEF PutIndex, RegistryTypeOK, AccessKey
    <2>3. ASSUME NEW key \in opening, PutSession(key)
          PROVE  RegistryTypeOK'
      BY <2>1, <2>3 DEF PutSession, RegistryTypeOK
    <2>4. ASSUME NEW ended, NEW unlisted, EndSessions(ended, unlisted)
          PROVE  RegistryTypeOK'
      BY <2>1, <2>4, RegistryAssumption DEF EndSessions, RegistryTypeOK
    <2>5. ASSUME NEW c \in Unsteady, OpenSession(c)
          PROVE  RegistryTypeOK'
      <3>1. c \in Member /\ issued[c] + 1 \in 1 .. MaxKeys
        BY <2>1, <2>5, RelayAssumption, RegistryAssumption DEF OpenSession, RegistryTypeOK
      <3> QED BY <2>1, <2>5, <3>1, RegistryAssumption DEF OpenSession, RegistryTypeOK, AccessKey
    <2> QED BY <2>2, <2>3, <2>4, <2>5 DEF SessionChange
  <1>3. TypeOK'
    BY <1>1, <1>2 DEF Inv, TypeOK, RouteStoreTypeOK, IsMap
  <1>4. CallsOK' /\ DeliveredOK' /\ OutcomeOK'
    BY <1>1 DEF Inv, CallsOK, DeliveredOK, OutcomeOK, IsDelivered
  <1>5. RoutesOK' /\ ConversationsOK' /\ InboxOK'
    BY <1>1 DEF Inv, RoutesOK, RouteOK, ConversationsOK, InboxOK, IsDelivered, InMemory
  <1> QED BY <1>3, <1>4, <1>5 DEF Inv

\* start_cmd_handler begins a command that no map and no inbox knows yet.
LEMMA SubmitKeeps ==
    ASSUME Inv, NEW m \in Sends, Submit(m)
    PROVE  Inv'
  <1>1. PICK new \in Commands :
            /\ SubmitCommand(m, new)
            /\ \E key \in KeysGivenTo(new.from) :
                  call' = Insert(call, m, NewCall(new.from, key))
    BY DEF Submit
  <1>2. PICK key \in KeysGivenTo(new.from) :
            call' = Insert(call, m, NewCall(new.from, key))
    BY <1>1
  <1> DEFINE r == NewCall(new.from, key)
  <1>3. key \in AccessKey /\ Owner(key) = new.from /\ new.from \in Client
    BY DEF KeysGivenTo, Commands
  <1>4. /\ r \in Calls /\ r.pc = "init" /\ r.hop = 0 /\ r.path = <<>>
        /\ r.at = new.from /\ r.key = key
    BY <1>3 DEF NewCall, Calls, Step
  <1>5. /\ m \notin DOMAIN command
        /\ command' = Insert(command, m, new)
        /\ outcome' = Insert(outcome, m, "pending")
        /\ UNCHANGED <<inbox, routeVars, sessionVars>>
        /\ call' = Insert(call, m, r)
    BY <1>1, <1>2 DEF SubmitCommand, Submit
  <1> HIDE DEF r
  <1>6. /\ DOMAIN call = DOMAIN command /\ DOMAIN outcome = DOMAIN command
        /\ IsMap(command, Sends, Commands)
        /\ IsMap(call, Sends, Calls)
        /\ IsMap(outcome, Sends, Outcomes)
    BY DEF Inv, TypeOK, IsMap
  <1>7. /\ IsMap(command', Sends, Commands)
        /\ IsMap(call', Sends, Calls)
        /\ IsMap(outcome', Sends, Outcomes)
    BY <1>4, <1>5, <1>6, MapUpdates DEF Outcomes
  <1>8. /\ DOMAIN call' = DOMAIN call \cup {m} /\ call'[m] = r
        /\ DOMAIN command' = DOMAIN call \cup {m} /\ command'[m] = new
        /\ DOMAIN outcome' = DOMAIN call \cup {m} /\ outcome'[m] = "pending"
        /\ \A n \in DOMAIN call : /\ n # m /\ call'[n] = call[n]
                                  /\ command'[n] = command[n]
                                  /\ outcome'[n] = outcome[n]
    BY <1>5, <1>6 DEF Insert
  <1>9. \A id : IsDelivered(id)' <=> IsDelivered(id)
    BY <1>5 DEF IsDelivered
  <1>10. TypeOK'
    <2>1. RouteStoreTypeOK' /\ RegistryTypeOK' /\ inbox' \in [Client -> Seq(TextMessages)]
      BY <1>5 DEF Inv, TypeOK, routeVars, sessionVars, RouteStoreTypeOK,
            RegistryTypeOK, IsMap
    <2> QED BY <1>7, <1>8, <2>1 DEF TypeOK, IsMap
  <1>11. CallsOK'
    <2>1. CallOK(r, new)
      BY <1>3, <1>4, RelayAssumption DEF CallOK, Early, Asking, Redeeming
    <2> QED BY <1>8, <2>1 DEF Inv, CallsOK
  <1>12. RoutesOK'
    BY <1>5, <1>8 DEF Inv, RoutesOK, RouteOK, routeVars, InMemory
  <1>13. ConversationsOK'
    BY <1>5, <1>8, <1>9 DEF Inv, ConversationsOK, routeVars
  <1>14. InboxOK'
    BY <1>5, <1>8 DEF Inv, InboxOK, routeVars, InMemory
  <1>15. DeliveredOK'
    BY <1>4, <1>8, <1>9 DEF Inv, DeliveredOK
  <1>16. OutcomeOK'
    BY <1>8 DEF Inv, OutcomeOK
  <1> QED BY <1>10, <1>11, <1>12, <1>13, <1>14, <1>15, <1>16 DEF Inv

-----------------------------------------------------------------------------
(* The invariant, and what it is for.                                      *)

\* Nobody has typed anything: every map and every inbox is empty.
LEMMA InitInv == Init => Inv
  <1> SUFFICES ASSUME Init PROVE Inv
    OBVIOUS
  <1> USE DEF Init, DeliveryInit, RouteStoreInit, RegistryInit, EmptyMap
  <1>1. RegistryTypeOK
    BY RegistryAssumption DEF RegistryTypeOK, AccessKey
  <1>2. RouteStoreTypeOK
    BY DEF RouteStoreTypeOK, IsMap
  <1>3. TypeOK
    BY <1>1, <1>2 DEF TypeOK, IsMap
  <1>4. CallsOK /\ RoutesOK /\ ConversationsOK /\ DeliveredOK /\ OutcomeOK
    BY DEF CallsOK, RoutesOK, ConversationsOK, DeliveredOK, OutcomeOK
  <1>5. InboxOK
    BY DEF InboxOK
  <1> QED BY <1>3, <1>4, <1>5 DEF Inv

\* Every step of every handler and of the environment keeps the invariant.
LEMMA NextInv == Inv /\ [Next]_vars => Inv'
  <1> SUFFICES ASSUME Inv, [Next]_vars PROVE Inv'
    OBVIOUS
  <1>1. ASSUME NEW m \in Sends, Handle(m)
        PROVE  Inv'
    BY <1>1, GuardsKeep, RouteGetConversationKeeps, RoutePickClientKeeps,
       RoutePickProxyKeeps, ConnectKeeps, AuthenticateKeeps, RedeemGetRouteKeeps,
       RedeemGetSourceKeeps, ExecuteKeeps, StatusKeeps, InitializeConversationKeeps,
       RouteStoreRouteKeeps, RouteReadConversationKeeps, RouteExecSetRouteKeeps,
       RedeemRemoveRouteKeeps, FinalizeKeeps, ReceiveKeeps,
       ReplyKeeps, ReturnKeeps, Zenon DEF Handle
  <1>2. ASSUME NEW m \in Sends, Submit(m) \/ Break(m) \/ LoseConnection(m)
        PROVE  Inv'
    BY <1>2, SubmitKeeps, BreakKeeps, ReturnKeeps
  <1>3. CASE SessionChange
    BY <1>3, SessionChangeKeeps
  <1>4. CASE Tick \/ Sweep
    BY <1>4, ExpiryKeeps
  <1>5. CASE UNCHANGED vars
    <2> USE <1>5 DEF vars, deliveryVars, routeVars, sessionVars
    <2>1. TypeOK'
      BY DEF Inv, TypeOK, RouteStoreTypeOK, RegistryTypeOK, IsMap
    <2>2. CallsOK' /\ DeliveredOK' /\ OutcomeOK'
      BY DEF Inv, CallsOK, DeliveredOK, OutcomeOK, IsDelivered
    <2>3. RoutesOK' /\ ConversationsOK' /\ InboxOK'
      BY DEF Inv, RoutesOK, RouteOK, ConversationsOK, InboxOK, IsDelivered, InMemory
    <2> QED BY <2>1, <2>2, <2>3 DEF Inv
  <1> QED BY <1>1, <1>2, <1>3, <1>4, <1>5 DEF Next

\* The inductive invariant holds in every state the network can reach.
THEOREM Invariant == Spec => []Inv
  BY InitInv, NextInv, PTL DEF Spec

\* Every state the handlers, the sweep and the sessions reach is well formed.
THEOREM TypeCorrect == Spec => []TypeOK
  <1>1. Inv => TypeOK
    BY DEF Inv
  <1> QED BY <1>1, Invariant, PTL

\* A message that LandingService::receive hands to the listener was redeemed by
\* exactly HopLimit proxies before: routing.rs counts the routes it has stored.
THEOREM EveryHopPassed == Spec => []PassedEveryHop
  <1>1. Inv => PassedEveryHop
    BY DEF Inv, CallsOK, CallOK, InboxOK, HandedOK, PassedEveryHop
  <1> QED BY <1>1, Invariant, PTL

\* redeem_route leaves no earlier route behind: no two routes of a command
\* are ever in the repository, and the one there is the latest.
THEOREM AtMostOneRoute == Spec => []OneRouteWaits
  <1>1. Inv => OneRouteWaits
    <2> SUFFICES ASSUME Inv, InMemory, NEW m \in Sends, NEW i \in 1 .. HopLimit + 1,
                        has_route(<<m, i>>)
                 PROVE  i = call[m].hop
      BY DEF OneRouteWaits
    <2> QED BY DEF Inv, RoutesOK, RouteOK, has_route
  <1> QED BY <1>1, Invariant, PTL

\* Once a message is in the inbox, finalize and redeem_route have removed its
\* conversation and its routes.
THEOREM DeliveredLeaveNoTrace == Spec => []NoTraceOfDelivered
  <1>1. Inv => NoTraceOfDelivered
    <2> SUFFICES ASSUME Inv, NEW m \in Sends, IsDelivered(m)
                 PROVE  /\ m \notin DOMAIN conversations
                        /\ InMemory => \A i \in 1 .. HopLimit + 1 :
                                          <<m, i>> \notin DOMAIN routes
      BY DEF NoTraceOfDelivered, has_conversation, has_route
    <2>1. m \notin DOMAIN conversations
      BY DEF Inv, ConversationsOK
    <2>2. InMemory => \A n \in DOMAIN routes : n[1] # m
      BY Handed
    <2> QED BY <2>1, <2>2
  <1> QED BY <1>1, Invariant, PTL

\* The unwrap of source_info in LandingService::receive never panics.
THEOREM SourceIsThere == Spec => []LandingFindsSource
  <1>1. Inv => LandingFindsSource
    BY DEF Inv, CallsOK, CallOK, At, LandingFindsSource
  <1> QED BY <1>1, Invariant, PTL

-----------------------------------------------------------------------------
(* What a step may never do, and the promise to the users.                 *)

\* The handler steps that write to the conversations.
WritesConversations(m) ==
    \/ InitializeConversation(m) \/ RouteStoreRoute(m) \/ RouteExecSetRoute(m)
    \/ RedeemFinalize(m)

\* No handler but these four changes the conversations.
LEMMA ConversationWriters ==
    ASSUME NEW m \in Sends, Submit(m) \/ Handle(m) \/ Break(m) \/ LoseConnection(m)
    PROVE  WritesConversations(m) \/ conversations' = conversations
  BY DEF Submit, Handle, Break, RouterFails, InformerFails, PeerFails, CutAt,
         LoseConnection, WritesConversations, routeVars,
         InitializeCheckSession, InitializeGetSession, RouteCheckSession,
         RouteCheckConversation, RouteGetConversation, RoutePickClient,
         RoutePickProxy, Connect, Authenticate, RedeemCheckSession,
         RedeemCheckConversation, RedeemGetRoute, RedeemRemoveRoute,
         RedeemGetSource, Execute, Status, Receive, Reply, ReturnError,
         RouteReadConversation, CheckSession, CheckConversation, Ask, PickNext, remove_route

\* Only finalize of the same command, and the sweep of an expired entry, take
\* a conversation away: neither another command nor a session change does.
THEOREM OnlyExpiry == Spec => OnlyExpiryInterrupts
  <1> DEFINE Kept(m) == has_conversation(m) /\ ~has_conversation(m)' =>
                            \/ IsExpired(conversations[m])
                            \/ ~InMemory /\ conversations[m].left = 0
                            \/ At(m, "finalize")
  <1>1. ASSUME Inv, [Next]_vars, NEW m \in Sends
        PROVE  Kept(m)
    <2>1. CASE conversations' = conversations
      BY <2>1 DEF has_conversation
    <2>2. ASSUME NEW n \in Sends, WritesConversations(n)
          PROVE  Kept(m)
      <3>1. CASE InitializeConversation(n)
        BY <3>1 DEF InitializeConversation, set_conversation, NewConversation, Insert, has_conversation
      <3>2. CASE RouteStoreRoute(n)
        BY <3>2 DEF RouteStoreRoute, set_route, has_conversation
      <3>4. CASE RouteExecSetRoute(n)
        BY <3>4 DEF RouteExecSetRoute, exec_set_route, Insert, has_conversation
      <3>3. CASE RedeemFinalize(n)
        <4>1. CASE m = n
          BY <3>3, <4>1 DEF RedeemFinalize
        <4>2. CASE m # n
          BY <3>3, <4>2 DEF RedeemFinalize, remove_conversation, Remove, has_conversation
        <4> QED BY <4>1, <4>2
      <3> QED BY <2>2, <3>1, <3>2, <3>3, <3>4 DEF WritesConversations
    <2>3. CASE Sweep
      BY <2>3 DEF Sweep, kill_expired_routes, Retain, has_conversation
    <2>4. CASE Tick
      <3>1. CASE InMemory
        BY <2>4, <3>1 DEF Tick, RouteStoreTick, Elapse, has_conversation
      <3>2. CASE ~InMemory /\ has_conversation(m)
        <4>1. m \in DOMAIN conversations
              /\ conversations[m] \in Wrappers(Conversations, CONVERSATIONS_EXPIRATION_TIME)
          BY <1>1, <3>2 DEF Inv, TypeOK, RouteStoreTypeOK, IsMap, has_conversation
        <4>2. conversations[m].left \in Int
          BY <4>1, TTLAssumption DEF Wrappers
        <4>3. m \in DOMAIN Elapse(conversations)
              /\ (conversations[m].left > 0 => ~(Elapse(conversations)[m].left < 0))
          BY <4>1, <4>2 DEF Elapse, Wrappers
        <4>4. conversations' = Retain(Elapse(conversations))
          BY <2>4, <3>2 DEF Tick, RouteStoreTick
        <4>5. CASE conversations[m].left > 0
          <5>1. has_conversation(m)'
            BY <4>3, <4>4, <4>5 DEF Retain, IsExpired, has_conversation
          <5> QED BY <5>1
        <4>6. CASE conversations[m].left <= 0
          BY <3>2, <4>2, <4>6 DEF IsExpired
        <4>7. conversations[m].left > 0 \/ conversations[m].left <= 0
          BY <4>2
        <4> HIDE DEF Kept
        <4> QED BY <4>5, <4>6, <4>7
      <3>3. CASE ~has_conversation(m)
        BY <3>3
      <3> HIDE DEF Kept
      <3> QED BY <3>1, <3>2, <3>3
    <2>5. CASE SessionChange \/ UNCHANGED vars
      BY <2>1, <2>5 DEF SessionChange, vars, routeVars
    <2> HIDE DEF Kept
    <2> QED BY <1>1, <2>1, <2>2, <2>3, <2>4, <2>5, ConversationWriters DEF Next
  <1>2. Inv /\ [Next]_vars => [\A m \in Sends : Kept(m)]_vars
    BY <1>1
  <1> QED BY <1>2, Invariant, PTL DEF Spec, OnlyExpiryInterrupts

\* The steps a user can see: everything else leaves the promise's state alone.
Visible(m) == Submit(m) \/ Receive(m) \/ Reply(m) \/ ReturnError(m) \/ LoseConnection(m)

\* No handler but these touches commands, outcomes or inboxes.
LEMMA VisibleSteps ==
    ASSUME NEW m \in Sends, Submit(m) \/ Handle(m) \/ Break(m) \/ LoseConnection(m)
    PROVE  Visible(m) \/ UNCHANGED deliveryVars
  BY DEF Handle, Break, RouterFails, InformerFails, PeerFails, CutAt, Visible,
         InitializeCheckSession, InitializeGetSession, InitializeConversation,
         RouteCheckSession, RouteCheckConversation, RouteGetConversation,
         RoutePickClient, RoutePickProxy, RouteStoreRoute, Connect, Authenticate,
         RedeemCheckSession, RedeemCheckConversation, RedeemGetRoute,
         RedeemRemoveRoute, RedeemGetSource, RedeemFinalize, Execute, Status,
         RouteReadConversation, RouteExecSetRoute, CheckSession, CheckConversation, Ask, PickNext

\* Whatever is lost, expires or is swept on the way, the chat keeps the
\* promise of MessageDelivery: sessions, routes and handlers implement it.
THEOREM Refinement == Spec => KeepsPromise
  <1>1. Init => DeliveryInit
    BY DEF Init
  <1>2. ASSUME Inv, [Next]_vars
        PROVE  [DeliveryNext]_deliveryVars
    <2>1. CASE UNCHANGED deliveryVars
      BY <2>1
    <2>2. ASSUME NEW m \in Sends, Visible(m)
          PROVE  [DeliveryNext]_deliveryVars
      <3>0. DOMAIN call = DOMAIN command
        BY <1>2 DEF Inv, TypeOK
      <3>1. CASE Submit(m)
        <4>1. \E new \in Commands : SubmitCommand(m, new)
          BY <3>1 DEF Submit
        <4> QED BY <4>1 DEF DeliveryNext
      <3>2. CASE Receive(m)
        <4>1. m \in DOMAIN command
          BY <3>0, <3>2 DEF Receive, At
        <4>2. Deliver(m)
          BY <1>2, <3>2, <4>1, ReceiveKeeps DEF Deliver
        <4> QED BY <4>2 DEF DeliveryNext
      <3>3. CASE Reply(m)
        <4>1. m \in DOMAIN call /\ call[m].pc = "reply"
          BY <3>3 DEF Reply, At
        <4>2. command[m].cmd = "Send" => IsDelivered(m)
          BY <1>2, <4>1 DEF Inv, DeliveredOK
        <4>3. Report(m, "ok") \/ UNCHANGED deliveryVars
          BY <3>3 DEF Reply
        <4>4. Report(m, "ok") => Succeed(m)
          BY <3>0, <4>1, <4>2 DEF Succeed
        <4> QED BY <2>1, <4>3, <4>4 DEF DeliveryNext
      <3>4. CASE ReturnError(m) \/ LoseConnection(m)
        <4>1. Fail(m)
          BY <3>4 DEF ReturnError, LoseConnection, Fail
        <4> QED BY <4>1 DEF DeliveryNext
      <3> QED BY <2>2, <3>1, <3>2, <3>3, <3>4 DEF Visible
    <2>3. CASE SessionChange \/ Tick \/ Sweep \/ UNCHANGED vars
      BY <2>1, <2>3 DEF SessionChange, Tick, Sweep, vars
    <2> QED BY <1>2, <2>1, <2>2, <2>3, VisibleSteps DEF Next
  <1> QED BY <1>1, <1>2, Invariant, PTL DEF Spec, KeepsPromise, DeliverySpec

=============================================================================
