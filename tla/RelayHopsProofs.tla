-------------------------- MODULE RelayHopsProofs ---------------------------
(***************************************************************************)
(* No proxy relays to itself, for any number of clients, proxies and       *)
(* commands.  get_proxies leaves out the session of the very key it is     *)
(* asked with, and that key may be an old one; what is followed here is    *)
(* whose key a handler asks with, from its authentication over the route   *)
(* it is given to the redeem at the next proxy.                            *)
(***************************************************************************)
EXTENDS RelayProofs

\* The member has logged in again.
Again(p) == issued[p] > 1

\* The steps at which the handler is that of the last one that redeemed.
Leaving == Early \cup Asking \cup {"connect"}

\* The steps at which the next hop is chosen and not yet called.
Chosen == {"set_route", "exec_set_route", "connect"}

\* The steps of the one that is called.
Arriving == Redeeming \cup {"source_unwrap", "finalize", "redeemed"}

Last(path) == path[Len(path)]

HopOK(r) ==
    /\ \A i \in 1 .. Len(r.path) - 1 :
          r.path[i] = r.path[i + 1] => Again(r.path[i])
    /\ r.pc \in Leaving /\ r.path # <<>> => r.at = Last(r.path)
    /\ r.at \in Proxy /\ r.pc \in Step \ {"authenticate"} =>
          Owner(r.key) = r.at /\ r.key[2] <= issued[r.at]
    /\ r.pc \in Chosen /\ r.path # <<>> /\ r.next = Last(r.path) => Again(r.next)
    /\ r.pc \in Arriving /\ r.path # <<>> /\ r.at = Last(r.path) => Again(r.at)

\* The index leads only to keys that have been made.
IndexOK == \A c \in Member : index[c] <= issued[c]

HopsOK ==
    /\ IndexOK
    /\ \A m \in DOMAIN call : HopOK(call[m])

-----------------------------------------------------------------------------
(* Steps that move one chain.                                              *)

\* What has to be shown of the new record of the chain that moves.
LEMMA HopStep ==
    ASSUME Inv, HopsOK, NEW m \in DOMAIN call, NEW r,
           call' = [call EXCEPT ![m] = r], UNCHANGED sessionVars,
           HopOK(r)
    PROVE  HopsOK'
  <1> USE DEF sessionVars
  <1>1. DOMAIN call' = DOMAIN call /\ call'[m] = r
        /\ \A n \in DOMAIN call : n # m => call'[n] = call[n]
    BY DEF Inv, TypeOK
  <1>2. IndexOK'
    BY DEF HopsOK, IndexOK
  <1>3. ASSUME NEW n \in DOMAIN call'
        PROVE  HopOK(call[n])'
    <2>1. PICK q : q = call'[n]
      OBVIOUS
    <2>2. HopOK(q)
      BY <1>1, <2>1 DEF HopsOK
    <2> QED BY <2>1, <2>2 DEF HopOK, Again
  <1> QED BY <1>2, <1>3 DEF HopsOK

\* Where a chain goes while it stays with one handler and one key.
QuietMoves ==
    {<<"init", "init_unwrap">>, <<"init_unwrap", "set_conversation">>,
     <<"set_conversation", "route">>, <<"route", "route_conversation">>,
     <<"route_conversation", "route_unwrap">>, <<"route_unwrap", "get_client">>,
     <<"route_unwrap", "get_proxies">>, <<"set_route", "exec_set_route">>,
     <<"set_route", "connect">>, <<"exec_set_route", "connect">>,
     <<"redeem", "redeem_conversation">>, <<"redeem_conversation", "get_route">>,
     <<"get_route", "remove_route">>, <<"remove_route", "source_unwrap">>,
     <<"remove_route", "redeemed">>, <<"source_unwrap", "finalize">>,
     <<"finalize", "redeemed">>, <<"status", "reply">>, <<"redeemed", "reply">>}

\* The record r may follow the record q without a hop.
Quiet(q, r) ==
    /\ r.path = q.path /\ r.at = q.at /\ r.key = q.key /\ r.next = q.next
    /\ <<q.pc, r.pc>> \in QuietMoves \/ r.pc \in Ended

\* A handler that only goes on, or ends, makes no hop.
LEMMA QuietKeeps ==
    ASSUME NEW q, NEW r, HopOK(q), Quiet(q, r)
    PROVE  HopOK(r)
  <1>1. CASE r.pc \in Ended
    BY <1>1 DEF HopOK, Quiet, Ended, Step, Leaving, Chosen, Arriving, Early, Asking,
          Redeeming
  <1>2. CASE <<q.pc, r.pc>> \in QuietMoves
    <2>1. /\ r.pc \in Leaving => q.pc \in Leaving
          /\ r.pc \in Chosen => q.pc \in Chosen
          /\ r.pc \in Arriving => q.pc \in Arriving
          /\ q.pc \in Step \ {"authenticate"}
      BY <1>2 DEF QuietMoves, Leaving, Chosen, Arriving, Early, Asking, Redeeming, Step
    <2> QED BY <2>1 DEF HopOK, Quiet
  <1> QED BY <1>1, <1>2 DEF Quiet

LEMMA QuietStep ==
    ASSUME Inv, HopsOK, NEW m \in DOMAIN call, NEW r,
           call' = [call EXCEPT ![m] = r], UNCHANGED sessionVars,
           Quiet(call[m], r)
    PROVE  HopsOK'
  BY QuietKeeps, HopStep DEF HopsOK

\* The steps that only change pc: the guards and unwraps of the handlers, the
\* answer, and a chain that is cut.
LEMMA PcStep ==
    ASSUME Inv, HopsOK, NEW m \in DOMAIN call, NEW pc,
           call' = [call EXCEPT ![m].pc = pc], UNCHANGED sessionVars,
           <<call[m].pc, pc>> \in QuietMoves \/ pc \in Ended
    PROVE  HopsOK'
  <1> DEFINE r == [call[m] EXCEPT !.pc = pc]
  <1>1. call[m] \in Calls /\ call' = [call EXCEPT ![m] = r]
    BY DEF Inv, TypeOK
  <1>2. Quiet(call[m], r)
    BY <1>1 DEF Quiet, Calls
  <1> HIDE DEF r
  <1> QED BY <1>1, <1>2, QuietStep

\* check_session, check_conversation and the unwraps after them.
LEMMA GuardHops ==
    ASSUME Inv, HopsOK, NEW m \in Sends,
           \/ InitializeCheckSession(m) \/ InitializeGetSession(m)
           \/ RouteCheckSession(m) \/ RouteCheckConversation(m)
           \/ RedeemCheckSession(m) \/ RedeemCheckConversation(m)
           \/ RouteGetConversation(m) \/ Status(m)
    PROVE  HopsOK'
  <1>1. /\ m \in DOMAIN call /\ UNCHANGED sessionVars
        /\ \E pc : /\ call' = [call EXCEPT ![m].pc = pc]
                   /\ <<call[m].pc, pc>> \in QuietMoves \/ pc \in Ended
    BY DEF InitializeCheckSession, InitializeGetSession, RouteCheckSession,
           RouteCheckConversation, RedeemCheckSession, RedeemCheckConversation,
           RouteGetConversation, Status, CheckSession, CheckConversation, Ask, At,
           QuietMoves, Ended
  <1> QED BY <1>1, PcStep

\* The steps that write to the repository, and the reply.
LEMMA WriterHops ==
    ASSUME Inv, HopsOK, NEW m \in Sends,
           \/ InitializeConversation(m) \/ RedeemRemoveRoute(m) \/ RedeemFinalize(m)
           \/ Receive(m) \/ Reply(m) \/ Break(m)
    PROVE  HopsOK'
  <1>1. /\ m \in DOMAIN call /\ UNCHANGED sessionVars
        /\ \E pc : /\ call' = [call EXCEPT ![m].pc = pc]
                   /\ <<call[m].pc, pc>> \in QuietMoves \/ pc \in Ended
    BY DEF InitializeConversation, RedeemRemoveRoute, RedeemFinalize, Receive, Reply,
           Break, RouterFails, InformerFails, PeerFails, CutAt, Running, At,
           QuietMoves, Ended
  <1> QED BY <1>1, PcStep

\* The steps that change another field than pc, but none that HopOK is about.
LEMMA RecordHops ==
    ASSUME Inv, HopsOK, NEW m \in Sends,
           \/ RouteStoreRoute(m) \/ RouteReadConversation(m) \/ RouteExecSetRoute(m)
           \/ RedeemGetRoute(m) \/ RedeemGetSource(m)
    PROVE  HopsOK'
  <1>1. m \in DOMAIN call /\ UNCHANGED sessionVars
    BY DEF RouteStoreRoute, RouteReadConversation, RouteExecSetRoute, RedeemGetRoute,
           RedeemGetSource, At
  <1>2. call[m] \in Calls /\ DOMAIN call = DOMAIN command
        /\ call \in [DOMAIN command -> Calls]
    BY <1>1 DEF Inv, TypeOK
  <1>3. CASE RouteStoreRoute(m)
    <2> DEFINE r == [call[m] EXCEPT !.hop = @ + 1,
                        !.pc = IF has_conversation(m) THEN "connect" ELSE "failed"]
    <2>1. call' = [call EXCEPT ![m] = r]
      BY <1>1, <1>2, <1>3 DEF RouteStoreRoute
    <2>2. Quiet(call[m], r)
      BY <1>2, <1>3 DEF RouteStoreRoute, At, Quiet, QuietMoves, Ended, Calls
    <2> HIDE DEF r
    <2> QED BY <1>1, <2>1, <2>2, QuietStep
  <1>4. CASE RouteReadConversation(m) /\ has_conversation(m)
    <2> DEFINE r == [call[m] EXCEPT !.pc = "exec_set_route",
                                    !.copy = get_conversation(m)]
    <2>1. call' = [call EXCEPT ![m] = r]
      BY <1>1, <1>2, <1>4 DEF RouteReadConversation
    <2>2. Quiet(call[m], r)
      BY <1>2, <1>4 DEF RouteReadConversation, At, Quiet, QuietMoves, Calls
    <2> HIDE DEF r
    <2> QED BY <1>1, <2>1, <2>2, QuietStep
  <1>5. CASE RouteExecSetRoute(m)
    <2> DEFINE r == [call[m] EXCEPT !.hop = @ + 1, !.copy = NoConversation,
                                    !.pc = "connect"]
    <2>1. call' = [call EXCEPT ![m] = r]
      BY <1>1, <1>2, <1>5 DEF RouteExecSetRoute
    <2>2. Quiet(call[m], r)
      BY <1>2, <1>5 DEF RouteExecSetRoute, At, Quiet, QuietMoves, Calls
    <2> HIDE DEF r
    <2> QED BY <1>1, <2>1, <2>2, QuietStep
  <1>6. CASE RedeemGetRoute(m) /\ has_route(NonceOf(m))
    <2> DEFINE r == [call[m] EXCEPT !.pc = "remove_route",
                                    !.end = get_route(NonceOf(m)).end_route]
    <2>1. call' = [call EXCEPT ![m] = r]
      BY <1>1, <1>2, <1>6 DEF RedeemGetRoute
    <2>2. Quiet(call[m], r)
      BY <1>2, <1>6 DEF RedeemGetRoute, At, Quiet, QuietMoves, Calls
    <2> HIDE DEF r
    <2> QED BY <1>1, <2>1, <2>2, QuietStep
  <1>7. CASE RedeemGetSource(m) /\ has_conversation(m)
    <2> DEFINE r == [call[m] EXCEPT !.pc = "finalize",
                                    !.source = get_conversation(m).from]
    <2>1. call' = [call EXCEPT ![m] = r]
      BY <1>1, <1>2, <1>7 DEF RedeemGetSource
    <2>2. Quiet(call[m], r)
      BY <1>2, <1>7 DEF RedeemGetSource, At, Quiet, QuietMoves, Calls
    <2> HIDE DEF r
    <2> QED BY <1>1, <2>1, <2>2, QuietStep
  <1>8. CASE \/ RouteReadConversation(m) /\ ~has_conversation(m)
             \/ RedeemGetRoute(m) /\ ~has_route(NonceOf(m))
             \/ RedeemGetSource(m) /\ ~has_conversation(m)
    <2>1. \E pc \in Ended : call' = [call EXCEPT ![m].pc = pc]
      BY <1>8 DEF RouteReadConversation, RedeemGetRoute, RedeemGetSource, Ended
    <2> QED BY <1>1, <2>1, PcStep
  <1> QED BY <1>3, <1>4, <1>5, <1>6, <1>7, <1>8

-----------------------------------------------------------------------------
(* The steps that make up a hop.                                           *)

\* A member that the index lists under another key than the caller's is not the
\* caller, or has logged in more than once.
LEMMA PickHops ==
    ASSUME Inv, HopsOK, NEW m \in DOMAIN call, NEW unwraps, NEW candidates,
           NEW end \in BOOLEAN,
           call[m].pc \in {"get_client", "get_proxies"},
           PickNext(m, unwraps, candidates, end),
           \A c \in candidates : c \in Proxy => c # call[m].at \/ Again(c)
    PROVE  HopsOK'
  <1>1. UNCHANGED sessionVars /\ call[m] \in Calls /\ HopOK(call[m])
        /\ call \in [DOMAIN command -> Calls] /\ DOMAIN call = DOMAIN command
    BY DEF PickNext, Inv, TypeOK, HopsOK
  <1>2. CASE \E pc \in Ended : call' = [call EXCEPT ![m].pc = pc]
    BY <1>1, <1>2, PcStep
  <1>3. ASSUME NEW c \in candidates,
               call' = [call EXCEPT ![m].pc = "set_route", ![m].next = c,
                                    ![m].end = end]
        PROVE  HopsOK'
    <2> DEFINE r == [call[m] EXCEPT !.pc = "set_route", !.next = c, !.end = end]
    <2>1. call' = [call EXCEPT ![m] = r]
      BY <1>1, <1>3
    <2>2. /\ r.pc = "set_route" /\ r.next = c /\ r.at = call[m].at
          /\ r.path = call[m].path /\ r.key = call[m].key
      BY <1>1 DEF Calls
    <2> HIDE DEF r
    <2>3. call[m].pc \in Leaving /\ call[m].pc \in Step \ {"authenticate"}
          /\ r.pc \notin Arriving
      BY <2>2 DEF Leaving, Asking, Step, Arriving, Redeeming
    <2>4. r.path # <<>> /\ r.next = Last(r.path) => Again(r.next)
      <3> SUFFICES ASSUME r.path # <<>>, r.next = Last(r.path)
                   PROVE  Again(r.next)
        OBVIOUS
      <3>1. r.path \in Seq(Proxy)
        BY <1>1, <2>2 DEF Calls
      <3>2. Len(r.path) \in 1 .. Len(r.path)
        BY <3>1
      <3>3. Last(r.path) \in Proxy
        BY <3>1, <3>2 DEF Last
      <3>4. call[m].at = Last(r.path)
        BY <1>1, <2>2, <2>3 DEF HopOK
      <3> QED BY <2>2, <3>3, <3>4
    <2>5. HopOK(r)
      BY <1>1, <2>2, <2>3, <2>4 DEF HopOK
    <2> QED BY <1>1, <2>1, <2>5, HopStep
  <1> QED BY <1>2, <1>3 DEF PickNext, Ended

\* get_client names a client.
LEMMA RoutePickClientHops ==
    ASSUME Inv, HopsOK, NEW m \in Sends, RoutePickClient(m)
    PROVE  HopsOK'
  <1> DEFINE candidates == {c \in Client : c = command[m].to /\ has_client(c)}
  <1>1. /\ m \in DOMAIN call /\ call[m].pc = "get_client"
        /\ PickNext(m, ClientUnwraps(command[m].to), candidates, TRUE)
    BY DEF RoutePickClient, At
  <1>2. \A c \in candidates : c \notin Proxy
    BY MemberAssumption
  <1> HIDE DEF candidates
  <1> QED BY <1>1, <1>2, PickHops

\* get_proxies names the caller only if the index has a newer or an older key
\* of it than the one it asks with.
LEMMA RoutePickProxyHops ==
    ASSUME Inv, HopsOK, NEW m \in Sends, RoutePickProxy(m)
    PROVE  HopsOK'
  <1>1. /\ m \in DOMAIN call /\ call[m].pc = "get_proxies"
        /\ PickNext(m, ProxiesUnwrap, NextProxies(call[m].key), FALSE)
    BY DEF RoutePickProxy, At
  <1>2. HopOK(call[m]) /\ call[m] \in Calls /\ call[m].pc \in Step \ {"authenticate"}
    BY <1>1 DEF HopsOK, Inv, TypeOK, Step
  <1>3. ASSUME NEW p \in NextProxies(call[m].key), p = call[m].at, p \in Proxy
        PROVE  Again(p)
    <2>1. p \in Member /\ IsListed(p) /\ <<p, index[p]>> # call[m].key
      BY <1>3, NextProxiesListed DEF ListedProxies, Member
    <2>2. Owner(call[m].key) = p /\ call[m].key[2] <= issued[p]
      BY <1>2, <1>3 DEF HopOK
    <2>3. call[m].key \in Member \X (1 .. MaxKeys)
      BY <1>2 DEF Calls, AccessKey
    <2>4. call[m].key[2] # index[p]
      BY <2>1, <2>2, <2>3 DEF Owner
    <2>5. index[p] \in Nat /\ issued[p] \in Nat /\ index[p] # 0 /\ index[p] <= issued[p]
      BY <2>1, RegistryAssumption DEF Inv, TypeOK, RegistryTypeOK, HopsOK, IndexOK, IsListed
    <2>6. call[m].key[2] \in Nat /\ call[m].key[2] >= 1
      BY <2>3, RegistryAssumption
    <2> QED BY <2>2, <2>4, <2>5, <2>6 DEF Again
  <1> QED BY <1>1, <1>3, PickHops

\* The one that is called takes over: it was chosen under the caller's key.
LEMMA ConnectHops ==
    ASSUME Inv, HopsOK, NEW m \in Sends, Connect(m)
    PROVE  HopsOK'
  <1> DEFINE pc == IF call[m].end /\ call[m].at \in Proxy THEN "redeem" ELSE "authenticate"
             r == [call[m] EXCEPT !.at = call[m].next, !.pc = pc]
  <1>1. /\ m \in DOMAIN call /\ call[m].pc = "connect" /\ UNCHANGED sessionVars
        /\ call' = [call EXCEPT ![m].at = call[m].next, ![m].pc = pc]
    BY DEF Connect, At
  <1>2. /\ call[m] \in Calls /\ HopOK(call[m]) /\ CallOK(call[m], command[m])
        /\ call \in [DOMAIN command -> Calls] /\ DOMAIN call = DOMAIN command
        /\ command[m] \in Commands
    BY <1>1 DEF Inv, TypeOK, CallsOK, HopsOK, IsMap
  <1>3. call' = [call EXCEPT ![m] = r]
    BY <1>1, <1>2
  <1>4. /\ pc = "redeem" => call[m].end
        /\ pc \in {"redeem", "authenticate"}
    OBVIOUS
  <1> HIDE DEF pc
  <1>5. /\ r.pc = pc /\ r.at = call[m].next /\ r.path = call[m].path
        /\ r.key = call[m].key /\ r.next = call[m].next
    BY <1>2 DEF Calls
  <1> HIDE DEF r
  <1>6. pc = "redeem" => r.at \notin Proxy
    <2>1. call[m].end => call[m].next = command[m].to /\ command[m].cmd = "Send"
      BY <1>1, <1>2 DEF CallOK, NextOK
    <2>2. command[m].cmd = "Send" => command[m].to \in Client
      BY <1>2 DEF Commands
    <2> QED BY <1>4, <1>5, <2>1, <2>2, MemberAssumption
  <1>7. r.pc \notin Leaving /\ r.pc \notin Chosen /\ call[m].pc \in Chosen
    BY <1>1, <1>4, <1>5 DEF Leaving, Chosen, Early, Asking
  <1>8. HopOK(r)
    BY <1>2, <1>4, <1>5, <1>6, <1>7 DEF HopOK
  <1> QED BY <1>1, <1>3, <1>8, HopStep

\* check_authentication: the key is one of the proxy that was called.
LEMMA AuthenticateHops ==
    ASSUME Inv, HopsOK, NEW m \in Sends, Authenticate(m)
    PROVE  HopsOK'
  <1>1. m \in DOMAIN call /\ call[m].pc = "authenticate" /\ UNCHANGED sessionVars
    BY DEF Authenticate, At
  <1>2. /\ call[m] \in Calls /\ HopOK(call[m])
        /\ call \in [DOMAIN command -> Calls] /\ DOMAIN call = DOMAIN command
    BY <1>1 DEF Inv, TypeOK, HopsOK
  <1>3. CASE call' = [call EXCEPT ![m].pc = "failed"]
    BY <1>1, <1>3, PcStep DEF Ended
  <1>4. ASSUME NEW key \in KeysGivenTo(call[m].at),
               call' = [call EXCEPT ![m].pc = "redeem", ![m].key = key]
        PROVE  HopsOK'
    <2> DEFINE r == [call[m] EXCEPT !.pc = "redeem", !.key = key]
    <2>1. call' = [call EXCEPT ![m] = r]
      BY <1>1, <1>2, <1>4
    <2>2. /\ r.pc = "redeem" /\ r.key = key /\ r.at = call[m].at
          /\ r.path = call[m].path /\ r.next = call[m].next
      BY <1>2 DEF Calls
    <2> HIDE DEF r
    <2>3. Owner(key) = call[m].at /\ key[2] <= issued[call[m].at]
      BY DEF KeysGivenTo
    <2>4. r.pc \notin Leaving /\ r.pc \notin Chosen /\ call[m].pc \in Arriving
      BY <1>1, <2>2 DEF Leaving, Chosen, Early, Asking, Arriving, Redeeming
    <2>5. HopOK(r)
      BY <1>2, <2>2, <2>3, <2>4 DEF HopOK
    <2> QED BY <1>1, <2>1, <2>5, HopStep
  <1> QED BY <1>3, <1>4 DEF Authenticate

\* execute_command: the proxy is the last on the path from now on.
LEMMA ExecuteHops ==
    ASSUME Inv, HopsOK, NEW m \in Sends, Execute(m)
    PROVE  HopsOK'
  <1> DEFINE pc == IF command[m].cmd = "Status" THEN "status" ELSE "route"
             path == call[m].path
             r == [call[m] EXCEPT !.path = Append(path, call[m].at), !.pc = pc]
  <1>1. /\ m \in DOMAIN call /\ call[m].pc = "redeemed" /\ call[m].at \in Proxy
        /\ UNCHANGED sessionVars
    BY DEF Execute, At
  <1>2. /\ call[m] \in Calls /\ HopOK(call[m])
        /\ call \in [DOMAIN command -> Calls] /\ DOMAIN call = DOMAIN command
    BY <1>1 DEF Inv, TypeOK, HopsOK
  <1>3. call' = [call EXCEPT ![m] = r]
    BY <1>1, <1>2 DEF Execute
  <1>4. pc \in {"status", "route"}
    OBVIOUS
  <1> HIDE DEF pc
  <1>5. /\ r.pc = pc /\ r.path = Append(path, call[m].at) /\ r.at = call[m].at
        /\ r.key = call[m].key
    BY <1>2 DEF Calls
  <1> HIDE DEF r
  <1>6. path \in Seq(Proxy)
    BY <1>2 DEF Calls
  <1>7. /\ r.path # <<>> /\ Len(r.path) = Len(path) + 1 /\ Last(r.path) = r.at
        /\ \A i \in 1 .. Len(path) : r.path[i] = path[i]
        /\ path # <<>> <=> Len(path) > 0
        /\ Len(path) \in Nat
    BY <1>1, <1>5, <1>6 DEF Last
  <1>8. \A i \in 1 .. Len(r.path) - 1 : r.path[i] = r.path[i + 1] => Again(r.path[i])
    <2> SUFFICES ASSUME NEW i \in 1 .. Len(path), r.path[i] = r.path[i + 1]
                 PROVE  Again(r.path[i])
      BY <1>7
    <2>1. CASE i < Len(path)
      <3>1. i \in 1 .. Len(path) - 1 /\ i + 1 \in 1 .. Len(path)
        BY <1>7, <2>1
      <3> QED BY <1>2, <1>7, <3>1 DEF HopOK
    <2>2. CASE i = Len(path)
      <3>1. call[m].pc \in Arriving /\ path # <<>>
        BY <1>1, <1>7, <2>2 DEF Arriving
      <3>2. r.path[i + 1] = call[m].at /\ r.path[i] = Last(path)
        BY <1>5, <1>7, <2>2 DEF Last
      <3> QED BY <1>2, <3>1, <3>2 DEF HopOK
    <2> QED BY <1>7, <2>1, <2>2
  <1>9. /\ r.pc \notin Chosen /\ r.pc \notin Arriving
        /\ call[m].pc \in Step \ {"authenticate"}
    BY <1>1, <1>4, <1>5 DEF Chosen, Arriving, Redeeming, Step
  <1>10. HopOK(r)
    BY <1>1, <1>2, <1>5, <1>7, <1>8, <1>9 DEF HopOK
  <1> QED BY <1>1, <1>3, <1>10, HopStep

-----------------------------------------------------------------------------
(* A new command, and the sessions.                                        *)

\* A command starts at a client, with no path.
LEMMA SubmitHops ==
    ASSUME Inv, HopsOK, NEW m \in Sends, Submit(m)
    PROVE  HopsOK'
  <1>1. PICK new \in Commands :
            /\ SubmitCommand(m, new)
            /\ \E key \in KeysGivenTo(new.from) :
                  call' = Insert(call, m, NewCall(new.from, key))
    BY DEF Submit
  <1>2. PICK key \in KeysGivenTo(new.from) :
            call' = Insert(call, m, NewCall(new.from, key))
    BY <1>1
  <1> DEFINE r == NewCall(new.from, key)
  <1>3. UNCHANGED <<issued, index>>
    BY DEF Submit, sessionVars
  <1>4. new.from \notin Proxy
    BY MemberAssumption DEF Commands
  <1>5. r.path = <<>> /\ r.at = new.from
    BY DEF NewCall
  <1> HIDE DEF r
  <1>6. HopOK(r)
    BY <1>4, <1>5 DEF HopOK
  <1>7. ASSUME NEW n \in DOMAIN call'
        PROVE  HopOK(call[n])'
    <2>1. PICK q : q = call'[n]
      OBVIOUS
    <2>2. HopOK(q)
      BY <1>2, <1>6, <2>1 DEF Insert, HopsOK, r
    <2> QED BY <1>3, <2>1, <2>2 DEF HopOK, Again
  <1> QED BY <1>3, <1>7 DEF HopsOK, IndexOK

\* Logins make keys and never take one back.
LEMMA SessionHops ==
    ASSUME Inv, HopsOK, SessionChange
    PROVE  HopsOK'
  <1>1. /\ issued \in [Member -> 0 .. MaxKeys] /\ index \in [Member -> 0 .. MaxKeys]
        /\ call \in [DOMAIN command -> Calls] /\ UNCHANGED call /\ MaxKeys \in Nat
        /\ opening \subseteq AccessKey
    BY RegistryAssumption DEF Inv, TypeOK, RegistryTypeOK, SessionChange
  <1>2. (\A c \in Member : issued'[c] \in Nat /\ issued[c] <= issued'[c]) /\ IndexOK'
    <2>1. ASSUME NEW c \in Member, PutIndex(c) \/ OpenSession(c)
          PROVE  (\A d \in Member : issued'[d] \in Nat /\ issued[d] <= issued'[d]) /\ IndexOK'
      BY <1>1, <2>1 DEF PutIndex, OpenSession, HopsOK, IndexOK
    <2>2. ASSUME NEW key, PutSession(key)
          PROVE  (\A d \in Member : issued'[d] \in Nat /\ issued[d] <= issued'[d]) /\ IndexOK'
      BY <1>1, <2>2 DEF PutSession, HopsOK, IndexOK
    <2>3. ASSUME NEW ended, NEW unlisted, EndSessions(ended, unlisted)
          PROVE  (\A d \in Member : issued'[d] \in Nat /\ issued[d] <= issued'[d]) /\ IndexOK'
      BY <1>1, <2>3 DEF EndSessions, HopsOK, IndexOK
    <2>4. Unsteady \subseteq Member
      BY RelayAssumption
    <2> QED BY <2>1, <2>2, <2>3, <2>4 DEF SessionChange
  <1>3. ASSUME NEW n \in DOMAIN call'
        PROVE  HopOK(call[n])'
    <2>0. PICK r : r = call[n]
      OBVIOUS
    <2>1. HopOK(r) /\ r \in Calls /\ call'[n] = r
      BY <1>1, <1>3, <2>0 DEF HopsOK
    <2>2. \A p \in Proxy : Again(p) => Again(p)'
      BY <1>1, <1>2 DEF Again, Member
    <2>3. r.path \in Seq(Proxy) /\ r.key \in Member \X (1 .. MaxKeys)
      BY <2>1 DEF Calls, AccessKey
    <2>4. \A i \in 1 .. Len(r.path) : r.path[i] \in Proxy
      BY <2>3
    <2>5. r.path # <<>> => Last(r.path) \in Proxy
      BY <2>3, <2>4 DEF Last
    <2>6. \A i \in 1 .. Len(r.path) - 1 :
              r.path[i] = r.path[i + 1] => Again(r.path[i])'
      BY <2>1, <2>2, <2>3, <2>4 DEF HopOK
    <2>7. r.at \in Proxy /\ r.key[2] <= issued[r.at] => r.key[2] <= issued'[r.at]
      BY <1>1, <1>2, <2>3 DEF Member
    <2> QED BY <2>1, <2>2, <2>5, <2>6, <2>7 DEF HopOK
  <1> QED BY <1>2, <1>3 DEF HopsOK

-----------------------------------------------------------------------------

\* Members that are logged in at the start have one key, which the index has.
LEMMA InitHops == Init => HopsOK
  BY DEF Init, RegistryInit, EmptyMap, HopsOK, IndexOK

\* Every step of every handler and of the environment keeps HopsOK.
LEMMA NextHops == Inv /\ HopsOK /\ [Next]_vars => HopsOK'
  <1> SUFFICES ASSUME Inv, HopsOK, [Next]_vars PROVE HopsOK'
    OBVIOUS
  <1>1. CASE UNCHANGED <<call, issued, index>>
    BY <1>1 DEF HopsOK, HopOK, IndexOK, Again
  <1>2. ASSUME NEW m \in Sends, Handle(m)
        PROVE  HopsOK'
    <2>1. CASE ReturnError(m)
      BY <1>1, <2>1 DEF ReturnError, sessionVars
    <2> QED BY <1>2, <2>1, GuardHops, WriterHops, RecordHops, RoutePickClientHops,
               RoutePickProxyHops, ConnectHops, AuthenticateHops, ExecuteHops,
               Zenon DEF Handle
  <1>3. ASSUME NEW m \in Sends, Submit(m) \/ Break(m)
        PROVE  HopsOK'
    BY <1>3, SubmitHops, WriterHops
  <1>4. ASSUME NEW m \in Sends, LoseConnection(m)
        PROVE  HopsOK'
    BY <1>1, <1>4 DEF LoseConnection, sessionVars
  <1>5. CASE SessionChange
    BY <1>5, SessionHops
  <1>6. CASE Tick \/ Sweep \/ UNCHANGED vars
    BY <1>1, <1>6 DEF Tick, Sweep, vars, sessionVars
  <1> QED BY <1>2, <1>3, <1>4, <1>5, <1>6 DEF Next

\* get_proxies never leads a message from a proxy back to the same proxy,
\* unless that proxy has logged in again.
THEOREM NoSelfHop == Spec => []NoHopToItself
  <1>1. HopsOK => NoHopToItself
    BY DEF HopsOK, HopOK, Again, NoHopToItself
  <1> QED BY <1>1, InitHops, NextHops, Invariant, PTL DEF Spec

=============================================================================
