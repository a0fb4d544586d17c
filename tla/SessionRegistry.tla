---- MODULE SessionRegistry ----
(***************************************************************************)
(* What the rest of the controller may rely on from its sessions, and all  *)
(* it may rely on: which access keys are accepted and which key the        *)
(* clients/proxies/controllers index shows for each member.  Expiry,       *)
(* renewal and logout are left open: a session may end at any time.        *)
(* SessionStore and RedisSessions implement this specification; Relay is   *)
(* built on it.                                                            *)
(*                                                                         *)
(* An access key is a fresh uuid for each login; the n-th login of member  *)
(* c gets the key <<c, n>>.  The number 0 in index stands for no entry.    *)
(***************************************************************************)
EXTENDS Members, Integers

CONSTANTS
    MaxKeys,     \* bound on the logins of a member
    Connected    \* the members that are logged in when the model starts

ASSUME RegistryAssumption ==
    /\ MaxKeys \in Nat \ {0}
    /\ Connected \subseteq Member

VARIABLES
    issued,      \* the number of keys made for each member
    index,       \* the number of the key its uid leads to
    opening,     \* keys in the index whose session is not yet inserted
    sessions     \* the keys of the sessions map

sessionVars == <<issued, index, opening, sessions>>

AccessKey == Member \X (1 .. MaxKeys)

Owner(key) == key[1]

RegistryTypeOK ==
    /\ issued \in [Member -> 0 .. MaxKeys]
    /\ index \in [Member -> 0 .. MaxKeys]
    /\ opening \subseteq AccessKey
    /\ sessions \subseteq AccessKey

RegistryInit ==
    /\ issued = [c \in Member |-> IF c \in Connected THEN 1 ELSE 0]
    /\ index = issued
    /\ opening = {}
    /\ sessions = {<<c, 1>> : c \in Connected}

----

\* set_session, first half: the uid leads to the new key.
PutIndex(c) ==
    /\ issued[c] < MaxKeys
    /\ issued' = [issued EXCEPT ![c] = @ + 1]
    /\ index' = [index EXCEPT ![c] = issued[c] + 1]
    /\ opening' = opening \cup {<<c, issued[c] + 1>>}
    /\ UNCHANGED sessions

\* set_session, second half: the key is accepted.
PutSession(key) ==
    /\ key \in opening
    /\ opening' = opening \ {key}
    /\ sessions' = sessions \cup {key}
    /\ UNCHANGED <<issued, index>>

\* set_session as one transaction (Redis).
OpenSession(c) ==
    /\ issued[c] < MaxKeys
    /\ issued' = [issued EXCEPT ![c] = @ + 1]
    /\ index' = [index EXCEPT ![c] = issued[c] + 1]
    /\ sessions' = sessions \cup {<<c, issued[c] + 1>>}
    /\ UNCHANGED opening

\* Sessions end, by logout or expiry.  Index entries go with them, or before or
\* after them: in Redis every key expires by itself.
EndSessions(ended, unlisted) ==
    /\ ended \cup unlisted # {}
    /\ ended \subseteq sessions
    /\ sessions' = sessions \ ended
    /\ index' = [c \in Member |-> IF c \in unlisted THEN 0 ELSE index[c]]
    /\ UNCHANGED <<issued, opening>>

RegistryNext ==
    \/ \E c \in Member : PutIndex(c) \/ OpenSession(c)
    \/ \E key \in opening : PutSession(key)
    \/ \E unlisted \in SUBSET Member, ended \in SUBSET sessions :
          EndSessions(ended, unlisted)

RegistrySpec == RegistryInit /\ [][RegistryNext]_sessionVars

----

\* get_session(key).is_some()
has_session(key) == key \in sessions

\* The key of c that the index leads to and that the sessions map holds.
IsListed(c) == index[c] # 0 /\ <<c, index[c]>> \in sessions

\* get_client(uid).is_some()
has_client(uid) == uid \in Client /\ IsListed(uid)

\* Faulty variant: the caller is listed too.
ListedProxiesAll(key) == {p \in Proxy : IsListed(p)}

\* get_proxies(key), as a set: every listed proxy but the one of that very key.
ListedProxies(key) == {p \in Proxy : IsListed(p) /\ <<p, index[p]>> # key}

\* The keys a member has received in a login response.
KeysGivenTo(c) == {key \in AccessKey : Owner(key) = c /\ key[2] <= issued[c]} \ opening

====
