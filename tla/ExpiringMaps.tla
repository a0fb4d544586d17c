---- MODULE ExpiringMaps ----
(***************************************************************************)
(* The in-memory repositories of the controller are HashMaps whose values  *)
(* are wrapped in an ExpirationWrapper (controller/src/storage/inmemory/   *)
(* mod.rs).  A HashMap is a function whose domain is the set of its keys.  *)
(*                                                                         *)
(* The wrapper's expires_at is an Instant.  Only its distance from "now"   *)
(* is ever observed, so a wrapper keeps that distance, in ticks: left.     *)
(* Elapse is the passage of one tick.  Once expired, how long ago does not *)
(* matter, so left stops at -1 and no bound on the clock is needed.        *)
(***************************************************************************)
EXTENDS Integers

\* map is a HashMap from keys in K to values in V.
IsMap(map, K, V) == DOMAIN map \subseteq K /\ map \in [DOMAIN map -> V]

EmptyMap == [k \in {} |-> k]

\* HashMap::insert and HashMap::remove.
Insert(map, key, value) ==
    [k \in DOMAIN map \cup {key} |-> IF k = key THEN value ELSE map[k]]

Remove(map, key) == [k \in DOMAIN map \ {key} |-> map[k]]

----

Wrappers(V, ttl) == [value : V, left : -1 .. ttl]

\* ExpirationWrapper::new, is_expired (expires_at < now) and renew.
Wrap(value, expiration_time) == [value |-> value, left |-> expiration_time]

IsExpired(wrapper) == wrapper.left < 0

Renew(wrapper, expiration_time) == [wrapper EXCEPT !.left = expiration_time]

\* One tick passes for every entry of a map.
Elapse(map) ==
    [k \in DOMAIN map |->
        [map[k] EXCEPT !.left = IF @ < 0 THEN @ ELSE @ - 1]]

\* map.retain(|_, wrapper| !wrapper.is_expired())
Retain(map) == [k \in {j \in DOMAIN map : ~IsExpired(map[j])} |-> map[k]]

====
