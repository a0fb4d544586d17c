---- MODULE MCRelay ----
(***************************************************************************)
(* Relay on small networks.  Clients, proxies and commands are told apart  *)
(* only by what they do (an unsteady proxy is not interchangeable).        *)
(***************************************************************************)
EXTENDS Relay, TLC

CONSTANTS c1, c2, p1, p2, m1, m2

OneSend == {m1}
TwoSends == {m1, m2}
Clients == {c1, c2}
Proxies == {p1, p2}
Everyone == {c1, c2, p1, p2}

Interchangeable ==
    Permutations(TwoSends) \cup Permutations(Clients) \cup Permutations(Proxies)

====
