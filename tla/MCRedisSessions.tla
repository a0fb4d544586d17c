---- MODULE MCRedisSessions ----
(* RedisSessions with two controllers and a member of each kind.           *)
EXTENDS RedisSessions

CONSTANTS c1, p1, s1, s2
====
