---- MODULE Members ----
(***************************************************************************)
(* Who takes part in the chat (crosscutting/src/lib.rs: Component), and    *)
(* the commands that are typed at the clients.                             *)
(***************************************************************************)

CONSTANTS
    Client,      \* uids that log in as Component::Client
    Proxy,       \* uids that log in as Component::Proxy
    Controller,  \* uids under which controllers list themselves
    Sends        \* names for the commands typed

\* A uid stands for a member of one kind.
ASSUME MemberAssumption ==
    /\ Client \cap Proxy = {}
    /\ (Client \cup Proxy) \cap Controller = {}

Member == Client \cup Proxy \cup Controller

\* route_service.rs: the addressee of a conversation that names nobody.
CONTROLLER_UID == "controller_uid"

====
