---- MODULE MCLocks ----
(* RepositoryLocks on the mixes of tasks that share locks.                 *)
EXTENDS RepositoryLocks

\* The n-th tasks of these operations.
Tasks(n, operations) == operations \X {n}

\* All operations but get_client and get_proxies, by the locks they share.
SafeMixes ==
    {Tasks(1, {"kill_expired_routes", "set_route", "get_conversation"})
        \cup Tasks(2, {"set_route"}),
     Tasks(1, {"get_route", "set_route", "remove_route", "set_conversation",
               "remove_conversation"}),
     Tasks(1, {"kill_expired_sessions", "set_session", "remove_session"})
        \cup Tasks(2, {"set_session"}),
     Tasks(1, {"get_session", "remove_session", "count_clients"})
        \cup Tasks(2, {"remove_session"}),
     Tasks(1, {"redis_set_route", "redis_get_route"}) \cup Tasks(2, {"redis_set_route"}),
     Tasks(1, {"authenticate", "ping", "logout", "check_authentication",
               "start_cmd_handler"})}

\* A look-up beside the sweep and a check of a session.
LookupMixes == {Tasks(1, {"kill_expired_sessions", "get_client", "get_session"})}
====
