---- MODULE MCSessionStore ----
(* SessionStore on one or two members and two member files.                *)
EXTENDS SessionStore

CONSTANTS c1, p1, k1

\* A password is changed by a new line; one line is cut short.  In the second
\* file the password that the members use is out of date, and in the third the
\* line that would change it has a field too many.
MembersFiles ==
    {<< <<c1, "old">>, <<p1, "new">>, <<c1, "new">>, <<c1>> >>,
     << <<c1, "new">>, <<p1, "new">>, <<c1, "old">> >>,
     << <<c1, "old">>, <<p1, "new">>, <<c1, "new", "new">> >>}
====
