---- MODULE MCClient ----
(* ClientProcess with a few telling lines.                                 *)
EXTENDS ClientProcess

\* " /SEND e  h ": well formed; find minds the case.
Capital == <<" ", "/", "S", "E", "N", "D", " ", "e", " ", " ", "h", " ">>

\* "/send nd": no message, but as the name occurs in the command word one is
\* found.
NoMessage == <<"/", "s", "e", "n", "d", " ", "n", "d">>

\* "/send b": no message.
Incomplete == <<"/", "s", "e", "n", "d", " ", "b">>

\* "/status b".
StatusLine == <<"/", "s", "t", "a", "t", "u", "s", " ", "b">>

TypedLines == {Capital, NoMessage, Incomplete, StatusLine}
====
