--------------------------- MODULE ClientProcess ---------------------------
(***************************************************************************)
(* The tasks of the client (client/src/main.rs) around one another: the    *)
(* thread that reads standard input, the command loop, the authentication  *)
(* loop with its session (gateway/src/auth.rs, auth_client.rs), the        *)
(* landing service with its channel to the listener, and the shutdown.     *)
(*                                                                         *)
(* What the controller does with a login, a ping or a command is left      *)
(* open: each may succeed or fail (SessionStore and Relay tell how).  A    *)
(* key is the number of the login that brought it, 0 is None.              *)
(***************************************************************************)
EXTENDS CommandLine

CONSTANTS
    Lines,        \* what may be typed
    MaxLines,     \* bound on the lines typed
    MaxKeys,      \* bound on the logins that succeed
    MaxMessages,  \* bound on the messages that arrive
    Capacity      \* of the channel to the listener

ASSUME ClientAssumption ==
    /\ \A line \in Lines : line \in Seq(STRING) /\ trim(line) # <<>>
    /\ MaxLines \in Nat /\ MaxKeys \in Nat /\ MaxMessages \in Nat
    /\ Capacity \in Nat \ {0}

VARIABLES
    typed,        \* the lines the input thread has sent
    taken,        \* how many of them the command loop has received
    handler,      \* the command loop
    ran,          \* the commands it began, with what it knew then
    session,      \* access_key in the ClientSession of the command loop
    auth,         \* the authentication loop
    own_session,  \* access_key in the ClientSession of the authenticator
    shared,       \* these two are the same ClientSession
    arrived,      \* how many messages have come to the landing service
    waiting,      \* receive calls that have not put theirs in the channel
    cut,          \* receive calls that were dropped before they could
    channel,
    printed,      \* by the listener
    main,
    cancelled

cmdVars == <<typed, taken, handler, ran>>
authVars == <<session, auth, own_session, shared>>
messageVars == <<arrived, waiting, cut, channel, printed>>
mainVars == <<main, cancelled>>
vars == <<cmdVars, authVars, messageVars, mainVars>>

Key == 0 .. MaxKeys
Message == 1 .. MaxMessages

NoLine == <<>>

\* What each line is parsed to.
Command == [line \in Lines |-> from_str(line)]

TypeOK ==
    /\ typed \in Seq(Lines) /\ Len(typed) <= MaxLines
    /\ taken \in 0 .. Len(typed)
    /\ handler \in [pc : {"check", "recv", "key", "run", "ended"},
                    line : Lines \cup {NoLine}]
    /\ \A i \in DOMAIN ran : ran[i] \in [key : Key, newest : Key, late : BOOLEAN]
    /\ session \in Key
    /\ auth \in {"check", "login", "keep_alive", "ping", "logout", "ended"}
    /\ own_session \in Key
    /\ shared \in BOOLEAN
    /\ arrived \in 0 .. MaxMessages
    /\ waiting \subseteq 1 .. arrived
    /\ cut \subseteq 1 .. arrived
    /\ channel \in Seq(Message) /\ Len(channel) <= Capacity
    /\ printed \in Seq(Message)
    /\ main \in {"ctrl_c", "await_auth", "await_cmd", "exited"}
    /\ cancelled \in BOOLEAN

Init ==
    /\ typed = <<>> /\ taken = 0
    /\ handler = [pc |-> "check", line |-> NoLine]
    /\ ran = <<>>
    /\ session = 0 /\ own_session = 0 /\ shared = TRUE
    /\ auth = "check"
    /\ arrived = 0 /\ waiting = {} /\ cut = {} /\ channel = <<>> /\ printed = <<>>
    /\ main = "ctrl_c" /\ cancelled = FALSE

-----------------------------------------------------------------------------
(* start_input_thread and start_cmd_handler.                               *)

\* Blank lines are not sent.
TypeLine(line) ==
    /\ Len(typed) < MaxLines
    /\ typed' = Append(typed, line)
    /\ UNCHANGED <<taken, handler, ran, authVars, messageVars, mainVars>>

\* Faulty variant: the token is looked at when there is nothing to do.
CheckCancelledIdle ==
    /\ handler.pc = "check"
    /\ handler' = [handler EXCEPT !.pc =
          IF cancelled /\ taken = Len(typed) THEN "ended" ELSE "recv"]
    /\ UNCHANGED <<typed, taken, ran, authVars, messageVars, mainVars>>

CheckCancelled ==
    /\ handler.pc = "check"
    /\ handler' = [handler EXCEPT !.pc = IF cancelled THEN "ended" ELSE "recv"]
    /\ UNCHANGED <<typed, taken, ran, authVars, messageVars, mainVars>>

\* recv_timeout, and the command is parsed.
RecvLine ==
    /\ handler.pc = "recv"
    /\ taken < Len(typed)
    /\ taken' = taken + 1
    /\ handler' = IF Command[typed[taken + 1]] = Err
                  THEN [pc |-> "check", line |-> NoLine]
                  ELSE [pc |-> "key", line |-> typed[taken + 1]]
    /\ UNCHANGED <<typed, ran, authVars, messageVars, mainVars>>

RecvTimeout ==
    /\ handler.pc = "recv"
    /\ taken = Len(typed)
    /\ handler' = [handler EXCEPT !.pc = "check"]
    /\ UNCHANGED <<typed, taken, ran, authVars, messageVars, mainVars>>

\* Without a key the loop returns, for good.
ReadKey ==
    /\ handler.pc = "key"
    /\ IF session = 0
       THEN handler' = [pc |-> "ended", line |-> NoLine] /\ UNCHANGED ran
       ELSE /\ handler' = [handler EXCEPT !.pc = "run"]
            /\ ran' = Append(ran, [key |-> session, newest |-> own_session,
                                   late |-> cancelled])
    /\ UNCHANGED <<typed, taken, authVars, messageVars, mainVars>>

\* The command has its response or its error, which are only logged.
CommandEnds ==
    /\ handler.pc = "run"
    /\ handler' = [pc |-> "check", line |-> NoLine]
    /\ UNCHANGED <<typed, taken, ran, authVars, messageVars, mainVars>>

HandlerStep == CheckCancelled \/ RecvLine \/ RecvTimeout \/ ReadKey \/ CommandEnds

-----------------------------------------------------------------------------
(* start_auth_handler.                                                     *)

CheckAuth ==
    /\ auth = "check"
    /\ auth' = IF cancelled THEN "logout" ELSE "login"
    /\ UNCHANGED <<session, own_session, shared, cmdVars, messageVars, mainVars>>

Login ==
    /\ auth = "login"
    /\ own_session < MaxKeys
    /\ auth' = "keep_alive"
    /\ own_session' = own_session + 1
    /\ session' = IF shared THEN own_session + 1 ELSE session
    /\ UNCHANGED <<shared, cmdVars, messageVars, mainVars>>

\* Faulty variant: a login that fails clears the session.
LoginErrorClears ==
    /\ auth = "login"
    /\ auth' = "check"
    /\ session' = IF shared THEN 0 ELSE session
    /\ UNCHANGED <<own_session, shared, cmdVars, messageVars, mainVars>>

\* The old key, if any, stays.
LoginError ==
    /\ auth = "login"
    /\ auth' = "check"
    /\ UNCHANGED <<session, own_session, shared, cmdVars, messageVars, mainVars>>

\* Faulty variant: keep_alive does not look at the token.
KeepAliveOn ==
    /\ auth = "keep_alive"
    /\ auth' = "ping"
    /\ UNCHANGED <<session, own_session, shared, cmdVars, messageVars, mainVars>>

KeepAlive ==
    /\ auth = "keep_alive"
    /\ auth' = IF cancelled THEN "logout" ELSE "ping"
    /\ UNCHANGED <<session, own_session, shared, cmdVars, messageVars, mainVars>>

Ping ==
    /\ auth = "ping"
    /\ auth' = "keep_alive"
    /\ UNCHANGED <<session, own_session, shared, cmdVars, messageVars, mainVars>>

\* Faulty variant: the session is given up, as logout does.
PingErrorReplaces ==
    /\ auth = "ping"
    /\ auth' = "check"
    /\ shared' = FALSE
    /\ UNCHANGED <<session, own_session, cmdVars, messageVars, mainVars>>

PingError ==
    /\ auth = "ping"
    /\ auth' = "check"
    /\ UNCHANGED <<session, own_session, shared, cmdVars, messageVars, mainVars>>

\* logout replaces the authenticator's session; the command loop keeps the old
\* one, and its key.
Logout ==
    /\ auth = "logout"
    /\ auth' = "ended"
    /\ own_session' = 0
    /\ shared' = FALSE
    /\ UNCHANGED <<session, cmdVars, messageVars, mainVars>>

LogoutError ==
    /\ auth = "logout"
    /\ auth' = "ended"
    /\ UNCHANGED <<session, own_session, shared, cmdVars, messageVars, mainVars>>

AuthStep ==
    \/ CheckAuth
    \/ Login
    \/ LoginError
    \/ KeepAlive
    \/ Ping
    \/ PingError
    \/ Logout
    \/ LogoutError

-----------------------------------------------------------------------------
(* LandingService::receive after its redeem, and start_listener_handler.   *)

\* server_handle.abort() lets no more connections in; those that are there are
\* served until main returns.
Receive ==
    /\ arrived < MaxMessages
    /\ arrived' = arrived + 1
    /\ waiting' = waiting \cup {arrived + 1}
    /\ UNCHANGED <<cut, channel, printed, cmdVars, authVars, mainVars>>

\* Faulty variant: the channel has no limit.
SendUnbounded(n) ==
    /\ n \in waiting
    /\ channel' = Append(channel, n)
    /\ waiting' = waiting \ {n}
    /\ UNCHANGED <<arrived, cut, printed, cmdVars, authVars, mainVars>>

\* tx.send(message).await, and the caller is told that all is well.
SendToListener(n) ==
    /\ n \in waiting
    /\ Len(channel) < Capacity
    /\ channel' = Append(channel, n)
    /\ waiting' = waiting \ {n}
    /\ UNCHANGED <<arrived, cut, printed, cmdVars, authVars, mainVars>>

\* The caller or its connection is lost, and the handler, which waits for room in
\* the channel, is dropped with its message.
LoseReceive(n) ==
    /\ n \in waiting
    /\ waiting' = waiting \ {n}
    /\ cut' = cut \cup {n}
    /\ UNCHANGED <<arrived, channel, printed, cmdVars, authVars, mainVars>>

\* Faulty variant: if let where while let is meant.
ListenOnce ==
    /\ channel # <<>>
    /\ printed = <<>>
    /\ printed' = Append(printed, Head(channel))
    /\ channel' = Tail(channel)
    /\ UNCHANGED <<arrived, waiting, cut, cmdVars, authVars, mainVars>>

Listen ==
    /\ channel # <<>>
    /\ printed' = Append(printed, Head(channel))
    /\ channel' = Tail(channel)
    /\ UNCHANGED <<arrived, waiting, cut, cmdVars, authVars, mainVars>>

-----------------------------------------------------------------------------
(* main.                                                                   *)

\* The token is cancelled and the server aborted.
CtrlC ==
    /\ main = "ctrl_c"
    /\ main' = "await_auth"
    /\ cancelled' = TRUE
    /\ UNCHANGED <<cmdVars, authVars, messageVars>>

\* An aborted server_handle is ready at once.
AwaitAuth ==
    /\ main = "await_auth"
    /\ auth = "ended"
    /\ main' = "await_cmd"
    /\ UNCHANGED <<cancelled, cmdVars, authVars, messageVars>>

AwaitCmd ==
    /\ main = "await_cmd"
    /\ handler.pc = "ended"
    /\ main' = "exited"
    /\ UNCHANGED <<cancelled, cmdVars, authVars, messageVars>>

\* When main returns every task ends with it.
Next ==
    /\ main # "exited"
    /\ \/ \E line \in Lines : TypeLine(line)
       \/ HandlerStep
       \/ AuthStep
       \/ Receive
       \/ \E n \in waiting : SendToListener(n) \/ LoseReceive(n)
       \/ Listen
       \/ CtrlC
       \/ AwaitAuth
       \/ AwaitCmd

Spec == Init /\ [][Next]_vars

Live(step) == main # "exited" /\ step

\* Every task is polled, and every call that a task awaits is answered or
\* fails.  That a user types or stops the client is not assumed, nor that a call
\* is lost.  recv_timeout blocks the thread it runs on, and an idle command loop
\* awaits nothing: the runtime must have a second thread to poll the others, as
\* #[tokio::main] gives it on a machine with two processors or more.
FairSpec ==
    /\ Spec
    /\ WF_vars(Live(HandlerStep))
    /\ WF_vars(Live(AuthStep))
    /\ \A n \in Message : WF_vars(Live(SendToListener(n)))
    /\ WF_vars(Live(Listen))
    /\ WF_vars(Live(AwaitAuth \/ AwaitCmd))

-----------------------------------------------------------------------------
(* What makes it correct.                                                  *)

TrickyLines == {line \in Lines : NameInCommand(line)}

\* A line is understood as it was meant, unless the name of the recipient also
\* occurs in the command word, where Command::from_str finds it too early.
UnderstoodUnlessNameInCommand ==
    \A i \in 1 .. taken :
        typed[i] \in TrickyLines \/ Command[typed[i]] = Meant(typed[i])

\* After Ctrl-C at most one more command is begun, however many are waiting:
\* the one that was being received.
OneCommandAfterCancel == Cardinality({i \in DOMAIN ran : ran[i].late}) <= 1

\* The command loop stops by itself only before it has run a command: a key,
\* once there, does not go away, whatever becomes of logins and pings.
LoopStopsOnlyUnauthenticated ==
    handler.pc = "ended" /\ ~cancelled => ran = <<>>

\* Until the shutdown every command goes out with the key of the last login:
\* the command loop and the authenticator look at the same session.
CommandsUseNewestKey ==
    \A i \in DOMAIN ran : ran[i].late \/ ran[i].key = ran[i].newest

Printed(n) == \E i \in DOMAIN printed : printed[i] = n

\* A message that has arrived is printed, also when the channel is full of
\* others, unless its call is dropped while it waits, or the client exits first:
\* what the caller was told is received is not forgotten by the listener.
ArrivedIsPrinted ==
    \A n \in Message :
        (arrived >= n) ~> (Printed(n) \/ n \in cut \/ main = "exited")

\* Nobody waits for somebody who waits: after Ctrl-C the client comes to its end.
ShutdownEnds == cancelled ~> (main = "exited")

=============================================================================
