---------------------------- MODULE ClientProofs ----------------------------
(***************************************************************************)
(* The command loop, the authentication loop and the shutdown of the       *)
(* client, for any lines typed and any number of logins and messages.      *)
(***************************************************************************)
EXTENDS ClientProcess, CommandLineProofs

\* The token is cancelled by Ctrl-C, and the authenticator leaves its loop and
\* its session only after that.
CancelOK ==
    /\ cancelled \in BOOLEAN
    /\ auth \in {"logout", "ended"} => cancelled
    /\ ~shared => cancelled
    /\ shared => own_session = session

\* Once a command has run there is a key, and there will be.
KeyOK ==
    /\ own_session \in Nat
    /\ session \in Nat
    /\ ran # <<>> => session # 0
    /\ handler.pc = "ended" /\ ~cancelled => ran = <<>>

HandlerOK ==
    \E line : handler = [pc |-> handler.pc, line |-> line]

LateCommand(i) == i \in DOMAIN ran /\ ran[i].late

\* A late command is the last one, and after it the loop goes to its check.
LateOK ==
    /\ ran \in Seq([key : Nat, newest : Nat, late : BOOLEAN])
    /\ \A i \in DOMAIN ran : LateCommand(i) => /\ cancelled
                                               /\ i = Len(ran)
                                               /\ handler.pc \in {"run", "check", "ended"}

Inv == CancelOK /\ KeyOK /\ HandlerOK /\ LateOK /\ CommandsUseNewestKey

-----------------------------------------------------------------------------

LEMMA InitInv ==
    ASSUME Init
    PROVE  Inv
  <1>1. CancelOK
    BY DEF Init, CancelOK
  <1>2. KeyOK /\ HandlerOK
    BY DEF Init, KeyOK, HandlerOK
  <1>3. LateOK /\ CommandsUseNewestKey
    BY DEF Init, LateOK, CommandsUseNewestKey
  <1> QED BY <1>1, <1>2, <1>3 DEF Inv

\* A line typed or received, and a command that ends.
LEMMA HandlerMoves ==
    ASSUME Inv, UNCHANGED <<ran, authVars, mainVars>>, HandlerOK',
           \/ handler'.pc = handler.pc
           \/ handler'.pc = "check"
           \/ handler'.pc = "recv" /\ ~cancelled
           \/ handler'.pc = "key" /\ handler.pc = "recv"
           \/ handler'.pc = "ended" /\ (cancelled \/ ran = <<>>)
    PROVE  Inv'
  <1>1. CancelOK' /\ KeyOK' /\ CommandsUseNewestKey'
    BY DEF Inv, CancelOK, KeyOK, CommandsUseNewestKey, authVars, mainVars
  <1>2. LateOK'
    BY DEF Inv, CancelOK, LateOK, LateCommand, mainVars
  <1> QED BY <1>1, <1>2 DEF Inv

\* The command loop: the one step that begins a command is ReadKey.
LEMMA HandlerKeeps ==
    ASSUME Inv, HandlerStep
    PROVE  Inv'
  <1>1. CASE CheckCancelled
    BY <1>1, HandlerMoves DEF CheckCancelled, Inv, HandlerOK
  <1>2. CASE RecvLine
    BY <1>2, HandlerMoves DEF RecvLine, Inv, HandlerOK
  <1>3. CASE RecvTimeout
    BY <1>3, HandlerMoves DEF RecvTimeout, Inv, HandlerOK
  <1>4. CASE CommandEnds
    BY <1>4, HandlerMoves DEF CommandEnds, HandlerOK
  <1>5. CASE ReadKey
    <2>1. CASE session = 0
      <3>1. ran = <<>>
        BY <2>1 DEF Inv, KeyOK
      <3> QED BY <1>5, <2>1, <3>1, HandlerMoves DEF ReadKey, HandlerOK
    <2>2. CASE session # 0
      <3> DEFINE new == [key |-> session, newest |-> own_session, late |-> cancelled]
      <3>1. /\ handler.pc = "key" /\ handler'.pc = "run" /\ HandlerOK'
            /\ ran' = Append(ran, new)
            /\ UNCHANGED <<authVars, mainVars>>
        BY <1>5, <2>2 DEF ReadKey, Inv, HandlerOK
      <3>2. new \in [key : Nat, newest : Nat, late : BOOLEAN]
        BY DEF Inv, CancelOK, KeyOK
      <3>3. new.late = cancelled /\ (~cancelled => new.key = new.newest)
        BY DEF Inv, CancelOK
      <3> HIDE DEF new
      <3>4. /\ ran' \in Seq([key : Nat, newest : Nat, late : BOOLEAN])
            /\ Len(ran') = Len(ran) + 1 /\ ran'[Len(ran')] = new
            /\ DOMAIN ran' = DOMAIN ran \cup {Len(ran')}
            /\ \A i \in DOMAIN ran : ran'[i] = ran[i]
        BY <3>1, <3>2 DEF Inv, LateOK
      <3>5. \A i \in DOMAIN ran : ~LateCommand(i)
        BY <3>1 DEF Inv, LateOK
      <3>6. LateOK'
        BY <3>1, <3>3, <3>4, <3>5 DEF LateOK, LateCommand, mainVars
      <3>7. CommandsUseNewestKey'
        BY <3>3, <3>4 DEF Inv, CancelOK, CommandsUseNewestKey
      <3>8. CancelOK' /\ KeyOK'
        BY <2>2, <3>1 DEF Inv, CancelOK, KeyOK, authVars, mainVars
      <3> QED BY <3>1, <3>6, <3>7, <3>8 DEF Inv
    <2> QED BY <2>1, <2>2
  <1> QED BY <1>1, <1>2, <1>3, <1>4, <1>5 DEF HandlerStep

\* The authentication loop: keys are replaced, never taken away, until the
\* logout, which comes after the cancellation.
LEMMA AuthKeeps ==
    ASSUME Inv, AuthStep
    PROVE  Inv'
  <1>1. UNCHANGED <<cmdVars, mainVars>>
    BY DEF AuthStep, CheckAuth, Login, LoginError, KeepAlive, Ping, PingError, Logout,
           LogoutError
  <1>2. CancelOK'
    BY <1>1 DEF Inv, CancelOK, KeyOK, mainVars, AuthStep, CheckAuth, Login, LoginError,
                KeepAlive, Ping, PingError, Logout, LogoutError
  <1>3. KeyOK'
    BY <1>1 DEF Inv, CancelOK, KeyOK, cmdVars, mainVars, AuthStep, CheckAuth, Login,
                LoginError, KeepAlive, Ping, PingError, Logout, LogoutError
  <1>4. HandlerOK' /\ LateOK' /\ CommandsUseNewestKey'
    BY <1>1 DEF Inv, HandlerOK, LateOK, LateCommand, CommandsUseNewestKey, cmdVars, mainVars
  <1> QED BY <1>2, <1>3, <1>4 DEF Inv

\* Everything else leaves the two loops alone; the token stays cancelled.
LEMMA RestKeeps ==
    ASSUME Inv, UNCHANGED <<handler, ran, authVars>>, cancelled' \in BOOLEAN,
           cancelled => cancelled'
    PROVE  Inv'
  BY DEF Inv, CancelOK, KeyOK, HandlerOK, LateOK, LateCommand, CommandsUseNewestKey, authVars

LEMMA NextKeeps ==
    ASSUME Inv, [Next]_vars
    PROVE  Inv'
  <1>1. \/ HandlerStep
        \/ AuthStep
        \/ /\ UNCHANGED <<handler, ran, authVars>>
           /\ cancelled' = cancelled \/ cancelled' = TRUE
    BY DEF Next, vars, cmdVars, messageVars, mainVars, TypeLine, Receive, SendToListener,
           LoseReceive, Listen, CtrlC, AwaitAuth, AwaitCmd
  <1>2. cancelled \in BOOLEAN
    BY DEF Inv, CancelOK
  <1>3. CASE UNCHANGED <<handler, ran, authVars>> /\ cancelled' = cancelled
    BY <1>2, <1>3, RestKeeps
  <1>4. CASE UNCHANGED <<handler, ran, authVars>> /\ cancelled' = TRUE
    BY <1>4, RestKeeps
  <1> QED BY <1>1, <1>3, <1>4, HandlerKeeps, AuthKeeps

-----------------------------------------------------------------------------

\* However often logins and pings fail, the command loop stops by itself only
\* before its first command.
THEOREM LoopStops == Spec => []LoopStopsOnlyUnauthenticated
  <1>1. Inv => LoopStopsOnlyUnauthenticated
    BY DEF Inv, KeyOK, LoopStopsOnlyUnauthenticated
  <1> QED BY <1>1, InitInv, NextKeeps, PTL DEF Spec

\* Until the shutdown a command carries the key of the last login.
THEOREM NewestKey == Spec => []CommandsUseNewestKey
  <1>1. Inv => CommandsUseNewestKey
    BY DEF Inv
  <1> QED BY <1>1, InitInv, NextKeeps, PTL DEF Spec

\* However many lines wait, at most one command is begun after Ctrl-C.
THEOREM OneAfterCancel == Spec => []OneCommandAfterCancel
  <1>1. ASSUME Inv
        PROVE  OneCommandAfterCancel
    <2> DEFINE late == {i \in DOMAIN ran : ran[i].late}
    <2>1. late \subseteq {Len(ran)}
      BY <1>1 DEF Inv, LateOK, LateCommand
    <2>2. IsFiniteSet({Len(ran)}) /\ Cardinality({Len(ran)}) = 1
      BY FS_Singleton
    <2>3. Cardinality(late) <= Cardinality({Len(ran)})
      BY <2>1, <2>2, FS_Subset
    <2> QED BY <2>2, <2>3 DEF OneCommandAfterCancel
  <1> QED BY <1>1, InitInv, NextKeeps, PTL DEF Spec

-----------------------------------------------------------------------------
(* Types and bounds: the lines, the keys, and the channel to the listener. *)

Runs == [key : Key, newest : Key, late : BOOLEAN]

CmdTypeOK ==
    /\ typed \in Seq(Lines) /\ Len(typed) <= MaxLines
    /\ taken \in 0 .. Len(typed)
    /\ handler \in [pc : {"check", "recv", "key", "run", "ended"},
                    line : Lines \cup {NoLine}]
    /\ ran \in Seq(Runs)

AuthTypeOK ==
    /\ session \in Key
    /\ auth \in {"check", "login", "keep_alive", "ping", "logout", "ended"}
    /\ own_session \in Key
    /\ shared \in BOOLEAN

MessageTypeOK ==
    /\ arrived \in 0 .. MaxMessages
    /\ waiting \subseteq 1 .. arrived
    /\ cut \subseteq 1 .. arrived
    /\ channel \in Seq(Message) /\ Len(channel) <= Capacity
    /\ printed \in Seq(Message)

MainTypeOK ==
    /\ main \in {"ctrl_c", "await_auth", "await_cmd", "exited"}
    /\ cancelled \in BOOLEAN

ClientTypeInv == CmdTypeOK /\ AuthTypeOK /\ MessageTypeOK /\ MainTypeOK

LEMMA InitTypes == Init => ClientTypeInv
  <1> SUFFICES ASSUME Init PROVE ClientTypeInv
    OBVIOUS
  <1> USE ClientAssumption DEF Init
  <1>1. CmdTypeOK /\ AuthTypeOK
    BY DEF CmdTypeOK, AuthTypeOK, Key
  <1>2. MessageTypeOK
    BY DEF MessageTypeOK
  <1>3. MainTypeOK
    BY DEF MainTypeOK
  <1> QED BY <1>1, <1>2, <1>3 DEF ClientTypeInv

\* The command loop takes lines that were typed, each once.
LEMMA HandlerTypes ==
    ASSUME ClientTypeInv, HandlerStep \/ \E line \in Lines : TypeLine(line)
    PROVE  CmdTypeOK' /\ UNCHANGED <<authVars, messageVars, mainVars>>
  <1> USE DEF ClientTypeInv, CmdTypeOK
  <1>1. UNCHANGED <<authVars, messageVars, mainVars>>
    BY DEF HandlerStep, TypeLine, CheckCancelled, RecvLine, RecvTimeout, ReadKey, CommandEnds
  <1>2. ASSUME NEW line \in Lines, TypeLine(line)
        PROVE  CmdTypeOK'
    BY <1>2, ClientAssumption DEF TypeLine
  <1>3. CASE CheckCancelled
    BY <1>3 DEF CheckCancelled
  <1>4. CASE RecvLine
    <2>1. /\ taken + 1 \in 1 .. Len(typed) /\ taken' = taken + 1
          /\ UNCHANGED <<typed, ran>>
          /\ \/ handler' = [pc |-> "check", line |-> NoLine]
             \/ handler' = [pc |-> "key", line |-> typed[taken + 1]]
      BY <1>4 DEF RecvLine
    <2>2. typed[taken + 1] \in Lines
      BY <2>1
    <2>3. handler' \in [pc : {"check", "recv", "key", "run", "ended"},
                        line : Lines \cup {NoLine}]
      BY <2>1, <2>2
    <2>4. taken' \in 0 .. Len(typed')
      BY <2>1
    <2>5. typed' \in Seq(Lines) /\ Len(typed') <= MaxLines /\ ran' \in Seq(Runs)
      BY <2>1
    <2> QED BY <1>1, <2>3, <2>4, <2>5
  <1>5. CASE RecvTimeout
    BY <1>5 DEF RecvTimeout
  <1>6. CASE CommandEnds
    BY <1>6 DEF CommandEnds
  <1>7. CASE ReadKey
    <2>1. [key |-> session, newest |-> own_session, late |-> cancelled] \in Runs
      BY DEF Runs, AuthTypeOK, MainTypeOK
    <2> QED BY <1>7, <2>1 DEF ReadKey
  <1> QED BY <1>1, <1>2, <1>3, <1>4, <1>5, <1>6, <1>7 DEF HandlerStep

LEMMA AuthTypes ==
    ASSUME ClientTypeInv, AuthStep
    PROVE  AuthTypeOK' /\ UNCHANGED <<cmdVars, messageVars, mainVars>>
  <1> USE DEF ClientTypeInv, AuthTypeOK
  <1>1. CASE Login
    <2>1. own_session + 1 \in Key
      BY <1>1, ClientAssumption DEF Login, Key
    <2> QED BY <1>1, <2>1 DEF Login
  <1>2. CASE Logout
    <2>1. 0 \in Key
      BY ClientAssumption DEF Key
    <2> QED BY <1>2, <2>1 DEF Logout
  <1>3. CASE CheckAuth \/ KeepAlive
    BY <1>3 DEF CheckAuth, KeepAlive
  <1>4. CASE LoginError \/ Ping \/ PingError \/ LogoutError
    BY <1>4 DEF LoginError, Ping, PingError, LogoutError
  <1> QED BY <1>1, <1>2, <1>3, <1>4 DEF AuthStep

\* The channel never holds more than its capacity, and nothing that has not
\* arrived.
LEMMA MessageTypes ==
    ASSUME ClientTypeInv,
           \/ Receive
           \/ \E n \in waiting : SendToListener(n) \/ LoseReceive(n)
           \/ Listen
    PROVE  MessageTypeOK' /\ UNCHANGED <<cmdVars, authVars, mainVars>>
  <1> USE ClientAssumption DEF ClientTypeInv, MessageTypeOK
  <1>1. CASE Receive
    BY <1>1 DEF Receive
  <1>2. ASSUME NEW n \in waiting, SendToListener(n)
        PROVE  MessageTypeOK' /\ UNCHANGED <<cmdVars, authVars, mainVars>>
    <2>1. n \in Message
      BY DEF Message
    <2> QED BY <1>2, <2>1 DEF SendToListener
  <1>3. CASE Listen
    <2>1. /\ channel # <<>> /\ printed' = Append(printed, Head(channel))
          /\ channel' = Tail(channel)
          /\ UNCHANGED <<arrived, waiting, cut, cmdVars, authVars, mainVars>>
      BY <1>3 DEF Listen
    <2>2. Head(channel) \in Message /\ Tail(channel) \in Seq(Message)
          /\ Len(Tail(channel)) = Len(channel) - 1 /\ Len(channel) \in Nat
      BY <2>1
    <2> QED BY <2>1, <2>2
  <1>4. ASSUME NEW n \in waiting, LoseReceive(n)
        PROVE  MessageTypeOK' /\ UNCHANGED <<cmdVars, authVars, mainVars>>
    BY <1>4 DEF LoseReceive
  <1> QED BY <1>1, <1>2, <1>3, <1>4

LEMMA NextTypes == ClientTypeInv /\ [Next]_vars => ClientTypeInv'
  <1> SUFFICES ASSUME ClientTypeInv, [Next]_vars PROVE ClientTypeInv'
    OBVIOUS
  <1>1. UNCHANGED cmdVars => CmdTypeOK'
    BY DEF ClientTypeInv, CmdTypeOK, cmdVars
  <1>2. UNCHANGED authVars => AuthTypeOK'
    BY DEF ClientTypeInv, AuthTypeOK, authVars
  <1>3. UNCHANGED messageVars => MessageTypeOK'
    BY DEF ClientTypeInv, MessageTypeOK, messageVars
  <1>4. UNCHANGED mainVars => MainTypeOK'
    BY DEF ClientTypeInv, MainTypeOK, mainVars
  <1>5. CASE CtrlC \/ AwaitAuth \/ AwaitCmd
    <2>1. MainTypeOK' /\ UNCHANGED <<cmdVars, authVars, messageVars>>
      BY <1>5 DEF ClientTypeInv, MainTypeOK, CtrlC, AwaitAuth, AwaitCmd
    <2> QED BY <1>1, <1>2, <1>3, <2>1 DEF ClientTypeInv
  <1>6. CASE HandlerStep \/ \E line \in Lines : TypeLine(line)
    BY <1>2, <1>3, <1>4, <1>6, HandlerTypes DEF ClientTypeInv
  <1>7. CASE AuthStep
    BY <1>1, <1>3, <1>4, <1>7, AuthTypes DEF ClientTypeInv
  <1>8. CASE \/ Receive
             \/ \E n \in waiting : SendToListener(n) \/ LoseReceive(n)
             \/ Listen
    BY <1>1, <1>2, <1>4, <1>8, MessageTypes DEF ClientTypeInv
  <1>9. CASE UNCHANGED vars
    BY <1>1, <1>2, <1>3, <1>4, <1>9 DEF ClientTypeInv, vars
  <1> QED BY <1>5, <1>6, <1>7, <1>8, <1>9 DEF Next

\* The tasks of the client keep their types and bounds; in particular the
\* channel to the listener never holds more than its capacity.
THEOREM ClientTypeCorrect == Spec => []TypeOK
  <1>1. ClientTypeInv => TypeOK
    <2> SUFFICES ASSUME ClientTypeInv PROVE TypeOK
      OBVIOUS
    <2>1. \A i \in DOMAIN ran : ran[i] \in Runs
      BY DEF ClientTypeInv, CmdTypeOK
    <2> QED BY <2>1 DEF ClientTypeInv, CmdTypeOK, AuthTypeOK, MessageTypeOK, MainTypeOK,
               TypeOK, Runs
  <1> QED BY <1>1, InitTypes, NextTypes, PTL DEF Spec

\* Whatever is typed, a line that the command loop has received is taken for the
\* command that was meant, as long as Command::from_str does not find the name of
\* the recipient in the command word already.
THEOREM OnlyNamesMislead == Spec => []UnderstoodUnlessNameInCommand
  <1>1. ASSUME TypeOK
        PROVE  UnderstoodUnlessNameInCommand
    <2> SUFFICES ASSUME NEW i \in 1 .. taken
                 PROVE  typed[i] \in TrickyLines \/ Command[typed[i]] = Meant(typed[i])
      BY DEF UnderstoodUnlessNameInCommand
    <2>1. typed[i] \in Lines
      BY <1>1 DEF TypeOK
    <2>2. PICK line : line = typed[i] /\ line \in Lines
      BY <2>1
    <2>3. line \in Seq(STRING) /\ trim(line) # <<>>
      BY <2>2, ClientAssumption
    <2>4. NameInCommand(line) \/ from_str(line) = Meant(line)
      BY <2>3, MisreadIffNameInCommand
    <2>5. Command[line] = from_str(line)
      BY <2>2 DEF Command
    <2> QED BY <2>2, <2>4, <2>5 DEF TrickyLines
  <1> QED BY <1>1, ClientTypeCorrect, PTL

=============================================================================
