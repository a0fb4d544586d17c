---- MODULE MessageDelivery ----
(***************************************************************************)
(* What the chat promises its users, with nothing of how it is done: no    *)
(* controllers, proxies, conversations or sessions.                        *)
(*                                                                         *)
(* A user types a command at a client; the client runs one command at a    *)
(* time and is told that it succeeded or that it failed.  A message that   *)
(* is reported as sent is in its recipient's inbox; a message reaches only *)
(* its recipient, at most once, under the name of its true sender.  A      *)
(* failure report promises nothing: the message may still arrive later.    *)
(***************************************************************************)
EXTENDS Members, ExpiringMaps, Sequences

VARIABLES
    command,     \* the command typed, for each m that was typed
    outcome,     \* what the client was told about it
    inbox        \* the messages handed to each client's listener

deliveryVars == <<command, outcome, inbox>>

Commands == [cmd : {"Send"}, from : Client, to : Client]
              \cup [cmd : {"Status"}, from : Client, to : {CONTROLLER_UID}]

Outcomes == {"pending", "ok", "err"}

TextMessages == [msg : Sends, from : Client]

DeliveryInit ==
    /\ command = EmptyMap
    /\ outcome = EmptyMap
    /\ inbox = [c \in Client |-> <<>>]

\* start_cmd_handler awaits the response of a command before it reads the next.
Busy(c) ==
    \E m \in DOMAIN command : command[m].from = c /\ outcome[m] = "pending"

IsDelivered(m) ==
    \E c \in Client : \E i \in DOMAIN inbox[c] : inbox[c][i].msg = m

SubmitCommand(m, new) ==
    /\ m \notin DOMAIN command
    /\ ~Busy(new.from)
    /\ command' = Insert(command, m, new)
    /\ outcome' = Insert(outcome, m, "pending")
    /\ UNCHANGED inbox

\* The message is handed to the listener of c, which prints it when its turn
\* comes (see ClientProcess).
DeliverText(m, c, from) ==
    /\ inbox' = [inbox EXCEPT ![c] = Append(@, [msg |-> m, from |-> from])]
    /\ UNCHANGED <<command, outcome>>

Report(m, result) ==
    /\ m \in DOMAIN outcome
    /\ outcome[m] = "pending"
    /\ outcome' = [outcome EXCEPT ![m] = result]
    /\ UNCHANGED <<command, inbox>>

----

Deliver(m) ==
    /\ m \in DOMAIN command
    /\ command[m].cmd = "Send"
    /\ ~IsDelivered(m)
    /\ DeliverText(m, command[m].to, command[m].from)

Succeed(m) ==
    /\ m \in DOMAIN command
    /\ command[m].cmd = "Send" => IsDelivered(m)
    /\ Report(m, "ok")

Fail(m) == Report(m, "err")

DeliveryNext ==
    \E m \in Sends :
        \/ \E new \in Commands : SubmitCommand(m, new)
        \/ Deliver(m)
        \/ Succeed(m)
        \/ Fail(m)

DeliverySpec == DeliveryInit /\ [][DeliveryNext]_deliveryVars

====
