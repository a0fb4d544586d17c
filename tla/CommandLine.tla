---- MODULE CommandLine ----
(***************************************************************************)
(* Command::from_str (client/src/command.rs), on lines as sequences of     *)
(* characters; any white space is the character " ".                       *)
(***************************************************************************)
EXTENDS Sequences, Integers, FiniteSets, FiniteSetsExt

Blank == " "

SEND == <<"/", "s", "e", "n", "d">>
STATUS == <<"/", "s", "t", "a", "t", "u", "s">>

\* The capitals that matter: those of the two command words.
Capitals == [S |-> "s", E |-> "e", N |-> "n", D |-> "d", T |-> "t", A |-> "a", U |-> "u"]

to_lowercase(word) ==
    [i \in DOMAIN word |->
        IF word[i] \in DOMAIN Capitals THEN Capitals[word[i]] ELSE word[i]]

trim(line) ==
    LET solid == {i \in DOMAIN line : line[i] # Blank}
    IN  IF solid = {} THEN <<>> ELSE SubSeq(line, Min(solid), Max(solid))

From(line, i) == SubSeq(line, i, Len(line))

WordStarts(line) ==
    {i \in DOMAIN line : line[i] # Blank /\ (i = 1 \/ line[i - 1] = Blank)}

WordAt(line, i) ==
    SubSeq(line, i,
           Max({j \in i .. Len(line) : \A k \in i .. j : line[k] # Blank}))

split_whitespace(line) ==
    LET starts == WordStarts(line)
        Nth(n) == CHOOSE i \in starts : Cardinality({j \in starts : j < i}) = n - 1
    IN  [n \in 1 .. Cardinality(starts) |-> WordAt(line, Nth(n))]

Occurrences(line, word) ==
    {i \in 1 .. Len(line) - Len(word) + 1 : SubSeq(line, i, i + Len(word) - 1) = word}

find(line, word) == Min(Occurrences(line, word))

Send(to, message) == [command |-> "send", to |-> to, message |-> message]
Status == [command |-> "status"]
Err == [command |-> "err"]

\* Faulty variant: the message starts with the recipient.
from_str_with_name(line) ==
    LET wording == split_whitespace(line)
        cmd == IF wording = <<>> THEN <<>> ELSE to_lowercase(wording[1])
        message == trim(From(line, find(line, wording[2])))
    IN  CASE cmd = SEND ->
                IF Len(wording) > 1 /\ message # <<>>
                THEN Send(wording[2], message) ELSE Err
          [] cmd = STATUS -> Status
          [] OTHER -> Err

\* The recipient is looked for in the whole line, the command word included.
from_str(line) ==
    LET wording == split_whitespace(line)
        cmd == IF wording = <<>> THEN <<>> ELSE to_lowercase(wording[1])
        message == trim(From(line, find(line, wording[2]) + Len(wording[2])))
    IN  CASE cmd = SEND ->
                IF Len(wording) > 1 /\ message # <<>>
                THEN Send(wording[2], message) ELSE Err
          [] cmd = STATUS -> Status
          [] OTHER -> Err

----

\* "Usage: /send <to> <message>": the message is what follows the second word.
Meant(line) ==
    LET cmd == to_lowercase(WordAt(line, Min(WordStarts(line))))
        second == Min(WordStarts(line) \ {Min(WordStarts(line))})
        to == WordAt(line, second)
        message == trim(From(line, second + Len(to)))
        IsComplete == \E i, j, k \in WordStarts(line) : i < j /\ j < k
    IN  CASE cmd = SEND -> IF IsComplete THEN Send(to, message) ELSE Err
          [] cmd = STATUS -> Status
          [] OTHER -> Err

\* The second word also occurs within the first.
NameInCommand(line) ==
    LET first == Min(WordStarts(line))
        second == Min(WordStarts(line) \ {first})
        to == WordAt(line, second)
    IN  /\ to_lowercase(WordAt(line, first)) = SEND
        /\ Len(split_whitespace(line)) > 1
        /\ \E i \in Occurrences(line, to) : i + Len(to) <= first + Len(SEND)

====
