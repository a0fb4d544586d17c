-------------------------- MODULE CommandLineProofs -------------------------
(***************************************************************************)
(* What Command::from_str makes of a line, for every line that is not      *)
(* blank, against what the line was meant to say.                          *)
(***************************************************************************)
EXTENDS CommandLine, FiniteSetTheorems, SequenceTheorems, WellFoundedInduction, TLAPS

-----------------------------------------------------------------------------
(* Least and greatest elements.                                            *)

LEMMA MinIs ==
    ASSUME NEW S \in SUBSET Nat, S # {}
    PROVE  Min(S) \in S /\ \A y \in S : Min(S) <= y
  <1> DEFINE R == OpToRel(<, Nat)
  <1>1. IsWellFoundedOn(R, Nat)
    BY NatLessThanWellFounded
  <1>2. \A x, y \in Nat : x < y => <<x, y>> \in R
    BY DEF OpToRel
  <1> HIDE DEF R
  <1>3. PICK x \in S : \A y \in S : ~(<<y, x>> \in R)
    BY <1>1, WFMin
  <1>4. ASSUME NEW y \in S
        PROVE  x <= y
    <2>1. ~(y < x)
      BY <1>2, <1>3
    <2> QED BY <2>1
  <1> QED BY <1>4 DEF Min

LEMMA MaxIs ==
    ASSUME NEW n \in Nat, NEW S \in SUBSET (1 .. n), S # {}
    PROVE  Max(S) \in S /\ \A y \in S : y <= Max(S)
  <1> DEFINE T == {n - x : x \in S}
  <1>1. T \in SUBSET Nat /\ T # {}
    <2>1. \A x \in S : n - x \in Nat
      OBVIOUS
    <2>2. T \subseteq Nat
      BY <2>1
    <2> QED BY <2>2
  <1>2. Min(T) \in T /\ \A y \in T : Min(T) <= y
    BY <1>1, MinIs
  <1>3. PICK x \in S : Min(T) = n - x
    BY <1>2
  <1>4. \A y \in S : n - x <= n - y
    BY <1>2, <1>3
  <1>5. \A y \in S : x >= y
    BY <1>4
  <1> QED BY <1>5 DEF Max

-----------------------------------------------------------------------------
(* Words.                                                                  *)

Solid(line) == {i \in DOMAIN line : line[i] # Blank}

\* The next word begins at the first character after a blank.
LEMMA NextWord ==
    ASSUME NEW C, NEW line \in Seq(C), NEW b \in 0 .. Len(line),
           b = 0 \/ line[b] = Blank, NEW k \in Solid(line), k > b
    PROVE  \E i \in WordStarts(line) : b < i /\ i <= k
  <1> DEFINE S == {i \in Solid(line) : i > b}
  <1>1. S \in SUBSET Nat /\ k \in S
    BY DEF Solid
  <1>2. PICK i \in S : \A y \in S : i <= y
    BY <1>1, MinIs
  <1>3. i \in 1 .. Len(line) /\ i > b /\ i <= k /\ line[i] # Blank
    BY <1>1, <1>2 DEF Solid
  <1>4. i = 1 \/ line[i - 1] = Blank
    <2>1. CASE i = 1
      BY <2>1
    <2>2. CASE i - 1 = b
      BY <1>3, <2>2
    <2>3. CASE i # 1 /\ i - 1 # b
      <3>1. i - 1 \in DOMAIN line /\ i - 1 > b
        BY <1>3, <2>3
      <3>2. i - 1 \notin S
        BY <1>2, <1>3
      <3> QED BY <3>1, <3>2 DEF Solid
    <2> QED BY <2>1, <2>2, <2>3
  <1> QED BY <1>3, <1>4 DEF WordStarts

\* A word ends at the end of the line or before a blank.
LEMMA WordEnds ==
    ASSUME NEW C, NEW line \in Seq(C), NEW i \in WordStarts(line)
    PROVE  \E e \in i .. Len(line) :
              /\ WordAt(line, i) = SubSeq(line, i, e)
              /\ Len(WordAt(line, i)) = e - i + 1
              /\ \A k \in i .. e : line[k] # Blank
              /\ e = Len(line) \/ line[e + 1] = Blank
  <1> DEFINE E == {j \in i .. Len(line) : \A k \in i .. j : line[k] # Blank}
  <1>1. i \in 1 .. Len(line) /\ line[i] # Blank
    BY DEF WordStarts
  <1>2. E \in SUBSET (1 .. Len(line)) /\ i \in E
    BY <1>1
  <1> HIDE DEF E
  <1>3. PICK e : e = Max(E) /\ e \in E /\ \A y \in E : y <= e
    <2>1. Len(line) \in Nat
      OBVIOUS
    <2> QED BY <1>2, <2>1, MaxIs
  <1>4. e \in i .. Len(line) /\ \A k \in i .. e : line[k] # Blank
    BY <1>3 DEF E
  <1>5. e = Len(line) \/ line[e + 1] = Blank
    <2> SUFFICES ASSUME e # Len(line), line[e + 1] # Blank PROVE FALSE
      OBVIOUS
    <2>1. e + 1 \in E
      BY <1>1, <1>4 DEF E
    <2> QED BY <1>1, <1>3, <1>4, <2>1
  <1>6. WordAt(line, i) = SubSeq(line, i, e)
    BY <1>3 DEF WordAt, E
  <1>7. Len(SubSeq(line, i, e)) = e - i + 1
    <2>1. \A k \in i .. e : line[k] \in C
      BY <1>1, <1>4
    <2> QED BY <1>1, <1>4, <2>1, SubSeqProperties
  <1> QED BY <1>4, <1>5, <1>6, <1>7

\* trim cuts the blanks before the first and after the last character.
LEMMA TrimFrom ==
    ASSUME NEW C, NEW line \in Seq(C), NEW p \in 1 .. Len(line) + 1
    PROVE  /\ trim(From(line, p)) = <<>> <=> \A k \in Solid(line) : k < p
           /\ \A a, b \in Solid(line) :
                 /\ p <= a
                 /\ \A k \in Solid(line) : k <= b /\ (p <= k => a <= k)
                 => Len(trim(From(line, p))) = b - a + 1
  <1> DEFINE n == Len(line)
             t == From(line, p)
             S == {i \in DOMAIN t : t[i] # Blank}
  <1>1. n \in Nat /\ p \in 1 .. n + 1 /\ \A k \in p .. n : line[k] \in C
    OBVIOUS
  <1>2. t \in Seq(C) /\ Len(t) = n - p + 1 /\ \A i \in 1 .. n - p + 1 : t[i] = line[p + i - 1]
    BY <1>1, SubSeqProperties DEF From
  <1>3. \A i \in Int : i \in S <=> i \in 1 .. n - p + 1 /\ line[p + i - 1] # Blank
    BY <1>1, <1>2
  <1>4. \A k \in Int : k \in Solid(line) <=> k \in 1 .. n /\ line[k] # Blank
    BY <1>1 DEF Solid
  <1>5. ASSUME NEW k \in Int, p <= k
        PROVE  k \in Solid(line) <=> k - p + 1 \in S
    <2>1. /\ k - p + 1 \in Int /\ p + (k - p + 1) - 1 = k
          /\ k \in 1 .. n <=> k - p + 1 \in 1 .. n - p + 1
      BY <1>1, <1>5
    <2> HIDE DEF S, n
    <2> QED BY <1>3, <1>4, <2>1
  <1>6. S \in SUBSET (1 .. n - p + 1) /\ Solid(line) \in SUBSET (1 .. n)
    BY <1>1, <1>2 DEF Solid
  <1>7. trim(t) = IF S = {} THEN <<>> ELSE SubSeq(t, Min(S), Max(S))
    BY DEF trim
  <1> HIDE DEF t, S, n
  <1>8. CASE S = {}
    <2>1. \A k \in Solid(line) : k < p
      BY <1>1, <1>5, <1>6, <1>8
    <2> QED BY <1>1, <1>6, <1>7, <1>8, <2>1 DEF t
  <1>9. CASE S # {}
    <2>1. PICK x : x = Min(S) /\ x \in S /\ \A y \in S : x <= y
      BY <1>6, <1>9, MinIs
    <2>2. PICK z : z = Max(S) /\ z \in S /\ \A y \in S : y <= z
      <3>1. n - p + 1 \in Nat
        BY <1>1
      <3> QED BY <1>6, <1>9, <3>1, MaxIs
    <2>3. /\ x \in Int /\ z \in Int /\ 1 <= x /\ x <= z /\ z <= Len(t)
          /\ p + x - 1 \in Solid(line) /\ p + z - 1 \in Solid(line)
          /\ p <= p + x - 1
      <3>1. x \in 1 .. n - p + 1 /\ z \in 1 .. n - p + 1 /\ x <= z
        BY <1>6, <2>1, <2>2
      <3> QED BY <1>1, <1>2, <1>3, <1>4, <2>1, <2>2, <3>1
    <2>4. Len(SubSeq(t, x, z)) = z - x + 1
      <3>1. \A i \in x .. z : t[i] \in C
        BY <1>2, <2>3
      <3> QED BY <2>3, <3>1, SubSeqProperties
    <2>5. trim(t) # <<>> /\ Len(trim(t)) = z - x + 1
      <3>1. trim(t) = SubSeq(t, x, z)
        BY <1>7, <1>9, <2>1, <2>2
      <3>2. z - x + 1 # 0
        BY <2>3
      <3>3. Len(<<>>) = 0
        OBVIOUS
      <3> QED BY <2>4, <3>1, <3>2, <3>3
    <2>6. ~ \A k \in Solid(line) : k < p
      BY <1>1, <2>3
    <2>7. ASSUME NEW a \in Solid(line), NEW b \in Solid(line), p <= a,
                 \A k \in Solid(line) : k <= b /\ (p <= k => a <= k)
          PROVE  z - x = b - a
      <3>1. a \in Int /\ b \in Int /\ p \in Int /\ a <= b
        BY <1>1, <1>6, <2>7
      <3>2. a <= p + x - 1 /\ p + z - 1 <= b
        BY <2>3, <2>7
      <3>3. a - p + 1 \in S /\ b - p + 1 \in S
        BY <1>5, <2>7, <3>1
      <3>4. x <= a - p + 1 /\ b - p + 1 <= z
        BY <2>1, <2>2, <3>3
      <3> QED BY <2>3, <3>1, <3>2, <3>4
    <2> QED BY <2>5, <2>6, <2>7 DEF t
  <1> QED BY <1>8, <1>9

-----------------------------------------------------------------------------
(* The words of a line.                                                    *)

First(line) == Min(WordStarts(line))
Second(line) == Min(WordStarts(line) \ {First(line)})

LEMMA StartsTyped ==
    ASSUME NEW C, NEW line \in Seq(C)
    PROVE  /\ WordStarts(line) \in SUBSET (1 .. Len(line))
           /\ WordStarts(line) \in SUBSET Nat
           /\ WordStarts(line) \subseteq Solid(line)
           /\ IsFiniteSet(WordStarts(line))
  <1>1. WordStarts(line) \in SUBSET (1 .. Len(line))
    BY DEF WordStarts
  <1>2. IsFiniteSet(1 .. Len(line))
    <2>1. Len(line) \in Int
      OBVIOUS
    <2> QED BY <2>1, FS_Interval
  <1>3. IsFiniteSet(WordStarts(line))
    BY <1>1, <1>2, FS_Subset
  <1> QED BY <1>1, <1>3 DEF WordStarts, Solid

LEMMA FirstWord ==
    ASSUME NEW C, NEW line \in Seq(C), Solid(line) # {}
    PROVE  /\ First(line) \in WordStarts(line)
           /\ \A i \in WordStarts(line) : First(line) <= i
           /\ \A k \in Solid(line) : First(line) <= k
  <1>1. \A k \in Solid(line) : \E i \in WordStarts(line) : i <= k
    <2> TAKE k \in Solid(line)
    <2>1. 0 \in 0 .. Len(line) /\ k > 0
      BY DEF Solid
    <2> QED BY <2>1, NextWord
  <1>2. WordStarts(line) # {} /\ WordStarts(line) \in SUBSET Nat
    BY <1>1, StartsTyped
  <1>3. First(line) \in WordStarts(line) /\ \A i \in WordStarts(line) : First(line) <= i
    BY <1>2, MinIs DEF First
  <1>4. ASSUME NEW k \in Solid(line)
        PROVE  First(line) <= k
    <2>1. PICK i \in WordStarts(line) : i <= k
      BY <1>1
    <2>2. First(line) \in Nat /\ i \in Nat /\ k \in Nat /\ First(line) <= i
      BY <1>2, <1>3 DEF Solid
    <2> QED BY <2>1, <2>2
  <1> QED BY <1>3, <1>4

LEMMA SecondWord ==
    ASSUME NEW C, NEW line \in Seq(C), Solid(line) # {},
           WordStarts(line) \ {First(line)} # {}
    PROVE  /\ Second(line) \in WordStarts(line) /\ First(line) < Second(line)
           /\ \A i \in WordStarts(line) : i = First(line) \/ Second(line) <= i
  <1> DEFINE T == WordStarts(line) \ {First(line)}
  <1>1. T \in SUBSET Nat /\ T # {}
    BY StartsTyped
  <1>2. Min(T) \in T /\ \A y \in T : Min(T) <= y
    BY <1>1, MinIs
  <1>3. Second(line) = Min(T)
    BY DEF Second
  <1>4. First(line) <= Second(line) /\ First(line) \in Nat /\ Second(line) \in Nat
    BY <1>2, <1>3, FirstWord, StartsTyped
  <1>5. Second(line) # First(line) /\ Second(line) \in WordStarts(line)
    BY <1>2, <1>3
  <1>6. \A i \in WordStarts(line) : i = First(line) \/ Second(line) <= i
    BY <1>2, <1>3
  <1>7. First(line) < Second(line)
    BY <1>4, <1>5
  <1> QED BY <1>5, <1>6, <1>7

\* split_whitespace gives the first two words, if there are two.
LEMMA Split ==
    ASSUME NEW C, NEW line \in Seq(C), Solid(line) # {}
    PROVE  /\ split_whitespace(line) # <<>>
           /\ split_whitespace(line)[1] = WordAt(line, First(line))
           /\ Len(split_whitespace(line)) > 1 <=> WordStarts(line) \ {First(line)} # {}
           /\ Len(split_whitespace(line)) > 1 =>
                 split_whitespace(line)[2] = WordAt(line, Second(line))
  <1> DEFINE W == WordStarts(line)
             f == First(line)
             Before(i) == {j \in W : j < i}
             Nth(n) == CHOOSE i \in W : Cardinality(Before(i)) = n - 1
             c == Cardinality(W)
             words == [n \in 1 .. c |-> WordAt(line, Nth(n))]
  <1>1. words = split_whitespace(line)
    BY DEF split_whitespace
  <1>2. IsFiniteSet(W) /\ W \in SUBSET Nat /\ f \in W /\ \A i \in W : f <= i
    BY StartsTyped, FirstWord
  <1>3. c \in Nat /\ c >= 1 /\ Cardinality(W \ {f}) = c - 1
    <2>1. c \in Nat /\ (c = 0 <=> W = {})
      BY <1>2, FS_CardinalityType, FS_EmptySet
    <2>2. Cardinality(W \ {f}) = c - 1
      BY <1>2, FS_RemoveElement
    <2> QED BY <1>2, <2>1, <2>2
  <1>4. c > 1 <=> W \ {f} # {}
    <2>1. IsFiniteSet(W \ {f})
      BY <1>2, FS_RemoveElement
    <2>2. Cardinality(W \ {f}) = 0 <=> W \ {f} = {}
      BY <2>1, FS_EmptySet
    <2> QED BY <1>3, <2>2
  <1>5. \A i \in W : IsFiniteSet(Before(i))
    <2>1. \A i \in W : Before(i) \subseteq W
      OBVIOUS
    <2> QED BY <1>2, <2>1, FS_Subset
  <1>6. Nth(1) = f
    <2>1. ASSUME NEW i \in W
          PROVE  Cardinality(Before(i)) = 1 - 1 <=> i = f
      <3>1. Before(i) = {} <=> i = f
        BY <1>2
      <3>2. Cardinality(Before(i)) = 0 <=> Before(i) = {}
        BY <1>5, FS_EmptySet
      <3> QED BY <3>1, <3>2
    <2> QED BY <1>2, <2>1
  <1>7. ASSUME W \ {f} # {}
        PROVE  Nth(2) = Second(line)
    <2> DEFINE s == Second(line)
    <2>1. s \in W /\ f < s /\ \A i \in W : i = f \/ s <= i
      BY <1>7, SecondWord
    <2>2. Cardinality({f}) = 1
      BY FS_Singleton
    <2>3. ASSUME NEW i \in W
          PROVE  Cardinality(Before(i)) = 2 - 1 <=> i = s
      <3>1. CASE i = s
        <4>1. Before(i) = {f}
          BY <1>2, <2>1, <3>1
        <4>2. Cardinality(Before(i)) = 1
          BY <2>2, <4>1
        <4> QED BY <3>1, <4>2
      <3>2. CASE i = f
        <4>1. Before(i) = {}
          BY <1>2, <3>2
        <4>2. Cardinality(Before(i)) = 0
          BY <4>1, FS_EmptySet
        <4> QED BY <1>2, <2>1, <3>2, <4>2
      <3>3. CASE i # s /\ i # f
        <4>1. f \in Before(i) /\ s \in Before(i) /\ f # s
          BY <1>2, <2>1, <3>3
        <4>2. Cardinality(Before(i)) # 1
          <5>1. PICK B : B = Before(i) /\ IsFiniteSet(B)
            BY <1>5
          <5>2. ~ \E x : B = {x}
            BY <4>1, <5>1
          <5>3. Cardinality(B) # 1
            BY <5>1, <5>2, FS_Singleton
          <5> QED BY <5>1, <5>3
        <4> QED BY <3>3, <4>2
      <3> QED BY <3>1, <3>2, <3>3
    <2> HIDE DEF s
    <2>4. (CHOOSE i \in W : Cardinality(Before(i)) = 2 - 1) = s
      BY <2>1, <2>3
    <2> QED BY <2>4 DEF s
  <1> HIDE DEF W, f, Nth, c
  <1>8. Len(words) = c /\ words # <<>> /\ words[1] = WordAt(line, Nth(1))
    BY <1>3
  <1>9. c > 1 => words[2] = WordAt(line, Nth(2))
    BY <1>3
  <1> QED BY <1>1, <1>4, <1>6, <1>7, <1>8, <1>9 DEF W, f

-----------------------------------------------------------------------------
(* A line that begins with /send and a name.                               *)

NameOf(line) == WordAt(line, Second(line))

IsSendTo(line) ==
    /\ Solid(line) # {}
    /\ to_lowercase(WordAt(line, First(line))) = SEND
    /\ WordStarts(line) \ {First(line)} # {}

\* The command word has five characters, whatever its case.
LEMMA CommandWord ==
    ASSUME NEW C, NEW line \in Seq(C), Solid(line) # {},
           to_lowercase(WordAt(line, First(line))) = SEND
    PROVE  LET f == First(line) IN
           /\ f \in 1 .. Len(line) /\ f + 4 \in 1 .. Len(line)
           /\ \A k \in f .. f + 4 : line[k] # Blank
           /\ f + 4 = Len(line) \/ line[f + 5] = Blank
  <1> DEFINE f == First(line)
             word == WordAt(line, f)
  <1>1. f \in WordStarts(line) /\ f \in 1 .. Len(line)
    BY FirstWord, StartsTyped
  <1>2. PICK e \in f .. Len(line) :
              /\ word = SubSeq(line, f, e)
              /\ Len(word) = e - f + 1
              /\ \A k \in f .. e : line[k] # Blank
              /\ e = Len(line) \/ line[e + 1] = Blank
    BY <1>1, WordEnds
  <1>3. word \in Seq(C)
    <2>1. \A k \in f .. e : line[k] \in C
      BY <1>1, <1>2
    <2> QED BY <1>1, <1>2, <2>1, SubSeqProperties
  <1> HIDE DEF word
  <1>4. DOMAIN word = DOMAIN SEND
    <2>1. DOMAIN to_lowercase(word) = DOMAIN word
      BY DEF to_lowercase
    <2> QED BY <2>1 DEF word
  <1>5. Len(word) = 5
    <2>1. DOMAIN SEND = 1 .. 5
      BY DEF SEND
    <2>2. DOMAIN word = 1 .. Len(word) /\ Len(word) \in Nat
      BY <1>3
    <2>3. PICK D : D = DOMAIN word
      OBVIOUS
    <2>4. 5 \in D /\ \A k \in D : k <= 5
      BY <1>4, <2>1, <2>3
    <2>5. 5 <= Len(word) /\ (Len(word) >= 1 => Len(word) \in D)
      BY <2>2, <2>3, <2>4
    <2> QED BY <2>2, <2>4, <2>5
  <1>6. e = f + 4 /\ e + 1 = f + 5
    BY <1>1, <1>2, <1>5
  <1> HIDE DEF f
  <1>7. /\ f + 4 \in 1 .. Len(line) /\ \A k \in f .. f + 4 : line[k] # Blank
        /\ f + 4 = Len(line) \/ line[f + 5] = Blank
    BY <1>1, <1>2, <1>6
  <1> QED BY <1>1, <1>7 DEF f

\* Between the command word and the name, and before the former, all is blank;
\* so is what precedes the word after the name.
LEMMA NameWord ==
    ASSUME NEW C, NEW line \in Seq(C), IsSendTo(line)
    PROVE  LET f == First(line)
               s == Second(line)
               len == Len(NameOf(line))
           IN
           /\ f \in Nat /\ s \in 1 .. Len(line) /\ len \in Nat /\ len >= 1
           /\ f + 5 < s /\ s + len \in 1 .. Len(line) + 1
           /\ line[f + 5] = Blank
           /\ NameOf(line) \in Seq(C)
           /\ NameOf(line) = SubSeq(line, s, s + len - 1)
           /\ \A k \in s .. s + len - 1 : line[k] # Blank
           /\ s + len = Len(line) + 1 \/ line[s + len] = Blank
           /\ \A k \in Solid(line) : f <= k /\ (f + 4 < k => s <= k)
  <1> DEFINE f == First(line)
             s == Second(line)
             len == Len(NameOf(line))
  <1>1. /\ f \in 1 .. Len(line) /\ f + 4 \in 1 .. Len(line)
        /\ \A k \in f .. f + 4 : line[k] # Blank
        /\ f + 4 = Len(line) \/ line[f + 5] = Blank
    BY CommandWord DEF IsSendTo
  <1>2. /\ s \in WordStarts(line) /\ f < s /\ s \in 1 .. Len(line)
        /\ \A i \in WordStarts(line) : i = f \/ s <= i
    BY SecondWord, StartsTyped DEF IsSendTo
  <1>3. line[s - 1] = Blank
    BY <1>1, <1>2 DEF WordStarts
  <1>4. f + 5 < s
    <2>1. s - 1 \notin f .. f + 4
      BY <1>1, <1>3
    <2> QED BY <1>1, <1>2, <2>1
  <1>5. line[f + 5] = Blank /\ f + 5 \in 0 .. Len(line)
    BY <1>1, <1>2, <1>4
  <1>6. PICK e \in s .. Len(line) :
              /\ NameOf(line) = SubSeq(line, s, e)
              /\ len = e - s + 1
              /\ \A k \in s .. e : line[k] # Blank
              /\ e = Len(line) \/ line[e + 1] = Blank
    BY <1>2, WordEnds DEF NameOf
  <1>7. NameOf(line) \in Seq(C)
    <2>1. \A k \in s .. e : line[k] \in C
      BY <1>2, <1>6
    <2> QED BY <1>2, <1>6, <2>1, SubSeqProperties
  <1>8. e = s + len - 1 /\ e + 1 = s + len /\ len \in Nat /\ len >= 1
    BY <1>2, <1>6
  <1>9. ASSUME NEW k \in Solid(line)
        PROVE  f <= k /\ (f + 4 < k => s <= k)
    <2>1. f <= k /\ k \in 1 .. Len(line) /\ line[k] # Blank
      BY FirstWord DEF IsSendTo, Solid
    <2>2. ASSUME f + 4 < k
          PROVE  s <= k
      <3>1. k > f + 5
        BY <1>1, <1>5, <2>1, <2>2
      <3>2. PICK i \in WordStarts(line) : f + 5 < i /\ i <= k
        BY <1>5, <3>1, NextWord
      <3>3. i \in Nat
        BY StartsTyped
      <3> QED BY <1>1, <1>2, <2>1, <3>2, <3>3
    <2> QED BY <2>1, <2>2
  <1> HIDE DEF f, s, len
  <1>10. /\ s + len \in 1 .. Len(line) + 1
         /\ NameOf(line) = SubSeq(line, s, s + len - 1)
         /\ \A k \in s .. s + len - 1 : line[k] # Blank
         /\ s + len = Len(line) + 1 \/ line[s + len] = Blank
    BY <1>2, <1>6, <1>8
  <1>11. f \in Nat /\ s \in 1 .. Len(line)
    BY <1>1, <1>2
  <1> QED BY <1>4, <1>5, <1>7, <1>8, <1>9, <1>10, <1>11 DEF f, s, len

\* The name occurs where it was typed, and before that only within the command
\* word.
LEMMA NameOccurs ==
    ASSUME NEW C, NEW line \in Seq(C), IsSendTo(line)
    PROVE  LET O == Occurrences(line, NameOf(line)) IN
           /\ O \in SUBSET Nat /\ Second(line) \in O
           /\ \A i \in O : i < Second(line) =>
                 1 <= i /\ i + Len(NameOf(line)) <= First(line) + 5
  <1> DEFINE f == First(line)
             s == Second(line)
             len == Len(NameOf(line))
             O == Occurrences(line, NameOf(line))
  <1>1. /\ f \in Nat /\ s \in 1 .. Len(line) /\ len \in Nat /\ len >= 1
        /\ f + 5 < s /\ s + len \in 1 .. Len(line) + 1
        /\ line[f + 5] = Blank
        /\ NameOf(line) = SubSeq(line, s, s + len - 1)
        /\ \A k \in s .. s + len - 1 : line[k] # Blank
        /\ \A k \in Solid(line) : f <= k /\ (f + 4 < k => s <= k)
    BY NameWord
  <1> HIDE DEF f, s, len
  <1>2. O = {i \in 1 .. Len(line) - len + 1 : SubSeq(line, i, i + len - 1) = NameOf(line)}
    BY DEF Occurrences, len
  <1>3. O \in SUBSET Nat /\ s \in O
    <2>1. Len(line) \in Nat /\ s \in 1 .. Len(line) - len + 1
      BY <1>1
    <2>2. O \subseteq 1 .. Len(line) - len + 1
      BY <1>2
    <2>3. s \in O
      BY <1>1, <1>2, <2>1
    <2> QED BY <1>1, <2>1, <2>2, <2>3
  <1>4. ASSUME NEW i \in O, i < s
        PROVE  1 <= i /\ i + len <= f + 5
    <2>1. i \in 1 .. Len(line) - len + 1 /\ SubSeq(line, i, i + len - 1) = SubSeq(line, s, s + len - 1)
      BY <1>1, <1>2
    <2>2. ASSUME NEW k \in 0 .. len - 1
          PROVE  line[i + k] # Blank
      <3>1. \A m \in i .. i + len - 1 : line[m] \in C
        BY <1>1, <2>1
      <3>2. \A m \in s .. s + len - 1 : line[m] \in C
        BY <1>1
      <3>3. k + 1 \in 1 .. (i + len - 1) - i + 1 /\ k + 1 \in 1 .. (s + len - 1) - s + 1
        BY <1>1, <2>1
      <3>4. i \in Int /\ s \in Int /\ i + len - 1 \in Int /\ s + len - 1 \in Int
        BY <1>1, <2>1
      <3>5. SubSeq(line, i, i + len - 1)[k + 1] = line[i + (k + 1) - 1]
        BY <3>1, <3>3, <3>4, SubSeqProperties
      <3>6. SubSeq(line, s, s + len - 1)[k + 1] = line[s + (k + 1) - 1]
        BY <3>2, <3>3, <3>4, SubSeqProperties
      <3>7. i + (k + 1) - 1 = i + k /\ s + (k + 1) - 1 = s + k /\ s + k \in s .. s + len - 1
        BY <1>1, <2>1
      <3>8. line[i + k] = line[s + k]
        BY <2>1, <3>5, <3>6, <3>7
      <3> QED BY <1>1, <3>7, <3>8
    <2>3. i \in Solid(line)
      <3>1. 0 \in 0 .. len - 1 /\ i + 0 = i /\ i \in DOMAIN line
        BY <1>1, <2>1
      <3>2. line[i + 0] # Blank
        BY <2>2, <3>1
      <3> QED BY <3>1, <3>2 DEF Solid
    <2>4. i <= f + 4
      BY <1>1, <1>4, <2>1, <2>3
    <2>5. CASE i + len > f + 5
      <3>1. f + 5 - i \in 0 .. len - 1 /\ i + (f + 5 - i) = f + 5
        BY <1>1, <2>1, <2>4, <2>5
      <3>2. line[i + (f + 5 - i)] # Blank
        BY <2>2, <3>1
      <3> QED BY <1>1, <3>1, <3>2
    <2> QED BY <1>1, <2>1, <2>5
  <1> QED BY <1>3, <1>4 DEF f, s, len

-----------------------------------------------------------------------------
(* What is typed and what is understood.                                   *)

\* What follows the first occurrence of the name, and what follows the name.
Found(line) ==
    trim(From(line, find(line, NameOf(line)) + Len(NameOf(line))))

Typed(line) == trim(From(line, Second(line) + Len(NameOf(line))))

IsComplete(line) == \E i, j, k \in WordStarts(line) : i < j /\ j < k

\* There is a message if a third word is.
LEMMA TypedMessage ==
    ASSUME NEW C, NEW line \in Seq(C), IsSendTo(line)
    PROVE  IsComplete(line) <=> Typed(line) # <<>>
  <1> DEFINE f == First(line)
             s == Second(line)
             len == Len(NameOf(line))
  <1>1. /\ f \in Nat /\ s \in 1 .. Len(line) /\ len \in Nat /\ len >= 1
        /\ f < s /\ s + len \in 1 .. Len(line) + 1
        /\ \A k \in s .. s + len - 1 : line[k] # Blank
        /\ s + len = Len(line) + 1 \/ line[s + len] = Blank
    BY NameWord
  <1>2. /\ f \in WordStarts(line) /\ s \in WordStarts(line)
        /\ \A i \in WordStarts(line) : f <= i /\ (i = f \/ s <= i)
    BY FirstWord, SecondWord DEF IsSendTo
  <1>3. Typed(line) = <<>> <=> \A k \in Solid(line) : k < s + len
    BY <1>1, TrimFrom DEF Typed
  <1> HIDE DEF f, s, len
  <1>4. ASSUME IsComplete(line)
        PROVE  \E k \in Solid(line) : ~(k < s + len)
    <2>1. PICK i, j, k \in WordStarts(line) : i < j /\ j < k
      BY <1>4 DEF IsComplete
    <2>2. i \in Nat /\ j \in Nat /\ k \in Nat /\ k \in Solid(line)
      BY StartsTyped
    <2>3. f <= i /\ s <= j /\ s < k
      BY <1>1, <1>2, <2>1, <2>2
    <2>4. line[k - 1] = Blank
      BY <1>1, <2>2, <2>3 DEF WordStarts
    <2>5. k - 1 \notin s .. s + len - 1
      BY <1>1, <2>4
    <2> QED BY <1>1, <2>2, <2>3, <2>5
  <1>5. ASSUME NEW k \in Solid(line), ~(k < s + len)
        PROVE  IsComplete(line)
    <2>1. k \in 1 .. Len(line) /\ line[k] # Blank
      BY DEF Solid
    <2>2. s + len \in 0 .. Len(line) /\ line[s + len] = Blank /\ k > s + len
      BY <1>1, <1>5, <2>1
    <2>3. PICK i \in WordStarts(line) : s + len < i
      BY <2>1, <2>2, NextWord
    <2>4. i \in Nat
      BY StartsTyped
    <2>5. f < s /\ s < i
      BY <1>1, <2>3, <2>4
    <2> QED BY <1>2, <2>5 DEF IsComplete
  <1> QED BY <1>3, <1>4, <1>5

\* The first character from p on, and the last one.
LEMMA Outermost ==
    ASSUME NEW C, NEW line \in Seq(C), NEW p \in 1 .. Len(line) + 1,
           NEW x \in Solid(line), p <= x
    PROVE  \E a, b \in Solid(line) :
              /\ p <= a /\ a <= x
              /\ \A k \in Solid(line) : k <= b /\ (p <= k => a <= k)
              /\ b = Max(Solid(line))
  <1> DEFINE S == {k \in Solid(line) : p <= k}
  <1>1. Solid(line) \in SUBSET (1 .. Len(line)) /\ Solid(line) # {} /\ Len(line) \in Nat
    BY DEF Solid
  <1>2. S \in SUBSET Nat /\ x \in S
    BY <1>1
  <1>3. PICK a \in S : \A k \in S : a <= k
    BY <1>2, MinIs
  <1>4. Max(Solid(line)) \in Solid(line) /\ \A k \in Solid(line) : k <= Max(Solid(line))
    BY <1>1, MaxIs
  <1> QED BY <1>2, <1>3, <1>4

\* from_str takes the message that was typed, unless the name occurs earlier.
LEMMA FoundMessage ==
    ASSUME NEW C, NEW line \in Seq(C), IsSendTo(line)
    PROVE  IF \E i \in Occurrences(line, NameOf(line)) :
                  i + Len(NameOf(line)) <= First(line) + 5
           THEN Found(line) # <<>> /\ Found(line) # Typed(line)
           ELSE Found(line) = Typed(line)
  <1> DEFINE f == First(line)
             s == Second(line)
             len == Len(NameOf(line))
             O == Occurrences(line, NameOf(line))
  <1>1. /\ f \in Nat /\ s \in 1 .. Len(line) /\ len \in Nat /\ len >= 1
        /\ f + 5 < s /\ s + len \in 1 .. Len(line) + 1
    BY NameWord
  <1>2. /\ O \in SUBSET Nat /\ s \in O
        /\ \A i \in O : i < s => 1 <= i /\ i + len <= f + 5
    BY NameOccurs
  <1>3. PICK g : g = find(line, NameOf(line)) /\ g \in O /\ \A i \in O : g <= i
    BY <1>2, MinIs DEF find
  <1>4. s \in Solid(line)
    BY SecondWord, StartsTyped DEF IsSendTo
  <1>5. Found(line) = trim(From(line, g + len)) /\ Typed(line) = trim(From(line, s + len))
    BY <1>3 DEF Found, Typed
  <1> HIDE DEF f, s, len, O
  <1>6. CASE \A i \in O : ~(i + len <= f + 5)
    <2>1. g \in Nat /\ g <= s /\ ~(g < s)
      BY <1>2, <1>3, <1>6
    <2>2. g = s
      BY <1>1, <2>1
    <2> QED BY <1>5, <1>6, <2>2 DEF O, f, len
  <1>7. CASE \E i \in O : i + len <= f + 5
    <2>1. PICK i \in O : i + len <= f + 5
      BY <1>7
    <2>2. g \in Nat /\ i \in Nat /\ g <= i
      BY <1>2, <1>3
    <2>3. g < s
      BY <1>1, <2>1, <2>2
    <2>4. 1 <= g /\ g + len <= f + 5
      BY <1>2, <1>3, <2>3
    <2>5. PICK p : p = g + len /\ p \in 1 .. Len(line) + 1 /\ p <= s
      BY <1>1, <2>2, <2>4
    <2>6. Found(line) # <<>>
      <3>1. ~ \A k \in Solid(line) : k < p
        BY <1>1, <1>4, <2>5
      <3> QED BY <1>5, <2>5, <3>1, TrimFrom
    <2>7. PICK a, b \in Solid(line) :
              /\ p <= a /\ a <= s
              /\ \A k \in Solid(line) : k <= b /\ (p <= k => a <= k)
              /\ b = Max(Solid(line))
      BY <1>4, <2>5, Outermost
    <2>8. Len(Found(line)) = b - a + 1
      BY <1>5, <2>5, <2>7, TrimFrom
    <2>9. ASSUME Typed(line) # <<>>
          PROVE  Found(line) # Typed(line)
      <3>1. PICK k \in Solid(line) : ~(k < s + len)
        BY <1>1, <1>5, <2>9, TrimFrom
      <3>2. k \in Nat /\ a \in Nat /\ b \in Nat
        BY DEF Solid
      <3>3. s + len <= k
        BY <1>1, <3>1, <3>2
      <3>4. PICK c, d \in Solid(line) :
                /\ s + len <= c
                /\ \A j \in Solid(line) : j <= d /\ (s + len <= j => c <= j)
                /\ d = Max(Solid(line))
        BY <1>1, <3>1, <3>3, Outermost
      <3>5. Len(Typed(line)) = d - c + 1
        BY <1>1, <1>5, <3>4, TrimFrom
      <3>6. d = b /\ c \in Nat
        BY <2>7, <3>4 DEF Solid
      <3>7. a < c
        BY <1>1, <2>7, <3>2, <3>4, <3>6
      <3>8. b - c + 1 # b - a + 1
        BY <3>2, <3>6, <3>7
      <3> QED BY <2>8, <3>5, <3>6, <3>8
    <2>10. Found(line) # <<>> /\ Found(line) # Typed(line)
      BY <2>6, <2>9
    <2> QED BY <1>7, <2>10 DEF O, f, len
  <1> QED BY <1>6, <1>7

\* A line that is not blank is taken for another command than it was meant to
\* be if and only if it is a /send whose second word, the name, also occurs in
\* the first: Command::from_str looks for the name in the whole line.
THEOREM MisreadIffNameInCommand ==
    ASSUME NEW C, NEW line \in Seq(C), trim(line) # <<>>
    PROVE  from_str(line) # Meant(line) <=> NameInCommand(line)
  <1> DEFINE W == WordStarts(line)
             words == split_whitespace(line)
             cmd == to_lowercase(WordAt(line, First(line)))
  <1>1. Solid(line) # {}
    BY DEF trim, Solid
  <1>2. /\ words # <<>> /\ words[1] = WordAt(line, First(line))
        /\ Len(words) > 1 <=> W \ {First(line)} # {}
        /\ Len(words) > 1 => words[2] = NameOf(line)
    BY <1>1, Split DEF NameOf
  <1>3. SEND # STATUS /\ Len(SEND) = 5
    <2>1. Len(SEND) = 5 /\ Len(STATUS) = 7
      BY DEF SEND, STATUS
    <2>2. Len(SEND) # Len(STATUS)
      BY <2>1
    <2> QED BY <2>1, <2>2, Zenon
  <1>4. CASE cmd # SEND
    <2>1. from_str(line) = IF cmd = STATUS THEN Status ELSE Err
      BY <1>2, <1>4 DEF from_str
    <2>2. Meant(line) = IF cmd = STATUS THEN Status ELSE Err
      BY <1>4 DEF Meant, First
    <2>3. ~NameInCommand(line)
      BY <1>4 DEF NameInCommand, First
    <2> QED BY <2>1, <2>2, <2>3
  <1>5. CASE cmd = SEND /\ W \ {First(line)} = {}
    <2>1. from_str(line) = Err
      BY <1>2, <1>3, <1>5 DEF from_str
    <2>2. ~ \E i, j, k \in W : i < j /\ j < k
      <3>1. W \subseteq {First(line)} /\ W \subseteq Nat
        BY <1>5, StartsTyped
      <3> QED BY <3>1
    <2>3. Meant(line) = Err
      BY <1>3, <1>5, <2>2 DEF Meant, First
    <2>4. ~NameInCommand(line)
      BY <1>2, <1>5 DEF NameInCommand
    <2> QED BY <2>1, <2>3, <2>4
  <1>6. CASE cmd = SEND /\ W \ {First(line)} # {}
    <2>1. IsSendTo(line)
      BY <1>1, <1>6 DEF IsSendTo
    <2>2. from_str(line) = IF Found(line) # <<>> THEN Send(NameOf(line), Found(line)) ELSE Err
      BY <1>2, <1>3, <1>6 DEF from_str, Found
    <2>3. Meant(line) = IF IsComplete(line) THEN Send(NameOf(line), Typed(line)) ELSE Err
      BY <1>3, <1>6 DEF Meant, First, Second, NameOf, Typed, IsComplete
    <2>4. NameInCommand(line) <=>
              \E i \in Occurrences(line, NameOf(line)) :
                  i + Len(NameOf(line)) <= First(line) + 5
      BY <1>2, <1>3, <1>6 DEF NameInCommand, First, Second, NameOf
    <2>5. \A m, n : /\ Send(NameOf(line), m) # Err
                    /\ m # n => Send(NameOf(line), m) # Send(NameOf(line), n)
      BY DEF Send, Err
    <2> QED BY <2>1, <2>2, <2>3, <2>4, <2>5, FoundMessage, TypedMessage
  <1> QED BY <1>4, <1>5, <1>6

=============================================================================
