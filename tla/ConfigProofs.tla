---------------------------- MODULE ConfigProofs ----------------------------
(***************************************************************************)
(* What the configuration loader (crates/idlectl-config/src/lib.rs) makes   *)
(* of every text and of every set of files: what parse_timeout may return,  *)
(* that it reads back what format_timeout writes, what the merge of the     *)
(* layers holds, and that the policy of any layers is one the engine can    *)
(* work with.                                                               *)
(*                                                                          *)
(* A definition by recursion is the function that satisfies its equation.   *)
(* Each is shown to have one by induction on how far it is defined, and     *)
(* what it computes by induction on its argument; both are inductions over  *)
(* a set of naturals (UpTo, Below).                                         *)
(***************************************************************************)
EXTENDS Config, PolicyLemmas, SequenceTheorems, FiniteSetTheorems

-----------------------------------------------------------------------------
(* Induction over a set of naturals. *)

\* What holds at 0 and is passed on holds up to n.
LEMMA UpTo ==
    ASSUME NEW n \in Nat, NEW S \in SUBSET Nat, 0 \in S,
           \A i \in 0 .. n : i \in S /\ i # n => i + 1 \in S
    PROVE  \A i \in 0 .. n : i \in S
<1> DEFINE Out == {i \in 0 .. n : i \notin S}
<1>1. SUFFICES ASSUME Out # {} PROVE FALSE
    OBVIOUS
<1> DEFINE m == Earliest(Out)
<1>2. m \in Out /\ \A e \in Out : m <= e
    <2>1. Out \in SUBSET Nat
        OBVIOUS
    <2> QED
        BY <1>1, <2>1, LeastNatural
<1>3. m \in 0 .. n /\ m # 0 /\ m \notin S
    BY <1>2
<1>4. m - 1 \in 0 .. n /\ m - 1 # n /\ m - 1 \notin Out
    BY <1>2, <1>3
<1>5. (m - 1) + 1 \in S
    BY <1>4
<1> QED
    BY <1>3, <1>5

\* What holds of a number once it holds of all smaller ones holds up to n.
LEMMA Below ==
    ASSUME NEW n \in Nat, NEW S,
           \A i \in 0 .. n : (\A j \in 0 .. n : j < i => j \in S) => i \in S
    PROVE  \A i \in 0 .. n : i \in S
<1> DEFINE Out == {i \in 0 .. n : i \notin S}
<1>1. SUFFICES ASSUME Out # {} PROVE FALSE
    OBVIOUS
<1>2. Earliest(Out) \in Out /\ \A e \in Out : Earliest(Out) <= e
    <2>1. Out \in SUBSET Nat
        OBVIOUS
    <2> QED
        BY <1>1, <2>1, LeastNatural
<1>3. \A j \in 0 .. n : j < Earliest(Out) => j \in S
    BY <1>2
<1> QED
    BY <1>2, <1>3

-----------------------------------------------------------------------------
(* The loop of parse_timeout over the characters of a text. *)

\* read[i] is what the loop has once it has seen i characters.
IsReading(start, text, read) ==
    read = [i \in 0 .. Len(text) |->
                IF i = 0 THEN start ELSE ReadChar(read[i - 1], text[i])]

\* A reading is defined for every text, by adding one character at a time.
LEMMA ReadingExists ==
    ASSUME NEW start, NEW text, Len(text) \in Nat
    PROVE  \E read : IsReading(start, text, read)
<1> DEFINE Part(n, r) ==
        r = [i \in 0 .. n |-> IF i = 0 THEN start ELSE ReadChar(r[i - 1], text[i])]
<1> DEFINE S == {n \in Nat : \E r : Part(n, r)}
<1>1. 0 \in S
    <2>1. Part(0, [i \in 0 .. 0 |-> start])
        OBVIOUS
    <2> QED
        BY <2>1
<1>2. ASSUME NEW n \in Nat, n \in S PROVE n + 1 \in S
    <2>1. PICK r : Part(n, r)
        BY <1>2
    <2> DEFINE q == [i \in 0 .. n + 1 |->
                        IF i <= n THEN r[i] ELSE ReadChar(r[n], text[n + 1])]
    <2>2. \A i \in 0 .. n : q[i] = r[i]
        OBVIOUS
    <2>3. ASSUME NEW i \in 0 .. n + 1
          PROVE  q[i] = IF i = 0 THEN start ELSE ReadChar(q[i - 1], text[i])
        <3>1. CASE i = 0
            BY <2>1, <2>2, <3>1
        <3>2. CASE i \in 1 .. n
            <4>1. i \in 0 .. n /\ i - 1 \in 0 .. n /\ i # 0
                BY <3>2
            <4>2. q[i] = r[i] /\ q[i - 1] = r[i - 1]
                BY <4>1, <2>2
            <4>3. r[i] = ReadChar(r[i - 1], text[i])
                BY <2>1, <4>1
            <4> QED
                BY <4>1, <4>2, <4>3
        <3>3. CASE i = n + 1
            <4>1. q[i] = ReadChar(r[n], text[n + 1])
                BY <3>3
            <4>2. i - 1 = n /\ q[i - 1] = r[n] /\ i # 0
                BY <3>3, <2>2
            <4> QED
                BY <3>3, <4>1, <4>2
        <3> QED
            BY <3>1, <3>2, <3>3
    <2>4. Part(n + 1, q)
        <3>1. q = [i \in 0 .. n + 1 |-> q[i]]
            OBVIOUS
        <3> HIDE DEF q
        <3> QED
            BY <2>3, <3>1
    <2>5. \E r1 : Part(n + 1, r1)
        <3> HIDE DEF Part, q
        <3> QED
            BY <2>4
    <2> QED
        BY <2>5
<1>3. Len(text) \in S
    <2> HIDE DEF S
    <2>1. S \in SUBSET Nat
        BY DEF S
    <2>2. \A i \in 0 .. Len(text) : i \in S /\ i # Len(text) => i + 1 \in S
        BY <1>2
    <2>3. \A i \in 0 .. Len(text) : i \in S
        BY <1>1, <2>1, <2>2, UpTo
    <2> QED
        BY <2>3
<1> QED
    BY <1>3 DEF IsReading

\* There is one reading of a text: two that start alike agree after every character.
LEMMA ReadingUnique ==
    ASSUME NEW start, NEW text, Len(text) \in Nat,
           NEW r, IsReading(start, text, r), NEW q, IsReading(start, text, q)
    PROVE  r = q
<1> DEFINE S == {i \in Nat : r[i] = q[i]}
<1>1. /\ r = [i \in 0 .. Len(text) |-> r[i]]
      /\ q = [i \in 0 .. Len(text) |-> q[i]]
      /\ \A i \in 0 .. Len(text) :
            /\ r[i] = IF i = 0 THEN start ELSE ReadChar(r[i - 1], text[i])
            /\ q[i] = IF i = 0 THEN start ELSE ReadChar(q[i - 1], text[i])
    BY DEF IsReading
<1>2. 0 \in S
    <2>1. 0 \in 0 .. Len(text)
        OBVIOUS
    <2>2. r[0] = start /\ q[0] = start
        BY <1>1, <2>1
    <2> QED
        BY <2>2
<1>3. ASSUME NEW i \in 0 .. Len(text), i \in S, i # Len(text) PROVE i + 1 \in S
    <2>1. i + 1 \in 0 .. Len(text) /\ i + 1 # 0 /\ (i + 1) - 1 = i
        BY <1>3
    <2>2. r[i + 1] = ReadChar(r[i], text[i + 1]) /\ q[i + 1] = ReadChar(q[i], text[i + 1])
        BY <1>1, <2>1
    <2>3. r[i] = q[i]
        BY <1>3
    <2> QED
        BY <2>1, <2>2, <2>3
<1>4. \A i \in 0 .. Len(text) : i \in S
    <2> HIDE DEF S
    <2>1. S \in SUBSET Nat
        BY DEF S
    <2> QED
        BY <1>2, <1>3, <2>1, UpTo
<1>5. \A i \in 0 .. Len(text) : r[i] = q[i]
    BY <1>4
<1> QED
    BY <1>1, <1>5

\* Reading is the end of any such function.
LEMMA ReadingIs ==
    ASSUME NEW start, NEW text, Len(text) \in Nat, NEW read, IsReading(start, text, read)
    PROVE  Reading(start, text) = read[Len(text)]
<1> DEFINE found == CHOOSE r : IsReading(start, text, r)
<1>1. IsReading(start, text, found)
    OBVIOUS
<1>2. found = read
    BY <1>1, ReadingUnique
<1>3. Reading(start, text) = found[Len(text)]
    BY DEF Reading, IsReading
<1> QED
    BY <1>2, <1>3

\* Nothing is read of nothing, and the last character is read last.
LEMMA ReadingEmpty ==
    ASSUME NEW start
    PROVE  Reading(start, <<>>) = start
<1>1. Len(<<>>) = 0
    BY EmptySeq
<1>2. PICK read : IsReading(start, <<>>, read)
    BY <1>1, ReadingExists
<1>3. read[0] = start
    BY <1>1, <1>2 DEF IsReading
<1> QED
    BY <1>1, <1>2, <1>3, ReadingIs

\* To read a text and one more character is to read the text, then the character.
LEMMA ReadingAppend ==
    ASSUME NEW S, NEW text \in Seq(S), NEW c \in S, NEW start
    PROVE  Reading(start, Append(text, c)) = ReadChar(Reading(start, text), c)
<1> DEFINE n == Len(text)
           more == Append(text, c)
<1>1. /\ n \in Nat /\ Len(more) = n + 1 /\ Len(more) \in Nat
      /\ \A i \in 1 .. n : more[i] = text[i]
      /\ more[n + 1] = c
    BY LenProperties, AppendProperties
<1>2. PICK read : IsReading(start, more, read)
    <2> HIDE DEF more
    <2> QED
        BY <1>1, ReadingExists
<1> DEFINE part == [i \in 0 .. n |-> read[i]]
<1>3. \A i \in 0 .. n + 1 :
            read[i] = IF i = 0 THEN start ELSE ReadChar(read[i - 1], more[i])
    BY <1>1, <1>2 DEF IsReading
<1>4. IsReading(start, text, part)
    <2>1. ASSUME NEW i \in 0 .. n
          PROVE  part[i] = IF i = 0 THEN start ELSE ReadChar(part[i - 1], text[i])
        <3>1. part[i] = IF i = 0 THEN start ELSE ReadChar(read[i - 1], more[i])
            BY <1>1, <1>3
        <3>2. i # 0 => more[i] = text[i] /\ part[i - 1] = read[i - 1]
            BY <1>1
        <3> QED
            BY <3>1, <3>2
    <2> QED
        BY <2>1 DEF IsReading
<1>5. Reading(start, text) = read[n]
    BY <1>1, <1>4, ReadingIs
<1>6. Reading(start, more) = read[n + 1]
    <2> HIDE DEF more
    <2> QED
        BY <1>1, <1>2, ReadingIs
<1>7. read[n + 1] = ReadChar(read[n], c)
    <2>1. n + 1 \in 0 .. n + 1 /\ n + 1 # 0 /\ (n + 1) - 1 = n
        BY <1>1
    <2> HIDE DEF more, n
    <2> QED
        BY <1>1, <1>3, <2>1
<1> QED
    BY <1>5, <1>6, <1>7

-----------------------------------------------------------------------------
(* What one character does. *)

Accum == [total : 0 .. MaxSecs, digits : {n \in Int : n >= -1},
          unit : BOOLEAN, failed : BOOLEAN]

\* The sentinel is above every duration.
LEMMA Bounds == MaxSecs \in Nat /\ MaxSecs < Never /\ MaxSecs + 1 <= Never
    BY ConfigConstants, PolicyConstants DEF Never

\* A space is none of the other characters that are looked for.
LEMMA SpaceFacts ==
    /\ Space \notin {"s", "m", "h", "d"}
    /\ Space \notin {"0", "1", "2", "3", "4", "5", "6", "7", "8", "9"}
    /\ Space \notin {"n", "e", "v", "r"}
    BY Zenon DEF Space

\* The four units, as natural numbers.
LEMMA UnitFacts ==
    /\ DOMAIN UnitSeconds = {"s", "m", "h", "d"}
    /\ UnitSeconds["s"] = 1 /\ UnitSeconds["m"] = 60
    /\ UnitSeconds["h"] = 3600 /\ UnitSeconds["d"] = 86400
    BY DEF UnitSeconds

\* The ten digits, and what each is worth.
LEMMA DigitFacts ==
    /\ \A d \in 0 .. 9 : Digit[d + 1] \in Digits /\ ValueOf(Digit[d + 1]) = d
    /\ \A c \in Digits : ValueOf(c) \in 0 .. 9 /\ c \notin {"_", Space}
                         /\ c \notin DOMAIN UnitSeconds /\ c # "n"
<1>1. \A i \in 1 .. 10 : Digit[i] = CASE i = 1 -> "0" [] i = 2 -> "1" [] i = 3 -> "2"
                                      [] i = 4 -> "3" [] i = 5 -> "4" [] i = 6 -> "5"
                                      [] i = 7 -> "6" [] i = 8 -> "7" [] i = 9 -> "8"
                                      [] i = 10 -> "9"
    BY DEF Digit
<1>2. \A i, j \in 1 .. 10 : Digit[i] = Digit[j] => i = j
    BY <1>1
<1>3. ASSUME NEW i \in 1 .. 10 PROVE Digit[i] \in Digits /\ ValueOf(Digit[i]) = i - 1
    <2>1. (CHOOSE j \in 1 .. 10 : Digit[j] = Digit[i]) = i
        BY <1>2
    <2> QED
        BY <2>1 DEF ValueOf, Digits
<1>4. \A d \in 0 .. 9 : d + 1 \in 1 .. 10 /\ (d + 1) - 1 = d
    OBVIOUS
<1>5. ASSUME NEW c \in Digits
      PROVE  ValueOf(c) \in 0 .. 9 /\ c \notin {"_", Space}
             /\ c \notin DOMAIN UnitSeconds /\ c # "n"
    <2>1. PICK i \in 1 .. 10 : c = Digit[i]
        BY DEF Digits
    <2>2. ValueOf(c) = i - 1
        BY <2>1, <1>3
    <2>3. c \in {"0", "1", "2", "3", "4", "5", "6", "7", "8", "9"}
        BY <2>1, <1>1
    <2>4. ValueOf(c) \in 0 .. 9
        BY <2>2
    <2>5. c \notin {"_", Space} /\ c # "n"
        BY <2>3, SpaceFacts
    <2>6. c \notin {"s", "m", "h", "d"}
        BY <2>3
    <2>7. c \notin DOMAIN UnitSeconds
        <3>1. DOMAIN UnitSeconds = {"s", "m", "h", "d"}
            BY UnitFacts
        <3> QED
            BY <2>6, <3>1, Zenon
    <2> QED
        BY <2>4, <2>5, <2>7, Zenon
<1> QED
    BY <1>3, <1>4, <1>5

\* Whatever the character, the total stays a representable duration.
LEMMA ReadCharType ==
    ASSUME NEW acc \in Accum, NEW c
    PROVE  ReadChar(acc, c) \in Accum
<1>1. CASE acc.failed \/ c \in {"_", Space}
    BY <1>1 DEF ReadChar
<1>2. CASE ~(acc.failed \/ c \in {"_", Space}) /\ c \in Digits
    <2>1. ValueOf(c) \in 0 .. 9 /\ acc.digits \in Int /\ acc.digits >= -1
        BY <1>2, DigitFacts DEF Accum
    <2> DEFINE d == IF acc.digits = -1 THEN ValueOf(c) ELSE 10 * acc.digits + ValueOf(c)
    <2>2. d \in Int /\ d >= -1
        BY <2>1
    <2>3. ReadChar(acc, c) = [acc EXCEPT !.digits = d]
        BY <1>2 DEF ReadChar
    <2> HIDE DEF d
    <2> QED
        BY <2>2, <2>3 DEF Accum
<1>3. CASE ~(acc.failed \/ c \in {"_", Space}) /\ c \notin Digits
    <2> DEFINE scaled == acc.digits * UnitSeconds[c]
    <2>1. CASE \/ c \notin DOMAIN UnitSeconds
               \/ acc.digits = -1
               \/ acc.digits > MaxSecs \div UnitSeconds[c]
               \/ acc.total + scaled > MaxSecs
        <3>1. ReadChar(acc, c) = [acc EXCEPT !.failed = TRUE]
            BY <1>3, <2>1 DEF ReadChar
        <3> QED
            BY <3>1 DEF Accum
    <2>2. CASE ~(\/ c \notin DOMAIN UnitSeconds
                 \/ acc.digits = -1
                 \/ acc.digits > MaxSecs \div UnitSeconds[c]
                 \/ acc.total + scaled > MaxSecs)
        <3>1. ReadChar(acc, c) = [total |-> acc.total + scaled, digits |-> -1,
                                  unit |-> TRUE, failed |-> FALSE]
            BY <1>3, <2>2 DEF ReadChar
        <3>2. acc.digits \in Nat /\ acc.total \in Nat
            BY <2>2 DEF Accum
        <3>3. scaled \in Nat
            BY <2>2, <3>2, UnitFacts
        <3>4. acc.total + scaled \in 0 .. MaxSecs
            BY <2>2, <3>2, <3>3, Bounds
        <3> HIDE DEF scaled
        <3> QED
            BY <3>1, <3>4 DEF Accum
    <2> QED
        BY <2>1, <2>2
<1> QED
    BY <1>1, <1>2, <1>3

\* Whatever the text, the accumulator of parse_timeout stays within its bounds.
LEMMA ReadingType ==
    ASSUME NEW start \in Accum, NEW text, Len(text) \in Nat
    PROVE  Reading(start, text) \in Accum
<1>1. PICK read : IsReading(start, text, read)
    BY ReadingExists
<1> DEFINE S == {i \in Nat : read[i] \in Accum}
<1>2. \A i \in 0 .. Len(text) :
            read[i] = IF i = 0 THEN start ELSE ReadChar(read[i - 1], text[i])
    BY <1>1 DEF IsReading
<1>3. 0 \in S
    BY <1>2
<1>4. ASSUME NEW i \in 0 .. Len(text), i \in S, i # Len(text) PROVE i + 1 \in S
    <2>1. i + 1 \in 0 .. Len(text) /\ i + 1 # 0 /\ (i + 1) - 1 = i
        BY <1>4
    <2>2. read[i + 1] = ReadChar(read[i], text[i + 1])
        BY <1>2, <2>1
    <2>3. read[i] \in Accum
        BY <1>4
    <2> QED
        BY <2>1, <2>2, <2>3, ReadCharType
<1>5. \A i \in 0 .. Len(text) : i \in S
    <2> HIDE DEF S
    <2>1. S \in SUBSET Nat
        BY DEF S
    <2> QED
        BY <1>3, <1>4, <2>1, UpTo
<1>6. read[Len(text)] \in Accum
    BY <1>5
<1> QED
    BY <1>1, <1>6, ReadingIs

-----------------------------------------------------------------------------
(* Durations. *)

\* The part of a text between its outer spaces is a text.
LEMMA TrimmedType ==
    ASSUME NEW S, NEW text \in Seq(S)
    PROVE  Trimmed(text) \in Seq(S) /\ Len(Trimmed(text)) \in Nat
<1> DEFINE inked == {i \in DOMAIN text : text[i] # Space}
<1>1. CASE inked = {}
    BY <1>1, EmptySeq DEF Trimmed
<1>2. CASE inked # {}
    <2>1. Len(text) \in Nat /\ DOMAIN text = 1 .. Len(text)
        BY LenProperties
    <2>2. Earliest(inked) \in inked
        <3>1. \A i \in inked : i \in 1 .. Len(text)
            BY <2>1
        <3>2. \A i \in 1 .. Len(text) : i \in Nat
            OBVIOUS
        <3>3. inked \in SUBSET Nat
            <4> HIDE DEF inked
            <4> QED
                BY <3>1, <3>2
        <3> QED
            BY <1>2, <3>3, LeastNatural
    <2>3. Latest(inked) \in inked
        <3>1. \A i \in inked : i \in 1 .. Len(text)
            BY <2>1
        <3>2. \A i \in 1 .. Len(text) : i \in 0 .. Len(text)
            BY <2>1
        <3>3. inked \in SUBSET (0 .. Len(text))
            <4> HIDE DEF inked
            <4> QED
                BY <3>1, <3>2
        <3> QED
            BY <1>2, <2>1, <3>3, GreatestBounded
    <2>4. Earliest(inked) \in 1 .. Len(text) /\ Latest(inked) \in 1 .. Len(text)
        BY <2>1, <2>2, <2>3
    <2>5. \A i \in Earliest(inked) .. Latest(inked) : text[i] \in S
        <3>1. \A i \in Earliest(inked) .. Latest(inked) : i \in 1 .. Len(text)
            <4> HIDE DEF inked
            <4> QED
                BY <2>1, <2>4
        <3> HIDE DEF inked
        <3> QED
            BY <3>1, ElementOfSeq
    <2>6. Trimmed(text) = SubSeq(text, Earliest(inked), Latest(inked))
        BY <1>2 DEF Trimmed
    <2> HIDE DEF inked
    <2>7. Trimmed(text) \in Seq(S)
        BY <2>4, <2>5, <2>6, SubSeqProperties
    <2> QED
        BY <2>7, LenProperties
<1> QED
    BY <1>1, <1>2

\* The accumulator before the first character.
LEMMA UnreadType == Unread \in Accum
    BY Bounds DEF Unread, Accum

\* parse_timeout answers every text with a refusal, with never, or with a whole
\* number of seconds that can be represented: no unit and no sum overflows.
LEMMA ParseTimeoutType ==
    ASSUME NEW S, NEW text \in Seq(S)
    PROVE  ParseTimeout(text) \in {Unparsable, Never} \cup 0 .. MaxSecs
<1> DEFINE read == Reading(Unread, Trimmed(text))
<1>1. read \in Accum
    BY TrimmedType, UnreadType, ReadingType
<1>2. read.total \in 0 .. MaxSecs
    BY <1>1 DEF Accum
<1>3. ParseTimeout(text) \in {Unparsable, Never, read.total}
    BY DEF ParseTimeout
<1> HIDE DEF read
<1> QED
    BY <1>2, <1>3

-----------------------------------------------------------------------------
(* format_timeout: numbers in decimal, and what reading them gives. *)

\* Dividing by ten takes the last digit off.
LEMMA LastDigit ==
    \A n \in Nat : /\ n % 10 \in 0 .. 9 /\ n \div 10 \in Nat
                   /\ n = 10 * (n \div 10) + (n % 10)
                   /\ n >= 10 => n \div 10 < n
    OBVIOUS

\* Decimal is defined up to the largest duration, by adding one number at a time.
LEMMA DecimalExists ==
    \E f : f = [n \in 0 .. MaxSecs |->
                    IF n < 10 THEN <<Digit[n + 1]>>
                    ELSE Append(f[n \div 10], Digit[(n % 10) + 1])]
<1> DEFINE Value(r, i) == IF i < 10 THEN <<Digit[i + 1]>>
                          ELSE Append(r[i \div 10], Digit[(i % 10) + 1])
           Part(n, r) == r = [i \in 0 .. n |-> Value(r, i)]
           S == {n \in Nat : \E r : Part(n, r)}
<1>1. 0 \in S
    <2>1. Part(0, [i \in 0 .. 0 |-> <<Digit[i + 1]>>])
        OBVIOUS
    <2> QED
        BY <2>1
<1>2. ASSUME NEW n \in Nat, n \in S PROVE n + 1 \in S
    <2>1. PICK r : Part(n, r)
        BY <1>2
    <2>6. \A i \in 0 .. n : r[i] = Value(r, i)
        <3> HIDE DEF Value
        <3> QED
            BY <2>1
    <2> DEFINE q == [i \in 0 .. n + 1 |-> IF i <= n THEN r[i] ELSE Value(r, n + 1)]
    <2>2. \A i \in 0 .. n : q[i] = r[i]
        OBVIOUS
    <2>3. ASSUME NEW i \in 0 .. n + 1 PROVE q[i] = Value(q, i)
        <3>1. CASE i < 10
            <4>1. \A f : Value(f, i) = <<Digit[i + 1]>>
                BY <3>1
            <4>2. i # n + 1 => q[i] = Value(r, i)
                <5> HIDE DEF Value, Part
                <5> QED
                    BY <2>6
            <4>3. i = n + 1 => q[i] = Value(r, i)
                OBVIOUS
            <4> HIDE DEF q, Value
            <4> QED
                BY <4>1, <4>2, <4>3
        <3>2. CASE ~(i < 10)
            <4>1. i \div 10 \in 0 .. n
                BY <3>2, LastDigit
            <4>2. q[i \div 10] = r[i \div 10]
                BY <4>1, <2>2
            <4>3. \A f : Value(f, i) = Append(f[i \div 10], Digit[(i % 10) + 1])
                BY <3>2
            <4>4. i # n + 1 => q[i] = Value(r, i)
                <5> HIDE DEF Value, Part
                <5> QED
                    BY <2>6
            <4>5. i = n + 1 => q[i] = Value(r, i)
                OBVIOUS
            <4> HIDE DEF q, Value
            <4> QED
                BY <4>2, <4>3, <4>4, <4>5
        <3> QED
            BY <3>1, <3>2
    <2>4. Part(n + 1, q)
        <3>1. q = [i \in 0 .. n + 1 |-> q[i]]
            OBVIOUS
        <3> HIDE DEF q, Value
        <3> QED
            BY <2>3, <3>1
    <2>5. \E r1 : Part(n + 1, r1)
        <3> HIDE DEF Part, q
        <3> QED
            BY <2>4
    <2> HIDE DEF Part
    <2> QED
        BY <2>5
<1>3. MaxSecs \in S
    <2> HIDE DEF S
    <2>1. S \in SUBSET Nat
        BY DEF S
    <2>2. \A i \in 0 .. MaxSecs : i \in S /\ i # MaxSecs => i + 1 \in S
        BY <1>2
    <2>3. \A i \in 0 .. MaxSecs : i \in S
        BY <1>1, <2>1, <2>2, Bounds, UpTo
    <2> QED
        BY <2>3, Bounds
<1> QED
    BY <1>3

\* Decimal satisfies the equation it is defined by.
LEMMA DecimalIs ==
    ASSUME NEW n \in 0 .. MaxSecs
    PROVE  Decimal[n] = IF n < 10 THEN <<Digit[n + 1]>>
                        ELSE Append(Decimal[n \div 10], Digit[(n % 10) + 1])
<1>1. Decimal = [i \in 0 .. MaxSecs |->
                    IF i < 10 THEN <<Digit[i + 1]>>
                    ELSE Append(Decimal[i \div 10], Digit[(i % 10) + 1])]
    BY DecimalExists DEF Decimal
<1> QED
    BY <1>1

\* What format_timeout writes with.
Ink == Digits \cup {"s", "m", "h", "d"}

\* The loop between two of its numbers.
Between(total, unit) == [total |-> total, digits |-> -1, unit |-> unit, failed |-> FALSE]

InNumber(total, unit, n) == [total |-> total, digits |-> n, unit |-> unit, failed |-> FALSE]

\* ReadChar where it goes on: at a digit, and at a unit.
LEMMA AtADigit ==
    ASSUME NEW acc, ~acc.failed, NEW d \in 0 .. 9
    PROVE  ReadChar(acc, Digit[d + 1])
                = [acc EXCEPT !.digits = IF acc.digits = -1 THEN d ELSE 10 * acc.digits + d]
<1>1. /\ Digit[d + 1] \in Digits /\ ValueOf(Digit[d + 1]) = d
      /\ Digit[d + 1] \notin {"_", Space}
    BY DigitFacts
<1> QED
    BY <1>1 DEF ReadChar

\* A unit closes the count before it.
LEMMA AtAUnit ==
    ASSUME NEW acc, ~acc.failed, acc.digits # -1, NEW u \in {"s", "m", "h", "d"},
           ~(acc.digits > MaxSecs \div UnitSeconds[u]),
           ~(acc.total + acc.digits * UnitSeconds[u] > MaxSecs)
    PROVE  ReadChar(acc, u) = [total |-> acc.total + acc.digits * UnitSeconds[u],
                               digits |-> -1, unit |-> TRUE, failed |-> FALSE]
<1>1. u \in DOMAIN UnitSeconds
    BY UnitFacts
<1>2. u \notin Digits
    BY <1>1, DigitFacts
<1>3. u \notin {"_", Space}
    BY SpaceFacts
<1> QED
    BY <1>1, <1>2, <1>3 DEF ReadChar

\* Reading one more digit is multiplying by ten and adding.
LEMMA ReadsADigit ==
    ASSUME NEW total, NEW unit, NEW d \in 0 .. 9
    PROVE  /\ ReadChar(Between(total, unit), Digit[d + 1]) = InNumber(total, unit, d)
           /\ \A n \in Nat : ReadChar(InNumber(total, unit, n), Digit[d + 1])
                                = InNumber(total, unit, 10 * n + d)
<1>1. ReadChar(Between(total, unit), Digit[d + 1]) = InNumber(total, unit, d)
    <2> DEFINE acc == Between(total, unit)
    <2>1. ~acc.failed /\ acc.digits = -1
        BY DEF Between
    <2>2. ReadChar(acc, Digit[d + 1]) = [acc EXCEPT !.digits = d]
        <3> HIDE DEF acc
        <3> QED
            BY <2>1, AtADigit
    <2> QED
        BY <2>2 DEF Between, InNumber
<1>2. ASSUME NEW n \in Nat
      PROVE  ReadChar(InNumber(total, unit, n), Digit[d + 1])
                = InNumber(total, unit, 10 * n + d)
    <2> DEFINE acc == InNumber(total, unit, n)
    <2>1. ~acc.failed /\ acc.digits = n /\ n # -1
        BY DEF InNumber
    <2>2. ReadChar(acc, Digit[d + 1]) = [acc EXCEPT !.digits = 10 * n + d]
        <3> HIDE DEF acc
        <3> QED
            BY <2>1, AtADigit
    <2> QED
        BY <2>2 DEF InNumber
<1> QED
    BY <1>1, <1>2

\* A number in decimal is read as that number, whatever stands before it.
LEMMA ReadsANumber ==
    ASSUME NEW text \in Seq(Ink), NEW total, NEW unit,
           Reading(Unread, text) = Between(total, unit), NEW k \in 0 .. MaxSecs
    PROVE  /\ Decimal[k] \in Seq(Ink)
           /\ Reading(Unread, text \o Decimal[k]) = InNumber(total, unit, k)
<1> DEFINE Good(n) == /\ Decimal[n] \in Seq(Ink)
                      /\ Reading(Unread, text \o Decimal[n]) = InNumber(total, unit, n)
           S == {n \in 0 .. MaxSecs : Good(n)}
<1>1. ASSUME NEW n \in 0 .. MaxSecs, \A j \in 0 .. MaxSecs : j < n => j \in S
      PROVE  n \in S
    <2>0. n \in Nat
        BY Bounds
    <2>1. CASE n < 10
        <3> DEFINE c == Digit[n + 1]
        <3>0. n \in 0 .. 9
            BY <2>0, <2>1
        <3>1. n \in 0 .. 9 /\ c \in Ink
            BY <3>0, DigitFacts DEF Ink
        <3>2. Decimal[n] = <<c>>
            BY <2>1, DecimalIs
        <3> HIDE DEF c
        <3>3. <<c>> \in Seq(Ink) /\ text \o <<c>> = Append(text, c)
            BY <3>1, AppendIsConcat
        <3>4. Reading(Unread, Append(text, c)) = ReadChar(Between(total, unit), c)
            BY <3>1, ReadingAppend
        <3>5. ReadChar(Between(total, unit), c) = InNumber(total, unit, n)
            BY <3>1, ReadsADigit DEF c
        <3> QED
            BY <3>2, <3>3, <3>4, <3>5
    <2>2. CASE ~(n < 10)
        <3> DEFINE q == n \div 10
                   d == n % 10
                   c == Digit[d + 1]
                   w == Decimal[q]
        <3>1. q \in Nat /\ q < n /\ d \in 0 .. 9 /\ n = 10 * q + d
            BY <2>0, <2>2, LastDigit
        <3>2. c \in Ink
            BY <3>1, DigitFacts DEF Ink
        <3>3. Decimal[n] = Append(w, c)
            BY <2>2, DecimalIs
        <3> HIDE DEF q, d, c
        <3>4. q \in 0 .. MaxSecs
            <4> HIDE DEF w, S, Good
            <4> QED
                BY <3>1, Bounds
        <3>5. Good(q)
            BY <1>1, <3>1, <3>4
        <3> HIDE DEF w
        <3>6. w \in Seq(Ink) /\ Reading(Unread, text \o w) = InNumber(total, unit, q)
            BY <3>5 DEF w
        <3>7. Append(w, c) \in Seq(Ink)
            BY <3>2, <3>6, AppendProperties
        <3>8. text \o Append(w, c) = Append(text \o w, c)
            <4>1. <<c>> \in Seq(Ink) /\ text \o w \in Seq(Ink)
                BY <3>2, <3>6, ConcatProperties
            <4>2. Append(w, c) = w \o <<c>> /\ Append(text \o w, c) = (text \o w) \o <<c>>
                BY <3>2, <3>6, <4>1, AppendIsConcat
            <4> QED
                BY <3>6, <4>1, <4>2, ConcatAssociative
        <3>9. Reading(Unread, Append(text \o w, c)) = ReadChar(InNumber(total, unit, q), c)
            BY <3>2, <3>6, ReadingAppend, ConcatProperties
        <3>10. ReadChar(InNumber(total, unit, q), c) = InNumber(total, unit, n)
            BY <3>1, ReadsADigit DEF c
        <3> QED
            BY <3>3, <3>7, <3>8, <3>9, <3>10
    <2> QED
        BY <2>1, <2>2
<1>2. \A n \in 0 .. MaxSecs : n \in S
    <2> HIDE DEF S
    <2> QED
        BY <1>1, Bounds, Below
<1> QED
    BY <1>2

\* Each round of format_timeout adds what it writes to what is read.
LEMMA ReadsARound ==
    ASSUME NEW text \in Seq(Ink), NEW total \in 0 .. MaxSecs, NEW unit \in BOOLEAN,
           Reading(Unread, text) = Between(total, unit),
           NEW u \in {"s", "m", "h", "d"}, NEW count \in Nat,
           NEW totalAfter \in 0 .. MaxSecs, totalAfter = total + count * UnitSeconds[u],
           NEW unitAfter \in BOOLEAN, unitAfter <=> unit \/ count # 0
    PROVE  /\ Written(text, count, u) \in Seq(Ink)
           /\ Reading(Unread, Written(text, count, u)) = Between(totalAfter, unitAfter)
<1>1. CASE count = 0
    <2>1. Written(text, count, u) = text
        BY <1>1 DEF Written
    <2>2. totalAfter = total /\ unitAfter = unit
        BY <1>1, UnitFacts
    <2> QED
        BY <2>1, <2>2
<1>2. CASE count # 0
    <2> DEFINE size == UnitSeconds[u]
               w == text \o Decimal[count]
               acc == InNumber(total, unit, count)
    <2>1. size \in {1, 60, 3600, 86400}
        BY UnitFacts
    <2>2. count \in 0 .. MaxSecs /\ ~(count > MaxSecs \div size) /\ count * size \in Nat
        <3> HIDE DEF size
        <3>1. size = 1 \/ size = 60 \/ size = 3600 \/ size = 86400
            BY <2>1
        <3>2. total + count * size <= MaxSecs
            BY DEF size
        <3> QED
            BY <3>1, <3>2, Bounds
    <2>3. w \in Seq(Ink) /\ Reading(Unread, w) = acc
        BY <2>2, ReadsANumber, ConcatProperties
    <2>4. u \in Ink
        BY DEF Ink
    <2>5. ReadChar(acc, u) = Between(total + count * size, TRUE)
        <3>1. /\ acc.failed = FALSE /\ acc.digits = count /\ acc.total = total
              /\ acc.digits # -1
            BY <2>2 DEF InNumber
        <3> HIDE DEF acc
        <3>2. /\ ~(acc.digits > MaxSecs \div UnitSeconds[u])
              /\ ~(acc.total + acc.digits * UnitSeconds[u] > MaxSecs)
            <4>1. ~(total + count * size > MaxSecs)
                BY <2>2, Bounds
            <4> QED
                BY <2>2, <3>1, <4>1
        <3>3. ReadChar(acc, u) = [total |-> acc.total + acc.digits * UnitSeconds[u],
                                  digits |-> -1, unit |-> TRUE, failed |-> FALSE]
            BY <3>1, <3>2, AtAUnit
        <3> QED
            BY <3>1, <3>3 DEF Between
    <2>6. Written(text, count, u) = Append(w, u)
        BY <1>2 DEF Written
    <2> HIDE DEF w, acc
    <2>7. Append(w, u) \in Seq(Ink) /\ Reading(Unread, Append(w, u)) = ReadChar(acc, u)
        BY <2>3, <2>4, AppendProperties, ReadingAppend
    <2>8. totalAfter = total + count * size /\ unitAfter = TRUE
        BY <1>2
    <2> QED
        BY <2>5, <2>6, <2>7, <2>8
<1> QED
    BY <1>1, <1>2

\* A text without spaces is all read.
LEMMA NothingToTrim ==
    ASSUME NEW S, Space \notin S, NEW text \in Seq(S)
    PROVE  Trimmed(text) = text
<1> DEFINE n == Len(text)
           inked == {i \in DOMAIN text : text[i] # Space}
<1>1. n \in Nat
    BY LenProperties
<1>2. inked = 1 .. n
    <2>1. \A i \in 1 .. n : text[i] # Space
        BY ElementOfSeq
    <2>2. DOMAIN text = 1 .. n
        BY LenProperties
    <2> QED
        BY <2>1, <2>2
<1> HIDE DEF n, inked
<1>3. CASE n = 0
    <2>1. inked = {}
        BY <1>2, <1>3
    <2>2. text = <<>>
        BY <1>3, EmptySeq DEF n
    <2> QED
        BY <2>1, <2>2 DEF Trimmed, inked
<1>4. CASE n # 0
    <2>1. 1 \in 1 .. n /\ n \in 1 .. n
        BY <1>1, <1>4
    <2>2. (1 .. n) \in SUBSET Nat /\ (1 .. n) \in SUBSET (0 .. n)
        BY <1>1
    <2>3. Earliest(1 .. n) \in 1 .. n /\ \A e \in 1 .. n : Earliest(1 .. n) <= e
        BY <2>1, <2>2, LeastNatural
    <2>4. Latest(1 .. n) \in 1 .. n /\ \A e \in 1 .. n : e <= Latest(1 .. n)
        BY <1>1, <2>1, <2>2, GreatestBounded
    <2>5. Earliest(1 .. n) = 1
        BY <1>1, <2>1, <2>3
    <2>6. Latest(1 .. n) = n
        BY <1>1, <2>1, <2>4
    <2>7. inked # {} /\ Trimmed(text) = SubSeq(text, Earliest(inked), Latest(inked))
        BY <1>2, <2>1 DEF Trimmed, inked
    <2>8. Trimmed(text) = SubSeq(text, 1, n)
        BY <1>2, <2>5, <2>6, <2>7
    <2> QED
        BY <2>8, SubSeqFull DEF n
<1> QED
    BY <1>3, <1>4

\* The four counts of a number of seconds add up to it.
LEMMA Split ==
    ASSUME NEW secs \in Nat
    PROVE  /\ secs \div 86400 \in Nat /\ (secs % 86400) \div 3600 \in Nat
           /\ (secs % 3600) \div 60 \in Nat /\ secs % 60 \in Nat
           /\ (secs \div 86400) * 86400 + ((secs % 86400) \div 3600) * 3600
                + ((secs % 3600) \div 60) * 60 + (secs % 60) = secs
<1>1. /\ secs = 86400 * (secs \div 86400) + (secs % 86400) /\ secs % 86400 \in Nat
      /\ secs \div 86400 \in Nat
    OBVIOUS
<1>2. secs % 86400 = 3600 * ((secs % 86400) \div 3600) + ((secs % 86400) % 3600)
      /\ (secs % 86400) \div 3600 \in Nat
    BY <1>1
<1>3. (secs % 86400) % 3600 = secs % 3600
    BY <1>1
<1>4. secs % 3600 = 60 * ((secs % 3600) \div 60) + ((secs % 3600) % 60)
      /\ (secs % 3600) \div 60 \in Nat /\ secs % 60 \in Nat
    OBVIOUS
<1>5. (secs % 3600) % 60 = secs % 60
    OBVIOUS
<1> QED
    BY <1>1, <1>2, <1>3, <1>4, <1>5

\* The text of a duration reads back as the duration, with nothing pending.
LEMMA FormatReads ==
    ASSUME NEW secs \in 1 .. MaxSecs
    PROVE  /\ FormatUnits(secs) \in Seq(Ink)
           /\ Reading(Unread, FormatUnits(secs)) = Between(secs, TRUE)
<1> DEFINE d == secs \div 86400
           h == (secs % 86400) \div 3600
           m == (secs % 3600) \div 60
           s == secs % 60
           inNone    == 0
           inDays    == inNone + d * UnitSeconds["d"]
           inHours   == inDays + h * UnitSeconds["h"]
           inMinutes == inHours + m * UnitSeconds["m"]
           nothing == <<>>
           days    == Written(nothing, d, "d")
           hours   == Written(days, h, "h")
           minutes == Written(hours, m, "m")
           text    == Written(minutes, s, "s")
           hasNone    == FALSE
           hasDays    == hasNone \/ d # 0
           hasHours   == hasDays \/ h # 0
           hasMinutes == hasHours \/ m # 0
           hasSeconds == hasMinutes \/ s # 0
<1>1. /\ d \in Nat /\ h \in Nat /\ m \in Nat /\ s \in Nat
      /\ inDays = d * 86400 /\ inHours = inDays + h * 3600
      /\ inMinutes = inHours + m * 60 /\ secs = inMinutes + s
    <2>1. secs \in Nat
        BY Bounds
    <2>2. /\ d \in Nat /\ h \in Nat /\ m \in Nat /\ s \in Nat
          /\ d * 86400 + h * 3600 + m * 60 + s = secs
        BY <2>1, Split
    <2> HIDE DEF d, h, m, s
    <2> QED
        BY <2>2, UnitFacts, SMT
<1>2. FormatUnits(secs) = text
    BY DEF FormatUnits
<1>3. nothing \in Seq(Ink) /\ Reading(Unread, nothing) = Between(inNone, hasNone)
    BY EmptySeq, ReadingEmpty DEF Unread, Between
<1>4. /\ hasNone \in BOOLEAN /\ hasDays \in BOOLEAN /\ hasHours \in BOOLEAN
      /\ hasMinutes \in BOOLEAN /\ hasSeconds \in BOOLEAN
      /\ hasDays <=> hasNone \/ d # 0
      /\ hasHours <=> hasDays \/ h # 0
      /\ hasMinutes <=> hasHours \/ m # 0
      /\ hasSeconds <=> hasMinutes \/ s # 0
    <2> HIDE DEF d, h, m, s
    <2> QED
        OBVIOUS
<1>5. secs = inMinutes + s * UnitSeconds["s"]
    <2> HIDE DEF d, h, m, s, inMinutes
    <2> QED
        BY <1>1, UnitFacts, SMT
<1>6. /\ inDays \in 0 .. MaxSecs /\ inHours \in 0 .. MaxSecs
      /\ inMinutes \in 0 .. MaxSecs /\ secs \in 0 .. MaxSecs
      /\ hasSeconds
    <2> HIDE DEF d, h, m, s, inDays, inHours, inMinutes,
                 hasNone, hasDays, hasHours, hasMinutes, hasSeconds
    <2>1. secs \in Nat /\ secs # 0 /\ secs <= MaxSecs /\ MaxSecs \in Nat
        BY Bounds
    <2> QED
        BY <1>1, <1>4, <2>1, SMT
<1>7. d \in Nat /\ h \in Nat /\ m \in Nat /\ s \in Nat /\ inNone \in 0 .. MaxSecs
    BY <1>1, Bounds, SMT
<1> HIDE DEF d, h, m, s, hasNone, hasDays, hasHours, hasMinutes, hasSeconds
<1>8. days \in Seq(Ink) /\ Reading(Unread, days) = Between(inDays, hasDays)
    <2>1. inDays = inNone + d * UnitSeconds["d"] /\ inDays \in 0 .. MaxSecs
        BY <1>6
    <2>2. hasNone \in BOOLEAN /\ hasDays \in BOOLEAN /\ (hasDays <=> hasNone \/ d # 0)
        BY <1>4
    <2> HIDE DEF nothing, inNone, inDays
    <2> QED
        BY <1>3, <1>7, <2>1, <2>2, ReadsARound
<1> HIDE DEF days
<1>9. hours \in Seq(Ink) /\ Reading(Unread, hours) = Between(inHours, hasHours)
    <2>1. inHours = inDays + h * UnitSeconds["h"]
        OBVIOUS
    <2>2. inDays \in 0 .. MaxSecs /\ inHours \in 0 .. MaxSecs
        BY <1>6
    <2>3. hasDays \in BOOLEAN /\ hasHours \in BOOLEAN /\ (hasHours <=> hasDays \/ h # 0)
        BY <1>4
    <2> HIDE DEF inDays, inHours
    <2> QED
        BY <1>7, <1>8, <2>1, <2>2, <2>3, ReadsARound
<1> HIDE DEF hours
<1>10. minutes \in Seq(Ink) /\ Reading(Unread, minutes) = Between(inMinutes, hasMinutes)
    <2>1. inMinutes = inHours + m * UnitSeconds["m"]
        OBVIOUS
    <2>2. inHours \in 0 .. MaxSecs /\ inMinutes \in 0 .. MaxSecs
        BY <1>6
    <2>3. /\ hasHours \in BOOLEAN /\ hasMinutes \in BOOLEAN
          /\ hasMinutes <=> hasHours \/ m # 0
        BY <1>4
    <2> HIDE DEF inDays, inHours, inMinutes
    <2> QED
        BY <1>7, <1>9, <2>1, <2>2, <2>3, ReadsARound
<1> HIDE DEF minutes, inDays, inHours, inMinutes
<1>11. text \in Seq(Ink) /\ Reading(Unread, text) = Between(secs, hasSeconds)
    <2>1. secs = inMinutes + s * UnitSeconds["s"]
        BY <1>5
    <2>2. inMinutes \in 0 .. MaxSecs /\ secs \in 0 .. MaxSecs
        BY <1>6
    <2>3. /\ hasMinutes \in BOOLEAN /\ hasSeconds \in BOOLEAN
          /\ hasSeconds <=> hasMinutes \/ s # 0
        BY <1>4
    <2> QED
        BY <1>7, <1>10, <2>1, <2>2, <2>3, ReadsARound
<1>12. hasSeconds = TRUE
    BY <1>4, <1>6
<1> QED
    BY <1>2, <1>11, <1>12

\* "0s" is read as zero.
LEMMA ZeroReads ==
    <<"0", "s">> \in Seq(Ink) /\ Reading(Unread, <<"0", "s">>) = Between(0, TRUE)
<1> DEFINE nothing == <<>>
           zero == Decimal[0]
           acc == InNumber(0, FALSE, 0)
<1>1. nothing \in Seq(Ink) /\ Reading(Unread, nothing) = Between(0, FALSE)
    BY EmptySeq, ReadingEmpty DEF Unread, Between
<1>2. zero = <<"0">> /\ 0 \in 0 .. MaxSecs
    <2>1. Decimal[0] = <<Digit[0 + 1]>> /\ 0 \in 0 .. MaxSecs
        <3>1. ASSUME NEW n \in 0 .. MaxSecs, n < 10 PROVE Decimal[n] = <<Digit[n + 1]>>
            BY <3>1, DecimalIs
        <3>2. 0 \in 0 .. MaxSecs
            BY Bounds
        <3> QED
            BY <3>1, <3>2
    <2>2. Digit[0 + 1] = "0"
        BY DEF Digit
    <2> HIDE DEF zero
    <2> QED
        BY <2>1, <2>2 DEF zero
<1>3. zero \in Seq(Ink) /\ Reading(Unread, zero) = acc
    <2>1. zero \in Seq(Ink) /\ Reading(Unread, nothing \o zero) = acc
        <3> HIDE DEF nothing
        <3> QED
            BY <1>1, <1>2, ReadsANumber
    <2>2. nothing \o zero = zero
        <3> HIDE DEF zero
        <3> QED
            BY <2>1, ConcatEmptySeq
    <2> QED
        BY <2>1, <2>2
<1>4. <<"0", "s">> = Append(zero, "s")
    <2>1. <<"0", "s">> = Append(<<"0">>, "s")
        OBVIOUS
    <2> QED
        BY <1>2, <2>1
<1>5. "s" \in Ink
    BY DEF Ink
<1> HIDE DEF zero
<1>6. /\ Append(zero, "s") \in Seq(Ink)
      /\ Reading(Unread, Append(zero, "s")) = ReadChar(acc, "s")
    BY <1>3, <1>5, AppendProperties, ReadingAppend
<1>7. ReadChar(acc, "s") = Between(0, TRUE)
    <2>1. ~acc.failed /\ acc.digits = 0 /\ acc.total = 0
        BY DEF InNumber
    <2> HIDE DEF acc
    <2>2. /\ acc.digits # -1
          /\ ~(acc.digits > MaxSecs \div UnitSeconds["s"])
          /\ ~(acc.total + acc.digits * UnitSeconds["s"] > MaxSecs)
          /\ acc.total + acc.digits * UnitSeconds["s"] = 0
        BY <2>1, UnitFacts, Bounds, SMT
    <2>3. ReadChar(acc, "s") = [total |-> acc.total + acc.digits * UnitSeconds["s"],
                                digits |-> -1, unit |-> TRUE, failed |-> FALSE]
        BY <2>1, <2>2, AtAUnit
    <2> QED
        BY <2>2, <2>3 DEF Between
<1> QED
    BY <1>4, <1>6, <1>7

\* format_timeout "round-trips through parse_timeout" (idlectl-config/src/lib.rs:244):
\* every duration that can be represented, and never, is read back as itself.
THEOREM RoundTrip ==
    \A t \in 0 .. MaxSecs \cup {Never} : ParseTimeout(FormatTimeout(t)) = t
<1>0. SUFFICES ASSUME NEW t \in 0 .. MaxSecs \cup {Never}
               PROVE  ParseTimeout(FormatTimeout(t)) = t
    OBVIOUS
<1> DEFINE text == FormatTimeout(t)
<1>1. CASE t = Never
    <2> DEFINE S == {"n", "e", "v", "r"}
    <2>1. text = Word_never
        BY <1>1 DEF FormatTimeout
    <2>2. Word_never \in Seq(S) /\ Space \notin S
        BY SpaceFacts DEF Word_never
    <2> HIDE DEF S
    <2>3. Trimmed(Word_never) = Word_never
        BY <2>2, NothingToTrim
    <2> QED
        BY <1>1, <2>1, <2>3 DEF ParseTimeout
<1>2. CASE t # Never
    <2>1. t \in 0 .. MaxSecs
        BY <1>2
    <2>2. text \in Seq(Ink) /\ Reading(Unread, text) = Between(t, TRUE)
        <3>1. CASE t = 0
            <4>1. text = <<"0", "s">>
                BY <1>2, <3>1 DEF FormatTimeout
            <4> HIDE DEF text
            <4> QED
                BY <3>1, <4>1, ZeroReads
        <3>2. CASE t # 0
            <4>1. t \in 1 .. MaxSecs /\ text = FormatUnits(t)
                BY <1>2, <2>1, <3>2, Bounds DEF FormatTimeout
            <4> QED
                BY <4>1, FormatReads
        <3> QED
            BY <3>1, <3>2
    <2> HIDE DEF text
    <2>3. Trimmed(text) = text
        <3>1. Space \notin Ink
            BY DigitFacts, SpaceFacts DEF Ink
        <3> QED
            BY <2>2, <3>1, NothingToTrim
    <2>4. text # Word_never
        <3>1. "n" \notin Ink
            BY DigitFacts DEF Ink
        <3>2. Len(Word_never) = 5 /\ Word_never[1] = "n"
            BY DEF Word_never
        <3>3. SUFFICES ASSUME text = Word_never PROVE FALSE
            OBVIOUS
        <3>4. 1 \in 1 .. Len(text) /\ text[1] = "n"
            BY <3>2, <3>3
        <3> QED
            BY <2>2, <3>1, <3>4, ElementOfSeq
    <2>5. Reading(Unread, Trimmed(text)) = Between(t, TRUE)
        BY <2>2, <2>3
    <2>6. ParseTimeout(text) = t
        BY <2>3, <2>4, <2>5 DEF ParseTimeout, Between
    <2> QED
        BY <2>6 DEF text
<1> QED
    BY <1>1, <1>2

-----------------------------------------------------------------------------
(* The merge of the layers. *)

\* The empty function has no keys.
LEMMA NoTables == DOMAIN <<>> = {}
    OBVIOUS

\* One layer over what is below it, key by key.
LEMMA OverlaySections ==
    ASSUME NEW below, NEW above, NEW path, NEW k
    PROVE  LET o == SectionOf(Overlay(below, above), path)
               a == SectionOf(above, path)
               b == SectionOf(below, path)
           IN  /\ k \in DOMAIN o <=> k \in DOMAIN a \/ k \in DOMAIN b
               /\ k \in DOMAIN a => o[k] = a[k]
               /\ k \in DOMAIN b /\ k \notin DOMAIN a => o[k] = b[k]
<1> DEFINE o == SectionOf(Overlay(below, above), path)
           a == SectionOf(above, path)
           b == SectionOf(below, path)
<1>1. DOMAIN Overlay(below, above) = DOMAIN below \cup DOMAIN above
    BY DEF Overlay
<1>2. CASE path \in DOMAIN below \cup DOMAIN above
    <2>1. o = Over(a, b)
        BY <1>1, <1>2 DEF Overlay, SectionOf
    <2> HIDE DEF o, a, b
    <2> QED
        BY <2>1 DEF Over, o, a, b
<1>3. CASE path \notin DOMAIN below \cup DOMAIN above
    <2>1. DOMAIN o = {} /\ DOMAIN a = {} /\ DOMAIN b = {}
        BY <1>1, <1>3, NoTables DEF SectionOf
    <2> QED
        BY <2>1
<1> QED
    BY <1>2, <1>3

\* upTo[i] is the merge of the first i layers.
IsMerging(layers, upTo) ==
    upTo = [i \in 0 .. Len(layers) |->
                IF i = 0 THEN <<>>
                ELSE IF Dropped(layers[i]) THEN upTo[i - 1]
                ELSE Overlay(upTo[i - 1], layers[i].tables)]

\* The merge is defined for every number of layers, by adding one at a time.
LEMMA MergingExists ==
    ASSUME NEW layers, Len(layers) \in Nat
    PROVE  \E upTo : IsMerging(layers, upTo) /\ Merged(layers) = upTo[Len(layers)]
<1> DEFINE Value1(r, i) == IF i = 0 THEN <<>>
                          ELSE IF Dropped(layers[i]) THEN r[i - 1]
                          ELSE Overlay(r[i - 1], layers[i].tables)
           Part(n, r) == r = [i \in 0 .. n |-> Value1(r, i)]
           S == {n \in Nat : \E r : Part(n, r)}
<1>1. 0 \in S
    <2>1. Part(0, [i \in 0 .. 0 |-> <<>>])
        OBVIOUS
    <2> QED
        BY <2>1
<1>2. ASSUME NEW n \in Nat, n \in S PROVE n + 1 \in S
    <2>1. PICK r : Part(n, r)
        BY <1>2
    <2>2. \A i \in 0 .. n : r[i] = Value1(r, i)
        <3> HIDE DEF Value1
        <3> QED
            BY <2>1
    <2> DEFINE q == [i \in 0 .. n + 1 |-> IF i <= n THEN r[i] ELSE Value1(r, n + 1)]
    <2>3. \A i \in 0 .. n : q[i] = r[i]
        OBVIOUS
    <2>4. ASSUME NEW i \in 0 .. n + 1 PROVE q[i] = Value1(q, i)
        <3>1. CASE i = 0
            <4>1. 0 \in 0 .. n /\ q[0] = r[0] /\ r[0] = <<>>
                BY <2>2, <2>3
            <4> HIDE DEF q
            <4> QED
                BY <3>1, <4>1
        <3>2. CASE i \in 1 .. n + 1
            <4>1. i - 1 \in 0 .. n /\ i # 0
                BY <3>2
            <4>2. q[i - 1] = r[i - 1]
                BY <4>1, <2>3
            <4>3. Value1(q, i) = Value1(r, i)
                <5> HIDE DEF q
                <5> QED
                    BY <4>1, <4>2
            <4>4. q[i] = Value1(r, i)
                <5>1. i # n + 1 => q[i] = Value1(r, i)
                    <6> HIDE DEF Value1
                    <6> QED
                        BY <2>2
                <5>2. i = n + 1 => q[i] = Value1(r, i)
                    <6> HIDE DEF Value1
                    <6> QED
                        OBVIOUS
                <5> QED
                    BY <5>1, <5>2
            <4> HIDE DEF q, Value1
            <4> QED
                BY <4>3, <4>4
        <3> QED
            BY <3>1, <3>2
    <2>5. Part(n + 1, q)
        <3>1. q = [i \in 0 .. n + 1 |-> q[i]]
            OBVIOUS
        <3> HIDE DEF q, Value1
        <3> QED
            BY <2>4, <3>1
    <2>6. \E r1 : Part(n + 1, r1)
        <3> HIDE DEF Part, q
        <3> QED
            BY <2>5
    <2> HIDE DEF Part
    <2> QED
        BY <2>6
<1>3. Len(layers) \in S
    <2> HIDE DEF S
    <2>1. S \in SUBSET Nat
        BY DEF S
    <2>2. \A i \in 0 .. Len(layers) : i \in S /\ i # Len(layers) => i + 1 \in S
        BY <1>2
    <2>3. \A i \in 0 .. Len(layers) : i \in S
        BY <1>1, <2>1, <2>2, UpTo
    <2> QED
        BY <2>3
<1>4. \E upTo : IsMerging(layers, upTo)
    BY <1>3 DEF IsMerging
<1> DEFINE found == CHOOSE r : IsMerging(layers, r)
<1>5. IsMerging(layers, found)
    BY <1>4
<1>6. Merged(layers) = found[Len(layers)]
    BY DEF Merged, IsMerging
<1> HIDE DEF found
<1> QED
    BY <1>5, <1>6

\* The last of the numbers to n is the latest of any set of them it is in.
LEMMA LatestIsLast ==
    ASSUME NEW n \in Nat, NEW T \in SUBSET (0 .. n), n \in T
    PROVE  Latest(T) = n
<1> DEFINE l == Latest(T)
<1>1. T # {}
    OBVIOUS
<1>2. l \in T /\ \A e \in T : e <= l
    BY <1>1, GreatestBounded
<1>3. l \in 0 .. n /\ n <= l
    BY <1>2
<1> HIDE DEF l
<1>4. l = n
    BY <1>3
<1> QED
    BY <1>4 DEF l

\* The sound layers that set a key.
Setters(layers, path, k) ==
    {j \in DOMAIN layers : /\ ~Dropped(layers[j])
                           /\ k \in DOMAIN SectionOf(layers[j].tables, path)}

\* The merge, stated without merging: a table is there when a sound layer has it,
\* a key when a sound layer sets it, and its value is the last one's.
LEMMA MergedKeys ==
    ASSUME NEW F, NEW layers \in Seq(F)
    PROVE  /\ \A path : path \in DOMAIN Merged(layers)
                <=> \E j \in DOMAIN layers : ~Dropped(layers[j])
                                             /\ path \in DOMAIN layers[j].tables
           /\ \A path, k :
                /\ k \in DOMAIN SectionOf(Merged(layers), path)
                        <=> Setters(layers, path, k) # {}
                /\ Setters(layers, path, k) # {}
                        => SectionOf(Merged(layers), path)[k]
                            = SectionOf(layers[Latest(Setters(layers, path, k))].tables, path)[k]
<1>1. Len(layers) \in Nat /\ DOMAIN layers = 1 .. Len(layers)
    BY LenProperties
<1>2. PICK upTo : IsMerging(layers, upTo) /\ Merged(layers) = upTo[Len(layers)]
    BY <1>1, MergingExists
<1>3. \A i \in 0 .. Len(layers) :
        upTo[i] = IF i = 0 THEN <<>>
                  ELSE IF Dropped(layers[i]) THEN upTo[i - 1]
                  ELSE Overlay(upTo[i - 1], layers[i].tables)
    BY <1>2 DEF IsMerging
<1> DEFINE Early(i, path, k) == {j \in 1 .. i : /\ ~Dropped(layers[j])
                                        /\ k \in DOMAIN SectionOf(layers[j].tables, path)}
           Table(i, path) ==
                path \in DOMAIN upTo[i]
                    <=> \E j \in 1 .. i : ~Dropped(layers[j])
                                          /\ path \in DOMAIN layers[j].tables
           Key(i, path, k) ==
                /\ k \in DOMAIN SectionOf(upTo[i], path) <=> Early(i, path, k) # {}
                /\ Early(i, path, k) # {}
                    => SectionOf(upTo[i], path)[k]
                        = SectionOf(layers[Latest(Early(i, path, k))].tables, path)[k]
           S == {i \in Nat : \A path : Table(i, path) /\ \A k : Key(i, path, k)}
<1>4. 0 \in S
    <2>1. upTo[0] = <<>>
        BY <1>1, <1>3
    <2>2. \A path : DOMAIN SectionOf(upTo[0], path) = {}
        BY <2>1, NoTables DEF SectionOf
    <2>3. \A path : Table(0, path)
        BY <2>1, NoTables
    <2>4. \A path, k : Early(0, path, k) = {}
        OBVIOUS
    <2>5. \A path, k : Key(0, path, k)
        <3> HIDE DEF Early
        <3> QED
            BY <2>2, <2>4
    <2> HIDE DEF Table, Key
    <2> QED
        BY <2>3, <2>5
<1>5. ASSUME NEW i \in 0 .. Len(layers), i \in S, i # Len(layers) PROVE i + 1 \in S
    <2> DEFINE n == i + 1
    <2>1. /\ i \in Nat /\ n \in 1 .. Len(layers) /\ n \in 0 .. Len(layers) /\ n # 0 /\ n - 1 = i
          /\ \A j \in 1 .. n : j \in 1 .. i \/ j = n
          /\ \A j \in 1 .. i : j \in 1 .. n /\ j <= n
        <3>1. Len(layers) \in Nat /\ i \in 0 .. Len(layers) /\ i # Len(layers)
            BY <1>1, <1>5
        <3> DEFINE len == Len(layers)
        <3> HIDE DEF S, len
        <3>2. len \in Nat /\ i \in 0 .. len /\ i # len
            BY <3>1 DEF len
        <3>3. /\ i \in Nat /\ n \in 1 .. len /\ n \in 0 .. len /\ n # 0 /\ n - 1 = i
              /\ \A j \in 1 .. n : j \in 1 .. i \/ j = n
              /\ \A j \in 1 .. i : j \in 1 .. n /\ j <= n
            BY <3>2
        <3> QED
            BY <3>3 DEF len
    <2>2. upTo[n] = IF Dropped(layers[n]) THEN upTo[i]
                    ELSE Overlay(upTo[i], layers[n].tables)
        BY <1>3, <2>1
    <2>3. \A path : Table(i, path) /\ \A k : Key(i, path, k)
        BY <1>5
    <2> HIDE DEF n
    <2>4. ASSUME NEW path PROVE Table(n, path)
        <3>1. Table(i, path)
            BY <2>3
        <3>2. CASE Dropped(layers[n])
            BY <2>1, <2>2, <3>1, <3>2
        <3>3. CASE ~Dropped(layers[n])
            <4>1. DOMAIN upTo[n] = DOMAIN upTo[i] \cup DOMAIN layers[n].tables
                BY <2>2, <3>3 DEF Overlay
            <4> QED
                BY <2>1, <3>1, <3>3, <4>1
        <3> QED
            BY <3>2, <3>3
    <2>5. ASSUME NEW path, NEW k PROVE Key(n, path, k)
        <3>1. Key(i, path, k)
            BY <2>3
        <3> DEFINE sets == ~Dropped(layers[n]) /\ k \in DOMAIN SectionOf(layers[n].tables, path)
        <3>2. CASE ~sets
            <4>1. Early(n, path, k) = Early(i, path, k)
                BY <2>1, <3>2
            <4>2. /\ k \in DOMAIN SectionOf(upTo[n], path)
                        <=> k \in DOMAIN SectionOf(upTo[i], path)
                  /\ k \in DOMAIN SectionOf(upTo[i], path)
                        => SectionOf(upTo[n], path)[k] = SectionOf(upTo[i], path)[k]
                <5>1. CASE Dropped(layers[n])
                    BY <2>2, <5>1
                <5>2. CASE ~Dropped(layers[n])
                    <6>1. k \notin DOMAIN SectionOf(layers[n].tables, path)
                        BY <3>2, <5>2
                    <6>2. upTo[n] = Overlay(upTo[i], layers[n].tables)
                        BY <2>2, <5>2
                    <6> QED
                        BY <6>1, <6>2, OverlaySections
                <5> QED
                    BY <5>1, <5>2
            <4> HIDE DEF Early
            <4> QED
                BY <3>1, <4>1, <4>2
        <3>3. CASE sets
            <4>1. n \in Early(n, path, k)
                BY <2>1, <3>3
            <4>2. Early(n, path, k) \in SUBSET (0 .. n)
                OBVIOUS
            <4>3. Latest(Early(n, path, k)) = n
                <5>1. n \in Nat
                    BY <2>1
                <5> HIDE DEF Early
                <5> QED
                    BY <4>1, <4>2, <5>1, LatestIsLast
            <4>4. upTo[n] = Overlay(upTo[i], layers[n].tables)
                BY <2>2, <3>3
            <4>5. /\ k \in DOMAIN SectionOf(upTo[n], path)
                  /\ SectionOf(upTo[n], path)[k] = SectionOf(layers[n].tables, path)[k]
                BY <3>3, <4>4, OverlaySections
            <4> HIDE DEF Early
            <4> QED
                BY <4>1, <4>3, <4>5
        <3> QED
            BY <3>2, <3>3
    <2>6. n \in S
        <3> HIDE DEF Table, Key
        <3> QED
            BY <2>1, <2>4, <2>5
    <2> QED
        BY <2>6 DEF n
<1>6. Len(layers) \in S
    <2> HIDE DEF S
    <2>1. S \in SUBSET Nat
        BY DEF S
    <2>2. \A i \in 0 .. Len(layers) : i \in S
        BY <1>1, <1>4, <1>5, <2>1, UpTo
    <2> QED
        BY <1>1, <2>2
<1>7. \A path : Table(Len(layers), path) /\ \A k : Key(Len(layers), path, k)
    BY <1>6
<1>8. \A path, k : Early(Len(layers), path, k) = Setters(layers, path, k)
    BY <1>1 DEF Setters
<1>9. \A path : path \in DOMAIN Merged(layers)
                <=> \E j \in DOMAIN layers : ~Dropped(layers[j])
                                             /\ path \in DOMAIN layers[j].tables
    BY <1>1, <1>2, <1>7
<1> HIDE DEF Early
<1> QED
    BY <1>2, <1>7, <1>8, <1>9

\* Every key of the merge is a key of some sound layer, with its value there.
LEMMA MergedFrom ==
    ASSUME NEW F, NEW layers \in Seq(F),
           NEW path \in DOMAIN Merged(layers), NEW k \in DOMAIN Merged(layers)[path]
    PROVE  \E j \in DOMAIN layers :
                /\ ~Dropped(layers[j])
                /\ path \in DOMAIN layers[j].tables
                /\ k \in DOMAIN layers[j].tables[path]
                /\ Merged(layers)[path][k] = layers[j].tables[path][k]
<1> DEFINE m == Merged(layers)
           set == Setters(layers, path, k)
<1>1. Len(layers) \in Nat /\ DOMAIN layers = 1 .. Len(layers)
    BY LenProperties
<1>2. SectionOf(m, path) = m[path]
    BY DEF SectionOf
<1>3. k \in DOMAIN SectionOf(m, path)
    BY <1>2
<1> HIDE DEF m
<1>4. set # {} /\ m[path][k] = SectionOf(layers[Latest(set)].tables, path)[k]
    BY <1>2, <1>3, MergedKeys DEF m
<1>5. set \in SUBSET (0 .. Len(layers))
    BY <1>1 DEF Setters
<1>6. Latest(set) \in set
    <2> HIDE DEF set
    <2> QED
        BY <1>1, <1>4, <1>5, GreatestBounded
<1> DEFINE j == Latest(set)
<1>7. j \in DOMAIN layers /\ ~Dropped(layers[j]) /\ k \in DOMAIN SectionOf(layers[j].tables, path)
    <2> HIDE DEF j
    <2> QED
        BY <1>6 DEF Setters, j
<1> HIDE DEF j
<1>8. path \in DOMAIN layers[j].tables
    BY <1>7, NoTables DEF SectionOf
<1>9. SectionOf(layers[j].tables, path) = layers[j].tables[path]
    BY <1>8 DEF SectionOf
<1>10. m[path][k] = layers[j].tables[path][k]
    BY <1>4, <1>9 DEF j
<1> QED
    BY <1>7, <1>8, <1>9, <1>10 DEF m

\* Nothing is refused in a sound file.
LEMMA SoundFile ==
    ASSUME NEW file, ~Dropped(file), NEW path \in DOMAIN file.tables
    PROVE  FaultyKeys(path, file.tables[path]) = {}
<1>1. Validate(file) = {}
    BY DEF Dropped
<1>2. Validate(file) = UNION {{<<p, fault>> : fault \in Faults(p, file.tables[p])} :
                                    p \in DOMAIN file.tables}
    BY <1>1 DEF Validate
<1>3. ASSUME NEW k \in FaultyKeys(path, file.tables[path]) PROVE FALSE
    <2>1. <<k, 1>> \in Faults(path, file.tables[path])
        BY <1>3 DEF Faults
    <2>2. <<path, <<k, 1>>>> \in Validate(file)
        BY <1>2, <2>1
    <2> QED
        BY <1>1, <2>2
<1> QED
    BY <1>3

\* What validate leaves of a value.
LEMMA ValueTypes ==
    ASSUME NEW v \in TimeoutValue
    PROVE  /\ ParseValue(v) \in {Unparsable, Never} \cup 0 .. MaxSecs
           /\ ParseFinite(v) # Unparsable => ParseFinite(v) \in 0 .. MaxSecs
<1>1. v.text \in Seq(STRING) /\ v.quoted \in BOOLEAN
    BY DEF TimeoutValue
<1>2. ParseTimeout(v.text) \in {Unparsable, Never} \cup 0 .. MaxSecs
    BY <1>1, ParseTimeoutType
<1>3. ParseValue(v) \in {Unparsable, Never} \cup 0 .. MaxSecs
    <2> HIDE DEF Unparsable
    <2> QED
        BY <1>2 DEF ParseValue
<1> QED
    BY <1>3 DEF ParseFinite

\* A block of a sound file has a condition for its name.
LEMMA SoundBlock ==
    ASSUME NEW path, NEW section, FaultyKeys(path, section) = {}, IsBlock(path),
           path = General \/ path \in ({"facts"} \cup BlockKind) \X STRING
    PROVE  /\ path \in BlockId
           /\ FaultyKeys(path, section)
                = {x \in DOMAIN section :
                        \/ x = "clock" /\ section[x] \notin Clock
                        \/ x \in Actions /\ ParseValue(section[x]) = Unparsable}
<1>1. path # General /\ path[1] # "facts"
    BY DEF General, IsBlock, BlockKind
<1>2. FaultyKeys(path, section)
        = (IF path[2] \in Condition THEN {} ELSE {"name"})
          \cup {x \in DOMAIN section :
                    \/ x = "clock" /\ section[x] \notin Clock
                    \/ x \in Actions /\ ParseValue(section[x]) = Unparsable}
    BY <1>1 DEF FaultyKeys
<1>3. path[2] \in Condition
    BY <1>2
<1> QED
    BY <1>1, <1>2, <1>3 DEF BlockId, IsBlock

\* The sections of a sound file, by the kind of their table.
LEMMA SoundSections ==
    ASSUME NEW file, IsFile(file), ~Dropped(file), NEW path \in DOMAIN file.tables,
           NEW k \in DOMAIN file.tables[path]
    PROVE  LET value == file.tables[path][k]
           IN  /\ path = General \/ path \in ({"facts"} \cup BlockKind) \X STRING
               /\ k = "enabled" => value \in BOOLEAN
               /\ path = General /\ k = "min_idle" => ParseFinite(value) \in 0 .. MaxSecs
               /\ path[1] = "facts" /\ k \in {"idle_window", "window"}
                        => ParseFinite(value) \in 0 .. MaxSecs
               /\ IsBlock(path) =>
                        /\ path \in BlockId
                        /\ k = "clock" => value \in ClockName
                        /\ k \in Actions => ParseValue(value) \in {Never} \cup 0 .. MaxSecs
<1> DEFINE section == file.tables[path]
           value == section[k]
<1>1. IsSection(section) /\ (path = General \/ path \in ({"facts"} \cup BlockKind) \X STRING)
    BY DEF IsFile
<1>2. FaultyKeys(path, section) = {}
    BY SoundFile
<1>3. k \in DOMAIN section
    OBVIOUS
<1> HIDE DEF section
<1>4. k = "enabled" => value \in BOOLEAN
    BY <1>1, <1>3 DEF IsSection
<1>5. k \in Actions \cup {"min_idle", "idle_window", "window"} => value \in TimeoutValue
    BY <1>1, <1>3 DEF IsSection
<1> HIDE DEF value
<1>6. ASSUME path = General, k = "min_idle" PROVE ParseFinite(value) \in 0 .. MaxSecs
    <2>1. path[1] # "facts"
        BY <1>6 DEF General
    <2>2. FaultyKeys(path, section) = {x \in DOMAIN section : ParseFinite(section[x]) = Unparsable}
        BY <1>6, <2>1 DEF FaultyKeys
    <2>3. ParseFinite(value) # Unparsable
        BY <1>2, <1>3, <2>2 DEF value
    <2> QED
        BY <1>5, <1>6, <2>3, ValueTypes
<1>7. ASSUME path[1] = "facts", k \in {"idle_window", "window"}
      PROVE  ParseFinite(value) \in 0 .. MaxSecs
    <2>1. path # General
        BY <1>7 DEF General
    <2>2. FaultyKeys(path, section)
            = IF path[2] \notin FactId THEN {"name"}
              ELSE {x \in DOMAIN section :
                    \/ x \notin AllowedKeys(path[2])
                    \/ x \in {"idle_window", "window"} /\ ParseFinite(section[x]) = Unparsable}
        BY <1>7, <2>1 DEF FaultyKeys
    <2>3. ParseFinite(value) # Unparsable
        BY <1>2, <1>3, <1>7, <2>2 DEF value
    <2> QED
        BY <1>5, <1>7, <2>3, ValueTypes
<1>8. ASSUME IsBlock(path)
      PROVE  /\ path \in BlockId
             /\ k = "clock" => value \in ClockName
             /\ k \in Actions => ParseValue(value) \in {Never} \cup 0 .. MaxSecs
    <2>1. /\ path \in BlockId
          /\ FaultyKeys(path, section)
                = {x \in DOMAIN section :
                        \/ x = "clock" /\ section[x] \notin Clock
                        \/ x \in Actions /\ ParseValue(section[x]) = Unparsable}
        BY <1>1, <1>2, <1>8, SoundBlock
    <2>2. k = "clock" => value \in Clock
        BY <1>2, <1>3, <2>1 DEF value
    <2>3. k \in Actions => ParseValue(value) # Unparsable
        BY <1>2, <1>3, <2>1 DEF value
    <2>4. k \in Actions => ParseValue(value) \in {Never} \cup 0 .. MaxSecs
        BY <1>5, <2>3, ValueTypes
    <2> QED
        BY <2>1, <2>2, <2>4, ConfigConstants
<1> QED
    BY <1>1, <1>4, <1>6, <1>7, <1>8 DEF value, section

\* What the merge of sound files holds: tables that have their place, and values
\* of their types.
LEMMA MergedTypes ==
    ASSUME NEW F, NEW layers \in Seq(F), \A file \in F : IsFile(file),
           NEW path \in DOMAIN Merged(layers)
    PROVE  /\ IsBlock(path) => path \in BlockId
           /\ \A k \in DOMAIN Merged(layers)[path] :
                LET value == Merged(layers)[path][k]
                IN  /\ k = "enabled" => value \in BOOLEAN
                    /\ path = General /\ k = "min_idle" => ParseFinite(value) \in 0 .. MaxSecs
                    /\ path[1] = "facts" /\ k \in {"idle_window", "window"}
                            => ParseFinite(value) \in 0 .. MaxSecs
                    /\ IsBlock(path) =>
                            /\ k = "clock" => value \in ClockName
                            /\ k \in Actions => ParseValue(value) \in {Never} \cup 0 .. MaxSecs
<1>1. \A j \in DOMAIN layers : layers[j] \in F /\ IsFile(layers[j])
    BY ElementOfSeq, LenProperties
<1>2. ASSUME IsBlock(path) PROVE path \in BlockId
    <2>1. PICK j \in DOMAIN layers : ~Dropped(layers[j]) /\ path \in DOMAIN layers[j].tables
        BY MergedKeys
    <2>2. IsFile(layers[j])
        BY <1>1, <2>1
    <2>3. path = General \/ path \in ({"facts"} \cup BlockKind) \X STRING
        BY <2>1, <2>2 DEF IsFile
    <2>4. FaultyKeys(path, layers[j].tables[path]) = {}
        BY <2>1, SoundFile
    <2> QED
        BY <1>2, <2>3, <2>4, SoundBlock
<1>3. ASSUME NEW k \in DOMAIN Merged(layers)[path]
      PROVE  LET value == Merged(layers)[path][k]
             IN  /\ k = "enabled" => value \in BOOLEAN
                 /\ path = General /\ k = "min_idle" => ParseFinite(value) \in 0 .. MaxSecs
                 /\ path[1] = "facts" /\ k \in {"idle_window", "window"}
                        => ParseFinite(value) \in 0 .. MaxSecs
                 /\ IsBlock(path) =>
                        /\ k = "clock" => value \in ClockName
                        /\ k \in Actions => ParseValue(value) \in {Never} \cup 0 .. MaxSecs
    <2>1. PICK j \in DOMAIN layers :
                /\ ~Dropped(layers[j])
                /\ path \in DOMAIN layers[j].tables
                /\ k \in DOMAIN layers[j].tables[path]
                /\ Merged(layers)[path][k] = layers[j].tables[path][k]
        BY MergedFrom
    <2>2. IsFile(layers[j])
        BY <1>1, <2>1
    <2> DEFINE file == layers[j]
    <2> HIDE DEF file
    <2>3. LET value == file.tables[path][k]
          IN  /\ k = "enabled" => value \in BOOLEAN
              /\ path = General /\ k = "min_idle" => ParseFinite(value) \in 0 .. MaxSecs
              /\ path[1] = "facts" /\ k \in {"idle_window", "window"}
                        => ParseFinite(value) \in 0 .. MaxSecs
              /\ IsBlock(path) =>
                        /\ k = "clock" => value \in ClockName
                        /\ k \in Actions => ParseValue(value) \in {Never} \cup 0 .. MaxSecs
        BY <2>1, <2>2, SoundSections DEF file
    <2> QED
        BY <2>1, <2>3 DEF file
<1> QED
    BY <1>2, <1>3

\* A block built from the merged tables is a block, and keeps the path of its table.
LEMMA BlockTypes ==
    ASSUME NEW F, NEW layers \in Seq(F), \A file \in F : IsFile(file),
           NEW path \in DOMAIN Merged(layers), IsBlock(path)
    PROVE  LET b == BuildBlock(path, Merged(layers)[path])
           IN  /\ b \in Block /\ IdOf(b) = path
               /\ \A a \in Actions : b.timeouts[a] \in {Silent, Never} \cup 0 .. MaxSecs
<1> DEFINE section == Merged(layers)[path]
           b == BuildBlock(path, section)
<1>1. /\ path \in BlockId
      /\ \A k \in DOMAIN section :
            /\ k = "enabled" => section[k] \in BOOLEAN
            /\ k = "clock" => section[k] \in ClockName
            /\ k \in Actions => ParseValue(section[k]) \in {Never} \cup 0 .. MaxSecs
    BY MergedTypes
<1> HIDE DEF section
<1>2. /\ b.kind = path[1] /\ b.condition = path[2]
      /\ b.clock = KeyOr(section, "clock", "human_input")
      /\ b.enabled = KeyOr(section, "enabled", TRUE)
      /\ b.timeouts = [a \in Actions |->
                        IF a \in DOMAIN section THEN ParseValue(section[a]) ELSE Silent]
    BY DEF BuildBlock
<1>3. path = <<path[1], path[2]>> /\ path[1] \in BlockKind /\ path[2] \in Condition
    BY <1>1 DEF BlockId
<1>4. b.clock \in ClockName
    BY <1>1, <1>2 DEF KeyOr, ClockName
<1>5. b.enabled \in BOOLEAN
    BY <1>1, <1>2 DEF KeyOr
<1>6. \A a \in Actions : b.timeouts[a] \in {Silent, Never} \cup 0 .. MaxSecs
    BY <1>1, <1>2
<1>7. {Silent, Never} \cup 0 .. MaxSecs \subseteq Silent .. Never
    BY Bounds, NeverFacts DEF Silent
<1>8. b.timeouts \in [Actions -> Silent .. Never]
    BY <1>2, <1>6, <1>7
<1>9. b \in Block
    BY <1>2, <1>3, <1>4, <1>5, <1>8 DEF BuildBlock, Block
<1> QED
    BY <1>2, <1>3, <1>6, <1>9 DEF IdOf, section

-----------------------------------------------------------------------------
(* What is loaded. *)

\* Only finitely many keys can be refused.
LEMMA FaultsAreFinite ==
    ASSUME NEW F, NEW layers \in Seq(F), \A file \in F : IsFile(file)
    PROVE  IsFiniteSet(FaultsOf(layers))
<1>1. ASSUME NEW file, IsFile(file) PROVE IsFiniteSet(Validate(file))
    <2> DEFINE paths == DOMAIN file.tables
               faulty == [path \in paths |->
                            {<<path, fault>> : fault \in Faults(path, file.tables[path])}]
               all == {faulty[path] : path \in paths}
    <2>1. IsFiniteSet(paths)
        BY <1>1 DEF IsFile
    <2>2. faulty \in Surjection(paths, all)
        BY DEF Surjection
    <2>3. IsFiniteSet(all)
        <3> HIDE DEF paths, faulty, all
        <3> QED
            BY <2>1, <2>2, FS_Surjection
    <2>4. ASSUME NEW path \in paths PROVE IsFiniteSet(faulty[path])
        <3> DEFINE keys == DOMAIN file.tables[path] \cup {"name"}
        <3>1. IsFiniteSet(DOMAIN file.tables[path])
            BY <1>1, <2>4 DEF IsFile, IsSection
        <3>2. IsFiniteSet(keys) /\ IsFiniteSet({path}) /\ IsFiniteSet(1 .. 2)
            <4>1. IsFiniteSet(1 .. 2)
                BY 1 \in Int, 2 \in Int, FS_Interval
            <4> QED
                BY <3>1, <4>1, FS_AddElement, FS_Singleton
        <3>3. Faults(path, file.tables[path]) \subseteq keys \X (1 .. 2)
            <4>1. FaultyKeys(path, file.tables[path]) \subseteq keys
                BY Zenon DEF FaultyKeys
            <4>2. RefusedTwice(path, file.tables[path]) \subseteq keys
                BY Zenon DEF RefusedTwice
            <4> HIDE DEF keys
            <4> QED
                BY <4>1, <4>2 DEF Faults
        <3>4. faulty[path] \in SUBSET ({path} \X (keys \X (1 .. 2)))
            <4> HIDE DEF keys
            <4> QED
                BY <2>4, <3>3
        <3>5. IsFiniteSet({path} \X (keys \X (1 .. 2)))
            <4> HIDE DEF keys
            <4>1. IsFiniteSet(keys \X (1 .. 2))
                BY <3>2, FS_Product
            <4> QED
                BY <3>2, <4>1, FS_Product
        <3> QED
            BY <3>4, <3>5, FS_Subset
    <2>5. \A T \in all : IsFiniteSet(T)
        <3> HIDE DEF faulty
        <3> QED
            BY <2>4
    <2>6. IsFiniteSet(UNION all)
        BY <2>3, <2>5, FS_UNION
    <2>7. UNION {{<<path, fault>> : fault \in Faults(path, file.tables[path])} :
                        path \in DOMAIN file.tables} = UNION all
        OBVIOUS
    <2>8. IsFiniteSet({<<"file", "file">>})
        BY FS_Singleton
    <2> QED
        BY <2>6, <2>7, <2>8 DEF Validate
<1>2. Len(layers) \in Nat /\ DOMAIN layers = 1 .. Len(layers)
      /\ \A j \in DOMAIN layers : layers[j] \in F
    BY ElementOfSeq, LenProperties
<1> DEFINE faults == [i \in DOMAIN layers |-> {<<i, fault>> : fault \in Validate(layers[i])}]
           all == {faults[i] : i \in DOMAIN layers}
<1>3. IsFiniteSet(DOMAIN layers)
    BY <1>2, FS_Interval
<1>4. faults \in Surjection(DOMAIN layers, all)
    BY DEF Surjection
<1>5. IsFiniteSet(all)
    <2> HIDE DEF faults, all
    <2> QED
        BY <1>3, <1>4, FS_Surjection
<1>6. ASSUME NEW i \in DOMAIN layers PROVE IsFiniteSet(faults[i])
    <2>1. IsFiniteSet(Validate(layers[i])) /\ IsFiniteSet({i})
        BY <1>1, <1>2, <1>6, FS_Singleton
    <2>2. IsFiniteSet({i} \X Validate(layers[i]))
        BY <2>1, FS_Product
    <2>3. faults[i] \in SUBSET ({i} \X Validate(layers[i]))
        BY <1>6
    <2> QED
        BY <2>2, <2>3, FS_Subset
<1>7. \A T \in all : IsFiniteSet(T)
    <2> HIDE DEF faults
    <2> QED
        BY <1>6
<1>8. IsFiniteSet(UNION all)
    BY <1>5, <1>7, FS_UNION
<1>9. FaultsOf(layers) = UNION all
    BY DEF FaultsOf
<1> QED
    BY <1>8, <1>9

\* The faults of a load are counted, and counted as none only when there is none.
LEMMA FaultCount ==
    ASSUME NEW F, NEW layers \in Seq(F), \A file \in F : IsFile(file)
    PROVE  /\ Cardinality(FaultsOf(layers)) \in Nat
           /\ Load(layers).policy.faults = Cardinality(FaultsOf(layers))
           /\ \A i \in DOMAIN layers : Dropped(layers[i]) => Load(layers).policy.faults > 0
<1>1. IsFiniteSet(FaultsOf(layers))
    BY FaultsAreFinite
<1>2. Cardinality(FaultsOf(layers)) \in Nat
    BY <1>1, FS_CardinalityType
<1>3. Load(layers).policy.faults = Cardinality(FaultsOf(layers))
    BY DEF Load, Built
<1>4. ASSUME NEW i \in DOMAIN layers, Dropped(layers[i]) PROVE FaultsOf(layers) # {}
    <2>1. PICK fault : fault \in Validate(layers[i])
        BY <1>4 DEF Dropped
    <2>2. <<i, fault>> \in FaultsOf(layers)
        BY <2>1 DEF FaultsOf
    <2> QED
        BY <2>2
<1>5. FaultsOf(layers) # {} => Cardinality(FaultsOf(layers)) # 0
    BY <1>1, FS_EmptySet
<1> QED
    BY <1>2, <1>3, <1>4, <1>5

\* The compiled-in fallback is a block.
LEMMA FallbackType ==
    /\ Fallback \in Block
    /\ \A a \in Actions : Fallback.timeouts[a] \in {Silent, Never} \cup 0 .. MaxSecs
<1>1. 900 \in 0 .. MaxSecs /\ 900 \in Silent .. Never /\ Silent \in Silent .. Never
    BY ConfigConstants, PolicyConstants DEF Never, Silent
<1> QED
    BY <1>1 DEF Fallback, FALLBACK_SCREEN_OFF, Block, BlockKind, Condition, ClockName

BlocksOf(tables) ==
    {BuildBlock(path, tables[path]) : path \in {p \in DOMAIN tables : IsBlock(p)}}

\* The blocks in force are the merged ones, and the fallback.
LEMMA LoadedBlocks ==
    ASSUME NEW layers
    PROVE  Load(layers).policy.blocks \in {BlocksOf(Merged(layers)),
                                           BlocksOf(Merged(layers)) \cup {Fallback}}
    BY DEF Load, Built, BlocksOf

\* What a load is made of.
LEMMA LoadedIs ==
    ASSUME NEW layers
    PROVE  LET tables == Merged(layers)
               DurationOr(path, k, default) ==
                   IF k \in DOMAIN SectionOf(tables, path) THEN ParseFinite(tables[path][k])
                   ELSE default
           IN  /\ Load(layers).policy.facts \subseteq FactId
               /\ Load(layers).policy.min_idle = DurationOr(General, "min_idle", DEFAULT_MIN_IDLE)
               /\ Load(layers).idle_window
                    = DurationOr(Facts("local_service_busy"), "idle_window", 1800)
               /\ Load(layers).window = DurationOr(Facts("steam_downloading"), "window", 300)
               /\ Load(layers).policy = [blocks   |-> Load(layers).policy.blocks,
                                         facts    |-> Load(layers).policy.facts,
                                         min_idle |-> Load(layers).policy.min_idle,
                                         faults   |-> Load(layers).policy.faults]
    BY DEF Load, Built

\* The policy of any layers is one the engine can work with, and its timeouts are
\* ones the text form has.
LEMMA LoadTypes ==
    ASSUME NEW F, NEW layers \in Seq(F), \A file \in F : IsFile(file)
    PROVE  /\ Load(layers).policy \in PolicyType
           /\ Load(layers).policy.min_idle \in 0 .. MaxSecs
           /\ Load(layers).idle_window \in 0 .. MaxSecs
           /\ Load(layers).window \in 0 .. MaxSecs
           /\ \A b \in Load(layers).policy.blocks, a \in Actions :
                    b.timeouts[a] \in {Silent, Never} \cup 0 .. MaxSecs
<1> DEFINE tables == Merged(layers)
           load == Load(layers)
           built == BlocksOf(tables)
           DurationOr(path, k, default) ==
                IF k \in DOMAIN SectionOf(tables, path) THEN ParseFinite(tables[path][k])
                ELSE default
<1>1. /\ load.policy.blocks \in {built, built \cup {Fallback}}
      /\ load.policy.facts \subseteq FactId
      /\ load.policy.min_idle = DurationOr(General, "min_idle", DEFAULT_MIN_IDLE)
      /\ load.idle_window = DurationOr(Facts("local_service_busy"), "idle_window", 1800)
      /\ load.window = DurationOr(Facts("steam_downloading"), "window", 300)
      /\ load.policy = [blocks   |-> load.policy.blocks,
                        facts    |-> load.policy.facts,
                        min_idle |-> load.policy.min_idle,
                        faults   |-> load.policy.faults]
    BY LoadedIs, LoadedBlocks
<1>2. load.policy.faults \in Nat
    BY FaultCount
<1>3. \A b \in built : b \in Block
                       /\ \A a \in Actions : b.timeouts[a] \in {Silent, Never} \cup 0 .. MaxSecs
    BY BlockTypes DEF BlocksOf
<1>4. \A b \in load.policy.blocks :
            b \in Block
            /\ \A a \in Actions : b.timeouts[a] \in {Silent, Never} \cup 0 .. MaxSecs
    <2> HIDE DEF built, load
    <2> QED
        BY <1>1, <1>3, FallbackType
<1>5. \A path \in DOMAIN tables : \A k \in DOMAIN tables[path] :
            /\ path = General /\ k = "min_idle" => ParseFinite(tables[path][k]) \in 0 .. MaxSecs
            /\ path[1] = "facts" /\ k \in {"idle_window", "window"}
                    => ParseFinite(tables[path][k]) \in 0 .. MaxSecs
    BY MergedTypes
<1>6. \A path, k : k \in DOMAIN SectionOf(tables, path)
                    => path \in DOMAIN tables /\ k \in DOMAIN tables[path]
    <2> HIDE DEF tables
    <2> QED
        BY NoTables DEF SectionOf
<1>7. DEFAULT_MIN_IDLE \in 0 .. MaxSecs /\ 1800 \in 0 .. MaxSecs /\ 300 \in 0 .. MaxSecs
    BY ConfigConstants DEF DEFAULT_MIN_IDLE
<1> HIDE DEF tables, load
<1>8. load.policy.min_idle \in 0 .. MaxSecs
    BY <1>1, <1>5, <1>6, <1>7
<1>9. \A f : Facts(f)[1] = "facts"
    BY DEF Facts
<1>10. load.idle_window \in 0 .. MaxSecs /\ load.window \in 0 .. MaxSecs
    BY <1>1, <1>5, <1>6, <1>7, <1>9
<1>11. load.policy \in PolicyType
    <2>1. load.policy.blocks \in SUBSET Block /\ load.policy.min_idle \in Nat
        BY <1>4, <1>8
    <2> QED
        BY <1>1, <1>2, <2>1 DEF PolicyType
<1> QED
    BY <1>4, <1>8, <1>10, <1>11 DEF load
=============================================================================
