-------------------------- MODULE CommandLineProofs --------------------------
(***************************************************************************)
(* Theorems about CommandLine, for texts of any length over any characters.*)
(***************************************************************************)
EXTENDS CommandLine, Induction, SequenceTheorems, FiniteSetTheorems

-----------------------------------------------------------------------------
(* Counting words                                                          *)

LEMMA OrdinalNat ==
  ASSUME NEW s, NEW sep, NEW n \in Nat, Len(s) \in Nat, DOMAIN s = 1..Len(s)
  PROVE  /\ IsFiniteSet({i \in Beginnings(s, sep) : i <= n})
         /\ Ordinal(s, sep, n) \in Nat
<1> DEFINE I == {i \in Beginnings(s, sep) : i <= n}
<1>1. IsFiniteSet(1..Len(s))
  BY FS_Interval
<1>2. I \subseteq 1..Len(s)
  BY DEF Beginnings
<1>3. IsFiniteSet(I)
  BY <1>1, <1>2, FS_Subset
<1> QED BY <1>3, FS_CardinalityType DEF Ordinal

\* One more where a word begins, as many elsewhere.
LEMMA OrdinalStep ==
  ASSUME NEW s, NEW sep, NEW n \in Nat, Len(s) \in Nat, DOMAIN s = 1..Len(s)
  PROVE  Ordinal(s, sep, n + 1) =
           IF n + 1 \in Beginnings(s, sep) THEN Ordinal(s, sep, n) + 1 ELSE Ordinal(s, sep, n)
<1> DEFINE I(k) == {i \in Beginnings(s, sep) : i <= k}
<1>1. IsFiniteSet(I(n)) /\ Ordinal(s, sep, n) = Cardinality(I(n))
  BY OrdinalNat DEF Ordinal
<1>2. Beginnings(s, sep) \subseteq Nat
  BY DEF Beginnings
<1>3. CASE n + 1 \in Beginnings(s, sep)
  <2>1. I(n + 1) = I(n) \cup {n + 1} /\ n + 1 \notin I(n)
    BY <1>2, <1>3
  <2>2. Cardinality(I(n) \cup {n + 1}) = Cardinality(I(n)) + 1
    <3> HIDE DEF I
    <3> QED BY <1>1, <2>1, FS_AddElement
  <2> QED BY <1>1, <1>3, <2>1, <2>2 DEF Ordinal
<1>4. CASE n + 1 \notin Beginnings(s, sep)
  <2>1. I(n + 1) = I(n)
    BY <1>2, <1>4
  <2> QED BY <1>1, <1>4, <2>1 DEF Ordinal
<1> QED BY <1>3, <1>4

LEMMA OrdinalGrows ==
  ASSUME NEW s, NEW sep, NEW m \in Nat, NEW n \in Nat, m <= n, Len(s) \in Nat, DOMAIN s = 1..Len(s)
  PROVE  Ordinal(s, sep, m) <= Ordinal(s, sep, n)
<1> DEFINE I(k) == {i \in Beginnings(s, sep) : i <= k}
<1>1. IsFiniteSet(I(n))
  BY OrdinalNat
<1>2. I(m) \subseteq I(n)
  <2>1. Beginnings(s, sep) \subseteq Nat
    BY DEF Beginnings
  <2> QED BY <2>1
<1>3. Cardinality(I(m)) <= Cardinality(I(n))
  <2> HIDE DEF I
  <2> QED BY <1>1, <1>2, FS_Subset
<1> QED BY <1>3 DEF Ordinal

\* No two words have the same number, and the first is one.
LEMMA OrdinalOwn ==
  ASSUME NEW s, NEW sep, Len(s) \in Nat, DOMAIN s = 1..Len(s), NEW b \in Beginnings(s, sep)
  PROVE  /\ b \in 1..Len(s) /\ Ordinal(s, sep, b) \in Nat \ {0}
         /\ \A a \in Beginnings(s, sep) : a < b => Ordinal(s, sep, a) < Ordinal(s, sep, b)
<1>1. b \in 1..Len(s) /\ b - 1 \in Nat /\ (b - 1) + 1 = b
  BY DEF Beginnings
<1>2. Ordinal(s, sep, b) = Ordinal(s, sep, b - 1) + 1 /\ Ordinal(s, sep, b - 1) \in Nat
  BY <1>1, OrdinalStep, OrdinalNat
<1>3. ASSUME NEW a \in Beginnings(s, sep), a < b PROVE Ordinal(s, sep, a) < Ordinal(s, sep, b)
  <2>1. a \in Nat /\ a <= b - 1
    BY <1>1, <1>3 DEF Beginnings
  <2>2. Ordinal(s, sep, a) <= Ordinal(s, sep, b - 1) /\ Ordinal(s, sep, a) \in Nat
    BY <1>1, <2>1, OrdinalGrows, OrdinalNat
  <2> QED BY <1>2, <2>2
<1> QED BY <1>1, <1>2, <1>3

LEMMA OrdinalUnique ==
  ASSUME NEW s, NEW sep, Len(s) \in Nat, DOMAIN s = 1..Len(s),
         NEW a \in Beginnings(s, sep), NEW b \in Beginnings(s, sep),
         Ordinal(s, sep, a) = Ordinal(s, sep, b)
  PROVE  a = b
<1>1. a \in Nat /\ b \in Nat /\ Ordinal(s, sep, a) \in Nat
  BY OrdinalOwn
<1>2. ~(a < b) /\ ~(b < a)
  BY <1>1, OrdinalOwn
<1> QED BY <1>1, <1>2

LEMMA OrdinalZero ==
  ASSUME NEW s, NEW sep, DOMAIN s \subseteq Nat \ {0}
  PROVE  Ordinal(s, sep, 0) = 0
<1>1. {i \in Beginnings(s, sep) : i <= 0} = {}
  BY DEF Beginnings
<1> QED BY <1>1, FS_EmptySet DEF Ordinal

-----------------------------------------------------------------------------
(* The states of split                                                     *)

Splitters(D) ==
  {a \in [num_results : Nat, in_word : BOOLEAN, trim_pos : Nat, result : Seq(Seq(D))] :
     Len(a.result) = a.num_results /\ (a.in_word => a.num_results # 0)}

\* The n-th result with a character more.
Longer(result, n, c) == [result EXCEPT ![n] = Append(result[n], c)]

LEMMA LongerIs ==
  ASSUME NEW D, NEW result \in Seq(Seq(D)), NEW n \in 1..Len(result), NEW c \in D
  PROVE  /\ Longer(result, n, c) \in Seq(Seq(D)) /\ Len(Longer(result, n, c)) = Len(result)
         /\ \A k \in 1..Len(result) :
              Longer(result, n, c)[k] = IF k = n THEN Append(result[n], c) ELSE result[k]
<1>1. result[n] \in Seq(D) /\ DOMAIN result = 1..Len(result)
  BY ElementOfSeq, LenProperties
<1>2. Append(result[n], c) \in Seq(D)
  BY <1>1, AppendProperties
<1> DEFINE e == Append(result[n], c)
<1> HIDE DEF e
<1>3. [result EXCEPT ![n] = e] \in Seq(Seq(D)) /\ Len([result EXCEPT ![n] = e]) = Len(result)
  BY <1>2, ExceptSeq DEF e
<1>4. \A k \in 1..Len(result) : [result EXCEPT ![n] = e][k] = IF k = n THEN e ELSE result[k]
  BY <1>1
<1> QED BY <1>3, <1>4 DEF Longer, e

LEMMA LongerAt ==
  ASSUME NEW D, NEW result \in Seq(Seq(D)), NEW n \in 1..Len(result), NEW c \in D,
         NEW k \in 1..Len(result)
  PROVE  /\ k = n => Longer(result, n, c)[k] = Append(result[n], c)
         /\ k # n => Longer(result, n, c)[k] = result[k]
<1>1. DOMAIN result = 1..Len(result)
  BY LenProperties
<1> QED BY <1>1 DEF Longer

LEMMA AppendedIs ==
  ASSUME NEW D, NEW a \in Splitters(D), a.num_results # 0, NEW c \in D
  PROVE  LET q == Appended(a, c) IN
         /\ q \in Splitters(D)
         /\ q.num_results = a.num_results /\ q.in_word = a.in_word /\ q.trim_pos = a.trim_pos
         /\ q.result = Longer(a.result, a.num_results, c)
<1>1. a.num_results \in 1..Len(a.result) /\ a.result \in Seq(Seq(D))
  BY DEF Splitters
<1> DEFINE more == Longer(a.result, a.num_results, c)
<1>2. more \in Seq(Seq(D)) /\ Len(more) = Len(a.result)
  BY <1>1, LongerIs
<1>3. Appended(a, c) = [a EXCEPT !.result = more]
  BY DEF Appended, Longer
<1> HIDE DEF more
<1> QED BY <1>2, <1>3 DEF Splitters, more

LEMMA NewWordIs ==
  ASSUME NEW D, NEW a \in Splitters(D)
  PROVE  LET q == NewWord(a) IN
         /\ q \in Splitters(D) /\ q.num_results # 0 /\ q.in_word /\ q.trim_pos = a.trim_pos
         /\ a.in_word => q = a
         /\ ~a.in_word => q.num_results = a.num_results + 1 /\ q.result = Append(a.result, <<>>)
<1>1. CASE a.in_word
  BY <1>1 DEF NewWord, Splitters
<1>2. CASE ~a.in_word
  <2> DEFINE none == <<>>
             more == Append(a.result, none)
  <2>1. none \in Seq(D) /\ a.result \in Seq(Seq(D))
    BY DEF Splitters
  <2>2. NewWord(a) = [a EXCEPT !.in_word = TRUE, !.num_results = a.num_results + 1, !.result = more]
    BY <1>2 DEF NewWord
  <2> HIDE DEF none
  <2>3. more \in Seq(Seq(D)) /\ Len(more) = Len(a.result) + 1
    BY <2>1, AppendProperties
  <2> HIDE DEF more
  <2> DEFINE q == NewWord(a)
  <2> DEFINE num == a.num_results + 1
  <2>4. num \in Nat /\ a.trim_pos \in Nat
    BY DEF Splitters
  <2>5. q = [num_results |-> num, in_word |-> TRUE, trim_pos |-> a.trim_pos, result |-> more]
    BY <2>2 DEF Splitters
  <2> HIDE DEF q, num
  <2>6. /\ q.num_results = num /\ q.in_word /\ q.trim_pos = a.trim_pos
        /\ q.result = more
        /\ q \in [num_results : Nat, in_word : BOOLEAN, trim_pos : Nat, result : Seq(Seq(D))]
    BY <2>3, <2>4, <2>5
  <2> USE DEF num
  <2>7. q \in Splitters(D) /\ q.num_results # 0
    BY <2>3, <2>6 DEF Splitters
  <2> QED BY <1>2, <2>6, <2>7 DEF q, more, none
<1> QED BY <1>1, <1>2 DEF Splitters

LEMMA TrimIs ==
  ASSUME NEW D, NEW a \in Splitters(D), NEW t \in Nat
  PROVE  LET q == [a EXCEPT !.trim_pos = t] IN
         /\ q \in Splitters(D) /\ q.num_results = a.num_results /\ q.in_word = a.in_word
         /\ q.trim_pos = t /\ q.result = a.result
BY DEF Splitters

LEMMA WordCharacterIs ==
  ASSUME NEW D, NEW a \in Splitters(D), NEW c \in D
  PROVE  LET q == WordCharacter(a, c) IN
         /\ q \in Splitters(D) /\ q.in_word /\ q.trim_pos = 0
         /\ a.in_word => q.num_results = a.num_results /\ q.result = Longer(a.result, a.num_results, c)
         /\ ~a.in_word => /\ q.num_results = a.num_results + 1
                          /\ q.result = Longer(Append(a.result, <<>>), a.num_results + 1, c)
<1> DEFINE b == [a EXCEPT !.trim_pos = 0]
           n == NewWord(b)
<1>1. /\ b \in Splitters(D) /\ b.num_results = a.num_results /\ b.in_word = a.in_word
      /\ b.trim_pos = 0 /\ b.result = a.result
  BY TrimIs
<1>2. WordCharacter(a, c) = Appended(n, c)
  BY DEF WordCharacter
<1> HIDE DEF b
<1>3. /\ n \in Splitters(D) /\ n.num_results # 0 /\ n.in_word /\ n.trim_pos = b.trim_pos
      /\ b.in_word => n = b
      /\ ~b.in_word => n.num_results = b.num_results + 1 /\ n.result = Append(b.result, <<>>)
  BY <1>1, NewWordIs
<1> HIDE DEF n
<1> DEFINE q == Appended(n, c)
<1>4. /\ q \in Splitters(D)
      /\ q.num_results = n.num_results /\ q.in_word = n.in_word /\ q.trim_pos = n.trim_pos
      /\ q.result = Longer(n.result, n.num_results, c)
  BY <1>3, AppendedIs
<1> HIDE DEF q
<1>5. CASE a.in_word
  BY <1>1, <1>2, <1>3, <1>4, <1>5 DEF q
<1>6. CASE ~a.in_word
  BY <1>1, <1>2, <1>3, <1>4, <1>6 DEF q
<1> QED BY <1>5, <1>6 DEF Splitters

LEMMA SeparatorIs ==
  ASSUME NEW D, NEW a \in Splitters(D), NEW c \in D, NEW maxsplit \in Nat
  PROVE  LET q == Separator(a, c, maxsplit) IN
         /\ q \in Splitters(D) /\ q.num_results = a.num_results
         /\ a.num_results <= maxsplit =>
              ~q.in_word /\ q.trim_pos = a.trim_pos /\ q.result = a.result
         /\ a.num_results > maxsplit =>
              /\ q.in_word = a.in_word /\ q.result = Longer(a.result, a.num_results, c)
              /\ q.trim_pos = IF a.trim_pos = 0 THEN Len(a.result[a.num_results]) ELSE a.trim_pos
<1>1. a.num_results \in Nat /\ a.trim_pos \in Nat /\ a.result \in Seq(Seq(D)) /\ Len(a.result) = a.num_results
  BY DEF Splitters
<1>2. CASE a.num_results <= maxsplit
  <2>1. Separator(a, c, maxsplit) = [a EXCEPT !.in_word = FALSE]
    BY <1>2 DEF Separator
  <2>2. ~(a.num_results > maxsplit)
    BY <1>1, <1>2
  <2> QED BY <1>2, <2>1, <2>2 DEF Splitters
<1>3. CASE a.num_results > maxsplit
  <2> DEFINE t == IF a.trim_pos = 0 THEN Len(a.result[a.num_results]) ELSE a.trim_pos
             b == [a EXCEPT !.trim_pos = t]
  <2>1. a.num_results \in 1..Len(a.result) /\ ~(a.num_results <= maxsplit)
    BY <1>1, <1>3
  <2>2. t \in Nat
    BY <1>1, <2>1, ElementOfSeq, LenProperties
  <2>3. [a EXCEPT !.trim_pos = IF @ = 0 THEN Len(a.result[a.num_results]) ELSE @] = b
    OBVIOUS
  <2>4. Separator(a, c, maxsplit) = Appended(b, c)
    BY <2>1, <2>3 DEF Separator
  <2> HIDE DEF t
  <2>5. /\ b \in Splitters(D) /\ b.num_results = a.num_results /\ b.in_word = a.in_word
        /\ b.trim_pos = t /\ b.result = a.result
    BY <2>2, TrimIs
  <2>6. b.num_results # 0
    BY <2>1, <2>5
  <2> HIDE DEF b
  <2> DEFINE q == Appended(b, c)
  <2>7. /\ q \in Splitters(D)
        /\ q.num_results = b.num_results /\ q.in_word = b.in_word /\ q.trim_pos = b.trim_pos
        /\ q.result = Longer(b.result, b.num_results, c)
    BY <2>5, <2>6, AppendedIs
  <2> HIDE DEF q
  <2> QED BY <2>1, <2>4, <2>5, <2>7 DEF q, t
<1> QED BY <1>1, <1>2, <1>3

\* One character.
ScanCharacter(a, c, sep, maxsplit) ==
  IF c = sep THEN Separator(a, c, maxsplit) ELSE WordCharacter(a, c)

LEMMA ScanCharacterStates ==
  ASSUME NEW D, NEW a \in Splitters(D), NEW c \in D, NEW sep, NEW maxsplit \in Nat
  PROVE  ScanCharacter(a, c, sep, maxsplit) \in Splitters(D)
BY SeparatorIs, WordCharacterIs DEF ScanCharacter

\* What the recursive definition says.
LEMMA ScanIs ==
  ASSUME NEW D, NEW s \in Seq(D), NEW sep, NEW maxsplit \in Nat
  PROVE  /\ \A n \in 0..Len(s) : Scan(s, sep, maxsplit)[n] \in Splitters(D)
         /\ Scan(s, sep, maxsplit)[0] = Start
         /\ \A n \in 1..Len(s) : Scan(s, sep, maxsplit)[n] =
              ScanCharacter(Scan(s, sep, maxsplit)[n-1], s[n], sep, maxsplit)
<1> DEFINE S == Splitters(D)
           step == [p \in S \X D |-> ScanCharacter(p[1], p[2], sep, maxsplit)]
<1>1. Len(s) \in Nat /\ \A n \in 1..Len(s) : s[n] \in D
  BY LenProperties, ElementOfSeq
<1>2. Start \in S
  BY DEF Start, Splitters
<1>3. step \in [S \X D -> S]
  BY ScanCharacterStates
<1>4. PICK r \in [0..Len(s) -> S] : IsRun(r, Start, step, s, Len(s))
  <2> HIDE DEF S, step
  <2> QED BY <1>1, <1>2, <1>3, RunExists, ZenonT(60)
<1>5. r = [n \in 0..Len(s) |-> IF n = 0 THEN Start ELSE ScanCharacter(r[n-1], s[n], sep, maxsplit)]
  <2>1. ASSUME NEW n \in 0..Len(s), n # 0
        PROVE  step[<<r[n-1], s[n]>>] = ScanCharacter(r[n-1], s[n], sep, maxsplit)
    <3>1. n \in 1..Len(s) /\ n-1 \in 0..Len(s)
      BY <1>1, <2>1
    <3>2. r[n-1] \in S /\ s[n] \in D
      BY <1>1, <1>4, <3>1
    <3> HIDE DEF S
    <3> QED BY <3>2
  <2> HIDE DEF step, S
  <2> QED BY <1>4, <2>1 DEF IsRun
<1> DEFINE q == Scan(s, sep, maxsplit)
<1>6. q = [n \in 0..Len(s) |-> IF n = 0 THEN Start ELSE ScanCharacter(q[n-1], s[n], sep, maxsplit)]
  <2> HIDE DEF S, step
  <2> QED BY <1>5 DEF Scan, ScanCharacter
<1> HIDE DEF q
<1>7. q[0] = Start /\ \A n \in 1..Len(s) : q[n] = ScanCharacter(q[n-1], s[n], sep, maxsplit)
  BY <1>1, <1>6
<1> DEFINE T == {n \in 0..Len(s) : q[n] \in S}
<1>8. 0 \in T
  BY <1>1, <1>2, <1>7
<1>9. ASSUME NEW n \in 1..Len(s), n - 1 \in T PROVE n \in T
  <2>1. q[n-1] \in S /\ s[n] \in D
    BY <1>1, <1>9
  <2>2. q[n] \in S
    BY <1>7, <2>1, ScanCharacterStates
  <2> QED BY <1>1, <2>2
<1> HIDE DEF T
<1>10. 0..Len(s) \subseteq T
  BY <1>1, <1>8, <1>9, BoundedInduction
<1> QED BY <1>7, <1>10 DEF T, q

-----------------------------------------------------------------------------
(* What has been found                                                     *)

\* SubSeq, in lemmas that are to be instantiated.
Part(s, m, n) == SubSeq(s, m, n)

LEMMA PartIs ==
  ASSUME NEW D, NEW s \in Seq(D), NEW m \in 1..Len(s), NEW n \in m..Len(s)
  PROVE  /\ Part(s, m, n) \in Seq(D) /\ Len(Part(s, m, n)) = n - m + 1
         /\ n < Len(s) => Append(Part(s, m, n), s[n+1]) = Part(s, m, n + 1)
         /\ Append(<<>>, s[m]) = Part(s, m, m)
<1>1. Len(s) \in Nat /\ \A i \in 1..Len(s) : s[i] \in D
  BY LenProperties, ElementOfSeq
<1>2. Part(s, m, n) \in Seq(D) /\ Len(Part(s, m, n)) = n - m + 1
  <2>1. \A i \in m..n : s[i] \in D
    BY <1>1
  <2>2. m \in Int /\ n \in Int /\ m <= n
    BY <1>1
  <2> QED BY <2>1, <2>2, SubSeqProperties DEF Part
<1>3. ASSUME n < Len(s) PROVE Append(Part(s, m, n), s[n+1]) = Part(s, m, n + 1)
  <2>1. m \in 1..Len(s) /\ n + 1 \in m..Len(s) /\ n + 1 \in 1..Len(s) /\ (n + 1) - 1 = n
    BY <1>1, <1>3
  <2>2. SubSeq(s, m, n + 1) = SubSeq(s, m, (n + 1) - 1) \o <<s[n+1]>>
    BY <2>1, SubSeqRecursiveSecond
  <2>3. Append(Part(s, m, n), s[n+1]) = Part(s, m, n) \o <<s[n+1]>>
    BY <1>1, <1>2, <2>1, AppendIsConcat
  <2> QED BY <2>1, <2>2, <2>3 DEF Part
<1>4. Append(<<>>, s[m]) = Part(s, m, m)
  <2>1. SubSeq(s, m, m) = <<s[m]>> \o SubSeq(s, m + 1, m)
    <3>1. m \in m..Len(s)
      BY <1>1
    <3> QED BY <3>1, SubSeqRecursiveFirst
  <2>2. SubSeq(s, m + 1, m) = <<>>
    BY <1>1, SubSeqEmpty
  <2>3. <<s[m]>> \o <<>> = <<s[m]>>
    OBVIOUS
  <2> QED BY <2>1, <2>2, <2>3 DEF Part
<1> QED BY <1>2, <1>3, <1>4

\* The results after n characters: the words, and in the last result all from the word
\* with which it begins, trim_pos behind its last character that is no separator.
IsWord(s, sep, result, b, n) ==
  \E e \in b..n : /\ result = Part(s, b, e) /\ \A j \in b..e : s[j] # sep
                  /\ e = n \/ s[e+1] = sep

IsLast(s, sep, result, trim_pos, b, n) ==
  \E t \in b..n : /\ result = Part(s, b, n) /\ s[t] # sep /\ \A j \in t+1..n : s[j] = sep
                  /\ trim_pos = IF t = n THEN 0 ELSE t - b + 1

InWord(s, sep, num, n) ==
  \E b \in Beginnings(s, sep) :
    b <= n /\ Ordinal(s, sep, b) = num /\ \A j \in b..n : s[j] # sep

Found(s, sep, maxsplit, a, n) ==
  /\ a.num_results = IF Ordinal(s, sep, n) <= maxsplit THEN Ordinal(s, sep, n)
                     ELSE maxsplit + 1
  /\ a.num_results <= maxsplit =>
       /\ a.trim_pos = 0 /\ (a.in_word <=> n > 0 /\ s[n] # sep)
       /\ a.in_word => InWord(s, sep, a.num_results, n)
  /\ a.num_results = maxsplit + 1 => a.in_word
  /\ \A b \in Beginnings(s, sep) : b <= n =>
       /\ Ordinal(s, sep, b) <= maxsplit => IsWord(s, sep, a.result[Ordinal(s, sep, b)], b, n)
       /\ Ordinal(s, sep, b) = maxsplit + 1 =>
            IsLast(s, sep, a.result[maxsplit + 1], a.trim_pos, b, n)

\* A word that has ended is followed by a separator.
LEMMA Ended ==
  ASSUME NEW s, NEW sep, NEW n \in Nat, Len(s) \in Nat, DOMAIN s = 1..Len(s),
         NEW b \in Beginnings(s, sep), b <= n, Ordinal(s, sep, b) # Ordinal(s, sep, n)
  PROVE  \E j \in b..n : s[j] = sep
<1>1. b \in 1..Len(s)
  BY DEF Beginnings
<1>2. {i \in Beginnings(s, sep) : i <= b} # {i \in Beginnings(s, sep) : i <= n}
  BY DEF Ordinal
<1>3. \A i \in Beginnings(s, sep) : i \in Nat
  BY DEF Beginnings
<1>4. PICK i \in Beginnings(s, sep) : i <= n /\ ~(i <= b)
  <2>1. ASSUME \A i \in Beginnings(s, sep) : i <= n => i <= b PROVE FALSE
    <3>1. \A i \in Beginnings(s, sep) : i <= b <=> i <= n
      BY <1>1, <1>3, <2>1
    <3> QED BY <1>2, <3>1
  <2> QED BY <2>1
<1>5. i # 1 /\ i - 1 \in b..n
  BY <1>1, <1>3, <1>4
<1> QED BY <1>5 DEF Beginnings

LEMMA WordStays ==
  ASSUME NEW s, NEW sep, NEW r, NEW n \in Nat, NEW b \in 1..n, IsWord(s, sep, r, b, n),
         s[n+1] = sep \/ \E j \in b..n : s[j] = sep
  PROVE  IsWord(s, sep, r, b, n + 1)
<1>1. PICK e \in b..n : /\ r = Part(s, b, e) /\ \A j \in b..e : s[j] # sep
                        /\ e = n \/ s[e+1] = sep
  BY DEF IsWord
<1>2. e \in b..n+1 /\ s[e+1] = sep
  BY <1>1
<1> QED BY <1>1, <1>2 DEF IsWord

LEMMA WordGrows ==
  ASSUME NEW D, NEW s \in Seq(D), NEW sep, NEW r, NEW n \in Nat, n < Len(s), NEW b \in 1..n,
         IsWord(s, sep, r, b, n), \A j \in b..n : s[j] # sep, s[n+1] # sep
  PROVE  IsWord(s, sep, Append(r, s[n+1]), b, n + 1)
<1>1. PICK e \in b..n : r = Part(s, b, e) /\ (e = n \/ s[e+1] = sep)
  BY DEF IsWord
<1>2. e = n
  <2>1. e + 1 \in b..n \/ e = n
    BY <1>1
  <2> QED BY <1>1, <2>1
<1>3. Append(r, s[n+1]) = Part(s, b, n + 1)
  <2>1. Len(s) \in Nat
    BY LenProperties
  <2>2. b \in 1..Len(s) /\ n \in b..Len(s)
    BY <2>1
  <2> QED BY <1>1, <1>2, <2>2, PartIs
<1>4. n + 1 \in b..n+1 /\ \A j \in b..n+1 : s[j] # sep
  <2>1. \A j \in b..n+1 : j \in b..n \/ j = n + 1
    OBVIOUS
  <2> QED BY <2>1
<1> QED BY <1>3, <1>4 DEF IsWord

LEMMA WordBegins ==
  ASSUME NEW D, NEW s \in Seq(D), NEW sep, NEW m \in 1..Len(s), s[m] # sep
  PROVE  /\ IsWord(s, sep, Append(<<>>, s[m]), m, m)
         /\ IsLast(s, sep, Append(<<>>, s[m]), 0, m, m)
<1>1. Len(s) \in Nat
  BY LenProperties
<1>2. m \in m..Len(s) /\ m \in m..m /\ (\A j \in m..m : j = m) /\ \A j \in m+1..m : FALSE
  BY <1>1
<1>3. Append(<<>>, s[m]) = Part(s, m, m)
  BY <1>2, PartIs
<1> QED BY <1>2, <1>3 DEF IsWord, IsLast

\* trim_pos is reset by a character of a word, and set by the first separator.
LEMMA LastGrows ==
  ASSUME NEW D, NEW s \in Seq(D), NEW sep, NEW r, NEW trim, NEW n \in Nat, n < Len(s),
         NEW b \in 1..n, IsLast(s, sep, r, trim, b, n)
  PROVE  /\ s[n+1] # sep => IsLast(s, sep, Append(r, s[n+1]), 0, b, n + 1)
         /\ s[n+1] = sep =>
              IsLast(s, sep, Append(r, s[n+1]), IF trim = 0 THEN Len(r) ELSE trim, b, n + 1)
<1>1. PICK t \in b..n : /\ r = Part(s, b, n) /\ s[t] # sep /\ \A j \in t+1..n : s[j] = sep
                        /\ trim = IF t = n THEN 0 ELSE t - b + 1
  BY DEF IsLast
<1>2. Append(r, s[n+1]) = Part(s, b, n + 1) /\ Len(r) = n - b + 1
  <2>1. Len(s) \in Nat
    BY LenProperties
  <2>2. b \in 1..Len(s) /\ n \in b..Len(s)
    BY <2>1
  <2>3. Append(Part(s, b, n), s[n+1]) = Part(s, b, n + 1) /\ Len(Part(s, b, n)) = n - b + 1
    BY <2>2, PartIs
  <2> QED BY <1>1, <2>3
<1>3. ASSUME s[n+1] # sep PROVE IsLast(s, sep, Append(r, s[n+1]), 0, b, n + 1)
  <2>1. n + 1 \in b..n+1 /\ \A j \in (n+1)+1..n+1 : FALSE
    OBVIOUS
  <2> QED BY <1>2, <1>3, <2>1 DEF IsLast
<1>4. ASSUME s[n+1] = sep
      PROVE  IsLast(s, sep, Append(r, s[n+1]), IF trim = 0 THEN Len(r) ELSE trim, b, n + 1)
  <2>1. t \in b..n+1 /\ t # n + 1
    BY <1>1
  <2>2. \A j \in t+1..n+1 : s[j] = sep
    <3>1. \A j \in t+1..n+1 : j \in t+1..n \/ j = n + 1
      OBVIOUS
    <3> QED BY <1>1, <1>4, <3>1
  <2>3. (IF trim = 0 THEN Len(r) ELSE trim) = t - b + 1
    BY <1>1, <1>2
  <2> QED BY <1>1, <1>2, <2>1, <2>2, <2>3 DEF IsLast
<1> QED BY <1>3, <1>4

LEMMA FoundStart ==
  ASSUME NEW D, NEW s \in Seq(D), NEW sep, NEW maxsplit \in Nat
  PROVE  Found(s, sep, maxsplit, Start, 0)
<1>1. DOMAIN s = 1..Len(s) /\ Len(s) \in Nat
  BY LenProperties
<1>2. Ordinal(s, sep, 0) = 0 /\ \A b \in Beginnings(s, sep) : ~(b <= 0)
  BY <1>1, OrdinalZero DEF Beginnings
<1> QED BY <1>2 DEF Found, Start

LEMMA FoundStep ==
  ASSUME NEW D, NEW s \in Seq(D), NEW sep, NEW maxsplit \in Nat, NEW a \in Splitters(D),
         NEW n \in Nat, n < Len(s), Found(s, sep, maxsplit, a, n)
  PROVE  Found(s, sep, maxsplit, ScanCharacter(a, s[n+1], sep, maxsplit), n + 1)
<1> DEFINE Begin == Beginnings(s, sep)
           O(i) == Ordinal(s, sep, i)
           c == s[n+1]
           q == ScanCharacter(a, c, sep, maxsplit)
           num == a.num_results
<1>1. /\ DOMAIN s = 1..Len(s) /\ Len(s) \in Nat /\ n + 1 \in 1..Len(s) /\ c \in D
      /\ num \in Nat /\ a.trim_pos \in Nat /\ a.result \in Seq(Seq(D)) /\ Len(a.result) = num
      /\ a.in_word \in BOOLEAN /\ (a.in_word => num # 0)
  BY LenProperties, ElementOfSeq DEF Splitters
<1>2. /\ \A b \in Begin : b \in 1..Len(s) /\ O(b) \in Nat \ {0} /\ s[b] # sep
      /\ O(n) \in Nat /\ O(n+1) = IF n + 1 \in Begin THEN O(n) + 1 ELSE O(n)
      /\ \A b \in Begin : b <= n => O(b) <= O(n)
      /\ n + 1 \in Begin <=> c # sep /\ (n = 0 \/ s[n] = sep)
  <2>1. \A b \in Begin : b \in 1..Len(s) /\ O(b) \in Nat \ {0} /\ s[b] # sep
    BY <1>1, OrdinalOwn DEF Beginnings
  <2>2. O(n) \in Nat /\ O(n+1) = IF n + 1 \in Begin THEN O(n) + 1 ELSE O(n)
    BY <1>1, OrdinalNat, OrdinalStep
  <2>3. \A b \in Begin : b <= n => O(b) <= O(n)
    <3> TAKE b \in Begin
    <3> HAVE b <= n
    <3>1. b \in Nat
      BY <2>1
    <3> QED BY <1>1, <3>1, OrdinalGrows
  <2>4. n + 1 \in Begin <=> c # sep /\ (n = 0 \/ s[n] = sep)
    <3>1. (n + 1) - 1 = n /\ (n + 1 = 1 <=> n = 0)
      OBVIOUS
    <3> QED BY <1>1, <3>1 DEF Beginnings
  <2> QED BY <2>1, <2>2, <2>3, <2>4
<1>3. /\ num = IF O(n) <= maxsplit THEN O(n) ELSE maxsplit + 1
      /\ num <= maxsplit =>
           /\ a.trim_pos = 0 /\ (a.in_word <=> n > 0 /\ s[n] # sep)
           /\ a.in_word => InWord(s, sep, num, n)
      /\ num = maxsplit + 1 => a.in_word
      /\ \A b \in Begin : b <= n =>
           /\ O(b) <= maxsplit => IsWord(s, sep, a.result[O(b)], b, n)
           /\ O(b) = maxsplit + 1 => IsLast(s, sep, a.result[maxsplit + 1], a.trim_pos, b, n)
  BY DEF Found
<1>4. \A b, d \in Begin : O(b) = O(d) => b = d
  BY <1>1, OrdinalUnique
<1> SUFFICES
      /\ q.num_results = IF O(n+1) <= maxsplit THEN O(n+1) ELSE maxsplit + 1
      /\ q.num_results <= maxsplit =>
           /\ q.trim_pos = 0 /\ (q.in_word <=> n + 1 > 0 /\ c # sep)
           /\ q.in_word => InWord(s, sep, q.num_results, n + 1)
      /\ q.num_results = maxsplit + 1 => q.in_word
      /\ \A b \in Begin : b <= n + 1 =>
           /\ O(b) <= maxsplit => IsWord(s, sep, q.result[O(b)], b, n + 1)
           /\ O(b) = maxsplit + 1 => IsLast(s, sep, q.result[maxsplit + 1], q.trim_pos, b, n + 1)
  BY DEF Found
<1>5. \A b \in Begin : b <= n /\ O(b) # O(n) => \E j \in b..n : s[j] = sep
  BY <1>1, Ended
<1>6. \A b \in Begin : b <= n => b \in 1..n
  BY <1>1 DEF Beginnings
<1>7. \A b \in Begin : b <= n + 1 => b <= n \/ b = n + 1
  BY <1>6, <1>2
<1> HIDE DEF Begin, O, num
<1>longer. ASSUME num # 0
           PROVE  \A k \in 1..num : Longer(a.result, num, c)[k] =
                    IF k = num THEN Append(a.result[num], c) ELSE a.result[k]
  <2> DEFINE res == a.result
  <2>1. res \in Seq(Seq(D)) /\ num \in 1..Len(res) /\ Len(res) = num /\ c \in D
    BY <1>1, <1>longer
  <2> HIDE DEF res, c
  <2>2. \A k \in 1..Len(res) :
          Longer(res, num, c)[k] = IF k = num THEN Append(res[num], c) ELSE res[k]
    BY <2>1, LongerAt, ZenonT(60)
  <2> QED BY <2>1, <2>2 DEF res
<1>8. CASE c = sep
  <2>1. /\ q.num_results = num
        /\ num <= maxsplit => ~q.in_word /\ q.trim_pos = a.trim_pos /\ q.result = a.result
        /\ num > maxsplit =>
             /\ q.in_word = a.in_word /\ q.result = Longer(a.result, num, c)
             /\ q.trim_pos = IF a.trim_pos = 0 THEN Len(a.result[num]) ELSE a.trim_pos
    <3>1. q = Separator(a, c, maxsplit)
      BY <1>8 DEF ScanCharacter
    <3> HIDE DEF c, q
    <3>2. c \in D
      BY <1>1
    <3> QED BY <3>1, <3>2, SeparatorIs DEF num
  <2> HIDE DEF q, c
  <2>2. O(n+1) = O(n) /\ \A b \in Begin : b <= n + 1 => b <= n
    BY <1>2, <1>7, <1>8
  <2>3. \A b \in Begin : b <= n /\ O(b) <= maxsplit => IsWord(s, sep, a.result[O(b)], b, n + 1)
    <3> TAKE b \in Begin
    <3> HAVE b <= n /\ O(b) <= maxsplit
    <3>1. IsWord(s, sep, a.result[O(b)], b, n) /\ b \in 1..n
      BY <1>3, <1>6
    <3>2. s[n+1] = sep
      BY <1>8 DEF c
    <3> QED BY <3>1, <3>2, WordStays
  <2>4. CASE num <= maxsplit
    <3>1. O(n) = num /\ num # maxsplit + 1
      BY <1>1, <1>2, <1>3, <2>4
    <3>2. \A b \in Begin : b <= n => O(b) # maxsplit + 1
      BY <1>1, <1>2, <3>1, <2>4
    <3> QED BY <1>1, <1>3, <1>8, <2>1, <2>2, <2>3, <2>4, <3>1, <3>2
  <2>5. CASE num > maxsplit
    <3>1. num = maxsplit + 1 /\ ~(O(n) <= maxsplit) /\ num \in 1..Len(a.result)
      BY <1>1, <1>2, <1>3, <2>5
    <3>2. \A k \in 1..num : q.result[k] = IF k = num THEN Append(a.result[num], c) ELSE a.result[k]
      BY <1>1, <1>longer, <2>1, <2>5, <3>1
    <3>3. \A b \in Begin : b <= n /\ O(b) = maxsplit + 1 =>
            IsLast(s, sep, q.result[maxsplit + 1], q.trim_pos, b, n + 1)
      <4> TAKE b \in Begin
      <4> HAVE b <= n /\ O(b) = maxsplit + 1
      <4>1. IsLast(s, sep, a.result[num], a.trim_pos, b, n) /\ b \in 1..n
        BY <1>3, <1>6, <3>1
      <4>2. s[n+1] = sep /\ s[n+1] = c
        BY <1>8 DEF c
      <4>3. IsLast(s, sep, Append(a.result[num], s[n+1]),
                   IF a.trim_pos = 0 THEN Len(a.result[num]) ELSE a.trim_pos, b, n + 1)
        <5> DEFINE r == a.result[num]
                   trim == a.trim_pos
        <5>1. IsLast(s, sep, r, trim, b, n)
          BY <4>1
        <5> HIDE DEF r, trim
        <5>2. IsLast(s, sep, Append(r, s[n+1]), IF trim = 0 THEN Len(r) ELSE trim, b, n + 1)
          BY <4>1, <4>2, <5>1, LastGrows
        <5> QED BY <5>2 DEF r, trim
      <4>4. q.result[num] = Append(a.result[num], c)
        BY <1>1, <3>1, <3>2
      <4> QED BY <2>1, <2>5, <3>1, <4>2, <4>3, <4>4
    <3>4. \A b \in Begin : b <= n /\ O(b) <= maxsplit => q.result[O(b)] = a.result[O(b)]
      BY <1>2, <3>1, <3>2
    <3>5. ~(q.num_results <= maxsplit)
      BY <1>1, <2>1, <2>5
    <3> QED BY <1>3, <2>1, <2>2, <2>3, <2>5, <3>1, <3>3, <3>4, <3>5
  <2> QED BY <1>1, <2>4, <2>5
<1>9. CASE c # sep /\ a.in_word
  <2>1. q.num_results = num /\ q.in_word /\ q.trim_pos = 0 /\ q.result = Longer(a.result, num, c)
    <3>1. q = WordCharacter(a, c)
      BY <1>9 DEF ScanCharacter
    <3> HIDE DEF c, q
    <3>2. c \in D
      BY <1>1
    <3> QED BY <1>9, <3>1, <3>2, WordCharacterIs DEF num
  <2> HIDE DEF q, c
  <2>2. num \in 1..Len(a.result)
    BY <1>1, <1>9
  <2>3. \A k \in 1..num : q.result[k] = IF k = num THEN Append(a.result[num], c) ELSE a.result[k]
    BY <1>1, <1>longer, <2>1, <2>2
  <2>4. s[n+1] # sep /\ s[n+1] = c
    BY <1>9 DEF c
  <2>5. \A b \in Begin : b <= n /\ O(b) <= maxsplit /\ O(b) # O(n) =>
          IsWord(s, sep, a.result[O(b)], b, n + 1)
    <3> TAKE b \in Begin
    <3> HAVE b <= n /\ O(b) <= maxsplit /\ O(b) # O(n)
    <3>1. IsWord(s, sep, a.result[O(b)], b, n) /\ b \in 1..n /\ \E j \in b..n : s[j] = sep
      BY <1>3, <1>5, <1>6
    <3> QED BY <3>1, WordStays
  <2>6. CASE num <= maxsplit
    <3>1. O(n) = num /\ num # maxsplit + 1
      BY <1>1, <1>2, <1>3, <2>6
    <3>2. O(n+1) = O(n) /\ \A b \in Begin : b <= n + 1 => b <= n
      BY <1>2, <1>3, <1>7, <1>9, <2>6
    <3>3. PICK d \in Begin : d <= n /\ O(d) = num /\ \A j \in d..n : s[j] # sep
      BY <1>3, <1>9, <2>6 DEF InWord, Begin, O
    <3>4. InWord(s, sep, num, n + 1)
      <4>1. d \in 1..Len(s) /\ d <= n + 1
        BY <1>2, <3>3
      <4>2. \A j \in d..n+1 : j \in d..n \/ j = n + 1
        BY <4>1
      <4>3. \A j \in d..n+1 : s[j] # sep
        BY <2>4, <3>3, <4>2
      <4> QED BY <3>3, <4>1, <4>3 DEF InWord, Begin, O
    <3>5. IsWord(s, sep, q.result[num], d, n + 1)
      <4>1. IsWord(s, sep, a.result[num], d, n) /\ d \in 1..n
        BY <1>3, <1>6, <2>6, <3>3
      <4> DEFINE r == a.result[num]
      <4>2. IsWord(s, sep, r, d, n)
        BY <4>1
      <4>3. q.result[num] = Append(r, s[n+1])
        BY <1>1, <2>2, <2>3, <2>4
      <4> HIDE DEF r
      <4> QED BY <2>4, <3>3, <4>1, <4>2, <4>3, WordGrows
    <3>6. \A b \in Begin : b <= n => IsWord(s, sep, q.result[O(b)], b, n + 1)
      <4> TAKE b \in Begin
      <4> HAVE b <= n
      <4>1. CASE O(b) = O(n)
        BY <1>4, <3>1, <3>3, <3>5, <4>1
      <4>2. CASE O(b) # O(n)
        <5>1. O(b) \in 1..num /\ O(b) # num /\ O(b) <= maxsplit
          BY <1>1, <1>2, <2>6, <3>1, <4>2
        <5>2. q.result[O(b)] = a.result[O(b)]
          BY <2>3, <5>1
        <5> QED BY <2>5, <4>2, <5>1, <5>2
      <4> QED BY <4>1, <4>2
    <3>7. \A b \in Begin : b <= n => O(b) # maxsplit + 1
      BY <1>1, <1>2, <3>1, <2>6
    <3>8. n + 1 > 0
      OBVIOUS
    <3> QED BY <1>3, <1>9, <2>1, <2>6, <3>1, <3>2, <3>4, <3>6, <3>7, <3>8
  <2>7. CASE num > maxsplit
    <3>1. num = maxsplit + 1 /\ ~(O(n) <= maxsplit)
      BY <1>1, <1>2, <1>3, <2>7
    <3>2. ~(O(n+1) <= maxsplit)
      BY <1>2, <3>1
    <3>3. \A b \in Begin : b <= n + 1 /\ O(b) <= maxsplit + 1 => b <= n
      BY <1>2, <1>7, <3>1
    <3>4. \A b \in Begin : b <= n /\ O(b) <= maxsplit => IsWord(s, sep, q.result[O(b)], b, n + 1)
      <4> TAKE b \in Begin
      <4> HAVE b <= n /\ O(b) <= maxsplit
      <4>1. O(b) \in 1..num /\ O(b) # num /\ O(b) # O(n)
        BY <1>1, <1>2, <3>1
      <4> QED BY <2>3, <2>5, <4>1
    <3>5. \A b \in Begin : b <= n /\ O(b) = maxsplit + 1 =>
            IsLast(s, sep, q.result[maxsplit + 1], 0, b, n + 1)
      <4> TAKE b \in Begin
      <4> HAVE b <= n /\ O(b) = maxsplit + 1
      <4> DEFINE r == a.result[num]
                 trim == a.trim_pos
      <4>1. IsLast(s, sep, r, trim, b, n) /\ b \in 1..n
        BY <1>3, <1>6, <3>1
      <4>2. q.result[num] = Append(r, s[n+1])
        BY <1>1, <2>2, <2>3, <2>4
      <4> HIDE DEF r, trim
      <4>3. IsLast(s, sep, Append(r, s[n+1]), 0, b, n + 1)
        BY <2>4, <4>1, LastGrows
      <4> QED BY <3>1, <4>2, <4>3
    <3>6. ~(q.num_results <= maxsplit) /\ \A b \in Begin : O(b) <= maxsplit => O(b) <= maxsplit + 1
      BY <1>1, <1>2, <2>1, <2>7
    <3>7. \A b \in Begin : O(b) = maxsplit + 1 => O(b) <= maxsplit + 1
      BY <1>1, <1>2
    <3> QED BY <2>1, <3>1, <3>2, <3>3, <3>4, <3>5, <3>6, <3>7
  <2> QED BY <1>1, <2>6, <2>7
<1>10. CASE c # sep /\ ~a.in_word
  <2> DEFINE m == num + 1
  <2>1. /\ q.num_results = m /\ q.in_word /\ q.trim_pos = 0
        /\ q.result = Longer(Append(a.result, <<>>), m, c)
    <3>1. q = WordCharacter(a, c)
      BY <1>10 DEF ScanCharacter
    <3> HIDE DEF c, q
    <3>2. c \in D
      BY <1>1
    <3> QED BY <1>10, <3>1, <3>2, WordCharacterIs DEF num
  <2> HIDE DEF q, c
  <2>2. num <= maxsplit /\ O(n) = num /\ m \in Nat /\ m <= maxsplit + 1
    BY <1>1, <1>2, <1>3, <1>10
  <2>3. n + 1 \in Begin /\ O(n+1) = m /\ (n = 0 \/ s[n] = sep)
    BY <1>2, <1>3, <1>10, <2>2
  <2>4. \A k \in 1..m : q.result[k] = IF k = m THEN Append(<<>>, c) ELSE a.result[k]
    <3> DEFINE none == <<>>
               more == Append(a.result, none)
    <3>1. none \in Seq(D)
      OBVIOUS
    <3>2. q.result = Longer(more, m, c)
      BY <2>1
    <3> HIDE DEF none
    <3>3. /\ more \in Seq(Seq(D)) /\ Len(more) = m
          /\ \A k \in 1..num : more[k] = a.result[k]
          /\ more[m] = none
      BY <1>1, <3>1, AppendProperties
    <3> HIDE DEF more
    <3>4. m \in 1..Len(more)
      BY <1>1, <3>3
    <3>5. \A k \in 1..Len(more) : q.result[k] = IF k = m THEN Append(more[m], c) ELSE more[k]
      <4>1. c \in D
        BY <1>1 DEF c
      <4> HIDE DEF m
      <4>2. \A k \in 1..Len(more) :
              Longer(more, m, c)[k] = IF k = m THEN Append(more[m], c) ELSE more[k]
        <5>1. more \in Seq(Seq(D)) /\ m \in 1..Len(more) /\ c \in D
          BY <3>3, <3>4, <4>1
        <5> HIDE DEF c
        <5> QED BY <5>1, LongerAt, ZenonT(60)
      <4> QED BY <3>2, <4>2
    <3>6. \A k \in 1..m : k = m \/ k \in 1..num
      BY <1>1
    <3> QED BY <3>3, <3>5, <3>6 DEF none
  <2>5. s[n+1] # sep /\ s[n+1] = c
    BY <1>10 DEF c
  <2>6. \A b \in Begin : b <= n => IsWord(s, sep, q.result[O(b)], b, n + 1) /\ O(b) # m
    <3> TAKE b \in Begin
    <3> HAVE b <= n
    <3>1. O(b) \in 1..m /\ O(b) # m /\ O(b) <= maxsplit
      BY <1>1, <1>2, <2>2
    <3>2. IsWord(s, sep, a.result[O(b)], b, n) /\ b \in 1..n
      BY <1>3, <1>6, <3>1
    <3>3. n \in b..n /\ s[n] = sep
      BY <2>3, <3>2
    <3>4. IsWord(s, sep, a.result[O(b)], b, n + 1)
      BY <3>2, <3>3, WordStays
    <3> QED BY <2>4, <3>1, <3>4
  <2>7. IsWord(s, sep, q.result[m], n + 1, n + 1) /\ IsLast(s, sep, q.result[m], 0, n + 1, n + 1)
    <3>1. q.result[m] = Append(<<>>, s[n+1])
      BY <1>1, <2>2, <2>4, <2>5
    <3> DEFINE k == n + 1
    <3>2. k \in 1..Len(s) /\ s[k] # sep
      BY <1>1, <2>5
    <3> HIDE DEF k
    <3>3. IsWord(s, sep, Append(<<>>, s[k]), k, k) /\ IsLast(s, sep, Append(<<>>, s[k]), 0, k, k)
      BY <3>2, WordBegins
    <3> QED BY <3>1, <3>3 DEF k
  <2>8. InWord(s, sep, m, n + 1)
    <3>1. n + 1 <= n + 1 /\ \A j \in n+1..n+1 : j = n + 1
      OBVIOUS
    <3> QED BY <2>3, <2>5, <3>1 DEF InWord, Begin, O
  <2>9. n + 1 > 0 /\ m = IF m <= maxsplit THEN m ELSE maxsplit + 1
    BY <2>2
  <2>10. \A b \in Begin : b <= n => O(b) # maxsplit + 1
    BY <1>2, <2>2
  <2> HIDE DEF m
  <2> QED BY <1>7, <1>10, <2>1, <2>3, <2>6, <2>7, <2>8, <2>9, <2>10
<1> QED BY <1>1, <1>8, <1>9, <1>10

LEMMA FoundIs ==
  ASSUME NEW D, NEW s \in Seq(D), NEW sep, NEW maxsplit \in Nat
  PROVE  /\ Scan(s, sep, maxsplit)[Len(s)] \in Splitters(D)
         /\ Found(s, sep, maxsplit, Scan(s, sep, maxsplit)[Len(s)], Len(s))
<1> DEFINE at == Scan(s, sep, maxsplit)
           T == {n \in 0..Len(s) : Found(s, sep, maxsplit, at[n], n)}
<1>1. Len(s) \in Nat
  BY LenProperties
<1>2. /\ \A n \in 0..Len(s) : at[n] \in Splitters(D)
      /\ at[0] = Start
      /\ \A n \in 1..Len(s) : at[n] = ScanCharacter(at[n-1], s[n], sep, maxsplit)
  BY ScanIs
<1> HIDE DEF at
<1>3. 0 \in T
  BY <1>1, <1>2, FoundStart
<1>4. ASSUME NEW n \in 1..Len(s), n - 1 \in T PROVE n \in T
  <2> DEFINE m == n - 1
             a == at[m]
  <2>1. m \in Nat /\ m < Len(s) /\ m + 1 = n /\ a \in Splitters(D) /\ Found(s, sep, maxsplit, a, m)
    BY <1>1, <1>2, <1>4
  <2>2. at[n] = ScanCharacter(a, s[n], sep, maxsplit)
    BY <1>2
  <2> HIDE DEF a, m
  <2>3. Found(s, sep, maxsplit, ScanCharacter(a, s[m+1], sep, maxsplit), m + 1)
    BY <2>1, FoundStep
  <2> QED BY <1>1, <2>1, <2>2, <2>3
<1> HIDE DEF T
<1>5. 0..Len(s) \subseteq T
  BY <1>1, <1>3, <1>4, BoundedInduction
<1>6. Len(s) \in 0..Len(s)
  BY <1>1
<1> QED BY <1>2, <1>5, <1>6 DEF T, at

-----------------------------------------------------------------------------
(* What split returns                                                      *)

LEMMA WordAtIs ==
  ASSUME NEW s, NEW sep, NEW r, Len(s) \in Nat, NEW b \in 1..Len(s),
         IsWord(s, sep, r, b, Len(s))
  PROVE  r = WordAt(s, sep, b)
<1>1. PICK e \in b..Len(s) : /\ r = Part(s, b, e) /\ \A j \in b..e : s[j] # sep
                             /\ e = Len(s) \/ s[e+1] = sep
  BY DEF IsWord
<1> DEFINE ends == {j \in b..Len(s) : s[j] = sep}
           first == CHOOSE j \in ends : \A k \in ends : j <= k
<1>2. WordAt(s, sep, b) = SubSeq(s, b, IF ends = {} THEN Len(s) ELSE first - 1)
  BY DEF WordAt
<1>3. CASE e = Len(s)
  <2>1. ends = {}
    BY <1>1, <1>3
  <2> QED BY <1>1, <1>2, <1>3, <2>1 DEF Part
<1>4. CASE e # Len(s)
  <2>1. e + 1 \in ends /\ \A k \in ends : e + 1 <= k
    <3>1. e + 1 \in b..Len(s) /\ s[e+1] = sep
      BY <1>1, <1>4
    <3>2. \A k \in b..Len(s) : e + 1 <= k \/ k \in b..e
      BY <1>1
    <3> QED BY <1>1, <3>1, <3>2
  <2>2. \A j \in ends : (\A k \in ends : j <= k) => j = e + 1
    BY <2>1
  <2>3. first = e + 1
    <3> HIDE DEF ends
    <3> QED BY <2>1, <2>2
  <2>4. ends # {} /\ first - 1 = e
    BY <1>1, <2>1, <2>3
  <2> QED BY <1>1, <1>2, <2>4 DEF Part
<1> QED BY <1>3, <1>4

LEMMA StrippedIs ==
  ASSUME NEW D, NEW s \in Seq(D), NEW sep, NEW r, NEW trim, NEW b \in 1..Len(s),
         IsLast(s, sep, r, trim, b, Len(s))
  PROVE  /\ trim = 0 => Stripped(s, sep, b) = r
         /\ trim # 0 => Stripped(s, sep, b) = SubSeq(r, 1, trim)
<1>1. Len(s) \in Nat
  BY LenProperties
<1>2. PICK t \in b..Len(s) :
         /\ r = Part(s, b, Len(s)) /\ s[t] # sep /\ \A j \in t+1..Len(s) : s[j] = sep
         /\ trim = IF t = Len(s) THEN 0 ELSE t - b + 1
  BY DEF IsLast
<1> DEFINE I == {i \in 1..Len(s) : s[i] # sep}
<1>3. Stripped(s, sep, b) = SubSeq(s, b, IF I # {} THEN Max(I) ELSE 0)
  BY DEF Stripped, SelectLastInSeq
<1>4. t \in I /\ \A i \in I : t >= i
  <2>1. \A i \in 1..Len(s) : t >= i \/ i \in t+1..Len(s)
    BY <1>1, <1>2
  <2> QED BY <1>1, <1>2, <2>1
<1>5. Max(I) = t
  <2>1. \A i \in I : (\A k \in I : i >= k) => i = t
    BY <1>1, <1>4
  <2> QED BY <1>4, <2>1 DEF Max
<1>6. Stripped(s, sep, b) = SubSeq(s, b, t)
  BY <1>3, <1>4, <1>5
<1>7. CASE t = Len(s)
  BY <1>2, <1>6, <1>7 DEF Part
<1>8. CASE t # Len(s)
  <2> DEFINE m == t - b + 1
  <2>1. /\ b \in 1..Len(s) /\ Len(s) \in 1..Len(s) /\ 1 \in 1..Len(s)-b+1 /\ m \in 1..Len(s)-b+1
        /\ b + 1 - 1 = b /\ b + m - 1 = t /\ m # 0
    BY <1>1, <1>2
  <2>2. SubSeq(SubSeq(s, b, Len(s)), 1, m) = SubSeq(s, b + 1 - 1, b + m - 1)
    <3> DEFINE n == Len(s)
    <3> HIDE DEF m
    <3> QED BY <2>1, SubSeqOfSubSeq
  <2> QED BY <1>2, <1>6, <1>8, <2>1, <2>2 DEF Part
<1> QED BY <1>7, <1>8

LEMMA SplitIs ==
  ASSUME NEW D, NEW s \in Seq(D), NEW sep, NEW maxsplit \in Nat
  PROVE  LET result == split(s, sep, maxsplit) IN
         /\ DOMAIN result = 1..maxsplit + 1
         /\ \A b \in Beginnings(s, sep) :
              LET i == Ordinal(s, sep, b) IN
              /\ i <= maxsplit => result[i] = WordAt(s, sep, b)
              /\ i = maxsplit + 1 => result[i] = Stripped(s, sep, b)
         /\ \A i \in 1..maxsplit + 1 : i > Ordinal(s, sep, Len(s)) => result[i] = <<>>
<1> DEFINE a == Scan(s, sep, maxsplit)[Len(s)]
           num == a.num_results
           trimmed == IF a.trim_pos = 0 THEN a.result
                      ELSE [a.result EXCEPT ![num] = SubSeq(a.result[num], 1, a.trim_pos)]
           result == split(s, sep, maxsplit)
           O(i) == Ordinal(s, sep, i)
<1>1. result = [i \in 1..maxsplit + 1 |-> IF i <= num THEN trimmed[i] ELSE <<>>]
  BY DEF split
<1>2. a \in Splitters(D) /\ Found(s, sep, maxsplit, a, Len(s))
  BY FoundIs
<1> HIDE DEF result, a
<1>3. /\ num \in Nat /\ a.trim_pos \in Nat /\ DOMAIN a.result = 1..num
      /\ Len(s) \in Nat /\ DOMAIN s = 1..Len(s)
  BY <1>2, LenProperties DEF Splitters
<1>4. /\ num = IF O(Len(s)) <= maxsplit THEN O(Len(s)) ELSE maxsplit + 1
      /\ num <= maxsplit => a.trim_pos = 0
      /\ \A b \in Beginnings(s, sep) : b <= Len(s) =>
           /\ O(b) <= maxsplit => IsWord(s, sep, a.result[O(b)], b, Len(s))
           /\ O(b) = maxsplit + 1 => IsLast(s, sep, a.result[maxsplit + 1], a.trim_pos, b, Len(s))
  BY <1>2 DEF Found
<1>5. O(Len(s)) \in Nat
  BY <1>3, OrdinalNat
<1>6. DOMAIN result = 1..maxsplit + 1
  BY <1>1
<1>7. ASSUME NEW i \in 1..maxsplit + 1, i > O(Len(s)) PROVE result[i] = <<>>
  <2>1. ~(i <= num)
    BY <1>4, <1>5, <1>7
  <2> QED BY <1>1, <2>1
<1>8. ASSUME NEW b \in Beginnings(s, sep), O(b) <= maxsplit + 1
      PROVE  /\ b \in 1..Len(s) /\ O(b) \in 1..maxsplit + 1 /\ O(b) \in 1..num
             /\ result[O(b)] = trimmed[O(b)]
  <2>1. b \in 1..Len(s) /\ O(b) \in Nat \ {0}
    BY <1>3, OrdinalOwn
  <2>2. O(b) <= O(Len(s))
    BY <1>3, <2>1, OrdinalGrows
  <2>3. O(b) \in 1..maxsplit + 1 /\ O(b) \in 1..num /\ O(b) <= num
    BY <1>3, <1>4, <1>5, <1>8, <2>1, <2>2
  <2> QED BY <1>1, <2>1, <2>3
<1>9. ASSUME NEW b \in Beginnings(s, sep), O(b) <= maxsplit
      PROVE  result[O(b)] = WordAt(s, sep, b)
  <2>1. O(b) \in Nat
    BY <1>3, OrdinalOwn
  <2>2. O(b) <= maxsplit + 1
    BY <1>9, <2>1
  <2>3. b \in 1..Len(s) /\ O(b) \in 1..num /\ result[O(b)] = trimmed[O(b)]
    BY <1>8, <2>2
  <2>4. trimmed[O(b)] = a.result[O(b)]
    <3>1. CASE a.trim_pos = 0
      BY <3>1
    <3>2. CASE a.trim_pos # 0
      <4>1. O(b) # num
        BY <1>3, <1>4, <1>9, <2>1, <3>2
      <4> QED BY <1>3, <2>3, <3>2, <4>1
    <3> QED BY <3>1, <3>2
  <2>5. IsWord(s, sep, a.result[O(b)], b, Len(s))
    BY <1>4, <1>9, <2>3
  <2> HIDE DEF O
  <2> QED BY <1>3, <2>3, <2>4, <2>5, WordAtIs
<1>10. ASSUME NEW b \in Beginnings(s, sep), O(b) = maxsplit + 1
       PROVE  result[O(b)] = Stripped(s, sep, b)
  <2>1. O(b) <= maxsplit + 1
    BY <1>10
  <2>2. b \in 1..Len(s) /\ O(b) \in 1..num /\ result[O(b)] = trimmed[O(b)]
    BY <1>8, <2>1
  <2>3. num = maxsplit + 1
    BY <1>3, <1>4, <1>5, <1>10, <2>2
  <2> DEFINE r == a.result[num]
             trim == a.trim_pos
  <2>4. IsLast(s, sep, r, trim, b, Len(s))
    BY <1>4, <1>10, <2>2, <2>3
  <2>5. trimmed[num] = IF trim = 0 THEN r ELSE SubSeq(r, 1, trim)
    BY <1>3, <2>2, <2>3
  <2> HIDE DEF r, trim, trimmed
  <2>6. (trim = 0 => Stripped(s, sep, b) = r) /\ (trim # 0 => Stripped(s, sep, b) = SubSeq(r, 1, trim))
    BY <2>2, <2>4, StrippedIs
  <2> QED BY <1>10, <2>2, <2>3, <2>5, <2>6
<1> QED BY <1>6, <1>7, <1>9, <1>10 DEF result

-----------------------------------------------------------------------------
(* What the password is                                                    *)

LEMMA LastSlashIs ==
  ASSUME NEW D, NEW s \in Seq(D)
  PROVE  /\ LastSlash(s) \in 0..Len(s) /\ (LastSlash(s) # 0 => s[LastSlash(s)] = "/")
         /\ \A i \in LastSlash(s)+1..Len(s) : s[i] # "/"
<1> DEFINE I == {i \in 1..Len(s) : s[i] = "/"}
<1>1. Len(s) \in Nat
  BY LenProperties
<1>2. LastSlash(s) = IF I # {} THEN Max(I) ELSE 0
  BY DEF LastSlash, SelectLastInSeq
<1>3. CASE I = {}
  BY <1>1, <1>2, <1>3
<1>4. CASE I # {}
  <2>1. I \in SUBSET Nat /\ \A k \in I : k <= Len(s)
    BY <1>1
  <2> HIDE DEF I
  <2>2. PICK m \in I : \A k \in I : k <= m
    BY <1>1, <1>4, <2>1, GreatestNatural
  <2>3. \A i \in I : (\A k \in I : i >= k) => i = m
    BY <2>1, <2>2
  <2>4. \A k \in I : m >= k
    BY <2>1, <2>2
  <2>5. Max(I) = m
    BY <2>2, <2>3, <2>4 DEF Max
  <2>6. m \in 1..Len(s) /\ s[m] = "/"
    BY <2>2 DEF I
  <2>7. \A i \in m+1..Len(s) : i \notin I
    BY <2>1, <2>2
  <2>8. \A i \in m+1..Len(s) : i \in 1..Len(s)
    BY <1>1, <2>6
  <2>9. \A i \in m+1..Len(s) : s[i] # "/"
    BY <2>7, <2>8 DEF I
  <2>10. LastSlash(s) = m
    BY <1>2, <1>4, <2>5
  <2>11. m \in 0..Len(s)
    BY <1>1, <2>6
  <2> QED BY <2>6, <2>9, <2>10, <2>11
<1> QED BY <1>3, <1>4

\* As in PasswordFromDirectory.
Directory(s, i, j) ==
  /\ i < j /\ s[j] = "/" /\ \A k \in i+1..Len(s) : s[k] = "/" => k = j
  /\ i > 0 => s[i] = "/"

DirName(s, i, j) == SubSeq(s, i + 1, j - 1)

Prefixed(dir) == IsPrefix(APP_DIR_PREFIX, InLower(dir))

\* Without a slash there is no directory, and with one there is one.
LEMMA NoDirectory ==
  ASSUME NEW D, NEW s \in Seq(D), Len(s) < MAXPATHLEN, LastSlash(Copied(s)) = 0
  PROVE  /\ basename(dirname(s)) = <<>>
         /\ \A i, j \in 0..Len(s) : ~Directory(s, i, j)
<1>1. Len(s) \in Nat /\ Copied(s) = s
  <2>1. SubSeq(s, 1, Len(s)) = s
    BY SubSeqFull
  <2> QED BY <2>1, LenProperties DEF Copied
<1>2. dirname(s) = <<>>
  BY DEF dirname
<1>3. basename(<<>>) = <<>>
  <2> DEFINE none == <<>>
  <2>1. none \in Seq(D) /\ Len(none) = 0
    OBVIOUS
  <2> HIDE DEF none
  <2>2. LastSlash(none) = 0
    <3>1. LastSlash(none) \in 0..Len(none)
      BY <2>1, LastSlashIs
    <3> QED BY <2>1, <3>1
  <2>3. SubSeq(none, 0 + 1, 0) = <<>>
    BY SubSeqEmpty
  <2> QED BY <2>1, <2>2, <2>3 DEF basename, none
<1>4. \A i \in 1..Len(s) : s[i] # "/"
  BY <1>1, LastSlashIs
<1>5. \A i, j \in 0..Len(s) : ~Directory(s, i, j)
  BY <1>1, <1>4 DEF Directory
<1> QED BY <1>2, <1>3, <1>5

LEMMA OneDirectory ==
  ASSUME NEW D, NEW s \in Seq(D), Len(s) < MAXPATHLEN, LastSlash(Copied(s)) # 0
  PROVE  \E i, j \in 0..Len(s) :
           /\ Directory(s, i, j) /\ basename(dirname(s)) = DirName(s, i, j)
           /\ DirName(s, i, j) \in Seq(D)
           /\ \A k, m \in 0..Len(s) : Directory(s, k, m) => k = i /\ m = j
<1>1. Len(s) \in Nat /\ Copied(s) = s /\ \A i \in 1..Len(s) : s[i] \in D
  <2>1. SubSeq(s, 1, Len(s)) = s
    BY SubSeqFull
  <2> QED BY <2>1, LenProperties, ElementOfSeq DEF Copied
<1> DEFINE j == LastSlash(s)
           d == SubSeq(s, 1, j - 1)
           i == LastSlash(d)
<1>2. j \in 1..Len(s) /\ s[j] = "/" /\ \A k \in j+1..Len(s) : s[k] # "/"
  BY <1>1, LastSlashIs
<1>3. dirname(s) = d
  BY <1>1, <1>2 DEF dirname
<1> HIDE DEF j
<1>4. d \in Seq(D) /\ Len(d) = j - 1 /\ \A k \in 1..j-1 : d[k] = s[k]
  <2>1. 1 \in Int /\ j - 1 \in Int /\ \A k \in 1..j-1 : s[k] \in D
    BY <1>1, <1>2
  <2>2. d \in Seq(D) /\ Len(d) = IF 1 <= j - 1 THEN (j - 1) - 1 + 1 ELSE 0
    BY <2>1, SubSeqProperties
  <2>3. \A k \in 1..j-1 : d[k] = s[1 + k - 1]
    BY <1>1, <1>2, <2>1, SubSeqProperties
  <2> QED BY <1>2, <2>2, <2>3
<1> HIDE DEF d
<1>5. i \in 0..j-1 /\ (i # 0 => s[i] = "/") /\ \A k \in i+1..j-1 : s[k] # "/"
  <2>1. /\ i \in 0..Len(d) /\ (i # 0 => d[i] = "/")
        /\ \A k \in i+1..Len(d) : d[k] # "/"
    BY <1>4, LastSlashIs
  <2> QED BY <1>2, <1>4, <2>1
<1>6. basename(dirname(s)) = SubSeq(d, i + 1, j - 1)
  BY <1>3, <1>4 DEF basename
<1> HIDE DEF i
<1>7. i \in 0..Len(s) /\ j \in 0..Len(s)
  BY <1>1, <1>2, <1>5
<1>8. Directory(s, i, j)
  <2>1. \A k \in i+1..Len(s) : k \in i+1..j-1 \/ k = j \/ k \in j+1..Len(s)
    BY <1>1, <1>2, <1>5
  <2> QED BY <1>2, <1>5, <2>1 DEF Directory
<1>9. SubSeq(d, i + 1, j - 1) = DirName(s, i, j)
  <2>1. CASE i = j - 1
    <3>1. SubSeq(d, i + 1, j - 1) = <<>> /\ SubSeq(s, i + 1, j - 1) = <<>>
      BY <1>2, <2>1, SubSeqEmpty
    <3> QED BY <3>1 DEF DirName
  <2>2. CASE i # j - 1
    <3>1. /\ 1 \in 1..Len(s) /\ j - 1 \in 1..Len(s) /\ i + 1 \in 1..(j-1)-1+1
          /\ j - 1 \in 1..(j-1)-1+1 /\ 1 + (i + 1) - 1 = i + 1 /\ 1 + (j - 1) - 1 = j - 1
      BY <1>1, <1>2, <1>5, <2>2
    <3> DEFINE k == i + 1
               m == j - 1
    <3>2. SubSeq(SubSeq(s, 1, m), k, m) = SubSeq(s, 1 + k - 1, 1 + m - 1)
      <4> HIDE DEF k, m
      <4> QED BY <3>1, SubSeqOfSubSeq DEF k, m
    <3> QED BY <3>1, <3>2 DEF DirName, d
  <2> QED BY <2>1, <2>2
<1>10. DirName(s, i, j) \in Seq(D)
  <2>1. i + 1 \in Int /\ j - 1 \in Int /\ \A k \in i+1..j-1 : s[k] \in D
    BY <1>1, <1>2, <1>5
  <2> QED BY <2>1, SubSeqProperties DEF DirName
<1>11. ASSUME NEW k \in 0..Len(s), NEW m \in 0..Len(s), Directory(s, k, m)
       PROVE  k = i /\ m = j
  <2>1. /\ k < m /\ s[m] = "/" /\ (\A n \in k+1..Len(s) : s[n] = "/" => n = m)
        /\ (k > 0 => s[k] = "/")
    BY <1>11 DEF Directory
  <2>2. m = j
    <3>1. ~(m > j)
      BY <1>1, <1>2, <2>1
    <3>2. ~(m < j)
      BY <1>1, <1>2, <2>1
    <3> QED BY <1>2, <3>1, <3>2
  <2>3. ~(k > i)
    BY <1>2, <1>5, <2>1, <2>2
  <2>4. ~(k < i)
    BY <1>1, <1>2, <1>5, <2>1, <2>2
  <2> QED BY <1>5, <2>2, <2>3, <2>4
<1> QED BY <1>6, <1>7, <1>8, <1>9, <1>10, <1>11

LEMMA PasswordIs ==
  ASSUME text \in Seq(Chars)
  PROVE  PasswordFromDirectory
<1> DEFINE password == set_password_from_executable(text)
           dir == basename(dirname(text))
           N == 0..Len(text)
           Rest(name) == SubSeq(name, Len(APP_DIR_PREFIX) + 1, Len(name))
<1>1. password = IF Prefixed(dir) THEN Rest(dir) ELSE NULL
  BY DEF set_password_from_executable, Prefixed
<1> SUFFICES ASSUME Len(text) < MAXPATHLEN
             PROVE  IF password = NULL
                    THEN \A i, j \in N : Directory(text, i, j) => ~Prefixed(DirName(text, i, j))
                    ELSE \E i, j \in N :
                           /\ Directory(text, i, j) /\ Prefixed(DirName(text, i, j))
                           /\ password = Rest(DirName(text, i, j))
  BY DEF PasswordFromDirectory, Directory, DirName, Prefixed
<1>2. CASE LastSlash(Copied(text)) = 0
  <2>1. dir = <<>> /\ \A i, j \in N : ~Directory(text, i, j)
    BY <1>2, NoDirectory
  <2>2. ~Prefixed(<<>>)
    <3>1. Len(APP_DIR_PREFIX) \in Nat /\ Len(APP_DIR_PREFIX) # 0
      BY PrefixAssumption, LenProperties, EmptySeq
    <3>2. Len(InLower(<<>>)) = 0
      BY DEF InLower
    <3> QED BY <3>1, <3>2 DEF Prefixed, IsPrefix
  <2> HIDE DEF password, dir
  <2> QED BY <1>1, <2>1, <2>2
<1>3. CASE LastSlash(Copied(text)) # 0
  <2>1. PICK i \in N, j \in N :
          /\ Directory(text, i, j) /\ dir = DirName(text, i, j)
          /\ DirName(text, i, j) \in Seq(Chars)
          /\ \A k, m \in N : Directory(text, k, m) => k = i /\ m = j
    BY <1>3, OneDirectory
  <2>2. Rest(dir) # NULL
    <3>1. dir \in Seq(Chars)
      BY <2>1
    <3> HIDE DEF dir
    <3>2. Len(dir) \in Nat /\ Len(APP_DIR_PREFIX) \in Nat
      BY <3>1, PrefixAssumption, LenProperties
    <3>3. \A k \in Len(APP_DIR_PREFIX)+1..Len(dir) : dir[k] \in Chars
      BY <3>1, <3>2, ElementOfSeq
    <3>4. Rest(dir) \in Seq(Chars)
      <4> DEFINE from == Len(APP_DIR_PREFIX) + 1
                 to == Len(dir)
      <4>1. from \in Int /\ to \in Int /\ \A k \in from..to : dir[k] \in Chars
        BY <3>2, <3>3
      <4> HIDE DEF from, to
      <4>2. SubSeq(dir, from, to) \in Seq(Chars)
        BY <4>1, SubSeqProperties
      <4> QED BY <4>2 DEF from, to
    <3> QED BY <3>4, PrefixAssumption
  <2> HIDE DEF password, dir, Rest, N
  <2>3. CASE Prefixed(dir)
    BY <1>1, <2>1, <2>2, <2>3
  <2>4. CASE ~Prefixed(dir)
    BY <1>1, <2>1, <2>4
  <2> QED BY <2>3, <2>4
<1> QED BY <1>2, <1>3

-----------------------------------------------------------------------------
(* The theorems                                                            *)

IInv == text \in Seq(Chars)

LEMMA Invariance == Spec => []IInv
<1>1. Init => IInv
  BY DEF Init, IInv
<1>2. IInv /\ [Next]_text => IInv'
  BY DEF IInv, Next, Type, Complete
<1> QED BY <1>1, <1>2, PTL DEF Spec

\* ftp.c:115, split: what every handler and both parsers of arguments get is the first
\* words and what is left, for lines of any length over any characters.
THEOREM SplitIsCorrect == Spec => []SplitCorrect
<1>1. IInv => SplitCorrect
  <2> SUFFICES ASSUME IInv, NEW maxsplit \in 0..2
               PROVE  LET result == split(text, " ", maxsplit) IN
                      /\ DOMAIN result = 1..maxsplit + 1
                      /\ \A b \in Beginnings(text, " ") :
                           LET i == Ordinal(text, " ", b) IN
                           /\ i <= maxsplit => result[i] = WordAt(text, " ", b)
                           /\ i = maxsplit + 1 => result[i] = Stripped(text, " ", b)
                      /\ \A i \in 1..maxsplit + 1 :
                           i > Ordinal(text, " ", Len(text)) => result[i] = <<>>
    BY DEF SplitCorrect
  <2>1. maxsplit \in Nat /\ text \in Seq(Chars)
    BY DEF IInv
  <2> DEFINE sep == " "
  <2> HIDE DEF sep
  <2>2. LET result == split(text, sep, maxsplit) IN
        /\ DOMAIN result = 1..maxsplit + 1
        /\ \A b \in Beginnings(text, sep) :
             LET i == Ordinal(text, sep, b) IN
             /\ i <= maxsplit => result[i] = WordAt(text, sep, b)
             /\ i = maxsplit + 1 => result[i] = Stripped(text, sep, b)
        /\ \A i \in 1..maxsplit + 1 :
             i > Ordinal(text, sep, Len(text)) => result[i] = <<>>
    BY <2>1, SplitIs
  <2> QED BY <2>2 DEF sep
<1> QED BY <1>1, Invariance, PTL

\* ftpii.c, set_password_from_executable: the password is what follows "ftpii_" in the
\* name of the program's directory, and no password is set if it does not begin so.
THEOREM PasswordIsFromDirectory == Spec => []PasswordFromDirectory
<1>1. IInv => PasswordFromDirectory
  BY PasswordIs DEF IInv
<1> QED BY <1>1, Invariance, PTL

=============================================================================
