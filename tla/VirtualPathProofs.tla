------------------------- MODULE VirtualPathProofs -------------------------
(***************************************************************************)
(* Theorems about VirtualPath, for all paths over all characters, any      *)
(* table of partitions and any length of the array.                        *)
(***************************************************************************)
EXTENDS VirtualPath, Induction, SequenceTheorems

-----------------------------------------------------------------------------
(* The C library                                                           *)

\* strrchr finds the last slash.
LEMMA LastSlashIs ==
  ASSUME NEW path, Len(path) \in Nat, NEW k \in 1..Len(path), path[k] = "/",
         \A i \in k+1..Len(path) : path[i] # "/"
  PROVE  LastSlash(path) = k
<1> DEFINE I == {i \in 1..Len(path) : path[i] = "/"}
<1>1. LastSlash(path) = IF I # {} THEN Max(I) ELSE 0
  BY DEF LastSlash, SelectLastInSeq
<1>2. k \in I /\ \A i \in I : k >= i
  OBVIOUS
<1>3. Max(I) = k
  BY <1>2 DEF Max
<1> QED BY <1>1, <1>2, <1>3

LEMMA NoSlash ==
  ASSUME NEW path, \A i \in 1..Len(path) : path[i] # "/"
  PROVE  LastSlash(path) = 0
<1> DEFINE I == {i \in 1..Len(path) : path[i] = "/"}
<1>1. LastSlash(path) = IF I # {} THEN Max(I) ELSE 0
  BY DEF LastSlash, SelectLastInSeq
<1>2. I = {}
  OBVIOUS
<1> QED BY <1>1, <1>2


LEMMA PrefixOfConcat ==
  ASSUME NEW S, NEW s \in Seq(S), NEW t \in Seq(S)
  PROVE  SubSeq(s \o t, 1, Len(s)) = s
<1>1. Len(s) \in Nat /\ Len(t) \in Nat
  BY LenProperties
<1>2. CASE s = <<>>
  BY <1>2, SubSeqEmpty
<1>3. CASE s # <<>>
  <2>1. 1 \in 1..Len(s) /\ Len(s) \in 1..Len(s)
    BY <1>1, <1>3, EmptySeq
  <2> QED BY <2>1, SubSeqOfConcat1, SubSeqFull
<1> QED BY <1>2, <1>3

LEMMA RestOfConcat ==
  ASSUME NEW S, NEW s \in Seq(S), NEW t \in Seq(S)
  PROVE  SubSeq(s \o t, Len(s) + 1, Len(s \o t)) = t
<1>1. Len(s) \in Nat /\ Len(t) \in Nat /\ Len(s \o t) = Len(s) + Len(t)
  BY LenProperties, ConcatProperties
<1>2. CASE t = <<>>
  <2>1. Len(s \o t) < Len(s) + 1
    BY <1>1, <1>2
  <2> QED BY <1>1, <1>2, <2>1, SubSeqEmpty
<1>3. CASE t # <<>>
  <2>1. /\ Len(s) + 1 \in Len(s) + 1..Len(s) + Len(t)
        /\ Len(s) + Len(t) \in Len(s) + 1..Len(s) + Len(t)
        /\ (Len(s) + 1) - Len(s) = 1 /\ (Len(s) + Len(t)) - Len(s) = Len(t)
    BY <1>1, <1>3, EmptySeq
  <2>2. SubSeq(s \o t, Len(s) + 1, Len(s) + Len(t)) = SubSeq(t, 1, Len(t))
    BY <2>1, SubSeqOfConcat2
  <2> QED BY <1>1, <2>2, SubSeqFull
<1> QED BY <1>2, <1>3

-----------------------------------------------------------------------------
(* Reading a path over the characters D                                    *)

Alphabet(D) == {"/", "."} \subseteq D /\ End \notin D

Word(D) == Seq(D \ {"/"})
Name(D) == Word(D) \ {<<>>, <<".">>, DotDot}

States(D) == [names : Seq(Name(D)), word : Word(D)]

Fresh(names) == [names |-> names, word |-> <<>>]

LEMMA EnterNames ==
  ASSUME NEW D, NEW names \in Seq(Name(D)), NEW word \in Word(D)
  PROVE  Enter(names, word) \in Seq(Name(D))
<1>1. CASE word \in {<<>>, <<".">>}
  BY <1>1 DEF Enter
<1>2. CASE word = DotDot
  <2>1. word \notin {<<>>, <<".">>}
    BY <1>2 DEF DotDot
  <2>2. CASE names = <<>>
    BY <1>2, <2>1, <2>2 DEF Enter
  <2>3. CASE names # <<>>
    <3>1. PICK rest \in Seq(Name(D)), last \in Name(D) : names = Append(rest, last)
      BY <2>3, SequenceEmptyOrAppend
    <3>2. Front(names) = rest
      BY <3>1 DEF Front
    <3> QED BY <1>2, <2>1, <2>3, <3>2 DEF Enter
  <2> QED BY <2>2, <2>3
<1>3. CASE word \notin {<<>>, <<".">>, DotDot}
  <2>1. word \in Name(D)
    BY <1>3 DEF Name
  <2>2. Enter(names, word) = Append(names, word)
    BY <1>3 DEF Enter
  <2> QED BY <2>1, <2>2, AppendProperties
<1> QED BY <1>1, <1>2, <1>3

LEMMA ReadCharStates ==
  ASSUME NEW D, NEW r \in States(D), NEW c \in D
  PROVE  ReadChar(r, c) \in States(D)
<1>1. r.names \in Seq(Name(D)) /\ r.word \in Word(D) /\ <<>> \in Word(D)
  BY DEF States, Word
<1>2. CASE c = "/"
  BY <1>1, <1>2, EnterNames DEF ReadChar, States
<1>3. CASE c # "/"
  <2>1. Append(r.word, c) \in Word(D)
    BY <1>1, <1>3, AppendProperties DEF Word
  <2> QED BY <1>1, <1>3, <2>1 DEF ReadChar, States
<1> QED BY <1>2, <1>3

\* What the recursive definition says.
LEMMA ReadingIs ==
  ASSUME NEW D, NEW names \in Seq(Name(D)), NEW path \in Seq(D)
  PROVE  /\ Reading(names, path) \in [0..Len(path) -> States(D)]
         /\ Reading(names, path)[0] = Fresh(names)
         /\ \A n \in 1..Len(path) :
              Reading(names, path)[n] = ReadChar(Reading(names, path)[n-1], path[n])
<1> DEFINE S == States(D)
           step == [p \in S \X D |-> ReadChar(p[1], p[2])]
<1>1. Len(path) \in Nat /\ \A n \in 1..Len(path) : path[n] \in D
  BY LenProperties, ElementOfSeq
<1>2. Fresh(names) \in S
  BY DEF Fresh, States, Word
<1>3. step \in [S \X D -> S]
  BY ReadCharStates
<1>4. PICK r \in [0..Len(path) -> S] : IsRun(r, Fresh(names), step, path, Len(path))
  <2> HIDE DEF S, step
  <2> QED BY <1>1, <1>2, <1>3, RunExists, ZenonT(60)
<1>5. r = [n \in 0..Len(path) |-> IF n = 0 THEN Fresh(names) ELSE ReadChar(r[n-1], path[n])]
  <2>1. ASSUME NEW n \in 0..Len(path), n # 0
        PROVE  step[<<r[n-1], path[n]>>] = ReadChar(r[n-1], path[n])
    <3>1. n \in 1..Len(path) /\ n-1 \in 0..Len(path)
      BY <1>1, <2>1
    <3>2. r[n-1] \in S /\ path[n] \in D
      BY <1>1, <1>4, <3>1
    <3> HIDE DEF S
    <3> QED BY <3>2
  <2> HIDE DEF step, S
  <2> QED BY <1>4, <2>1 DEF IsRun
<1> DEFINE q == Reading(names, path)
<1>6. q = [n \in 0..Len(path) |-> IF n = 0 THEN Fresh(names) ELSE ReadChar(q[n-1], path[n])]
  <2> HIDE DEF S, step
  <2> QED BY <1>5 DEF Reading, Fresh
<1> HIDE DEF q
<1>7. q[0] = Fresh(names) /\ \A n \in 1..Len(path) : q[n] = ReadChar(q[n-1], path[n])
  BY <1>1, <1>6
<1>8. \A n \in 0..Len(path) : q[n] \in S
  <2> DEFINE T == {n \in 0..Len(path) : q[n] \in S}
  <2>1. 0 \in T
    BY <1>1, <1>2, <1>7
  <2>2. ASSUME NEW n \in 1..Len(path), n - 1 \in T PROVE n \in T
    <3>1. q[n-1] \in S /\ path[n] \in D
      BY <1>1, <2>2
    <3>2. q[n] \in S
      BY <1>7, <3>1, ReadCharStates
    <3> QED BY <1>1, <3>2
  <2> HIDE DEF T
  <2>3. 0..Len(path) \subseteq T
    BY <1>1, <2>1, <2>2, BoundedInduction
  <2> QED BY <2>3 DEF T
<1>9. q \in [0..Len(path) -> S]
  <2> HIDE DEF S
  <2> QED BY <1>6, <1>8
<1> QED BY <1>7, <1>9 DEF q

\* Reading a path begins like reading what it begins with.
LEMMA ReadingPrefix ==
  ASSUME NEW D, NEW names \in Seq(Name(D)), NEW path \in Seq(D), NEW longer \in Seq(D),
         Len(path) <= Len(longer), \A i \in 1..Len(path) : longer[i] = path[i]
  PROVE  \A i \in 0..Len(path) : Reading(names, longer)[i] = Reading(names, path)[i]
<1> DEFINE r == Reading(names, path)
           q == Reading(names, longer)
           T == {i \in 0..Len(path) : q[i] = r[i]}
<1>1. /\ r[0] = Fresh(names) /\ \A n \in 1..Len(path) : r[n] = ReadChar(r[n-1], path[n])
      /\ q[0] = Fresh(names) /\ \A n \in 1..Len(longer) : q[n] = ReadChar(q[n-1], longer[n])
  BY ReadingIs
<1> HIDE DEF r, q
<1>2. Len(path) \in Nat /\ Len(longer) \in Nat
  BY LenProperties
<1>3. 0 \in T
  BY <1>1, <1>2
<1>4. ASSUME NEW i \in 1..Len(path), i - 1 \in T PROVE i \in T
  <2>1. i \in 1..Len(longer) /\ i \in 0..Len(path) /\ q[i-1] = r[i-1] /\ longer[i] = path[i]
    BY <1>2, <1>4
  <2> QED BY <1>1, <2>1
<1> HIDE DEF T
<1>5. 0..Len(path) \subseteq T
  BY <1>2, <1>3, <1>4, BoundedInduction
<1> QED BY <1>5 DEF T, r, q

\* Reading a path leads from names to to, if the path ends with a slash.
LeadsTo(names, path, to) == Reading(names, path)[Len(path)] = Fresh(to)

\* What follows a slash is read as it would be from there.
LEMMA ReadingOn ==
  ASSUME NEW D, NEW names \in Seq(Name(D)), NEW to \in Seq(Name(D)),
         NEW p1 \in Seq(D), NEW p2 \in Seq(D), LeadsTo(names, p1, to)
  PROVE  /\ Len(p1 \o p2) = Len(p1) + Len(p2)
         /\ \A i \in 0..Len(p2) : Reading(names, p1 \o p2)[Len(p1) + i] = Reading(to, p2)[i]
<1> DEFINE q == Reading(names, p1 \o p2)
           r == Reading(to, p2)
           T == {i \in 0..Len(p2) : q[Len(p1) + i] = r[i]}
<1>1. /\ p1 \o p2 \in Seq(D) /\ Len(p1 \o p2) = Len(p1) + Len(p2)
      /\ \A i \in 1..Len(p1) + Len(p2) : (p1 \o p2)[i] =
            IF i <= Len(p1) THEN p1[i] ELSE p2[i - Len(p1)]
      /\ Len(p1) \in Nat /\ Len(p2) \in Nat
  BY ConcatProperties, LenProperties
<1>2. /\ \A n \in 1..Len(p1) + Len(p2) : q[n] = ReadChar(q[n-1], (p1 \o p2)[n])
      /\ r[0] = Fresh(to) /\ \A n \in 1..Len(p2) : r[n] = ReadChar(r[n-1], p2[n])
  <2>1. \A n \in 1..Len(p1 \o p2) : q[n] = ReadChar(q[n-1], (p1 \o p2)[n])
    BY <1>1, ReadingIs
  <2>2. r[0] = Fresh(to) /\ \A n \in 1..Len(p2) : r[n] = ReadChar(r[n-1], p2[n])
    BY ReadingIs
  <2> QED BY <1>1, <2>1, <2>2
<1>3. q[Len(p1)] = Fresh(to)
  <2>1. \A i \in 1..Len(p1) : (p1 \o p2)[i] = p1[i]
    BY <1>1
  <2>2. \A i \in 0..Len(p1) : q[i] = Reading(names, p1)[i]
    <3>1. Len(p1) <= Len(p1 \o p2)
      BY <1>1
    <3>2. \A i \in 0..Len(p1) : Reading(names, p1 \o p2)[i] = Reading(names, p1)[i]
      <4> HIDE DEF q
      <4> QED BY <1>1, <2>1, <3>1, ReadingPrefix
    <3> QED BY <3>2
  <2>3. Len(p1) \in 0..Len(p1)
    BY <1>1
  <2> QED BY <2>2, <2>3 DEF LeadsTo
<1> HIDE DEF q, r
<1>4. 0 \in T
  BY <1>1, <1>2, <1>3
<1>5. ASSUME NEW i \in 1..Len(p2), i - 1 \in T PROVE i \in T
  <2>1. /\ Len(p1) + i \in 1..Len(p1) + Len(p2) /\ (Len(p1) + i) - 1 = Len(p1) + (i - 1)
        /\ ~(Len(p1) + i <= Len(p1)) /\ (Len(p1) + i) - Len(p1) = i /\ i \in 0..Len(p2)
    BY <1>1
  <2>2. (p1 \o p2)[Len(p1) + i] = p2[i]
    BY <1>1, <2>1
  <2>3. q[Len(p1) + (i - 1)] = r[i-1]
    BY <1>5
  <2>4. q[Len(p1) + i] = ReadChar(q[Len(p1) + (i - 1)], p2[i])
    BY <1>2, <2>1, <2>2
  <2> QED BY <1>2, <2>1, <2>3, <2>4
<1> HIDE DEF T
<1>6. 0..Len(p2) \subseteq T
  BY <1>1, <1>4, <1>5, BoundedInduction
<1> QED BY <1>1, <1>6 DEF T, q, r

\* So steps on the way are put together.
LEMMA LeadsOn ==
  ASSUME NEW D, NEW names \in Seq(Name(D)), NEW between \in Seq(Name(D)), NEW to \in Seq(Name(D)),
         NEW p1 \in Seq(D), NEW p2 \in Seq(D), LeadsTo(names, p1, between), LeadsTo(between, p2, to)
  PROVE  LeadsTo(names, p1 \o p2, to)
<1>1. Len(p2) \in 0..Len(p2)
  BY LenProperties
<1>2. /\ Len(p1 \o p2) = Len(p1) + Len(p2)
      /\ Reading(names, p1 \o p2)[Len(p1) + Len(p2)] = Reading(between, p2)[Len(p2)]
  BY <1>1, ReadingOn
<1> QED BY <1>2 DEF LeadsTo

LEMMA ReadLetter ==
  ASSUME NEW names, NEW word, NEW c, c # "/"
  PROVE  ReadChar([names |-> names, word |-> word], c) = [names |-> names, word |-> Append(word, c)]
BY DEF ReadChar

\* A word, and the slash behind it.
LEMMA ReadWord ==
  ASSUME NEW D, Alphabet(D), NEW names \in Seq(Name(D)), NEW word \in Word(D)
  PROVE  /\ Append(word, "/") \in Seq(D)
         /\ LeadsTo(names, Append(word, "/"), Enter(names, word))
<1> DEFINE path == Append(word, "/")
           r == Reading(names, path)
           T == {i \in 0..Len(word) : r[i] = [names |-> names, word |-> SubSeq(word, 1, i)]}
<1>1. /\ word \in Seq(D) /\ Len(word) \in Nat
      /\ \A i \in 1..Len(word) : word[i] \in D /\ word[i] # "/"
  BY LenProperties, ElementOfSeq, SeqMonotonic DEF Word
<1>2. /\ path \in Seq(D) /\ Len(path) = Len(word) + 1 /\ path[Len(word) + 1] = "/"
      /\ \A i \in 1..Len(word) : path[i] = word[i]
  BY <1>1, AppendProperties DEF Alphabet
<1>3. r[0] = Fresh(names) /\ \A n \in 1..Len(word) + 1 : r[n] = ReadChar(r[n-1], path[n])
  <2>1. r[0] = Fresh(names) /\ \A n \in 1..Len(path) : r[n] = ReadChar(r[n-1], path[n])
    BY <1>2, ReadingIs
  <2> QED BY <1>2, <2>1
<1> HIDE DEF path, r
<1>4. 0 \in T
  <2>1. SubSeq(word, 1, 0) = <<>>
    BY SubSeqEmpty
  <2> QED BY <1>1, <1>3, <2>1 DEF Fresh
<1>5. ASSUME NEW i \in 1..Len(word), i - 1 \in T PROVE i \in T
  <2>1. r[i] = ReadChar(r[i-1], word[i]) /\ i \in 0..Len(word)
    BY <1>1, <1>2, <1>3
  <2>2. r[i] = [names |-> names, word |-> Append(SubSeq(word, 1, i-1), word[i])]
    <3>1. r[i-1] = [names |-> names, word |-> SubSeq(word, 1, i-1)] /\ word[i] # "/"
      BY <1>1, <1>5
    <3> QED BY <2>1, <3>1, ReadLetter
  <2>3. Append(SubSeq(word, 1, i-1), word[i]) = SubSeq(word, 1, i)
    <3>1. SubSeq(word, 1, i) = SubSeq(word, 1, i-1) \o <<word[i]>>
      BY <1>1, SubSeqRecursiveSecond
    <3>2. SubSeq(word, 1, i-1) \in Seq(D)
      <4>1. \A j \in 1..i-1 : word[j] \in D
        BY <1>1
      <4> QED BY <1>1, <4>1, SubSeqProperties
    <3> QED BY <1>1, <3>1, <3>2, AppendIsConcat
  <2> QED BY <2>1, <2>2, <2>3
<1> HIDE DEF T
<1>6. 0..Len(word) \subseteq T
  BY <1>1, <1>4, <1>5, BoundedInduction
<1>7. r[Len(word)] = [names |-> names, word |-> word]
  <2>1. Len(word) \in 0..Len(word)
    BY <1>1
  <2>2. SubSeq(word, 1, Len(word)) = word
    BY <1>1, SubSeqFull
  <2> QED BY <1>6, <2>1, <2>2 DEF T
<1>8. r[Len(word) + 1] = ReadChar(r[Len(word)], "/")
  <2>1. Len(word) + 1 \in 1..Len(word) + 1 /\ (Len(word) + 1) - 1 = Len(word)
    BY <1>1
  <2> QED BY <1>2, <1>3, <2>1
<1>9. r[Len(word) + 1] = Fresh(Enter(names, word))
  BY <1>7, <1>8 DEF ReadChar, Fresh
<1> QED BY <1>2, <1>9 DEF LeadsTo, r, path

-----------------------------------------------------------------------------
(* Names as paths                                                          *)

Slashed(path, name) == path \o Root \o name

\* What the recursive definition says.
LEMMA SpellingIs ==
  ASSUME NEW D, Alphabet(D), NEW names \in Seq(Name(D))
  PROVE  \E r \in [0..Len(names) -> Seq(D)] :
           /\ r[0] = <<>> /\ \A n \in 1..Len(names) : r[n] = Slashed(r[n-1], names[n])
           /\ Spelled(names) = r[Len(names)]
<1> DEFINE S == Seq(D)
           X == Name(D)
           step == [p \in S \X X |-> Slashed(p[1], p[2])]
<1>1. Len(names) \in Nat /\ \A n \in 1..Len(names) : names[n] \in X
  BY LenProperties, ElementOfSeq
<1>2. <<>> \in S /\ Root \in S
  BY DEF Alphabet, Root
<1>3. ASSUME NEW s \in S, NEW w \in X PROVE Slashed(s, w) \in S
  <2>1. w \in S
    BY SeqMonotonic DEF Name, Word
  <2>2. s \o Root \in S
    BY <1>2, ConcatProperties
  <2> QED BY <2>1, <2>2, ConcatProperties DEF Slashed
<1>4. step \in [S \X X -> S]
  BY <1>3
<1>5. PICK r \in [0..Len(names) -> S] : IsRun(r, <<>>, step, names, Len(names))
  <2> HIDE DEF S, X, step
  <2> QED BY <1>1, <1>2, <1>4, RunExists, ZenonT(60)
<1>6. r = [n \in 0..Len(names) |-> IF n = 0 THEN <<>> ELSE Slashed(r[n-1], names[n])]
  <2>1. ASSUME NEW n \in 0..Len(names), n # 0
        PROVE  step[<<r[n-1], names[n]>>] = Slashed(r[n-1], names[n])
    <3>1. n \in 1..Len(names) /\ n-1 \in 0..Len(names)
      BY <1>1, <2>1
    <3>2. r[n-1] \in S /\ names[n] \in X
      BY <1>1, <1>5, <3>1
    <3> HIDE DEF S, X
    <3> QED BY <3>2
  <2> HIDE DEF step, S, X
  <2> QED BY <1>5, <2>1 DEF IsRun
<1> DEFINE at == CHOOSE q : q = [n \in 0..Len(names) |-> IF n = 0 THEN <<>> ELSE Slashed(q[n-1], names[n])]
<1>7. Spelled(names) = at[Len(names)]
  BY DEF Spelled, Slashed
<1>8. at = [n \in 0..Len(names) |-> IF n = 0 THEN <<>> ELSE Slashed(at[n-1], names[n])]
  <2> HIDE DEF S, X, step
  <2> QED BY <1>6
<1> HIDE DEF at
<1>9. at[0] = <<>> /\ \A n \in 1..Len(names) : at[n] = Slashed(at[n-1], names[n])
  <2>1. ASSUME NEW n \in 1..Len(names) PROVE at[n] = Slashed(at[n-1], names[n])
    <3>1. n \in 0..Len(names) /\ n # 0
      BY <1>1
    <3> QED BY <1>8, <3>1
  <2>2. 0 \in 0..Len(names)
    BY <1>1
  <2> QED BY <1>8, <2>1, <2>2
<1>10. \A n \in 0..Len(names) : at[n] \in S
  <2> DEFINE T == {n \in 0..Len(names) : at[n] \in S}
  <2>1. 0 \in T
    <3> HIDE DEF S
    <3> QED BY <1>1, <1>2, <1>9
  <2>2. ASSUME NEW n \in 1..Len(names), n - 1 \in T PROVE n \in T
    <3>1. at[n-1] \in S /\ names[n] \in X /\ n \in 0..Len(names)
      BY <1>1, <2>2
    <3> HIDE DEF S, X
    <3>2. at[n] \in S
      BY <1>3, <1>9, <3>1
    <3> QED BY <3>1, <3>2
  <2> HIDE DEF T
  <2>3. 0..Len(names) \subseteq T
    BY <1>1, <2>1, <2>2, BoundedInduction
  <2> QED BY <2>3 DEF T
<1>11. at \in [0..Len(names) -> S]
  <2> HIDE DEF S
  <2> QED BY <1>8, <1>10
<1> QED BY <1>7, <1>9, <1>11

LEMMA SpelledEmpty == Spelled(<<>>) = <<>>
<1> DEFINE D == {"/", "."}
<1>1. Alphabet(D) /\ <<>> \in Seq(Name(D)) /\ Len(<<>>) = 0
  BY DEF Alphabet, End
<1> HIDE DEF D
<1>2. PICK r \in [0..Len(<<>>) -> Seq(D)] : r[0] = <<>> /\ Spelled(<<>>) = r[Len(<<>>)]
  BY <1>1, SpellingIs
<1> QED BY <1>1, <1>2

LEMMA SpelledSeq ==
  ASSUME NEW D, Alphabet(D), NEW names \in Seq(Name(D))
  PROVE  Spelled(names) \in Seq(D)
<1>1. Len(names) \in 0..Len(names)
  BY LenProperties
<1>2. PICK r \in [0..Len(names) -> Seq(D)] : Spelled(names) = r[Len(names)]
  BY SpellingIs
<1> QED BY <1>1, <1>2

LEMMA SpelledAppend ==
  ASSUME NEW D, Alphabet(D), NEW names \in Seq(Name(D)), NEW name \in Name(D)
  PROVE  Spelled(Append(names, name)) = Spelled(names) \o Root \o name
<1> DEFINE more == Append(names, name)
<1>1. /\ more \in Seq(Name(D)) /\ Len(more) = Len(names) + 1 /\ more[Len(names) + 1] = name
      /\ \A n \in 1..Len(names) : more[n] = names[n]
      /\ Len(names) \in Nat
  BY AppendProperties, LenProperties
<1> HIDE DEF more
<1>2. PICK r : /\ r[0] = <<>> /\ \A n \in 1..Len(names) : r[n] = Slashed(r[n-1], names[n])
               /\ Spelled(names) = r[Len(names)]
  BY SpellingIs
<1>3. PICK q : /\ q[0] = <<>> /\ \A n \in 1..Len(more) : q[n] = Slashed(q[n-1], more[n])
               /\ Spelled(more) = q[Len(more)]
  BY <1>1, SpellingIs
<1> DEFINE T == {n \in 0..Len(names) : q[n] = r[n]}
<1>4. 0 \in T
  BY <1>1, <1>2, <1>3
<1>5. ASSUME NEW n \in 1..Len(names), n - 1 \in T PROVE n \in T
  <2>1. n \in 1..Len(more) /\ n \in 0..Len(names) /\ q[n-1] = r[n-1] /\ more[n] = names[n]
    BY <1>1, <1>5
  <2> QED BY <1>2, <1>3, <2>1
<1> HIDE DEF T
<1>6. 0..Len(names) \subseteq T
  BY <1>1, <1>4, <1>5, BoundedInduction
<1>7. q[Len(names)] = r[Len(names)]
  <2>1. Len(names) \in 0..Len(names)
    BY <1>1
  <2> QED BY <1>6, <2>1 DEF T
<1>8. q[Len(more)] = Slashed(q[Len(names)], name)
  <2>1. Len(more) \in 1..Len(more) /\ Len(more) - 1 = Len(names)
    BY <1>1
  <2> QED BY <1>1, <1>3, <2>1
<1> QED BY <1>2, <1>3, <1>7, <1>8 DEF more, Slashed

\* The working directory with these names.
Dir(names) == Spelled(names) \o Root

LEMMA DirAppend ==
  ASSUME NEW D, Alphabet(D), NEW names \in Seq(Name(D)), NEW name \in Name(D)
  PROVE  Dir(Append(names, name)) = Dir(names) \o Append(name, "/")
<1>1. Spelled(names) \in Seq(D) /\ Root \in Seq(D) /\ name \in Seq(D) /\ "/" \in D
  <2>1. name \in Seq(D)
    BY SeqMonotonic DEF Name, Word
  <2> QED BY <2>1, SpelledSeq DEF Alphabet, Root
<1>2. Dir(names) \in Seq(D)
  BY <1>1, ConcatProperties DEF Dir
<1>3. Dir(Append(names, name)) = (Dir(names) \o name) \o Root
  BY SpelledAppend DEF Dir
<1>4. (Dir(names) \o name) \o Root = Dir(names) \o (name \o Root)
  BY <1>1, <1>2, ConcatAssociative
<1>5. name \o Root = Append(name, "/")
  BY <1>1, AppendIsConcat DEF Root
<1> QED BY <1>3, <1>4, <1>5

LEMMA DirSeq ==
  ASSUME NEW D, Alphabet(D), NEW names \in Seq(Name(D))
  PROVE  Dir(names) \in Seq(D) /\ Dir(names) # <<>> /\ Len(Dir(names)) = Len(Spelled(names)) + 1
<1>1. Spelled(names) \in Seq(D) /\ Root \in Seq(D) /\ Len(Root) = 1
  BY SpelledSeq DEF Alphabet, Root
<1>2. Dir(names) \in Seq(D) /\ Len(Dir(names)) = Len(Spelled(names)) + 1 /\ Len(Spelled(names)) \in Nat
  BY <1>1, ConcatProperties, LenProperties, ZenonT(60) DEF Dir
<1> QED BY <1>2

\* Entering a name appends it.
LEMMA EnterName ==
  ASSUME NEW D, NEW names, NEW name \in Name(D)
  PROVE  Enter(names, name) = Append(names, name)
BY DEF Enter, Name

\* A directory is read as its names.
LEMMA DirLeads ==
  ASSUME NEW D, Alphabet(D), NEW names \in Seq(Name(D))
  PROVE  LeadsTo(<<>>, Dir(names), names)
<1> DEFINE T == {n \in Seq(Name(D)) : LeadsTo(<<>>, Dir(n), n)}
<1>1. <<>> \in T
  <2>1. <<>> \in Word(D) /\ <<>> \in Seq(Name(D)) /\ Enter(<<>>, <<>>) = <<>>
    BY DEF Word, Enter
  <2>2. LeadsTo(<<>>, Append(<<>>, "/"), <<>>)
    BY <2>1, ReadWord
  <2>3. Dir(<<>>) = Append(<<>>, "/")
    <3>1. <<>> \o Root = Root
      BY DEF Root
    <3>2. Append(<<>>, "/") = Root
      BY DEF Root
    <3> QED BY <3>1, <3>2, SpelledEmpty DEF Dir
  <2> QED BY <2>1, <2>2, <2>3
<1>2. ASSUME NEW n \in Seq(Name(D)), NEW name \in Name(D), n \in T PROVE Append(n, name) \in T
  <2>1. name \in Word(D) /\ Append(n, name) \in Seq(Name(D)) /\ <<>> \in Seq(Name(D))
    BY AppendProperties DEF Name
  <2>2. Append(name, "/") \in Seq(D) /\ LeadsTo(n, Append(name, "/"), Append(n, name))
    BY <2>1, ReadWord, EnterName
  <2>3. LeadsTo(<<>>, Dir(n) \o Append(name, "/"), Append(n, name))
    BY <1>2, <2>1, <2>2, DirSeq, LeadsOn
  <2> QED BY <2>1, <2>3, DirAppend
<1> HIDE DEF T
<1>3. Seq(Name(D)) \subseteq T
  BY <1>1, <1>2, SequenceInduction
<1> QED BY <1>3 DEF T

-----------------------------------------------------------------------------
(* The automaton reads the path                                            *)

Automaton(state, out, curr) == [state |-> state, out |-> out, curr |-> curr]

\* How the automaton stands when the path has been read that far.
StateOf(word) ==
  IF word = <<>> THEN "slash"
  ELSE IF word = <<".">> THEN "dot"
  ELSE IF word = DotDot THEN "dotdot" ELSE "start"

AutoAt(r) == Automaton(StateOf(r.word), Dir(r.names) \o r.word, Len(Spelled(r.names)))

LEMMA SwitchIs ==
  ASSUME NEW out, NEW curr, NEW c
  PROVE  /\ Switch(Automaton("start", out, curr), c) =
              IF c = "/" THEN Automaton("slash", out \o Root, Len(out))
              ELSE Automaton("start", out, curr)
         /\ Switch(Automaton("slash", out, curr), c) =
              IF c = "/" THEN Automaton("slash", out, curr)
              ELSE Automaton(IF c = "." THEN "dot" ELSE "start", out, curr)
         /\ Switch(Automaton("dot", out, curr), c) =
              IF Ends(c) THEN Automaton("slash", SubSeq(out, 1, curr + 1), curr)
              ELSE Automaton(IF c = "." THEN "dotdot" ELSE "start", out, curr)
         /\ Switch(Automaton("dotdot", out, curr), c) =
              IF Ends(c) THEN DropDir(Automaton("dotdot", out, curr))
              ELSE Automaton("start", out, curr)
<1>1. /\ Automaton("start", out, curr).state = "start" /\ Automaton("slash", out, curr).state = "slash"
      /\ Automaton("dot", out, curr).state = "dot" /\ Automaton("dotdot", out, curr).state = "dotdot"
  BY DEF Automaton
<1>2. Switch(Automaton("start", out, curr), c) =
        IF c = "/" THEN Automaton("slash", out \o Root, Len(out)) ELSE Automaton("start", out, curr)
  BY DEF Switch, OpenDir, Automaton
<1>3. ASSUME NEW s, NEW t
      PROVE  Goto(Automaton(s, out, curr), c, t) = Automaton(IF c = "." THEN t ELSE "start", out, curr)
  BY DEF Goto, Automaton
<1>4. Switch(Automaton("slash", out, curr), c) =
        IF c = "/" THEN Automaton("slash", out, curr) ELSE Goto(Automaton("slash", out, curr), c, "dot")
  BY <1>1 DEF Switch
<1>5. DropDot(Automaton("dot", out, curr)) = Automaton("slash", SubSeq(out, 1, curr + 1), curr)
  BY DEF DropDot, Automaton
<1>6. Switch(Automaton("dot", out, curr), c) =
        IF Ends(c) THEN DropDot(Automaton("dot", out, curr))
        ELSE Goto(Automaton("dot", out, curr), c, "dotdot")
  BY <1>1 DEF Switch
<1>7. Switch(Automaton("dotdot", out, curr), c) =
        IF Ends(c) THEN DropDir(Automaton("dotdot", out, curr))
        ELSE Goto(Automaton("dotdot", out, curr), c, "start")
  BY <1>1 DEF Switch
<1> QED BY <1>2, <1>3, <1>4, <1>5, <1>6, <1>7

\* Token copies the character, but for the end and the slashes behind a slash.
LEMMA TokenIs ==
  ASSUME NEW a
  PROVE  /\ Token(a, End) = Switch(a, End)
         /\ Switch(a, "/").state # "start" => Token(a, "/") = Switch(a, "/")
         /\ \A c, state, out, curr :
              c \notin {"/", End} /\ Switch(a, c) = Automaton(state, out, curr) =>
                Token(a, c) = Automaton(state, Append(out, c), curr)
BY DEF Token, Automaton

\* The name above.
LEMMA DropDirIs ==
  ASSUME NEW D, Alphabet(D), NEW names \in Seq(Name(D)), NEW word \in Word(D), NEW state
  PROVE  DropDir(Automaton(state, Dir(names) \o word, Len(Spelled(names))))
           = AutoAt(Fresh(Enter(names, DotDot)))
<1> DEFINE path == Spelled(names)
           out == Dir(names) \o word
           above == Enter(names, DotDot)
<1>1. path \in Seq(D) /\ Len(path) \in Nat /\ word \in Seq(D) /\ Root \in Seq(D) /\ Dir(names) \in Seq(D)
  <2>1. word \in Seq(D)
    BY SeqMonotonic DEF Word
  <2> QED BY <2>1, SpelledSeq, LenProperties, DirSeq DEF Alphabet, Root
<1>2. SubSeq(out, 1, Len(path)) = path
  <2> HIDE DEF path
  <2>1. out = path \o (Root \o word)
    BY <1>1, ConcatAssociative DEF Dir, path
  <2>2. Root \o word \in Seq(D)
    BY <1>1, ConcatProperties
  <2> QED BY <1>1, <2>1, <2>2
<1>3. /\ DotDot \in Word(D) /\ above \in Seq(Name(D))
      /\ above = IF names = <<>> THEN <<>> ELSE Front(names)
  <2>1. DotDot \in Word(D) /\ DotDot \notin {<<>>, <<".">>}
    BY DEF Alphabet, Word, DotDot
  <2>2. above \in Seq(Name(D))
    BY <2>1, EnterNames
  <2> QED BY <2>1, <2>2 DEF Enter
<1>4. Dir(above) \o <<>> = Dir(above) /\ Len(Spelled(above)) \in Nat
  BY <1>3, DirSeq, ConcatEmptySeq, SpelledSeq, LenProperties
<1>5. AutoAt(Fresh(above)) = Automaton("slash", Dir(above), Len(Spelled(above)))
  BY <1>4 DEF AutoAt, StateOf, Fresh
<1> DEFINE dropped == DropDir(Automaton(state, out, Len(path)))
           prev    == LastSlash(path)
<1>6. dropped = IF prev = 0 THEN Automaton("slash", path \o Root, Len(path))
                ELSE Automaton("slash", SubSeq(path, 1, prev), prev - 1)
  <2> HIDE DEF out, path, prev
  <2>1. /\ Automaton(state, out, Len(path)).out = out
        /\ Automaton(state, out, Len(path)).curr = Len(path)
    BY DEF Automaton
  <2> QED BY <1>2, <2>1 DEF DropDir, Automaton, prev
<1>7. CASE names = <<>>
  <2>1. path = <<>> /\ above = <<>>
    BY <1>3, <1>7, SpelledEmpty
  <2>2. prev = 0
    BY <2>1, NoSlash
  <2>3. path \o Root = Dir(above) /\ Spelled(above) = path
    BY <1>7, <2>1 DEF Dir
  <2> QED BY <1>5, <1>6, <2>2, <2>3
<1>8. CASE names # <<>>
  <2>1. PICK rest \in Seq(Name(D)), last \in Name(D) : names = Append(rest, last)
    BY <1>8, SequenceEmptyOrAppend
  <2>2. Front(names) = rest
    BY <2>1 DEF Front
  <2>3. above = rest
    BY <1>3, <1>8, <2>2
  <2>4. /\ path = Dir(rest) \o last /\ Dir(rest) \in Seq(D) /\ last \in Seq(D)
        /\ Len(Dir(rest)) = Len(Spelled(rest)) + 1 /\ Len(Spelled(rest)) \in Nat
        /\ \A i \in 1..Len(last) : last[i] # "/"
    <3>1. last \in Seq(D) /\ last \in Seq(D \ {"/"})
      BY SeqMonotonic DEF Name, Word
    <3>2. \A i \in 1..Len(last) : last[i] # "/"
      BY <3>1, ElementOfSeq
    <3>3. path = Dir(rest) \o last
      BY <2>1, SpelledAppend DEF Dir
    <3> QED BY <3>1, <3>2, <3>3, DirSeq, SpelledSeq, LenProperties
  <2>5. Dir(rest)[Len(Dir(rest))] = "/"
    <3>1. Spelled(rest) \in Seq(D) /\ Root \in Seq(D) /\ Len(Root) = 1 /\ Root[1] = "/"
      BY <1>1, SpelledSeq DEF Root
    <3> QED BY <2>4, <3>1, ConcatProperties DEF Dir
  <2>6. prev = Len(Dir(rest)) /\ SubSeq(path, 1, prev) = Dir(rest)
    <3> HIDE DEF path, prev
    <3>1. /\ Len(path) = Len(Dir(rest)) + Len(last) /\ Len(last) \in Nat
          /\ \A i \in 1..Len(Dir(rest)) + Len(last) : path[i] =
               IF i <= Len(Dir(rest)) THEN Dir(rest)[i] ELSE last[i - Len(Dir(rest))]
      BY <2>4, ConcatProperties, LenProperties
    <3>2. Len(Dir(rest)) \in 1..Len(path) /\ path[Len(Dir(rest))] = "/"
      BY <2>4, <2>5, <3>1
    <3>3. \A i \in Len(Dir(rest))+1..Len(path) : path[i] # "/"
      <4> TAKE i \in Len(Dir(rest))+1..Len(path)
      <4>1. i - Len(Dir(rest)) \in 1..Len(last) /\ ~(i <= Len(Dir(rest)))
            /\ i \in 1..Len(Dir(rest)) + Len(last)
        BY <2>4, <3>1
      <4> QED BY <2>4, <3>1, <4>1
    <3>4. prev = Len(Dir(rest))
      BY <1>1, <3>2, <3>3, LastSlashIs DEF prev
    <3>5. SubSeq(path, 1, Len(Dir(rest))) = Dir(rest)
      BY <2>4
    <3> QED BY <3>4, <3>5
  <2>7. prev # 0 /\ prev - 1 = Len(Spelled(above)) /\ Dir(above) = SubSeq(path, 1, prev)
    BY <2>3, <2>4, <2>6
  <2> HIDE DEF prev, path, above, dropped
  <2>8. dropped = Automaton("slash", Dir(above), Len(Spelled(above)))
    BY <1>6, <2>7
  <2> QED BY <1>5, <2>8 DEF dropped, path, above
<1> QED BY <1>7, <1>8

\* How AutoAt stands, in terms of the names and the word.
LEMMA AutoIs ==
  ASSUME NEW D, Alphabet(D), NEW r \in States(D)
  PROVE  /\ r.names \in Seq(Name(D)) /\ r.word \in Word(D) /\ r.word \in Seq(D)
         /\ Dir(r.names) \in Seq(D) /\ Len(Spelled(r.names)) \in Nat
         /\ Len(Dir(r.names)) = Len(Spelled(r.names)) + 1
         /\ AutoAt(Fresh(r.names)) = Automaton("slash", Dir(r.names), Len(Spelled(r.names)))
         /\ r.word = <<>> => AutoAt(r) = AutoAt(Fresh(r.names))
         /\ r.word = <<".">> =>
              AutoAt(r) = Automaton("dot", Dir(r.names) \o r.word, Len(Spelled(r.names)))
         /\ r.word = DotDot =>
              AutoAt(r) = Automaton("dotdot", Dir(r.names) \o r.word, Len(Spelled(r.names)))
         /\ r.word \in Name(D) =>
              AutoAt(r) = Automaton("start", Dir(r.names) \o r.word, Len(Spelled(r.names)))
<1>1. r.names \in Seq(Name(D)) /\ r.word \in Word(D)
  BY DEF States
<1>2. r.word \in Seq(D)
  BY <1>1, SeqMonotonic DEF Word
<1>3. Dir(r.names) \in Seq(D) /\ Len(Dir(r.names)) = Len(Spelled(r.names)) + 1
  BY <1>1, DirSeq
<1>4. Len(Spelled(r.names)) \in Nat
  BY <1>1, SpelledSeq, LenProperties
<1>5. Dir(r.names) \o <<>> = Dir(r.names)
  BY <1>3, ConcatEmptySeq
<1>6. <<>> # <<".">> /\ DotDot # <<>> /\ DotDot # <<".">>
  BY DEF DotDot
<1>7. AutoAt(Fresh(r.names)) = Automaton("slash", Dir(r.names), Len(Spelled(r.names)))
  BY <1>5 DEF AutoAt, StateOf, Fresh
<1>8. r.word = <<>> => AutoAt(r) = Automaton("slash", Dir(r.names), Len(Spelled(r.names)))
  BY <1>5 DEF AutoAt, StateOf
<1>9. r.word = <<".">> =>
        AutoAt(r) = Automaton("dot", Dir(r.names) \o r.word, Len(Spelled(r.names)))
  BY <1>6 DEF AutoAt, StateOf
<1>10. r.word = DotDot =>
        AutoAt(r) = Automaton("dotdot", Dir(r.names) \o r.word, Len(Spelled(r.names)))
  BY <1>6 DEF AutoAt, StateOf
<1>11. r.word \in Name(D) =>
        AutoAt(r) = Automaton("start", Dir(r.names) \o r.word, Len(Spelled(r.names)))
  BY DEF AutoAt, StateOf, Name
<1> QED BY <1>1, <1>2, <1>3, <1>4, <1>7, <1>8, <1>9, <1>10, <1>11

\* What a slash or the end does to dots before it.
LEMMA DotsDropped ==
  ASSUME NEW D, Alphabet(D), NEW r \in States(D), NEW c \in {"/", End}, r.word \in {<<".">>, DotDot}
  PROVE  Switch(AutoAt(r), c) = AutoAt(Fresh(Enter(r.names, r.word)))
<1> DEFINE dir  == Dir(r.names)
           curr == Len(Spelled(r.names))
<1>1. Ends(c)
  BY DEF Ends
<1>2. CASE r.word = <<".">>
  <2>1. AutoAt(r) = Automaton("dot", dir \o r.word, curr) /\ AutoAt(Fresh(r.names)) = Automaton("slash", dir, curr)
    BY <1>2, AutoIs
  <2>2. SubSeq(dir \o r.word, 1, curr + 1) = dir
    <3>1. dir \in Seq(D) /\ r.word \in Seq(D) /\ Len(dir) = curr + 1
      BY AutoIs
    <3> HIDE DEF dir, curr
    <3> QED BY <3>1
  <2>3. Enter(r.names, r.word) = r.names
    BY <1>2 DEF Enter
  <2> HIDE DEF dir, curr
  <2>4. Switch(AutoAt(r), c) = Automaton("slash", SubSeq(dir \o r.word, 1, curr + 1), curr)
    BY <1>1, <2>1, SwitchIs
  <2> QED BY <2>1, <2>2, <2>3, <2>4
<1>3. CASE r.word = DotDot
  <2>1. AutoAt(r) = Automaton("dotdot", dir \o r.word, curr)
    BY <1>3, AutoIs
  <2>2. DropDir(Automaton("dotdot", dir \o r.word, curr)) = AutoAt(Fresh(Enter(r.names, DotDot)))
    BY AutoIs, DropDirIs
  <2> HIDE DEF dir, curr
  <2>3. Switch(AutoAt(r), c) = DropDir(Automaton("dotdot", dir \o r.word, curr))
    BY <1>1, <2>1, SwitchIs
  <2> QED BY <1>3, <2>2, <2>3
<1> QED BY <1>2, <1>3

\* A slash ends the word.
LEMMA SlashRead ==
  ASSUME NEW D, Alphabet(D), NEW r \in States(D)
  PROVE  Token(AutoAt(r), "/") = AutoAt(Fresh(Enter(r.names, r.word)))
<1> DEFINE to == Enter(r.names, r.word)
<1>1. to \in Seq(Name(D)) /\ Fresh(to) \in States(D) /\ Fresh(to).names = to
  <2>1. to \in Seq(Name(D))
    BY AutoIs, EnterNames
  <2> HIDE DEF to
  <2> QED BY <2>1 DEF Fresh, States, Word
<1>2. AutoAt(Fresh(to)) = Automaton("slash", Dir(to), Len(Spelled(to)))
  <2> HIDE DEF to
  <2> QED BY <1>1, AutoIs
<1>3. Switch(AutoAt(r), "/") = AutoAt(Fresh(to))
  <2>1. CASE r.word = <<>>
    <3>1. to = r.names /\ AutoAt(r) = AutoAt(Fresh(to))
      BY <2>1, AutoIs DEF Enter
    <3> HIDE DEF to
    <3>2. AutoAt(r) = Automaton("slash", Dir(to), Len(Spelled(to)))
      BY <1>2, <3>1
    <3> QED BY <1>2, <3>2, SwitchIs
  <2>2. CASE r.word \in {<<".">>, DotDot}
    BY <2>2, DotsDropped
  <2>3. CASE r.word \notin {<<>>, <<".">>, DotDot}
    <3>1. r.word \in Name(D)
      BY <2>3, AutoIs DEF Name
    <3>2. to = Append(r.names, r.word)
      BY <3>1, EnterName
    <3>3. Spelled(to) = Dir(r.names) \o r.word
      BY <3>1, <3>2, AutoIs, SpelledAppend DEF Dir
    <3>4. AutoAt(r) = Automaton("start", Dir(r.names) \o r.word, Len(Spelled(r.names)))
      BY <3>1, AutoIs
    <3>5. Switch(AutoAt(r), "/") = Automaton("slash", (Dir(r.names) \o r.word) \o Root, Len(Dir(r.names) \o r.word))
      BY <3>4, SwitchIs
    <3>6. (Dir(r.names) \o r.word) \o Root = Dir(to)
      BY <3>3 DEF Dir
    <3> HIDE DEF to
    <3> QED BY <1>2, <3>3, <3>5, <3>6
  <2> QED BY <2>1, <2>2, <2>3
<1> HIDE DEF to
<1>4. Switch(AutoAt(r), "/").state # "start"
  BY <1>2, <1>3 DEF Automaton
<1> QED BY <1>3, <1>4, TokenIs DEF to

\* What a further letter makes of a word.
LEMMA StateOfAppend ==
  ASSUME NEW D, NEW word \in Seq(D), NEW c \in D, Alphabet(D)
  PROVE  /\ StateOf(Append(word, c)) =
              IF c # "." THEN "start"
              ELSE IF StateOf(word) = "slash" THEN "dot"
              ELSE IF StateOf(word) = "dot" THEN "dotdot" ELSE "start"
         /\ StateOf(word) \in {"start", "slash", "dot", "dotdot"}
<1>1. <<>> \in Seq(D) /\ <<".">> \in Seq(D) /\ "." \in D
  BY DEF Alphabet
<1>2. <<".">> = Append(<<>>, ".") /\ DotDot = Append(<<".">>, ".")
  BY DEF DotDot
<1>3. Append(word, c) # <<>>
  BY AppendProperties
<1>4. Append(word, c) = <<".">> <=> word = <<>> /\ c = "."
  <2> DEFINE none == <<>>
  <2>1. none \in Seq(D)
    BY <1>1
  <2> HIDE DEF none
  <2>2. Append(word, c) = Append(none, ".") <=> word = none /\ c = "."
    BY <1>1, <2>1, AppendInjective
  <2> QED BY <1>2, <2>2 DEF none
<1>5. Append(word, c) = DotDot <=> word = <<".">> /\ c = "."
  BY <1>1, <1>2, AppendInjective
<1>6. <<>> # <<".">> /\ DotDot # <<>> /\ DotDot # <<".">>
  BY DEF DotDot
<1> QED BY <1>3, <1>4, <1>5, <1>6 DEF StateOf

LEMMA LetterRead ==
  ASSUME NEW D, Alphabet(D), NEW r \in States(D), NEW c \in D, c # "/"
  PROVE  Token(AutoAt(r), c) = AutoAt(ReadChar(r, c))
<1> DEFINE out  == Dir(r.names) \o r.word
           curr == Len(Spelled(r.names))
<1>1. r.word \in Seq(D) /\ Dir(r.names) \in Seq(D) /\ c \notin {"/", End} /\ ~Ends(c)
  BY AutoIs DEF Alphabet, Ends
<1>2. AutoAt(r) = Automaton(StateOf(r.word), out, curr)
  BY DEF AutoAt
<1>3. AutoAt(ReadChar(r, c))
        = Automaton(StateOf(Append(r.word, c)), Dir(r.names) \o Append(r.word, c), curr)
  <2>1. r = [names |-> r.names, word |-> r.word]
    BY DEF States
  <2>2. ReadChar(r, c) = [names |-> r.names, word |-> Append(r.word, c)]
    BY <2>1, ReadLetter
  <2> QED BY <2>2 DEF AutoAt
<1>4. Dir(r.names) \o Append(r.word, c) = Append(out, c)
  <2> DEFINE letter == <<c>>
  <2>1. letter \in Seq(D) /\ out \in Seq(D)
    BY <1>1, ConcatProperties
  <2>2. Append(r.word, c) = r.word \o letter /\ Append(out, c) = out \o letter
    BY <1>1, <2>1, AppendIsConcat
  <2> HIDE DEF letter
  <2>3. out \o letter = Dir(r.names) \o (r.word \o letter)
    <3> DEFINE dir  == Dir(r.names)
               word == r.word
    <3>1. dir \in Seq(D) /\ word \in Seq(D) /\ letter \in Seq(D)
      BY <1>1, <2>1
    <3> HIDE DEF dir, word
    <3>2. (dir \o word) \o letter = dir \o (word \o letter)
      BY <3>1, ConcatAssociative
    <3> QED BY <3>2 DEF dir, word
  <2> HIDE DEF out
  <2> QED BY <2>2, <2>3
<1> HIDE DEF out, curr
<1>5. Switch(AutoAt(r), c) = Automaton(StateOf(Append(r.word, c)), out, curr)
  <2>1. CASE StateOf(r.word) = "start"
    <3>1. Switch(AutoAt(r), c) = Automaton("start", out, curr)
      BY <1>2, <2>1, SwitchIs
    <3>2. StateOf(Append(r.word, c)) = "start"
      BY <1>1, <2>1, StateOfAppend
    <3> QED BY <3>1, <3>2
  <2>2. CASE StateOf(r.word) = "slash"
    <3>1. Switch(AutoAt(r), c) = Automaton(IF c = "." THEN "dot" ELSE "start", out, curr)
      BY <1>2, <2>2, SwitchIs
    <3>2. StateOf(Append(r.word, c)) = IF c = "." THEN "dot" ELSE "start"
      BY <1>1, <2>2, StateOfAppend
    <3> QED BY <3>1, <3>2
  <2>3. CASE StateOf(r.word) = "dot"
    <3>1. Switch(AutoAt(r), c) = Automaton(IF c = "." THEN "dotdot" ELSE "start", out, curr)
      BY <1>1, <1>2, <2>3, SwitchIs
    <3>2. StateOf(Append(r.word, c)) = IF c = "." THEN "dotdot" ELSE "start"
      BY <1>1, <2>3, StateOfAppend
    <3> QED BY <3>1, <3>2
  <2>4. CASE StateOf(r.word) = "dotdot"
    <3>1. Switch(AutoAt(r), c) = Automaton("start", out, curr)
      BY <1>1, <1>2, <2>4, SwitchIs
    <3>2. StateOf(Append(r.word, c)) = "start"
      BY <1>1, <2>4, StateOfAppend
    <3> QED BY <3>1, <3>2
  <2> QED BY <1>1, <2>1, <2>2, <2>3, <2>4, StateOfAppend
<1>6. Token(AutoAt(r), c) = Automaton(StateOf(Append(r.word, c)), Append(out, c), curr)
  BY <1>1, <1>5, TokenIs
<1> QED BY <1>3, <1>4, <1>6

\* Each token takes the automaton where reading the character leads.
LEMMA Simulation ==
  ASSUME NEW D, Alphabet(D), NEW r \in States(D), NEW c \in D
  PROVE  Token(AutoAt(r), c) = AutoAt(ReadChar(r, c))
<1>1. CASE c = "/"
  BY <1>1, SlashRead DEF ReadChar, Fresh
<1>2. CASE c # "/"
  BY <1>2, LetterRead
<1> QED BY <1>1, <1>2

\* What virtual_abspath has in its buffer before the trailing slashes go: the names, and
\* perhaps a slash.
LEMMA EndRead ==
  ASSUME NEW D, Alphabet(D), NEW r \in States(D)
  PROVE  LET to == Enter(r.names, r.word)
             out == Token(AutoAt(r), End).out
         IN out = Dir(to) \/ (to # <<>> /\ out = Spelled(to))
<1> DEFINE to == Enter(r.names, r.word)
<1>1. Token(AutoAt(r), End) = Switch(AutoAt(r), End)
  BY TokenIs
<1>2. to \in Seq(Name(D)) /\ Fresh(to) \in States(D) /\ Fresh(to).names = to
  <2>1. to \in Seq(Name(D))
    BY AutoIs, EnterNames
  <2> HIDE DEF to
  <2> QED BY <2>1 DEF Fresh, States, Word
<1>3. CASE r.word = <<>>
  <2>1. to = r.names
    BY <1>3 DEF Enter
  <2> HIDE DEF to
  <2>2. AutoAt(r) = Automaton("slash", Dir(to), Len(Spelled(to)))
    BY <1>3, <2>1, AutoIs
  <2>3. Switch(AutoAt(r), End) = Automaton("start", Dir(to), Len(Spelled(to)))
    <3>1. End # "/" /\ End # "."
      BY DEF End
    <3> QED BY <2>2, <3>1, SwitchIs
  <2>4. Token(AutoAt(r), End).out = Dir(to)
    BY <1>1, <2>3 DEF Automaton
  <2> QED BY <2>4 DEF to
<1>4. CASE r.word \in {<<".">>, DotDot}
  <2> HIDE DEF to
  <2>1. Switch(AutoAt(r), End) = AutoAt(Fresh(to))
    BY <1>4, DotsDropped DEF to
  <2>2. AutoAt(Fresh(to)) = Automaton("slash", Dir(to), Len(Spelled(to)))
    BY <1>2, AutoIs
  <2>3. Token(AutoAt(r), End).out = Dir(to)
    BY <1>1, <2>1, <2>2 DEF Automaton
  <2> QED BY <2>3 DEF to
<1>5. CASE r.word \notin {<<>>, <<".">>, DotDot}
  <2>1. r.word \in Name(D)
    BY <1>5, AutoIs DEF Name
  <2>2. to = Append(r.names, r.word)
    BY <2>1, EnterName
  <2>3. Spelled(to) = Dir(r.names) \o r.word
    BY <2>1, <2>2, AutoIs, SpelledAppend DEF Dir
  <2>4. AutoAt(r) = Automaton("start", Spelled(to), Len(Spelled(r.names)))
    BY <2>1, <2>3, AutoIs
  <2>5. to # <<>>
    <3>1. r.names \in Seq(Name(D))
      BY AutoIs
    <3>2. Append(r.names, r.word) # <<>>
      BY <2>1, <3>1, AppendProperties
    <3> QED BY <2>2, <3>2
  <2> HIDE DEF to
  <2>6. Switch(AutoAt(r), End) = AutoAt(r)
    <3>1. End # "/"
      BY DEF End
    <3> QED BY <2>4, <3>1, SwitchIs
  <2>7. Token(AutoAt(r), End).out = Spelled(to)
    BY <1>1, <2>4, <2>6 DEF Automaton
  <2> QED BY <2>5, <2>7 DEF to
<1> QED BY <1>3, <1>4, <1>5

\* The automaton on the whole path.
LEMMA ScanIs ==
  ASSUME NEW D, Alphabet(D), NEW path \in Seq(D), IsAbsolute(path)
  PROVE  Scan(path)[Len(path)] = AutoAt(Reading(<<>>, path)[Len(path)])
<1> DEFINE r == Reading(<<>>, path)
           q == [n \in 0..Len(path) |-> IF n = 0 THEN Start ELSE AutoAt(r[n])]
           s == Scan(path)
<1>1. Len(path) \in Nat /\ Len(path) # 0 /\ path[1] = "/" /\ \A n \in 1..Len(path) : path[n] \in D
  BY LenProperties, ElementOfSeq, EmptySeq DEF IsAbsolute
<1>2. /\ r \in [0..Len(path) -> States(D)] /\ r[0] = Fresh(<<>>)
      /\ \A n \in 1..Len(path) : r[n] = ReadChar(r[n-1], path[n])
  <2>1. <<>> \in Seq(Name(D))
    OBVIOUS
  <2> QED BY <2>1, ReadingIs
<1> HIDE DEF r
<1>3. Token(Start, "/") = AutoAt(r[1])
  <2>1. Start = Automaton("start", <<>>, 0)
    BY DEF Start, Automaton
  <2>2. Switch(Start, "/") = Automaton("slash", <<>> \o Root, Len(<<>>))
    BY <2>1, SwitchIs
  <2>3. Token(Start, "/") = Switch(Start, "/")
    BY <2>2, TokenIs DEF Automaton
  <2>4. r[1] = Fresh(<<>>)
    <3>1. r[1] = ReadChar(Fresh(<<>>), "/")
      BY <1>1, <1>2
    <3> QED BY <3>1 DEF ReadChar, Fresh, Enter
  <2>5. <<>> \o Root = Dir(<<>>) /\ Len(<<>>) = Len(Spelled(<<>>)) /\ Dir(<<>>) \o <<>> = Dir(<<>>)
    <3>1. (<<>> \o Root) \o <<>> = <<>> \o Root
      BY DEF Root
    <3> QED BY <3>1, SpelledEmpty DEF Dir
  <2>6. AutoAt(Fresh(<<>>)) = Automaton("slash", Dir(<<>>), Len(Spelled(<<>>)))
    BY <2>5 DEF AutoAt, StateOf, Fresh
  <2> QED BY <2>2, <2>3, <2>4, <2>5, <2>6
<1>4. ASSUME NEW n \in 1..Len(path)
      PROVE  Token(IF n - 1 = 0 THEN Start ELSE AutoAt(r[n-1]), path[n]) = AutoAt(r[n])
  <2>1. CASE n = 1
    BY <1>1, <1>3, <2>1
  <2>2. CASE n # 1
    <3>1. n - 1 # 0 /\ n - 1 \in 0..Len(path)
      BY <1>1, <2>2
    <3>2. r[n-1] \in States(D) /\ path[n] \in D /\ r[n] = ReadChar(r[n-1], path[n])
      BY <1>1, <1>2, <3>1
    <3> QED BY <3>1, <3>2, Simulation
  <2> QED BY <2>1, <2>2
<1>5. q = [n \in 0..Len(path) |-> IF n = 0 THEN Start ELSE Token(q[n-1], path[n])]
  <2>1. ASSUME NEW n \in 0..Len(path), n # 0 PROVE AutoAt(r[n]) = Token(q[n-1], path[n])
    <3>1. n \in 1..Len(path) /\ n - 1 \in 0..Len(path)
      BY <1>1, <2>1
    <3>2. q[n-1] = IF n - 1 = 0 THEN Start ELSE AutoAt(r[n-1])
      BY <3>1
    <3> HIDE DEF q
    <3> QED BY <1>4, <3>1, <3>2
  <2> QED BY <2>1, Zenon
<1>6. s = [n \in 0..Len(path) |-> IF n = 0 THEN Start ELSE Token(s[n-1], path[n])]
  <2> HIDE DEF q
  <2> QED BY <1>5 DEF Scan
<1> HIDE DEF s
<1>7. s[0] = Start /\ \A n \in 1..Len(path) : s[n] = Token(s[n-1], path[n])
  <2>1. 0 \in 0..Len(path) /\ \A n \in 1..Len(path) : n \in 0..Len(path) /\ n # 0
    BY <1>1
  <2> QED BY <1>6, <2>1
<1> DEFINE T == {n \in 0..Len(path) : s[n] = IF n = 0 THEN Start ELSE AutoAt(r[n])}
<1>8. 0 \in T
  BY <1>1, <1>7
<1>9. ASSUME NEW n \in 1..Len(path), n - 1 \in T PROVE n \in T
  <2>1. s[n] = AutoAt(r[n])
    BY <1>4, <1>7, <1>9
  <2>2. n \in 0..Len(path) /\ n # 0
    BY <1>1
  <2> QED BY <2>1, <2>2
<1> HIDE DEF T
<1>10. 0..Len(path) \subseteq T
  BY <1>1, <1>8, <1>9, BoundedInduction
<1>11. Len(path) \in T
  BY <1>1, <1>10
<1> QED BY <1>1, <1>11 DEF T, s, r

\* Trailing slashes go.
LEMMA StripIs ==
  ASSUME NEW path, Len(path) \in Nat, NEW k \in 1..Len(path), path[k] # "/",
         \A i \in k+1..Len(path) : path[i] = "/"
  PROVE  StripSlashes(path) = SubSeq(path, 1, k)
<1> DEFINE I == {i \in 1..Len(path) : path[i] # "/"}
           last == IF I # {} THEN Max(I) ELSE 0
<1>1. StripSlashes(path) = SubSeq(path, 1, IF last = 0 THEN 1 ELSE last)
  BY DEF StripSlashes, SelectLastInSeq
<1>2. k \in I /\ \A i \in I : k >= i
  OBVIOUS
<1>3. Max(I) = k
  BY <1>2 DEF Max
<1>4. last = k /\ k # 0
  BY <1>2, <1>3
<1> QED BY <1>1, <1>4

LEMMA StripRoot == StripSlashes(Root) = Root
<1> DEFINE I == {i \in 1..Len(Root) : Root[i] # "/"}
           last == IF I # {} THEN Max(I) ELSE 0
<1>1. StripSlashes(Root) = SubSeq(Root, 1, IF last = 0 THEN 1 ELSE last)
  BY DEF StripSlashes, SelectLastInSeq
<1>2. I = {}
  BY DEF Root
<1>3. SubSeq(Root, 1, 1) = Root
  <2>1. Root \in Seq({"/"}) /\ Len(Root) = 1
    BY DEF Root
  <2> QED BY <2>1, SubSeqFull
<1> QED BY <1>1, <1>2, <1>3

\* Names as a path end with a name and begin with a slash.
LEMMA SpelledEnds ==
  ASSUME NEW D, Alphabet(D), NEW names \in Seq(Name(D)), names # <<>>
  PROVE  /\ Spelled(names) \in Seq(D) /\ Len(Spelled(names)) \in Nat /\ Len(Spelled(names)) > 1
         /\ Spelled(names)[Len(Spelled(names))] # "/"
<1>1. PICK rest \in Seq(Name(D)), last \in Name(D) : names = Append(rest, last)
  BY SequenceEmptyOrAppend
<1>2. /\ last \in Seq(D) /\ Len(last) \in Nat /\ last[Len(last)] # "/" /\ Len(last) # 0
  <2>1. last \in Seq(D \ {"/"}) /\ last # <<>>
    BY DEF Name, Word
  <2>2. last \in Seq(D)
    BY <2>1, SeqMonotonic
  <2>3. Len(last) \in Nat /\ Len(last) # 0
    BY <2>1, EmptySeq, LenProperties
  <2>4. Len(last) \in 1..Len(last)
    BY <2>3
  <2> QED BY <2>1, <2>2, <2>3, <2>4, ElementOfSeq
<1>3. Spelled(names) = Dir(rest) \o last
  BY <1>1, SpelledAppend DEF Dir
<1>4. Dir(rest) \in Seq(D) /\ Len(Dir(rest)) = Len(Spelled(rest)) + 1 /\ Len(Spelled(rest)) \in Nat
  BY DirSeq, SpelledSeq, LenProperties
<1>5. /\ Spelled(names) \in Seq(D) /\ Len(Spelled(names)) = Len(Dir(rest)) + Len(last)
      /\ \A i \in 1..Len(Dir(rest)) + Len(last) : Spelled(names)[i] =
           IF i <= Len(Dir(rest)) THEN Dir(rest)[i] ELSE last[i - Len(Dir(rest))]
  <2>1. Dir(rest) \in Seq(D) /\ last \in Seq(D)
    BY <1>2, <1>4
  <2>2. /\ Dir(rest) \o last \in Seq(D) /\ Len(Dir(rest) \o last) = Len(Dir(rest)) + Len(last)
        /\ \A i \in 1..Len(Dir(rest)) + Len(last) : (Dir(rest) \o last)[i] =
             IF i <= Len(Dir(rest)) THEN Dir(rest)[i] ELSE last[i - Len(Dir(rest))]
    BY <2>1, ConcatProperties
  <2> QED BY <1>3, <2>2
<1>6. Spelled(names)[Len(Spelled(names))] = last[Len(last)]
  <2>1. /\ Len(Spelled(names)) \in 1..Len(Dir(rest)) + Len(last)
        /\ ~(Len(Spelled(names)) <= Len(Dir(rest)))
        /\ Len(Spelled(names)) - Len(Dir(rest)) = Len(last)
    BY <1>2, <1>4, <1>5
  <2> QED BY <1>5, <2>1
<1> QED BY <1>2, <1>4, <1>5, <1>6

LEMMA StripNames ==
  ASSUME NEW D, Alphabet(D), NEW names \in Seq(Name(D))
  PROVE  /\ StripSlashes(Dir(names)) = Joined(names)
         /\ names # <<>> => StripSlashes(Spelled(names)) = Joined(names)
<1>1. CASE names = <<>>
  <2>1. Dir(names) = Root /\ Joined(names) = Root
    <3>1. <<>> \o Root = Root
      BY DEF Root
    <3> QED BY <1>1, <3>1, SpelledEmpty DEF Dir, Joined
  <2> QED BY <1>1, <2>1, StripRoot
<1>2. CASE names # <<>>
  <2> DEFINE path == Spelled(names)
  <2>1. path \in Seq(D) /\ Len(path) \in Nat /\ Len(path) > 1 /\ path[Len(path)] # "/"
    BY <1>2, SpelledEnds
  <2>2. Dir(names) = path \o Root /\ Root \in Seq(D) /\ Len(Root) = 1 /\ Root[1] = "/"
    BY DEF Dir, Root, Alphabet
  <2>3. Joined(names) = path
    BY <1>2 DEF Joined
  <2> HIDE DEF path
  <2>4. /\ Len(path \o Root) = Len(path) + 1
        /\ \A i \in 1..Len(path) + 1 :
             (path \o Root)[i] = IF i <= Len(path) THEN path[i] ELSE Root[i - Len(path)]
    <3>1. /\ Len(path \o Root) = Len(path) + Len(Root)
          /\ \A i \in 1..Len(path) + Len(Root) :
               (path \o Root)[i] = IF i <= Len(path) THEN path[i] ELSE Root[i - Len(path)]
      BY <2>1, <2>2, ConcatProperties
    <3> QED BY <2>2, <3>1
  <2>5. StripSlashes(path) = SubSeq(path, 1, Len(path))
    <3>1. Len(path) \in 1..Len(path) /\ \A i \in Len(path)+1..Len(path) : path[i] = "/"
      BY <2>1
    <3> QED BY <2>1, <3>1, StripIs
  <2>6. StripSlashes(path \o Root) = SubSeq(path \o Root, 1, Len(path))
    <3>1. Len(path) \in 1..Len(path \o Root) /\ (path \o Root)[Len(path)] # "/"
      BY <2>1, <2>4
    <3>2. \A i \in Len(path)+1..Len(path \o Root) : (path \o Root)[i] = "/"
      <4> TAKE i \in Len(path)+1..Len(path \o Root)
      <4>1. i \in 1..Len(path) + 1 /\ ~(i <= Len(path)) /\ i - Len(path) = 1
        BY <2>1, <2>4
      <4> QED BY <2>2, <2>4, <4>1
    <3>3. Len(path \o Root) \in Nat
      BY <2>1, <2>4
    <3> QED BY <3>1, <3>2, <3>3, StripIs
  <2>7. SubSeq(path, 1, Len(path)) = path /\ SubSeq(path \o Root, 1, Len(path)) = path
    BY <2>1, <2>2, SubSeqFull
  <2> QED BY <2>2, <2>3, <2>5, <2>6, <2>7 DEF path
<1> QED BY <1>1, <1>2

\* virtual_abspath spells out where the path leads.
LEMMA NormalisedIs ==
  ASSUME NEW D, Alphabet(D), NEW path \in Seq(D), IsAbsolute(path)
  PROVE  Names(path) \in Seq(Name(D)) /\ Normalised(path) = Joined(Names(path))
<1> DEFINE r == Reading(<<>>, path)[Len(path)]
<1>1. r \in States(D)
  <2>1. <<>> \in Seq(Name(D)) /\ Len(path) \in 0..Len(path)
    BY LenProperties
  <2> QED BY <2>1, ReadingIs
<1>2. Names(path) = Enter(r.names, r.word)
  BY DEF Names, Walk
<1>3. Normalised(path) = StripSlashes(Token(AutoAt(r), End).out)
  BY ScanIs DEF Normalised
<1> HIDE DEF r
<1>4. Names(path) \in Seq(Name(D))
  BY <1>1, <1>2, EnterNames DEF States
<1> QED BY <1>1, <1>2, <1>3, <1>4, EndRead, StripNames

-----------------------------------------------------------------------------
(* Working directories                                                     *)

LEMMA DirIsAbsolute ==
  ASSUME NEW D, Alphabet(D), NEW names \in Seq(Name(D))
  PROVE  IsAbsolute(Dir(names))
<1> DEFINE T == {n \in Seq(Name(D)) : Dir(n)[1] = "/"}
<1>1. <<>> \in T
  <2>1. <<>> \o Root = Root /\ Root[1] = "/"
    BY DEF Root
  <2>2. Dir(<<>>) = Root
    BY <2>1, SpelledEmpty DEF Dir
  <2>3. Dir(<<>>)[1] = "/" /\ <<>> \in Seq(Name(D))
    BY <2>1, <2>2
  <2> QED BY <2>3
<1>2. ASSUME NEW n \in Seq(Name(D)), NEW name \in Name(D), n \in T PROVE Append(n, name) \in T
  <2>1. Dir(n) \in Seq(D) /\ Len(Dir(n)) = Len(Spelled(n)) + 1 /\ Len(Spelled(n)) \in Nat
    BY DirSeq, SpelledSeq, LenProperties
  <2> DEFINE more == Append(name, "/")
  <2>2. more \in Seq(D) /\ Len(more) \in Nat
    <3>1. name \in Word(D) /\ <<>> \in Seq(Name(D))
      BY DEF Name
    <3> QED BY <3>1, ReadWord, LenProperties
  <2> HIDE DEF more
  <2>3. (Dir(n) \o more)[1] = Dir(n)[1]
    <3>1. 1 \in 1..Len(Dir(n)) + Len(more) /\ 1 <= Len(Dir(n))
      BY <2>1, <2>2
    <3> QED BY <2>1, <2>2, <3>1, ConcatProperties
  <2>4. Dir(Append(n, name)) = Dir(n) \o more /\ Append(n, name) \in Seq(Name(D))
    BY DirAppend, AppendProperties DEF more
  <2> QED BY <1>2, <2>3, <2>4
<1> HIDE DEF T
<1>3. Seq(Name(D)) \subseteq T
  BY <1>1, <1>2, SequenceInduction
<1>4. Dir(names)[1] = "/"
  BY <1>3 DEF T
<1> QED BY <1>4, DirSeq DEF IsAbsolute

\* A directory's names are those that it was made of.
LEMMA NamesOfDir ==
  ASSUME NEW D, Alphabet(D), NEW names \in Seq(Name(D))
  PROVE  Names(Dir(names)) = names
<1>1. Reading(<<>>, Dir(names))[Len(Dir(names))] = Fresh(names)
  BY DirLeads DEF LeadsTo
<1>2. Enter(names, <<>>) = names
  BY DEF Enter
<1> QED BY <1>1, <1>2 DEF Names, Walk, Fresh

\* A path behind a directory leads on from there.
LEMMA NamesBehindDir ==
  ASSUME NEW D, Alphabet(D), NEW names \in Seq(Name(D)), NEW path \in Seq(D)
  PROVE  /\ Dir(names) \o path \in Seq(D) /\ IsAbsolute(Dir(names) \o path)
         /\ Names(Dir(names) \o path) = Walk(names, path)
<1> DEFINE dir == Dir(names)
<1>1. /\ dir \in Seq(D) /\ dir # <<>> /\ Len(dir) \in Nat /\ Len(path) \in Nat
      /\ IsAbsolute(dir) /\ LeadsTo(<<>>, dir, names) /\ <<>> \in Seq(Name(D))
  BY DirSeq, DirIsAbsolute, DirLeads, LenProperties
<1>2. /\ Len(dir \o path) = Len(dir) + Len(path)
      /\ Reading(<<>>, dir \o path)[Len(dir) + Len(path)] = Reading(names, path)[Len(path)]
  <2> DEFINE none == <<>>
  <2>1. Len(path) \in 0..Len(path)
    BY <1>1
  <2>2. none \in Seq(Name(D)) /\ LeadsTo(none, dir, names)
    BY <1>1
  <2> HIDE DEF none, dir
  <2>3. /\ Len(dir \o path) = Len(dir) + Len(path)
        /\ \A i \in 0..Len(path) : Reading(none, dir \o path)[Len(dir) + i] = Reading(names, path)[i]
    BY <1>1, <2>2, ReadingOn
  <2> QED BY <2>1, <2>3 DEF none
<1> HIDE DEF dir
<1>3. dir \o path \in Seq(D) /\ (dir \o path)[1] = "/" /\ dir \o path # <<>>
  <2>1. Len(dir) # 0 /\ 1 \in 1..Len(dir) + Len(path) /\ 1 <= Len(dir)
    BY <1>1, EmptySeq
  <2>2. dir \o path \in Seq(D) /\ (dir \o path)[1] = dir[1]
    BY <1>1, <2>1, ConcatProperties
  <2> QED BY <1>1, <1>2, <2>1, <2>2, EmptySeq DEF IsAbsolute
<1>4. Names(dir \o path) = Walk(names, path)
  BY <1>2 DEF Names, Walk
<1> QED BY <1>3, <1>4 DEF dir, IsAbsolute

\* virtual_abspath in a directory.
LEMMA AbspathIs ==
  ASSUME NEW D, Alphabet(D), NEW names \in Seq(Name(D)), NEW path \in Seq(D)
  PROVE  LET to == Walk(IF IsAbsolute(path) THEN <<>> ELSE names, path)
             abs == virtual_abspath(Dir(names), path)
         IN /\ to \in Seq(Name(D))
            /\ \/ abs = Joined(to)
               \/ abs = NULL /\ ~IsAbsolute(path) /\ ~Fits(Dir(names) \o path)
<1>1. CASE IsAbsolute(path)
  <2>1. Names(path) \in Seq(Name(D)) /\ Normalised(path) = Joined(Names(path))
    BY <1>1, NormalisedIs
  <2> QED BY <1>1, <2>1 DEF virtual_abspath, Names
<1>2. CASE ~IsAbsolute(path)
  <2>1. /\ Dir(names) \o path \in Seq(D) /\ IsAbsolute(Dir(names) \o path)
        /\ Names(Dir(names) \o path) = Walk(names, path)
    BY NamesBehindDir
  <2>2. /\ Walk(names, path) \in Seq(Name(D))
        /\ Normalised(Dir(names) \o path) = Joined(Walk(names, path))
    BY <2>1, NormalisedIs
  <2> QED BY <1>2, <2>2 DEF virtual_abspath
<1> QED BY <1>1, <1>2

LEMMA JoinedIs ==
  ASSUME NEW D, Alphabet(D), NEW names \in Seq(Name(D))
  PROVE  /\ Joined(names) \in Seq(D) /\ AsDirectory(Joined(names)) = Dir(names)
         /\ Joined(names) = Root <=> names = <<>>
<1>1. CASE names = <<>>
  <2>1. <<>> \o Root = Root /\ Root \in Seq(D) /\ ~(Len(Root) > 1)
    BY DEF Root, Alphabet
  <2>2. Joined(names) = Root /\ Dir(names) = Root
    BY <1>1, <2>1, SpelledEmpty DEF Joined, Dir
  <2> QED BY <1>1, <2>1, <2>2 DEF AsDirectory
<1>2. CASE names # <<>>
  <2>1. Spelled(names) \in Seq(D) /\ Len(Spelled(names)) > 1
    BY <1>2, SpelledEnds
  <2>2. Len(Root) = 1
    BY DEF Root
  <2>3. Joined(names) = Spelled(names) /\ Dir(names) = Spelled(names) \o Root
    BY <1>2 DEF Joined, Dir
  <2>4. AsDirectory(Joined(names)) = Dir(names)
    BY <2>1, <2>3 DEF AsDirectory
  <2>5. Joined(names) # Root
    <3> DEFINE path == Spelled(names)
    <3>1. Len(path) > 1 /\ Joined(names) = path
      BY <2>1, <2>3
    <3> HIDE DEF path
    <3>2. path # Root
      BY <2>2, <3>1
    <3> QED BY <3>1, <3>2
  <2> QED BY <1>2, <2>1, <2>3, <2>4, <2>5
<1> QED BY <1>1, <1>2

\* The characters of directories: no colon.
Plain == Chars \ {":"}

LEMMA Alphabets == Alphabet(Chars) /\ Alphabet(Plain)
BY CharsAssumption DEF Alphabet, Plain

LEMMA PlainNames == Seq(Name(Plain)) \subseteq Seq(Name(Chars)) /\ Seq(Plain) \subseteq Seq(Chars)
<1>1. Plain \subseteq Chars /\ Plain \ {"/"} \subseteq Chars \ {"/"}
  BY DEF Plain
<1>2. Word(Plain) \subseteq Word(Chars) /\ Seq(Plain) \subseteq Seq(Chars)
  BY <1>1, SeqMonotonic DEF Word
<1>3. Name(Plain) \subseteq Name(Chars)
  BY <1>2 DEF Name
<1> QED BY <1>2, <1>3, SeqMonotonic

LEMMA NoColon ==
  ASSUME NEW path \in Seq(Chars)
  PROVE  ~Contains(path, ":") <=> path \in Seq(Plain)
<1>1. Len(path) \in Nat /\ \A i \in 1..Len(path) : path[i] \in Chars
  BY LenProperties, ElementOfSeq
<1>2. ASSUME path \in Seq(Plain) PROVE ~Contains(path, ":")
  BY <1>2, ElementOfSeq DEF Contains, Plain
<1>3. ASSUME ~Contains(path, ":") PROVE path \in Seq(Plain)
  <2>1. \A i \in 1..Len(path) : path[i] \in Plain
    BY <1>1, <1>3 DEF Contains, Plain
  <2>2. path \in [1..Len(path) -> Chars]
    BY LenProperties
  <2>3. path \in [1..Len(path) -> Plain]
    BY <2>1, <2>2
  <2> QED BY <1>1, <2>3, SeqDef
<1> QED BY <1>2, <1>3

-----------------------------------------------------------------------------
(* Partitions                                                              *)

LEMMA InLowerIs ==
  ASSUME NEW path \in Seq(Chars)
  PROVE  /\ InLower(path) \in Seq({Lower[c] : c \in Chars})
         /\ Len(InLower(path)) = Len(path) /\ Len(path) \in Nat
         /\ \A i \in 1..Len(path) : InLower(path)[i] = Lower[path[i]]
<1> DEFINE S == {Lower[c] : c \in Chars}
<1>1. Len(path) \in Nat /\ DOMAIN path = 1..Len(path) /\ \A i \in 1..Len(path) : path[i] \in Chars
  BY LenProperties, ElementOfSeq
<1>2. InLower(path) \in [1..Len(path) -> S] /\ \A i \in 1..Len(path) : InLower(path)[i] = Lower[path[i]]
  BY <1>1 DEF InLower
<1>3. InLower(path) \in Seq(S)
  BY <1>1, <1>2, SeqDef
<1> QED BY <1>1, <1>2, <1>3

\* What is below an alias, but for the case of its letters.
LEMMA BelowIs ==
  ASSUME NEW alias \in Seq(Chars), NEW path \in Seq(Chars)
  PROVE  IsBelow(alias, path) <=>
           /\ Len(alias) <= Len(path)
           /\ \A j \in 1..Len(alias) : Lower[alias[j]] = Lower[path[j]]
           /\ Len(path) = Len(alias) \/ path[Len(alias) + 1] = "/"
<1> DEFINE S == {Lower[c] : c \in Chars}
           low == InLower(alias)
           up == InLower(path)
<1>1. /\ low \in Seq(S) /\ Len(low) = Len(alias) /\ Len(alias) \in Nat
      /\ up \in Seq(S) /\ Len(up) = Len(path) /\ Len(path) \in Nat
      /\ \A j \in 1..Len(alias) : low[j] = Lower[alias[j]]
      /\ \A j \in 1..Len(path) : up[j] = Lower[path[j]]
  BY InLowerIs
<1>2. IsBelow(alias, path) <=>
        IsPrefix(low, up) /\ (Len(path) = Len(alias) \/ path[Len(alias) + 1] = "/")
  BY DEF IsBelow
<1> HIDE DEF low, up, S
<1>3. SubSeq(low, 1, Len(low)) = low
  BY <1>1, SubSeqFull
<1>4. ASSUME Len(alias) <= Len(path)
      PROVE  /\ SubSeq(up, 1, Len(low)) \in Seq(S) /\ Len(SubSeq(up, 1, Len(low))) = Len(low)
             /\ \A j \in 1..Len(alias) : SubSeq(up, 1, Len(low))[j] = Lower[path[j]]
  <2>1. \A j \in 1..Len(low) : up[j] \in S
    BY <1>1, <1>4, ElementOfSeq
  <2>2. /\ SubSeq(up, 1, Len(low)) \in Seq(S)
        /\ Len(SubSeq(up, 1, Len(low))) = IF 1 <= Len(low) THEN Len(low) - 1 + 1 ELSE 0
        /\ \A j \in 1..Len(low) - 1 + 1 : SubSeq(up, 1, Len(low))[j] = up[1 + j - 1]
    BY <1>1, <2>1, SubSeqProperties
  <2> QED BY <1>1, <1>4, <2>2
<1>5. IsPrefix(low, up) <=>
        Len(alias) <= Len(path) /\ \A j \in 1..Len(alias) : Lower[alias[j]] = Lower[path[j]]
  <2>1. CASE ~(Len(alias) <= Len(path))
    BY <1>1, <2>1 DEF IsPrefix
  <2>2. CASE Len(alias) <= Len(path)
    <3> DEFINE part == SubSeq(up, 1, Len(low))
    <3>1. /\ part \in Seq(S) /\ Len(part) = Len(low)
          /\ \A j \in 1..Len(alias) : part[j] = Lower[path[j]]
      BY <1>4, <2>2
    <3>2. IsPrefix(low, up) <=> low = part
      BY <1>1, <1>3, <2>2 DEF IsPrefix
    <3> HIDE DEF part
    <3>3. low = part <=> \A j \in 1..Len(low) : low[j] = part[j]
      BY <1>1, <3>1, SeqEqual
    <3> QED BY <1>1, <2>2, <3>1, <3>2, <3>3
  <2> QED BY <2>1, <2>2
<1> QED BY <1>2, <1>5

Alias(i) == VIRTUAL_PARTITIONS[i].alias
Prefix(i) == VIRTUAL_PARTITIONS[i].prefix

\* What the table is.
LEMMA AliasIs ==
  ASSUME NEW i \in DOMAIN VIRTUAL_PARTITIONS
  PROVE  /\ Alias(i) \in Seq(Plain) /\ Alias(i) \in Seq(Chars) /\ Len(Alias(i)) \in Nat
         /\ Len(Alias(i)) > 1
         /\ Tail(Alias(i)) \in Name(Plain) /\ Alias(i) = Root \o Tail(Alias(i))
         /\ \A j \in 2..Len(Alias(i)) : Alias(i)[j] # "/"
         /\ Prefix(i) \in Seq(Chars) /\ Len(Prefix(i)) = Len(Alias(i)) + 1 /\ Fits(Prefix(i))
<1> DEFINE alias == Alias(i)
<1>1. /\ alias \in Seq(Chars) /\ Len(alias) > 1 /\ alias[1] = "/"
      /\ \A j \in 2..Len(alias) : alias[j] \notin {"/", ".", ":"}
      /\ Prefix(i) = Tail(alias) \o <<":", "/">> /\ Len(Prefix(i)) < MAXPATHLEN
  BY AliasAssumption DEF Alias, Prefix
<1>2. MAXPATHLEN \in Nat
  BY AliasAssumption
<1> HIDE DEF alias
<1>3. Len(alias) \in Nat /\ alias # <<>>
  BY <1>1, LenProperties, EmptySeq
<1>4. /\ Tail(alias) \in Seq(Chars) /\ Len(Tail(alias)) = Len(alias) - 1
      /\ \A j \in 1..Len(Tail(alias)) : Tail(alias)[j] = alias[j+1]
  BY <1>1, <1>3, HeadTailProperties
<1> DEFINE name == Tail(alias)
<1>5. \A j \in 1..Len(name) : name[j] \in Chars \ {"/", ".", ":"}
  <2> TAKE j \in 1..Len(name)
  <2>1. j + 1 \in 2..Len(alias)
    BY <1>3, <1>4
  <2>2. name[j] \in Chars
    BY <1>4, ElementOfSeq
  <2> QED BY <1>1, <1>4, <2>1, <2>2
<1>6. Len(name) \in Nat /\ Len(name) # 0
  BY <1>1, <1>3, <1>4
<1>7. name \in Seq(Chars \ {"/", ".", ":"})
  <2>1. name \in [1..Len(name) -> Chars]
    BY <1>4, LenProperties
  <2>2. name \in [1..Len(name) -> Chars \ {"/", ".", ":"}]
    BY <1>5, <2>1
  <2> QED BY <1>6, <2>2, SeqDef
<1>8. name \in Name(Plain)
  <2>1. Chars \ {"/", ".", ":"} \subseteq Plain \ {"/"}
    BY DEF Plain
  <2>2. name \in Word(Plain)
    BY <1>7, <2>1, SeqMonotonic DEF Word
  <2>3. name # <<>> /\ name[1] # "."
    <3> HIDE DEF name
    <3>1. 1 \in 1..Len(name) /\ name # <<>>
      BY <1>6
    <3> QED BY <1>5, <3>1
  <2>4. <<".">>[1] = "." /\ DotDot[1] = "."
    BY DEF DotDot
  <2> QED BY <2>2, <2>3, <2>4 DEF Name
<1>9. alias = Root \o name
  <2>1. Root \in Seq(Chars) /\ Len(Root) = 1 /\ Root[1] = "/"
    BY CharsAssumption DEF Root
  <2>2. /\ Root \o name \in Seq(Chars) /\ Len(Root \o name) = 1 + Len(name)
        /\ \A j \in 1..1 + Len(name) :
             (Root \o name)[j] = IF j <= 1 THEN Root[j] ELSE name[j - 1]
    <3> HIDE DEF name
    <3>1. /\ Root \o name \in Seq(Chars) /\ Len(Root \o name) = Len(Root) + Len(name)
          /\ \A j \in 1..Len(Root) + Len(name) :
               (Root \o name)[j] = IF j <= Len(Root) THEN Root[j] ELSE name[j - Len(Root)]
      BY <1>4, <2>1, ConcatProperties, ZenonT(60) DEF name
    <3> QED BY <2>1, <3>1
  <2>3. Len(Root \o name) = Len(alias)
    BY <1>3, <1>4, <2>2
  <2>4. ASSUME NEW j \in 1..Len(alias) PROVE alias[j] = (Root \o name)[j]
    <3>1. CASE j = 1
      BY <1>1, <1>4, <1>6, <2>1, <2>2, <3>1
    <3>2. CASE j # 1
      <4>1. j - 1 \in 1..Len(name) /\ (j - 1) + 1 = j /\ ~(j <= 1) /\ j \in 1..1 + Len(name)
        BY <1>3, <1>4, <3>2
      <4>2. (Root \o name)[j] = name[j - 1]
        BY <2>2, <4>1
      <4> QED BY <1>4, <4>1, <4>2
    <3> QED BY <3>1, <3>2
  <2> HIDE DEF name
  <2> QED BY <1>1, <2>2, <2>3, <2>4, SeqEqual
<1>10. alias \in Seq(Plain)
  <2>1. \A j \in 1..Len(alias) : alias[j] # ":"
    <3> TAKE j \in 1..Len(alias)
    <3>1. j = 1 \/ j \in 2..Len(alias)
      BY <1>3
    <3> QED BY <1>1, <3>1
  <2> QED BY <1>1, <2>1, NoColon DEF Contains
<1>11. Prefix(i) \in Seq(Chars) /\ Len(Prefix(i)) = Len(alias) + 1
  <2> DEFINE colon == <<":", "/">>
  <2>1. colon \in Seq(Chars) /\ Len(colon) = 2
    BY CharsAssumption
  <2>2. Prefix(i) = name \o colon /\ name \in Seq(Chars) /\ Len(name) = Len(alias) - 1
    BY <1>1, <1>4
  <2> HIDE DEF colon, name
  <2>3. Prefix(i) \in Seq(Chars) /\ Len(Prefix(i)) = Len(name) + Len(colon)
    BY <2>1, <2>2, ConcatProperties
  <2> QED BY <1>3, <2>1, <2>2, <2>3
<1>12. Fits(Prefix(i))
  BY <1>1, <1>2, <1>3, <1>11 DEF Fits
<1> QED BY <1>1, <1>3, <1>8, <1>9, <1>10, <1>11, <1>12 DEF alias

\* Behind its alias, the rest of a path.
LEMMA RestIs ==
  ASSUME NEW i \in DOMAIN VIRTUAL_PARTITIONS, NEW D, D \subseteq Chars, NEW virtual \in Seq(D),
         IsBelow(Alias(i), virtual)
  PROVE  LET rest == RestOf(Alias(i), virtual) IN
         /\ rest \in Seq(D) /\ Len(rest) \in Nat
         /\ IF rest = <<>> THEN Len(virtual) \in {Len(Alias(i)), Len(Alias(i)) + 1}
            ELSE /\ virtual[Len(Alias(i)) + 1] = "/"
                 /\ Len(virtual) = Len(Alias(i)) + 1 + Len(rest)
                 /\ \A j \in 1..Len(rest) : rest[j] = virtual[Len(Alias(i)) + 1 + j]
<1> DEFINE alias == Alias(i)
           rest == RestOf(alias, virtual)
<1>1. /\ alias \in Seq(Chars) /\ virtual \in Seq(Chars) /\ Len(alias) \in Nat /\ Len(virtual) \in Nat
      /\ \A j \in 1..Len(virtual) : virtual[j] \in D
  BY AliasIs, SeqMonotonic, LenProperties, ElementOfSeq
<1>2. Len(alias) <= Len(virtual) /\ (Len(virtual) = Len(alias) \/ virtual[Len(alias) + 1] = "/")
  BY <1>1, BelowIs
<1> HIDE DEF alias
<1>3. rest = SubSeq(virtual, Len(alias) + 2, Len(virtual))
  BY DEF RestOf
<1>4. /\ rest \in Seq(D)
      /\ Len(rest) = IF Len(alias) + 2 <= Len(virtual) THEN Len(virtual) - (Len(alias) + 2) + 1 ELSE 0
      /\ \A j \in 1..Len(virtual) - (Len(alias) + 2) + 1 : rest[j] = virtual[(Len(alias) + 2) + j - 1]
  <2>1. \A j \in Len(alias) + 2..Len(virtual) : virtual[j] \in D
    BY <1>1
  <2>2. Len(alias) + 2 \in Int /\ Len(virtual) \in Int
    BY <1>1
  <2> QED BY <1>3, <2>1, <2>2, SubSeqProperties
<1> HIDE DEF rest
<1>5. rest = <<>> <=> Len(rest) = 0
  BY <1>4, EmptySeq
<1>6. CASE rest = <<>>
  <2>1. ~(Len(alias) + 2 <= Len(virtual))
    BY <1>1, <1>4, <1>5, <1>6
  <2> QED BY <1>1, <1>2, <1>4, <1>5, <1>6, <2>1 DEF rest, alias
<1>7. CASE rest # <<>>
  <2>1. Len(alias) + 2 <= Len(virtual) /\ Len(rest) = Len(virtual) - Len(alias) - 1
    BY <1>1, <1>4, <1>5, <1>7
  <2>2. ASSUME NEW j \in 1..Len(rest) PROVE rest[j] = virtual[Len(alias) + 1 + j]
    <3>1. /\ j \in 1..Len(virtual) - (Len(alias) + 2) + 1
          /\ (Len(alias) + 2) + j - 1 = Len(alias) + 1 + j
      BY <1>1, <2>1
    <3> QED BY <1>4, <3>1
  <2>3. /\ virtual[Len(alias) + 1] = "/" /\ Len(virtual) = Len(alias) + 1 + Len(rest)
        /\ Len(rest) \in Nat
    BY <1>1, <1>2, <2>1
  <2> QED BY <1>4, <1>7, <2>2, <2>3 DEF rest, alias
<1> QED BY <1>6, <1>7

\* What to_real_path finds is below a partition and fits.
LEMMA FoundIs ==
  ASSUME NEW virtual, virtual # Root, RealPath(virtual) # NULL
  PROVE  \E i \in DOMAIN VIRTUAL_PARTITIONS :
           /\ IsBelow(Alias(i), virtual)
           /\ RealPath(virtual) = Prefix(i) \o RestOf(Alias(i), virtual)
           /\ Fits(Prefix(i) \o RestOf(Alias(i), virtual))
<1> DEFINE I == {i \in 1..Len(VIRTUAL_PARTITIONS) : IsBelow(Alias(i), virtual)}
<1>1. PartitionOf(virtual) = IF I # {} THEN Min(I) ELSE 0
  BY DEF PartitionOf, SelectInSeq, Alias
<1>2. I # {}
  BY <1>1 DEF RealPath
<1>3. Min(I) \in I
  <2>1. I \in SUBSET Nat
    BY AliasAssumption
  <2> HIDE DEF I
  <2>2. \E m \in I : \A k \in I : m <= k
    BY <1>2, <2>1, LeastNatural
  <2> QED BY <2>2 DEF Min
<1> DEFINE i == PartitionOf(virtual)
<1>4. i \in 1..Len(VIRTUAL_PARTITIONS) /\ IsBelow(Alias(i), virtual) /\ i # 0
  BY <1>1, <1>2, <1>3, AliasAssumption
<1> HIDE DEF I
<1>5. /\ RealPath(virtual) = Prefix(i) \o RestOf(Alias(i), virtual)
      /\ Fits(Prefix(i) \o RestOf(Alias(i), virtual))
  <2>1. RealPath(virtual) = IF Fits(Prefix(i) \o RestOf(Alias(i), virtual))
                            THEN Prefix(i) \o RestOf(Alias(i), virtual) ELSE NULL
    BY <1>4 DEF RealPath, Prefix, Alias
  <2> HIDE DEF i
  <2> QED BY <2>1
<1>6. i \in DOMAIN VIRTUAL_PARTITIONS
  BY <1>4, AliasAssumption
<1> QED BY <1>4, <1>5, <1>6

\* A partition can be named by its alias.
LEMMA AliasLeads ==
  ASSUME NEW i \in DOMAIN VIRTUAL_PARTITIONS
  PROVE  RealPath(Alias(i)) = Prefix(i)
<1> DEFINE alias == Alias(i)
           I == {k \in 1..Len(VIRTUAL_PARTITIONS) : IsBelow(Alias(k), alias)}
<1>1. /\ alias \in Seq(Chars) /\ Len(alias) \in Nat /\ Len(alias) > 1
      /\ \A j \in 2..Len(alias) : alias[j] # "/"
      /\ Prefix(i) \in Seq(Chars) /\ Fits(Prefix(i))
      /\ i \in 1..Len(VIRTUAL_PARTITIONS) /\ 1..Len(VIRTUAL_PARTITIONS) \subseteq Nat \ {0}
  BY AliasIs, AliasAssumption
<1>2. IsBelow(alias, alias)
  BY <1>1, BelowIs
<1>3. ASSUME NEW k \in 1..Len(VIRTUAL_PARTITIONS), k # i PROVE ~IsBelow(Alias(k), alias)
  <2> SUFFICES ASSUME IsBelow(Alias(k), alias) PROVE FALSE
    OBVIOUS
  <2> DEFINE other == Alias(k)
  <2>1. k \in DOMAIN VIRTUAL_PARTITIONS /\ i \in DOMAIN VIRTUAL_PARTITIONS
    BY AliasAssumption
  <2>2. other \in Seq(Chars) /\ Len(other) \in Nat /\ Len(other) > 1
    BY <2>1, AliasIs
  <2>3. /\ Len(other) <= Len(alias)
        /\ \A j \in 1..Len(other) : Lower[other[j]] = Lower[alias[j]]
        /\ Len(alias) = Len(other) \/ alias[Len(other) + 1] = "/"
    BY <1>1, <2>2, BelowIs
  <2>4. \/ Len(other) # Len(alias)
        \/ \E j \in 1..Len(alias) : Lower[other[j]] # Lower[alias[j]]
    BY <1>3, <2>1, AliasAssumption, SMTT(30) DEF Alias
  <2> HIDE DEF alias, other
  <2>5. Len(other) # Len(alias)
    BY <2>3, <2>4
  <2>6. Len(other) + 1 \in 2..Len(alias)
    BY <1>1, <2>2, <2>3, <2>5
  <2> QED BY <1>1, <2>3, <2>5, <2>6
<1>4. I = {i}
  BY <1>1, <1>2, <1>3
<1>5. PartitionOf(alias) = i
  <2>1. PartitionOf(alias) = IF I # {} THEN Min(I) ELSE 0
    BY DEF PartitionOf, SelectInSeq, Alias
  <2>2. Min({i}) = i
    BY <1>1 DEF Min
  <2> QED BY <1>4, <2>1, <2>2
<1>6. alias # Root
  <2>1. Len(Root) = 1
    BY DEF Root
  <2> HIDE DEF alias
  <2> QED BY <1>1, <2>1
<1>7. RestOf(alias, alias) = <<>>
  <2>1. Len(alias) < Len(alias) + 2 /\ Len(alias) + 2 \in Int /\ Len(alias) \in Int
    BY <1>1
  <2> QED BY <2>1, SubSeqEmpty DEF RestOf
<1>8. Prefix(i) \o <<>> = Prefix(i)
  BY <1>1, ConcatEmptySeq
<1>9. RealPath(alias) = IF Fits(Prefix(i) \o RestOf(alias, alias))
                        THEN Prefix(i) \o RestOf(alias, alias) ELSE NULL
  <2>1. i # 0
    BY <1>1
  <2> QED BY <1>5, <1>6, <2>1 DEF RealPath, Prefix, Alias
<1> QED BY <1>1, <1>7, <1>8, <1>9

\* At each of its slashes, names spelled as a path divide.
LEMMA SlashDivides ==
  ASSUME NEW D, Alphabet(D), NEW names \in Seq(Name(D)),
         NEW k \in 1..Len(Spelled(names)), Spelled(names)[k] = "/"
  PROVE  \E above \in Seq(Name(D)), below \in Seq(Name(D)) :
           Spelled(names) = Spelled(above) \o Spelled(below) /\ Len(Spelled(above)) = k - 1
<1> DEFINE Divides(n, j) == \E above \in Seq(Name(D)), below \in Seq(Name(D)) :
             Spelled(n) = Spelled(above) \o Spelled(below) /\ Len(Spelled(above)) = j - 1
           T == {n \in Seq(Name(D)) :
                   \A j \in 1..Len(Spelled(n)) : Spelled(n)[j] = "/" => Divides(n, j)}
<1>0. \A a, b, c \in Seq(D) : (a \o b) \o c = a \o (b \o c)
  BY ConcatAssociative, SMTT(30)
<1>1. <<>> \in T
  <2>1. Len(Spelled(<<>>)) = 0 /\ <<>> \in Seq(Name(D))
    BY SpelledEmpty
  <2> QED BY <2>1
<1>2. ASSUME NEW n \in Seq(Name(D)), NEW name \in Name(D), n \in T PROVE Append(n, name) \in T
  <2> DEFINE path == Spelled(n)
             one == <<name>>
             more == Append(n, name)
  <2>1. path \in Seq(D) /\ Len(path) \in Nat /\ more \in Seq(Name(D)) /\ one \in Seq(Name(D))
    BY SpelledSeq, LenProperties, AppendProperties
  <2>2. name \in Seq(D) /\ Len(name) \in Nat /\ \A j \in 1..Len(name) : name[j] # "/"
    BY SeqMonotonic, LenProperties, ElementOfSeq DEF Name, Word
  <2>3. Root \in Seq(D) /\ Len(Root) = 1 /\ Root[1] = "/"
    BY DEF Alphabet, Root
  <2>4. Spelled(one) = Root \o name /\ Spelled(one) \in Seq(D)
    <3> DEFINE none == <<>>
    <3>1. none \in Seq(Name(D)) /\ one = Append(none, name) /\ Spelled(none) = none
      BY SpelledEmpty
    <3>2. none \o Root = Root
      BY <2>3, ConcatEmptySeq
    <3> HIDE DEF none, one
    <3> QED BY <2>1, <3>1, <3>2, SpelledAppend, SpelledSeq
  <2>5. Spelled(more) = path \o Spelled(one)
    <3>1. Spelled(more) = (path \o Root) \o name
      BY SpelledAppend
    <3> HIDE DEF path, more, one
    <3>2. (path \o Root) \o name = path \o (Root \o name)
      BY <1>0, <2>1, <2>2, <2>3
    <3> QED BY <2>4, <3>1, <3>2
  <2> HIDE DEF path, one, more
  <2>6. /\ Len(Spelled(one)) = 1 + Len(name)
        /\ \A j \in 1..1 + Len(name) : Spelled(one)[j] = "/" => j = 1
    <3>1. /\ Len(Root \o name) = Len(Root) + Len(name)
          /\ \A j \in 1..Len(Root) + Len(name) :
               (Root \o name)[j] = IF j <= Len(Root) THEN Root[j] ELSE name[j - Len(Root)]
      BY <2>2, <2>3, ConcatProperties
    <3>2. ASSUME NEW j \in 1..1 + Len(name), j # 1 PROVE (Root \o name)[j] # "/"
      <4>1. j - 1 \in 1..Len(name) /\ ~(j <= 1)
        BY <2>2, <3>2
      <4> QED BY <2>2, <2>3, <3>1, <4>1
    <3> QED BY <2>3, <2>4, <3>1, <3>2
  <2>7. /\ Len(Spelled(more)) = Len(path) + (1 + Len(name))
        /\ \A j \in 1..Len(path) + (1 + Len(name)) : Spelled(more)[j] =
             IF j <= Len(path) THEN path[j] ELSE Spelled(one)[j - Len(path)]
    <3>1. /\ Len(path \o Spelled(one)) = Len(path) + Len(Spelled(one))
          /\ \A j \in 1..Len(path) + Len(Spelled(one)) : (path \o Spelled(one))[j] =
               IF j <= Len(path) THEN path[j] ELSE Spelled(one)[j - Len(path)]
      BY <2>1, <2>4, ConcatProperties
    <3> QED BY <2>5, <2>6, <3>1
  <2>8. ASSUME NEW j \in 1..Len(Spelled(more)), Spelled(more)[j] = "/" PROVE Divides(more, j)
    <3>1. CASE j <= Len(path)
      <4>1. j \in 1..Len(path) /\ path[j] = "/"
        BY <2>1, <2>7, <2>8, <3>1
      <4>2. PICK above \in Seq(Name(D)), below \in Seq(Name(D)) :
              path = Spelled(above) \o Spelled(below) /\ Len(Spelled(above)) = j - 1
        BY <1>2, <4>1 DEF path
      <4> DEFINE rest == Append(below, name)
      <4>3. rest \in Seq(Name(D))
        BY AppendProperties
      <4>4. Spelled(rest) = Spelled(below) \o Spelled(one)
        <5>1. Spelled(rest) = (Spelled(below) \o Root) \o name
          BY SpelledAppend
        <5>2. Spelled(below) \in Seq(D)
          BY SpelledSeq
        <5> DEFINE path2 == Spelled(below)
        <5> HIDE DEF rest, path2
        <5>3. (path2 \o Root) \o name = path2 \o (Root \o name)
          <6>1. path2 \in Seq(D)
            BY <5>2 DEF path2
          <6> QED BY <1>0, <2>2, <2>3, <6>1
        <5> QED BY <2>4, <5>1, <5>3 DEF path2
      <4> HIDE DEF rest
      <4>5. Spelled(more) = Spelled(above) \o Spelled(rest)
        <5>1. Spelled(above) \in Seq(D) /\ Spelled(below) \in Seq(D)
          BY SpelledSeq
        <5> DEFINE path1 == Spelled(above)
                   path2 == Spelled(below)
                   last == Spelled(one)
        <5>2. path1 \in Seq(D) /\ path2 \in Seq(D) /\ last \in Seq(D)
          BY <2>4, <5>1
        <5>3. path = path1 \o path2 /\ Spelled(rest) = path2 \o last /\ Spelled(more) = path \o last
          BY <2>5, <4>2, <4>4
        <5> HIDE DEF path1, path2, last
        <5>4. (path1 \o path2) \o last = path1 \o (path2 \o last)
          BY <1>0, <5>2
        <5> QED BY <5>3, <5>4 DEF path1
      <4> QED BY <4>2, <4>3, <4>5
    <3>2. CASE ~(j <= Len(path))
      <4>1. j - Len(path) \in 1..1 + Len(name) /\ j \in 1..Len(path) + (1 + Len(name))
        BY <2>1, <2>2, <2>7, <3>2
      <4>2. Spelled(one)[j - Len(path)] = "/"
        BY <2>7, <2>8, <3>2, <4>1
      <4>3. j - Len(path) = 1
        BY <2>6, <4>1, <4>2
      <4>4. Len(path) = j - 1
        BY <2>1, <2>7, <4>3
      <4> QED BY <2>1, <2>5, <4>4 DEF path
    <3> QED BY <3>1, <3>2
  <2> HIDE DEF Divides
  <2> QED BY <2>1, <2>8 DEF more
<1> HIDE DEF T
<1>3. names \in T
  BY <1>1, <1>2, SequenceInduction
<1> QED BY <1>3 DEF T

\* Names spelled as a path, without the first slash, are read as these names.
LEMMA NamesOfRest ==
  ASSUME NEW D, Alphabet(D), NEW names \in Seq(Name(D)), NEW rest \in Seq(D),
         Spelled(names) = Root \o rest
  PROVE  Names(rest) = names
<1> DEFINE none == <<>>
           long == Append(rest, "/")
           r == Reading(none, rest)[Len(rest)]
<1>1. /\ "/" \in D /\ Root \in Seq(D) /\ Len(Root) = 1 /\ none \in Seq(Name(D)) /\ Len(rest) \in Nat
      /\ Root = Append(<<>>, "/")
  BY LenProperties DEF Alphabet, Root
<1>2. /\ long \in Seq(D) /\ Len(long) = Len(rest) + 1 /\ long[Len(rest) + 1] = "/"
      /\ \A i \in 1..Len(rest) : long[i] = rest[i]
  BY <1>1, AppendProperties
<1>3. Dir(names) = Root \o long
  <2>1. Dir(names) = (Root \o rest) \o Root /\ long = rest \o Root
    BY <1>1, AppendIsConcat DEF Dir, Root
  <2> HIDE DEF long
  <2> QED BY <1>1, <2>1, ConcatAssociative
<1>4. LeadsTo(none, Root, none)
  <2>1. <<>> \in Word(D) /\ Enter(<<>>, <<>>) = <<>> /\ <<>> \in Seq(Name(D))
    BY DEF Word, Enter
  <2>2. LeadsTo(<<>>, Append(<<>>, "/"), Enter(<<>>, <<>>))
    BY <2>1, ReadWord
  <2> QED BY <1>1, <2>1, <2>2
<1>5. LeadsTo(none, Dir(names), names)
  BY DirLeads
<1> HIDE DEF none, long
<1>6. /\ Len(Root \o long) = 1 + Len(long)
      /\ \A i \in 0..Len(long) : Reading(none, Root \o long)[1 + i] = Reading(none, long)[i]
  <2>1. /\ Len(Root \o long) = Len(Root) + Len(long)
        /\ \A i \in 0..Len(long) : Reading(none, Root \o long)[Len(Root) + i] = Reading(none, long)[i]
    <3> DEFINE first == Root
    <3>1. /\ first \in Seq(D) /\ LeadsTo(none, first, none)
          /\ none \in Seq(Name(D)) /\ long \in Seq(D)
      BY <1>1, <1>2, <1>4
    <3> HIDE DEF r, first
    <3>2. /\ Len(first \o long) = Len(first) + Len(long)
          /\ \A i \in 0..Len(long) : Reading(none, first \o long)[Len(first) + i] = Reading(none, long)[i]
      BY <3>1, ReadingOn
    <3> QED BY <3>2 DEF first
  <2> QED BY <1>1, <2>1
<1>7. Reading(none, long)[Len(long)] = Fresh(names)
  <2>1. Len(long) \in 0..Len(long)
    BY <1>1, <1>2
  <2> QED BY <1>3, <1>5, <1>6, <2>1 DEF LeadsTo
<1>8. Reading(none, long)[Len(rest) + 1] = ReadChar(Reading(none, long)[Len(rest)], "/")
  <2>1. Len(rest) + 1 \in 1..Len(long) /\ (Len(rest) + 1) - 1 = Len(rest)
    BY <1>1, <1>2
  <2>2. \A n \in 1..Len(long) : Reading(none, long)[n] = ReadChar(Reading(none, long)[n-1], long[n])
    BY <1>1, <1>2, ReadingIs
  <2> QED BY <1>2, <2>1, <2>2
<1>9. Reading(none, long)[Len(rest)] = r
  <2>1. Len(rest) \in 0..Len(rest) /\ Len(rest) <= Len(long)
    BY <1>1, <1>2
  <2>2. \A i \in 0..Len(rest) : Reading(none, long)[i] = Reading(none, rest)[i]
    BY <1>1, <1>2, <2>1, ReadingPrefix
  <2> QED BY <2>1, <2>2
<1>10. Names(rest) = Enter(r.names, r.word)
  BY DEF Names, Walk, none
<1> HIDE DEF r
<1>11. Fresh(names) = ReadChar(r, "/")
  BY <1>2, <1>7, <1>8, <1>9
<1>12. names = Enter(r.names, r.word)
  BY <1>11 DEF Fresh, ReadChar
<1> QED BY <1>10, <1>12

-----------------------------------------------------------------------------
(* The inductive invariant                                                 *)

\* The working directory is spelled as its names are, and to_real_path has found it.
IInv ==
  /\ cwd = Dir(Names(cwd)) /\ Names(cwd) \in Seq(Name(Plain))
  /\ RealPath(Joined(Names(cwd))) # NULL

LEMMA DirIInv ==
  ASSUME NEW names \in Seq(Name(Plain)), RealPath(Joined(names)) # NULL, cwd' = Dir(names)
  PROVE  IInv'
<1>1. Names(Dir(names)) = names
  BY Alphabets, NamesOfDir
<1> QED BY <1>1 DEF IInv

\* The root can always be entered.
LEMMA RootIsFound == <<>> \in Seq(Name(Plain)) /\ Dir(<<>>) = Root /\ RealPath(Joined(<<>>)) # NULL
<1>1. <<>> \o Root = Root
  BY DEF Root
<1>2. Dir(<<>>) = Root
  BY <1>1, SpelledEmpty DEF Dir
<1>3. RealPath(Joined(<<>>)) = <<>> /\ <<>> \in Seq(Chars)
  BY DEF RealPath, Joined
<1>4. RealPath(Joined(<<>>)) # NULL
  BY <1>3, CharsAssumption
<1>5. <<>> \in Seq(Name(Plain))
  OBVIOUS
<1> QED BY <1>2, <1>4, <1>5

\* Where a path leads that to_real_path accepts.
LEMMA AcceptedLeads ==
  ASSUME IInv, NEW path \in Seq(Chars), to_real_path(cwd, path) # NULL
  PROVE  \E to \in Seq(Name(Plain)) :
           /\ virtual_abspath(cwd, path) = Joined(to)
           /\ to_real_path(cwd, path) = RealPath(Joined(to))
<1>1. /\ ~Contains(path, ":") /\ virtual_abspath(cwd, path) # NULL
      /\ to_real_path(cwd, path) = RealPath(virtual_abspath(cwd, path))
  BY DEF to_real_path
<1>2. path \in Seq(Plain)
  BY <1>1, NoColon
<1> DEFINE names == Names(cwd)
           to == Walk(IF IsAbsolute(path) THEN <<>> ELSE names, path)
<1>3. names \in Seq(Name(Plain)) /\ cwd = Dir(names)
  BY DEF IInv
<1> HIDE DEF names
<1>4. to \in Seq(Name(Plain)) /\ virtual_abspath(cwd, path) \in {Joined(to), NULL}
  BY <1>2, <1>3, AbspathIs, Alphabets
<1> QED BY <1>1, <1>4

LEMMA ChdirIInv ==
  ASSUME IInv, NEW path \in Seq(Chars), vrt_chdir(path)
  PROVE  IInv'
<1>1. PICK to \in Seq(Name(Plain)) :
        /\ virtual_abspath(cwd, path) = Joined(to)
        /\ to_real_path(cwd, path) = RealPath(Joined(to))
  BY AcceptedLeads DEF vrt_chdir
<1>2. cwd' = Dir(to)
  BY <1>1, Alphabets, JoinedIs DEF vrt_chdir
<1>3. RealPath(Joined(to)) # NULL
  BY <1>1 DEF vrt_chdir
<1> QED BY <1>2, <1>3, DirIInv

LEMMA InitIInv == Init => IInv
<1>1. Names(Dir(<<>>)) = <<>>
  BY RootIsFound, Alphabets, NamesOfDir
<1> QED BY <1>1, RootIsFound DEF Init, IInv

LEMMA NextIInv == IInv /\ [Next]_vars => IInv'
<1> SUFFICES ASSUME IInv, [Next]_vars PROVE IInv'
  OBVIOUS
<1>1. ASSUME NEW path \in Paths, ftp_CWD(path) PROVE IInv'
  BY <1>1, ChdirIInv, CharsAssumption DEF ftp_CWD
<1>2. CASE ftp_CDUP
  <2>1. DotDot \in Seq(Chars)
    BY CharsAssumption DEF DotDot
  <2> QED BY <1>2, <2>1, ChdirIInv DEF ftp_CDUP
<1>3. CASE ftp_REIN
  BY <1>3, RootIsFound, DirIInv DEF ftp_REIN
<1>4. CASE UNCHANGED vars
  BY <1>4 DEF vars, IInv
<1> QED BY <1>1, <1>2, <1>3, <1>4 DEF Next

\* The strengthening is invariant.
THEOREM Invariance == Spec => []IInv
<1> QED BY InitIInv, NextIInv, PTL DEF Spec

\* The automaton of virtual_abspath, with its four states and its pointer to the last
\* slash, computes for every path what the names, dots and slashes in it mean.
THEOREM AbspathIsCorrect == Spec => []AbspathCorrect
<1>1. IInv => AbspathCorrect
  <2> SUFFICES ASSUME IInv, NEW path \in Paths
               PROVE  \/ virtual_abspath(cwd, path)
                           = Joined(Walk(IF IsAbsolute(path) THEN <<>> ELSE Names(cwd), path))
                      \/ virtual_abspath(cwd, path) = NULL /\ ~IsAbsolute(path) /\ ~Fits(cwd \o path)
    BY DEF AbspathCorrect
  <2>1. path \in Seq(Chars)
    BY CharsAssumption
  <2> DEFINE names == Names(cwd)
  <2>2. names \in Seq(Name(Chars)) /\ cwd = Dir(names)
    BY PlainNames DEF IInv
  <2> HIDE DEF names
  <2>3. \/ virtual_abspath(cwd, path) = Joined(Walk(IF IsAbsolute(path) THEN <<>> ELSE names, path))
        \/ virtual_abspath(cwd, path) = NULL /\ ~IsAbsolute(path) /\ ~Fits(cwd \o path)
    BY <2>1, <2>2, Alphabets, AbspathIs
  <2> QED BY <2>3 DEF names
<1> QED BY <1>1, Invariance, PTL

\* The answer to PWD, given to CWD in any directory, leads back to the one it was given in.
THEOREM PwdIsUnique == Spec => []PwdLeadsBack
<1>1. IInv => PwdLeadsBack
  <2> SUFFICES ASSUME IInv PROVE PwdLeadsBack
    OBVIOUS
  <2> DEFINE names == Names(cwd)
  <2>1. names \in Seq(Name(Plain)) /\ cwd = Dir(names) /\ RealPath(Joined(names)) # NULL
    BY DEF IInv
  <2>2. cwd = IF names = <<>> THEN Root ELSE Joined(names) \o Root
    <3> HIDE DEF names
    <3> QED BY <2>1, RootIsFound DEF Joined, Dir
  <2>3. virtual_abspath(Root, cwd) = Joined(names)
    <3>1. cwd \in Seq(Plain) /\ IsAbsolute(cwd)
      <4> HIDE DEF names
      <4> QED BY <2>1, Alphabets, DirSeq, DirIsAbsolute
    <3>2. Normalised(cwd) = Joined(Names(cwd))
      BY <3>1, Alphabets, NormalisedIs
    <3> QED BY <3>1, <3>2 DEF virtual_abspath
  <2> HIDE DEF names
  <2>4. AsDirectory(virtual_abspath(Root, cwd)) = cwd
    BY <2>1, <2>3, Alphabets, JoinedIs
  <2>5. to_real_path(Root, cwd) # NULL
    <3>1. cwd \in Seq(Plain) /\ cwd \in Seq(Chars) /\ Joined(names) \in Seq(Chars)
      BY <2>1, Alphabets, DirSeq, JoinedIs, PlainNames
    <3>2. ~Contains(cwd, ":")
      BY <3>1, NoColon
    <3>3. Joined(names) # NULL
      BY <3>1, CharsAssumption
    <3> QED BY <2>1, <2>3, <3>2, <3>3 DEF to_real_path
  <2> QED BY <2>2, <2>4, <2>5 DEF PwdLeadsBack, names
<1> QED BY <1>1, Invariance, PTL

\* The working directory is an absolute path, whatever the clients name.
THEOREM TypeCorrect == Spec => []TypeOK
<1>1. IInv => TypeOK
  <2> SUFFICES ASSUME IInv PROVE TypeOK
    OBVIOUS
  <2> DEFINE names == Names(cwd)
  <2>1. names \in Seq(Name(Plain)) /\ cwd = Dir(names)
    BY DEF IInv
  <2> HIDE DEF names
  <2>2. cwd \in Seq(Chars) /\ IsAbsolute(cwd)
    BY <2>1, Alphabets, DirSeq, DirIsAbsolute, PlainNames
  <2> QED BY <2>2 DEF TypeOK
<1> QED BY <1>1, Invariance, PTL

\* The working directory and the one byte behind it that its zero byte may need.
CwdLength == Len(cwd) <= MAXPATHLEN

\* vrt_chdir: only directories that to_real_path finds are entered, so that the working
\* directory misses CwdFits by no more than the slash that is appended to it.
THEOREM CwdLengthBounded == Spec => []CwdLength
<1>1. IInv => CwdLength
  <2> SUFFICES ASSUME IInv PROVE CwdLength
    OBVIOUS
  <2> DEFINE names == Names(cwd)
             path == Spelled(names)
  <2>1. names \in Seq(Name(Plain)) /\ cwd = Dir(names) /\ RealPath(Joined(names)) # NULL
    BY DEF IInv
  <2> HIDE DEF names
  <2>2. /\ path \in Seq(Plain) /\ Len(path) \in Nat
        /\ cwd \in Seq(Plain) /\ cwd \in Seq(Chars) /\ Len(cwd) = Len(path) + 1
    BY <2>1, Alphabets, SpelledSeq, LenProperties, DirSeq, PlainNames
  <2>3. MAXPATHLEN \in Nat /\ MAXPATHLEN # 0
    BY AliasAssumption
  <2>4. CASE names = <<>>
    <3>1. Len(path) = 0
      BY <2>4, SpelledEmpty
    <3> QED BY <2>2, <2>3, <3>1 DEF CwdLength
  <2>5. CASE names # <<>>
    <3>1. path # Root /\ RealPath(path) # NULL
      <4>1. Joined(names) # Root
        BY <2>1, <2>5, Alphabets, JoinedIs
      <4> QED BY <2>1, <2>5, <4>1 DEF Joined
    <3> HIDE DEF path
    <3>2. PICK i \in DOMAIN VIRTUAL_PARTITIONS :
            IsBelow(Alias(i), path) /\ Fits(Prefix(i) \o RestOf(Alias(i), path))
      BY <3>1, FoundIs
    <3> DEFINE rest == RestOf(Alias(i), path)
               D == Plain
    <3>3. /\ rest \in Seq(D) /\ Len(rest) \in Nat
          /\ IF rest = <<>> THEN Len(path) \in {Len(Alias(i)), Len(Alias(i)) + 1}
             ELSE Len(path) = Len(Alias(i)) + 1 + Len(rest)
      <4>1. D \subseteq Chars /\ path \in Seq(D)
        BY <2>2 DEF Plain
      <4> HIDE DEF D
      <4> QED BY <3>2, <4>1, RestIs
    <3>4. /\ Prefix(i) \in Seq(Chars) /\ Len(Prefix(i)) = Len(Alias(i)) + 1
          /\ Len(Alias(i)) \in Nat /\ rest \in Seq(Chars)
      BY <3>3, AliasIs, PlainNames
    <3>5. Len(Prefix(i) \o rest) + 1 <= MAXPATHLEN
      BY <3>2 DEF Fits
    <3> HIDE DEF rest
    <3>6. Len(Prefix(i) \o rest) = Len(Prefix(i)) + Len(rest)
      BY <3>4, ConcatProperties
    <3>7. rest = <<>> => Len(rest) = 0
      OBVIOUS
    <3>8. Len(path) + 1 <= MAXPATHLEN
      BY <2>2, <2>3, <3>3, <3>4, <3>5, <3>6, <3>7
    <3> QED BY <2>2, <2>3, <3>8 DEF CwdLength
  <2> QED BY <2>4, <2>5
<1> QED BY <1>1, Invariance, PTL

\* to_real_path: whatever a client names and wherever it is, the real path fits in its
\* array and is a path of names below the prefix of a partition.
THEOREM RealPathsAreConfined == Spec => []RealPathConfined
<1>1. IInv => RealPathConfined
  <2> SUFFICES ASSUME IInv, NEW path \in Paths, to_real_path(cwd, path) \notin {NULL, <<>>}
               PROVE  LET real == to_real_path(cwd, path) IN
                      /\ Len(real) < MAXPATHLEN
                      /\ \E i \in DOMAIN VIRTUAL_PARTITIONS :
                           LET rest == SubSeq(real, Len(Prefix(i)) + 1, Len(real))
                           IN /\ IsPrefix(Prefix(i), real)
                              /\ ~Contains(rest, ":")
                              /\ rest # <<>> => Joined(Names(rest)) = Root \o rest
    BY DEF RealPathConfined, Prefix
  <2> DEFINE real == to_real_path(cwd, path)
             D == Plain
  <2>1. PICK to \in Seq(Name(D)) : real = RealPath(Joined(to))
    <3>1. path \in Seq(Chars)
      BY CharsAssumption
    <3> QED BY <3>1, AcceptedLeads
  <2>2. Alphabet(D) /\ D \subseteq Chars
    BY Alphabets DEF Plain
  <2>3. Joined(to) # Root /\ RealPath(Joined(to)) # NULL
    BY <2>1 DEF RealPath
  <2> HIDE DEF D
  <2> DEFINE virtual == Spelled(to)
  <2>4. to # <<>> /\ Joined(to) = virtual /\ virtual \in Seq(D)
    BY <2>2, <2>3, SpelledSeq DEF Joined
  <2>5. PICK i \in DOMAIN VIRTUAL_PARTITIONS :
          /\ IsBelow(Alias(i), virtual)
          /\ RealPath(virtual) = Prefix(i) \o RestOf(Alias(i), virtual)
          /\ Fits(Prefix(i) \o RestOf(Alias(i), virtual))
    <3> HIDE DEF virtual
    <3> QED BY <2>3, <2>4, FoundIs
  <2> DEFINE alias == Alias(i)
             prefix == Prefix(i)
             rest == RestOf(alias, virtual)
  <2>6. /\ rest \in Seq(D) /\ Len(rest) \in Nat
        /\ rest # <<>> =>
             /\ virtual[Len(alias) + 1] = "/"
             /\ Len(virtual) = Len(alias) + 1 + Len(rest)
             /\ \A j \in 1..Len(rest) : rest[j] = virtual[Len(alias) + 1 + j]
    <3> HIDE DEF virtual
    <3> QED BY <2>2, <2>4, <2>5, RestIs
  <2>7. /\ prefix \in Seq(Chars) /\ Len(prefix) \in Nat /\ rest \in Seq(Chars)
        /\ Len(alias) \in Nat /\ MAXPATHLEN \in Nat
    BY <2>2, <2>6, AliasIs, LenProperties, SeqMonotonic, AliasAssumption
  <2>8. real = prefix \o rest /\ Len(real) + 1 <= MAXPATHLEN
    BY <2>1, <2>4, <2>5 DEF Fits
  <2> HIDE DEF alias, prefix, rest, virtual, real
  <2>9. /\ prefix \o rest \in Seq(Chars) /\ Len(prefix \o rest) = Len(prefix) + Len(rest)
        /\ \A j \in 1..Len(prefix) + Len(rest) :
             (prefix \o rest)[j] = IF j <= Len(prefix) THEN prefix[j] ELSE rest[j - Len(prefix)]
    BY <2>7, ConcatProperties
  <2>10. Len(real) < MAXPATHLEN
    BY <2>6, <2>7, <2>8, <2>9
  <2>11. IsPrefix(prefix, prefix \o rest)
    <3>1. SubSeq(prefix, 1, Len(prefix)) = prefix
      BY <2>7, SubSeqFull
    <3>2. SubSeq(prefix \o rest, 1, Len(prefix)) = prefix
      BY <2>7, PrefixOfConcat
    <3> QED BY <2>6, <2>7, <2>9, <3>1, <3>2 DEF IsPrefix
  <2>12. SubSeq(prefix \o rest, Len(prefix) + 1, Len(prefix \o rest)) = rest
    BY <2>7, RestOfConcat
  <2>13. ~Contains(rest, ":")
    BY <2>6, <2>7, NoColon DEF D
  <2>14. ASSUME rest # <<>> PROVE Joined(Names(rest)) = Root \o rest
    <3> DEFINE k == Len(alias) + 1
    <3>1. k \in 1..Len(virtual) /\ virtual[k] = "/" /\ k - 1 = Len(alias)
      BY <2>6, <2>7, <2>14
    <3>2. PICK above \in Seq(Name(D)), below \in Seq(Name(D)) :
            virtual = Spelled(above) \o Spelled(below) /\ Len(Spelled(above)) = k - 1
      <4> HIDE DEF k
      <4> QED BY <2>2, <3>1, SlashDivides DEF virtual
    <3> DEFINE first == Spelled(above)
               last == Spelled(below)
    <3>3. /\ first \in Seq(D) /\ last \in Seq(D) /\ Len(first) = Len(alias) /\ Len(last) \in Nat
          /\ virtual = first \o last
      BY <2>2, <3>1, <3>2, SpelledSeq, LenProperties
    <3> HIDE DEF first, last
    <3>4. /\ Len(virtual) = Len(alias) + Len(last)
          /\ \A j \in 1..Len(alias) + Len(last) : virtual[j] =
               IF j <= Len(alias) THEN first[j] ELSE last[j - Len(alias)]
      <4>1. /\ Len(first \o last) = Len(first) + Len(last)
            /\ \A j \in 1..Len(first) + Len(last) : (first \o last)[j] =
                 IF j <= Len(first) THEN first[j] ELSE last[j - Len(first)]
        BY <3>3, ConcatProperties
      <4> QED BY <3>3, <4>1
    <3>5. Len(last) = 1 + Len(rest) /\ Len(last) # 0
      BY <2>6, <2>7, <2>14, <3>3, <3>4
    <3>6. last = Root \o rest
      <4>1. Root \in Seq(D) /\ Len(Root) = 1 /\ Root[1] = "/"
        BY <2>2 DEF Alphabet, Root
      <4>2. /\ Root \o rest \in Seq(D) /\ Len(Root \o rest) = Len(Root) + Len(rest)
            /\ \A j \in 1..Len(Root) + Len(rest) : (Root \o rest)[j] =
                 IF j <= Len(Root) THEN Root[j] ELSE rest[j - Len(Root)]
        BY <2>6, <4>1, ConcatProperties
      <4>3. ASSUME NEW j \in 1..Len(last) PROVE last[j] = (Root \o rest)[j]
        <5>1. /\ Len(alias) + j \in 1..Len(alias) + Len(last) /\ ~(Len(alias) + j <= Len(alias))
              /\ (Len(alias) + j) - Len(alias) = j
          BY <2>7, <3>3
        <5>2. last[j] = virtual[Len(alias) + j]
          BY <3>4, <5>1
        <5>3. CASE j = 1
          BY <3>1, <3>5, <4>1, <4>2, <5>2, <5>3, <2>6
        <5>4. CASE j # 1
          <6>1. /\ j - 1 \in 1..Len(rest) /\ Len(alias) + 1 + (j - 1) = Len(alias) + j
                /\ j \in 1..1 + Len(rest) /\ ~(j <= 1)
            BY <2>6, <2>7, <3>5, <5>4
          <6>2. rest[j - 1] = virtual[Len(alias) + j]
            BY <2>6, <2>14, <6>1
          <6> QED BY <4>1, <4>2, <5>2, <6>1, <6>2
        <5> QED BY <5>3, <5>4
      <4>4. Len(last) = Len(Root \o rest)
        BY <3>5, <4>1, <4>2
      <4> QED BY <3>3, <4>2, <4>3, <4>4, SeqEqual
    <3>7. Names(rest) = below
      BY <2>2, <2>6, <3>6, NamesOfRest DEF last
    <3>8. below # <<>>
      <4>1. below = <<>> => Len(last) = 0
        BY SpelledEmpty DEF last
      <4> QED BY <3>5, <4>1
    <3> QED BY <3>6, <3>7, <3>8 DEF Joined, last
  <2> QED BY <2>8, <2>10, <2>11, <2>12, <2>13, <2>14 DEF prefix, real
<1> QED BY <1>1, Invariance, PTL

\* The names that vrt_dirnext lists of the root lead from every working directory to
\* their partitions, whatever the table.
THEOREM ListedAreReachable == Spec => []ListedIsReachable
<1>1. ASSUME NEW i \in DOMAIN VIRTUAL_PARTITIONS
      PROVE  to_real_path(cwd, Root \o Tail(Alias(i))) = Prefix(i)
  <2> DEFINE name == Tail(Alias(i))
             alias == Alias(i)
             none == <<>>
             names == <<name>>
             D == Plain
  <2>1. /\ name \in Name(D) /\ alias = Root \o name /\ alias \in Seq(D) /\ alias \in Seq(Chars)
        /\ RealPath(alias) = Prefix(i)
    BY AliasIs, AliasLeads
  <2>2. Alphabet(D) /\ none \in Seq(Name(D)) /\ names = Append(none, name)
    BY Alphabets
  <2>3. Dir(none) = Root /\ none \o Root = Root
    BY RootIsFound DEF Root
  <2>4. Spelled(names) = Root \o name
    <3>1. Spelled(none) = none
      BY SpelledEmpty
    <3> HIDE DEF none, names, name, D
    <3> QED BY <2>1, <2>2, <2>3, <3>1, SpelledAppend, ZenonT(60)
  <2>5. names \in Seq(Name(D)) /\ names # <<>> /\ name \in Seq(D)
    <3>1. name \in Seq(D)
      BY <2>1, SeqMonotonic DEF Name, Word
    <3> HIDE DEF D, name
    <3> QED BY <2>1, <3>1
  <2> HIDE DEF name, names, D, alias
  <2>6. Names(name) = names
    BY <2>2, <2>4, <2>5, NamesOfRest
  <2>7. IsAbsolute(alias) /\ Names(alias) = names
    <3> HIDE DEF none
    <3>1. /\ IsAbsolute(Dir(none) \o name)
          /\ Names(Dir(none) \o name) = Walk(none, name)
      BY <2>2, <2>5, NamesBehindDir
    <3> QED BY <2>1, <2>3, <2>6, <3>1 DEF Names, none
  <2>8. virtual_abspath(cwd, alias) = alias
    <3>1. Normalised(alias) = Joined(names)
      BY <2>1, <2>2, <2>7, NormalisedIs
    <3>2. Joined(names) = alias
      BY <2>1, <2>4, <2>5 DEF Joined
    <3> QED BY <2>7, <3>1, <3>2 DEF virtual_abspath
  <2>9. ~Contains(alias, ":") /\ alias # NULL
    BY <2>1, NoColon, CharsAssumption DEF D
  <2> QED BY <2>1, <2>8, <2>9 DEF to_real_path, name
<1>2. ListedIsReachable
  <2> SUFFICES ASSUME NEW mounted \in SUBSET DOMAIN VIRTUAL_PARTITIONS
               PROVE  {to_real_path(cwd, Root \o name) : name \in RootListing(mounted)}
                        = {Prefix(i) : i \in mounted}
    BY DEF ListedIsReachable, Prefix
  <2>1. RootListing(mounted) = {Tail(Alias(i)) : i \in mounted}
    BY DEF RootListing, Alias
  <2> QED BY <1>1, <2>1
<1> QED BY <1>2, PTL

=============================================================================
