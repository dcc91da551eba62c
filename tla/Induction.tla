----------------------------- MODULE Induction -----------------------------
(***************************************************************************)
(* Induction over the natural numbers, stated with sets, so that it can be *)
(* used where an operator could not be instantiated; and what it gives:    *)
(* the first element of a set, and runs, the functions that a recursive    *)
(* definition over the positions of a sequence stands for.                 *)
(***************************************************************************)
EXTENDS Integers, WellFoundedInduction, SequenceTheorems, TLAPS

Below == {p \in Nat \X Nat : p[1] < p[2]}

LEMMA BelowIsWellFounded == IsWellFoundedOn(Below, Nat)
BY NatLessThanWellFounded DEF OpToRel, Below

\* A set of natural numbers has a first element.
LEMMA LeastNatural ==
  ASSUME NEW T \in SUBSET Nat, T # {}
  PROVE  \E m \in T : \A k \in T : m <= k
<1>1. PICK m \in T : \A k \in T : <<k, m>> \notin Below
  BY BelowIsWellFounded, WFMin
<1>2. ASSUME NEW k \in T PROVE m <= k
  <2>1. <<k, m>> \in Nat \X Nat
    OBVIOUS
  <2>2. ~(k < m)
    BY <1>1, <2>1 DEF Below
  <2> QED BY <2>2
<1> QED BY <1>2

\* And a last one, if it is bounded.
LEMMA GreatestNatural ==
  ASSUME NEW T \in SUBSET Nat, T # {}, NEW n \in Nat, \A k \in T : k <= n
  PROVE  \E m \in T : \A k \in T : k <= m
<1> DEFINE U == {m \in Nat : \A k \in T : k <= m}
<1>1. PICK m \in U : \A k \in U : m <= k
  <2>1. n \in U
    OBVIOUS
  <2> QED BY <2>1, LeastNatural
<1>2. m \in T
  <2> SUFFICES ASSUME m \notin T PROVE FALSE
    OBVIOUS
  <2>1. \A k \in T : k <= m - 1
    OBVIOUS
  <2>2. m - 1 \in Nat
    <3>1. PICK k \in T : TRUE
      OBVIOUS
    <3>2. k \in Nat /\ k <= m - 1
      BY <2>1, <3>1
    <3> QED BY <3>2
  <2> QED BY <1>1, <2>1, <2>2
<1> QED BY <1>2

\* Induction.
LEMMA SetInduction ==
  ASSUME NEW T, 0 \in T, \A n \in Nat : n \in T => n + 1 \in T
  PROVE  Nat \subseteq T
<1> DEFINE U == {n \in Nat : n \notin T}
<1> SUFFICES ASSUME U # {} PROVE FALSE
  OBVIOUS
<1>1. PICK m \in U : \A k \in U : m <= k
  BY LeastNatural
<1>2. m # 0
  OBVIOUS
<1>3. m - 1 \in Nat /\ m - 1 \notin U
  BY <1>1, <1>2
<1> QED BY <1>3

\* Induction up to n.
LEMMA BoundedInduction ==
  ASSUME NEW n \in Nat, NEW T, 0 \in T, \A i \in 1..n : i - 1 \in T => i \in T
  PROVE  0..n \subseteq T
<1> DEFINE U == {i \in Nat : i <= n => i \in T}
<1>1. 0 \in U
  OBVIOUS
<1>2. ASSUME NEW i \in Nat, i \in U PROVE i + 1 \in U
  <2> SUFFICES ASSUME i + 1 <= n PROVE i + 1 \in T
    OBVIOUS
  <2>1. i + 1 \in 1..n /\ (i + 1) - 1 = i /\ i \in T
    BY <1>2
  <2> QED BY <2>1
<1> HIDE DEF U
<1>3. Nat \subseteq U
  BY <1>1, <1>2, SetInduction
<1> QED BY <1>3 DEF U

\* Induction over sequences, by their last element.
LEMMA SequenceInduction ==
  ASSUME NEW S, NEW T, <<>> \in T, \A s \in Seq(S), e \in S : s \in T => Append(s, e) \in T
  PROVE  Seq(S) \subseteq T
<1> DEFINE U == {n \in Nat : \A s \in Seq(S) : Len(s) = n => s \in T}
<1>1. 0 \in U
  <2>1. \A s \in Seq(S) : Len(s) = 0 => s = <<>>
    BY EmptySeq
  <2> QED BY <2>1
<1>2. ASSUME NEW n \in Nat, n \in U PROVE n + 1 \in U
  <2> SUFFICES ASSUME NEW s \in Seq(S), Len(s) = n + 1 PROVE s \in T
    OBVIOUS
  <2>1. s # <<>>
    BY EmptySeq
  <2>2. PICK t \in Seq(S), e \in S : s = Append(t, e)
    BY <2>1, SequenceEmptyOrAppend
  <2>3. Len(t) \in Nat /\ Len(s) = Len(t) + 1
    BY <2>2, AppendProperties, LenProperties
  <2>4. t \in T
    BY <1>2, <2>3
  <2> QED BY <2>2, <2>4
<1> HIDE DEF U
<1>3. Nat \subseteq U
  BY <1>1, <1>2, SetInduction
<1>4. ASSUME NEW s \in Seq(S) PROVE s \in T
  BY <1>3, LenProperties DEF U
<1> QED BY <1>4

-----------------------------------------------------------------------------

\* Where a step function leads from base along input.
IsRun(r, base, step, input, n) ==
  r = [i \in 0..n |-> IF i = 0 THEN base ELSE step[<<r[i - 1], input[i]>>]]

\* There is a run along every input, in the states that step does not leave.
LEMMA RunExists ==
  ASSUME NEW S, NEW X, NEW base \in S, NEW step \in [S \X X -> S],
         NEW n \in Nat, NEW input, \A i \in 1..n : input[i] \in X
  PROVE  \E r \in [0..n -> S] : IsRun(r, base, step, input, n)
<1> DEFINE T == {m \in 0..n : \E r \in [0..m -> S] : IsRun(r, base, step, input, m)}
<1>1. 0 \in T
  <2> DEFINE r == [i \in 0..0 |-> base]
  <2>1. r \in [0..0 -> S] /\ IsRun(r, base, step, input, 0)
    BY DEF IsRun
  <2> QED BY <2>1
<1>2. ASSUME NEW m \in 1..n, m - 1 \in T PROVE m \in T
  <2>1. PICK r \in [0..m - 1 -> S] : IsRun(r, base, step, input, m - 1)
    BY <1>2
  <2> DEFINE q == [i \in 0..m |-> IF i = m THEN step[<<r[m - 1], input[m]>>] ELSE r[i]]
  <2>2. r[m - 1] \in S /\ input[m] \in X /\ <<r[m - 1], input[m]>> \in S \X X
    BY <2>1
  <2>3. q \in [0..m -> S]
    BY <2>1, <2>2
  <2>4. ASSUME NEW i \in 0..m
        PROVE  q[i] = IF i = 0 THEN base ELSE step[<<q[i - 1], input[i]>>]
    <3>1. CASE i = m
      <4>1. m # 0 /\ m - 1 \in 0..m /\ m - 1 # m
        OBVIOUS
      <4>2. q[m - 1] = r[m - 1]
        BY <4>1
      <4> QED BY <3>1, <4>1, <4>2
    <3>2. CASE i # m
      <4>1. i \in 0..m - 1
        BY <3>2
      <4>2. r[i] = IF i = 0 THEN base ELSE step[<<r[i - 1], input[i]>>]
        BY <2>1, <4>1 DEF IsRun
      <4>3. i # 0 => i - 1 \in 0..m /\ i - 1 # m
        BY <4>1
      <4> QED BY <3>2, <4>2, <4>3
    <3> QED BY <3>1, <3>2
  <2>5. IsRun(q, base, step, input, m)
    <3> HIDE DEF q
    <3> QED BY <2>3, <2>4 DEF IsRun
  <2> QED BY <2>3, <2>5
<1> HIDE DEF T
<1>3. 0..n \subseteq T
  BY <1>1, <1>2, BoundedInduction
<1>4. n \in T
  BY <1>3
<1> QED BY <1>4 DEF T

\* There is one run only.
LEMMA RunUnique ==
  ASSUME NEW base, NEW step, NEW n \in Nat, NEW m \in 0..n, NEW input, NEW input2,
         \A i \in 1..m : input[i] = input2[i],
         NEW r, IsRun(r, base, step, input, m),
         NEW q, IsRun(q, base, step, input2, n)
  PROVE  \A i \in 0..m : r[i] = q[i]
<1> DEFINE T == {i \in 0..m : r[i] = q[i]}
<1>1. /\ \A i \in 0..m : r[i] = IF i = 0 THEN base ELSE step[<<r[i - 1], input[i]>>]
      /\ \A i \in 0..n : q[i] = IF i = 0 THEN base ELSE step[<<q[i - 1], input2[i]>>]
  BY DEF IsRun
<1>2. 0 \in T
  <2>1. 0 \in 0..m /\ 0 \in 0..n
    OBVIOUS
  <2> QED BY <1>1, <2>1
<1>3. ASSUME NEW i \in 1..m, i - 1 \in T PROVE i \in T
  <2>1. i \in 0..m /\ i \in 0..n /\ i # 0
    OBVIOUS
  <2> QED BY <1>1, <1>3, <2>1
<1> HIDE DEF T
<1>4. 0..m \subseteq T
  BY <1>2, <1>3, BoundedInduction
<1> QED BY <1>4 DEF T

=============================================================================
