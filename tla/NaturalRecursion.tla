-------------------------- MODULE NaturalRecursion --------------------------
(***************************************************************************)
(* Induction and recursion over the natural numbers and over sequences, in *)
(* a form that takes a set where the library's theorems take an operator.  *)
(* They rest on one library fact about well-founded relations: a set of    *)
(* natural numbers that is not empty has a least element.                  *)
(***************************************************************************)
EXTENDS Integers, Sequences, WellFoundedInduction, TLAPS

\* The order of the natural numbers as a relation.
LEMMA LessOnNat == OpToRel(<, Nat) = {ss \in Nat \X Nat : ss[1] < ss[2]}
  BY Zenon DEF OpToRel

\* A set of natural numbers that is not empty has a least element.
LEMMA LeastNumber ==
  ASSUME NEW S, S \subseteq Nat, S # {}
  PROVE  \E n \in S : \A m \in S : n <= m
  <1>1. PICK n \in S : \A m \in S : ~ (<<m, n>> \in OpToRel(<, Nat))
    BY WFMin, NatLessThanWellFounded
  <1>2. ASSUME NEW m \in S PROVE n <= m
    <2>1. ~ (<<m, n>> \in {ss \in Nat \X Nat : ss[1] < ss[2]})
      BY <1>1, <1>2, LessOnNat
    <2>2. <<m, n>> \in Nat \X Nat /\ <<m, n>>[1] = m /\ <<m, n>>[2] = n
      BY <1>2
    <2>3. ~ (m < n) BY <2>1, <2>2
    <2>4. QED BY <2>3, <1>2
  <1>3. QED BY <1>2

\* A set with 0 in it, and the successor of each of its numbers, holds every
\* natural number.
LEMMA Induction ==
  ASSUME NEW S, 0 \in S, \A n \in Nat : n \in S => n + 1 \in S
  PROVE  \A n \in Nat : n \in S
  <1> SUFFICES ASSUME Nat \ S # {} PROVE FALSE
    OBVIOUS
  <1>1. PICK n \in Nat \ S : \A m \in Nat \ S : n <= m
    BY LeastNumber
  <1>2. n - 1 \in Nat /\ n - 1 \in S
    BY <1>1
  <1>3. QED BY <1>1, <1>2

\* Functions that make the element at a place from the one before it, and the
\* sequence that such a function makes from a.
Steps(A) == [Nat \X A -> A]
Iterates(f, A, a, step) ==
  /\ f \in [Nat -> A]
  /\ f[0] = a
  /\ \A i \in Nat : f[i + 1] = step[<<i, f[i]>>]

\* A sequence can be defined by its first element and the step to the next.
LEMMA Recursion ==
  ASSUME NEW A, NEW a, a \in A, NEW step, step \in Steps(A)
  PROVE  \E f : Iterates(f, A, a, step)
  <1> USE DEF Steps
  <1> DEFINE Upto(n, g) == /\ g \in [0 .. n -> A]
                           /\ g[0] = a
                           /\ \A i \in 0 .. n - 1 : g[i + 1] = step[<<i, g[i]>>]
             Has == {n \in Nat : \E g : Upto(n, g)}
  <1>1. \A n \in Nat : n \in Has
    <2>1. 0 \in Has
      <3>1. Upto(0, [i \in 0 .. 0 |-> a]) OBVIOUS
      <3>2. QED BY <3>1
    <2>2. ASSUME NEW n \in Nat, n \in Has PROVE n + 1 \in Has
      <3>1. PICK g : Upto(n, g) BY <2>2
      <3> DEFINE h == [i \in 0 .. n + 1 |-> IF i = n + 1 THEN step[<<n, g[n]>>] ELSE g[i]]
      <3>2. h \in [0 .. n + 1 -> A] BY <3>1
      <3>3. h[0] = a BY <3>1
      <3>4. ASSUME NEW i \in 0 .. n PROVE h[i + 1] = step[<<i, h[i]>>]
        <4>1. h[i] = g[i] OBVIOUS
        <4>2. h[i + 1] = IF i = n THEN step[<<n, g[n]>>] ELSE g[i + 1] OBVIOUS
        <4>3. i # n => g[i + 1] = step[<<i, g[i]>>] BY <3>1
        <4> HIDE DEF h
        <4>4. QED BY <4>1, <4>2, <4>3
      <3>5. Upto(n + 1, h)
        <4>1. 0 .. (n + 1) - 1 = 0 .. n OBVIOUS
        <4> HIDE DEF h
        <4>2. QED BY <3>2, <3>3, <3>4, <4>1
      <3> HIDE DEF Upto, h
      <3>6. QED BY <3>5
    <2> HIDE DEF Has
    <2>3. QED BY <2>1, <2>2, Induction
  <1>2. ASSUME NEW n \in Nat, NEW m \in Nat, NEW g, NEW h, Upto(n, g), Upto(m, h)
        PROVE  \A i \in 0 .. n \cap 0 .. m : g[i] = h[i]
    <2> DEFINE Same == {i \in Nat : i \in 0 .. n \cap 0 .. m => g[i] = h[i]}
    <2>1. 0 \in Same BY <1>2
    <2>2. ASSUME NEW i \in Nat, i \in Same PROVE i + 1 \in Same
      <3> SUFFICES ASSUME i + 1 \in 0 .. n, i + 1 \in 0 .. m PROVE g[i + 1] = h[i + 1]
        OBVIOUS
      <3>1. i \in 0 .. n - 1 /\ i \in 0 .. m - 1 OBVIOUS
      <3>2. g[i] = h[i] BY <2>2, <3>1
      <3>3. g[i + 1] = step[<<i, g[i]>>] /\ h[i + 1] = step[<<i, h[i]>>]
        BY <1>2, <3>1
      <3>4. QED BY <3>2, <3>3
    <2>3. \A i \in Nat : i \in Same
      <3> HIDE DEF Same
      <3>1. QED BY <2>1, <2>2, Induction
    <2>4. QED BY <2>3
  <1> DEFINE G(n) == CHOOSE g : Upto(n, g)
             F == [n \in Nat |-> G(n)[n]]
  <1>3. \A n \in Nat : Upto(n, G(n))
    BY <1>1, Zenon
  <1> HIDE DEF G
  <1>4. F \in [Nat -> A] BY <1>3
  <1>5. F[0] = a BY <1>3
  <1>6. ASSUME NEW i \in Nat PROVE F[i + 1] = step[<<i, F[i]>>]
    <2>1. G(i + 1)[i] = G(i)[i]
      <3>1. Upto(i + 1, G(i + 1)) /\ Upto(i, G(i)) BY <1>3
      <3>2. \A j \in 0 .. i + 1 \cap 0 .. i : G(i + 1)[j] = G(i)[j]
        <4> HIDE DEF Upto
        <4>1. QED BY <1>2, <3>1
      <3>3. QED BY <3>2
    <2>2. G(i + 1)[i + 1] = step[<<i, G(i + 1)[i]>>] BY <1>3
    <2>3. QED BY <2>1, <2>2
  <1>7. Iterates(F, A, a, step) BY <1>4, <1>5, <1>6 DEF Iterates
  <1>8. QED BY <1>7

\* The same, up to L.
IteratesUpTo(L, f, A, a, step) ==
  /\ f \in [0 .. L -> A]
  /\ f[0] = a
  /\ \A i \in 1 .. L : f[i] = step[<<i - 1, f[i - 1]>>]

\* So can its first L elements.
LEMMA BoundedRecursion ==
  ASSUME NEW L, L \in Nat, NEW A, NEW a, a \in A, NEW step, step \in Steps(A)
  PROVE  \E f : IteratesUpTo(L, f, A, a, step)
  <1>1. PICK f : Iterates(f, A, a, step) BY Recursion
  <1> USE DEF Iterates
  <1> DEFINE g == [i \in 0 .. L |-> f[i]]
  <1>2. g \in [0 .. L -> A] /\ g[0] = a BY <1>1
  <1>3. ASSUME NEW i \in 1 .. L PROVE g[i] = step[<<i - 1, g[i - 1]>>]
    <2>1. i - 1 \in Nat /\ (i - 1) + 1 = i OBVIOUS
    <2>2. f[i] = step[<<i - 1, f[i - 1]>>] BY <1>1, <2>1
    <2>3. g[i] = f[i] /\ g[i - 1] = f[i - 1] BY <2>1
    <2> HIDE DEF g
    <2>4. QED BY <2>2, <2>3
  <1>4. QED BY <1>2, <1>3 DEF IteratesUpTo

\* A set with the empty sequence in it, and each of its sequences with one more
\* element at the end, holds every sequence.
LEMMA SequenceInduction ==
  ASSUME NEW A, NEW S, << >> \in S,
         \A s \in Seq(A), e \in A : s \in S => Append(s, e) \in S
  PROVE  \A s \in Seq(A) : s \in S
  <1> DEFINE Long == {n \in Nat : \A s \in Seq(A) : Len(s) = n => s \in S}
  <1>1. 0 \in Long
    <2>1. ASSUME NEW s \in Seq(A), Len(s) = 0 PROVE s = << >> BY <2>1
    <2>2. QED BY <2>1
  <1>2. ASSUME NEW n \in Nat, n \in Long PROVE n + 1 \in Long
    <2>1. ASSUME NEW s \in Seq(A), Len(s) = n + 1 PROVE s \in S
      <3> DEFINE front == SubSeq(s, 1, n)
      <3>1. front \in Seq(A) /\ Len(front) = n /\ \A i \in 1 .. n : front[i] = s[i]
        BY <2>1
      <3>2. s[n + 1] \in A BY <2>1
      <3>3. s = Append(front, s[n + 1])
        <4> HIDE DEF front
        <4>1. Append(front, s[n + 1]) \in Seq(A) /\ Len(Append(front, s[n + 1])) = n + 1
          BY <3>1, <3>2
        <4>2. ASSUME NEW i \in 1 .. n + 1 PROVE Append(front, s[n + 1])[i] = s[i]
          <5>1. CASE i = n + 1 BY <5>1, <3>1
          <5>2. CASE i # n + 1 BY <5>2, <3>1
          <5>3. QED BY <5>1, <5>2
        <4>3. QED BY <4>1, <4>2, <2>1
      <3>4. front \in S BY <1>2, <3>1
      <3> HIDE DEF front
      <3>5. QED BY <3>1, <3>2, <3>3, <3>4
    <2>2. QED BY <2>1
  <1>3. \A n \in Nat : n \in Long
    <2> HIDE DEF Long
    <2>1. QED BY <1>1, <1>2, Induction
  <1>4. QED BY <1>3
=============================================================================
