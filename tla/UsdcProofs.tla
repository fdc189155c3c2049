----------------------------- MODULE UsdcProofs -----------------------------
(***************************************************************************)
(* What Usdc computes, proved for every base, every number of decimals and *)
(* every text: a ceiling is read as the number it stands for or rejected,  *)
(* and an amount is shown so that it reads back as itself.                 *)
(***************************************************************************)
EXTENDS Usdc, NaturalRecursion, SequenceTheorems, TLAPS

\* Power is what its definition says: the recursion has a solution.
LEMMA PowerIs ==
  /\ Power[0] = 1
  /\ \A n \in Nat : Power[n + 1] = Base * Power[n]
  /\ \A n \in Nat : Power[n] \in Nat /\ Power[n] > 0
  <1> DEFINE Defines(f) == f = [n \in Nat |-> IF n = 0 THEN 1 ELSE Base * f[n - 1]]
  <1>1. \E f : Defines(f)
    <2> DEFINE step == [p \in Nat \X Nat |-> Base * p[2]]
    <2>1. step \in [Nat \X Nat -> Nat] BY UsdcAssumption
    <2>2. \A i \in Nat, x \in Nat : step[<<i, x>>] = Base * x OBVIOUS
    <2> HIDE DEF step
    <2>3. PICK f : Iterates(f, Nat, 1, step)
      <3>1. 1 \in Nat /\ step \in Steps(Nat) BY <2>1 DEF Steps
      <3>2. QED BY <3>1, Recursion
    <2> USE DEF Iterates
    <2>4. ASSUME NEW n \in Nat PROVE f[n] = IF n = 0 THEN 1 ELSE Base * f[n - 1]
      <3>1. CASE n = 0 BY <3>1, <2>3
      <3>2. CASE n # 0
        <4>1. n - 1 \in Nat /\ (n - 1) + 1 = n BY <3>2
        <4>2. f[n] = step[<<n - 1, f[n - 1]>>] BY <2>3, <4>1
        <4>3. f[n - 1] \in Nat BY <2>3, <4>1
        <4>4. QED BY <2>2, <4>1, <4>2, <4>3, <3>2
      <3>3. QED BY <3>1, <3>2
    <2>5. f = [n \in Nat |-> f[n]] BY <2>3
    <2>6. Defines(f) BY <2>4, <2>5
    <2>7. QED BY <2>6
  <1>2. Defines(Power)
    <2>1. Power = CHOOSE f : Defines(f) BY DEF Power
    <2> HIDE DEF Defines
    <2>2. QED BY <1>1, <2>1
  <1>3. Power[0] = 1 BY <1>2
  <1>4. ASSUME NEW n \in Nat PROVE Power[n + 1] = Base * Power[n]
    <2>1. n + 1 \in Nat /\ n + 1 # 0 /\ (n + 1) - 1 = n OBVIOUS
    <2>2. QED BY <1>2, <2>1
  <1>5. \A n \in Nat : Power[n] \in Nat /\ Power[n] > 0
    <2> DEFINE S == {n \in Nat : Power[n] \in Nat /\ Power[n] > 0}
    <2>1. 0 \in S BY <1>3
    <2>2. ASSUME NEW n \in Nat, n \in S PROVE n + 1 \in S
      <3>1. Base * Power[n] \in Nat /\ Base * Power[n] > 0 BY <2>2, UsdcAssumption
      <3>2. QED BY <1>4, <3>1
    <2>3. \A n \in Nat : n \in S
      <3> HIDE DEF S
      <3>1. QED BY <2>1, <2>2, Induction
    <2>4. QED BY <2>3
  <1>6. QED BY <1>3, <1>4, <1>5

----------------------------------------------------------------------------
(* Value and Worth *)

\* f[i] is the number that the first i digits of s form.
CountsUp(f, s) ==
  /\ f \in [0 .. Len(s) -> Nat]
  /\ f[0] = 0
  /\ \A i \in 1 .. Len(s) : f[i] = f[i - 1] * Base + s[i]

\* f[i] is what the first i digits of s are worth at their places in s.
AddsUp(f, s) ==
  /\ f \in [0 .. Len(s) -> Nat]
  /\ f[0] = 0
  /\ \A i \in 1 .. Len(s) : f[i] = f[i - 1] + s[i] * Power[Len(s) - i]

\* Value is the last of the numbers that are read off one digit at a time.
LEMMA ValueIs ==
  ASSUME NEW s \in Seq(Nat)
  PROVE  \E f : CountsUp(f, s) /\ Value(s) = f[Len(s)]
  <1> DEFINE L == Len(s)
             Defines(f) ==
               f = [i \in 0 .. L |-> IF i = 0 THEN 0 ELSE f[i - 1] * Base + s[i]]
  <1>0. L \in Nat /\ \A i \in 1 .. L : s[i] \in Nat OBVIOUS
  <1>1. \E f : Defines(f)
    <2> DEFINE step == [p \in Nat \X Nat |->
                          p[2] * Base + (IF p[1] + 1 \in 1 .. L THEN s[p[1] + 1] ELSE 0)]
    <2>1. ASSUME NEW i \in Nat, NEW x \in Nat
          PROVE  /\ step[<<i, x>>] \in Nat
                 /\ i + 1 \in 1 .. L => step[<<i, x>>] = x * Base + s[i + 1]
      <3>1. step[<<i, x>>] = x * Base + (IF i + 1 \in 1 .. L THEN s[i + 1] ELSE 0)
        OBVIOUS
      <3>2. x * Base \in Nat BY UsdcAssumption
      <3> HIDE DEF step
      <3>3. QED BY <1>0, <3>1, <3>2
    <2>2. step \in Steps(Nat) BY <2>1 DEF Steps
    <2> HIDE DEF step, L
    <2>3. PICK f : IteratesUpTo(L, f, Nat, 0, step)
      <3>1. L \in Nat /\ 0 \in Nat BY <1>0
      <3>2. QED BY <2>2, <3>1, BoundedRecursion
    <2> USE DEF IteratesUpTo
    <2>4. ASSUME NEW i \in 0 .. L
          PROVE  f[i] = IF i = 0 THEN 0 ELSE f[i - 1] * Base + s[i]
      <3>1. CASE i # 0
        <4>1. i \in 1 .. L /\ i - 1 \in 0 .. L /\ i - 1 \in Nat /\ (i - 1) + 1 = i
          BY <3>1, <1>0
        <4>2. f[i - 1] \in Nat BY <2>3, <4>1
        <4>3. f[i] = step[<<i - 1, f[i - 1]>>] BY <2>3, <4>1
        <4>4. QED BY <2>1, <4>1, <4>2, <4>3, <3>1
      <3>2. QED BY <3>1, <2>3
    <2>5. f = [i \in 0 .. L |-> f[i]] BY <2>3
    <2>6. Defines(f) BY <2>4, <2>5
    <2>7. QED BY <2>6
  <1>2. PICK f : Defines(f) /\ Value(s) = f[L]
    <2>1. Value(s) = (CHOOSE f : Defines(f))[L] BY DEF Value
    <2> HIDE DEF Defines
    <2>2. QED BY <1>1, <2>1
  <1>3. f[0] = 0 /\ \A i \in 1 .. L : f[i] = f[i - 1] * Base + s[i]
    <2>1. f[0] = 0 BY <1>2, <1>0
    <2>2. ASSUME NEW i \in 1 .. L PROVE f[i] = f[i - 1] * Base + s[i]
      <3>1. i \in 0 .. L /\ i # 0 BY <1>0
      <3>2. QED BY <1>2, <3>1
    <2>3. QED BY <2>1, <2>2
  <1>4. \A i \in 0 .. L : f[i] \in Nat
    <2> DEFINE S == {i \in Nat : i \in 0 .. L => f[i] \in Nat}
    <2>1. 0 \in S BY <1>3
    <2>2. ASSUME NEW i \in Nat, i \in S PROVE i + 1 \in S
      <3> SUFFICES ASSUME i + 1 \in 1 .. L PROVE f[i + 1] \in Nat BY <1>0
      <3>1. i \in 0 .. L /\ (i + 1) - 1 = i BY <1>0
      <3>2. f[i] \in Nat BY <2>2, <3>1
      <3>3. f[i + 1] = f[i] * Base + s[i + 1] BY <1>3, <3>1
      <3>4. f[i] * Base \in Nat BY <3>2, UsdcAssumption
      <3>5. QED BY <1>0, <3>3, <3>4
    <2> HIDE DEF S
    <2>3. \A i \in Nat : i \in S BY <2>1, <2>2, Induction
    <2> USE DEF S
    <2>4. QED BY <2>3, <1>0
  <1>5. CountsUp(f, s)
    <2>1. DOMAIN f = 0 .. L /\ f = [i \in 0 .. L |-> f[i]] BY <1>2
    <2>2. f \in [0 .. L -> Nat] BY <1>4, <2>1
    <2>3. QED BY <1>3, <2>2 DEF CountsUp
  <1>6. QED BY <1>2, <1>5
\* Worth is the last of the sums of the digits at their places.
LEMMA WorthIs ==
  ASSUME NEW s \in Seq(Nat)
  PROVE  \E f : AddsUp(f, s) /\ Worth(s) = f[Len(s)]
  <1> DEFINE L == Len(s)
             Defines(f) ==
               f = [i \in 0 .. L |->
                      IF i = 0 THEN 0 ELSE f[i - 1] + s[i] * Power[L - i]]
  <1>0. L \in Nat /\ \A i \in 1 .. L : s[i] \in Nat OBVIOUS
  <1>00. ASSUME NEW j \in 1 .. L PROVE s[j] * Power[L - j] \in Nat
    <2>1. s[j] \in Nat /\ L - j \in Nat BY <1>0
    <2>2. Power[L - j] \in Nat BY <2>1, PowerIs
    <2>3. QED BY <2>1, <2>2
  <1>1. \E f : Defines(f)
    <2> DEFINE step == [p \in Nat \X Nat |->
                          p[2] + (IF p[1] + 1 \in 1 .. L
                                  THEN s[p[1] + 1] * Power[L - (p[1] + 1)] ELSE 0)]
    <2>1. ASSUME NEW i \in Nat, NEW x \in Nat
          PROVE  /\ step[<<i, x>>] \in Nat
                 /\ i + 1 \in 1 .. L => step[<<i, x>>] = x + s[i + 1] * Power[L - (i + 1)]
      <3>1. step[<<i, x>>] = x + (IF i + 1 \in 1 .. L
                                     THEN s[i + 1] * Power[L - (i + 1)] ELSE 0)
        OBVIOUS
      <3>2. i + 1 \in 1 .. L => s[i + 1] * Power[L - (i + 1)] \in Nat
        BY <1>00
      <3> HIDE DEF step
      <3>3. QED BY <1>0, <3>1, <3>2
    <2>2. step \in Steps(Nat) BY <2>1 DEF Steps
    <2> HIDE DEF step, L
    <2>3. PICK f : IteratesUpTo(L, f, Nat, 0, step)
      <3>1. L \in Nat /\ 0 \in Nat BY <1>0
      <3>2. QED BY <2>2, <3>1, BoundedRecursion
    <2> USE DEF IteratesUpTo
    <2>4. ASSUME NEW i \in 0 .. L
          PROVE  f[i] = IF i = 0 THEN 0 ELSE f[i - 1] + s[i] * Power[L - i]
      <3>1. CASE i # 0
        <4>1. i \in 1 .. L /\ i - 1 \in 0 .. L /\ i - 1 \in Nat /\ (i - 1) + 1 = i
          BY <3>1, <1>0
        <4>2. f[i - 1] \in Nat BY <2>3, <4>1
        <4>3. f[i] = step[<<i - 1, f[i - 1]>>] BY <2>3, <4>1
        <4>4. QED BY <2>1, <4>1, <4>2, <4>3, <3>1
      <3>2. QED BY <3>1, <2>3
    <2>5. f = [i \in 0 .. L |-> f[i]] BY <2>3
    <2>6. Defines(f) BY <2>4, <2>5
    <2>7. QED BY <2>6
  <1>2. PICK f : Defines(f) /\ Worth(s) = f[L]
    <2>1. Worth(s) = (CHOOSE f : Defines(f))[L] BY DEF Worth
    <2> HIDE DEF Defines
    <2>2. QED BY <1>1, <2>1
  <1>3. f[0] = 0 /\ \A i \in 1 .. L : f[i] = f[i - 1] + s[i] * Power[L - i]
    <2>1. f[0] = 0 BY <1>2, <1>0
    <2>2. ASSUME NEW i \in 1 .. L PROVE f[i] = f[i - 1] + s[i] * Power[L - i]
      <3>1. i \in 0 .. L /\ i # 0 BY <1>0
      <3>2. QED BY <1>2, <3>1
    <2>3. QED BY <2>1, <2>2
  <1>4. \A i \in 0 .. L : f[i] \in Nat
    <2> DEFINE S == {i \in Nat : i \in 0 .. L => f[i] \in Nat}
    <2>1. 0 \in S BY <1>3
    <2>2. ASSUME NEW i \in Nat, i \in S PROVE i + 1 \in S
      <3> SUFFICES ASSUME i + 1 \in 1 .. L PROVE f[i + 1] \in Nat BY <1>0
      <3>1. i \in 0 .. L /\ (i + 1) - 1 = i BY <1>0
      <3>2. f[i] \in Nat BY <2>2, <3>1
      <3>3. f[i + 1] = f[i] + s[i + 1] * Power[L - (i + 1)] BY <1>3, <3>1
      <3>4. s[i + 1] * Power[L - (i + 1)] \in Nat
        BY <1>00
      <3>5. QED BY <3>2, <3>3, <3>4
    <2> HIDE DEF S
    <2>3. \A i \in Nat : i \in S BY <2>1, <2>2, Induction
    <2> USE DEF S
    <2>4. QED BY <2>3, <1>0
  <1>5. AddsUp(f, s)
    <2>1. DOMAIN f = 0 .. L /\ f = [i \in 0 .. L |-> f[i]] BY <1>2
    <2>2. f \in [0 .. L -> Nat] BY <1>4, <2>1
    <2>3. QED BY <1>3, <2>2 DEF AddsUp
  <1>6. QED BY <1>2, <1>5

\* No digits are worth nothing.
LEMMA ValueOfEmpty == Value(<< >>) = 0 /\ Worth(<< >>) = 0
  <1>1. << >> \in Seq(Nat) /\ Len(<< >>) = 0 OBVIOUS
  <1>2. PICK f : CountsUp(f, << >>) /\ Value(<< >>) = f[Len(<< >>)] BY <1>1, ValueIs
  <1>3. PICK g : AddsUp(g, << >>) /\ Worth(<< >>) = g[Len(<< >>)] BY <1>1, WorthIs
  <1>4. QED BY <1>1, <1>2, <1>3 DEF CountsUp, AddsUp

\* A value is a natural number.
LEMMA ValueIsNat == ASSUME NEW s \in Seq(Nat) PROVE Value(s) \in Nat
  <1>1. PICK f : CountsUp(f, s) /\ Value(s) = f[Len(s)] BY ValueIs
  <1>2. Len(s) \in 0 .. Len(s) OBVIOUS
  <1>3. f \in [0 .. Len(s) -> Nat] BY <1>1 DEF CountsUp
  <1>4. QED BY <1>1, <1>2, <1>3

\* What Append does, as one fact.
LEMMA AppendIs ==
  ASSUME NEW A, NEW s \in Seq(A), NEW d \in A
  PROVE  /\ Append(s, d) \in Seq(A)
         /\ Len(Append(s, d)) = Len(s) + 1
         /\ Append(s, d)[Len(s) + 1] = d
         /\ \A i \in 1 .. Len(s) : Append(s, d)[i] = s[i]
  OBVIOUS

\* One more digit at the end multiplies by the base and adds the digit.
LEMMA ValueOfAppend ==
  ASSUME NEW s \in Seq(Nat), NEW d \in Nat
  PROVE  Value(Append(s, d)) = Value(s) * Base + d
  <1> DEFINE t == Append(s, d)
             L == Len(s)
  <1>1. /\ L \in Nat
        /\ t \in Seq(Nat) /\ Len(t) = L + 1 /\ t[L + 1] = d
        /\ \A i \in 1 .. L : t[i] = s[i]
    BY AppendIs
  <1>2. PICK f : CountsUp(f, s) /\ Value(s) = f[L] BY ValueIs
  <1>3. PICK g : CountsUp(g, t) /\ Value(t) = g[L + 1] BY <1>1, ValueIs
  <1>4. /\ f \in [0 .. L -> Nat] /\ f[0] = 0
        /\ \A i \in 1 .. L : f[i] = f[i - 1] * Base + s[i]
    BY <1>2 DEF CountsUp
  <1>5. /\ g \in [0 .. L + 1 -> Nat] /\ g[0] = 0
        /\ \A i \in 1 .. L + 1 : g[i] = g[i - 1] * Base + t[i]
    BY <1>1, <1>3 DEF CountsUp
  <1> HIDE DEF t, L
  <1>6. \A i \in Nat : i \in {j \in Nat : j \in 0 .. L => f[j] = g[j]}
    <2> DEFINE S == {j \in Nat : j \in 0 .. L => f[j] = g[j]}
    <2>1. 0 \in S BY <1>4, <1>5
    <2>2. ASSUME NEW i \in Nat, i \in S PROVE i + 1 \in S
      <3> SUFFICES ASSUME i + 1 \in 1 .. L PROVE f[i + 1] = g[i + 1] OBVIOUS
      <3>1. i \in 0 .. L /\ i + 1 \in 1 .. L + 1 /\ (i + 1) - 1 = i BY <1>1
      <3>2. f[i] = g[i] BY <2>2, <3>1
      <3>3. f[i + 1] = f[i] * Base + s[i + 1] BY <1>4, <3>1
      <3>4. g[i + 1] = g[i] * Base + t[i + 1] BY <1>5, <3>1
      <3>5. QED BY <1>1, <3>2, <3>3, <3>4
    <2> HIDE DEF S
    <2>3. \A i \in Nat : i \in S BY <2>1, <2>2, Induction
    <2> USE DEF S
    <2>4. QED BY <2>3
  <1>7. f[L] = g[L]
    <2>1. L \in Nat /\ L \in 0 .. L BY <1>1
    <2>2. QED BY <1>6, <2>1
  <1>8. g[L + 1] = g[L] * Base + t[L + 1]
    <2>1. L + 1 \in 1 .. L + 1 /\ (L + 1) - 1 = L BY <1>1
    <2>2. QED BY <1>5, <2>1
  <1>9. Value(t) = Value(s) * Base + d BY <1>1, <1>2, <1>3, <1>7, <1>8
  <1>10. QED BY <1>9 DEF t

\* The sum by places obeys the same law: every digit moves up one place.
LEMMA WorthOfAppend ==
  ASSUME NEW s \in Seq(Nat), NEW d \in Nat
  PROVE  Worth(s) \in Nat /\ Worth(Append(s, d)) = Worth(s) * Base + d
  <1> DEFINE t == Append(s, d)
             L == Len(s)
  <1>1. /\ L \in Nat
        /\ t \in Seq(Nat) /\ Len(t) = L + 1 /\ t[L + 1] = d
        /\ \A i \in 1 .. L : t[i] = s[i] /\ s[i] \in Nat
    BY AppendIs
  <1>2. PICK f : AddsUp(f, s) /\ Worth(s) = f[L] BY WorthIs
  <1>3. PICK g : AddsUp(g, t) /\ Worth(t) = g[L + 1] BY <1>1, WorthIs
  <1>4. /\ f \in [0 .. L -> Nat] /\ f[0] = 0
        /\ \A i \in 1 .. L : f[i] = f[i - 1] + s[i] * Power[L - i]
    BY <1>2 DEF AddsUp
  <1>5. /\ g \in [0 .. L + 1 -> Nat] /\ g[0] = 0
        /\ \A i \in 1 .. L + 1 : g[i] = g[i - 1] + t[i] * Power[(L + 1) - i]
    BY <1>1, <1>3 DEF AddsUp
  <1> HIDE DEF t, L
  <1>6. \A i \in Nat : i \in {j \in Nat : j \in 0 .. L => g[j] = f[j] * Base}
    <2> DEFINE S == {j \in Nat : j \in 0 .. L => g[j] = f[j] * Base}
    <2>1. 0 \in S BY <1>4, <1>5, UsdcAssumption
    <2>2. ASSUME NEW i \in Nat, i \in S PROVE i + 1 \in S
      <3> SUFFICES ASSUME i + 1 \in 1 .. L PROVE g[i + 1] = f[i + 1] * Base OBVIOUS
      <3> DEFINE p == Power[L - (i + 1)]
      <3>1. i \in 0 .. L /\ i + 1 \in 1 .. L + 1 /\ (i + 1) - 1 = i BY <1>1
      <3>2. g[i] = f[i] * Base /\ f[i] \in Nat BY <1>4, <2>2, <3>1
      <3>3. f[i + 1] = f[i] + s[i + 1] * p BY <1>4, <3>1
      <3>4. g[i + 1] = g[i] + t[i + 1] * Power[(L + 1) - (i + 1)] BY <1>5, <3>1
      <3>5. L - (i + 1) \in Nat /\ (L + 1) - (i + 1) = (L - (i + 1)) + 1 BY <1>1
      <3>6. p \in Nat /\ Power[(L + 1) - (i + 1)] = Base * p BY <3>5, PowerIs
      <3>7. t[i + 1] = s[i + 1] /\ s[i + 1] \in Nat BY <1>1
      <3> HIDE DEF p
      <3>8. (f[i] + s[i + 1] * p) * Base = f[i] * Base + s[i + 1] * (Base * p)
        BY <3>2, <3>6, <3>7, UsdcAssumption
      <3>9. QED BY <3>2, <3>3, <3>4, <3>6, <3>7, <3>8
    <2> HIDE DEF S
    <2>3. \A i \in Nat : i \in S BY <2>1, <2>2, Induction
    <2> USE DEF S
    <2>4. QED BY <2>3
  <1>7. g[L] = f[L] * Base /\ f[L] \in Nat BY <1>1, <1>4, <1>6
  <1>8. g[L + 1] = g[L] + t[L + 1] * Power[0]
    <2>1. L + 1 \in 1 .. L + 1 /\ (L + 1) - 1 = L /\ (L + 1) - (L + 1) = 0 BY <1>1
    <2>2. QED BY <1>5, <2>1
  <1>9. t[L + 1] * Power[0] = d BY <1>1, PowerIs
  <1>10. Worth(t) = Worth(s) * Base + d BY <1>2, <1>3, <1>7, <1>8, <1>9
  <1>11. QED BY <1>2, <1>7, <1>10 DEF t

\* Reading digits from the left is the sum of what each is worth at its place.
LEMMA WorthIsValue == \A s \in Seq(Nat) : Worth(s) = Value(s)
  <1> DEFINE S == {s \in Seq(Nat) : Worth(s) = Value(s)}
  <1>1. << >> \in S BY ValueOfEmpty
  <1>2. ASSUME NEW s \in Seq(Nat), NEW d \in Nat, s \in S PROVE Append(s, d) \in S
    <2>1. Append(s, d) \in Seq(Nat) BY AppendIs
    <2>2. QED BY <1>2, <2>1, ValueOfAppend, WorthOfAppend
  <1> HIDE DEF S
  <1>3. \A s \in Seq(Nat) : s \in S BY <1>1, <1>2, SequenceInduction
  <1> USE DEF S
  <1>4. QED BY <1>3

\* Powers multiply.
LEMMA PowerOfSum ==
  ASSUME NEW m \in Nat, NEW n \in Nat
  PROVE  Power[m + n] = Power[m] * Power[n]
  <1> DEFINE S == {i \in Nat : Power[m + i] = Power[m] * Power[i]}
  <1>1. 0 \in S
    <2>1. m + 0 = m /\ Power[m] \in Nat /\ Power[0] = 1 BY PowerIs
    <2>2. QED BY <2>1
  <1>2. ASSUME NEW i \in Nat, i \in S PROVE i + 1 \in S
    <2>1. m + i \in Nat /\ m + (i + 1) = (m + i) + 1 OBVIOUS
    <2>2. Power[m + (i + 1)] = Base * Power[m + i] /\ Power[i + 1] = Base * Power[i]
      BY <2>1, PowerIs
    <2>3. Power[m] \in Nat /\ Power[i] \in Nat BY PowerIs
    <2>4. Base * (Power[m] * Power[i]) = Power[m] * (Base * Power[i])
      BY <2>3, UsdcAssumption
    <2>5. QED BY <1>2, <2>2, <2>4
  <1> HIDE DEF S
  <1>3. \A i \in Nat : i \in S BY <1>1, <1>2, Induction
  <1> USE DEF S
  <1>4. QED BY <1>3

\* A digit appended to the second part is appended to the whole.
LEMMA ConcatOfAppend ==
  ASSUME NEW A, NEW a \in Seq(A), NEW b \in Seq(A), NEW d \in A
  PROVE  a \o Append(b, d) = Append(a \o b, d)
  OBVIOUS

\* The digits of the second part are the low ones.
LEMMA ValueOfConcat ==
  ASSUME NEW a \in Seq(Nat), NEW b \in Seq(Nat)
  PROVE  Value(a \o b) = Value(a) * Power[Len(b)] + Value(b)
  <1> DEFINE S == {s \in Seq(Nat) : Value(a \o s) = Value(a) * Power[Len(s)] + Value(s)}
  <1>1. << >> \in S
    <2>1. << >> \in Seq(Nat) /\ Len(<< >>) = 0 /\ a \o << >> = a OBVIOUS
    <2>2. Value(a) \in Nat BY ValueIsNat
    <2>3. Value(a) * 1 + 0 = Value(a) BY <2>2
    <2>4. Value(a) = Value(a) * Power[Len(<< >>)] + Value(<< >>)
      BY <2>1, <2>3, ValueOfEmpty, PowerIs
    <2>5. QED BY <2>1, <2>4
  <1>2. ASSUME NEW s \in Seq(Nat), NEW d \in Nat, s \in S PROVE Append(s, d) \in S
    <2>1. Append(s, d) \in Seq(Nat) /\ Len(Append(s, d)) = Len(s) + 1 /\ Len(s) \in Nat
      BY AppendIs
    <2>2. a \o Append(s, d) = Append(a \o s, d) BY ConcatOfAppend
    <2>3. a \o s \in Seq(Nat) OBVIOUS
    <2>4. Value(a \o Append(s, d)) = Value(a \o s) * Base + d
      BY <2>2, <2>3, ValueOfAppend
    <2>5. Value(Append(s, d)) = Value(s) * Base + d BY ValueOfAppend
    <2>6. Power[Len(s) + 1] = Base * Power[Len(s)] /\ Power[Len(s)] \in Nat
      BY <2>1, PowerIs
    <2>7. Value(a) \in Nat /\ Value(s) \in Nat BY ValueIsNat
    <2>8. Value(a \o s) = Value(a) * Power[Len(s)] + Value(s) BY <1>2
    <2> DEFINE va == Value(a)
               vs == Value(s)
               p == Power[Len(s)]
    <2>9. (va * p + vs) * Base + d = va * (Base * p) + (vs * Base + d)
      <3>1. va \in Nat /\ vs \in Nat /\ p \in Nat BY <2>6, <2>7
      <3> HIDE DEF va, vs, p
      <3>2. QED BY <3>1, UsdcAssumption
    <2>10. QED BY <2>1, <2>4, <2>5, <2>6, <2>8, <2>9
  <1> HIDE DEF S
  <1>3. \A s \in Seq(Nat) : s \in S BY <1>1, <1>2, SequenceInduction
  <1> USE DEF S
  <1>4. QED BY <1>3

\* Zeros are worth nothing.
LEMMA ValueOfZeros == \A s \in Seq({0}) : Value(s) = 0
  <1> DEFINE S == {s \in Seq({0}) : Value(s) = 0}
  <1>1. << >> \in S BY ValueOfEmpty
  <1>2. ASSUME NEW s \in Seq({0}), NEW d \in {0}, s \in S PROVE Append(s, d) \in S
    <2>1. Append(s, d) \in Seq({0}) BY AppendIs
    <2>2. s \in Seq(Nat) /\ d \in Nat OBVIOUS
    <2>3. Value(Append(s, d)) = 0 * Base + 0 BY <1>2, <2>2, ValueOfAppend
    <2>4. QED BY <2>1, <2>3, UsdcAssumption
  <1> HIDE DEF S
  <1>3. \A s \in Seq({0}) : s \in S BY <1>1, <1>2, SequenceInduction
  <1> USE DEF S
  <1>4. QED BY <1>3

\* Digits are numbers below the base.
LEMMA DigitIsNat == Digit \subseteq Nat /\ 0 \in Digit /\ \A d \in Digit : d < Base
  BY UsdcAssumption DEF Digit

\* A sequence of digits is one of numbers.
LEMMA DigitsAreNats == \A s \in Seq(Digit) : s \in Seq(Nat)
  BY DigitIsNat, SeqMonotonic

\* A number of n digits is below the n-th power of the base.
LEMMA ValueBelow == \A s \in Seq(Digit) : Value(s) < Power[Len(s)]
  <1> DEFINE S == {s \in Seq(Digit) : Value(s) < Power[Len(s)]}
  <1>1. << >> \in S
    <2>1. << >> \in Seq(Digit) /\ Len(<< >>) = 0 OBVIOUS
    <2>2. QED BY <2>1, ValueOfEmpty, PowerIs
  <1>2. ASSUME NEW s \in Seq(Digit), NEW d \in Digit, s \in S PROVE Append(s, d) \in S
    <2>1. Append(s, d) \in Seq(Digit) /\ Len(Append(s, d)) = Len(s) + 1 /\ Len(s) \in Nat
      BY AppendIs
    <2>2. s \in Seq(Nat) /\ d \in Nat /\ d < Base BY DigitsAreNats, DigitIsNat
    <2>3. Value(Append(s, d)) = Value(s) * Base + d BY <2>2, ValueOfAppend
    <2>4. Power[Len(s) + 1] = Base * Power[Len(s)] /\ Power[Len(s)] \in Nat
      BY <2>1, PowerIs
    <2>5. Value(s) \in Nat /\ Value(s) + 1 <= Power[Len(s)]
      BY <1>2, <2>2, <2>4, ValueIsNat
    <2> DEFINE vs == Value(s)
               p == Power[Len(s)]
    <2>6. vs * Base + d < Base * p
      <3>1. vs \in Nat /\ p \in Nat /\ vs + 1 <= p BY <2>4, <2>5
      <3> HIDE DEF vs, p
      <3>2. (vs + 1) * Base <= p * Base BY <3>1, UsdcAssumption
      <3>3. (vs + 1) * Base = vs * Base + Base /\ p * Base = Base * p
        BY <3>1, UsdcAssumption
      <3>4. vs * Base \in Nat /\ Base * p \in Nat /\ Base \in Nat BY <3>1, UsdcAssumption
      <3>5. QED BY <2>2, <3>2, <3>3, <3>4
    <2>7. QED BY <2>1, <2>3, <2>4, <2>6
  <1> HIDE DEF S
  <1>3. \A s \in Seq(Digit) : s \in S BY <1>1, <1>2, SequenceInduction
  <1> USE DEF S
  <1>4. QED BY <1>3

----------------------------------------------------------------------------
(* Digits and Written *)

\* Quotient and remainder.
LEMMA Division ==
  ASSUME NEW n \in Nat, NEW d \in Nat, d > 0
  PROVE  /\ n \div d \in Nat /\ n % d \in Nat /\ n % d < d
         /\ n = (n \div d) * d + (n % d)
  OBVIOUS

\* Dividing twice is dividing by the product.
LEMMA DivisionTwice ==
  ASSUME NEW n \in Nat, NEW b \in Nat, NEW c \in Nat, b > 0, c > 0
  PROVE  (n \div b) \div c = n \div (b * c)
  OBVIOUS

\* Digits are digits, as many as were asked for.
LEMMA DigitsIs ==
  ASSUME NEW n \in Nat, NEW w \in Nat
  PROVE  /\ Digits(n, w) \in Seq(Digit)
         /\ Len(Digits(n, w)) = w
         /\ \A i \in 1 .. w : Digits(n, w)[i] = (n \div Power[w - i]) % Base
  <1>1. ASSUME NEW i \in 1 .. w PROVE (n \div Power[w - i]) % Base \in Digit
    <2>1. w - i \in Nat OBVIOUS
    <2>2. Power[w - i] \in Nat /\ Power[w - i] > 0 BY <2>1, PowerIs
    <2> DEFINE q == n \div Power[w - i]
    <2>3. q \in Nat BY <2>2, Division
    <2> HIDE DEF q
    <2>4. q % Base \in Nat /\ q % Base < Base BY <2>3, UsdcAssumption
    <2>5. q % Base \in Digit BY <2>4, UsdcAssumption DEF Digit
    <2>6. QED BY <2>5 DEF q
  <1>2. Digits(n, w) \in [1 .. w -> Digit] BY <1>1 DEF Digits
  <1>3. \A i \in 1 .. w : Digits(n, w)[i] = (n \div Power[w - i]) % Base BY DEF Digits
  <1>4. QED BY <1>2, <1>3

\* One more digit: those of the quotient, and the remainder after them.
LEMMA DigitsOfNext ==
  ASSUME NEW n \in Nat, NEW w \in Nat
  PROVE  Digits(n, w + 1) = Append(Digits(n \div Base, w), n % Base)
  <1> DEFINE q == n \div Base
             d == n % Base
             s == Digits(q, w)
             t == Digits(n, w + 1)
  <1>1. q \in Nat /\ d \in Digit BY Division, UsdcAssumption DEF Digit
  <1>2. /\ s \in Seq(Digit) /\ Len(s) = w
        /\ \A i \in 1 .. w : s[i] = (q \div Power[w - i]) % Base
    BY <1>1, DigitsIs
  <1>3. /\ t \in Seq(Digit) /\ Len(t) = w + 1
        /\ \A i \in 1 .. w + 1 : t[i] = (n \div Power[(w + 1) - i]) % Base
    BY DigitsIs
  <1>4. /\ Append(s, d) \in Seq(Digit) /\ Len(Append(s, d)) = w + 1
        /\ Append(s, d)[w + 1] = d
        /\ \A i \in 1 .. w : Append(s, d)[i] = s[i]
    <2> HIDE DEF s, d
    <2>1. QED BY <1>1, <1>2, AppendIs
  <1>5. ASSUME NEW i \in 1 .. w + 1 PROVE t[i] = Append(s, d)[i]
    <2>1. CASE i = w + 1
      <3>1. (w + 1) - i = 0 /\ Power[0] = 1 BY <2>1, PowerIs
      <3>2. t[i] = (n \div 1) % Base BY <1>3, <3>1
      <3>3. n \div 1 = n OBVIOUS
      <3> HIDE DEF s, t
      <3>4. QED BY <1>4, <2>1, <3>2, <3>3
    <2>2. CASE i # w + 1
      <3>1. i \in 1 .. w /\ w - i \in Nat /\ (w + 1) - i = (w - i) + 1 BY <2>2
      <3> DEFINE p == Power[w - i]
      <3>2. p \in Nat /\ p > 0 /\ Power[(w + 1) - i] = Base * p BY <3>1, PowerIs
      <3>3. q \div p = n \div (Base * p)
        <4> HIDE DEF p
        <4>1. QED BY <3>2, DivisionTwice, UsdcAssumption
      <3>4. t[i] = (n \div (Base * p)) % Base BY <1>3, <3>2
      <3>5. s[i] = (q \div p) % Base BY <1>2, <3>1
      <3> HIDE DEF s, t, p, q, d
      <3>6. QED BY <1>4, <3>1, <3>3, <3>4, <3>5
    <2>3. QED BY <2>1, <2>2
  <1>6. t = Append(s, d)
    <2> HIDE DEF s, t, q, d
    <2>1. QED BY <1>3, <1>4, <1>5, SeqEqual
  <1>7. QED BY <1>6

\* The lowest digits of a number are worth what is left of it after division.
LEMMA ValueOfDigits ==
  \A w \in Nat : \A n \in Nat : n = (n \div Power[w]) * Power[w] + Value(Digits(n, w))
  <1> DEFINE Right(n, w) == n = (n \div Power[w]) * Power[w] + Value(Digits(n, w))
             S == {w \in Nat : \A n \in Nat : Right(n, w)}
  <1>1. 0 \in S
    <2>1. ASSUME NEW n \in Nat PROVE Right(n, 0)
      <3>1. Digits(n, 0) = << >> BY DigitsIs
      <3>2. (n \div 1) * 1 + 0 = n OBVIOUS
      <3>3. QED BY <3>1, <3>2, ValueOfEmpty, PowerIs
    <2>2. QED BY <2>1
  <1>2. ASSUME NEW w \in Nat, w \in S PROVE w + 1 \in S
    <2>1. ASSUME NEW n \in Nat PROVE Right(n, w + 1)
      <3> DEFINE q == n \div Base
                 d == n % Base
                 p == Power[w]
                 v == Value(Digits(q, w))
                 h == q \div p
      <3>1. q \in Nat /\ d \in Nat /\ n = q * Base + d
        BY Division, UsdcAssumption
      <3>2. p \in Nat /\ p > 0 /\ Power[w + 1] = Base * p BY PowerIs
      <3>3. q = h * p + v BY <1>2, <3>1
      <3>4. Digits(q, w) \in Seq(Nat)
        <4>1. Digits(q, w) \in Seq(Digit)
          <5> HIDE DEF q
          <5>1. QED BY <3>1, DigitsIs
        <4>2. QED BY <4>1, DigitsAreNats
      <3>5. v \in Nat
        <4> HIDE DEF q
        <4>1. QED BY <3>4, ValueIsNat
      <3>6. Value(Digits(n, w + 1)) = v * Base + d
        <4>1. Digits(n, w + 1) = Append(Digits(q, w), d) BY DigitsOfNext
        <4> HIDE DEF q, d
        <4>2. QED BY <3>1, <3>4, <4>1, ValueOfAppend
      <3>7. h = n \div (Base * p)
        <4> HIDE DEF p
        <4>1. QED BY <3>2, DivisionTwice, UsdcAssumption
      <3>8. h \in Nat
        <4> HIDE DEF p, q
        <4>1. QED BY <3>1, <3>2, Division
      <3>9. n = h * (Base * p) + (v * Base + d)
        <4> HIDE DEF h, p, q, d, v
        <4>1. (h * p + v) * Base + d = h * (Base * p) + (v * Base + d)
          BY <3>1, <3>2, <3>5, <3>8, UsdcAssumption
        <4>2. QED BY <3>1, <3>3, <4>1
      <3> HIDE DEF h, p, v, d, q
      <3>10. QED BY <3>2, <3>6, <3>7, <3>9
    <2> HIDE DEF Right
    <2>2. QED BY <2>1
  <1> HIDE DEF S
  <1>3. \A w \in Nat : w \in S BY <1>1, <1>2, Induction
  <1> USE DEF S
  <1>4. QED BY <1>3

\* Every number is below some power: Written finds how many digits to write.
LEMMA PowerGrows == \A n \in Nat : n < Power[n + 1]
  <1> DEFINE S == {n \in Nat : n < Power[n + 1]}
  <1>1. 0 \in S BY PowerIs
  <1>2. ASSUME NEW n \in Nat, n \in S PROVE n + 1 \in S
    <2> DEFINE p == Power[n + 1]
    <2>1. n + 1 \in Nat /\ n + 1 <= p /\ p \in Nat /\ Power[(n + 1) + 1] = Base * p
      BY <1>2, PowerIs
    <2>2. n + 1 < Base * p
      <3> HIDE DEF p
      <3>1. p * 2 <= p * Base BY <2>1, UsdcAssumption
      <3>2. p * Base = Base * p /\ Base * p \in Nat BY <2>1, UsdcAssumption
      <3>3. QED BY <2>1, <3>1, <3>2
    <2>3. QED BY <2>1, <2>2
  <1> HIDE DEF S
  <1>3. \A n \in Nat : n \in S BY <1>1, <1>2, Induction
  <1> USE DEF S
  <1>4. QED BY <1>3

\* A written number is worth itself and has no leading zero.
LEMMA WrittenIs ==
  ASSUME NEW n \in Nat
  PROVE  /\ Written(n) \in Seq(Digit)
         /\ Len(Written(n)) > 0
         /\ Value(Written(n)) = n
         /\ Len(Written(n)) > 1 => Head(Written(n)) # 0
  <1> DEFINE Enough(k) == n < Power[k] /\ (k > 1 => n >= Power[k - 1])
             S == {k \in Nat : k > 0 /\ n < Power[k]}
             k == CHOOSE k \in 1 .. n + 1 : Enough(k)
  <1>1. \E j \in 1 .. n + 1 : Enough(j)
    <2>1. n + 1 \in S BY PowerGrows
    <2>2. PICK j \in S : \A m \in S : j <= m BY <2>1, LeastNumber
    <2>3. j \in 1 .. n + 1 /\ n < Power[j] BY <2>1, <2>2
    <2>4. ASSUME j > 1 PROVE n >= Power[j - 1]
      <3>1. j - 1 \in Nat /\ j - 1 > 0 /\ ~(j <= j - 1) BY <2>3, <2>4
      <3>2. j - 1 \notin S BY <2>2, <3>1
      <3>3. Power[j - 1] \in Nat BY <3>1, PowerIs
      <3>4. QED BY <3>1, <3>2, <3>3
    <2>5. QED BY <2>3, <2>4
  <1>2. k \in 1 .. n + 1 /\ Enough(k)
    <2> HIDE DEF Enough
    <2>1. QED BY <1>1
  <1>3. Written(n) = Digits(n, k) BY DEF Written
  <1> HIDE DEF k
  <1>4. k \in Nat /\ k > 0 /\ Power[k] \in Nat /\ Power[k] > 0 BY <1>2, PowerIs
  <1>5. /\ Digits(n, k) \in Seq(Digit) /\ Len(Digits(n, k)) = k
        /\ \A i \in 1 .. k : Digits(n, k)[i] = (n \div Power[k - i]) % Base
    BY <1>4, DigitsIs
  <1>6. Value(Digits(n, k)) = n
    <2>1. n = (n \div Power[k]) * Power[k] + Value(Digits(n, k)) BY <1>4, ValueOfDigits
    <2>2. n \div Power[k] = 0 BY <1>2, <1>4
    <2>3. Value(Digits(n, k)) \in Nat BY <1>5, DigitsAreNats, ValueIsNat
    <2>4. QED BY <1>4, <2>1, <2>2, <2>3
  <1>7. ASSUME k > 1 PROVE Head(Digits(n, k)) # 0
    <2> DEFINE p == Power[k - 1]
    <2>1. p \in Nat /\ p > 0 /\ Power[k] = Base * p /\ p <= n /\ n < Base * p
      <3>1. k - 1 \in Nat /\ (k - 1) + 1 = k BY <1>4
      <3>2. QED BY <1>2, <1>7, <3>1, PowerIs
    <2>2. Head(Digits(n, k)) = (n \div p) % Base
      <3>1. Head(Digits(n, k)) = Digits(n, k)[1] BY <1>4, <1>5
      <3>2. 1 \in 1 .. k BY <1>4
      <3>3. QED BY <1>5, <3>1, <3>2
    <2> HIDE DEF p
    <2> DEFINE q == n \div p
    <2>3. q \in Nat /\ n = q * p + (n % p) /\ n % p \in Nat /\ n % p < p BY <2>1, Division
    <2>4. q # 0 BY <2>1, <2>3
    <2>5. q < Base
      <3>1. SUFFICES ASSUME q >= Base PROVE FALSE BY <2>3, UsdcAssumption
      <3> HIDE DEF q
      <3>2. q * p >= Base * p BY <2>1, <2>3, <3>1, UsdcAssumption
      <3>3. q * p \in Nat /\ Base * p \in Nat BY <2>1, <2>3, UsdcAssumption
      <3>4. QED BY <2>1, <2>3, <3>2, <3>3
    <2> HIDE DEF q
    <2>6. q % Base = q BY <2>3, <2>5, UsdcAssumption
    <2>7. QED BY <2>2, <2>4, <2>6 DEF q
  <1>8. QED BY <1>3, <1>4, <1>5, <1>6, <1>7

----------------------------------------------------------------------------
(* PlusAsZero, ParseUint and Padded *)

\* The characters of a text.
Char == Digit \cup {Plus, Other}

\* Characters and markers are not numbers.
LEMMA SymbolsAreNotNumbers ==
  Plus \notin Nat /\ Other \notin Nat /\ Bad \notin Nat /\ None \notin Nat
  BY UsdcAssumption

\* All elements are digits when the sequence is one of digits.
LEMMA RangeIs ==
  ASSUME NEW A, NEW s \in Seq(A)
  PROVE  Range(s) \subseteq Digit <=> s \in Seq(Digit)
  <1>1. Len(s) \in Nat /\ DOMAIN s = 1 .. Len(s) /\ s = [i \in 1 .. Len(s) |-> s[i]]
    OBVIOUS
  <1>2. Range(s) = {s[i] : i \in 1 .. Len(s)} BY <1>1 DEF Range
  <1>3. ASSUME Range(s) \subseteq Digit PROVE s \in Seq(Digit)
    <2>1. \A i \in 1 .. Len(s) : s[i] \in Digit BY <1>2, <1>3
    <2>2. QED BY <1>1, <2>1
  <1>4. ASSUME s \in Seq(Digit) PROVE Range(s) \subseteq Digit
    BY <1>2, <1>4
  <1>5. QED BY <1>3, <1>4

\* A leading plus becomes a zero, and nothing else changes.
LEMMA PlusAsZeroIs ==
  ASSUME NEW s \in Seq(Char)
  PROVE  /\ PlusAsZero(s) \in Seq(Char)
         /\ Len(PlusAsZero(s)) = Len(s)
         /\ \A i \in 1 .. Len(s) :
              PlusAsZero(s)[i] = IF i = 1 /\ s[1] = Plus THEN 0 ELSE s[i]
  <1>1. Len(s) \in Nat /\ DOMAIN s = 1 .. Len(s) /\ \A i \in 1 .. Len(s) : s[i] \in Char
    OBVIOUS
  <1>2. 0 \in Char BY DigitIsNat DEF Char
  <1>3. \A i \in 1 .. Len(s) :
          PlusAsZero(s)[i] = IF i = 1 /\ s[1] = Plus THEN 0 ELSE s[i]
    BY <1>1 DEF PlusAsZero
  <1>4. PlusAsZero(s) \in [1 .. Len(s) -> Char]
    BY <1>1, <1>2 DEF PlusAsZero
  <1>5. QED BY <1>1, <1>3, <1>4

\* Without a leading plus the text stays as it is.
LEMMA PlusAsZeroElse ==
  ASSUME NEW s \in Seq(Char), s # << >> => s[1] # Plus
  PROVE  PlusAsZero(s) = s
  <1>1. /\ PlusAsZero(s) \in Seq(Char) /\ Len(PlusAsZero(s)) = Len(s)
        /\ \A i \in 1 .. Len(s) :
              PlusAsZero(s)[i] = IF i = 1 /\ s[1] = Plus THEN 0 ELSE s[i]
    BY PlusAsZeroIs
  <1>2. ASSUME NEW i \in 1 .. Len(s) PROVE PlusAsZero(s)[i] = s[i]
    <2>1. s # << >> OBVIOUS
    <2>2. QED BY <1>1, <2>1
  <1>3. QED BY <1>1, <1>2, SeqEqual

\* With one, it is a zero and the rest.
LEMMA PlusAsZeroThen ==
  ASSUME NEW s \in Seq(Char), s # << >>, s[1] = Plus
  PROVE  /\ Tail(s) \in Seq(Char)
         /\ PlusAsZero(s) = <<0>> \o Tail(s)
  <1>1. /\ PlusAsZero(s) \in Seq(Char) /\ Len(PlusAsZero(s)) = Len(s)
        /\ \A i \in 1 .. Len(s) :
              PlusAsZero(s)[i] = IF i = 1 /\ s[1] = Plus THEN 0 ELSE s[i]
    BY PlusAsZeroIs
  <1>2. /\ Tail(s) \in Seq(Char) /\ Len(Tail(s)) = Len(s) - 1
        /\ \A i \in 1 .. Len(Tail(s)) : Tail(s)[i] = s[i + 1]
    BY HeadTailProperties
  <1>3. <<0>> \in Seq(Char) /\ Len(<<0>>) = 1 /\ <<0>>[1] = 0
    BY DigitIsNat DEF Char
  <1> DEFINE t == Tail(s)
             z == <<0>>
  <1>4. /\ z \o t \in Seq(Char) /\ Len(z \o t) = Len(s)
        /\ \A i \in 1 .. Len(s) : (z \o t)[i] = IF i <= 1 THEN z[i] ELSE t[i - 1]
    <2> HIDE DEF z, t
    <2>1. /\ z \o t \in Seq(Char) /\ Len(z \o t) = Len(z) + Len(t)
          /\ \A i \in 1 .. Len(z) + Len(t) :
               (z \o t)[i] = IF i <= Len(z) THEN z[i] ELSE t[i - Len(z)]
      BY <1>2, <1>3, ConcatProperties DEF z, t
    <2>2. Len(z) = 1 /\ Len(z) + Len(t) = Len(s) BY <1>2, <1>3 DEF z, t
    <2>3. QED BY <2>1, <2>2
  <1>5. ASSUME NEW i \in 1 .. Len(s) PROVE PlusAsZero(s)[i] = (z \o t)[i]
    <2>1. CASE i = 1 BY <1>1, <1>3, <1>4, <2>1
    <2>2. CASE i # 1
      <3>1. i - 1 \in 1 .. Len(s) - 1 /\ (i - 1) + 1 = i /\ ~(i <= 1) BY <2>2
      <3>2. t[i - 1] = s[i] BY <1>2, <3>1
      <3> HIDE DEF t, z
      <3>3. QED BY <1>1, <1>4, <2>2, <3>1, <3>2
    <2>3. QED BY <2>1, <2>2
  <1>6. PlusAsZero(s) = z \o t
    <2> HIDE DEF z, t
    <2>1. QED BY <1>1, <1>4, <1>5, SeqEqual
  <1>7. QED BY <1>2, <1>6

\* A leading zero is worth nothing.
LEMMA ValueOfPlus ==
  ASSUME NEW s \in Seq(Nat)
  PROVE  Value(<<0>> \o s) = Value(s)
  <1>1. <<0>> \in Seq({0}) /\ <<0>> \in Seq(Nat) OBVIOUS
  <1>2. Value(<<0>>) = 0 BY <1>1, ValueOfZeros
  <1>3. Value(<<0>> \o s) = 0 * Power[Len(s)] + Value(s) BY <1>1, <1>2, ValueOfConcat
  <1>4. Len(s) \in Nat OBVIOUS
  <1>5. Power[Len(s)] \in Nat /\ Value(s) \in Nat BY <1>4, PowerIs, ValueIsNat
  <1>6. QED BY <1>3, <1>5

\* str::parse::<u128> reads a plus as a zero, unless it stands alone, and rejects
\* what is no digit and what does not fit.
LEMMA ParseUintIs ==
  ASSUME NEW s \in Seq(Char), s # << >>
  PROVE  ParseUint(s) = IF /\ s # <<Plus>>
                           /\ PlusAsZero(s) \in Seq(Digit)
                           /\ Value(PlusAsZero(s)) <= MaxUnits
                          THEN Value(PlusAsZero(s)) ELSE Bad
  <1>1. CASE s[1] # Plus
    <2>1. PlusAsZero(s) = s BY <1>1, PlusAsZeroElse
    <2>2. s # <<Plus>> BY <1>1
    <2>3. Range(s) \subseteq Digit <=> s \in Seq(Digit) BY RangeIs
    <2>4. QED BY <1>1, <2>1, <2>2, <2>3 DEF ParseUint
  <1>2. CASE s[1] = Plus /\ Len(s) <= 1
    <2>1. s = <<Plus>> /\ ~(Len(s) > 1)
      <3>1. Len(s) = 1
        <4> DEFINE L == Len(s)
        <4>1. L \in Nat /\ L # 0 /\ L <= 1 BY <1>2, EmptySeq
        <4> HIDE DEF L
        <4>2. L = 1 BY <4>1
        <4>3. QED BY <4>2 DEF L
      <3>2. QED BY <1>2, <3>1
    <2>2. s \notin Seq(Digit)
      <3>1. Plus \notin Digit BY SymbolsAreNotNumbers, DigitIsNat
      <3>2. 1 \in 1 .. Len(s) BY <2>1
      <3>3. QED BY <1>2, <3>1, <3>2, ElementOfSeq
    <2>3. ~(Range(s) \subseteq Digit) BY <2>2, RangeIs
    <2>4. QED BY <2>1, <2>3 DEF ParseUint
  <1>3. CASE s[1] = Plus /\ Len(s) > 1
    <2> DEFINE t == Tail(s)
    <2>1. t \in Seq(Char) /\ PlusAsZero(s) = <<0>> \o t BY <1>3, PlusAsZeroThen
    <2>2. t # << >> /\ s # <<Plus>>
      <3>1. Len(t) = Len(s) - 1 /\ Len(s) \in Nat BY HeadTailProperties
      <3>2. Len(<<Plus>>) = 1 /\ Len(<< >>) = 0 OBVIOUS
      <3> HIDE DEF t
      <3>3. QED BY <1>3, <3>1, <3>2
    <2>3. Range(t) \subseteq Digit <=> t \in Seq(Digit)
      <3> HIDE DEF t
      <3>1. QED BY <2>1, RangeIs
    <2>4. ParseUint(s) =
            IF t \in Seq(Digit) /\ Value(t) <= MaxUnits THEN Value(t) ELSE Bad
      <3>1. ParseUint(s) =
              IF t # << >> /\ Range(t) \subseteq Digit /\ Value(t) <= MaxUnits
                THEN Value(t) ELSE Bad
        BY <1>3 DEF ParseUint
      <3> HIDE DEF t
      <3>2. QED BY <2>2, <2>3, <3>1
    <2> HIDE DEF t
    <2>5. ASSUME t \in Seq(Digit)
          PROVE  <<0>> \o t \in Seq(Digit) /\ Value(<<0>> \o t) = Value(t)
      <3>1. <<0>> \in Seq(Digit) BY DigitIsNat
      <3>2. <<0>> \o t \in Seq(Digit) BY <2>5, <3>1, ConcatProperties
      <3>3. t \in Seq(Nat) BY <2>5, DigitsAreNats
      <3>4. QED BY <3>2, <3>3, ValueOfPlus
    <2>6. <<0>> \o t \in Seq(Digit) => t \in Seq(Digit)
      <3> HAVE <<0>> \o t \in Seq(Digit)
      <3>1. Len(t) \in Nat /\ t = [i \in 1 .. Len(t) |-> t[i]] BY <2>1
      <3>2. ASSUME NEW i \in 1 .. Len(t) PROVE t[i] \in Digit
        <4>1. Len(<<0>> \o t) = 1 + Len(t) /\ (<<0>> \o t)[i + 1] = t[i] BY <2>1
        <4>2. i + 1 \in 1 .. Len(<<0>> \o t) BY <3>1, <4>1
        <4>3. (<<0>> \o t)[i + 1] \in Digit BY <4>2, ElementOfSeq
        <4>4. QED BY <4>1, <4>3
      <3>3. QED BY <3>1, <3>2
    <2>7. QED BY <2>1, <2>2, <2>4, <2>5, <2>6
  <1>4. QED
    <2>1. Len(s) \in Nat OBVIOUS
    <2>2. QED BY <1>1, <1>2, <1>3, <2>1

\* What Padded fills up with.
Zeros(n) == [i \in 1 .. n |-> 0]

\* What Zeros returns.
LEMMA ZerosIs ==
  ASSUME NEW n \in Nat
  PROVE  /\ Zeros(n) \in Seq({0}) /\ Zeros(n) \in Seq(Digit) /\ Zeros(n) \in Seq(Char)
         /\ Len(Zeros(n)) = n
         /\ \A i \in 1 .. n : Zeros(n)[i] = 0
         /\ Value(Zeros(n)) = 0
  <1>1. Zeros(n) \in Seq({0}) /\ Len(Zeros(n)) = n /\ \A i \in 1 .. n : Zeros(n)[i] = 0
    BY DEF Zeros
  <1>2. {0} \subseteq Digit /\ {0} \subseteq Char BY DigitIsNat DEF Char
  <1>3. QED BY <1>1, <1>2, SeqMonotonic, ValueOfZeros

\* A fraction is padded with zeros at its end, whether or not a plus leads it.
LEMMA PaddedIs ==
  ASSUME NEW f \in Seq(Char), f # << >>, Len(f) <= Decimals
  PROVE  /\ Padded(f) \in Seq(Char)
         /\ Padded(f) # << >>
         /\ Padded(f) # <<Plus>>
         /\ PlusAsZero(Padded(f)) = PlusAsZero(f) \o Zeros(Decimals - Len(f))
  <1> DEFINE p == Padded(f)
             a == PlusAsZero(f)
             L == Len(f)
             z == Zeros(Decimals - L)
  <1>1. L \in Nat /\ L > 0 /\ L <= Decimals /\ Decimals - L \in Nat
    BY EmptySeq, UsdcAssumption
  <1>2. /\ p \in Seq(Char) /\ Len(p) = Decimals
        /\ \A i \in 1 .. Decimals : p[i] = IF i <= L THEN f[i] ELSE 0
    <2>1. \A i \in 1 .. L : f[i] \in Char OBVIOUS
    <2>2. 0 \in Char BY DigitIsNat DEF Char
    <2> HIDE DEF L
    <2>3. p = [i \in 1 .. Decimals |-> IF i <= L THEN f[i] ELSE 0] BY DEF Padded, L
    <2>4. p \in [1 .. Decimals -> Char] BY <1>1, <2>1, <2>2, <2>3, UsdcAssumption
    <2>5. QED BY <2>3, <2>4, UsdcAssumption
  <1>3. /\ a \in Seq(Char) /\ Len(a) = L
        /\ \A i \in 1 .. L : a[i] = IF i = 1 /\ f[1] = Plus THEN 0 ELSE f[i]
    BY PlusAsZeroIs
  <1>4. z \in Seq(Char) /\ Len(z) = Decimals - L /\ \A i \in 1 .. Decimals - L : z[i] = 0
    BY <1>1, ZerosIs
  <1> HIDE DEF p, a, L, z
  <1>5. /\ a \o z \in Seq(Char) /\ Len(a \o z) = Decimals
        /\ \A i \in 1 .. Decimals : (a \o z)[i] = IF i <= L THEN a[i] ELSE z[i - L]
    <2>1. Len(a) + Len(z) = Decimals BY <1>1, <1>3, <1>4, UsdcAssumption
    <2>2. QED BY <1>3, <1>4, <2>1, ConcatProperties
  <1>6. /\ PlusAsZero(p) \in Seq(Char) /\ Len(PlusAsZero(p)) = Decimals
        /\ \A i \in 1 .. Decimals :
             PlusAsZero(p)[i] = IF i = 1 /\ p[1] = Plus THEN 0 ELSE p[i]
    BY <1>2, PlusAsZeroIs
  <1>7. p[1] = f[1] BY <1>1, <1>2, UsdcAssumption
  <1>8. ASSUME NEW i \in 1 .. Decimals PROVE PlusAsZero(p)[i] = (a \o z)[i]
    <2>1. CASE i <= L
      <3>1. i \in 1 .. L BY <1>1, <2>1
      <3>2. p[i] = f[i] BY <1>2, <2>1
      <3>3. QED BY <1>3, <1>5, <1>6, <1>7, <2>1, <3>1, <3>2
    <2>2. CASE ~(i <= L)
      <3>1. i # 1 /\ i - L \in 1 .. Decimals - L BY <1>1, <2>2, UsdcAssumption
      <3>2. p[i] = 0 BY <1>2, <2>2
      <3>3. z[i - L] = 0 BY <1>4, <3>1
      <3>4. QED BY <1>5, <1>6, <2>2, <3>1, <3>2, <3>3
    <2>3. QED BY <2>1, <2>2
  <1>9. PlusAsZero(p) = a \o z BY <1>5, <1>6, <1>8, SeqEqual
  <1>10. p # << >> /\ p # <<Plus>>
    <2>1. Len(<<Plus>>) = 1 /\ Len(<< >>) = 0 OBVIOUS
    <2>2. QED BY <1>2, <2>1, UsdcAssumption
  <1>11. QED BY <1>2, <1>9, <1>10 DEF p, a, L, z

\* One USDC is a positive number of units that fits.
LEMMA ScaleIs == Scale \in Nat /\ Scale > 0 /\ Scale <= MaxUnits
  BY PowerIs, UsdcAssumption DEF Scale

\* What parse_decimal makes of the whole part; an empty one is 0.
LEMMA WholeRead ==
  ASSUME NEW w \in Seq(Char)
  PROVE  (IF w = << >> THEN 0 ELSE ParseUint(w)) =
           IF /\ w # <<Plus>>
              /\ PlusAsZero(w) \in Seq(Digit)
              /\ Value(PlusAsZero(w)) <= MaxUnits
             THEN Value(PlusAsZero(w)) ELSE Bad
  <1>1. CASE w # << >> BY <1>1, ParseUintIs
  <1>2. CASE w = << >>
    <2>1. PlusAsZero(w) = << >> /\ << >> # <<Plus>> BY <1>2, PlusAsZeroElse
    <2>2. << >> \in Seq(Digit) OBVIOUS
    <2>3. Value(<< >>) = 0 /\ 0 <= MaxUnits BY ValueOfEmpty, UsdcAssumption
    <2>4. QED BY <1>2, <2>1, <2>2, <2>3
  <1>3. QED BY <1>1, <1>2

\* Two parts are digits when each of them is.
LEMMA ConcatOfDigits ==
  ASSUME NEW A, NEW B, NEW s \in Seq(A), NEW t \in Seq(A)
  PROVE  s \o t \in Seq(B) <=> s \in Seq(B) /\ t \in Seq(B)
  <1>1. Len(s) \in Nat /\ s = [i \in 1 .. Len(s) |-> s[i]] OBVIOUS
  <1>2. Len(t) \in Nat /\ t = [i \in 1 .. Len(t) |-> t[i]] OBVIOUS
  <1>3. Len(s \o t) = Len(s) + Len(t) BY ConcatProperties
  <1>4. ASSUME s \o t \in Seq(B) PROVE s \in Seq(B) /\ t \in Seq(B)
    <2>1. ASSUME NEW i \in 1 .. Len(s) PROVE s[i] \in B
      <3>1. i \in 1 .. Len(s \o t) BY <1>1, <1>2, <1>3
      <3>2. (s \o t)[i] = s[i] BY <1>1, <1>2, ConcatProperties
      <3>3. QED BY <1>4, <3>1, <3>2, ElementOfSeq
    <2>2. ASSUME NEW i \in 1 .. Len(t) PROVE t[i] \in B
      <3>1. Len(s) + i \in 1 .. Len(s \o t) BY <1>1, <1>2, <1>3
      <3>2. (s \o t)[Len(s) + i] = t[i] BY <1>1, <1>2, ConcatProperties
      <3>3. QED BY <1>4, <3>1, <3>2, ElementOfSeq
    <2>3. QED BY <1>1, <1>2, <2>1, <2>2
  <1>5. ASSUME s \in Seq(B), t \in Seq(B) PROVE s \o t \in Seq(B)
    BY <1>5, ConcatProperties
  <1>6. QED BY <1>4, <1>5

\* What parse_decimal makes of the fraction: it never overflows, because it has no
\* more than Decimals digits.
LEMMA FractionRead ==
  ASSUME NEW f \in Seq(Char), Len(f) <= Decimals
  PROVE  (IF f = << >> THEN 0 ELSE ParseUint(Padded(f))) =
           IF PlusAsZero(f) \in Seq(Digit)
             THEN Value(PlusAsZero(f)) * Power[Decimals - Len(f)] ELSE Bad
  <1> DEFINE a == PlusAsZero(f)
             n == Decimals - Len(f)
  <1>1. n \in Nat /\ Power[n] \in Nat
    <2>1. Len(f) \in Nat OBVIOUS
    <2>2. n \in Nat BY <2>1, UsdcAssumption
    <2> HIDE DEF n
    <2>3. QED BY <2>2, PowerIs
  <1>2. CASE f = << >>
    <2>1. a = << >> BY <1>2, PlusAsZeroElse
    <2>2. << >> \in Seq(Digit) OBVIOUS
    <2>3. Value(a) * Power[n] = 0
      <3> HIDE DEF n
      <3>1. QED BY <1>1, <2>1, ValueOfEmpty
    <2>4. a \in Seq(Digit) BY <2>1, <2>2
    <2> HIDE DEF n, a
    <2>5. QED BY <1>2, <2>3, <2>4 DEF n, a
  <1>3. CASE f # << >>
    <2>1. /\ Padded(f) \in Seq(Char) /\ Padded(f) # << >> /\ Padded(f) # <<Plus>>
          /\ PlusAsZero(Padded(f)) = a \o Zeros(n)
      BY <1>3, PaddedIs
    <2>2. a \in Seq(Char) /\ Len(a) = Len(f) BY PlusAsZeroIs
    <2> HIDE DEF n, a
    <2>3. /\ Zeros(n) \in Seq(Char) /\ Zeros(n) \in Seq(Digit) /\ Len(Zeros(n)) = n
          /\ Value(Zeros(n)) = 0
      BY <1>1, ZerosIs
    <2>4. a \o Zeros(n) \in Seq(Digit) <=> a \in Seq(Digit)
      BY <2>2, <2>3, ConcatOfDigits
    <2>5. ASSUME a \in Seq(Digit)
          PROVE  /\ Value(a \o Zeros(n)) = Value(a) * Power[n]
                 /\ Value(a \o Zeros(n)) <= MaxUnits
      <3>1. a \in Seq(Nat) /\ Zeros(n) \in Seq(Nat) BY <2>3, <2>5, DigitsAreNats
      <3>2. Value(a) \in Nat BY <3>1, ValueIsNat
      <3>3. Value(a \o Zeros(n)) = Value(a) * Power[n] + 0
        BY <2>3, <3>1, ValueOfConcat
      <3>4. Value(a) * Power[n] \in Nat BY <1>1, <3>2
      <3>5. a \o Zeros(n) \in Seq(Digit) BY <2>4, <2>5
      <3>6. Len(a \o Zeros(n)) = Decimals
        <4>1. Len(a \o Zeros(n)) = Len(a) + Len(Zeros(n)) BY <2>2, <2>3, ConcatProperties
        <4>2. Len(f) \in Nat OBVIOUS
        <4>3. Len(f) + n = Decimals BY <4>2, UsdcAssumption DEF n
        <4>4. QED BY <2>2, <2>3, <4>1, <4>3
      <3>7. Value(a \o Zeros(n)) < Scale BY <3>5, <3>6, ValueBelow DEF Scale
      <3> DEFINE v == Value(a) * Power[n]
      <3>8. Value(a \o Zeros(n)) = v
        <4>1. v \in Nat BY <3>4
        <4>2. Value(a \o Zeros(n)) = v + 0 BY <3>3
        <4> HIDE DEF v
        <4>3. QED BY <4>1, <4>2
      <3>9. v <= MaxUnits
        <4>1. v \in Nat /\ v < Scale BY <3>4, <3>7, <3>8
        <4> HIDE DEF v
        <4>2. QED BY <4>1, ScaleIs, UsdcAssumption
      <3> HIDE DEF v
      <3>10. QED BY <3>8, <3>9 DEF v
    <2>6. ParseUint(Padded(f)) =
            IF a \o Zeros(n) \in Seq(Digit) /\ Value(a \o Zeros(n)) <= MaxUnits
              THEN Value(a \o Zeros(n)) ELSE Bad
      BY <2>1, ParseUintIs
    <2>7. QED BY <1>3, <2>4, <2>5, <2>6 DEF a, n
  <1>4. QED BY <1>2, <1>3

----------------------------------------------------------------------------
(* ParseDecimal *)

\* The amount a text stands for is its whole part scaled, and its fraction filled up.
LEMMA AmountIs ==
  ASSUME NEW w \in Seq(Char), NEW f \in Seq(Char), Len(f) <= Decimals,
         PlusAsZero(w) \in Seq(Digit), PlusAsZero(f) \in Seq(Digit)
  PROVE  /\ Value(PlusAsZero(w)) \in Nat
         /\ Value(PlusAsZero(f)) * Power[Decimals - Len(f)] \in Nat
         /\ Worth(PlusAsZero(w) \o PlusAsZero(f)) * Power[Decimals - Len(f)] =
              Value(PlusAsZero(w)) * Scale
                + Value(PlusAsZero(f)) * Power[Decimals - Len(f)]
  <1> DEFINE a == PlusAsZero(w)
             b == PlusAsZero(f)
             L == Len(f)
             n == Decimals - L
             va == Value(a)
             vb == Value(b)
             p == Power[L]
             q == Power[n]
  <1>1. L \in Nat /\ n \in Nat /\ L + n = Decimals BY UsdcAssumption
  <1>2. a \in Seq(Nat) /\ b \in Seq(Nat) /\ Len(b) = L
    BY DigitsAreNats, PlusAsZeroIs
  <1> HIDE DEF a, b, L, n
  <1>3. p \in Nat /\ q \in Nat /\ Scale = p * q
    <2>1. p \in Nat /\ q \in Nat BY <1>1, PowerIs
    <2>2. Power[L + n] = p * q BY <1>1, PowerOfSum
    <2>3. QED BY <1>1, <2>1, <2>2 DEF Scale
  <1>4. va \in Nat /\ vb \in Nat BY <1>2, ValueIsNat
  <1>5. Worth(a \o b) = va * p + vb
    <2>1. a \o b \in Seq(Nat) BY <1>2, ConcatProperties
    <2>2. Worth(a \o b) = Value(a \o b) BY <2>1, WorthIsValue
    <2>3. Value(a \o b) = Value(a) * Power[Len(b)] + Value(b) BY <1>2, ValueOfConcat
    <2>4. QED BY <1>2, <2>2, <2>3
  <1> HIDE DEF va, vb, p, q
  <1>6. (va * p + vb) * q = va * (p * q) + vb * q BY <1>3, <1>4
  <1>7. vb * q \in Nat BY <1>3, <1>4
  <1>8. va \in Nat /\ vb * q \in Nat /\ Worth(a \o b) * q = va * Scale + vb * q
    BY <1>3, <1>4, <1>5, <1>6, <1>7
  <1>9. QED BY <1>8 DEF a, b, L, n, va, vb, p, q

\* What parse_decimal rejects by shape and by character is what is not well written.
LEMMA WellWrittenIs ==
  ASSUME NEW t \in Text, ~t.point => t.frac = << >>
  PROVE  WellWritten(t) <=> /\ ~Malformed(t)
                            /\ t.whole # <<Plus>>
                            /\ PlusAsZero(t.whole) \in Seq(Digit)
                            /\ PlusAsZero(t.frac) \in Seq(Digit)
  <1> DEFINE w == t.whole
             f == t.frac
  <1>1. w \in Seq(Char) /\ f \in Seq(Char) /\ t.point \in BOOLEAN BY DEF Text, Char
  <1>2. w \o f # << >> <=> ~(w = << >> /\ f = << >>)
    <2> HIDE DEF w, f
    <2>1. QED BY <1>1, ConcatEqualIffEmpty
  <1>3. PlusAsZero(w) \in Seq(Char) /\ PlusAsZero(f) \in Seq(Char) BY <1>1, PlusAsZeroIs
  <1>4. Range(PlusAsZero(w)) \cup Range(PlusAsZero(f)) \subseteq Digit <=>
          PlusAsZero(w) \in Seq(Digit) /\ PlusAsZero(f) \in Seq(Digit)
    <2>1. Range(PlusAsZero(w)) \subseteq Digit <=> PlusAsZero(w) \in Seq(Digit)
      BY <1>3, RangeIs
    <2>2. Range(PlusAsZero(f)) \subseteq Digit <=> PlusAsZero(f) \in Seq(Digit)
      BY <1>3, RangeIs
    <2>3. QED BY <2>1, <2>2
  <1>5. Len(f) > Decimals <=> ~(Len(f) <= Decimals)
    <2>1. Len(f) \in Nat BY <1>1
    <2>2. QED BY <2>1, UsdcAssumption
  <1>6. (t.point <=> f # << >>) <=> ~(t.point /\ f = << >>) BY <1>1
  <1>7. QED BY <1>2, <1>4, <1>5, <1>6 DEF WellWritten, Malformed

\* The overflow check of the whole part adds nothing to that of the sum.
LEMMA SumChecked ==
  ASSUME NEW u \in Nat, NEW r \in Nat
  PROVE  (IF u <= MaxUnits THEN CheckedSum(u, r) ELSE Bad) =
           IF u * Scale + r <= MaxUnits THEN u * Scale + r ELSE Bad
  <1> DEFINE c == Scale
  <1>1. c \in Nat /\ c > 0 BY ScaleIs
  <1>2. CheckedSum(u, r) = IF u * c + r <= MaxUnits THEN u * c + r ELSE Bad
    BY DEF CheckedSum
  <1> HIDE DEF c
  <1>3. u <= u * c + r /\ u * c + r \in Nat
    <2>1. u * 1 <= u * c /\ u * c \in Nat BY <1>1
    <2>2. QED BY <2>1
  <1>4. u * c + r <= MaxUnits => u <= MaxUnits BY <1>3, UsdcAssumption
  <1>5. QED BY <1>2, <1>4 DEF c

\* parse_decimal computes the reading of every text, and it fits in 128 bits
\* (payment.rs:126-156).
LEMMA ParseDecimalIs ==
  ASSUME NEW t \in Text, ~t.point => t.frac = << >>
  PROVE  /\ ParseDecimal(t) = Reading(t)
         /\ Reading(t) \in 0 .. MaxUnits \cup {Bad}
  <1> DEFINE w == t.whole
             f == t.frac
             n == Decimals - Len(f)
             va == Value(PlusAsZero(w))
             vf == Value(PlusAsZero(f)) * Power[n]
             whole == IF w = << >> THEN 0 ELSE ParseUint(w)
             frac == IF f = << >> THEN 0 ELSE ParseUint(Padded(f))
  <1>1. w \in Seq(Char) /\ f \in Seq(Char) BY DEF Text, Char
  <1>2. ParseDecimal(t) = IF Malformed(t) \/ whole = Bad \/ frac = Bad
                            THEN Bad ELSE CheckedSum(whole, frac)
    BY DEF ParseDecimal
  <1>3. CASE Malformed(t)
    <2>1. ~WellWritten(t) BY <1>3, WellWrittenIs
    <2>2. QED BY <1>2, <1>3, <2>1 DEF Reading
  <1>4. CASE ~Malformed(t)
    <2>1. Len(f) <= Decimals
      <3>1. Len(f) \in Nat BY <1>1
      <3>2. QED BY <1>4, <3>1, UsdcAssumption DEF Malformed
    <2>2. whole = IF w # <<Plus>> /\ PlusAsZero(w) \in Seq(Digit) /\ va <= MaxUnits
                    THEN va ELSE Bad
      BY <1>1, WholeRead
    <2>3. frac = IF PlusAsZero(f) \in Seq(Digit) THEN vf ELSE Bad
      BY <1>1, <2>1, FractionRead
    <2>4. CASE ~(/\ w # <<Plus>>
                 /\ PlusAsZero(w) \in Seq(Digit)
                 /\ PlusAsZero(f) \in Seq(Digit))
      <3>1. ~WellWritten(t) BY <2>4, WellWrittenIs
      <3>2. whole = Bad \/ frac = Bad BY <2>2, <2>3, <2>4
      <3>3. QED BY <1>2, <3>1, <3>2 DEF Reading
    <2>5. CASE /\ w # <<Plus>>
               /\ PlusAsZero(w) \in Seq(Digit)
               /\ PlusAsZero(f) \in Seq(Digit)
      <3>1. WellWritten(t) BY <1>4, <2>5, WellWrittenIs
      <3>2. /\ va \in Nat /\ vf \in Nat
            /\ Amount(t) = va * Scale + vf
        BY <1>1, <2>1, <2>5, AmountIs DEF Amount
      <3>3. Amount(t) \in Nat
        <4>1. va * Scale \in Nat
          <5> HIDE DEF va
          <5>1. QED BY <3>2, ScaleIs
        <4> HIDE DEF va, vf
        <4>2. QED BY <3>2, <4>1
      <3>4. Reading(t) = IF va * Scale + vf <= MaxUnits THEN va * Scale + vf ELSE Bad
        BY <3>1, <3>2 DEF Reading
      <3>5. Reading(t) \in 0 .. MaxUnits \cup {Bad}
        BY <3>1, <3>3, UsdcAssumption DEF Reading
      <3>6. ParseDecimal(t) = IF va <= MaxUnits THEN CheckedSum(va, vf) ELSE Bad
        <4>1. va # Bad /\ vf # Bad BY <3>2, SymbolsAreNotNumbers
        <4> HIDE DEF va, vf, whole, frac
        <4>2. QED BY <1>2, <1>4, <2>2, <2>3, <2>5, <4>1
      <3> HIDE DEF va, vf
      <3>7. QED BY <3>2, <3>4, <3>5, <3>6, SumChecked
    <2>6. QED BY <2>4, <2>5
  <1>5. QED BY <1>3, <1>4

----------------------------------------------------------------------------
(* Display *)

\* The greatest number of a bounded set.
LEMMA MaxIs ==
  ASSUME NEW N \in Nat, NEW S, S \subseteq 0 .. N, S # {}
  PROVE  Max(S) \in S /\ \A i \in S : i <= Max(S)
  <1> DEFINE T == {i \in Nat : \E j \in S : i = N - j}
  <1>1. T # {}
    <2>1. PICK j \in S : TRUE OBVIOUS
    <2>2. N - j \in T OBVIOUS
    <2>3. QED BY <2>2
  <1>2. T \subseteq Nat OBVIOUS
  <1>3. PICK m \in T : \A i \in T : m <= i
    <2> HIDE DEF T
    <2>1. QED BY <1>1, <1>2, LeastNumber
  <1>4. PICK k \in S : m = N - k OBVIOUS
  <1>5. ASSUME NEW i \in S PROVE k >= i
    <2>1. N - i \in T OBVIOUS
    <2>2. N - k <= N - i BY <1>3, <1>4, <2>1
    <2>3. k \in Int /\ i \in Int OBVIOUS
    <2>4. QED BY <2>2, <2>3
  <1>6. \E x \in S : \A y \in S : x >= y BY <1>5
  <1>7. Max(S) \in S /\ \A y \in S : Max(S) >= y BY <1>6 DEF Max
  <1>8. \A i \in S : i \in Int OBVIOUS
  <1>9. QED BY <1>7, <1>8

\* Trimmed cuts off zeros only, stops at Shown, and leaves no zero it could cut.
LEMMA TrimmedIs ==
  ASSUME NEW f \in Seq(Digit), Len(f) = Decimals
  PROVE  \E m \in Shown .. Decimals :
           /\ Trimmed(f) = SubSeq(f, 1, m)
           /\ \A i \in m + 1 .. Decimals : f[i] = 0
           /\ m > Shown => f[m] # 0
  <1> DEFINE S == {0} \cup {i \in DOMAIN f : f[i] # 0}
             last == Max(S)
             m == IF last <= Shown THEN Shown ELSE last
  <1>1. DOMAIN f = 1 .. Decimals OBVIOUS
  <1>2. S \subseteq 0 .. Decimals /\ S # {} BY <1>1, UsdcAssumption
  <1>3. last \in S /\ \A i \in S : i <= last
    <2> HIDE DEF S
    <2>1. QED BY <1>2, MaxIs, UsdcAssumption
  <1>4. Trimmed(f) = SubSeq(f, 1, m) BY DEF Trimmed
  <1>5. last \in 0 .. Decimals BY <1>2, <1>3
  <1>6. last # 0 => f[last] # 0 BY <1>3
  <1>7. \A i \in 1 .. Decimals : f[i] # 0 => i <= last BY <1>1, <1>3
  <1> HIDE DEF last, S
  <1>8. m \in Shown .. Decimals /\ last <= m BY <1>5, UsdcAssumption
  <1>9. m > Shown => m = last /\ last # 0 BY <1>5, UsdcAssumption
  <1> HIDE DEF m
  <1>10. ASSUME NEW i \in m + 1 .. Decimals PROVE f[i] = 0
    <2>1. i \in 1 .. Decimals /\ ~(i <= last) BY <1>5, <1>8, UsdcAssumption
    <2>2. QED BY <1>7, <2>1
  <1>11. QED BY <1>4, <1>6, <1>8, <1>9, <1>10

\* Digits hold no plus.
LEMMA DigitsHaveNoPlus ==
  ASSUME NEW s \in Seq(Digit)
  PROVE  s \in Seq(Char) /\ PlusAsZero(s) = s /\ s # <<Plus>>
  <1>1. s \in Seq(Char) BY SeqMonotonic DEF Char
  <1>2. ASSUME s # << >> PROVE s[1] # Plus
    <2>1. Len(s) \in Nat /\ Len(s) # 0 BY <1>2, EmptySeq
    <2>2. 1 \in 1 .. Len(s)
      <3> DEFINE L == Len(s)
      <3>1. L \in Nat /\ L # 0 BY <2>1
      <3> HIDE DEF L
      <3>2. 1 \in 1 .. L BY <3>1
      <3>3. QED BY <3>2 DEF L
    <2>3. s[1] \in Digit BY <2>2, ElementOfSeq
    <2>4. QED BY <2>3, DigitIsNat, SymbolsAreNotNumbers
  <1>3. PlusAsZero(s) = s BY <1>1, <1>2, PlusAsZeroElse
  <1>4. s # <<Plus>>
    <2>1. <<Plus>> # << >> /\ <<Plus>>[1] = Plus OBVIOUS
    <2>2. QED BY <1>2, <2>1
  <1>5. QED BY <1>1, <1>3, <1>4

\* What is cut off is worth nothing.
LEMMA TrimmedValue ==
  ASSUME NEW f \in Seq(Digit), Len(f) = Decimals
  PROVE  /\ Trimmed(f) \in Seq(Digit)
         /\ Len(Trimmed(f)) \in Shown .. Decimals
         /\ Trimmed(f) # << >>
         /\ Len(Trimmed(f)) > Shown => Last(Trimmed(f)) # 0
         /\ Value(Trimmed(f)) * Power[Decimals - Len(Trimmed(f))] = Value(f)
  <1>1. PICK m \in Shown .. Decimals :
          /\ Trimmed(f) = SubSeq(f, 1, m)
          /\ \A i \in m + 1 .. Decimals : f[i] = 0
          /\ m > Shown => f[m] # 0
    BY TrimmedIs
  <1> DEFINE s == Trimmed(f)
             n == Decimals - m
             z == Zeros(n)
  <1>2. m \in Nat /\ m > 0 /\ m <= Decimals /\ n \in Nat /\ m + n = Decimals
    BY UsdcAssumption
  <1> HIDE DEF n
  <1>3. s \in Seq(Digit) /\ Len(s) = m /\ \A i \in 1 .. m : s[i] = f[i]
    BY <1>1, <1>2, UsdcAssumption
  <1>4. z \in Seq(Digit) /\ Len(z) = n /\ (\A i \in 1 .. n : z[i] = 0) /\ Value(z) = 0
    BY <1>2, ZerosIs
  <1> HIDE DEF s, z
  <1>5. f = s \o z
    <2>1. /\ s \o z \in Seq(Digit) /\ Len(s \o z) = Decimals
          /\ \A i \in 1 .. Decimals : (s \o z)[i] = IF i <= m THEN s[i] ELSE z[i - m]
      <3>1. Len(s) + Len(z) = Decimals BY <1>2, <1>3, <1>4
      <3>2. /\ s \o z \in Seq(Digit) /\ Len(s \o z) = Len(s) + Len(z)
            /\ \A i \in 1 .. Len(s) + Len(z) :
                 (s \o z)[i] = IF i <= Len(s) THEN s[i] ELSE z[i - Len(s)]
        BY <1>3, <1>4, ConcatProperties
      <3>3. Len(s) = m BY <1>3
      <3>4. QED BY <3>1, <3>2, <3>3
    <2>2. ASSUME NEW i \in 1 .. Decimals PROVE f[i] = (s \o z)[i]
      <3>1. CASE i <= m
        <4>1. i \in 1 .. m BY <1>2, <3>1
        <4>2. QED BY <1>3, <2>1, <3>1, <4>1
      <3>2. CASE ~(i <= m)
        <4>1. i \in m + 1 .. Decimals /\ i - m \in 1 .. n BY <1>2, <3>2, UsdcAssumption
        <4>2. f[i] = 0 /\ z[i - m] = 0 BY <1>1, <1>4, <4>1
        <4>3. QED BY <2>1, <3>2, <4>2
      <3>3. QED BY <3>1, <3>2
    <2>3. QED BY <2>1, <2>2, SeqEqual
  <1>6. Value(f) = Value(s) * Power[n]
    <2>1. s \in Seq(Nat) /\ z \in Seq(Nat) BY <1>3, <1>4, DigitsAreNats
    <2>2. Value(s) \in Nat /\ Power[n] \in Nat BY <1>2, <2>1, ValueIsNat, PowerIs
    <2>3. Value(s \o z) = Value(s) * Power[n] + 0 BY <1>4, <2>1, ValueOfConcat
    <2>4. Value(s) * Power[n] \in Nat BY <2>2
    <2>5. QED BY <1>5, <2>3, <2>4
  <1>7. Last(s) = f[m]
    <2>1. m \in 1 .. m BY <1>2
    <2>2. QED BY <1>3, <2>1 DEF Last
  <1>8. s # << >> BY <1>2, <1>3
  <1>9. QED BY <1>1, <1>3, <1>6, <1>7, <1>8 DEF s, n

\* What is shown of an amount reads as that amount, in canonical form
\* (payment.rs:159-173).
LEMMA DisplayIs ==
  ASSUME NEW n \in 0 .. MaxUnits
  PROVE  LET d == Display(n)
         IN  /\ d \in Text /\ d.point
             /\ Reading(d) = n
             /\ Len(d.frac) >= Shown
             /\ Len(d.frac) > Shown => Last(d.frac) # 0
             /\ Len(d.whole) > 1 => Head(d.whole) # 0
  <1> DEFINE q == n \div Scale
             f == Digits(n, Decimals)
             w == Written(q)
             t == Trimmed(f)
             d == Display(n)
  <1>1. n \in Nat /\ n <= MaxUnits BY UsdcAssumption
  <1>2. q \in Nat BY <1>1, ScaleIs, Division
  <1>3. f \in Seq(Digit) /\ Len(f) = Decimals BY <1>1, DigitsIs, UsdcAssumption
  <1>4. n = q * Scale + Value(f)
    BY <1>1, ValueOfDigits, UsdcAssumption DEF Scale
  <1> HIDE DEF q, f
  <1>5. /\ w \in Seq(Digit) /\ Len(w) > 0 /\ Value(w) = q
        /\ Len(w) > 1 => Head(w) # 0
    BY <1>2, WrittenIs
  <1>6. /\ t \in Seq(Digit) /\ Len(t) \in Shown .. Decimals /\ t # << >>
        /\ Len(t) > Shown => Last(t) # 0
        /\ Value(t) * Power[Decimals - Len(t)] = Value(f)
    BY <1>3, TrimmedValue
  <1>7. d = [whole |-> w, point |-> TRUE, frac |-> t] BY DEF Display, q, f
  <1> HIDE DEF w, t, d
  <1>8. d.whole = w /\ d.point = TRUE /\ d.frac = t BY <1>7
  <1>9. /\ w \in Seq(Char) /\ PlusAsZero(w) = w /\ w # <<Plus>>
        /\ t \in Seq(Char) /\ PlusAsZero(t) = t
    BY <1>5, <1>6, DigitsHaveNoPlus
  <1>10. d \in Text BY <1>7, <1>9 DEF Text, Char
  <1>11. Len(t) <= Decimals /\ Len(t) >= Shown
    <2> DEFINE L == Len(t)
    <2>1. L \in Shown .. Decimals BY <1>6
    <2> HIDE DEF L
    <2>2. L <= Decimals /\ L >= Shown BY <2>1, UsdcAssumption
    <2>3. QED BY <2>2 DEF L
  <1>12. ~Malformed(d)
    <2> DEFINE L == Len(t)
    <2>1. L \in Nat /\ L <= Decimals BY <1>6, <1>11
    <2> HIDE DEF L
    <2>2. ~(L > Decimals) BY <2>1, UsdcAssumption
    <2>3. QED BY <1>6, <1>8, <2>2 DEF Malformed, L
  <1>13. WellWritten(d) BY <1>5, <1>6, <1>8, <1>9, <1>10, <1>12, WellWrittenIs
  <1>14. Amount(d) = n
    <2>1. Worth(PlusAsZero(w) \o PlusAsZero(t)) * Power[Decimals - Len(t)] =
            Value(PlusAsZero(w)) * Scale + Value(PlusAsZero(t)) * Power[Decimals - Len(t)]
      BY <1>5, <1>6, <1>9, <1>11, AmountIs
    <2>2. QED BY <1>4, <1>5, <1>6, <1>8, <1>9, <2>1 DEF Amount
  <1>15. Reading(d) = n BY <1>1, <1>13, <1>14 DEF Reading
  <1>16. QED BY <1>5, <1>6, <1>8, <1>10, <1>11, <1>15 DEF d

----------------------------------------------------------------------------
(* The specification *)

\* The invariant: the text is one that the code can split, and what is shown is
\* what Display makes of an amount that fits.
Inv ==
  /\ TypeOK
  /\ ~text.point => text.frac = << >>
  /\ ReadAsWritten
  /\ shown # None => shown = Display(units) /\ units \in 0 .. MaxUnits

\* Inv holds initially.
LEMMA InitInv == Init => Inv
  BY UsdcAssumption DEF Init, Inv, TypeOK, ReadAsWritten

\* Every step preserves Inv.
LEMMA NextInv == Inv /\ [Next]_vars => Inv'
  <1> SUFFICES ASSUME Inv, [Next]_vars PROVE Inv'
    OBVIOUS
  <1> USE DEF Inv, TypeOK, ReadAsWritten
  <1>1. CASE Read
    <2>1. units' = Reading(text) /\ Reading(text) \in 0 .. MaxUnits \cup {Bad}
      BY <1>1, ParseDecimalIs DEF Read
    <2>2. text' = text /\ shown' = shown /\ units = None BY <1>1 DEF Read
    <2>3. shown = None BY <2>2, SymbolsAreNotNumbers
    <2>4. QED BY <2>1, <2>2, <2>3
  <1>2. CASE Show
    <2>1. /\ units \in 0 .. MaxUnits /\ units' = units
          /\ shown' = Display(units) /\ text' = text
      BY <1>2 DEF Show
    <2>2. Display(units) \in Text BY <2>1, DisplayIs
    <2>3. QED BY <2>1, <2>2
  <1>3. CASE Copy
    <2>1. text' = shown /\ units' = None /\ shown' = None /\ shown # None
      BY <1>3 DEF Copy
    <2>2. shown \in Text /\ shown.point
      BY <2>1, DisplayIs
    <2>3. QED BY <2>1, <2>2
  <1>4. CASE UNCHANGED vars
    BY <1>4 DEF vars
  <1>5. QED BY <1>1, <1>2, <1>3, <1>4 DEF Next

\* A shown amount is one that fits, so that DisplayIs applies.
LEMMA InvShown == Inv => ShownExactly
  <1> SUFFICES ASSUME Inv, shown # None PROVE ShownExactly
    BY DEF ShownExactly
  <1>1. units \in 0 .. MaxUnits /\ shown = Display(units) BY DEF Inv
  <1>2. QED BY <1>1, DisplayIs DEF ShownExactly

\* Inv is an invariant.
LEMMA SpecInv == Spec => []Inv
  BY InitInv, NextInv, PTL DEF Spec

\* Ceilings are 128-bit counts, and what is shown is a text
\* (payment.rs:99-105).
THEOREM UsdcTypeCorrect == Spec => []TypeOK
  <1>1. Inv => TypeOK BY DEF Inv
  <1>2. QED BY <1>1, SpecInv, PTL

\* A ceiling is the number its text stands for, or it is rejected
\* (payment.rs:126-156).
THEOREM ReadTheorem == Spec => []ReadAsWritten
  <1>1. Inv => ReadAsWritten BY DEF Inv
  <1>2. QED BY <1>1, SpecInv, PTL

\* What the user is shown reads back as the amount, in canonical form
\* (payment.rs:159-173).
THEOREM ShownTheorem == Spec => []ShownExactly
  BY InvShown, SpecInv, PTL

\* A shown amount that is copied into the next ceiling is parsed as the same amount
\* (payment.rs:126-173).
THEOREM RoundTrip == \A n \in 0 .. MaxUnits : ParseDecimal(Display(n)) = n
  BY DisplayIs, ParseDecimalIs

=============================================================================
