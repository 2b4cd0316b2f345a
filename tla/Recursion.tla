----------------------------- MODULE Recursion -----------------------------
(***************************************************************************)
(* Induction and primitive recursion over Nat in a first-order form: a     *)
(* property is a set and a step is a function, where the library's         *)
(* theorems have operators.                                                *)
(***************************************************************************)
EXTENDS Integers, TLAPS, WellFoundedInduction

\* Induction: a set that has 0 and is closed under successor has all of Nat.
LEMMA NatInd ==
  ASSUME NEW S, 0 \in S, \A n \in Nat : n \in S => n + 1 \in S
  PROVE  Nat \subseteq S
  <1> DEFINE T == Nat \ S
  <1> SUFFICES ASSUME T # {} PROVE FALSE
    OBVIOUS
  <1>1. T \in SUBSET Nat
    OBVIOUS
  <1>2. PICK x \in T : \A y \in T : ~(<<y, x>> \in OpToRel(<, Nat))
    BY <1>1, WFMin, NatLessThanWellFounded, Zenon
  <1>3. x \in Nat /\ x # 0
    OBVIOUS
  <1>4. x - 1 \in Nat /\ x - 1 < x
    BY <1>3
  <1>5. <<x - 1, x>> \in OpToRel(<, Nat)
    BY <1>3, <1>4 DEF OpToRel
  <1>6. x - 1 \in S
    BY <1>2, <1>4, <1>5
  <1>7. (x - 1) + 1 \in S
    BY <1>4, <1>6
  <1>8. (x - 1) + 1 = x
    BY <1>3
  <1> QED
    BY <1>7, <1>8

\* g is the function that primitive recursion defines from a and step.
Recursive(g, A, a, step) ==
  g \in [Nat -> A] /\ g[0] = a /\ \A n \in Nat : g[n + 1] = step[n][g[n]]

\* There is one.
LEMMA NatRec ==
  ASSUME NEW A, NEW a, a \in A, NEW step, step \in [Nat -> [A -> A]]
  PROVE  \E g : Recursive(g, A, a, step)
  <1> DEFINE Upto(n) == {g \in [0 .. n -> A] : g[0] = a /\ \A k \in 0 .. n - 1 : g[k + 1] = step[k][g[k]]}
  <1>1. \A n \in Nat : Upto(n) # {}
    <2> DEFINE S == {n \in Nat : Upto(n) # {}}
    <2>1. 0 \in S
      <3>1. [k \in 0 .. 0 |-> a] \in Upto(0)
        OBVIOUS
      <3> QED
        BY <3>1
    <2>2. ASSUME NEW n \in Nat, n \in S
          PROVE  n + 1 \in S
      <3>1. PICK g : g \in Upto(n)
        BY <2>2
      <3> DEFINE h == [k \in 0 .. n + 1 |-> IF k = n + 1 THEN step[n][g[n]] ELSE g[k]]
      <3>2. g \in [0 .. n -> A] /\ g[0] = a /\ \A k \in 0 .. n - 1 : g[k + 1] = step[k][g[k]]
        BY <3>1
      <3>3. g[n] \in A
        BY <3>2
      <3>4. step[n][g[n]] \in A
        BY <3>3
      <3>5. h \in [0 .. n + 1 -> A]
        <4> SUFFICES ASSUME NEW k \in 0 .. n + 1 PROVE (IF k = n + 1 THEN step[n][g[n]] ELSE g[k]) \in A
          OBVIOUS
        <4>1. CASE k = n + 1
          BY <4>1, <3>4
        <4>2. CASE k # n + 1
          <5>1. k \in 0 .. n
            BY <4>2
          <5> QED
            BY <5>1, <4>2, <3>2
        <4> QED
          BY <4>1, <4>2
      <3>6. h[0] = a
        BY <3>2
      <3>7. \A k \in 0 .. n : h[k + 1] = step[k][h[k]]
        <4> TAKE k \in 0 .. n
        <4>1. h[k] = g[k] /\ k \in 0 .. n + 1 /\ k # n + 1
          OBVIOUS
        <4>2. CASE k = n
          BY <4>1, <4>2
        <4>3. CASE k # n
          <5>1. k \in 0 .. n - 1 /\ k + 1 \in 0 .. n + 1 /\ k + 1 # n + 1
            BY <4>3
          <5> QED
            BY <5>1, <4>1, <3>2
        <4> QED
          BY <4>2, <4>3
      <3>8. h \in Upto(n + 1)
        <4>1. (n + 1) - 1 = n
          OBVIOUS
        <4> HIDE DEF h
        <4> QED
          BY <3>5, <3>6, <3>7, <4>1
      <3> HIDE DEF h, Upto
      <3> QED
        BY <3>8
    <2> HIDE DEF Upto
    <2>3. Nat \subseteq S
      <3> HIDE DEF S
      <3> QED
        BY <2>1, <2>2, NatInd
    <2> QED
      BY <2>3
  <1>2. \A m, n \in Nat : m <= n => \A g \in Upto(m), h \in Upto(n) : \A k \in 0 .. m : g[k] = h[k]
    <2> SUFFICES ASSUME NEW m \in Nat, NEW n \in Nat, m <= n, NEW g \in Upto(m), NEW h \in Upto(n)
                 PROVE  \A k \in 0 .. m : g[k] = h[k]
      OBVIOUS
    <2> DEFINE S == {k \in Nat : k <= m => g[k] = h[k]}
    <2>1. 0 \in S
      OBVIOUS
    <2>2. ASSUME NEW k \in Nat, k \in S
          PROVE  k + 1 \in S
      <3> SUFFICES ASSUME k + 1 <= m PROVE g[k + 1] = h[k + 1]
        OBVIOUS
      <3>1. k \in 0 .. m - 1 /\ k \in 0 .. n - 1
        OBVIOUS
      <3>2. g[k] = h[k]
        BY <2>2
      <3> QED
        BY <3>1, <3>2
    <2>3. Nat \subseteq S
      <3> HIDE DEF S
      <3> QED
        BY <2>1, <2>2, NatInd
    <2> QED
      BY <2>3
  <1> DEFINE F == [n \in Nat |-> (CHOOSE g : g \in Upto(n))[n]]
  <1>3. \A n \in Nat : (CHOOSE g : g \in Upto(n)) \in Upto(n)
    <2> HIDE DEF Upto
    <2> QED
      BY <1>1
  <1>4. \A n \in Nat : \A g \in Upto(n) : \A k \in 0 .. n : g[k] = F[k]
    <2> SUFFICES ASSUME NEW n \in Nat, NEW g \in Upto(n), NEW k \in 0 .. n PROVE g[k] = F[k]
      OBVIOUS
    <2>1. k \in Nat /\ k <= n /\ k \in 0 .. k
      OBVIOUS
    <2> HIDE DEF Upto
    <2> QED
      BY <1>2, <1>3, <2>1
  <1>5. F \in [Nat -> A]
    <2> SUFFICES ASSUME NEW n \in Nat PROVE (CHOOSE g : g \in Upto(n))[n] \in A
      OBVIOUS
    <2>1. (CHOOSE g : g \in Upto(n)) \in [0 .. n -> A]
      BY <1>3
    <2> QED
      BY <2>1
  <1>6. F[0] = a
    <2>1. PICK g : g \in Upto(0)
      BY <1>1
    <2>2. g[0] = a
      BY <2>1
    <2>3. g[0] = F[0]
      <3> HIDE DEF F, Upto
      <3> QED
        BY <1>4, <2>1
    <2> QED
      BY <2>2, <2>3
  <1>7. \A n \in Nat : F[n + 1] = step[n][F[n]]
    <2> TAKE n \in Nat
    <2>1. PICK g : g \in Upto(n + 1)
      <3>1. n + 1 \in Nat
        OBVIOUS
      <3> HIDE DEF Upto
      <3> QED
        BY <1>1, <3>1
    <2>2. g[n + 1] = step[n][g[n]]
      BY <2>1
    <2>3. g[n + 1] = F[n + 1] /\ g[n] = F[n]
      <3> HIDE DEF F, Upto
      <3> QED
        BY <1>4, <2>1
    <2> QED
      BY <2>2, <2>3
  <1> HIDE DEF F
  <1> QED
    BY <1>5, <1>6, <1>7 DEF Recursive
=============================================================================
