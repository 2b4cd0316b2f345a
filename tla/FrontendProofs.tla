--------------------------- MODULE FrontendProofs ---------------------------
(***************************************************************************)
(* The decoder reads back every instruction an assembler can write, with   *)
(* every value of its fields; the lists of a region stay whole; a pass     *)
(* visits what was there when it began, once and in order; the IR has the  *)
(* operands of the instructions it was made for.                           *)
(*                                                                         *)
(* A number is what remains of it above bit k, shifted left, with its bits *)
(* below k shifted in: so the pieces of a field, wherever the encoding has *)
(* put them, give back the number they were taken from.                    *)
(*                                                                         *)
(* A ring is described by the sequence of its elements: inserting and      *)
(* removing a node insert and remove an element of that sequence and leave *)
(* the other rings alone, so a region is a sequence of such sequences.     *)
(* A loop is at a position of their concatenation: behind it is what it    *)
(* has visited with what it inserted, ahead of it what is still unchanged. *)
(***************************************************************************)
EXTENDS Frontend, Recursion, FiniteSetTheorems

-----------------------------------------------------------------------------
(* Bits of a number *)

Bit(c, p) == IF p \in c THEN 1 ELSE 0

LEMMA BitRange ==
  ASSUME NEW c, NEW p
  PROVE  Bit(c, p) \in {0, 1}
  BY DEF Bit

\* What the loop of Shr computes.
LEMMA ShrDef ==
  ASSUME NEW t \in Int
  PROVE  /\ Shr(t, 0) = t
         /\ \A k \in Nat : Shr(t, k) \in Int /\ Shr(t, k + 1) = Shr(t, k) \div 2
  <1> DEFINE step == [k \in Nat |-> [x \in Int |-> x \div 2]]
             F(g) == [j \in Nat |-> IF j = 0 THEN t ELSE g[j - 1] \div 2]
             r == CHOOSE g : g = F(g)
  <1>1. step \in [Nat -> [Int -> Int]]
    OBVIOUS
  <1>2. PICK g : Recursive(g, Int, t, step)
    <2> HIDE DEF step
    <2> QED
      BY <1>1, NatRec
  <1>3. g \in [Nat -> Int] /\ g[0] = t /\ \A n \in Nat : g[n + 1] = g[n] \div 2
    BY <1>2 DEF Recursive
  <1>4. g = F(g)
    <2>1. ASSUME NEW n \in Nat
          PROVE  g[n] = IF n = 0 THEN t ELSE g[n - 1] \div 2
      <3>1. CASE n = 0
        BY <1>3, <3>1
      <3>2. CASE n # 0
        <4>1. n - 1 \in Nat /\ (n - 1) + 1 = n
          BY <3>2
        <4> QED
          BY <1>3, <3>2, <4>1
      <3> QED
        BY <3>1, <3>2
    <2> QED
      BY <1>3, <2>1
  <1>5. r = F(r)
    <2> HIDE DEF F
    <2> QED
      BY <1>4
  <1>6. \A k : Shr(t, k) = r[k]
    BY DEF Shr, r
  <1> HIDE DEF r
  <1>7. r[0] = t
    BY <1>5
  <1>8. \A n \in Nat : r[n + 1] = r[n] \div 2
    <2> TAKE n \in Nat
    <2>1. n + 1 \in Nat /\ n + 1 # 0 /\ (n + 1) - 1 = n
      OBVIOUS
    <2>2. r[n + 1] = F(r)[n + 1]
      <3> HIDE DEF F
      <3> QED
        BY <1>5
    <2> QED
      BY <2>1, <2>2
  <1>9. \A n \in Nat : r[n] \in Int
    <2> DEFINE S == {n \in Nat : r[n] \in Int}
    <2>1. 0 \in S
      BY <1>7
    <2>2. ASSUME NEW n \in Nat, n \in S
          PROVE  n + 1 \in S
      <3>1. r[n] \in Int
        BY <2>2
      <3>2. r[n] \div 2 \in Int
        BY <3>1
      <3> QED
        BY <1>8, <3>2
    <2>3. Nat \subseteq S
      <3> HIDE DEF S
      <3> QED
        BY <2>1, <2>2, NatInd
    <2> QED
      BY <2>3
  <1> HIDE DEF F, step
  <1> QED
    BY <1>6, <1>7, <1>8, <1>9

\* v is what the loop of ShiftIn computes, from the top bit down.
Shifting(v, t, c, h) ==
  /\ v \in [Nat -> Int] /\ v[0] = t
  /\ \A k \in Nat : v[k + 1] = 2 * v[k] + Bit(c, h - k)

LEMMA ShiftInDef ==
  ASSUME NEW t \in Int, NEW c, NEW l \in Int, NEW h \in Int
  PROVE  \E v : Shifting(v, t, c, h) /\ ShiftIn(t, c, l, h) = v[h - l + 1]
  <1> DEFINE b(k) == Bit(c, h - k)
             step == [k \in Nat |-> [x \in Int |-> 2 * x + b(k)]]
             F(g) == [k \in Nat |-> IF k = 0 THEN t
                                    ELSE 2 * g[k - 1] + (IF h + 1 - k \in c THEN 1 ELSE 0)]
             r == CHOOSE g : g = F(g)
  <1>1. \A k \in Nat : b(k) \in Int
    BY BitRange
  <1>a. \A k \in Nat \ {0} : (IF h + 1 - k \in c THEN 1 ELSE 0) = b(k - 1)
    <2> TAKE k \in Nat \ {0}
    <2>1. h + 1 - k = h - (k - 1)
      OBVIOUS
    <2> QED
      BY <2>1 DEF Bit
  <1> HIDE DEF b
  <1>2. step \in [Nat -> [Int -> Int]]
    BY <1>1
  <1>3. PICK g : Recursive(g, Int, t, step)
    <2> HIDE DEF step
    <2> QED
      BY <1>2, NatRec
  <1>4. g \in [Nat -> Int] /\ g[0] = t /\ \A n \in Nat : g[n + 1] = 2 * g[n] + b(n)
    BY <1>3 DEF Recursive
  <1>5. g = F(g)
    <2>1. ASSUME NEW n \in Nat
          PROVE  g[n] = IF n = 0 THEN t
                        ELSE 2 * g[n - 1] + (IF h + 1 - n \in c THEN 1 ELSE 0)
      <3>1. CASE n = 0
        BY <1>4, <3>1
      <3>2. CASE n # 0
        <4>1. n - 1 \in Nat /\ (n - 1) + 1 = n /\ n \in Nat \ {0}
          BY <3>2
        <4>2. g[n] = 2 * g[n - 1] + b(n - 1)
          BY <1>4, <4>1
        <4> QED
          BY <1>a, <3>2, <4>1, <4>2
      <3> QED
        BY <3>1, <3>2
    <2> QED
      BY <1>4, <2>1
  <1>6. r = F(r)
    <2> HIDE DEF F
    <2> QED
      BY <1>5
  <1>b. ShiftIn(t, c, l, h) = r[h - l + 1]
    BY DEF ShiftIn, r
  <1> HIDE DEF r
  <1>7. r[0] = t
    BY <1>6
  <1>8. \A n \in Nat : r[n + 1] = 2 * r[n] + b(n)
    <2> TAKE n \in Nat
    <2>1. n + 1 \in Nat \ {0} /\ n + 1 # 0 /\ (n + 1) - 1 = n
      OBVIOUS
    <2>2. r[n + 1] = F(r)[n + 1]
      <3> HIDE DEF F
      <3> QED
        BY <1>6
    <2>3. (IF h + 1 - (n + 1) \in c THEN 1 ELSE 0) = b(n)
      BY <1>a, <2>1
    <2>4. F(r)[n + 1] = 2 * r[n] + (IF h + 1 - (n + 1) \in c THEN 1 ELSE 0)
      BY <2>1
    <2> HIDE DEF F
    <2> QED
      BY <2>2, <2>3, <2>4
  <1>9. \A n \in Nat : r[n] \in Int
    <2> DEFINE S == {n \in Nat : r[n] \in Int}
    <2>1. 0 \in S
      BY <1>7
    <2>2. ASSUME NEW n \in Nat, n \in S
          PROVE  n + 1 \in S
      BY <1>1, <1>8, <2>2
    <2>3. Nat \subseteq S
      <3> HIDE DEF S
      <3> QED
        BY <2>1, <2>2, NatInd
    <2> QED
      BY <2>3
  <1>10. r \in [Nat -> Int]
    <2>1. DOMAIN r = Nat /\ r = [n \in Nat |-> r[n]]
      BY <1>6
    <2> QED
      BY <1>9, <2>1
  <1> HIDE DEF F, step
  <1> QED
    BY <1>7, <1>8, <1>10, <1>b DEF b, Shifting

LEMMA Halves ==
  ASSUME NEW x \in Int
  PROVE  x \div 2 \in Int /\ x % 2 \in {0, 1} /\ x = 2 * (x \div 2) + (x % 2)
  OBVIOUS

\* The bits l .. h of c are bits of t, from bit j up.
Carries(c, l, h, t, j) == \A p \in l .. h : p \in c <=> BitOf(t, j + (p - l))

\* They are its bits from j to below m.
Piece(c, l, h, t, j, m) ==
  /\ l \in Int /\ h \in Int /\ t \in Int /\ j \in Nat /\ m \in Nat
  /\ j <= m /\ h - l + 1 = m - j /\ Carries(c, l, h, t, j)

\* Shifted in below the rest of t they give t from bit j up.
LEMMA Rejoin ==
  ASSUME NEW c, NEW l, NEW h, NEW t, NEW j, NEW m, Piece(c, l, h, t, j, m)
  PROVE  ShiftIn(Shr(t, m), c, l, h) = Shr(t, j)
  <1> DEFINE n == m - j
  <1>0. /\ l \in Int /\ h \in Int /\ t \in Int /\ j \in Nat /\ m \in Nat
        /\ n \in Nat /\ j + n = m /\ h - l + 1 = n /\ Carries(c, l, h, t, j)
    BY DEF Piece
  <1> HIDE DEF n
  <1>b. Shr(t, m) \in Int
    BY <1>0, ShrDef
  <1>a. PICK v : Shifting(v, Shr(t, m), c, h) /\ ShiftIn(Shr(t, m), c, l, h) = v[h - l + 1]
    BY <1>0, <1>b, ShiftInDef
  <1>1. /\ v \in [Nat -> Int] /\ v[0] = Shr(t, j + n)
        /\ \A k \in Nat : v[k + 1] = 2 * v[k] + Bit(c, h - k)
        /\ ShiftIn(Shr(t, m), c, l, h) = v[n]
    BY <1>0, <1>a DEF Shifting
  <1> DEFINE S == {i \in Nat : i <= n => v[i] = Shr(t, j + n - i)}
  <1>2. 0 \in S
    <2>1. j + n - 0 = j + n
      BY <1>0
    <2> QED
      BY <1>1, <2>1
  <1>3. ASSUME NEW i \in Nat, i \in S
        PROVE  i + 1 \in S
    <2> SUFFICES ASSUME i + 1 <= n PROVE v[i + 1] = Shr(t, j + n - (i + 1))
      OBVIOUS
    <2> DEFINE q == j + n - (i + 1)
    <2>1. q \in Nat /\ q + 1 = j + n - i /\ h - i \in l .. h /\ j + ((h - i) - l) = q
      BY <1>0
    <2>2. v[i] = Shr(t, q + 1)
      BY <1>0, <1>3, <2>1
    <2>3. h - i \in c <=> BitOf(t, q)
      BY <1>0, <2>1 DEF Carries
    <2> HIDE DEF q
    <2>4. Shr(t, q) \in Int /\ Shr(t, q + 1) = Shr(t, q) \div 2
      BY <1>0, <2>1, ShrDef
    <2>5. Bit(c, h - i) = Shr(t, q) % 2
      <3>1. Shr(t, q) % 2 \in {0, 1}
        BY <2>4, Halves
      <3> QED
        BY <2>3, <3>1 DEF Bit, BitOf
    <2>6. v[i + 1] = 2 * v[i] + Bit(c, h - i)
      BY <1>1
    <2>7. v[i + 1] = Shr(t, q)
      BY <2>2, <2>4, <2>5, <2>6, Halves
    <2> QED
      BY <2>7 DEF q
  <1>4. Nat \subseteq S
    <2> HIDE DEF S
    <2> QED
      BY <1>2, <1>3, NatInd
  <1>5. n \in S /\ j + n - n = j
    BY <1>0, <1>4
  <1> QED
    BY <1>1, <1>5

\* The bits that were shifted in are those of the container, and what they
\* were shifted into is above them.
ShiftedIn(x, t, c, l, h) == x \in Int /\ Carries(c, l, h, x, 0) /\ Shr(x, h - l + 1) = t

LEMMA ShiftInBits ==
  ASSUME NEW t \in Int, NEW c, NEW l \in Int, NEW h \in Int, h - l + 1 \in Nat
  PROVE  ShiftedIn(ShiftIn(t, c, l, h), t, c, l, h)
  <1> DEFINE n == h - l + 1
  <1>b. n \in Nat /\ h - l + 1 = n
    OBVIOUS
  <1> HIDE DEF n
  <1>a. PICK v : Shifting(v, t, c, h) /\ ShiftIn(t, c, l, h) = v[h - l + 1]
    BY ShiftInDef
  <1>1. /\ v \in [Nat -> Int] /\ v[0] = t
        /\ \A k \in Nat : v[k + 1] = 2 * v[k] + Bit(c, h - k)
        /\ ShiftIn(t, c, l, h) = v[h - l + 1]
    BY <1>a DEF Shifting
  <1>2. ShiftIn(t, c, l, h) = v[n]
    BY <1>1, <1>b
  <1> DEFINE S == {i \in Nat : i <= n => Shr(v[n], i) = v[n - i]}
  <1>3. 0 \in S
    <2>1. n - 0 = n /\ v[n] \in Int
      BY <1>1, <1>b
    <2> QED
      BY <2>1, ShrDef
  <1>4. ASSUME NEW i \in Nat, i \in S
        PROVE  i + 1 \in S
    <2> SUFFICES ASSUME i + 1 <= n PROVE Shr(v[n], i + 1) = v[n - (i + 1)]
      OBVIOUS
    <2> DEFINE m == n - (i + 1)
    <2>1. m \in Nat /\ m + 1 = n - i
      BY <1>b
    <2>2. Shr(v[n], i) = v[m + 1]
      BY <1>b, <1>4, <2>1
    <2> HIDE DEF m
    <2>3. Shr(v[n], i + 1) = v[m + 1] \div 2
      <3>1. v[n] \in Int
        BY <1>1, <1>b
      <3>2. Shr(v[n], i + 1) = Shr(v[n], i) \div 2
        BY <3>1, ShrDef
      <3> QED
        BY <2>2, <3>2
    <2>4. v[m + 1] = 2 * v[m] + Bit(c, h - m) /\ v[m] \in Int
      BY <1>1, <2>1
    <2>5. Bit(c, h - m) \in {0, 1}
      BY BitRange
    <2>6. v[m + 1] \div 2 = v[m]
      BY <2>4, <2>5
    <2> QED
      BY <2>3, <2>6 DEF m
  <1>5. Nat \subseteq S
    <2> HIDE DEF S
    <2> QED
      BY <1>3, <1>4, NatInd
  <1>6. \A i \in 0 .. n : Shr(v[n], i) = v[n - i]
    BY <1>5, <1>b
  <1> HIDE DEF S
  <1>7. Carries(c, l, h, v[n], 0)
    <2> SUFFICES ASSUME NEW p \in l .. h PROVE p \in c <=> BitOf(v[n], 0 + (p - l))
      BY DEF Carries
    <2> DEFINE k == 0 + (p - l)
               m == n - (k + 1)
    <2>1. m \in Nat /\ m + 1 = n - k /\ h - m = p /\ k \in 0 .. n
      BY <1>b
    <2> HIDE DEF m, k
    <2>2. Shr(v[n], k) = v[m + 1]
      BY <1>6, <2>1
    <2>3. v[m + 1] = 2 * v[m] + Bit(c, p) /\ v[m] \in Int
      BY <1>1, <2>1
    <2>4. Bit(c, p) \in {0, 1}
      BY BitRange
    <2>5. v[m + 1] % 2 = Bit(c, p)
      BY <2>3, <2>4
    <2>6. p \in c <=> BitOf(v[n], k)
      BY <2>2, <2>5 DEF BitOf, Bit
    <2> QED
      BY <2>6 DEF k
  <1>8. Shr(v[n], n) = t
    <2>1. n - n = 0 /\ n \in 0 .. n
      BY <1>b
    <2> QED
      BY <1>1, <1>6, <2>1
  <1>9. v[n] \in Int
    BY <1>1, <1>b
  <1> QED
    BY <1>2, <1>7, <1>8, <1>9 DEF ShiftedIn, n

LEMMA FieldBits ==
  ASSUME NEW c, NEW l \in Int, NEW h \in Int, NEW n \in Nat, h - l + 1 = n
  PROVE  /\ Field(c, l, h) \in Int
         /\ Carries(c, l, h, Field(c, l, h), 0)
         /\ Shr(Field(c, l, h), n) = 0
  BY ShiftInBits DEF Field, ShiftedIn

\* Once nothing is left, nothing comes.
LEMMA ShrZero ==
  ASSUME NEW t \in Int, NEW m \in Nat, Shr(t, m) = 0
  PROVE  \A k \in Nat : k >= m => Shr(t, k) = 0 /\ ~BitOf(t, k)
  <1> DEFINE S == {i \in Nat : Shr(t, m + i) = 0}
  <1>1. 0 \in S
    <2>1. m + 0 = m
      OBVIOUS
    <2> QED
      BY <2>1
  <1>2. ASSUME NEW i \in Nat, i \in S
        PROVE  i + 1 \in S
    <2>1. m + i \in Nat /\ (m + i) + 1 = m + (i + 1) /\ 0 \div 2 = 0
      OBVIOUS
    <2>2. Shr(t, (m + i) + 1) = Shr(t, m + i) \div 2
      BY <2>1, ShrDef
    <2> QED
      BY <1>2, <2>1, <2>2
  <1>3. Nat \subseteq S
    <2> HIDE DEF S
    <2> QED
      BY <1>1, <1>2, NatInd
  <1> TAKE k \in Nat
  <1> HAVE k >= m
  <1>4. k - m \in Nat /\ m + (k - m) = k
    OBVIOUS
  <1>5. Shr(t, k) = 0
    BY <1>3, <1>4
  <1> QED
    BY <1>5 DEF BitOf

\* Shifts by the widths of the encoding are divisions.
LEMMA ShrDiv ==
  ASSUME NEW t \in Int
  PROVE  /\ Shr(t, 0) = t
         /\ Shr(t, 1) = t \div 2
         /\ Shr(t, 3) = t \div 8
         /\ Shr(t, 5) = t \div 32
         /\ Shr(t, 7) = t \div 128
         /\ Shr(t, 11) = t \div 2048
         /\ Shr(t, 12) = t \div 4096
         /\ Shr(t, 16) = t \div 65536
         /\ Shr(t, 20) = t \div 1048576
         /\ Shr(t, 31) = t \div 2147483648
  <1> DEFINE s(k) == Shr(t, k)
  <1>1. s(0) = t /\ \A k \in Nat : s(k) \in Int /\ s(k + 1) = s(k) \div 2
    BY ShrDef
  <1> HIDE DEF s
  <1>2. \A k \in Nat : s(k + 2) = s(k) \div 4
    <2> TAKE k \in Nat
    <2>1. s(k) \in Int /\ s(k + 1) = s(k) \div 2 /\ s((k + 1) + 1) = s(k + 1) \div 2
      BY <1>1
    <2>2. (k + 1) + 1 = k + 2
      OBVIOUS
    <2>3. s(k + 2) = (s(k) \div 2) \div 2
      BY <2>1, <2>2
    <2>4. (s(k) \div 2) \div 2 = s(k) \div 4
      BY <2>1
    <2> QED
      BY <2>3, <2>4
  <1>3. \A k \in Nat : s(k + 4) = s(k) \div 16
    <2> TAKE k \in Nat
    <2>1. s(k) \in Int /\ s(k + 2) = s(k) \div 4 /\ s((k + 2) + 2) = s(k + 2) \div 4
      BY <1>1, <1>2
    <2>2. (k + 2) + 2 = k + 4
      OBVIOUS
    <2>3. s(k + 4) = (s(k) \div 4) \div 4
      BY <2>1, <2>2
    <2>4. (s(k) \div 4) \div 4 = s(k) \div 16
      BY <2>1
    <2> QED
      BY <2>3, <2>4
  <1>4. s(1) = t \div 2
    BY <1>1
  <1>5. s(3) = t \div 8
    <2>1. s(1 + 2) = s(1) \div 4
      BY <1>2
    <2>2. (t \div 2) \div 4 = t \div 8
      OBVIOUS
    <2> QED
      BY <1>4, <2>1, <2>2
  <1>6. s(5) = t \div 32
    <2>1. s(1 + 4) = s(1) \div 16
      BY <1>3
    <2>2. (t \div 2) \div 16 = t \div 32
      OBVIOUS
    <2> QED
      BY <1>4, <2>1, <2>2
  <1>7. s(7) = t \div 128
    <2>1. s(3 + 4) = s(3) \div 16
      BY <1>3
    <2>2. (t \div 8) \div 16 = t \div 128
      OBVIOUS
    <2> QED
      BY <1>5, <2>1, <2>2
  <1>8. s(11) = t \div 2048
    <2>1. s(7 + 4) = s(7) \div 16
      BY <1>3
    <2>2. (t \div 128) \div 16 = t \div 2048
      OBVIOUS
    <2> QED
      BY <1>7, <2>1, <2>2
  <1>9. s(12) = t \div 4096
    <2>1. s(11 + 1) = s(11) \div 2
      BY <1>1
    <2>2. (t \div 2048) \div 2 = t \div 4096
      OBVIOUS
    <2> QED
      BY <1>8, <2>1, <2>2
  <1>10. s(16) = t \div 65536 /\ s(20) = t \div 1048576
    <2>1. s(12 + 4) = s(12) \div 16
      BY <1>3
    <2>2. (t \div 4096) \div 16 = t \div 65536
      OBVIOUS
    <2>3. s(16 + 4) = s(16) \div 16
      BY <1>3
    <2>4. (t \div 65536) \div 16 = t \div 1048576
      OBVIOUS
    <2> QED
      BY <1>9, <2>1, <2>2, <2>3, <2>4
  <1>11. s(31) = t \div 2147483648
    <2>1. s(20 + 4) = s(20) \div 16
      BY <1>3
    <2>2. (t \div 1048576) \div 16 = t \div 16777216
      OBVIOUS
    <2>3. s(24 + 4) = s(24) \div 16
      BY <1>3
    <2>4. (t \div 16777216) \div 16 = t \div 268435456
      OBVIOUS
    <2>5. s(28 + 2) = s(28) \div 4
      BY <1>2
    <2>6. (t \div 268435456) \div 4 = t \div 1073741824
      OBVIOUS
    <2>7. s(30 + 1) = s(30) \div 2
      BY <1>1
    <2>8. (t \div 1073741824) \div 2 = t \div 2147483648
      OBVIOUS
    <2> QED
      BY <1>10, <2>1, <2>2, <2>3, <2>4, <2>5, <2>6, <2>7, <2>8
  <1> QED
    BY <1>1, <1>4, <1>5, <1>6, <1>7, <1>8, <1>9, <1>10, <1>11 DEF s

-----------------------------------------------------------------------------
(* Fields of a word *)

\* n has no one bit from bit m on.
Narrow(n, m) == n \in Int /\ Shr(n, m) = 0

LEMMA NarrowRange ==
  /\ \A n \in Nat : n < 8 => Narrow(n, 3)
  /\ \A n \in Nat : n < 32 => Narrow(n, 5)
  /\ \A n \in Nat : n < 128 => Narrow(n, 7)
  /\ \A n \in Nat : n < 4096 => Narrow(n, 12)
  <1>1. ASSUME NEW n \in Nat, n < 8
        PROVE  Narrow(n, 3)
    <2>1. n \in Int /\ n \div 8 = 0
      BY <1>1
    <2> QED
      BY <2>1, ShrDiv DEF Narrow
  <1>2. ASSUME NEW n \in Nat, n < 32
        PROVE  Narrow(n, 5)
    <2>1. n \in Int /\ n \div 32 = 0
      BY <1>2
    <2> QED
      BY <2>1, ShrDiv DEF Narrow
  <1>3. ASSUME NEW n \in Nat, n < 128
        PROVE  Narrow(n, 7)
    <2>1. n \in Int /\ n \div 128 = 0
      BY <1>3
    <2> QED
      BY <2>1, ShrDiv DEF Narrow
  <1>4. ASSUME NEW n \in Nat, n < 4096
        PROVE  Narrow(n, 12)
    <2>1. n \in Int /\ n \div 4096 = 0
      BY <1>4
    <2> QED
      BY <2>1, ShrDiv DEF Narrow
  <1> QED
    BY <1>1, <1>2, <1>3, <1>4

\* A field with the bits of n is n.
LEMMA FieldIs ==
  ASSUME NEW w, NEW l, NEW h, NEW n, NEW m, Narrow(n, m), Piece(w, l, h, n, 0, m)
  PROVE  Field(w, l, h) = n
  <1>1. n \in Int /\ Shr(n, m) = 0 /\ Shr(n, 0) = n
    BY ShrDef DEF Narrow
  <1>2. ShiftIn(Shr(n, m), w, l, h) = Shr(n, 0)
    BY Rejoin
  <1> QED
    BY <1>1, <1>2 DEF Field

\* And a field that is n has the bits of n.
LEMMA FieldPut ==
  ASSUME NEW w, NEW l \in Nat, NEW h \in Nat, l <= h, h - l < 32
  PROVE  w \cap (l .. h) = Put(Field(w, l, h), l)
  <1> DEFINE n == Field(w, l, h)
             m == h - l + 1
  <1>a. m \in 1 .. 32 /\ h - l + 1 = m
    OBVIOUS
  <1> HIDE DEF m
  <1>0. n \in Int /\ Shr(n, m) = 0 /\ Carries(w, l, h, n, 0)
    <2>1. l \in Int /\ h \in Int /\ m \in Nat
      BY <1>a
    <2> QED
      BY <1>a, <2>1, FieldBits, Zenon
  <1> HIDE DEF n
  <1>1. \A p \in l .. h : p \in w <=> BitOf(n, p - l)
    <2> TAKE p \in l .. h
    <2>1. 0 + (p - l) = p - l
      OBVIOUS
    <2> QED
      BY <1>0, <2>1 DEF Carries
  <1>2. \A k \in 0 .. 31 : BitOf(n, k) => k \in 0 .. m - 1
    <2> SUFFICES ASSUME NEW k \in 0 .. 31, k >= m PROVE ~BitOf(n, k)
      BY <1>a
    <2> QED
      BY <1>0, <1>a, ShrZero
  <1>3. ASSUME NEW p \in w \cap (l .. h)
        PROVE  p \in Put(n, l)
    <2>1. p - l \in 0 .. 31 /\ l + (p - l) = p
      BY <1>a
    <2>2. BitOf(n, p - l)
      BY <1>1
    <2> QED
      BY <2>1, <2>2 DEF Put, Bits
  <1>4. ASSUME NEW p \in Put(n, l)
        PROVE  p \in w \cap (l .. h)
    <2>1. PICK k \in 0 .. 31 : BitOf(n, k) /\ p = l + k
      BY DEF Put, Bits
    <2>2. k \in 0 .. m - 1
      BY <1>2, <2>1
    <2>4. l + k \in l .. h /\ (l + k) - l = k
      BY <1>a, <2>2
    <2>3. l + k \in w
      BY <1>1, <2>1, <2>4
    <2> QED
      BY <2>1, <2>3, <2>4
  <1> QED
    BY <1>3, <1>4 DEF n

\* Where the bits of a number put into a word are.
LEMMA InPut ==
  ASSUME NEW n, NEW m \in 0 .. 32, Narrow(n, m), NEW l \in Nat, NEW p \in Int
  PROVE  p \in Put(n, l) <=> p \in l .. l + m - 1 /\ BitOf(n, p - l)
  <1>1. ASSUME NEW k \in 0 .. 31, BitOf(n, k)
        PROVE  k < m
    <2> SUFFICES ASSUME k >= m PROVE FALSE
      OBVIOUS
    <2> QED
      BY <1>1, ShrZero DEF Narrow
  <1>2. ASSUME p \in Put(n, l)
        PROVE  p \in l .. l + m - 1 /\ BitOf(n, p - l)
    <2>1. PICK k \in 0 .. 31 : BitOf(n, k) /\ p = l + k
      BY <1>2 DEF Put, Bits
    <2>2. k < m
      BY <1>1, <2>1
    <2>3. p - l = k
      BY <2>1
    <2> QED
      BY <2>1, <2>2, <2>3
  <1>3. ASSUME p \in l .. l + m - 1, BitOf(n, p - l)
        PROVE  p \in Put(n, l)
    <2>1. p - l \in 0 .. 31 /\ l + (p - l) = p
      BY <1>3
    <2> QED
      BY <1>3, <2>1 DEF Put, Bits
  <1> QED
    BY <1>2, <1>3

-----------------------------------------------------------------------------
(* The words of the assembler *)

LEMMA EncRange ==
  ASSUME NEW op \in Ops
  PROVE  /\ Major(op) \in {55, 23, 111, 103, 99, 3, 35, 19, 51, 15, 115}
         /\ Funct3(op) \in {0, 1, 2, 3, 4, 5, 6, 7}
         /\ Funct7(op) \in {0, 32}
  BY DEF Ops, Major, Funct3, Funct7

\* Bit p of the word belongs to the immediate and is one.
ImmAt(i, p) == \E k \in ImmBits(i.op) : BitOf(i.imm, k) /\ p = ImmPos(Major(i.op), k)

LEMMA ImmBitsRange ==
  ASSUME NEW op
  PROVE  ImmBits(op) \subseteq 0 .. 31
  <1>1. CASE op \in ShiftOps
    BY <1>1 DEF ImmBits
  <1>2. CASE op \notin ShiftOps
    BY <1>2 DEF ImmBits
  <1> QED
    BY <1>1, <1>2

\* The fields of an instruction fit where the assembler puts them.
LEMMA BaseFields ==
  ASSUME NEW i, i.op # "illegal", Wellformed(i)
  PROVE  /\ Narrow(Major(i.op), 7) /\ Narrow(Funct3(i.op), 3) /\ Narrow(Funct7(i.op), 7)
         /\ Narrow(i.rd, 5) /\ Narrow(i.rs1, 5) /\ Narrow(i.rs2, 5) /\ i.imm \in Int
         /\ \A k \in Nat : ~BitOf(0, k)
  <1>1. i.op \in Ops /\ i.rd \in 0 .. 31 /\ i.rs1 \in 0 .. 31 /\ i.rs2 \in 0 .. 31 /\ i.imm \in Int
    BY DEF Wellformed
  <1>2. /\ Major(i.op) \in Nat /\ Major(i.op) < 128 /\ Funct3(i.op) \in Nat /\ Funct3(i.op) < 8
        /\ Funct7(i.op) \in Nat /\ Funct7(i.op) < 128
    BY <1>1, EncRange
  <1>3. /\ i.rd \in Nat /\ i.rd < 32 /\ i.rs1 \in Nat /\ i.rs1 < 32
        /\ i.rs2 \in Nat /\ i.rs2 < 32
    BY <1>1
  <1>4. \A k \in Nat : ~BitOf(0, k)
    <2>1. Shr(0, 0) = 0
      BY ShrDef
    <2> QED
      BY <2>1, ShrZero
  <1> QED
    BY <1>1, <1>2, <1>3, <1>4, NarrowRange

\* The bits of the word of a well-formed instruction, field by field.
LEMMA WordBits ==
  ASSUME NEW i, i.op # "illegal", Wellformed(i), NEW p \in Int
  PROVE  p \in Assemble(i) <=>
           \/ p \in 0 .. 6 /\ BitOf(Major(i.op), p - 0)
           \/ p \in 12 .. 14 /\ BitOf(Funct3(i.op), p - 12)
           \/ p \in 25 .. 31 /\ BitOf(Funct7(i.op), p - 25)
           \/ p \in 7 .. 11 /\ BitOf(i.rd, p - 7)
           \/ p \in 15 .. 19 /\ BitOf(i.rs1, p - 15)
           \/ p \in 20 .. 24 /\ BitOf(i.rs2, p - 20)
           \/ ImmAt(i, p)
           \/ i.op = "ebreak" /\ p = 20
  <1>2. /\ Narrow(Major(i.op), 7) /\ Narrow(Funct3(i.op), 3) /\ Narrow(Funct7(i.op), 7)
        /\ Narrow(i.rd, 5) /\ Narrow(i.rs1, 5) /\ Narrow(i.rs2, 5)
    BY BaseFields
  <1>3. p \in Put(Major(i.op), 0) <=> p \in 0 .. 6 /\ BitOf(Major(i.op), p - 0)
    BY <1>2, InPut
  <1>4. p \in Put(Funct3(i.op), 12) <=> p \in 12 .. 14 /\ BitOf(Funct3(i.op), p - 12)
    BY <1>2, InPut
  <1>5. p \in Put(Funct7(i.op), 25) <=> p \in 25 .. 31 /\ BitOf(Funct7(i.op), p - 25)
    BY <1>2, InPut
  <1>6. p \in Put(i.rd, 7) <=> p \in 7 .. 11 /\ BitOf(i.rd, p - 7)
    BY <1>2, InPut
  <1>7. p \in Put(i.rs1, 15) <=> p \in 15 .. 19 /\ BitOf(i.rs1, p - 15)
    BY <1>2, InPut
  <1>8. p \in Put(i.rs2, 20) <=> p \in 20 .. 24 /\ BitOf(i.rs2, p - 20)
    BY <1>2, InPut
  <1>9. p \in {ImmPos(Major(i.op), k) : k \in Bits(i.imm) \cap ImmBits(i.op)} <=> ImmAt(i, p)
    <2>1. Bits(i.imm) \cap ImmBits(i.op) = {k \in ImmBits(i.op) : BitOf(i.imm, k)}
      BY ImmBitsRange DEF Bits
    <2> QED
      BY <2>1 DEF ImmAt
  <1>10. Assemble(i) = Put(Major(i.op), 0) \cup Put(Funct3(i.op), 12) \cup Put(Funct7(i.op), 25)
             \cup Put(i.rd, 7) \cup Put(i.rs1, 15) \cup Put(i.rs2, 20)
             \cup {ImmPos(Major(i.op), k) : k \in Bits(i.imm) \cap ImmBits(i.op)}
             \cup IF i.op = "ebreak" THEN {20} ELSE {}
    BY DEF Assemble
  <1>11. p \in (IF i.op = "ebreak" THEN {20} ELSE {}) <=> i.op = "ebreak" /\ p = 20
    OBVIOUS
  <1> QED
    BY <1>3, <1>4, <1>5, <1>6, <1>7, <1>8, <1>9, <1>10, <1>11, Zenon

\* Where each format has the bits of its immediate.
LEMMA ImmAtI ==
  ASSUME NEW i, i.op \notin ShiftOps, Major(i.op) \in {3, 19, 103}, NEW p \in Int
  PROVE  ImmAt(i, p) <=> p \in 20 .. 31 /\ BitOf(i.imm, p - 20)
  <1>1. ImmBits(i.op) = 0 .. 11
    BY DEF ImmBits
  <1>2. \A k \in 0 .. 11 : ImmPos(Major(i.op), k) = k + 20
    BY DEF ImmPos
  <1>3. ASSUME ImmAt(i, p)
        PROVE  p \in 20 .. 31 /\ BitOf(i.imm, p - 20)
    <2>1. PICK k \in 0 .. 11 : BitOf(i.imm, k) /\ p = k + 20
      BY <1>1, <1>2, <1>3 DEF ImmAt
    <2>2. p - 20 = k
      BY <2>1
    <2> QED
      BY <2>1, <2>2
  <1>4. ASSUME p \in 20 .. 31, BitOf(i.imm, p - 20)
        PROVE  ImmAt(i, p)
    <2>1. p - 20 \in 0 .. 11 /\ (p - 20) + 20 = p
      BY <1>4
    <2> QED
      BY <1>1, <1>2, <1>4, <2>1 DEF ImmAt
  <1> QED
    BY <1>3, <1>4

LEMMA ImmAtIS ==
  ASSUME NEW i, i.op \in ShiftOps, NEW p \in Int
  PROVE  ImmAt(i, p) <=> p \in 20 .. 24 /\ BitOf(i.imm, p - 20)
  <1>0. Major(i.op) = 19
    BY DEF ShiftOps, Major
  <1>1. ImmBits(i.op) = 0 .. 4
    BY <1>0 DEF ImmBits
  <1>2. \A k \in 0 .. 4 : ImmPos(Major(i.op), k) = k + 20
    BY <1>0 DEF ImmPos
  <1>3. ASSUME ImmAt(i, p)
        PROVE  p \in 20 .. 24 /\ BitOf(i.imm, p - 20)
    <2>1. PICK k \in 0 .. 4 : BitOf(i.imm, k) /\ p = k + 20
      BY <1>1, <1>2, <1>3 DEF ImmAt
    <2>2. p - 20 = k
      BY <2>1
    <2> QED
      BY <2>1, <2>2
  <1>4. ASSUME p \in 20 .. 24, BitOf(i.imm, p - 20)
        PROVE  ImmAt(i, p)
    <2>1. p - 20 \in 0 .. 4 /\ (p - 20) + 20 = p
      BY <1>4
    <2> QED
      BY <1>1, <1>2, <1>4, <2>1 DEF ImmAt
  <1> QED
    BY <1>3, <1>4

LEMMA ImmAtS ==
  ASSUME NEW i, i.op \notin ShiftOps, Major(i.op) = 35, NEW p \in Int
  PROVE  ImmAt(i, p) <=> \/ p \in 7 .. 11 /\ BitOf(i.imm, p - 7)
                         \/ p \in 25 .. 31 /\ BitOf(i.imm, p - 20)
  <1>1. ImmBits(i.op) = 0 .. 11
    BY DEF ImmBits
  <1>2. \A k \in 0 .. 11 : ImmPos(Major(i.op), k) = IF k < 5 THEN k + 7 ELSE k + 20
    BY DEF ImmPos
  <1>3. ASSUME ImmAt(i, p)
        PROVE  \/ p \in 7 .. 11 /\ BitOf(i.imm, p - 7)
               \/ p \in 25 .. 31 /\ BitOf(i.imm, p - 20)
    <2>1. PICK k \in 0 .. 11 : BitOf(i.imm, k) /\ p = IF k < 5 THEN k + 7 ELSE k + 20
      BY <1>1, <1>2, <1>3 DEF ImmAt
    <2>2. \/ k < 5 /\ p - 7 = k /\ p \in 7 .. 11
          \/ p - 20 = k /\ p \in 25 .. 31
      BY <2>1
    <2> QED
      BY <2>1, <2>2
  <1>4. ASSUME p \in 7 .. 11, BitOf(i.imm, p - 7)
        PROVE  ImmAt(i, p)
    <2>1. p - 7 \in 0 .. 11 /\ p - 7 < 5 /\ (p - 7) + 7 = p
      BY <1>4
    <2> QED
      BY <1>1, <1>2, <1>4, <2>1 DEF ImmAt
  <1>5. ASSUME p \in 25 .. 31, BitOf(i.imm, p - 20)
        PROVE  ImmAt(i, p)
    <2>1. p - 20 \in 0 .. 11 /\ ~(p - 20 < 5) /\ (p - 20) + 20 = p
      BY <1>5
    <2> QED
      BY <1>1, <1>2, <1>5, <2>1 DEF ImmAt
  <1> QED
    BY <1>3, <1>4, <1>5

LEMMA ImmAtB ==
  ASSUME NEW i, i.op \notin ShiftOps, Major(i.op) = 99, NEW p \in Int
  PROVE  ImmAt(i, p) <=> \/ p = 7 /\ BitOf(i.imm, 11)
                         \/ p \in 8 .. 11 /\ BitOf(i.imm, p - 7)
                         \/ p \in 25 .. 30 /\ BitOf(i.imm, p - 20)
                         \/ p = 31 /\ BitOf(i.imm, 12)
  <1> DEFINE pos(k) == IF k = 11 THEN 7 ELSE IF k = 12 THEN 31
                       ELSE IF k < 5 THEN k + 7 ELSE k + 20
  <1>1. ImmBits(i.op) = 1 .. 12
    BY DEF ImmBits
  <1>2. \A k \in 1 .. 12 : ImmPos(Major(i.op), k) = pos(k)
    BY DEF ImmPos
  <1>a. ImmAt(i, p) <=> \E k \in 1 .. 12 : BitOf(i.imm, k) /\ p = pos(k)
    <2> HIDE DEF pos
    <2> QED
      BY <1>1, <1>2 DEF ImmAt
  <1>3. ASSUME ImmAt(i, p)
        PROVE  \/ p = 7 /\ BitOf(i.imm, 11)
               \/ p \in 8 .. 11 /\ BitOf(i.imm, p - 7)
               \/ p \in 25 .. 30 /\ BitOf(i.imm, p - 20)
               \/ p = 31 /\ BitOf(i.imm, 12)
    <2>1. PICK k \in 1 .. 12 : BitOf(i.imm, k) /\ p = pos(k)
      BY <1>a, <1>3
    <2>2. \/ k = 11 /\ p = 7
          \/ k = 12 /\ p = 31
          \/ p - 7 = k /\ p \in 8 .. 11
          \/ p - 20 = k /\ p \in 25 .. 30
      BY <2>1
    <2> QED
      BY <2>1, <2>2
  <1>4. ASSUME p = 7, BitOf(i.imm, 11)
        PROVE  ImmAt(i, p)
    <2>1. 11 \in 1 .. 12 /\ pos(11) = p
      BY <1>4
    <2> HIDE DEF pos
    <2> QED
      BY <1>a, <1>4, <2>1
  <1>5. ASSUME p = 31, BitOf(i.imm, 12)
        PROVE  ImmAt(i, p)
    <2>1. 12 \in 1 .. 12 /\ pos(12) = p
      BY <1>5
    <2> HIDE DEF pos
    <2> QED
      BY <1>a, <1>5, <2>1
  <1>6. ASSUME p \in 8 .. 11, BitOf(i.imm, p - 7)
        PROVE  ImmAt(i, p)
    <2>1. p - 7 \in 1 .. 12 /\ pos(p - 7) = p
      BY <1>6
    <2> HIDE DEF pos
    <2> QED
      BY <1>a, <1>6, <2>1
  <1>7. ASSUME p \in 25 .. 30, BitOf(i.imm, p - 20)
        PROVE  ImmAt(i, p)
    <2>1. p - 20 \in 1 .. 12 /\ pos(p - 20) = p
      BY <1>7
    <2> HIDE DEF pos
    <2> QED
      BY <1>a, <1>7, <2>1
  <1> QED
    BY <1>3, <1>4, <1>5, <1>6, <1>7

LEMMA ImmAtU ==
  ASSUME NEW i, i.op \notin ShiftOps, Major(i.op) \in {55, 23}, NEW p \in Int
  PROVE  ImmAt(i, p) <=> p \in 12 .. 31 /\ BitOf(i.imm, p)
  <1>1. ImmBits(i.op) = 12 .. 31
    BY DEF ImmBits
  <1>2. \A k \in 12 .. 31 : ImmPos(Major(i.op), k) = k
    BY DEF ImmPos
  <1> QED
    BY <1>1, <1>2 DEF ImmAt

LEMMA ImmAtJ ==
  ASSUME NEW i, i.op \notin ShiftOps, Major(i.op) = 111, NEW p \in Int
  PROVE  ImmAt(i, p) <=> \/ p \in 12 .. 19 /\ BitOf(i.imm, p)
                         \/ p = 20 /\ BitOf(i.imm, 11)
                         \/ p \in 21 .. 30 /\ BitOf(i.imm, p - 20)
                         \/ p = 31 /\ BitOf(i.imm, 20)
  <1> DEFINE pos(k) == IF k = 20 THEN 31 ELSE IF k = 11 THEN 20
                       ELSE IF k < 11 THEN k + 20 ELSE k
  <1>1. ImmBits(i.op) = 1 .. 20
    BY DEF ImmBits
  <1>2. \A k \in 1 .. 20 : ImmPos(Major(i.op), k) = pos(k)
    BY DEF ImmPos
  <1>a. ImmAt(i, p) <=> \E k \in 1 .. 20 : BitOf(i.imm, k) /\ p = pos(k)
    <2> HIDE DEF pos
    <2> QED
      BY <1>1, <1>2 DEF ImmAt
  <1>3. ASSUME ImmAt(i, p)
        PROVE  \/ p \in 12 .. 19 /\ BitOf(i.imm, p)
               \/ p = 20 /\ BitOf(i.imm, 11)
               \/ p \in 21 .. 30 /\ BitOf(i.imm, p - 20)
               \/ p = 31 /\ BitOf(i.imm, 20)
    <2>1. PICK k \in 1 .. 20 : BitOf(i.imm, k) /\ p = pos(k)
      BY <1>a, <1>3
    <2>2. \/ k = 11 /\ p = 20
          \/ k = 20 /\ p = 31
          \/ p = k /\ p \in 12 .. 19
          \/ p - 20 = k /\ p \in 21 .. 30
      BY <2>1
    <2> QED
      BY <2>1, <2>2
  <1>4. ASSUME p = 20, BitOf(i.imm, 11)
        PROVE  ImmAt(i, p)
    <2>1. 11 \in 1 .. 20 /\ pos(11) = p
      BY <1>4
    <2> HIDE DEF pos
    <2> QED
      BY <1>a, <1>4, <2>1
  <1>5. ASSUME p = 31, BitOf(i.imm, 20)
        PROVE  ImmAt(i, p)
    <2>1. 20 \in 1 .. 20 /\ pos(20) = p
      BY <1>5
    <2> HIDE DEF pos
    <2> QED
      BY <1>a, <1>5, <2>1
  <1>6. ASSUME p \in 12 .. 19, BitOf(i.imm, p)
        PROVE  ImmAt(i, p)
    <2>1. p \in 1 .. 20 /\ pos(p) = p
      BY <1>6
    <2> HIDE DEF pos
    <2> QED
      BY <1>a, <1>6, <2>1
  <1>7. ASSUME p \in 21 .. 30, BitOf(i.imm, p - 20)
        PROVE  ImmAt(i, p)
    <2>1. p - 20 \in 1 .. 20 /\ pos(p - 20) = p
      BY <1>7
    <2> HIDE DEF pos
    <2> QED
      BY <1>a, <1>7, <2>1
  <1> QED
    BY <1>3, <1>4, <1>5, <1>6, <1>7

LEMMA ImmAtNone ==
  ASSUME NEW i, i.op \notin ShiftOps, Major(i.op) \in {51, 15, 115}, NEW p \in Int
  PROVE  ~ImmAt(i, p)
  <1>1. ImmBits(i.op) = {}
    BY DEF ImmBits
  <1> QED
    BY <1>1 DEF ImmAt

\* The immediate keeps out of the other fields of its format.
LEMMA ImmAway ==
  ASSUME NEW i, i.op # "illegal", Wellformed(i), NEW p \in Int, ImmAt(i, p)
  PROVE  /\ p \in 7 .. 31
         /\ p \in 7 .. 11 => Major(i.op) \in {99, 35}
         /\ p \in 12 .. 19 => Major(i.op) \in {55, 23, 111}
         /\ p \in 20 .. 24 => Major(i.op) \notin {99, 35, 51, 15, 115}
         /\ p \in 25 .. 31 => Major(i.op) \notin {51, 15, 115} /\ i.op \notin ShiftOps
  <1>1. Major(i.op) \in {55, 23, 111, 103, 99, 3, 35, 19, 51, 15, 115}
    BY EncRange DEF Wellformed
  <1>2. CASE i.op \in ShiftOps
    <2>1. Major(i.op) = 19
      BY <1>2 DEF ShiftOps, Major
    <2> QED
      BY <1>2, <2>1, ImmAtIS
  <1>3. CASE i.op \notin ShiftOps /\ Major(i.op) \in {3, 19, 103}
    BY <1>3, ImmAtI
  <1>4. CASE i.op \notin ShiftOps /\ Major(i.op) = 35
    BY <1>4, ImmAtS
  <1>5. CASE i.op \notin ShiftOps /\ Major(i.op) = 99
    BY <1>5, ImmAtB
  <1>6. CASE i.op \notin ShiftOps /\ Major(i.op) \in {55, 23}
    BY <1>6, ImmAtU
  <1>7. CASE i.op \notin ShiftOps /\ Major(i.op) = 111
    BY <1>7, ImmAtJ
  <1>8. CASE i.op \notin ShiftOps /\ Major(i.op) \in {51, 15, 115}
    BY <1>8, ImmAtNone
  <1> QED
    BY <1>1, <1>2, <1>3, <1>4, <1>5, <1>6, <1>7, <1>8

\* ebreak, whose bit 20 is no field of its own, has no immediate.
LEMMA EbreakMajor ==
  /\ Major("ebreak") = 115 /\ Major("ecall") = 115
  /\ Funct7("ebreak") = 0 /\ Funct7("ecall") = 0
  BY DEF Major, Funct7

LEMMA OpcodeIs ==
  ASSUME NEW i, i.op # "illegal", Wellformed(i)
  PROVE  opcode(Assemble(i)) = Major(i.op)
  <1> DEFINE w == Assemble(i)
  <1>1. ASSUME NEW p \in 0 .. 6
        PROVE  p \in w <=> BitOf(Major(i.op), 0 + (p - 0))
    <2>1. p \in Int /\ 0 + (p - 0) = p - 0 /\ ~ImmAt(i, p)
      BY ImmAway
    <2> QED
      BY <2>1, WordBits
  <1> HIDE DEF w
  <1>2. Narrow(Major(i.op), 7) /\ Major(i.op) \in Int
    BY BaseFields DEF Narrow
  <1>3. Piece(w, 0, 6, Major(i.op), 0, 7)
    BY <1>1, <1>2 DEF Piece, Carries
  <1> QED
    BY <1>2, <1>3, FieldIs DEF w, opcode

LEMMA Funct3Is ==
  ASSUME NEW i, i.op # "illegal", Wellformed(i), Major(i.op) \notin {55, 23, 111}
  PROVE  funct3(Assemble(i)) = Funct3(i.op)
  <1> DEFINE w == Assemble(i)
  <1>1. ASSUME NEW p \in 12 .. 14
        PROVE  p \in w <=> BitOf(Funct3(i.op), 0 + (p - 12))
    <2>1. p \in Int /\ 0 + (p - 12) = p - 12 /\ ~ImmAt(i, p)
      BY ImmAway
    <2> QED
      BY <2>1, WordBits
  <1> HIDE DEF w
  <1>2. Narrow(Funct3(i.op), 3) /\ Funct3(i.op) \in Int
    BY BaseFields DEF Narrow
  <1>3. Piece(w, 12, 14, Funct3(i.op), 0, 3)
    BY <1>1, <1>2 DEF Piece, Carries
  <1> QED
    BY <1>2, <1>3, FieldIs DEF w, funct3

LEMMA RdIs ==
  ASSUME NEW i, i.op # "illegal", Wellformed(i), Major(i.op) \notin {99, 35}
  PROVE  rd(Assemble(i)) = i.rd
  <1> DEFINE w == Assemble(i)
  <1>1. ASSUME NEW p \in 7 .. 11
        PROVE  p \in w <=> BitOf(i.rd, 0 + (p - 7))
    <2>1. p \in Int /\ 0 + (p - 7) = p - 7 /\ ~ImmAt(i, p)
      BY ImmAway
    <2> QED
      BY <2>1, WordBits
  <1> HIDE DEF w
  <1>2. Narrow(i.rd, 5) /\ i.rd \in Int
    BY BaseFields DEF Narrow
  <1>3. Piece(w, 7, 11, i.rd, 0, 5)
    BY <1>1, <1>2 DEF Piece, Carries
  <1> QED
    BY <1>2, <1>3, FieldIs DEF w, rd

LEMMA Rs1Is ==
  ASSUME NEW i, i.op # "illegal", Wellformed(i), Major(i.op) \notin {55, 23, 111}
  PROVE  rs1(Assemble(i)) = i.rs1
  <1> DEFINE w == Assemble(i)
  <1>1. ASSUME NEW p \in 15 .. 19
        PROVE  p \in w <=> BitOf(i.rs1, 0 + (p - 15))
    <2>1. p \in Int /\ 0 + (p - 15) = p - 15 /\ ~ImmAt(i, p)
      BY ImmAway
    <2> QED
      BY <2>1, WordBits
  <1> HIDE DEF w
  <1>2. Narrow(i.rs1, 5) /\ i.rs1 \in Int
    BY BaseFields DEF Narrow
  <1>3. Piece(w, 15, 19, i.rs1, 0, 5)
    BY <1>1, <1>2 DEF Piece, Carries
  <1> QED
    BY <1>2, <1>3, FieldIs DEF w, rs1

LEMMA Rs2Is ==
  ASSUME NEW i, i.op # "illegal", Wellformed(i), Major(i.op) \in {99, 35, 51}
  PROVE  rs2(Assemble(i)) = i.rs2
  <1> DEFINE w == Assemble(i)
  <1>1. ASSUME NEW p \in 20 .. 24
        PROVE  p \in w <=> BitOf(i.rs2, 0 + (p - 20))
    <2>1. p \in Int /\ 0 + (p - 20) = p - 20 /\ ~ImmAt(i, p)
      BY ImmAway
    <2>2. i.op # "ebreak"
      BY EbreakMajor
    <2> QED
      BY <2>1, <2>2, WordBits
  <1> HIDE DEF w
  <1>2. Narrow(i.rs2, 5) /\ i.rs2 \in Int
    BY BaseFields DEF Narrow
  <1>3. Piece(w, 20, 24, i.rs2, 0, 5)
    BY <1>1, <1>2 DEF Piece, Carries
  <1> QED
    BY <1>2, <1>3, FieldIs DEF w, rs2

LEMMA Funct7Is ==
  ASSUME NEW i, i.op # "illegal", Wellformed(i), Major(i.op) = 51 \/ i.op \in ShiftOps
  PROVE  funct7(Assemble(i)) = Funct7(i.op)
  <1> DEFINE w == Assemble(i)
  <1>1. ASSUME NEW p \in 25 .. 31
        PROVE  p \in w <=> BitOf(Funct7(i.op), 0 + (p - 25))
    <2>1. p \in Int /\ 0 + (p - 25) = p - 25 /\ ~ImmAt(i, p)
      BY ImmAway
    <2> QED
      BY <2>1, WordBits
  <1> HIDE DEF w
  <1>2. Narrow(Funct7(i.op), 7) /\ Funct7(i.op) \in Int
    BY BaseFields DEF Narrow
  <1>3. Piece(w, 25, 31, Funct7(i.op), 0, 7)
    BY <1>1, <1>2 DEF Piece, Carries
  <1> QED
    BY <1>2, <1>3, FieldIs DEF w, funct7

LEMMA Funct12Is ==
  ASSUME NEW i, Wellformed(i), i.op \in {"ecall", "ebreak"}
  PROVE  funct12(Assemble(i)) = IF i.op = "ebreak" THEN 1 ELSE 0
  <1> DEFINE w == Assemble(i)
             n == IF i.op = "ebreak" THEN 1 ELSE 0
  <1>0. Major(i.op) = 115 /\ Funct7(i.op) = 0 /\ i.rs2 = 0
    BY EbreakMajor DEF Wellformed
  <1>1. \A k \in Nat : BitOf(n, k) <=> i.op = "ebreak" /\ k = 0
    <2>1. \A k \in Nat : ~BitOf(0, k)
      BY BaseFields
    <2>2. Shr(1, 0) = 1 /\ Shr(1, 1) = 0
      BY ShrDiv
    <2>3. BitOf(1, 0)
      BY <2>2 DEF BitOf
    <2>4. \A k \in Nat : k >= 1 => ~BitOf(1, k)
      BY <2>2, ShrZero
    <2> QED
      BY <2>1, <2>3, <2>4
  <1> HIDE DEF n
  <1>2. ASSUME NEW p \in 20 .. 31
        PROVE  p \in w <=> BitOf(n, 0 + (p - 20))
    <2>1. /\ p \in Int /\ 0 + (p - 20) \in Nat /\ (0 + (p - 20) = 0 <=> p = 20)
          /\ p \in 20 .. 24 \/ p \in 25 .. 31
      OBVIOUS
    <2>2. ~ImmAt(i, p)
      BY <1>0, <2>1, ImmAway
    <2>3. /\ p \in 25 .. 31 => ~BitOf(0, p - 25)
          /\ p \in 20 .. 24 => ~BitOf(0, p - 20)
      <3>1. \A k \in Nat : ~BitOf(0, k)
        BY BaseFields
      <3>2. /\ p \in 25 .. 31 => p - 25 \in Nat
            /\ p \in 20 .. 24 => p - 20 \in Nat
        OBVIOUS
      <3> QED
        BY <3>1, <3>2
    <2>4. p \in w <=> i.op = "ebreak" /\ p = 20
      BY <1>0, <2>1, <2>2, <2>3, WordBits
    <2> QED
      BY <1>1, <2>1, <2>4
  <1> HIDE DEF w
  <1>3. Narrow(n, 12) /\ n \in Int
    <2>1. n \in Nat /\ n < 4096
      BY DEF n
    <2> QED
      BY <2>1, NarrowRange
  <1>4. Piece(w, 20, 31, n, 0, 12)
    BY <1>2, <1>3 DEF Piece, Carries
  <1> QED
    BY <1>3, <1>4, FieldIs DEF w, n, funct12

-----------------------------------------------------------------------------
(* Immediates *)

\* What an instruction has in place of the fields its format lacks.
LEMMA Absent ==
  ASSUME NEW i, i.op # "illegal", Wellformed(i)
  PROVE  /\ i.op \in Ops /\ i.imm \in Int /\ ImmFits(i.op, i.imm)
         /\ Major(i.op) \in {99, 35, 15, 115} => i.rd = 0
         /\ Major(i.op) \in {55, 23, 111, 15, 115} => i.rs1 = 0
         /\ Major(i.op) \notin {99, 35, 51} => i.rs2 = 0
         /\ Major(i.op) \in {55, 23, 111} => Funct3(i.op) = 0
         /\ Major(i.op) # 51 /\ i.op \notin ShiftOps => Funct7(i.op) = 0
         /\ \A k \in Nat : ~BitOf(0, k)
  <1>1. i.op \in Ops
    BY DEF Wellformed
  <1>2. Major(i.op) \in {55, 23, 111} => Funct3(i.op) = 0
    BY <1>1 DEF Ops, Major, Funct3
  <1>3. Major(i.op) # 51 /\ i.op \notin ShiftOps => Funct7(i.op) = 0
    BY <1>1 DEF Ops, Major, Funct7, ShiftOps
  <1>4. \A k \in Nat : ~BitOf(0, k)
    BY BaseFields
  <1> QED
    BY <1>1, <1>2, <1>3, <1>4 DEF Wellformed

\* The bits of a word above its opcode, where the absent fields are zero.
LEMMA HighBits ==
  ASSUME NEW i, i.op # "illegal", Wellformed(i), i.op # "ebreak", NEW p \in 7 .. 31
  PROVE  /\ i.op \in ShiftOps /\ p \in 20 .. 24 => (p \in Assemble(i) <=> ImmAt(i, p))
         /\ i.op \notin ShiftOps /\ Major(i.op) \in {3, 19, 103} /\ p \in 20 .. 31 =>
              (p \in Assemble(i) <=> ImmAt(i, p))
         /\ Major(i.op) \in {35, 99} /\ p \in (7 .. 11) \cup (25 .. 31) =>
              (p \in Assemble(i) <=> ImmAt(i, p))
         /\ Major(i.op) \in {55, 23, 111} /\ p \in 12 .. 31 =>
              (p \in Assemble(i) <=> ImmAt(i, p))
  <1> DEFINE w == Assemble(i)
             fields == \/ p \in 12 .. 14 /\ BitOf(Funct3(i.op), p - 12)
                       \/ p \in 25 .. 31 /\ BitOf(Funct7(i.op), p - 25)
                       \/ p \in 7 .. 11 /\ BitOf(i.rd, p - 7)
                       \/ p \in 15 .. 19 /\ BitOf(i.rs1, p - 15)
                       \/ p \in 20 .. 24 /\ BitOf(i.rs2, p - 20)
  <1>1. p \in w <=> fields \/ ImmAt(i, p)
    <2>1. p \in Int /\ p \notin 0 .. 6
      OBVIOUS
    <2> QED
      BY <2>1, WordBits
  <1>2. /\ p \in 12 .. 14 => p - 12 \in Nat /\ ~BitOf(0, p - 12)
        /\ p \in 25 .. 31 => p - 25 \in Nat /\ ~BitOf(0, p - 25)
        /\ p \in 7 .. 11 => p - 7 \in Nat /\ ~BitOf(0, p - 7)
        /\ p \in 15 .. 19 => p - 15 \in Nat /\ ~BitOf(0, p - 15)
        /\ p \in 20 .. 24 => p - 20 \in Nat /\ ~BitOf(0, p - 20)
    <2>1. /\ p \in 12 .. 14 => p - 12 \in Nat
          /\ p \in 25 .. 31 => p - 25 \in Nat
          /\ p \in 7 .. 11 => p - 7 \in Nat
          /\ p \in 15 .. 19 => p - 15 \in Nat
          /\ p \in 20 .. 24 => p - 20 \in Nat
      OBVIOUS
    <2> QED
      BY <2>1, Absent
  <1>3. i.op \in ShiftOps => Major(i.op) = 19
    BY DEF ShiftOps, Major
  <1>4. i.op \in ShiftOps /\ p \in 20 .. 24 => ~fields
    BY <1>2, <1>3, Absent
  <1>5. i.op \notin ShiftOps /\ Major(i.op) \in {3, 19, 103} /\ p \in 20 .. 31 => ~fields
    BY <1>2, Absent
  <1>6. Major(i.op) \in {35, 99} /\ p \in (7 .. 11) \cup (25 .. 31) => ~fields
    BY <1>2, <1>3, Absent
  <1>7. Major(i.op) \in {55, 23, 111} /\ p \in 12 .. 31 => ~fields
    BY <1>2, <1>3, Absent
  <1> HIDE DEF w, fields
  <1> QED
    BY <1>1, <1>4, <1>5, <1>6, <1>7 DEF w

\* A sign bit.
LEMMA SignIs ==
  ASSUME NEW w, NEW t \in Int, NEW m \in Nat, Shr(t, m) \in {-1, 0}, 31 \in w <=> BitOf(t, m)
  PROVE  /\ (IF 31 \in w THEN -1 ELSE 0) = Shr(t, m)
         /\ FieldS(w, 31, 31) = Shr(t, m)
  <1> DEFINE x == IF 31 \in w THEN -1 ELSE 0
  <1>1. x = Shr(t, m)
    <2>1. CASE Shr(t, m) = -1
      <3> DEFINE y == Shr(t, m)
      <3>2. y \in Int /\ y = -1
        BY <2>1, ShrDef
      <3> HIDE DEF y
      <3>3. y \div 2 \in Int /\ y % 2 \in {0, 1} /\ y = 2 * (y \div 2) + (y % 2)
        BY <3>2, Halves
      <3>4. y % 2 = 1
        BY <3>2, <3>3
      <3>1. Shr(t, m) % 2 = 1
        BY <3>4 DEF y
      <3> QED
        BY <2>1, <3>1 DEF BitOf
    <2>2. CASE Shr(t, m) = 0
      <3>1. Shr(t, m) % 2 # 1
        BY <2>2
      <3> QED
        BY <2>2, <3>1 DEF BitOf
    <2> QED
      BY <2>1, <2>2
  <1>2. FieldS(w, 31, 31) = ShiftIn(x, w, 31, 31 - 1) /\ x \in Int
    BY DEF FieldS
  <1> HIDE DEF x
  <1>3. PICK v : Shifting(v, x, w, 30) /\ ShiftIn(x, w, 31, 30) = v[30 - 31 + 1]
    BY <1>2, ShiftInDef
  <1>4. v[0] = x /\ 30 - 31 + 1 = 0 /\ 31 - 1 = 30
    BY <1>3 DEF Shifting
  <1> QED
    BY <1>1, <1>2, <1>3, <1>4 DEF x

LEMMA ImmIsI ==
  ASSUME NEW i, i.op # "illegal", Wellformed(i),
         i.op \notin ShiftOps, Major(i.op) \in {3, 19, 103}
  PROVE  Imm(Assemble(i), "I") = i.imm
  <1> DEFINE w == Assemble(i)
             n == i.imm
  <1>1. n \in Int /\ -2048 <= n /\ n < 2048
    BY Absent DEF ImmFits
  <1>2. i.op # "ebreak"
    BY EbreakMajor
  <1>3. ASSUME NEW p \in 20 .. 31
        PROVE  p \in w <=> BitOf(n, p - 20)
    <2>1. p \in Int /\ p \in 7 .. 31
      OBVIOUS
    <2> QED
      BY <1>2, <2>1, HighBits, ImmAtI
  <1>4. Imm(w, "I") = ShiftIn(FieldS(w, 31, 31), w, 20, 30)
    BY DEF Imm
  <1> HIDE DEF w, n
  <1>5. FieldS(w, 31, 31) = Shr(n, 11)
    <2>1. Shr(n, 11) = n \div 2048
      BY <1>1, ShrDiv
    <2>2. n \div 2048 \in {-1, 0}
      BY <1>1
    <2>3. 31 \in w <=> BitOf(n, 31 - 20)
      BY <1>3
    <2>4. 31 - 20 = 11
      OBVIOUS
    <2> QED
      BY <1>1, <2>1, <2>2, <2>3, <2>4, SignIs
  <1>6. Piece(w, 20, 30, n, 0, 11)
    <2>1. ASSUME NEW p \in 20 .. 30
          PROVE  p \in w <=> BitOf(n, 0 + (p - 20))
      <3>1. p \in 20 .. 31 /\ 0 + (p - 20) = p - 20
        OBVIOUS
      <3> QED
        BY <1>3, <3>1
    <2> QED
      BY <1>1, <2>1 DEF Piece, Carries
  <1>7. ShiftIn(Shr(n, 11), w, 20, 30) = Shr(n, 0) /\ Shr(n, 0) = n
    BY <1>1, <1>6, Rejoin, ShrDiv
  <1> QED
    BY <1>4, <1>5, <1>7 DEF w, n

LEMMA ImmIsIS ==
  ASSUME NEW i, i.op # "illegal", Wellformed(i), i.op \in ShiftOps
  PROVE  Imm(Assemble(i), "IS") = i.imm
  <1> DEFINE w == Assemble(i)
             n == i.imm
  <1>1. n \in Int /\ 0 <= n /\ n < 32
    <2>1. Major(i.op) = 19
      BY DEF ShiftOps, Major
    <2> QED
      BY <2>1, Absent DEF ImmFits
  <1>2. i.op # "ebreak"
    BY DEF ShiftOps
  <1>3. ASSUME NEW p \in 20 .. 24
        PROVE  p \in w <=> BitOf(n, p - 20)
    <2>1. p \in Int /\ p \in 7 .. 31
      OBVIOUS
    <2> QED
      BY <1>2, <2>1, HighBits, ImmAtIS
  <1>4. Imm(w, "IS") = Field(w, 20, 24)
    BY DEF Imm
  <1> HIDE DEF w, n
  <1>5. Piece(w, 20, 24, n, 0, 5)
    <2>1. ASSUME NEW p \in 20 .. 24
          PROVE  p \in w <=> BitOf(n, 0 + (p - 20))
      <3>1. p \in 20 .. 24 /\ 0 + (p - 20) = p - 20
        OBVIOUS
      <3> QED
        BY <1>3, <3>1
    <2> QED
      BY <1>1, <2>1 DEF Piece, Carries
  <1>6. Narrow(n, 5)
    <2>1. n \in Nat
      BY <1>1
    <2> QED
      BY <1>1, <2>1, NarrowRange
  <1> QED
    BY <1>4, <1>5, <1>6, FieldIs DEF w, n

LEMMA ImmIsS ==
  ASSUME NEW i, i.op # "illegal", Wellformed(i), Major(i.op) = 35
  PROVE  Imm(Assemble(i), "S") = i.imm
  <1> DEFINE w == Assemble(i)
             n == i.imm
  <1>0. i.op # "ebreak" /\ i.op \notin ShiftOps
    BY EbreakMajor DEF ShiftOps, Major
  <1>1. n \in Int /\ -2048 <= n /\ n < 2048
    BY <1>0, Absent DEF ImmFits
  <1>3. /\ \A p \in 7 .. 11 : p \in w <=> BitOf(n, p - 7)
        /\ \A p \in 25 .. 31 : p \in w <=> BitOf(n, p - 20)
    <2>1. ASSUME NEW p \in 7 .. 11
          PROVE  p \in w <=> BitOf(n, p - 7)
      <3>1. p \in Int /\ p \in 7 .. 31 /\ p \notin 25 .. 31
        OBVIOUS
      <3> QED
        BY <1>0, <3>1, HighBits, ImmAtS
    <2>2. ASSUME NEW p \in 25 .. 31
          PROVE  p \in w <=> BitOf(n, p - 20)
      <3>1. p \in Int /\ p \in 7 .. 31 /\ p \notin 7 .. 11
        OBVIOUS
      <3> QED
        BY <1>0, <3>1, HighBits, ImmAtS
    <2> QED
      BY <2>1, <2>2
  <1>4. Imm(w, "S") = ShiftIn(ShiftIn(FieldS(w, 31, 31), w, 25, 30), w, 7, 11)
    BY DEF Imm
  <1> HIDE DEF w, n
  <1>5. FieldS(w, 31, 31) = Shr(n, 11)
    <2>1. Shr(n, 11) = n \div 2048
      BY <1>1, ShrDiv
    <2>2. n \div 2048 \in {-1, 0}
      BY <1>1
    <2>3. 31 \in w <=> BitOf(n, 11)
      <3>1. 31 \in 25 .. 31 /\ 31 - 20 = 11
        OBVIOUS
      <3> QED
        BY <1>3, <3>1
    <2> QED
      BY <1>1, <2>1, <2>2, <2>3, SignIs
  <1>6. Piece(w, 25, 30, n, 5, 11)
    <2>1. ASSUME NEW p \in 25 .. 30
          PROVE  p \in w <=> BitOf(n, 5 + (p - 25))
      <3>1. p \in 25 .. 31 /\ 5 + (p - 25) = p - 20
        OBVIOUS
      <3> QED
        BY <1>3, <3>1
    <2> QED
      BY <1>1, <2>1 DEF Piece, Carries
  <1>7. Piece(w, 7, 11, n, 0, 5)
    <2>1. ASSUME NEW p \in 7 .. 11
          PROVE  p \in w <=> BitOf(n, 0 + (p - 7))
      <3>1. p \in 7 .. 11 /\ 0 + (p - 7) = p - 7
        OBVIOUS
      <3> QED
        BY <1>3, <3>1
    <2> QED
      BY <1>1, <2>1 DEF Piece, Carries
  <1>8. ShiftIn(Shr(n, 11), w, 25, 30) = Shr(n, 5)
    BY <1>6, Rejoin
  <1>9. ShiftIn(Shr(n, 5), w, 7, 11) = Shr(n, 0) /\ Shr(n, 0) = n
    BY <1>1, <1>7, Rejoin, ShrDiv
  <1> QED
    BY <1>4, <1>5, <1>8, <1>9 DEF w, n

LEMMA ImmIsB ==
  ASSUME NEW i, i.op # "illegal", Wellformed(i), Major(i.op) = 99
  PROVE  Imm(Assemble(i), "B") = i.imm
  <1> DEFINE w == Assemble(i)
             n == i.imm
  <1>0. i.op # "ebreak" /\ i.op \notin ShiftOps
    BY EbreakMajor DEF ShiftOps, Major
  <1>1. n \in Int /\ -4096 <= n /\ n < 4096 /\ n % 2 = 0
    BY <1>0, Absent DEF ImmFits
  <1>3. /\ 7 \in w <=> BitOf(n, 11)
        /\ 31 \in w <=> BitOf(n, 12)
        /\ \A p \in 8 .. 11 : p \in w <=> BitOf(n, p - 7)
        /\ \A p \in 25 .. 30 : p \in w <=> BitOf(n, p - 20)
    <2>1. ASSUME NEW p \in (7 .. 11) \cup (25 .. 31)
          PROVE  p \in w <=> \/ p = 7 /\ BitOf(n, 11)
                             \/ p \in 8 .. 11 /\ BitOf(n, p - 7)
                             \/ p \in 25 .. 30 /\ BitOf(n, p - 20)
                             \/ p = 31 /\ BitOf(n, 12)
      <3>1. p \in Int /\ p \in 7 .. 31
        OBVIOUS
      <3> QED
        BY <1>0, <3>1, HighBits, ImmAtB
    <2> HIDE DEF w, n
    <2>2. ASSUME NEW p \in 8 .. 11
          PROVE  p \in w <=> BitOf(n, p - 7)
      <3>1. p \in (7 .. 11) \cup (25 .. 31) /\ p # 7 /\ p # 31 /\ p \notin 25 .. 30
        OBVIOUS
      <3> QED
        BY <2>1, <3>1
    <2>3. ASSUME NEW p \in 25 .. 30
          PROVE  p \in w <=> BitOf(n, p - 20)
      <3>1. p \in (7 .. 11) \cup (25 .. 31) /\ p # 7 /\ p # 31 /\ p \notin 8 .. 11
        OBVIOUS
      <3> QED
        BY <2>1, <3>1
    <2>4. 7 \in (7 .. 11) \cup (25 .. 31) /\ 31 \in (7 .. 11) \cup (25 .. 31)
      OBVIOUS
    <2>5. 7 \in w <=> BitOf(n, 11)
      BY <2>1, <2>4
    <2>6. 31 \in w <=> BitOf(n, 12)
      BY <2>1, <2>4
    <2> QED
      BY <2>2, <2>3, <2>5, <2>6
  <1>4. Imm(w, "B") =
          ShiftIn(ShiftIn(ShiftIn(FieldS(w, 31, 31), w, 7, 7), w, 25, 30), w, 8, 11) * 2
    BY DEF Imm
  <1> HIDE DEF w, n
  <1>5. FieldS(w, 31, 31) = Shr(n, 12)
    <2>1. Shr(n, 12) = n \div 4096
      BY <1>1, ShrDiv
    <2>2. n \div 4096 \in {-1, 0}
      BY <1>1
    <2>3. 31 \in w <=> BitOf(n, 12)
      BY <1>3
    <2> QED
      BY <1>1, <2>1, <2>2, <2>3, SignIs
  <1>6. Piece(w, 7, 7, n, 11, 12)
    <2>1. ASSUME NEW p \in 7 .. 7
          PROVE  p \in w <=> BitOf(n, 11 + (p - 7))
      <3>1. p = 7 /\ 11 + (p - 7) = 11
        OBVIOUS
      <3> QED
        BY <1>3, <3>1
    <2> QED
      BY <1>1, <2>1 DEF Piece, Carries
  <1>7. Piece(w, 25, 30, n, 5, 11)
    <2>1. ASSUME NEW p \in 25 .. 30
          PROVE  p \in w <=> BitOf(n, 5 + (p - 25))
      <3>1. p \in 25 .. 30 /\ 5 + (p - 25) = p - 20
        OBVIOUS
      <3> QED
        BY <1>3, <3>1
    <2> QED
      BY <1>1, <2>1 DEF Piece, Carries
  <1>8. Piece(w, 8, 11, n, 1, 5)
    <2>1. ASSUME NEW p \in 8 .. 11
          PROVE  p \in w <=> BitOf(n, 1 + (p - 8))
      <3>1. p \in 8 .. 11 /\ 1 + (p - 8) = p - 7
        OBVIOUS
      <3> QED
        BY <1>3, <3>1
    <2> QED
      BY <1>1, <2>1 DEF Piece, Carries
  <1>9. ShiftIn(Shr(n, 12), w, 7, 7) = Shr(n, 11)
    BY <1>6, Rejoin
  <1>10. ShiftIn(Shr(n, 11), w, 25, 30) = Shr(n, 5)
    BY <1>7, Rejoin
  <1>11. ShiftIn(Shr(n, 5), w, 8, 11) = Shr(n, 1)
    BY <1>8, Rejoin
  <1>12. Shr(n, 1) * 2 = n
    <2>1. Shr(n, 1) = n \div 2
      BY <1>1, ShrDiv
    <2> QED
      BY <1>1, <2>1
  <1> QED
    BY <1>4, <1>5, <1>9, <1>10, <1>11, <1>12 DEF w, n

LEMMA ImmIsU ==
  ASSUME NEW i, i.op # "illegal", Wellformed(i), Major(i.op) \in {55, 23}
  PROVE  Imm(Assemble(i), "U") = i.imm
  <1> DEFINE w == Assemble(i)
             n == i.imm
             x == IF 31 \in w THEN -1 ELSE 0
  <1>0. i.op # "ebreak" /\ i.op \notin ShiftOps
    BY EbreakMajor DEF ShiftOps, Major
  <1>1. n \in Int /\ -2147483648 <= n /\ n < 2147483648 /\ n % 4096 = 0
    BY <1>0, Absent DEF ImmFits, MinInt, MaxInt
  <1>3. \A p \in 12 .. 31 : p \in w <=> BitOf(n, p)
    <2>1. ASSUME NEW p \in 12 .. 31
          PROVE  p \in w <=> BitOf(n, p)
      <3>1. p \in Int /\ p \in 7 .. 31
        OBVIOUS
      <3> QED
        BY <1>0, <3>1, HighBits, ImmAtU
    <2> QED
      BY <2>1
  <1>4. Imm(w, "U") = ShiftIn(x, w, 12, 30) * 4096
    <2>1. 31 - 1 = 30
      OBVIOUS
    <2> QED
      BY <2>1 DEF Imm, FieldS
  <1> HIDE DEF w, n
  <1>5. x = Shr(n, 31)
    <2>1. Shr(n, 31) = n \div 2147483648
      BY <1>1, ShrDiv
    <2>2. n \div 2147483648 \in {-1, 0}
      BY <1>1
    <2>3. 31 \in w <=> BitOf(n, 31)
      BY <1>3
    <2> QED
      BY <1>1, <2>1, <2>2, <2>3, SignIs
  <1> HIDE DEF x
  <1>6. Piece(w, 12, 30, n, 12, 31)
    <2>1. ASSUME NEW p \in 12 .. 30
          PROVE  p \in w <=> BitOf(n, 12 + (p - 12))
      <3>1. p \in 12 .. 31 /\ 12 + (p - 12) = p
        OBVIOUS
      <3> QED
        BY <1>3, <3>1
    <2> QED
      BY <1>1, <2>1 DEF Piece, Carries
  <1>7. ShiftIn(Shr(n, 31), w, 12, 30) = Shr(n, 12)
    BY <1>6, Rejoin
  <1>8. Shr(n, 12) * 4096 = n
    <2>1. Shr(n, 12) = n \div 4096
      BY <1>1, ShrDiv
    <2> QED
      BY <1>1, <2>1
  <1> QED
    BY <1>4, <1>5, <1>7, <1>8 DEF w, n

LEMMA ImmIsJ ==
  ASSUME NEW i, i.op # "illegal", Wellformed(i), Major(i.op) = 111
  PROVE  Imm(Assemble(i), "J") = i.imm
  <1> DEFINE w == Assemble(i)
             n == i.imm
  <1>0. i.op # "ebreak" /\ i.op \notin ShiftOps
    BY EbreakMajor DEF ShiftOps, Major
  <1>1. n \in Int /\ -1048576 <= n /\ n < 1048576 /\ n % 2 = 0
    BY <1>0, Absent DEF ImmFits
  <1>3. /\ 20 \in w <=> BitOf(n, 11)
        /\ 31 \in w <=> BitOf(n, 20)
        /\ \A p \in 12 .. 19 : p \in w <=> BitOf(n, p)
        /\ \A p \in 21 .. 30 : p \in w <=> BitOf(n, p - 20)
    <2>1. ASSUME NEW p \in 12 .. 31
          PROVE  p \in w <=> \/ p \in 12 .. 19 /\ BitOf(n, p)
                             \/ p = 20 /\ BitOf(n, 11)
                             \/ p \in 21 .. 30 /\ BitOf(n, p - 20)
                             \/ p = 31 /\ BitOf(n, 20)
      <3>1. p \in Int /\ p \in 7 .. 31
        OBVIOUS
      <3> QED
        BY <1>0, <3>1, HighBits, ImmAtJ
    <2> HIDE DEF w, n
    <2>2. ASSUME NEW p \in 12 .. 19
          PROVE  p \in w <=> BitOf(n, p)
      <3>1. p \in 12 .. 31 /\ p # 20 /\ p # 31 /\ p \notin 21 .. 30
        OBVIOUS
      <3> QED
        BY <2>1, <3>1
    <2>3. ASSUME NEW p \in 21 .. 30
          PROVE  p \in w <=> BitOf(n, p - 20)
      <3>1. p \in 12 .. 31 /\ p # 20 /\ p # 31 /\ p \notin 12 .. 19
        OBVIOUS
      <3> QED
        BY <2>1, <3>1
    <2>4. 20 \in 12 .. 31 /\ 31 \in 12 .. 31
      OBVIOUS
    <2>5. 20 \in w <=> BitOf(n, 11)
      BY <2>1, <2>4
    <2>6. 31 \in w <=> BitOf(n, 20)
      BY <2>1, <2>4
    <2> QED
      BY <2>2, <2>3, <2>5, <2>6
  <1>4. Imm(w, "J") =
          ShiftIn(ShiftIn(ShiftIn(FieldS(w, 31, 31), w, 12, 19), w, 20, 20), w, 21, 30) * 2
    BY DEF Imm
  <1> HIDE DEF w, n
  <1>5. FieldS(w, 31, 31) = Shr(n, 20)
    <2>1. Shr(n, 20) = n \div 1048576
      BY <1>1, ShrDiv
    <2>2. n \div 1048576 \in {-1, 0}
      BY <1>1
    <2>3. 31 \in w <=> BitOf(n, 20)
      BY <1>3
    <2> QED
      BY <1>1, <2>1, <2>2, <2>3, SignIs
  <1>6. Piece(w, 12, 19, n, 12, 20)
    <2>1. ASSUME NEW p \in 12 .. 19
          PROVE  p \in w <=> BitOf(n, 12 + (p - 12))
      <3>1. p \in 12 .. 19 /\ 12 + (p - 12) = p
        OBVIOUS
      <3> QED
        BY <1>3, <3>1
    <2> QED
      BY <1>1, <2>1 DEF Piece, Carries
  <1>7. Piece(w, 20, 20, n, 11, 12)
    <2>1. ASSUME NEW p \in 20 .. 20
          PROVE  p \in w <=> BitOf(n, 11 + (p - 20))
      <3>1. p = 20 /\ 11 + (p - 20) = 11
        OBVIOUS
      <3> QED
        BY <1>3, <3>1
    <2> QED
      BY <1>1, <2>1 DEF Piece, Carries
  <1>8. Piece(w, 21, 30, n, 1, 11)
    <2>1. ASSUME NEW p \in 21 .. 30
          PROVE  p \in w <=> BitOf(n, 1 + (p - 21))
      <3>1. p \in 21 .. 30 /\ 1 + (p - 21) = p - 20
        OBVIOUS
      <3> QED
        BY <1>3, <3>1
    <2> QED
      BY <1>1, <2>1 DEF Piece, Carries
  <1>9. ShiftIn(Shr(n, 20), w, 12, 19) = Shr(n, 12)
    BY <1>6, Rejoin
  <1>10. ShiftIn(Shr(n, 12), w, 20, 20) = Shr(n, 11)
    BY <1>7, Rejoin
  <1>11. ShiftIn(Shr(n, 11), w, 21, 30) = Shr(n, 1)
    BY <1>8, Rejoin
  <1>12. Shr(n, 1) * 2 = n
    <2>1. Shr(n, 1) = n \div 2
      BY <1>1, ShrDiv
    <2> QED
      BY <1>1, <2>1
  <1> QED
    BY <1>4, <1>5, <1>9, <1>10, <1>11, <1>12 DEF w, n

-----------------------------------------------------------------------------
(* The decoder *)

\* The operations by major opcode.
LEMMA OpsByMajor ==
  ASSUME NEW op \in Ops
  PROVE  /\ Major(op) = 55 <=> op = "lui"
         /\ Major(op) = 23 <=> op = "auipc"
         /\ Major(op) = 111 <=> op = "jal"
         /\ Major(op) = 103 <=> op = "jalr"
         /\ Major(op) = 99 <=> op \in BranchOps
         /\ Major(op) = 3 <=> op \in LoadOps
         /\ Major(op) = 35 <=> op \in StoreOps
         /\ Major(op) = 19 <=> op \in ImmOps \cup ShiftImmOps
         /\ Major(op) = 51 <=> op \in RegOps
         /\ Major(op) = 15 <=> op \in {"fence", "fencei"}
         /\ Major(op) = 115 <=> op \in {"ecall", "ebreak"}
  <1>1. Major(op) = 55 <=> op = "lui"
    BY DEF Ops, Major
  <1>2. Major(op) = 23 <=> op = "auipc"
    BY DEF Ops, Major
  <1>3. Major(op) = 111 <=> op = "jal"
    BY DEF Ops, Major
  <1>4. Major(op) = 103 <=> op = "jalr"
    BY DEF Ops, Major
  <1>5. Major(op) = 99 <=> op \in BranchOps
    BY DEF Ops, Major, BranchOps
  <1>6. Major(op) = 3 <=> op \in LoadOps
    BY DEF Ops, Major, LoadOps
  <1>7. Major(op) = 35 <=> op \in StoreOps
    BY DEF Ops, Major, StoreOps
  <1>8. Major(op) = 19 <=> op \in ImmOps \cup ShiftImmOps
    BY DEF Ops, Major, ImmOps, ShiftImmOps
  <1>9. Major(op) = 51 <=> op \in RegOps
    BY DEF Ops, Major, RegOps
  <1>10. Major(op) = 15 <=> op \in {"fence", "fencei"}
    BY DEF Ops, Major
  <1>11. Major(op) = 115 <=> op \in {"ecall", "ebreak"}
    BY DEF Ops, Major
  <1> QED
    BY <1>1, <1>2, <1>3, <1>4, <1>5, <1>6, <1>7, <1>8, <1>9, <1>10, <1>11

\* The formats by major opcode.
LEMMA FormatByMajor ==
  ASSUME NEW op \in Ops
  PROVE  /\ Format(op) = "U" <=> Major(op) \in {55, 23}
         /\ Format(op) = "J" <=> Major(op) = 111
         /\ Format(op) = "B" <=> Major(op) = 99
         /\ Format(op) = "S" <=> Major(op) = 35
         /\ Format(op) = "I" <=> Major(op) \in {3, 19, 103} /\ op \notin ShiftOps
         /\ Format(op) = "IS" <=> op \in ShiftOps
         /\ Format(op) = "R" <=> Major(op) = 51
         /\ Format(op) = "Base" <=> Major(op) \in {15, 115}
  <1>1. /\ op \in ShiftOps <=> op \in ShiftImmOps
        /\ op \in {"lui", "auipc", "jal", "jalr"} \cup BranchOps \cup LoadOps \cup StoreOps
                  \cup ImmOps \cup ShiftImmOps \cup RegOps \cup HelperOps
    BY DEF Ops, ShiftOps, BranchOps, LoadOps, StoreOps, ImmOps, ShiftImmOps, RegOps, HelperOps
  <1>2. CASE op \in {"lui", "auipc"}
    <2>1. Format(op) = "U"
      BY <1>2 DEF Format, BranchOps, LoadOps, StoreOps, ImmOps, ShiftImmOps, RegOps, HelperOps
    <2>2. op \in ShiftImmOps <=> "U" = "IS"
      BY <1>2 DEF BranchOps, LoadOps, StoreOps, ImmOps, ShiftImmOps, RegOps, HelperOps
    <2>3. Major(op) \in {55, 23}
      BY <1>2 DEF Major, BranchOps, LoadOps, StoreOps, ImmOps, ShiftImmOps, RegOps, HelperOps
    <2> QED
      BY <1>1, <2>1, <2>2, <2>3
  <1>3. CASE op \in {"jal"}
    <2>1. Format(op) = "J"
      BY <1>3 DEF Format, BranchOps, LoadOps, StoreOps, ImmOps, ShiftImmOps, RegOps, HelperOps
    <2>2. op \in ShiftImmOps <=> "J" = "IS"
      BY <1>3 DEF BranchOps, LoadOps, StoreOps, ImmOps, ShiftImmOps, RegOps, HelperOps
    <2>3. Major(op) \in {111}
      BY <1>3 DEF Major, BranchOps, LoadOps, StoreOps, ImmOps, ShiftImmOps, RegOps, HelperOps
    <2> QED
      BY <1>1, <2>1, <2>2, <2>3
  <1>4. CASE op \in BranchOps
    <2>1. Format(op) = "B"
      BY <1>4 DEF Format, BranchOps, LoadOps, StoreOps, ImmOps, ShiftImmOps, RegOps, HelperOps
    <2>2. op \in ShiftImmOps <=> "B" = "IS"
      BY <1>4 DEF BranchOps, LoadOps, StoreOps, ImmOps, ShiftImmOps, RegOps, HelperOps
    <2>3. Major(op) \in {99}
      BY <1>4 DEF Major, BranchOps, LoadOps, StoreOps, ImmOps, ShiftImmOps, RegOps, HelperOps
    <2> QED
      BY <1>1, <2>1, <2>2, <2>3
  <1>5. CASE op \in StoreOps
    <2>1. Format(op) = "S"
      BY <1>5 DEF Format, BranchOps, LoadOps, StoreOps, ImmOps, ShiftImmOps, RegOps, HelperOps
    <2>2. op \in ShiftImmOps <=> "S" = "IS"
      BY <1>5 DEF BranchOps, LoadOps, StoreOps, ImmOps, ShiftImmOps, RegOps, HelperOps
    <2>3. Major(op) \in {35}
      BY <1>5 DEF Major, BranchOps, LoadOps, StoreOps, ImmOps, ShiftImmOps, RegOps, HelperOps
    <2> QED
      BY <1>1, <2>1, <2>2, <2>3
  <1>6. CASE op \in LoadOps
    <2>1. Format(op) = "I"
      BY <1>6 DEF Format, BranchOps, LoadOps, StoreOps, ImmOps, ShiftImmOps, RegOps, HelperOps
    <2>2. op \in ShiftImmOps <=> "I" = "IS"
      BY <1>6 DEF BranchOps, LoadOps, StoreOps, ImmOps, ShiftImmOps, RegOps, HelperOps
    <2>3. Major(op) \in {3}
      BY <1>6 DEF Major, BranchOps, LoadOps, StoreOps, ImmOps, ShiftImmOps, RegOps, HelperOps
    <2> QED
      BY <1>1, <2>1, <2>2, <2>3
  <1>7. CASE op \in ImmOps
    <2>1. Format(op) = "I"
      BY <1>7 DEF Format, BranchOps, LoadOps, StoreOps, ImmOps, ShiftImmOps, RegOps, HelperOps
    <2>2. op \in ShiftImmOps <=> "I" = "IS"
      BY <1>7 DEF BranchOps, LoadOps, StoreOps, ImmOps, ShiftImmOps, RegOps, HelperOps
    <2>3. Major(op) \in {19}
      BY <1>7 DEF Major, BranchOps, LoadOps, StoreOps, ImmOps, ShiftImmOps, RegOps, HelperOps
    <2> QED
      BY <1>1, <2>1, <2>2, <2>3
  <1>8. CASE op \in {"jalr"}
    <2>1. Format(op) = "I"
      BY <1>8 DEF Format, BranchOps, LoadOps, StoreOps, ImmOps, ShiftImmOps, RegOps, HelperOps
    <2>2. op \in ShiftImmOps <=> "I" = "IS"
      BY <1>8 DEF BranchOps, LoadOps, StoreOps, ImmOps, ShiftImmOps, RegOps, HelperOps
    <2>3. Major(op) \in {103}
      BY <1>8 DEF Major, BranchOps, LoadOps, StoreOps, ImmOps, ShiftImmOps, RegOps, HelperOps
    <2> QED
      BY <1>1, <2>1, <2>2, <2>3
  <1>9. CASE op \in ShiftImmOps
    <2>1. Format(op) = "IS"
      BY <1>9 DEF Format, BranchOps, LoadOps, StoreOps, ImmOps, ShiftImmOps, RegOps, HelperOps
    <2>2. op \in ShiftImmOps <=> "IS" = "IS"
      BY <1>9 DEF BranchOps, LoadOps, StoreOps, ImmOps, ShiftImmOps, RegOps, HelperOps
    <2>3. Major(op) \in {19}
      BY <1>9 DEF Major, BranchOps, LoadOps, StoreOps, ImmOps, ShiftImmOps, RegOps, HelperOps
    <2> QED
      BY <1>1, <2>1, <2>2, <2>3
  <1>10. CASE op \in RegOps
    <2>1. Format(op) = "R"
      BY <1>10 DEF Format, BranchOps, LoadOps, StoreOps, ImmOps, ShiftImmOps, RegOps, HelperOps
    <2>2. op \in ShiftImmOps <=> "R" = "IS"
      BY <1>10 DEF BranchOps, LoadOps, StoreOps, ImmOps, ShiftImmOps, RegOps, HelperOps
    <2>3. Major(op) \in {51}
      BY <1>10 DEF Major, BranchOps, LoadOps, StoreOps, ImmOps, ShiftImmOps, RegOps, HelperOps
    <2> QED
      BY <1>1, <2>1, <2>2, <2>3
  <1>11. CASE op \in HelperOps
    <2>1. Format(op) = "Base"
      BY <1>11 DEF Format, BranchOps, LoadOps, StoreOps, ImmOps, ShiftImmOps, RegOps, HelperOps
    <2>2. op \in ShiftImmOps <=> "Base" = "IS"
      BY <1>11 DEF BranchOps, LoadOps, StoreOps, ImmOps, ShiftImmOps, RegOps, HelperOps
    <2>3. Major(op) \in {15, 115}
      BY <1>11 DEF Major, BranchOps, LoadOps, StoreOps, ImmOps, ShiftImmOps, RegOps, HelperOps
    <2> QED
      BY <1>1, <2>1, <2>2, <2>3
  <1> QED
    BY <1>1, <1>2, <1>3, <1>4, <1>5, <1>6, <1>7, <1>8, <1>9, <1>10, <1>11

\* Decode finds the operation.
LEMMA DecodeIs ==
  ASSUME NEW i, i.op # "illegal", Wellformed(i)
  PROVE  Decode(Assemble(i)) = i.op
  <1> DEFINE w == Assemble(i)
  <1>1. opcode(w) = Major(i.op)
    BY OpcodeIs
  <1>2. Major(i.op) \notin {55, 23, 111} => funct3(w) = Funct3(i.op)
    BY Funct3Is
  <1>3. Major(i.op) = 51 \/ i.op \in ShiftOps => funct7(w) = Funct7(i.op)
    BY Funct7Is
  <1>4. i.op \in Ops
    BY Absent
  <1>5. i.op \in {"ecall", "ebreak"} =>
          rd(w) = 0 /\ rs1(w) = 0 /\ funct12(w) = IF i.op = "ebreak" THEN 1 ELSE 0
    <2> SUFFICES ASSUME i.op \in {"ecall", "ebreak"}
                 PROVE  rd(w) = 0 /\ rs1(w) = 0 /\ funct12(w) = IF i.op = "ebreak" THEN 1 ELSE 0
      OBVIOUS
    <2>1. Major(i.op) = 115
      BY EbreakMajor
    <2>2. rd(w) = i.rd /\ rs1(w) = i.rs1 /\ i.rd = 0 /\ i.rs1 = 0
      BY <2>1, RdIs, Rs1Is, Absent
    <2>3. funct12(w) = IF i.op = "ebreak" THEN 1 ELSE 0
      BY Funct12Is
    <2> QED
      BY <2>2, <2>3
  <1> HIDE DEF w
  <1>6. Major(i.op) \in {55, 23, 111, 103, 99, 3, 35, 19, 51, 15, 115}
    BY <1>4, EncRange
  <1>7. CASE Major(i.op) \in {55, 23, 111}
    BY <1>1, <1>4, <1>7, OpsByMajor DEF Decode, w
  <1>8. CASE Major(i.op) = 103
    <2>1. i.op = "jalr"
      BY <1>4, <1>8, OpsByMajor
    <2>2. funct3(w) = 0
      BY <1>2, <1>8, <2>1 DEF Funct3
    <2> QED
      BY <1>1, <1>8, <2>1, <2>2 DEF Decode, w
  <1>9. CASE Major(i.op) = 99
    <2>1. i.op \in BranchOps
      BY <1>4, <1>9, OpsByMajor
    <2>2. Decode(w) = OpBranch(w)
      BY <1>1, <1>9 DEF Decode
    <2>3. OpBranch(w) = i.op
      BY <1>2, <1>9, <2>1 DEF OpBranch, BranchOps, Funct3
    <2> QED
      BY <2>2, <2>3 DEF w
  <1>10. CASE Major(i.op) = 3
    <2>1. i.op \in LoadOps
      BY <1>4, <1>10, OpsByMajor
    <2>2. Decode(w) = OpLoad(w)
      BY <1>1, <1>10 DEF Decode
    <2>3. OpLoad(w) = i.op
      BY <1>2, <1>10, <2>1 DEF OpLoad, LoadOps, Funct3
    <2> QED
      BY <2>2, <2>3 DEF w
  <1>11. CASE Major(i.op) = 35
    <2>1. i.op \in StoreOps
      BY <1>4, <1>11, OpsByMajor
    <2>2. Decode(w) = OpStore(w)
      BY <1>1, <1>11 DEF Decode
    <2>3. OpStore(w) = i.op
      BY <1>2, <1>11, <2>1 DEF OpStore, StoreOps, Funct3
    <2> QED
      BY <2>2, <2>3 DEF w
  <1>12. CASE Major(i.op) = 19
    <2>1. i.op \in ImmOps \cup ShiftImmOps
      BY <1>4, <1>12, OpsByMajor
    <2>2. Decode(w) = OpImm(w)
      BY <1>1, <1>12 DEF Decode
    <2>3. i.op \in ShiftImmOps => funct7(w) = Funct7(i.op)
      BY <1>3 DEF ShiftOps, ShiftImmOps
    <2>4. CASE i.op \in {"srli", "srai"}
      <3>1. funct3(w) = 5 /\ funct7(w) = IF i.op = "srai" THEN 32 ELSE 0
        BY <1>2, <1>12, <2>3, <2>4 DEF Funct3, Funct7, ShiftImmOps
      <3> QED
        BY <2>2, <2>4, <3>1 DEF OpImm, ByFunct7, w
    <2>5. CASE i.op \notin {"srli", "srai"}
      <3>1. OpImm(w) = i.op
        BY <1>2, <1>12, <2>1, <2>5 DEF OpImm, ImmOps, ShiftImmOps, Funct3
      <3> QED
        BY <2>2, <3>1 DEF w
    <2> QED
      BY <2>4, <2>5
  <1>13. CASE Major(i.op) = 51
    <2>1. i.op \in RegOps
      BY <1>4, <1>13, OpsByMajor
    <2>2. Decode(w) = OpReg(w)
      BY <1>1, <1>13 DEF Decode
    <2>4. CASE i.op \in {"srl", "sra"}
      <3>1. funct3(w) = 5 /\ funct7(w) = IF i.op = "sra" THEN 32 ELSE 0
        BY <1>2, <1>3, <1>13, <2>4 DEF Funct3, Funct7
      <3> QED
        BY <2>2, <2>4, <3>1 DEF OpReg, ByFunct7, w
    <2>5. CASE i.op \in {"add", "sub"}
      <3>1. funct3(w) = 0 /\ funct7(w) = IF i.op = "sub" THEN 32 ELSE 0
        BY <1>2, <1>3, <1>13, <2>5 DEF Funct3, Funct7
      <3> QED
        BY <2>2, <2>5, <3>1 DEF OpReg, ByFunct7, w
    <2>6. CASE i.op \notin {"srl", "sra", "add", "sub"}
      <3>1. OpReg(w) = i.op
        BY <1>2, <1>13, <2>1, <2>6 DEF OpReg, RegOps, Funct3
      <3> QED
        BY <2>2, <3>1 DEF w
    <2> QED
      BY <2>4, <2>5, <2>6
  <1>14. CASE Major(i.op) = 15
    <2>1. i.op \in {"fence", "fencei"}
      BY <1>4, <1>14, OpsByMajor
    <2>2. Decode(w) = OpFence(w)
      BY <1>1, <1>14 DEF Decode
    <2>3. OpFence(w) = i.op
      BY <1>2, <1>14, <2>1 DEF OpFence, Funct3
    <2> QED
      BY <2>2, <2>3 DEF w
  <1>15. CASE Major(i.op) = 115
    <2>1. i.op \in {"ecall", "ebreak"}
      BY <1>4, <1>15, OpsByMajor
    <2>2. Decode(w) = OpSystem(w)
      BY <1>1, <1>15 DEF Decode
    <2>3. funct3(w) = 0
      BY <1>2, <1>15, <2>1 DEF Funct3
    <2>4. OpSystem(w) = i.op
      BY <1>5, <2>1, <2>3 DEF OpSystem
    <2> QED
      BY <2>2, <2>4 DEF w
  <1> QED
    BY <1>6, <1>7, <1>8, <1>9, <1>10, <1>11, <1>12, <1>13, <1>14, <1>15

\* And the fields: the decoder is the inverse of the assembler.
LEMMA InsnIs ==
  ASSUME NEW i, i.op # "illegal", Wellformed(i)
  PROVE  Insn(Assemble(i)) = i
  <1> DEFINE w == Assemble(i)
             fmt == Format(i.op)
             has(fmts, n) == IF fmt \in fmts THEN n ELSE 0
  <1>1. i.op \in Ops
    BY Absent
  <1>2. Insn(w) = Fields(w, i.op, fmt)
    BY DecodeIs DEF Insn
  <1>3. Fields(w, i.op, fmt) = [op  |-> i.op,
                                rd  |-> has({"R", "I", "IS", "U", "J"}, rd(w)),
                                rs1 |-> has({"R", "I", "IS", "S", "B"}, rs1(w)),
                                rs2 |-> has({"R", "S", "B"}, rs2(w)),
                                imm |-> Imm(w, fmt)]
    BY DEF Fields
  <1>4. /\ Major(i.op) \notin {99, 35} => rd(w) = i.rd
        /\ Major(i.op) \notin {55, 23, 111} => rs1(w) = i.rs1
        /\ Major(i.op) \in {99, 35, 51} => rs2(w) = i.rs2
    BY RdIs, Rs1Is, Rs2Is
  <1>5. /\ Major(i.op) \in {99, 35, 15, 115} => i.rd = 0
        /\ Major(i.op) \in {55, 23, 111, 15, 115} => i.rs1 = 0
        /\ Major(i.op) \notin {99, 35, 51} => i.rs2 = 0
    BY Absent
  <1>6. Major(i.op) \in {55, 23, 111, 103, 99, 3, 35, 19, 51, 15, 115}
    BY <1>1, EncRange
  <1>7. /\ fmt = "U" <=> Major(i.op) \in {55, 23}
        /\ fmt = "J" <=> Major(i.op) = 111
        /\ fmt = "B" <=> Major(i.op) = 99
        /\ fmt = "S" <=> Major(i.op) = 35
        /\ fmt = "I" <=> Major(i.op) \in {3, 19, 103} /\ i.op \notin ShiftOps
        /\ fmt = "IS" <=> i.op \in ShiftOps
        /\ fmt = "R" <=> Major(i.op) = 51
        /\ fmt = "Base" <=> Major(i.op) \in {15, 115}
    BY <1>1, FormatByMajor
  <1>a. i.op \in ShiftOps => Major(i.op) = 19
    BY DEF ShiftOps, Major
  <1> HIDE DEF fmt
  <1>8. has({"R", "I", "IS", "U", "J"}, rd(w)) = i.rd
    BY <1>4, <1>5, <1>6, <1>7, <1>a
  <1>9. has({"R", "I", "IS", "S", "B"}, rs1(w)) = i.rs1
    BY <1>4, <1>5, <1>6, <1>7, <1>a
  <1>10. has({"R", "S", "B"}, rs2(w)) = i.rs2
    BY <1>4, <1>5, <1>6, <1>7, <1>a
  <1>11. Imm(w, fmt) = i.imm
    <2>1. CASE fmt = "U"
      BY <1>7, <2>1, ImmIsU
    <2>2. CASE fmt = "J"
      BY <1>7, <2>2, ImmIsJ
    <2>3. CASE fmt = "B"
      BY <1>7, <2>3, ImmIsB
    <2>4. CASE fmt = "S"
      BY <1>7, <2>4, ImmIsS
    <2>5. CASE fmt = "I"
      BY <1>7, <2>5, ImmIsI
    <2>6. CASE fmt = "IS"
      BY <1>7, <2>6, ImmIsIS
    <2>7. CASE fmt \in {"R", "Base"}
      <3>1. Major(i.op) \in {51, 15, 115} /\ i.op \notin ShiftOps
        BY <1>7, <1>a, <2>7
      <3>2. i.imm = 0
        BY <3>1, Absent DEF ImmFits
      <3>3. Imm(w, fmt) = 0
        BY <2>7 DEF Imm
      <3> QED
        BY <3>2, <3>3
    <2>8. fmt \in {"U", "J", "B", "S", "I", "IS", "R", "Base"}
      BY <1>6, <1>7
    <2> QED
      BY <2>1, <2>2, <2>3, <2>4, <2>5, <2>6, <2>7, <2>8
  <1>12. i = [op |-> i.op, rd |-> i.rd, rs1 |-> i.rs1, rs2 |-> i.rs2, imm |-> i.imm]
    BY DEF Wellformed
  <1> HIDE DEF has, w
  <1> QED
    BY <1>2, <1>3, <1>8, <1>9, <1>10, <1>11, <1>12 DEF w

\* An operation Decode finds has its fields in the word.
LEMMA DecodeTells ==
  ASSUME NEW w, Decode(w) # "illegal"
  PROVE  /\ Decode(w) \in Ops
         /\ opcode(w) = Major(Decode(w))
         /\ Major(Decode(w)) \notin {55, 23, 111} => funct3(w) = Funct3(Decode(w))
         /\ Decode(w) \in {"srli", "srai", "add", "sub", "srl", "sra"} =>
              funct7(w) = Funct7(Decode(w))
         /\ Major(Decode(w)) = 115 =>
              rd(w) = 0 /\ rs1(w) = 0 /\ funct12(w) = IF Decode(w) = "ebreak" THEN 1 ELSE 0
  <1>1. opcode(w) \in {55, 23, 111, 103, 99, 3, 35, 19, 51, 15, 115}
    BY DEF Decode
  <1>2. CASE opcode(w) \in {55, 23, 111}
    <2>1. Decode(w) = IF opcode(w) = 55 THEN "lui" ELSE IF opcode(w) = 23 THEN "auipc" ELSE "jal"
      BY <1>2 DEF Decode
    <2> QED
      BY <1>2, <2>1 DEF Ops, Major
  <1>3. CASE opcode(w) = 103
    <2>1. Decode(w) = "jalr" /\ funct3(w) = 0
      BY <1>3 DEF Decode
    <2> QED
      BY <1>3, <2>1 DEF Ops, Major, Funct3
  <1>4. CASE opcode(w) = 99
    <2>1. Decode(w) = OpBranch(w)
      BY <1>4 DEF Decode
    <2>2. Decode(w) \in BranchOps /\ funct3(w) = Funct3(Decode(w))
      BY <2>1 DEF OpBranch, BranchOps, Funct3
    <2>3. Decode(w) \in Ops /\ Major(Decode(w)) = 99
      BY <2>2 DEF Ops, Major, BranchOps
    <2> QED
      BY <1>4, <2>2, <2>3 DEF BranchOps
  <1>5. CASE opcode(w) = 3
    <2>1. Decode(w) = OpLoad(w)
      BY <1>5 DEF Decode
    <2>2. Decode(w) \in LoadOps /\ funct3(w) = Funct3(Decode(w))
      BY <2>1 DEF OpLoad, LoadOps, Funct3
    <2>3. Decode(w) \in Ops /\ Major(Decode(w)) = 3
      BY <2>2 DEF Ops, Major, LoadOps
    <2> QED
      BY <1>5, <2>2, <2>3 DEF LoadOps
  <1>6. CASE opcode(w) = 35
    <2>1. Decode(w) = OpStore(w)
      BY <1>6 DEF Decode
    <2>2. Decode(w) \in StoreOps /\ funct3(w) = Funct3(Decode(w))
      BY <2>1 DEF OpStore, StoreOps, Funct3
    <2>3. Decode(w) \in Ops /\ Major(Decode(w)) = 35
      BY <2>2 DEF Ops, Major, StoreOps
    <2> QED
      BY <1>6, <2>2, <2>3 DEF StoreOps
  <1>7. CASE opcode(w) = 19
    <2>1. Decode(w) = OpImm(w)
      BY <1>7 DEF Decode
    <2>2. CASE funct3(w) = 5
      <3>1. OpImm(w) = ByFunct7(w, "srli", "srai")
        BY <2>2 DEF OpImm
      <3>2. \/ Decode(w) = "srli" /\ funct7(w) = 0
            \/ Decode(w) = "srai" /\ funct7(w) = 32
        BY <2>1, <3>1 DEF ByFunct7
      <3> QED
        BY <1>7, <2>2, <3>2 DEF Ops, Major, Funct3, Funct7
    <2>3. CASE funct3(w) # 5
      <3>1. /\ Decode(w) \in {"addi", "slli", "slti", "sltiu", "xori", "ori", "andi"}
            /\ funct3(w) = Funct3(Decode(w))
        BY <2>1, <2>3 DEF OpImm, Funct3
      <3>2. Decode(w) \in Ops /\ Major(Decode(w)) = 19
        BY <3>1 DEF Ops, Major
      <3> QED
        BY <1>7, <3>1, <3>2
    <2> QED
      BY <2>2, <2>3
  <1>8. CASE opcode(w) = 51
    <2>1. Decode(w) = OpReg(w)
      BY <1>8 DEF Decode
    <2>2. CASE funct3(w) = 5
      <3>1. OpReg(w) = ByFunct7(w, "srl", "sra")
        BY <2>2 DEF OpReg
      <3>2. \/ Decode(w) = "srl" /\ funct7(w) = 0
            \/ Decode(w) = "sra" /\ funct7(w) = 32
        BY <2>1, <3>1 DEF ByFunct7
      <3> QED
        BY <1>8, <2>2, <3>2 DEF Ops, Major, Funct3, Funct7
    <2>3. CASE funct3(w) = 0
      <3>1. OpReg(w) = ByFunct7(w, "add", "sub")
        BY <2>3 DEF OpReg
      <3>2. \/ Decode(w) = "add" /\ funct7(w) = 0
            \/ Decode(w) = "sub" /\ funct7(w) = 32
        BY <2>1, <3>1 DEF ByFunct7
      <3> QED
        BY <1>8, <2>3, <3>2 DEF Ops, Major, Funct3, Funct7
    <2>4. CASE funct3(w) \notin {0, 5}
      <3>1. /\ Decode(w) \in {"sll", "slt", "sltu", "xor", "or", "and"}
            /\ funct3(w) = Funct3(Decode(w))
        BY <2>1, <2>4 DEF OpReg, Funct3
      <3>2. Decode(w) \in Ops /\ Major(Decode(w)) = 51
        BY <3>1 DEF Ops, Major
      <3> QED
        BY <1>8, <3>1, <3>2
    <2> QED
      BY <2>2, <2>3, <2>4
  <1>9. CASE opcode(w) = 15
    <2>1. Decode(w) = OpFence(w)
      BY <1>9 DEF Decode
    <2>2. Decode(w) \in {"fence", "fencei"} /\ funct3(w) = Funct3(Decode(w))
      BY <2>1 DEF OpFence, Funct3
    <2>3. Decode(w) \in Ops /\ Major(Decode(w)) = 15
      BY <2>2 DEF Ops, Major
    <2> QED
      BY <1>9, <2>2, <2>3
  <1>10. CASE opcode(w) = 115
    <2>1. Decode(w) = OpSystem(w)
      BY <1>10 DEF Decode
    <2>2. /\ funct3(w) = 0 /\ rd(w) = 0 /\ rs1(w) = 0
          /\ \/ Decode(w) = "ecall" /\ funct12(w) = 0
             \/ Decode(w) = "ebreak" /\ funct12(w) = 1
      BY <2>1 DEF OpSystem
    <2>3. Decode(w) \in Ops /\ Major(Decode(w)) = 115 /\ Funct3(Decode(w)) = 0
      BY <2>2 DEF Ops, Major, Funct3
    <2> QED
      BY <1>10, <2>2, <2>3
  <1> QED
    BY <1>1, <1>2, <1>3, <1>4, <1>5, <1>6, <1>7, <1>8, <1>9, <1>10

\* A word that matches no operation is illegal.
LEMMA IllegalIs ==
  ASSUME NEW w, \A op \in Ops : ~Matches(w, op)
  PROVE  Insn(w).op = "illegal"
  <1> DEFINE op == Decode(w)
  <1>1. Insn(w).op = op
    BY DEF Insn, Fields
  <1> SUFFICES ASSUME op # "illegal" PROVE FALSE
    BY <1>1
  <1>2. /\ op \in Ops
        /\ opcode(w) = Major(op)
        /\ Major(op) \notin {55, 23, 111} => funct3(w) = Funct3(op)
        /\ op \in {"srli", "srai", "add", "sub", "srl", "sra"} => funct7(w) = Funct7(op)
        /\ Major(op) = 115 =>
             rd(w) = 0 /\ rs1(w) = 0 /\ funct12(w) = IF op = "ebreak" THEN 1 ELSE 0
    BY DecodeTells
  <1> HIDE DEF op
  <1>3. w \cap (0 .. 6) = Put(Major(op), 0)
    BY <1>2, FieldPut DEF opcode
  <1>4. Major(op) \notin {55, 23, 111} => w \cap (12 .. 14) = Put(Funct3(op), 12)
    BY <1>2, FieldPut DEF funct3
  <1>5. op \in {"srli", "srai", "add", "sub", "srl", "sra"} =>
          w \cap (25 .. 31) = Put(Funct7(op), 25)
    BY <1>2, FieldPut DEF funct7
  <1>6. ASSUME Major(op) = 115
        PROVE  w \cap ((7 .. 11) \cup (15 .. 31)) = IF op = "ebreak" THEN {20} ELSE {}
    <2>1. /\ w \cap (7 .. 11) = Put(0, 7)
          /\ w \cap (15 .. 19) = Put(0, 15)
          /\ w \cap (20 .. 31) = Put(IF op = "ebreak" THEN 1 ELSE 0, 20)
      BY <1>2, <1>6, FieldPut DEF rd, rs1, funct12
    <2>2. \A l : Put(0, l) = {}
      <3>1. Shr(0, 0) = 0
        BY ShrDef
      <3>2. \A k \in 0 .. 31 : ~BitOf(0, k)
        BY <3>1, ShrZero
      <3> QED
        BY <3>2 DEF Put, Bits
    <2>3. Put(1, 20) = {20}
      <3>1. Shr(1, 0) = 1 /\ Shr(1, 1) = 0
        BY ShrDiv
      <3>2. BitOf(1, 0)
        BY <3>1 DEF BitOf
      <3>3. \A k \in 0 .. 31 : k >= 1 => ~BitOf(1, k)
        BY <3>1, ShrZero
      <3>4. Bits(1) = {0}
        BY <3>2, <3>3 DEF Bits
      <3> QED
        BY <3>4 DEF Put
    <2>4. w \cap ((7 .. 11) \cup (15 .. 31)) =
            (w \cap (7 .. 11)) \cup (w \cap (15 .. 19)) \cup (w \cap (20 .. 31))
      <3>1. 15 .. 31 = (15 .. 19) \cup (20 .. 31)
        OBVIOUS
      <3> QED
        BY <3>1
    <2> QED
      BY <2>1, <2>2, <2>3, <2>4
  <1>7. Matches(w, op)
    BY <1>3, <1>4, <1>5, <1>6 DEF Matches
  <1> QED
    BY <1>2, <1>7

-----------------------------------------------------------------------------
(* Translation *)

\* What holds of insn, the instruction decoded last.
Decoded(a) == IF a.op = "illegal" THEN insn.op = "illegal" ELSE insn = a

\* The instruction translated next is one of the program, and the one decoded
\* last was decoded right.  It is the one at insn_ip after a panic, and the
\* one before it otherwise.
DInv ==
  /\ prog \in Programs
  /\ insn_ip \in Int /\ insn_ip >= Entry /\ (insn_ip - Entry) % 4 = 0
  /\ phase = "translate" => insn_ip < BoundaryIp
  /\ insn # NoInsn => Decoded(AsmAt(IF phase = "panic" THEN insn_ip ELSE insn_ip - 4))

\* The word read is that of an instruction of the program, and is decoded
\* right.
LEMMA DecodeNext ==
  ASSUME DInv, phase = "translate"
  PROVE  LET a == AsmAt(insn_ip)
         IN  IF a.op = "illegal" THEN Insn(Word).op = "illegal" ELSE Insn(Word) = a
  <1> DEFINE k == (insn_ip - Entry) \div 4 + 1
             a == AsmAt(insn_ip)
  <1>0. /\ Entry \in Int /\ prog \in Seq(Range(prog))
        /\ \A j \in DOMAIN prog : Wellformed(prog[j])
    BY FrontendAssumption DEF DInv
  <1>1. k \in 1 .. Len(prog)
    <2> DEFINE d == insn_ip - Entry
               L == Len(prog)
    <2>1. L \in Nat
      BY <1>0
    <2>2. d \in Nat /\ d < 4 * L
      <3> HIDE DEF L
      <3>1. BoundaryIp = Entry + 4 * L
        BY DEF BoundaryIp, L
      <3> QED
        BY <1>0, <2>1, <3>1 DEF DInv
    <2> HIDE DEF d, L
    <2>3. d \div 4 \in Nat /\ d \div 4 < L
      BY <2>1, <2>2
    <2>4. d \div 4 + 1 \in 1 .. L
      BY <2>1, <2>3
    <2> QED
      BY <2>4 DEF d, L
  <1>2. DOMAIN prog = 1 .. Len(prog)
    BY <1>0
  <1>3. Wellformed(a)
    <2>1. a = prog[k]
      BY DEF AsmAt
    <2> HIDE DEF k, a
    <2> QED
      BY <1>0, <1>1, <1>2, <2>1
  <1>4. Word = Assemble(a)
    BY DEF Word
  <1> HIDE DEF a, k
  <1>5. CASE a.op = "illegal"
    <2>1. Assemble(a) = a.word
      BY <1>5 DEF Assemble
    <2>2. \A op \in Ops : ~Matches(a.word, op)
      BY <1>3, <1>5 DEF Wellformed
    <2>3. Insn(a.word).op = "illegal"
      BY <2>2, IllegalIs
    <2> QED
      BY <1>4, <1>5, <2>1, <2>3 DEF a
  <1>6. CASE a.op # "illegal"
    <2>1. Insn(Assemble(a)) = a
      BY <1>3, <1>6, InsnIs
    <2> QED
      BY <1>4, <1>6, <2>1 DEF a
  <1> QED
    BY <1>5, <1>6

LEMMA DInvInit == Init => DInv
  <1> SUFFICES ASSUME Init PROVE DInv
    OBVIOUS
  <1>1. prog \in Programs /\ insn_ip = Entry /\ insn = NoInsn
    BY DEF Init
  <1>2. Entry \in Int /\ prog \in Seq(Range(prog)) /\ Len(prog) > 0
    BY <1>1, FrontendAssumption
  <1>3. insn_ip < BoundaryIp
    <2>1. Len(prog) \in Nat
      BY <1>2
    <2> QED
      BY <1>1, <1>2, <2>1 DEF BoundaryIp
  <1>4. (insn_ip - Entry) % 4 = 0
    BY <1>1, <1>2
  <1> QED
    BY <1>1, <1>2, <1>3, <1>4 DEF DInv

LEMMA TranslateDInv ==
  ASSUME DInv, Translate
  PROVE  DInv'
  <1>1. /\ phase = "translate" /\ insn' = Insn(Word) /\ insn'.op # "illegal"
        /\ insn_ip' = insn_ip + 4 /\ prog' = prog
        /\ IF Stops(insn') \/ Overflows(insn') THEN phase' = "select" ELSE phase' = phase
    BY DEF Translate
  <1>2. Entry \in Int /\ insn_ip \in Int /\ insn_ip >= Entry /\ (insn_ip - Entry) % 4 = 0
    BY FrontendAssumption DEF DInv
  <1>3. insn_ip' \in Int /\ insn_ip' >= Entry /\ (insn_ip' - Entry) % 4 = 0
    BY <1>1, <1>2
  <1>4. phase' = "translate" => insn_ip' < BoundaryIp'
    <2> SUFFICES ASSUME phase' = "translate" PROVE insn_ip' < BoundaryIp'
      OBVIOUS
    <2>1. ~RangeEnds(insn_ip + 4)
      BY <1>1 DEF Overflows
    <2>2. ~(insn_ip + 4 >= BoundaryIp)
      BY <2>1 DEF RangeEnds
    <2>3. BoundaryIp' = BoundaryIp
      BY <1>1 DEF BoundaryIp
    <2>4. BoundaryIp \in Int
      <3>1. prog \in Seq(Range(prog))
        BY FrontendAssumption DEF DInv
      <3>2. Len(prog) \in Nat
        BY <3>1
      <3> QED
        BY <1>2, <3>2 DEF BoundaryIp
    <2> QED
      BY <1>1, <1>2, <2>2, <2>3, <2>4
  <1>5. Decoded(AsmAt(IF phase = "panic" THEN insn_ip ELSE insn_ip - 4))'
    <2>1. phase' # "panic"
      BY <1>1
    <2>2. AsmAt(insn_ip - 4)' = AsmAt(insn_ip)
      <3>1. insn_ip' - 4 = insn_ip
        BY <1>1, <1>2
      <3> QED
        BY <1>1, <3>1 DEF AsmAt
    <2>3. IF AsmAt(insn_ip).op = "illegal" THEN insn'.op = "illegal" ELSE insn' = AsmAt(insn_ip)
      BY <1>1, DecodeNext
    <2> QED
      BY <2>1, <2>2, <2>3 DEF Decoded
  <1>6. prog' \in Programs
    BY <1>1 DEF DInv
  <1> QED
    BY <1>3, <1>4, <1>5, <1>6 DEF DInv

LEMMA TranslateIllegalDInv ==
  ASSUME DInv, TranslateIllegal
  PROVE  DInv'
  <1>1. /\ phase = "translate" /\ insn' = Insn(Word) /\ insn'.op = "illegal"
        /\ insn_ip' = insn_ip /\ prog' = prog /\ phase' = "panic"
    BY DEF TranslateIllegal
  <1>2. IF AsmAt(insn_ip).op = "illegal" THEN insn'.op = "illegal" ELSE insn' = AsmAt(insn_ip)
    BY <1>1, DecodeNext
  <1>3. AsmAt(insn_ip)' = AsmAt(insn_ip)
    BY <1>1 DEF AsmAt
  <1>4. Decoded(AsmAt(IF phase = "panic" THEN insn_ip ELSE insn_ip - 4))'
    BY <1>1, <1>2, <1>3 DEF Decoded
  <1> QED
    BY <1>1, <1>4 DEF DInv

\* Nothing after translation touches what was decoded.
LEMMA LaterDInv ==
  ASSUME DInv, UNCHANGED <<prog, insn_ip, insn>>, phase' = "translate" => phase = "translate",
         phase' = "panic" <=> phase = "panic"
  PROVE  DInv'
  <1>1. AsmAt(IF phase = "panic" THEN insn_ip ELSE insn_ip - 4)' =
          AsmAt(IF phase = "panic" THEN insn_ip ELSE insn_ip - 4)
    BY DEF AsmAt
  <1>2. BoundaryIp' = BoundaryIp
    BY DEF BoundaryIp
  <1> QED
    BY <1>1, <1>2 DEF DInv, Decoded

LEMMA DInvNext == DInv /\ [Next]_vars => DInv'
  <1> SUFFICES ASSUME DInv, [Next]_vars PROVE DInv'
    OBVIOUS
  <1>1. CASE Translate
    BY <1>1, TranslateDInv
  <1>2. CASE TranslateIllegal
    BY <1>2, TranslateIllegalDInv
  <1>3. CASE PassVisit \/ PassNextBlock \/ PassEnd
    BY <1>3, LaterDInv DEF PassVisit, PassNextBlock, PassEnd, Passes
  <1>4. CASE EmitInst \/ EmitEnd
    BY <1>4, LaterDInv DEF EmitInst, EmitEnd
  <1>5. CASE RunLabel \/ RunOp \/ RunJmp \/ RunJccTaken \/ RunJccNot \/ Leave
    BY <1>5, LaterDInv DEF RunLabel, RunOp, RunJmp, RunJccTaken, RunJccNot, Leave, AtHost, GoTo
  <1>6. CASE Finished \/ UNCHANGED vars
    BY <1>6, LaterDInv DEF Finished, vars
  <1> QED
    BY <1>1, <1>2, <1>3, <1>4, <1>5, <1>6 DEF Next

\* Whatever words the guest's code consists of, the decoder reads back what
\* the assembler wrote (Decoder::Decode, the formats of rv32_insn.h and the
\* bf_range and bf_seq they are made of): every operation, every register
\* and every immediate, and refuses each word that matches no operation.
THEOREM DecoderCorrect == Spec => []DecodeMatchesAsm
  <1>1. DInv => DecodeMatchesAsm
    BY DEF DInv, Decoded, DecodeMatchesAsm
  <1> QED
    BY <1>1, DInvInit, DInvNext, PTL DEF Spec

-----------------------------------------------------------------------------
(* Rings and the lists they hold *)

\* The links of r are between the nodes N.
Ring(r, N) == DOMAIN r.next = N /\ DOMAIN r.prev = N

\* Node k of the list c behind sentinel s, which stands at both ends.
Node(s, c, k) == IF k \in 1 .. Len(c) THEN c[k] ELSE s

Pos == Nat \ {0}

\* c lists nodes of N, none of them twice; s is a sentinel.
List(N, s, c) ==
  /\ c \in Seq(Pos) /\ s \in Int /\ s <= 0 /\ s \in N
  /\ \A k \in 1 .. Len(c) : c[k] \in N
  /\ \A j, k \in 1 .. Len(c) : c[j] = c[k] => j = k

\* Each node leads to the next one, and back.
Chained(r, s, c) ==
  \A k \in 0 .. Len(c) : /\ r.next[Node(s, c, k)] = Node(s, c, k + 1)
                         /\ r.prev[Node(s, c, k + 1)] = Node(s, c, k)

Chain(r, N, s, c) == Ring(r, N) /\ List(N, s, c) /\ Chained(r, s, c)

\* The two lists have no node in common.
Apart(s, c, t, d) ==
  /\ s # t
  /\ \A j \in 1 .. Len(c), k \in 1 .. Len(d) : c[j] # d[k]

LEMMA NodeFacts ==
  ASSUME NEW N, NEW s, NEW c, List(N, s, c)
  PROVE  /\ Len(c) \in Nat
         /\ Node(s, c, 0) = s /\ Node(s, c, Len(c) + 1) = s
         /\ \A k \in 1 .. Len(c) : Node(s, c, k) = c[k] /\ c[k] \in Pos /\ c[k] # s
         /\ \A k \in Int : Node(s, c, k) \in N
         /\ \A j, k \in 1 .. Len(c) : Node(s, c, j) = Node(s, c, k) => j = k
  <1>1. Len(c) \in Nat /\ \A k \in 1 .. Len(c) : c[k] \in Pos
    BY DEF List
  <1> QED
    BY <1>1 DEF List, Node, Pos

\* q is r with n between p and nx.
Between(q, r, N, p, nx, n) ==
  /\ Ring(q, N \cup {n})
  /\ \A x \in N \cup {n} :
       /\ q.next[x] = IF x = p THEN n ELSE IF x = n THEN nx ELSE r.next[x]
       /\ q.prev[x] = IF x = nx THEN n ELSE IF x = n THEN p ELSE r.prev[x]

\* The new links of IListBase::insertBefore.
LEMMA InsertLinks ==
  ASSUME NEW r, NEW N, Ring(r, N), NEW nx \in N, NEW n, n \notin N,
         NEW p \in N, r.prev[nx] = p
  PROVE  Between(InsertBefore(r, nx, n), r, N, p, nx, n)
  BY DEF InsertBefore, Point, Ring, Between

\* And of IListBase::remove.
LEMMA UnlinkLinks ==
  ASSUME NEW r, NEW N, Ring(r, N), NEW n \in N
  PROVE  /\ Ring(Unlink(r, n), N)
         /\ \A x \in N :
              /\ Unlink(r, n).next[x] = IF x = r.prev[n] THEN r.next[n] ELSE r.next[x]
              /\ Unlink(r, n).prev[x] = IF x = r.next[n] THEN r.prev[n] ELSE r.prev[x]
  BY DEF Unlink, Ring

\* n put in front of element k.
Ins(c, k, n) ==
  [j \in 1 .. Len(c) + 1 |-> IF j < k THEN c[j] ELSE IF j = k THEN n ELSE c[j - 1]]

\* d is c with n in front of element k.
Ahead(d, s, c, k, n) ==
  /\ Len(d) = Len(c) + 1
  /\ \A j \in 0 .. Len(c) + 2 :
       Node(s, d, j) =
         IF j < k THEN Node(s, c, j) ELSE IF j = k THEN n ELSE Node(s, c, j - 1)

LEMMA InsFacts ==
  ASSUME NEW N, NEW s, NEW c, List(N, s, c), NEW k \in 1 .. Len(c) + 1,
         NEW n \in Pos, n \notin N
  PROVE  List(N \cup {n}, s, Ins(c, k, n)) /\ Ahead(Ins(c, k, n), s, c, k, n)
  <1> DEFINE d == Ins(c, k, n)
  <1>0. Len(c) \in Nat /\ c \in Seq(Pos)
    BY DEF List
  <1>1. \A j \in 1 .. Len(c) + 1 :
          d[j] = (IF j < k THEN c[j] ELSE IF j = k THEN n ELSE c[j - 1]) /\ d[j] \in Pos
    BY <1>0 DEF Ins
  <1>2. d \in Seq(Pos) /\ Len(d) = Len(c) + 1
    <2>1. d \in [1 .. Len(c) + 1 -> Pos]
      BY <1>1 DEF Ins
    <2>2. Len(c) + 1 \in Nat
      BY <1>0
    <2> HIDE DEF d
    <2> QED
      BY <2>1, <2>2
  <1>a. /\ \A i \in 1 .. Len(c) : c[i] \in N
        /\ \A j, i \in 1 .. Len(c) : c[j] = c[i] => j = i
    BY DEF List
  <1> HIDE DEF d
  <1>b. \A j \in 1 .. Len(c) + 1 : \/ j < k /\ j \in 1 .. Len(c) /\ d[j] = c[j]
                                   \/ j = k /\ d[j] = n
                                   \/ j > k /\ j - 1 \in 1 .. Len(c) /\ d[j] = c[j - 1]
    BY <1>0, <1>1
  <1>3. ASSUME NEW j \in 1 .. Len(d), NEW i \in 1 .. Len(d), d[j] = d[i]
        PROVE  j = i
    <2>1. j \in 1 .. Len(c) + 1 /\ i \in 1 .. Len(c) + 1
      BY <1>2
    <2>2. CASE j = k \/ i = k
      BY SMTT(30), <1>0, <1>3, <1>a, <1>b, <2>1, <2>2
    <2>3. CASE j # k /\ i # k
      <3>1. PICK a \in 1 .. Len(c) : d[j] = c[a] /\ ((a = j /\ j < k) \/ (a = j - 1 /\ j > k))
        BY <1>0, <1>b, <2>1, <2>3
      <3>2. PICK b \in 1 .. Len(c) : d[i] = c[b] /\ ((b = i /\ i < k) \/ (b = i - 1 /\ i > k))
        BY <1>0, <1>b, <2>1, <2>3
      <3>3. a = b
        BY <1>3, <1>a, <3>1, <3>2
      <3> QED
        BY <1>0, <3>1, <3>2, <3>3
    <2> QED
      BY <2>2, <2>3
  <1>4. \A j \in 1 .. Len(d) : d[j] \in N \cup {n}
    BY <1>2, <1>a, <1>b
  <1>5. List(N \cup {n}, s, d)
    <2> HIDE DEF d
    <2> QED
      BY <1>2, <1>3, <1>4 DEF List
  <1>6. \A j \in 0 .. Len(c) + 2 :
          Node(s, d, j) = IF j < k THEN Node(s, c, j) ELSE IF j = k THEN n ELSE Node(s, c, j - 1)
    <2> HIDE DEF d
    <2> QED
      BY <1>0, <1>1, <1>2 DEF Node
  <1> QED
    BY <1>2, <1>5, <1>6 DEF Ahead, d

\* Inserting in front of element k of a list, or of its end, does that to it.
LEMMA InsertChain ==
  ASSUME NEW r, NEW N, NEW s, NEW c, Chain(r, N, s, c), NEW k \in 1 .. Len(c) + 1,
         NEW n \in Pos, n \notin N
  PROVE  Chain(InsertBefore(r, Node(s, c, k), n), N \cup {n}, s, Ins(c, k, n))
  <1> DEFINE nx == Node(s, c, k)
             r2 == InsertBefore(r, nx, n)
             d == Ins(c, k, n)
  <1>0. Ring(r, N) /\ List(N, s, c) /\ Chained(r, s, c) /\ Len(c) \in Nat
    BY NodeFacts DEF Chain
  <1>1. /\ Node(s, c, 0) = s /\ Node(s, c, Len(c) + 1) = s
        /\ \A j \in 1 .. Len(c) : Node(s, c, j) # s
        /\ \A j \in Int : Node(s, c, j) \in N
        /\ \A j, i \in 1 .. Len(c) : Node(s, c, j) = Node(s, c, i) => j = i
    BY <1>0, NodeFacts
  <1>2. r.prev[nx] = Node(s, c, k - 1) /\ nx \in N /\ r.prev[nx] \in N
    <2>1. k - 1 \in 0 .. Len(c) /\ (k - 1) + 1 = k /\ k \in Int /\ k - 1 \in Int
      BY <1>0
    <2> QED
      BY <1>0, <1>1, <2>1 DEF Chained
  <1>3. /\ Ring(r2, N \cup {n})
        /\ \A x \in N \cup {n} :
              /\ r2.next[x] = IF x = Node(s, c, k - 1) THEN n ELSE IF x = n THEN nx ELSE r.next[x]
              /\ r2.prev[x] = IF x = nx THEN n ELSE IF x = n THEN Node(s, c, k - 1) ELSE r.prev[x]
    <2> HIDE DEF nx
    <2>1. Between(r2, r, N, Node(s, c, k - 1), nx, n)
      BY <1>0, <1>2, InsertLinks
    <2> HIDE DEF r2
    <2> QED
      BY <2>1 DEF Between
  <1>4. /\ List(N \cup {n}, s, d) /\ Len(d) = Len(c) + 1
        /\ \A j \in 0 .. Len(c) + 2 :
              Node(s, d, j) =
                IF j < k THEN Node(s, c, j) ELSE IF j = k THEN n ELSE Node(s, c, j - 1)
    <2>1. List(N \cup {n}, s, d) /\ Ahead(d, s, c, k, n)
      BY <1>0, InsFacts
    <2> HIDE DEF d
    <2> QED
      BY <2>1 DEF Ahead
  <1> HIDE DEF r2, d
  <1>5. ASSUME NEW j \in 0 .. Len(d)
        PROVE  r2.next[Node(s, d, j)] = Node(s, d, j + 1)
    <2>1. CASE j < k - 1
      <3>1. Node(s, d, j) = Node(s, c, j) /\ Node(s, d, j + 1) = Node(s, c, j + 1)
        BY <1>0, <1>4, <2>1
      <3>2. Node(s, c, j) # Node(s, c, k - 1) /\ Node(s, c, j) \in N
        <4>1. k - 1 \in 1 .. Len(c)
          BY <1>0, <2>1
        <4>2. CASE j = 0
          BY <1>1, <4>1, <4>2
        <4>3. CASE j # 0
          <5>1. j \in 1 .. Len(c)
            BY <1>0, <2>1, <4>3
          <5> QED
            BY <1>1, <2>1, <4>1, <5>1
        <4> QED
          BY <4>2, <4>3
      <3>3. r.next[Node(s, c, j)] = Node(s, c, j + 1)
        BY <1>0, <2>1 DEF Chained
      <3> QED
        BY <1>3, <3>1, <3>2, <3>3
    <2>2. CASE j = k - 1
      <3>1. Node(s, d, j) = Node(s, c, k - 1) /\ Node(s, d, j + 1) = n
        BY <1>0, <1>4, <2>2
      <3> QED
        BY <1>1, <1>3, <3>1
    <2>3. CASE j = k
      <3>1. Node(s, d, j) = n /\ Node(s, d, j + 1) = Node(s, c, k)
        <4>1. j + 1 \in 0 .. Len(c) + 2 /\ (j + 1) - 1 = k /\ ~(j + 1 < k) /\ j + 1 # k
          BY <1>0, <2>3
        <4> QED
          BY <1>0, <1>4, <2>3, <4>1
      <3> QED
        BY <1>1, <1>3, <3>1
    <2>4. CASE j > k
      <3>1. Node(s, d, j) = Node(s, c, j - 1) /\ Node(s, d, j + 1) = Node(s, c, j)
        <4>1. j + 1 \in 0 .. Len(c) + 2 /\ (j + 1) - 1 = j /\ ~(j + 1 < k) /\ j + 1 # k
          BY <1>0, <1>4, <2>4
        <4> QED
          BY <1>0, <1>4, <2>4, <4>1
      <3>2. Node(s, c, j - 1) # Node(s, c, k - 1) /\ Node(s, c, j - 1) \in N
        <4>1. j - 1 \in 1 .. Len(c) /\ j - 1 # k - 1
          BY <1>0, <1>4, <2>4
        <4>2. CASE k - 1 = 0
          BY <1>1, <4>1, <4>2
        <4>3. CASE k - 1 # 0
          <5>1. k - 1 \in 1 .. Len(c)
            BY <1>0, <4>3
          <5> QED
            BY <1>1, <4>1, <5>1
        <4> QED
          BY <4>2, <4>3
      <3>3. r.next[Node(s, c, j - 1)] = Node(s, c, j)
        <4>1. j - 1 \in 0 .. Len(c) /\ (j - 1) + 1 = j
          BY <1>0, <1>4, <2>4
        <4> QED
          BY <1>0, <4>1 DEF Chained
      <3> QED
        BY <1>3, <3>1, <3>2, <3>3
    <2> QED
      BY <1>0, <2>1, <2>2, <2>3, <2>4
  <1>6. ASSUME NEW j \in 0 .. Len(d)
        PROVE  r2.prev[Node(s, d, j + 1)] = Node(s, d, j)
    <2>1. CASE j + 1 < k
      <3>1. Node(s, d, j) = Node(s, c, j) /\ Node(s, d, j + 1) = Node(s, c, j + 1)
        BY <1>0, <1>4, <2>1
      <3>2. Node(s, c, j + 1) # nx /\ Node(s, c, j + 1) \in N
        <4>1. j + 1 \in 1 .. Len(c) /\ j + 1 # k
          BY <1>0, <2>1
        <4>2. CASE k = Len(c) + 1
          BY <1>1, <4>1, <4>2
        <4>3. CASE k # Len(c) + 1
          <5>1. k \in 1 .. Len(c)
            BY <1>0, <4>3
          <5> QED
            BY <1>1, <4>1, <5>1
        <4> QED
          BY <4>2, <4>3
      <3>3. r.prev[Node(s, c, j + 1)] = Node(s, c, j)
        BY <1>0, <2>1 DEF Chained
      <3> QED
        BY <1>3, <3>1, <3>2, <3>3
    <2>2. CASE j + 1 = k
      <3>1. Node(s, d, j) = Node(s, c, k - 1) /\ Node(s, d, j + 1) = n
        BY <1>0, <1>4, <2>2
      <3> QED
        BY <1>1, <1>2, <1>3, <3>1
    <2>3. CASE j = k
      <3>1. Node(s, d, j) = n /\ Node(s, d, j + 1) = nx
        <4>1. j + 1 \in 0 .. Len(c) + 2 /\ (j + 1) - 1 = k /\ ~(j + 1 < k) /\ j + 1 # k
          BY <1>0, <2>3
        <4> QED
          BY <1>0, <1>4, <2>3, <4>1
      <3> QED
        BY <1>2, <1>3, <3>1
    <2>4. CASE j > k
      <3>1. Node(s, d, j) = Node(s, c, j - 1) /\ Node(s, d, j + 1) = Node(s, c, j)
        <4>1. j + 1 \in 0 .. Len(c) + 2 /\ (j + 1) - 1 = j /\ ~(j + 1 < k) /\ j + 1 # k
          BY <1>0, <1>4, <2>4
        <4> QED
          BY <1>0, <1>4, <2>4, <4>1
      <3>2. Node(s, c, j) # nx /\ Node(s, c, j) \in N
        <4>1. k \in 1 .. Len(c) /\ j # k /\ j \in 1 .. Len(c) + 1
          BY <1>0, <1>4, <2>4
        <4>2. CASE j = Len(c) + 1
          BY <1>1, <4>1, <4>2
        <4>3. CASE j # Len(c) + 1
          <5>1. j \in 1 .. Len(c)
            BY <1>0, <4>1, <4>3
          <5> QED
            BY <1>1, <4>1, <5>1
        <4> QED
          BY <4>2, <4>3
      <3>3. r.prev[Node(s, c, j)] = Node(s, c, j - 1)
        <4>1. j - 1 \in 0 .. Len(c) /\ (j - 1) + 1 = j
          BY <1>0, <1>4, <2>4
        <4> QED
          BY <1>0, <4>1 DEF Chained
      <3> QED
        BY <1>3, <3>1, <3>2, <3>3
    <2> QED
      BY <1>0, <2>1, <2>2, <2>3, <2>4
  <1>7. Chained(r2, s, d)
    BY <1>5, <1>6 DEF Chained
  <1> QED
    BY <1>3, <1>4, <1>7 DEF Chain, r2, d

\* Lists that have no node in common with the one that is changed stay.
LEMMA InsertOther ==
  ASSUME NEW r, NEW N, NEW s, NEW c, Chain(r, N, s, c), NEW k \in 1 .. Len(c) + 1,
         NEW n \in Pos, n \notin N,
         NEW t, NEW e, Chain(r, N, t, e), Apart(s, c, t, e)
  PROVE  Chain(InsertBefore(r, Node(s, c, k), n), N \cup {n}, t, e)
  <1> DEFINE nx == Node(s, c, k)
             p == Node(s, c, k - 1)
             r2 == InsertBefore(r, nx, n)
  <1>0. Ring(r, N) /\ List(N, s, c) /\ Chained(r, s, c) /\ Len(c) \in Nat /\ List(N, t, e)
    BY NodeFacts DEF Chain
  <1>1. nx \in N /\ p \in N /\ r.prev[nx] = p
    <2>1. k - 1 \in 0 .. Len(c) /\ (k - 1) + 1 = k /\ k \in Int /\ k - 1 \in Int
      BY <1>0
    <2> QED
      BY <1>0, <2>1, NodeFacts DEF Chained
  <1>2. Between(r2, r, N, p, nx, n)
    <2> HIDE DEF nx, p
    <2> QED
      BY <1>0, <1>1, InsertLinks
  <1>3. \A j \in Int : Node(t, e, j) \in N /\ Node(t, e, j) # nx /\ Node(t, e, j) # p
    <2> SUFFICES ASSUME NEW j \in Int, NEW i \in Int
                 PROVE  Node(t, e, j) \in N /\ Node(t, e, j) # Node(s, c, i)
      <3>1. k \in Int /\ k - 1 \in Int
        BY <1>0
      <3> QED
        BY <3>1
    <2>1. Node(t, e, j) \in N
      BY <1>0, NodeFacts
    <2>2. /\ s \in Int /\ s <= 0 /\ t \in Int /\ t <= 0 /\ s # t
          /\ \A x \in 1 .. Len(c) : c[x] \in Pos
          /\ \A x \in 1 .. Len(e) : e[x] \in Pos
          /\ \A x \in 1 .. Len(c), y \in 1 .. Len(e) : c[x] # e[y]
      BY <1>0, NodeFacts DEF Apart, List
    <2>3. Node(t, e, j) # Node(s, c, i)
      BY <2>2 DEF Node, Pos
    <2> QED
      BY <2>1, <2>3
  <1> HIDE DEF r2, nx, p
  <1>4. Chained(r2, t, e)
    <2> SUFFICES ASSUME NEW j \in 0 .. Len(e)
                 PROVE  /\ r2.next[Node(t, e, j)] = Node(t, e, j + 1)
                        /\ r2.prev[Node(t, e, j + 1)] = Node(t, e, j)
      BY DEF Chained
    <2>1. j \in Int /\ j + 1 \in Int
      OBVIOUS
    <2>2. r.next[Node(t, e, j)] = Node(t, e, j + 1) /\ r.prev[Node(t, e, j + 1)] = Node(t, e, j)
      BY DEF Chain, Chained
    <2>3. \A x \in N : x # nx /\ x # p => r2.next[x] = r.next[x] /\ r2.prev[x] = r.prev[x]
      BY <1>2 DEF Between
    <2> QED
      BY <1>3, <2>1, <2>2, <2>3
  <1>5. List(N \cup {n}, t, e)
    BY <1>0 DEF List
  <1>6. Ring(r2, N \cup {n})
    BY <1>2 DEF Between
  <1> QED
    BY <1>4, <1>5, <1>6 DEF Chain, r2, nx

\* Element k taken out.
Del(c, k) == [j \in 1 .. Len(c) - 1 |-> IF j < k THEN c[j] ELSE c[j + 1]]

LEMMA DelFacts ==
  ASSUME NEW N, NEW s, NEW c, List(N, s, c), NEW k \in 1 .. Len(c)
  PROVE  /\ List(N, s, Del(c, k)) /\ Len(Del(c, k)) = Len(c) - 1
         /\ \A j \in 0 .. Len(c) :
              Node(s, Del(c, k), j) = IF j < k THEN Node(s, c, j) ELSE Node(s, c, j + 1)
  <1> DEFINE d == Del(c, k)
  <1>0. Len(c) \in Nat /\ c \in Seq(Pos) /\ Len(c) - 1 \in Nat
    BY DEF List
  <1>1. \A j \in 1 .. Len(c) - 1 : d[j] = (IF j < k THEN c[j] ELSE c[j + 1]) /\ d[j] \in Pos
    BY <1>0 DEF Del
  <1>2. d \in Seq(Pos) /\ Len(d) = Len(c) - 1
    <2>1. d \in [1 .. Len(c) - 1 -> Pos]
      BY <1>1 DEF Del
    <2> HIDE DEF d
    <2> QED
      BY <1>0, <2>1
  <1>a. /\ \A i \in 1 .. Len(c) : c[i] \in N
        /\ \A j, i \in 1 .. Len(c) : c[j] = c[i] => j = i
    BY DEF List
  <1> HIDE DEF d
  <1>b. ASSUME NEW j \in 1 .. Len(d)
        PROVE  \E a \in 1 .. Len(c) : d[j] = c[a] /\ ((a = j /\ j < k) \/ (a = j + 1 /\ j >= k))
    <2>1. CASE j < k
      <3>1. j \in 1 .. Len(c) /\ d[j] = c[j]
        BY <1>0, <1>1, <1>2, <2>1
      <3> QED
        BY <2>1, <3>1
    <2>2. CASE j >= k
      <3>1. j + 1 \in 1 .. Len(c) /\ d[j] = c[j + 1]
        BY <1>0, <1>1, <1>2, <2>2
      <3> QED
        BY <2>2, <3>1
    <2> QED
      BY <1>0, <2>1, <2>2
  <1>3. ASSUME NEW j \in 1 .. Len(d), NEW i \in 1 .. Len(d), d[j] = d[i]
        PROVE  j = i
    <2>1. PICK a \in 1 .. Len(c) : d[j] = c[a] /\ ((a = j /\ j < k) \/ (a = j + 1 /\ j >= k))
      BY <1>b
    <2>2. PICK b \in 1 .. Len(c) : d[i] = c[b] /\ ((b = i /\ i < k) \/ (b = i + 1 /\ i >= k))
      BY <1>b
    <2>3. a = b
      BY <1>3, <1>a, <2>1, <2>2
    <2> QED
      BY <1>0, <2>1, <2>2, <2>3
  <1>4. \A j \in 1 .. Len(d) : d[j] \in N
    <2> TAKE j \in 1 .. Len(d)
    <2>1. PICK a \in 1 .. Len(c) : d[j] = c[a]
      BY <1>0, <1>1, <1>2
    <2> QED
      BY <1>a, <2>1
  <1>5. List(N, s, d)
    BY <1>2, <1>3, <1>4 DEF List
  <1>6. \A j \in 0 .. Len(c) :
          Node(s, d, j) = IF j < k THEN Node(s, c, j) ELSE Node(s, c, j + 1)
    BY <1>0, <1>1, <1>2 DEF Node
  <1> QED
    BY <1>2, <1>5, <1>6 DEF d

\* Removing element k does that to the list.
LEMMA UnlinkChain ==
  ASSUME NEW r, NEW N, NEW s, NEW c, Chain(r, N, s, c), NEW k \in 1 .. Len(c)
  PROVE  Chain(Unlink(r, c[k]), N, s, Del(c, k))
  <1> DEFINE r2 == Unlink(r, c[k])
             d == Del(c, k)
  <1>0. Ring(r, N) /\ List(N, s, c) /\ Chained(r, s, c) /\ Len(c) \in Nat /\ k \in Int
    BY NodeFacts DEF Chain
  <1>1. /\ Node(s, c, 0) = s /\ Node(s, c, Len(c) + 1) = s /\ Node(s, c, k) = c[k]
        /\ \A j \in 1 .. Len(c) : Node(s, c, j) # s
        /\ \A j \in Int : Node(s, c, j) \in N
        /\ \A j, i \in 1 .. Len(c) : Node(s, c, j) = Node(s, c, i) => j = i
    BY <1>0, NodeFacts
  <1>2. r.prev[c[k]] = Node(s, c, k - 1) /\ r.next[c[k]] = Node(s, c, k + 1)
    <2>1. k - 1 \in 0 .. Len(c) /\ (k - 1) + 1 = k /\ k \in 0 .. Len(c)
      BY <1>0
    <2> QED
      BY <1>0, <1>1, <2>1 DEF Chained
  <1>3. /\ Ring(r2, N)
        /\ \A x \in N :
              /\ r2.next[x] = IF x = Node(s, c, k - 1) THEN Node(s, c, k + 1) ELSE r.next[x]
              /\ r2.prev[x] = IF x = Node(s, c, k + 1) THEN Node(s, c, k - 1) ELSE r.prev[x]
    <2>1. c[k] \in N
      BY <1>1
    <2> QED
      BY <1>0, <1>2, <2>1, UnlinkLinks
  <1>4. /\ List(N, s, d) /\ Len(d) = Len(c) - 1
        /\ \A j \in 0 .. Len(c) :
              Node(s, d, j) = IF j < k THEN Node(s, c, j) ELSE Node(s, c, j + 1)
    BY <1>0, DelFacts
  <1> HIDE DEF r2, d
  <1>5. ASSUME NEW j \in 0 .. Len(d)
        PROVE  r2.next[Node(s, d, j)] = Node(s, d, j + 1)
    <2>0. j \in Int /\ j + 1 \in Int /\ j \in 0 .. Len(c) /\ j + 1 \in 0 .. Len(c)
      BY <1>0, <1>4
    <2>1. CASE j < k - 1
      <3>1. Node(s, d, j) = Node(s, c, j) /\ Node(s, d, j + 1) = Node(s, c, j + 1)
        BY <1>0, <1>4, <2>0, <2>1
      <3>2. Node(s, c, j) # Node(s, c, k - 1)
        <4>1. k - 1 \in 1 .. Len(c)
          BY <1>0, <2>1
        <4>2. CASE j = 0
          BY <1>1, <4>1, <4>2
        <4>3. CASE j # 0
          <5>1. j \in 1 .. Len(c)
            BY <1>0, <2>0, <4>3
          <5> QED
            BY <1>1, <2>1, <4>1, <5>1
        <4> QED
          BY <4>2, <4>3
      <3>3. r.next[Node(s, c, j)] = Node(s, c, j + 1) /\ Node(s, c, j) \in N
        BY <1>0, <1>1, <2>0 DEF Chained
      <3> QED
        BY <1>3, <3>1, <3>2, <3>3
    <2>2. CASE j = k - 1
      <3>1. Node(s, d, j) = Node(s, c, k - 1) /\ Node(s, d, j + 1) = Node(s, c, k + 1)
        BY <1>0, <1>4, <2>0, <2>2
      <3>2. k - 1 \in Int
        BY <1>0
      <3> QED
        BY <1>1, <1>3, <3>1, <3>2
    <2>3. CASE j >= k
      <3>1. Node(s, d, j) = Node(s, c, j + 1) /\ Node(s, d, j + 1) = Node(s, c, (j + 1) + 1)
        BY <1>0, <1>4, <2>0, <2>3
      <3>2. Node(s, c, j + 1) # Node(s, c, k - 1)
        <4>1. j + 1 \in 1 .. Len(c) /\ j + 1 # k - 1
          BY <1>0, <1>4, <2>0, <2>3
        <4>2. CASE k - 1 = 0
          BY <1>1, <4>1, <4>2
        <4>3. CASE k - 1 # 0
          <5>1. k - 1 \in 1 .. Len(c)
            BY <1>0, <4>3
          <5> QED
            BY <1>1, <4>1, <5>1
        <4> QED
          BY <4>2, <4>3
      <3>3. r.next[Node(s, c, j + 1)] = Node(s, c, (j + 1) + 1) /\ Node(s, c, j + 1) \in N
        BY <1>0, <1>1, <2>0 DEF Chained
      <3> QED
        BY <1>3, <3>1, <3>2, <3>3
    <2> QED
      BY <1>0, <2>0, <2>1, <2>2, <2>3
  <1>6. ASSUME NEW j \in 0 .. Len(d)
        PROVE  r2.prev[Node(s, d, j + 1)] = Node(s, d, j)
    <2>0. j \in Int /\ j + 1 \in Int /\ j \in 0 .. Len(c) /\ j + 1 \in 0 .. Len(c)
      BY <1>0, <1>4
    <2>1. CASE j + 1 < k
      <3>1. Node(s, d, j) = Node(s, c, j) /\ Node(s, d, j + 1) = Node(s, c, j + 1)
        BY <1>0, <1>4, <2>0, <2>1
      <3>2. Node(s, c, j + 1) # Node(s, c, k + 1)
        <4>1. j + 1 \in 1 .. Len(c) /\ j + 1 # k + 1
          BY <1>0, <2>0, <2>1
        <4>2. CASE k = Len(c)
          BY <1>1, <4>1, <4>2
        <4>3. CASE k # Len(c)
          <5>1. k + 1 \in 1 .. Len(c)
            BY <1>0, <4>3
          <5> QED
            BY <1>1, <4>1, <5>1
        <4> QED
          BY <4>2, <4>3
      <3>3. r.prev[Node(s, c, j + 1)] = Node(s, c, j) /\ Node(s, c, j + 1) \in N
        BY <1>0, <1>1, <2>0 DEF Chained
      <3> QED
        BY <1>3, <3>1, <3>2, <3>3
    <2>2. CASE j + 1 = k
      <3>1. Node(s, d, j) = Node(s, c, k - 1) /\ Node(s, d, j + 1) = Node(s, c, k + 1)
        BY <1>0, <1>4, <2>0, <2>2
      <3>2. k + 1 \in Int
        BY <1>0
      <3> QED
        BY <1>1, <1>3, <3>1, <3>2
    <2>3. CASE j >= k
      <3>1. Node(s, d, j) = Node(s, c, j + 1) /\ Node(s, d, j + 1) = Node(s, c, (j + 1) + 1)
        BY <1>0, <1>4, <2>0, <2>3
      <3>2. Node(s, c, (j + 1) + 1) # Node(s, c, k + 1)
        <4>1. k + 1 \in 1 .. Len(c) /\ (j + 1) + 1 # k + 1 /\ (j + 1) + 1 \in 1 .. Len(c) + 1
          BY <1>0, <1>4, <2>0, <2>3
        <4>2. CASE (j + 1) + 1 = Len(c) + 1
          BY <1>1, <4>1, <4>2
        <4>3. CASE (j + 1) + 1 # Len(c) + 1
          <5>1. (j + 1) + 1 \in 1 .. Len(c)
            BY <1>0, <4>1, <4>3
          <5> QED
            BY <1>1, <4>1, <5>1
        <4> QED
          BY <4>2, <4>3
      <3>3. r.prev[Node(s, c, (j + 1) + 1)] = Node(s, c, j + 1) /\ Node(s, c, (j + 1) + 1) \in N
        BY <1>0, <1>1, <2>0 DEF Chained
      <3> QED
        BY <1>3, <3>1, <3>2, <3>3
    <2> QED
      BY <1>0, <2>0, <2>1, <2>2, <2>3
  <1>7. Chained(r2, s, d)
    BY <1>5, <1>6 DEF Chained
  <1> QED
    BY <1>3, <1>4, <1>7 DEF Chain, r2, d

LEMMA UnlinkOther ==
  ASSUME NEW r, NEW N, NEW s, NEW c, Chain(r, N, s, c), NEW k \in 1 .. Len(c),
         NEW t, NEW e, Chain(r, N, t, e), Apart(s, c, t, e)
  PROVE  Chain(Unlink(r, c[k]), N, t, e)
  <1> DEFINE r2 == Unlink(r, c[k])
             nx == Node(s, c, k + 1)
             p == Node(s, c, k - 1)
  <1>0. Ring(r, N) /\ List(N, s, c) /\ Chained(r, s, c) /\ Len(c) \in Nat /\ List(N, t, e)
    BY NodeFacts DEF Chain
  <1>1. r.prev[c[k]] = p /\ r.next[c[k]] = nx /\ c[k] \in N
    <2>1. k - 1 \in 0 .. Len(c) /\ (k - 1) + 1 = k /\ k \in 0 .. Len(c) /\ Node(s, c, k) = c[k]
      BY <1>0, NodeFacts
    <2> QED
      BY <1>0, <2>1 DEF Chained, List
  <1>2. /\ Ring(r2, N)
        /\ \A x \in N : x # nx /\ x # p => r2.next[x] = r.next[x] /\ r2.prev[x] = r.prev[x]
    <2> HIDE DEF nx, p
    <2> QED
      BY <1>0, <1>1, UnlinkLinks
  <1>3. \A j \in Int : Node(t, e, j) \in N /\ Node(t, e, j) # nx /\ Node(t, e, j) # p
    <2> SUFFICES ASSUME NEW j \in Int, NEW i \in Int
                 PROVE  Node(t, e, j) \in N /\ Node(t, e, j) # Node(s, c, i)
      <3>1. k + 1 \in Int /\ k - 1 \in Int
        BY <1>0
      <3> QED
        BY <3>1
    <2>1. Node(t, e, j) \in N
      BY <1>0, NodeFacts
    <2>2. /\ s \in Int /\ s <= 0 /\ t \in Int /\ t <= 0 /\ s # t
          /\ \A x \in 1 .. Len(c) : c[x] \in Pos
          /\ \A x \in 1 .. Len(e) : e[x] \in Pos
          /\ \A x \in 1 .. Len(c), y \in 1 .. Len(e) : c[x] # e[y]
      BY <1>0, NodeFacts DEF Apart, List
    <2>3. Node(t, e, j) # Node(s, c, i)
      BY <2>2 DEF Node, Pos
    <2> QED
      BY <2>1, <2>3
  <1> HIDE DEF r2, nx, p
  <1>4. Chained(r2, t, e)
    <2> SUFFICES ASSUME NEW j \in 0 .. Len(e)
                 PROVE  /\ r2.next[Node(t, e, j)] = Node(t, e, j + 1)
                        /\ r2.prev[Node(t, e, j + 1)] = Node(t, e, j)
      BY DEF Chained
    <2>1. j \in Int /\ j + 1 \in Int
      OBVIOUS
    <2>2. r.next[Node(t, e, j)] = Node(t, e, j + 1) /\ r.prev[Node(t, e, j + 1)] = Node(t, e, j)
      BY DEF Chain, Chained
    <2> QED
      BY <1>2, <1>3, <2>1, <2>2
  <1> QED
    BY <1>0, <1>2, <1>4 DEF Chain, r2

\* A loop over a list meets its elements in their order.
LEMMA WalkIs ==
  ASSUME NEW r, NEW N, NEW s, NEW c, Chain(r, N, s, c), IsFiniteSet(N)
  PROVE  Walk(r, s) = c
  <1> DEFINE A == {Node(s, c, j) : j \in 0 .. Len(c)}
             step == [k \in Nat |-> [x \in A |-> r.next[x]]]
             F(g) == [k \in Nat |-> IF k = 0 THEN r.next[s] ELSE r.next[g[k - 1]]]
             at == CHOOSE g : g = F(g)
             ends == {k \in 0 .. Cardinality(DOMAIN r.next) : at[k] = s}
  <1>0. Ring(r, N) /\ List(N, s, c) /\ Chained(r, s, c) /\ Len(c) \in Nat
    BY NodeFacts DEF Chain
  <1>1. /\ Node(s, c, 0) = s /\ Node(s, c, Len(c) + 1) = s
        /\ \A j \in 1 .. Len(c) : Node(s, c, j) = c[j] /\ c[j] # s
    BY <1>0, NodeFacts
  <1>2. \A j \in 0 .. Len(c) : r.next[Node(s, c, j)] = Node(s, c, j + 1) /\ Node(s, c, j + 1) \in A
    <2> TAKE j \in 0 .. Len(c)
    <2>1. r.next[Node(s, c, j)] = Node(s, c, j + 1)
      BY <1>0 DEF Chained
    <2>2. CASE j = Len(c)
      <3>1. Node(s, c, j + 1) = Node(s, c, 0) /\ 0 \in 0 .. Len(c)
        BY <1>0, <1>1, <2>2
      <3> QED
        BY <2>1, <3>1
    <2>3. CASE j # Len(c)
      <3>1. j + 1 \in 0 .. Len(c)
        BY <1>0, <2>3
      <3> QED
        BY <2>1, <3>1
    <2> QED
      BY <2>2, <2>3
  <1>3. \A x \in A : r.next[x] \in A
    BY <1>2
  <1>4. s \in A
    <2>1. 0 \in 0 .. Len(c)
      BY <1>0
    <2> QED
      BY <1>1, <2>1
  <1> HIDE DEF A
  <1>5. step \in [Nat -> [A -> A]] /\ r.next[s] \in A
    BY <1>3, <1>4
  <1>6. PICK g : Recursive(g, A, r.next[s], step)
    <2> HIDE DEF step
    <2> QED
      BY <1>5, NatRec
  <1>7. g \in [Nat -> A] /\ g[0] = r.next[s] /\ \A n \in Nat : g[n + 1] = r.next[g[n]]
    BY <1>6 DEF Recursive
  <1>8. g = F(g)
    <2>1. ASSUME NEW n \in Nat
          PROVE  g[n] = IF n = 0 THEN r.next[s] ELSE r.next[g[n - 1]]
      <3>1. CASE n = 0
        BY <1>7, <3>1
      <3>2. CASE n # 0
        <4>1. n - 1 \in Nat /\ (n - 1) + 1 = n
          BY <3>2
        <4> QED
          BY <1>7, <3>2, <4>1
      <3> QED
        BY <3>1, <3>2
    <2> QED
      BY <1>7, <2>1
  <1>9. at = F(at)
    <2> HIDE DEF F
    <2> QED
      BY <1>8
  <1>10. Walk(r, s) = IF ends = {} THEN <<>> ELSE [k \in 1 .. Min(ends) |-> at[k - 1]]
    BY DEF Walk
  <1> HIDE DEF at
  <1>11. at[0] = r.next[s]
    BY <1>9
  <1>12. \A n \in Nat : at[n + 1] = r.next[at[n]]
    <2> TAKE n \in Nat
    <2>1. n + 1 \in Nat /\ n + 1 # 0 /\ (n + 1) - 1 = n
      OBVIOUS
    <2> QED
      BY <1>9, <2>1
  <1> HIDE DEF F, step
  <1> DEFINE S == {k \in Nat : k <= Len(c) => at[k] = Node(s, c, k + 1)}
  <1>13. 0 \in S
    <2>1. 0 \in 0 .. Len(c) /\ 0 + 1 = 1
      BY <1>0
    <2> QED
      BY <1>1, <1>2, <1>11, <2>1
  <1>14. ASSUME NEW k \in Nat, k \in S
         PROVE  k + 1 \in S
    <2> SUFFICES ASSUME k + 1 <= Len(c) PROVE at[k + 1] = Node(s, c, (k + 1) + 1)
      OBVIOUS
    <2>1. at[k] = Node(s, c, k + 1)
      BY <1>0, <1>14
    <2>2. k + 1 \in 0 .. Len(c)
      BY <1>0
    <2> QED
      BY <1>2, <1>12, <2>1, <2>2
  <1>15. Nat \subseteq S
    <2> HIDE DEF S
    <2> QED
      BY <1>13, <1>14, NatInd
  <1>16. \A k \in 0 .. Len(c) : at[k] = Node(s, c, k + 1)
    BY <1>15
  <1> HIDE DEF S
  <1>17. Len(c) <= Cardinality(N) /\ Cardinality(N) \in Nat
    <2>1. c \in Injection(1 .. Len(c), N)
      <3>1. c \in [1 .. Len(c) -> N] /\ \A j, k \in 1 .. Len(c) : c[j] = c[k] => j = k
        BY <1>0 DEF List
      <3> QED
        BY <3>1 DEF Injection, IsInjective
    <2>2. Cardinality(1 .. Len(c)) <= Cardinality(N) /\ Cardinality(N) \in Nat
      BY <2>1, FS_Injection, FS_CardinalityType, Zenon
    <2>3. Cardinality(1 .. Len(c)) = Len(c)
      <3> DEFINE l == Len(c)
      <3>1. l \in Nat /\ l \in Int /\ 1 \in Int
        BY <1>0
      <3> HIDE DEF l
      <3>2. Cardinality(1 .. l) = IF 1 > l THEN 0 ELSE l - 1 + 1
        BY <3>1, FS_Interval
      <3>3. Cardinality(1 .. l) = l
        BY <3>1, <3>2
      <3> QED
        BY <3>3 DEF l
    <2> QED
      BY <2>2, <2>3
  <1>18. Len(c) \in ends
    <2>1. Len(c) \in 0 .. Cardinality(DOMAIN r.next)
      BY <1>0, <1>17 DEF Ring
    <2>2. at[Len(c)] = s
      BY <1>0, <1>1, <1>16
    <2> QED
      BY <2>1, <2>2
  <1>19. \A k \in ends : k \in Nat /\ Len(c) <= k
    <2> SUFFICES ASSUME NEW k \in ends, k < Len(c) PROVE FALSE
      BY <1>0, <1>17 DEF Ring
    <2>1. k \in 0 .. Len(c) /\ k + 1 \in 1 .. Len(c) /\ at[k] = s
      BY <1>0, <1>17 DEF Ring
    <2> QED
      BY <1>1, <1>16, <2>1
  <1> HIDE DEF ends
  <1>20. Min(ends) = Len(c)
    <2> DEFINE m == Min(ends)
    <2>1. m = CHOOSE x \in ends : \A y \in ends : x <= y
      BY DEF Min
    <2>2. \E x \in ends : \A y \in ends : x <= y
      BY <1>18, <1>19
    <2>3. m \in ends /\ \A y \in ends : m <= y
      BY <2>1, <2>2
    <2> HIDE DEF m
    <2>4. m <= Len(c) /\ Len(c) <= m /\ m \in Nat
      BY <1>18, <1>19, <2>3
    <2> QED
      BY <1>0, <2>4 DEF m
  <1>21. Walk(r, s) = [k \in 1 .. Len(c) |-> at[k - 1]]
    BY <1>10, <1>18, <1>20
  <1>22. \A k \in 1 .. Len(c) : at[k - 1] = c[k]
    <2> TAKE k \in 1 .. Len(c)
    <2>1. k - 1 \in 0 .. Len(c) /\ (k - 1) + 1 = k
      BY <1>0
    <2> QED
      BY <1>1, <1>16, <2>1
  <1>23. c = [k \in 1 .. Len(c) |-> c[k]]
    BY <1>0 DEF List
  <1> QED
    BY <1>21, <1>22, <1>23

-----------------------------------------------------------------------------
(* Lists one after another *)

\* fl[k] has the first k sequences of B.
Flat(fl, B) ==
  /\ fl \in [0 .. Len(B) -> Seq(Pos)] /\ fl[0] = <<>>
  /\ \A k \in 1 .. Len(B) : fl[k] = fl[k - 1] \o B[k]

LEMMA FlattenDef ==
  ASSUME NEW B \in Seq(Seq(Pos)), Len(B) > 0
  PROVE  \E fl : Flat(fl, B) /\ FlattenSeq(B) = fl[Len(B)]
  <1> DEFINE A == Seq(Pos)
             step == [k \in Nat |-> [x \in A |-> IF k < Len(B) THEN x \o B[k + 1] ELSE x]]
             F(h) == [i \in 1 .. Len(B) |-> IF i = 1 THEN B[i] ELSE h[i - 1] \o B[i]]
             q == CHOOSE h : h = F(h)
  <1>0. Len(B) \in Nat /\ \A k \in 1 .. Len(B) : B[k] \in A
    OBVIOUS
  <1>1. step \in [Nat -> [A -> A]]
    <2> SUFFICES ASSUME NEW k \in Nat, NEW x \in A
                 PROVE  (IF k < Len(B) THEN x \o B[k + 1] ELSE x) \in A
      BY Zenon
    <2>1. CASE k < Len(B)
      <3>1. k + 1 \in 1 .. Len(B)
        BY <1>0, <2>1
      <3>2. B[k + 1] \in Seq(Pos)
        BY <1>0, <3>1
      <3> QED
        BY <2>1, <3>2
    <2> QED
      BY <2>1
  <1>2. <<>> \in A
    OBVIOUS
  <1>3. PICK g : Recursive(g, A, <<>>, step)
    <2> HIDE DEF step, A
    <2> QED
      BY <1>1, <1>2, NatRec
  <1>4. /\ g \in [Nat -> A] /\ g[0] = <<>>
        /\ \A n \in Nat : n < Len(B) => g[n + 1] = g[n] \o B[n + 1]
    BY <1>3 DEF Recursive
  <1> HIDE DEF step
  <1>5. \A i \in 1 .. Len(B) : g[i] = g[i - 1] \o B[i] /\ g[i] \in A /\ g[i - 1] \in A
    <2> TAKE i \in 1 .. Len(B)
    <2>1. i - 1 \in Nat /\ (i - 1) + 1 = i /\ i - 1 < Len(B) /\ i \in Nat
      BY <1>0
    <2> QED
      BY <1>4, <2>1
  <1>6. g[1] = B[1]
    <2>1. 1 \in 1 .. Len(B) /\ 1 - 1 = 0
      BY <1>0
    <2>2. g[1] = <<>> \o B[1] /\ B[1] \in Seq(Pos)
      BY <1>0, <1>4, <1>5, <2>1
    <2> QED
      BY <2>2
  <1> DEFINE h == [i \in 1 .. Len(B) |-> g[i]]
  <1>7. h = F(h)
    <2>1. ASSUME NEW i \in 1 .. Len(B)
          PROVE  h[i] = IF i = 1 THEN B[i] ELSE h[i - 1] \o B[i]
      <3>1. CASE i = 1
        BY <1>6, <3>1
      <3>2. CASE i # 1
        <4>1. i - 1 \in 1 .. Len(B)
          BY <1>0, <3>2
        <4>2. h[i - 1] = g[i - 1]
          BY <4>1
        <4> QED
          BY <1>5, <3>2, <4>2
      <3> QED
        BY <3>1, <3>2
    <2> QED
      BY <2>1
  <1>8. q = F(q)
    <2> HIDE DEF F, h
    <2> QED
      BY <1>7
  <1>9. FlattenSeq(B) = q[Len(B)]
    <2>1. Len(B) # 0
      BY <1>0
    <2> QED
      BY <2>1 DEF FlattenSeq
  <1> HIDE DEF q, h
  <1> DEFINE S == {i \in Nat : i + 1 <= Len(B) => q[i + 1] = g[i + 1]}
  <1>10. 0 \in S
    <2>1. 0 + 1 = 1 /\ 1 \in 1 .. Len(B)
      BY <1>0
    <2> QED
      BY <1>6, <1>8, <2>1
  <1>11. ASSUME NEW i \in Nat, i \in S
         PROVE  i + 1 \in S
    <2> SUFFICES ASSUME (i + 1) + 1 <= Len(B) PROVE q[(i + 1) + 1] = g[(i + 1) + 1]
      OBVIOUS
    <2>1. (i + 1) + 1 \in 1 .. Len(B) /\ (i + 1) + 1 # 1 /\ ((i + 1) + 1) - 1 = i + 1
      BY <1>0
    <2>2. q[i + 1] = g[i + 1]
      BY <1>0, <1>11
    <2>3. q[(i + 1) + 1] = q[i + 1] \o B[(i + 1) + 1]
      BY <1>8, <2>1
    <2>4. g[(i + 1) + 1] = g[i + 1] \o B[(i + 1) + 1]
      BY <1>5, <2>1
    <2> QED
      BY <2>2, <2>3, <2>4
  <1>12. Nat \subseteq S
    <2> HIDE DEF S
    <2> QED
      BY <1>10, <1>11, NatInd
  <1>13. q[Len(B)] = g[Len(B)]
    <2> DEFINE n == Len(B) - 1
    <2>1. n \in Nat /\ n + 1 = Len(B) /\ n + 1 <= Len(B)
      BY <1>0
    <2> HIDE DEF n
    <2>2. q[n + 1] = g[n + 1]
      BY <1>12, <2>1
    <2> QED
      BY <2>1, <2>2
  <1> DEFINE fl == [k \in 0 .. Len(B) |-> g[k]]
  <1>14. fl \in [0 .. Len(B) -> Seq(Pos)] /\ fl[0] = <<>> /\ fl[Len(B)] = g[Len(B)]
    BY <1>0, <1>4
  <1>15. \A k \in 1 .. Len(B) : fl[k] = fl[k - 1] \o B[k]
    <2> TAKE k \in 1 .. Len(B)
    <2>1. k \in 0 .. Len(B) /\ k - 1 \in 0 .. Len(B)
      BY <1>0
    <2> QED
      BY <1>5, <2>1
  <1> HIDE DEF fl
  <1>16. Flat(fl, B) /\ FlattenSeq(B) = fl[Len(B)]
    BY <1>9, <1>13, <1>14, <1>15 DEF Flat
  <1> QED
    BY <1>16

\* No element of B is in two places.
Distinct(B) ==
  \A b, e \in 1 .. Len(B) : \A j \in 1 .. Len(B[b]), k \in 1 .. Len(B[e]) :
    B[b][j] = B[e][k] => b = e /\ j = k

LEMMA ConcatIs ==
  ASSUME NEW x \in Seq(Pos), NEW y \in Seq(Pos)
  PROVE  /\ x \o y \in Seq(Pos) /\ Len(x \o y) = Len(x) + Len(y)
         /\ Len(x) \in Nat /\ Len(y) \in Nat
         /\ \A k \in 1 .. Len(x) : (x \o y)[k] = x[k]
         /\ \A k \in 1 .. Len(y) : (x \o y)[Len(x) + k] = y[k]
  OBVIOUS

\* x has the elements of the first m sequences of B, and nothing twice.
Joins(x, B, m) ==
  /\ \A i \in 1 .. Len(x) : \E b \in 1 .. m : \E k \in 1 .. Len(B[b]) : x[i] = B[b][k]
  /\ \A b \in 1 .. m : \A k \in 1 .. Len(B[b]) : \E i \in 1 .. Len(x) : x[i] = B[b][k]
  /\ \A i, j \in 1 .. Len(x) : x[i] = x[j] => i = j

LEMMA FlatFacts ==
  ASSUME NEW B \in Seq(Seq(Pos)), NEW fl, Flat(fl, B), Distinct(B)
  PROVE  \A m \in 0 .. Len(B) : fl[m] \in Seq(Pos) /\ Joins(fl[m], B, m)
  <1> DEFINE S == {m \in Nat : m <= Len(B) => Joins(fl[m], B, m)}
  <1>0. Len(B) \in Nat /\ \A k \in 1 .. Len(B) : B[k] \in Seq(Pos)
    OBVIOUS
  <1>1. \A m \in 0 .. Len(B) : fl[m] \in Seq(Pos)
    BY DEF Flat
  <1>2. 0 \in S
    <2>1. fl[0] = <<>> /\ Len(fl[0]) = 0
      BY DEF Flat
    <2> QED
      BY <2>1 DEF Joins
  <1>3. ASSUME NEW m \in Nat, m \in S
        PROVE  m + 1 \in S
    <2> SUFFICES ASSUME m + 1 <= Len(B) PROVE Joins(fl[m + 1], B, m + 1)
      OBVIOUS
    <2> DEFINE x == fl[m]
               y == B[m + 1]
               z == fl[m + 1]
    <2>1. Joins(fl[m], B, m) /\ m \in 0 .. Len(B) /\ m + 1 \in 1 .. Len(B) /\ m + 1 \in 0 .. Len(B) /\ (m + 1) - 1 = m
      BY <1>0, <1>3
    <2>2. z = x \o y /\ x \in Seq(Pos) /\ y \in Seq(Pos)
      BY <1>0, <1>1, <2>1 DEF Flat
    <2>3. /\ z \in Seq(Pos) /\ Len(z) = Len(x) + Len(y)
          /\ Len(x) \in Nat /\ Len(y) \in Nat
          /\ \A k \in 1 .. Len(x) : z[k] = x[k]
          /\ \A k \in 1 .. Len(y) : z[Len(x) + k] = y[k]
      <3> HIDE DEF x, y, z
      <3> QED
        BY <2>2, ConcatIs
    <2>a. /\ \A i \in 1 .. Len(x) : \E b \in 1 .. m : \E k \in 1 .. Len(B[b]) : x[i] = B[b][k]
          /\ \A b \in 1 .. m : \A k \in 1 .. Len(B[b]) : \E i \in 1 .. Len(x) : x[i] = B[b][k]
          /\ \A i, j \in 1 .. Len(x) : x[i] = x[j] => i = j
      BY <2>1 DEF Joins
    <2>b. y = B[m + 1]
      OBVIOUS
    <2> HIDE DEF x, y, z
    <2>4. \A i \in 1 .. Len(z) : i \in 1 .. Len(x) \/ (i - Len(x) \in 1 .. Len(y) /\ Len(x) + (i - Len(x)) = i)
      BY <2>3
    <2>5. ASSUME NEW i \in 1 .. Len(z)
          PROVE  \E b \in 1 .. m + 1 : \E k \in 1 .. Len(B[b]) : z[i] = B[b][k]
      <3>1. CASE i \in 1 .. Len(x)
        <4>1. PICK b \in 1 .. m : \E k \in 1 .. Len(B[b]) : x[i] = B[b][k]
          BY <2>a, <3>1
        <4>2. b \in 1 .. m + 1
          OBVIOUS
        <4> QED
          BY <2>3, <3>1, <4>1, <4>2
      <3>2. CASE i - Len(x) \in 1 .. Len(y) /\ Len(x) + (i - Len(x)) = i
        <4>1. z[i] = B[m + 1][i - Len(x)] /\ m + 1 \in 1 .. m + 1
          BY <2>3, <2>b, <3>2
        <4> QED
          BY <2>b, <3>2, <4>1
      <3> QED
        BY <2>4, <3>1, <3>2
    <2>6. ASSUME NEW b \in 1 .. m + 1, NEW k \in 1 .. Len(B[b])
          PROVE  \E i \in 1 .. Len(z) : z[i] = B[b][k]
      <3>1. CASE b \in 1 .. m
        <4>1. PICK i \in 1 .. Len(x) : x[i] = B[b][k]
          BY <2>a, <3>1
        <4>2. i \in 1 .. Len(z)
          BY <2>3
        <4> QED
          BY <2>3, <4>1, <4>2
      <3>2. CASE b = m + 1
        <4>1. k \in 1 .. Len(y) /\ Len(x) + k \in 1 .. Len(z)
          BY <2>3, <2>b, <3>2
        <4> QED
          BY <2>3, <2>b, <3>2, <4>1
      <3> QED
        BY <3>1, <3>2
    <2>7. ASSUME NEW i \in 1 .. Len(x), NEW k \in 1 .. Len(y)
          PROVE  x[i] # y[k]
      <3>1. PICK b \in 1 .. m : \E l \in 1 .. Len(B[b]) : x[i] = B[b][l]
        BY <2>a
      <3>2. PICK l \in 1 .. Len(B[b]) : x[i] = B[b][l]
        BY <3>1
      <3>3. b # m + 1 /\ b \in 1 .. Len(B) /\ m + 1 \in 1 .. Len(B)
        BY <1>0, <2>1
      <3> QED
        BY <2>b, <3>2, <3>3 DEF Distinct
    <2>8. ASSUME NEW i \in 1 .. Len(y), NEW k \in 1 .. Len(y), y[i] = y[k]
          PROVE  i = k
      BY <2>1, <2>b, <2>8 DEF Distinct
    <2>9. ASSUME NEW i \in 1 .. Len(z), NEW j \in 1 .. Len(z), z[i] = z[j]
          PROVE  i = j
      <3>1. CASE i \in 1 .. Len(x) /\ j \in 1 .. Len(x)
        BY <2>3, <2>9, <2>a, <3>1
      <3>2. CASE i \in 1 .. Len(x) /\ j - Len(x) \in 1 .. Len(y) /\ Len(x) + (j - Len(x)) = j
        <4>1. z[i] = x[i] /\ z[j] = y[j - Len(x)]
          BY <2>3, <3>2
        <4> QED
          BY <2>7, <2>9, <3>2, <4>1
      <3>3. CASE j \in 1 .. Len(x) /\ i - Len(x) \in 1 .. Len(y) /\ Len(x) + (i - Len(x)) = i
        <4>1. z[j] = x[j] /\ z[i] = y[i - Len(x)]
          BY <2>3, <3>3
        <4> QED
          BY <2>7, <2>9, <3>3, <4>1
      <3>4. CASE /\ i - Len(x) \in 1 .. Len(y) /\ Len(x) + (i - Len(x)) = i
                 /\ j - Len(x) \in 1 .. Len(y) /\ Len(x) + (j - Len(x)) = j
        <4>1. z[j] = y[j - Len(x)] /\ z[i] = y[i - Len(x)]
          BY <2>3, <3>4
        <4>2. i - Len(x) = j - Len(x)
          BY <2>8, <2>9, <3>4, <4>1
        <4> QED
          BY <3>4, <4>2
      <3> QED
        BY <2>4, <3>1, <3>2, <3>3, <3>4
    <2> QED
      BY <2>5, <2>6, <2>9 DEF z, Joins
  <1>4. Nat \subseteq S
    <2> HIDE DEF S
    <2> QED
      BY <1>2, <1>3, NatInd
  <1>5. \A m \in 0 .. Len(B) : Joins(fl[m], B, m)
    BY <1>0, <1>4
  <1> QED
    BY <1>1, <1>5

-----------------------------------------------------------------------------
(* Regions *)

IsSeq(s) == s \in Seq(Range(s))

LEMMA AppendSeq ==
  ASSUME NEW s, IsSeq(s), NEW e
  PROVE  /\ IsSeq(Append(s, e)) /\ Len(s) \in Nat /\ Len(Append(s, e)) = Len(s) + 1
         /\ DOMAIN s = 1 .. Len(s)
         /\ Append(s, e)[Len(s) + 1] = e
         /\ \A k \in 1 .. Len(s) : Append(s, e)[k] = s[k]
  <1> DEFINE T == Range(s) \cup {e}
             a == Append(s, e)
  <1>1. s \in Seq(T) /\ e \in T
    BY DEF IsSeq
  <1> HIDE DEF T
  <1>2. /\ a \in Seq(T) /\ Len(s) \in Nat /\ Len(a) = Len(s) + 1 /\ DOMAIN s = 1 .. Len(s)
        /\ a[Len(s) + 1] = e /\ \A k \in 1 .. Len(s) : a[k] = s[k]
    BY <1>1
  <1> HIDE DEF a
  <1>3. DOMAIN a = 1 .. Len(a) /\ Len(a) \in Nat /\ a = [k \in 1 .. Len(a) |-> a[k]]
    BY <1>2
  <1>4. a \in [1 .. Len(a) -> Range(a)]
    BY <1>3 DEF Range
  <1>5. IsSeq(a)
    BY <1>3, <1>4 DEF IsSeq
  <1> QED
    BY <1>2, <1>5 DEF a

LEMMA FunSeq ==
  ASSUME NEW n \in Nat, NEW T, NEW f \in [1 .. n -> T]
  PROVE  f \in Seq(T) /\ Len(f) = n
  OBVIOUS

\* The elements of Ins.
HasIns(d, c, k, n) ==
  /\ d \in Seq(Pos) /\ Len(d) = Len(c) + 1
  /\ \A j \in 1 .. Len(c) + 1 : d[j] = IF j < k THEN c[j] ELSE IF j = k THEN n ELSE c[j - 1]

LEMMA InsSeq ==
  ASSUME NEW c \in Seq(Pos), NEW k \in 1 .. Len(c) + 1, NEW n \in Pos
  PROVE  HasIns(Ins(c, k, n), c, k, n)
  <1> DEFINE d == Ins(c, k, n)
  <1>0. Len(c) \in Nat /\ Len(c) + 1 \in Nat /\ \A j \in 1 .. Len(c) : c[j] \in Pos
    OBVIOUS
  <1>1. /\ DOMAIN d = 1 .. Len(c) + 1 /\ d = [j \in 1 .. Len(c) + 1 |-> d[j]]
        /\ \A j \in 1 .. Len(c) + 1 : d[j] = IF j < k THEN c[j] ELSE IF j = k THEN n ELSE c[j - 1]
    BY DEF Ins
  <1> HIDE DEF d
  <1>2. ASSUME NEW j \in 1 .. Len(c) + 1 PROVE d[j] \in Pos
    <2>1. CASE j < k
      BY <1>0, <1>1, <2>1
    <2>2. CASE j = k
      BY <1>1, <2>2
    <2>3. CASE j > k
      <3>1. j - 1 \in 1 .. Len(c)
        BY <1>0, <2>3
      <3> QED
        BY <1>0, <1>1, <2>3, <3>1
    <2> QED
      BY <1>0, <2>1, <2>2, <2>3
  <1>3. d \in [1 .. Len(c) + 1 -> Pos]
    BY <1>1, <1>2
  <1>4. d \in Seq(Pos) /\ Len(d) = Len(c) + 1
    BY <1>0, <1>3, FunSeq
  <1> QED
    BY <1>1, <1>4 DEF d, HasIns

With(B, b, c) == [B EXCEPT ![b] = c]

Nodes(reg) == (-Len(reg.succs) .. -1) \cup (1 .. Len(reg.insts))

Listed(B, n) == \E b \in 1 .. Len(B) : \E k \in 1 .. Len(B[b]) : B[b][k] = n

Count(n) == [k \in 1 .. n |-> k]

\* The fields of a region.
Record(reg) ==
  /\ DOMAIN reg = {"insts", "ring", "bring", "succs", "locals"}
  /\ IsSeq(reg.insts) /\ IsSeq(reg.succs)
  /\ \A b \in 1 .. Len(reg.succs) : IsSeq(reg.succs[b])

\* The lists of a region are those of B.
Listing(reg, B) ==
  /\ B \in Seq(Seq(Pos)) /\ Len(B) = Len(reg.succs) /\ Distinct(B)
  /\ Chain(reg.bring, 0 .. Len(B), 0, Count(Len(B)))
  /\ \A b \in 1 .. Len(B) : Chain(reg.ring, Nodes(reg), -b, B[b])

\* And what is on none was folded away.
Shape(reg, B) ==
  /\ Record(reg) /\ Listing(reg, B)
  /\ \A n \in 1 .. Len(reg.insts) : Listed(B, n) \/ FoldsTo(reg.insts[n]) # <<>>

HasBlock(W, B, b, c) ==
  /\ W \in Seq(Seq(Pos)) /\ Len(W) = Len(B) /\ W[b] = c
  /\ \A e \in 1 .. Len(B) : e # b => W[e] = B[e]

LEMMA WithIs ==
  ASSUME NEW B \in Seq(Seq(Pos)), NEW b \in 1 .. Len(B), NEW c \in Seq(Pos)
  PROVE  HasBlock(With(B, b, c), B, b, c)
  <1>1. B \in [1 .. Len(B) -> Seq(Pos)] /\ Len(B) \in Nat
    OBVIOUS
  <1>2. With(B, b, c) \in [1 .. Len(B) -> Seq(Pos)]
    BY <1>1 DEF With
  <1>3. With(B, b, c) \in Seq(Seq(Pos)) /\ Len(With(B, b, c)) = Len(B)
    BY <1>1, <1>2, FunSeq
  <1> QED
    BY <1>1, <1>3 DEF With, HasBlock

\* Lists of different blocks have nothing in common.
LEMMA BlocksApart ==
  ASSUME NEW B \in Seq(Seq(Pos)), Distinct(B), NEW b \in 1 .. Len(B), NEW e \in 1 .. Len(B), b # e
  PROVE  Apart(-b, B[b], -e, B[e])
  <1>1. -b # -e
    OBVIOUS
  <1>2. \A j \in 1 .. Len(B[b]), k \in 1 .. Len(B[e]) : B[b][j] # B[e][k]
    BY DEF Distinct
  <1> QED
    BY <1>1, <1>2 DEF Apart

\* The fields of Insert.
LEMMA InsertFields ==
  ASSUME NEW reg, Record(reg), NEW x, NEW i
  PROVE  /\ Record(Insert(reg, x, i))
         /\ Insert(reg, x, i).insts = Append(reg.insts, i)
         /\ Insert(reg, x, i).ring = InsertBefore(reg.ring, x, Len(reg.insts) + 1)
         /\ Insert(reg, x, i).bring = reg.bring
         /\ Insert(reg, x, i).succs = reg.succs /\ Insert(reg, x, i).locals = reg.locals
  <1> DEFINE q == Insert(reg, x, i)
  <1>1. /\ DOMAIN q = {"insts", "ring", "bring", "succs", "locals"}
        /\ q.insts = Append(reg.insts, i) /\ q.bring = reg.bring
        /\ q.succs = reg.succs /\ q.locals = reg.locals
    BY DEF Insert, Record
  <1>2. q.ring = InsertBefore(reg.ring, x, Len(reg.insts) + 1)
    BY DEF Insert, Record
  <1>3. IsSeq(q.insts)
    BY <1>1, AppendSeq DEF Record
  <1> HIDE DEF q
  <1>4. Record(q)
    BY <1>1, <1>3 DEF Record
  <1> QED
    BY <1>1, <1>2, <1>4 DEF q

\* Distinct lists stay distinct when one gets a new element.
LEMMA InsDistinct ==
  ASSUME NEW B \in Seq(Seq(Pos)), Distinct(B), NEW b \in 1 .. Len(B),
         NEW k \in 1 .. Len(B[b]) + 1, NEW n \in Pos, ~Listed(B, n)
  PROVE  Distinct(With(B, b, Ins(B[b], k, n)))
  <1> DEFINE c == B[b]
             d == Ins(c, k, n)
             W == With(B, b, d)
  <1>0. c \in Seq(Pos) /\ Len(c) \in Nat /\ Len(B) \in Nat
    OBVIOUS
  <1>1. d \in Seq(Pos) /\ Len(d) = Len(c) + 1
        /\ \A j \in 1 .. Len(d) : d[j] = IF j < k THEN c[j] ELSE IF j = k THEN n ELSE c[j - 1]
    <2> HIDE DEF c
    <2>1. k \in 1 .. Len(c) + 1
      BY DEF c
    <2>2. HasIns(d, c, k, n)
      BY <1>0, <2>1, InsSeq
    <2> HIDE DEF d
    <2> QED
      BY <2>2 DEF HasIns
  <1>2. /\ Len(W) = Len(B) /\ W[b] = d
        /\ \A e \in 1 .. Len(B) : e # b => W[e] = B[e]
    <2> HIDE DEF d
    <2> QED
      BY <1>1, WithIs DEF HasBlock
  <1>3. \A j \in 1 .. Len(c) : c[j] # n
    BY DEF Listed
  <1>4. \A j, l \in 1 .. Len(c) : c[j] = c[l] => j = l
    BY DEF Distinct
  <1>5. \A e \in 1 .. Len(B) : e # b =>
          \A j \in 1 .. Len(B[e]) : B[e][j] # n /\ \A l \in 1 .. Len(c) : B[e][j] # c[l]
    BY DEF Distinct, Listed
  <1> HIDE DEF c, d, W
  <1>6. ASSUME NEW j \in 1 .. Len(d)
        PROVE  \/ j = k /\ d[j] = n
               \/ \E l \in 1 .. Len(c) : d[j] = c[l] /\ ((l = j /\ j < k) \/ (l = j - 1 /\ j > k))
    <2>1. CASE j < k
      <3>1. j \in 1 .. Len(c) /\ d[j] = c[j]
        BY <1>0, <1>1, <2>1 DEF c
      <3> QED
        BY <2>1, <3>1
    <2>2. CASE j > k
      <3>1. j - 1 \in 1 .. Len(c) /\ d[j] = c[j - 1]
        BY <1>0, <1>1, <2>2 DEF c
      <3> QED
        BY <2>2, <3>1
    <2>3. CASE j = k
      BY <1>1, <2>3
    <2> QED
      BY <1>0, <2>1, <2>2, <2>3 DEF c
  <1>7. \A j, l \in 1 .. Len(d) : d[j] = d[l] => j = l
    <2> SUFFICES ASSUME NEW j \in 1 .. Len(d), NEW l \in 1 .. Len(d), d[j] = d[l] PROVE j = l
      OBVIOUS
    <2>1. CASE j = k /\ l # k
      <3>1. PICK y \in 1 .. Len(c) : d[l] = c[y]
        BY <1>6, <2>1
      <3>2. d[j] = n
        BY <1>1, <2>1 DEF c
      <3> QED
        BY <1>3, <3>1, <3>2
    <2>3. CASE j # k /\ l = k
      <3>1. PICK y \in 1 .. Len(c) : d[j] = c[y]
        BY <1>6, <2>3
      <3>2. d[l] = n
        BY <1>1, <2>3 DEF c
      <3> QED
        BY <1>3, <3>1, <3>2
    <2>2. CASE j # k /\ l # k
      <3>1. PICK x \in 1 .. Len(c) : d[j] = c[x] /\ ((x = j /\ j < k) \/ (x = j - 1 /\ j > k))
        BY <1>6, <2>2
      <3>2. PICK y \in 1 .. Len(c) : d[l] = c[y] /\ ((y = l /\ l < k) \/ (y = l - 1 /\ l > k))
        BY <1>6, <2>2
      <3>3. x = y
        BY <1>4, <3>1, <3>2
      <3> QED
        BY <1>0, <1>1, <3>1, <3>2, <3>3
    <2> QED
      BY <2>1, <2>2, <2>3
  <1>8. \A e \in 1 .. Len(B) : e # b =>
          \A j \in 1 .. Len(B[e]), l \in 1 .. Len(d) : B[e][j] # d[l]
    BY <1>5, <1>6
  <1>9. ASSUME NEW e \in 1 .. Len(W), NEW f \in 1 .. Len(W),
               NEW j \in 1 .. Len(W[e]), NEW l \in 1 .. Len(W[f]), W[e][j] = W[f][l]
        PROVE  e = f /\ j = l
    <2>1. CASE e = b /\ f = b
      BY <1>2, <1>7, <1>9, <2>1
    <2>2. CASE e # b /\ f = b
      BY SMTT(30), <1>2, <1>8, <1>9, <2>2
    <2>3. CASE e = b /\ f # b
      BY <1>2, <1>8, <1>9, <2>3
    <2>4. CASE e # b /\ f # b
      <3>1. W[e] = B[e] /\ W[f] = B[f] /\ e \in 1 .. Len(B) /\ f \in 1 .. Len(B)
        BY <1>2, <2>4
      <3>2. j \in 1 .. Len(B[e]) /\ l \in 1 .. Len(B[f]) /\ B[e][j] = B[f][l]
        BY <1>9, <3>1
      <3> QED
        BY <3>1, <3>2 DEF Distinct
    <2> QED
      BY <2>1, <2>2, <2>3, <2>4
  <1> QED
    BY <1>9 DEF Distinct, W, d, c

\* Region::Create and ilist.insert.
LEMMA InsertShape ==
  ASSUME NEW reg, NEW B, Shape(reg, B), NEW b \in 1 .. Len(B), NEW k \in 1 .. Len(B[b]) + 1, NEW i
  PROVE  Shape(Insert(reg, Node(-b, B[b], k), i), With(B, b, Ins(B[b], k, Len(reg.insts) + 1)))
  <1> DEFINE c == B[b]
             n == Len(reg.insts) + 1
             d == Ins(c, k, n)
             W == With(B, b, d)
             N == Nodes(reg)
             x == Node(-b, c, k)
             q == Insert(reg, x, i)
  <1>0. /\ Record(reg) /\ B \in Seq(Seq(Pos)) /\ Len(B) = Len(reg.succs) /\ Distinct(B)
        /\ Chain(reg.bring, 0 .. Len(B), 0, Count(Len(B)))
        /\ \A e \in 1 .. Len(B) : Chain(reg.ring, N, -e, B[e])
        /\ \A m \in 1 .. Len(reg.insts) : Listed(B, m) \/ FoldsTo(reg.insts[m]) # <<>>
    BY DEF Shape, Listing
  <1>1. /\ Record(q) /\ q.insts = Append(reg.insts, i) /\ q.bring = reg.bring /\ q.succs = reg.succs
        /\ q.ring = InsertBefore(reg.ring, x, n)
    <2> HIDE DEF x
    <2> QED
      BY SMTT(30), <1>0, InsertFields
  <1>2. /\ Len(reg.insts) \in Nat /\ Len(q.insts) = n
        /\ \A m \in 1 .. Len(reg.insts) : q.insts[m] = reg.insts[m]
    <2>1. IsSeq(reg.insts)
      BY <1>0 DEF Record
    <2> QED
      BY SMTT(30), <1>1, <2>1, AppendSeq
  <1>3. n \in Pos /\ n \notin N /\ Nodes(q) = N \cup {n}
    <2> DEFINE m == Len(reg.insts)
               l == Len(reg.succs)
    <2>1. m \in Nat /\ l \in Nat /\ n = m + 1
      BY <1>0, <1>2
    <2>2. Nodes(q) = (-l .. -1) \cup (1 .. m + 1) /\ N = (-l .. -1) \cup (1 .. m)
      BY <1>1, <1>2 DEF Nodes
    <2> HIDE DEF m, l, n, q, N
    <2>3. 1 .. m + 1 = (1 .. m) \cup {m + 1} /\ m + 1 \notin 1 .. m /\ m + 1 \notin -l .. -1
      BY <2>1
    <2> QED
      BY <2>1, <2>2, <2>3 DEF Pos
  <1>4. c \in Seq(Pos) /\ Len(c) \in Nat
    BY <1>0
  <1>5. ~Listed(B, n)
    <2> SUFFICES ASSUME NEW e \in 1 .. Len(B), NEW j \in 1 .. Len(B[e]), B[e][j] = n PROVE FALSE
      BY DEF Listed
    <2>1. B[e][j] \in N
      BY <1>0 DEF Chain, List
    <2> QED
      BY <1>3, <2>1
  <1> HIDE DEF N, n, q
  <1>6. Distinct(W)
    BY <1>0, <1>3, <1>5, InsDistinct
  <1>7. d \in Seq(Pos) /\ Len(d) = Len(c) + 1
        /\ \A j \in 1 .. Len(c) + 1 : d[j] = IF j < k THEN c[j] ELSE IF j = k THEN n ELSE c[j - 1]
    <2> HIDE DEF c
    <2>1. k \in 1 .. Len(c) + 1
      BY DEF c
    <2>2. HasIns(d, c, k, n)
      BY <1>3, <1>4, <2>1, InsSeq
    <2> HIDE DEF d
    <2> QED
      BY <2>2 DEF HasIns
  <1>8. /\ W \in Seq(Seq(Pos)) /\ Len(W) = Len(B) /\ W[b] = d
        /\ \A e \in 1 .. Len(B) : e # b => W[e] = B[e]
    <2> HIDE DEF d
    <2> QED
      BY <1>0, <1>7, WithIs DEF HasBlock
  <1> HIDE DEF d, W
  <1>9. ASSUME NEW e \in 1 .. Len(W)
        PROVE  Chain(q.ring, Nodes(q), -e, W[e])
    <2>1. CASE e = b
      <3>1. Chain(reg.ring, N, -b, c)
        BY <1>0
      <3>2. Chain(InsertBefore(reg.ring, x, n), N \cup {n}, -b, Ins(c, k, n))
        <4> HIDE DEF c
        <4>1. k \in 1 .. Len(c) + 1
          BY DEF c
        <4> QED
          BY <1>3, <3>1, <4>1, InsertChain
      <3> QED
        BY <1>1, <1>3, <1>8, <2>1, <3>2 DEF d
    <2>2. CASE e # b
      <3>1. Chain(reg.ring, N, -b, c) /\ Chain(reg.ring, N, -e, B[e]) /\ e \in 1 .. Len(B)
        BY <1>0, <1>8
      <3>2. Apart(-b, c, -e, B[e])
        BY <1>0, <2>2, <3>1, BlocksApart
      <3>3. Chain(InsertBefore(reg.ring, x, n), N \cup {n}, -e, B[e])
        <4> HIDE DEF c
        <4>1. k \in 1 .. Len(c) + 1
          BY DEF c
        <4> QED
          BY <1>3, <3>1, <3>2, <4>1, InsertOther
      <3> QED
        BY <1>1, <1>3, <1>8, <2>2, <3>1, <3>3
    <2> QED
      BY <2>1, <2>2
  <1>10. ASSUME NEW m, Listed(B, m) PROVE Listed(W, m)
    <2>1. PICK e \in 1 .. Len(B) : \E j \in 1 .. Len(B[e]) : B[e][j] = m
      BY <1>10 DEF Listed
    <2>2. PICK j \in 1 .. Len(B[e]) : B[e][j] = m
      BY <2>1
    <2>3. CASE e # b
      BY <1>8, <2>2, <2>3 DEF Listed
    <2>4. CASE e = b /\ j < k
      <3>1. j \in 1 .. Len(c) + 1 /\ W[b][j] = m /\ j \in 1 .. Len(W[b])
        BY <1>4, <1>7, <1>8, <2>2, <2>4
      <3> QED
        BY <1>8, <3>1 DEF Listed
    <2>5. CASE e = b /\ ~(j < k)
      <3>1. j + 1 \in 1 .. Len(W[b]) /\ j + 1 \in 1 .. Len(c) + 1 /\ ~(j + 1 < k) /\ j + 1 # k /\ (j + 1) - 1 = j
        BY <1>4, <1>7, <1>8, <2>2, <2>5
      <3>2. W[b][j + 1] = m
        BY <1>7, <1>8, <2>2, <2>5, <3>1
      <3> QED
        BY <1>8, <3>1, <3>2 DEF Listed
    <2> QED
      BY <2>3, <2>4, <2>5
  <1>11. Listed(W, n)
    <2>1. k \in 1 .. Len(W[b]) /\ W[b][k] = n
      BY <1>4, <1>7, <1>8
    <2> QED
      BY <1>8, <2>1 DEF Listed
  <1>12. \A m \in 1 .. Len(q.insts) : Listed(W, m) \/ FoldsTo(q.insts[m]) # <<>>
    <2> TAKE m \in 1 .. Len(q.insts)
    <2>1. m = n \/ m \in 1 .. Len(reg.insts)
      BY <1>2 DEF n
    <2> QED
      BY <1>0, <1>2, <1>10, <1>11, <2>1
  <1>13. Listing(q, W)
    BY <1>0, <1>1, <1>6, <1>8, <1>9 DEF Listing
  <1> QED
    BY <1>1, <1>12, <1>13 DEF Shape, q, x, W, d, n, c

\* Erasing what the folder replaced.
LEMMA UnlinkShape ==
  ASSUME NEW reg, NEW B, Shape(reg, B), NEW b \in 1 .. Len(B), NEW k \in 1 .. Len(B[b]),
         FoldsTo(reg.insts[B[b][k]]) # <<>>
  PROVE  Shape([reg EXCEPT !.ring = Unlink(@, B[b][k])], With(B, b, Del(B[b], k)))
  <1> DEFINE c == B[b]
             n == c[k]
             d == Del(c, k)
             W == With(B, b, d)
             N == Nodes(reg)
             q == [reg EXCEPT !.ring = Unlink(@, n)]
  <1>0. /\ Record(reg) /\ B \in Seq(Seq(Pos)) /\ Len(B) = Len(reg.succs) /\ Distinct(B)
        /\ Chain(reg.bring, 0 .. Len(B), 0, Count(Len(B)))
        /\ \A e \in 1 .. Len(B) : Chain(reg.ring, N, -e, B[e])
        /\ \A m \in 1 .. Len(reg.insts) : Listed(B, m) \/ FoldsTo(reg.insts[m]) # <<>>
    BY DEF Shape, Listing
  <1>1. /\ DOMAIN q = {"insts", "ring", "bring", "succs", "locals"}
        /\ q.insts = reg.insts /\ q.bring = reg.bring /\ q.succs = reg.succs
        /\ q.ring = Unlink(reg.ring, n)
    BY <1>0 DEF Record
  <1> HIDE DEF q
  <1>2. Record(q) /\ Nodes(q) = N
    BY <1>0, <1>1 DEF Record, Nodes
  <1> HIDE DEF N
  <1>3. List(N, -b, c) /\ c \in Seq(Pos) /\ Len(c) \in Nat
    BY <1>0 DEF Chain
  <1>4. List(N, -b, d) /\ Len(d) = Len(c) - 1
    <2> HIDE DEF c
    <2>1. k \in 1 .. Len(c)
      BY DEF c
    <2> QED
      BY <1>3, <2>1, DelFacts
  <1>5. d \in Seq(Pos) /\ \A j \in 1 .. Len(c) - 1 : d[j] = IF j < k THEN c[j] ELSE c[j + 1]
    BY <1>4 DEF List, Del
  <1>6. /\ W \in Seq(Seq(Pos)) /\ Len(W) = Len(B) /\ W[b] = d
        /\ \A e \in 1 .. Len(B) : e # b => W[e] = B[e]
    <2> HIDE DEF d
    <2> QED
      BY <1>0, <1>5, WithIs DEF HasBlock
  <1>7. ASSUME NEW e \in 1 .. Len(W)
        PROVE  Chain(q.ring, Nodes(q), -e, W[e])
    <2>1. CASE e = b
      <3>1. Chain(Unlink(reg.ring, c[k]), N, -b, Del(c, k))
        <4>1. k \in 1 .. Len(c) /\ Chain(reg.ring, N, -b, c)
          BY <1>0
        <4> HIDE DEF c
        <4> QED
          BY <4>1, UnlinkChain
      <3> QED
        BY <1>1, <1>2, <1>6, <2>1, <3>1
    <2>2. CASE e # b
      <3>1. Chain(reg.ring, N, -b, c) /\ Chain(reg.ring, N, -e, B[e]) /\ e \in 1 .. Len(B)
        BY <1>0, <1>6
      <3>2. Apart(-b, c, -e, B[e])
        BY <1>0, <2>2, <3>1, BlocksApart
      <3>3. Chain(Unlink(reg.ring, c[k]), N, -e, B[e])
        <4>1. k \in 1 .. Len(c)
          OBVIOUS
        <4> HIDE DEF c
        <4> QED
          BY <3>1, <3>2, <4>1, UnlinkOther
      <3> QED
        BY <1>1, <1>2, <1>6, <2>2, <3>1, <3>3
    <2> QED
      BY <2>1, <2>2
  <1>a. k \in 1 .. Len(c)
    OBVIOUS
  <1> HIDE DEF c, d, W
  <1>8. ASSUME NEW j \in 1 .. Len(d)
        PROVE  \E l \in 1 .. Len(c) : d[j] = c[l] /\ ((l = j /\ j < k) \/ (l = j + 1 /\ j >= k))
    <2>1. CASE j < k
      <3>1. j \in 1 .. Len(c) /\ d[j] = c[j]
        BY <1>3, <1>4, <1>5, <1>a, <2>1
      <3> QED
        BY <2>1, <3>1
    <2>2. CASE j >= k
      <3>1. j + 1 \in 1 .. Len(c) /\ d[j] = c[j + 1]
        BY <1>3, <1>4, <1>5, <1>a, <2>2
      <3> QED
        BY <2>2, <3>1
    <2> QED
      BY <1>3, <1>4, <1>a, <2>1, <2>2
  <1>9. Distinct(W)
    <2> SUFFICES ASSUME NEW e \in 1 .. Len(W), NEW f \in 1 .. Len(W),
                        NEW j \in 1 .. Len(W[e]), NEW l \in 1 .. Len(W[f]), W[e][j] = W[f][l]
                 PROVE  e = f /\ j = l
      BY DEF Distinct
    <2>0. e \in 1 .. Len(B) /\ f \in 1 .. Len(B)
      BY <1>6
    <2>1. \E y \in 1 .. Len(B[e]) :
            W[e][j] = B[e][y] /\ (e # b => y = j) /\ (e = b => (y = j /\ j < k) \/ (y = j + 1 /\ j >= k))
      BY <1>6, <1>8, <2>0 DEF c
    <2>2. \E z \in 1 .. Len(B[f]) :
            W[f][l] = B[f][z] /\ (f # b => z = l) /\ (f = b => (z = l /\ l < k) \/ (z = l + 1 /\ l >= k))
      BY <1>6, <1>8, <2>0 DEF c
    <2>3. PICK y \in 1 .. Len(B[e]) :
            W[e][j] = B[e][y] /\ (e # b => y = j) /\ (e = b => (y = j /\ j < k) \/ (y = j + 1 /\ j >= k))
      BY <2>1
    <2>4. PICK z \in 1 .. Len(B[f]) :
            W[f][l] = B[f][z] /\ (f # b => z = l) /\ (f = b => (z = l /\ l < k) \/ (z = l + 1 /\ l >= k))
      BY <2>2
    <2>5. e = f /\ y = z
      <3>1. Distinct(B)
        BY <1>0
      <3>2. B[e][y] = B[f][z] /\ y \in 1 .. Len(B[e]) /\ z \in 1 .. Len(B[f])
        BY <2>3, <2>4
      <3> QED
        BY <2>0, <3>1, <3>2, SMTT(30) DEF Distinct
    <2>6. CASE e # b
      BY <2>3, <2>4, <2>5, <2>6
    <2>7. CASE e = b
      <3>1. j \in Int /\ l \in Int /\ k \in Int
        BY <1>3, <1>4, <1>6, <2>5, <2>7 DEF c
      <3> QED
        BY <2>3, <2>4, <2>5, <2>7, <3>1
    <2> QED
      BY <2>6, <2>7
  <1>10. ASSUME NEW m, Listed(B, m), m # n PROVE Listed(W, m)
    <2>1. PICK e \in 1 .. Len(B) : \E j \in 1 .. Len(B[e]) : B[e][j] = m
      BY <1>10 DEF Listed
    <2>2. PICK j \in 1 .. Len(B[e]) : B[e][j] = m
      BY <2>1
    <2>3. CASE e # b
      BY <1>6, <2>2, <2>3 DEF Listed
    <2>4. CASE e = b /\ j < k
      <3>1. W[b][j] = m /\ j \in 1 .. Len(W[b])
        BY <1>3, <1>4, <1>5, <1>6, <2>2, <2>4 DEF c
      <3> QED
        BY <1>6, <3>1 DEF Listed
    <2>5. CASE e = b /\ j > k
      <3>1. /\ j - 1 \in 1 .. Len(W[b]) /\ j - 1 \in 1 .. Len(c) - 1 /\ ~(j - 1 < k)
            /\ (j - 1) + 1 = j
        BY <1>3, <1>4, <1>6, <2>2, <2>5 DEF c
      <3>2. W[b][j - 1] = m
        BY <1>5, <1>6, <2>2, <2>5, <3>1 DEF c
      <3> QED
        BY <1>6, <3>1, <3>2 DEF Listed
    <2>6. CASE e = b /\ j = k
      BY <1>10, <2>2, <2>6 DEF c
    <2> QED
      BY <1>3, <1>a, <2>2, <2>3, <2>4, <2>5, <2>6 DEF c
  <1>11. \A m \in 1 .. Len(q.insts) : Listed(W, m) \/ FoldsTo(q.insts[m]) # <<>>
    BY <1>0, <1>1, <1>10 DEF c
  <1>12. Listing(q, W)
    BY <1>0, <1>1, <1>6, <1>7, <1>9 DEF Listing
  <1> QED
    BY <1>2, <1>11, <1>12 DEF Shape, q, W, d, c

\* What Builder::Create leaves in the list for i.
Kept(i) == IF FoldsTo(i) = <<>> THEN Canonical(i) ELSE Inst("mov", "none", FoldsTo(i), i.at)

IsInst(i) == i = Inst(i.op, i.x, i.opr, i.at)

LEMMA CanonicalFolds ==
  ASSUME NEW i, IsInst(i)
  PROVE  FoldsTo(Canonical(i)) = FoldsTo(i)
  <1> DEFINE c == Canonical(i)
  <1>1. CASE i.op = "add" /\ IsConst(i.opr[2]) /\ ~IsConst(i.opr[3])
    <2>1. c = [i EXCEPT !.opr = <<i.opr[1], i.opr[3], i.opr[2]>>]
      BY <1>1 DEF Canonical
    <2>2. c.op = i.op /\ c.opr = <<i.opr[1], i.opr[3], i.opr[2]>>
      BY <2>1 DEF IsInst, Inst
    <2>3. c.opr[2] = i.opr[3]
      BY <2>2
    <2> HIDE DEF c
    <2>4. Canonical(c) = c
      BY <1>1, <2>2, <2>3 DEF Canonical
    <2> QED
      BY <2>4 DEF FoldsTo, c
  <1>2. CASE ~(i.op = "add" /\ IsConst(i.opr[2]) /\ ~IsConst(i.opr[3]))
    BY <1>2 DEF Canonical
  <1> QED
    BY <1>1, <1>2

\* q is reg after i was created in front of element k of block b, m being the
\* new element.
Created(q, reg, B, b, k, i, m) ==
  /\ Shape(q, With(B, b, Ins(B[b], k, m)))
  /\ m \in Len(reg.insts) + 1 .. Len(q.insts) /\ q.insts[m] = Kept(i)
  /\ \A n \in 1 .. Len(reg.insts) : q.insts[n] = reg.insts[n]
  /\ \A n \in Len(reg.insts) + 1 .. Len(q.insts) : q.insts[n] \in {Canonical(i), Kept(i)}
  /\ q.succs = reg.succs /\ q.locals = reg.locals

LEMMA CreateIs ==
  ASSUME NEW reg, NEW B, Shape(reg, B), NEW b \in 1 .. Len(B), NEW k \in 1 .. Len(B[b]) + 1,
         NEW i, IsInst(i)
  PROVE  \E m \in Pos : Created(Create(reg, Node(-b, B[b], k), i), reg, B, b, k, i, m)
  <1> DEFINE x == Node(-b, B[b], k)
             n == Len(reg.insts) + 1
             c == Canonical(i)
             f == FoldsTo(i)
             mov == Inst("mov", "none", f, i.at)
             made == Insert(reg, x, c)
             moved == Insert(made, n, mov)
             W == With(B, b, Ins(B[b], k, n))
  <1>0. /\ Record(reg) /\ B \in Seq(Seq(Pos)) /\ B[b] \in Seq(Pos) /\ Len(B[b]) \in Nat
        /\ Len(B) \in Nat /\ IsSeq(reg.insts)
    BY DEF Shape, Listing, Record
  <1>1. /\ Record(made) /\ made.insts = Append(reg.insts, c)
        /\ made.succs = reg.succs /\ made.locals = reg.locals
    <2> HIDE DEF x, c
    <2> QED
      BY <1>0, InsertFields
  <1>2. /\ Len(reg.insts) \in Nat /\ n \in Pos /\ Len(made.insts) = n /\ made.insts[n] = c
        /\ \A j \in 1 .. Len(reg.insts) : made.insts[j] = reg.insts[j]
    <2> HIDE DEF c, made
    <2> QED
      BY <1>0, <1>1, AppendSeq DEF Pos
  <1>3. Shape(made, W)
    <2> HIDE DEF c
    <2> QED
      BY InsertShape
  <1>4. CASE f = <<>>
    <2>1. Create(reg, x, i) = made /\ Kept(i) = c
      BY <1>4 DEF Create, Kept
    <2> HIDE DEF made, c
    <2>2. n \in Len(reg.insts) + 1 .. Len(made.insts)
      BY <1>2
    <2>3. \A j \in Len(reg.insts) + 1 .. Len(made.insts) : j = n
      BY <1>2
    <2> HIDE DEF n, x
    <2>4. Created(made, reg, B, b, k, i, n)
      BY <1>1, <1>2, <1>3, <2>1, <2>2, <2>3 DEF Created, n
    <2> QED
      BY <1>2, <2>1, <2>4 DEF x
  <1>5. CASE f # <<>>
    <2> DEFINE q == [moved EXCEPT !.ring = Unlink(@, n)]
               d == Ins(B[b], k, n)
               W2 == With(W, b, Ins(W[b], k, n + 1))
               d2 == Ins(d, k, n + 1)
    <2>1. Create(reg, x, i) = q /\ Kept(i) = mov
      BY <1>5 DEF Create, Kept
    <2>2. d \in Seq(Pos) /\ Len(d) = Len(B[b]) + 1 /\ d[k] = n
          /\ \A j \in 1 .. Len(B[b]) + 1 : d[j] = IF j < k THEN B[b][j] ELSE IF j = k THEN n ELSE B[b][j - 1]
      <3> DEFINE e == B[b]
      <3>1. k \in 1 .. Len(e) + 1 /\ e \in Seq(Pos) /\ n \in Pos
        BY <1>0, <1>2
      <3> HIDE DEF e, n
      <3>2. /\ Ins(e, k, n) \in Seq(Pos) /\ Len(Ins(e, k, n)) = Len(e) + 1
            /\ \A j \in 1 .. Len(e) + 1 :
                 Ins(e, k, n)[j] = IF j < k THEN e[j] ELSE IF j = k THEN n ELSE e[j - 1]
        BY <3>1, InsSeq DEF HasIns
      <3>3. d = Ins(e, k, n)
        BY DEF e
      <3> HIDE DEF d
      <3>4. d[k] = n
        BY <3>1, <3>2, <3>3
      <3> QED
        BY <3>2, <3>3, <3>4 DEF e
    <2>3. /\ W \in Seq(Seq(Pos)) /\ Len(W) = Len(B) /\ W[b] = d
          /\ \A e \in 1 .. Len(B) : e # b => W[e] = B[e]
      <3> HIDE DEF d, n
      <3> QED
        BY <1>0, <2>2, WithIs DEF d, HasBlock
    <2> HIDE DEF made, c, mov, d, W, n
    <2>4. n + 1 \in Pos /\ k \in 1 .. Len(d) /\ k \in 1 .. Len(d) + 1 /\ Len(d) \in Nat /\ n \in Nat
      <3>1. n \in Nat /\ n + 1 \in Pos
        BY <1>2 DEF Pos
      <3>2. Len(B[b]) \in Nat /\ Len(d) = Len(B[b]) + 1
        BY <1>0, <2>2
      <3> QED
        BY <3>1, <3>2
    <2>5. Node(-b, W[b], k) = n
      BY <2>2, <2>3, <2>4 DEF Node
    <2>6. Shape(moved, W2)
      <3>1. b \in 1 .. Len(W) /\ k \in 1 .. Len(W[b]) + 1
        BY <2>3, <2>4
      <3>2. Shape(Insert(made, Node(-b, W[b], k), mov), With(W, b, Ins(W[b], k, Len(made.insts) + 1)))
        BY <1>3, <3>1, InsertShape
      <3> QED
        BY <1>2, <2>5, <3>2
    <2>7. /\ Record(moved) /\ moved.insts = Append(made.insts, mov)
          /\ moved.succs = made.succs /\ moved.locals = made.locals
      BY <1>1, InsertFields
    <2>8. /\ Len(moved.insts) = n + 1 /\ moved.insts[n + 1] = mov
          /\ \A j \in 1 .. n : moved.insts[j] = made.insts[j]
      <3>1. IsSeq(made.insts)
        BY <1>1 DEF Record
      <3> HIDE DEF moved
      <3> QED
        BY <1>2, <2>7, <3>1, AppendSeq
    <2>9. /\ d2 \in Seq(Pos) /\ Len(d2) = Len(d) + 1
          /\ \A j \in 1 .. Len(d) + 1 : d2[j] = IF j < k THEN d[j] ELSE IF j = k THEN n + 1 ELSE d[j - 1]
      BY <2>2, <2>4, InsSeq DEF HasIns
    <2>10. /\ W2 \in Seq(Seq(Pos)) /\ Len(W2) = Len(B) /\ W2[b] = d2
           /\ \A e \in 1 .. Len(B) : e # b => W2[e] = B[e]
      <3> HIDE DEF d2
      <3>1. W2 = With(W, b, d2) /\ b \in 1 .. Len(W)
        BY <2>3 DEF d2
      <3> QED
        BY <2>3, <2>9, <3>1, WithIs DEF HasBlock
    <2> HIDE DEF moved, d2, W2
    <2>11. k + 1 \in 1 .. Len(d2) /\ d2[k + 1] = n
      <3>1. k + 1 \in 1 .. Len(d) + 1 /\ ~(k + 1 < k) /\ k + 1 # k /\ (k + 1) - 1 = k
        BY <2>4
      <3> QED
        BY <2>2, <2>9, <3>1
    <2>12. FoldsTo(moved.insts[n]) # <<>>
      <3>1. n \in 1 .. n
        BY <1>2 DEF Pos
      <3>2. moved.insts[n] = c
        BY <1>2, <2>8, <3>1
      <3> QED
        BY <1>5, <3>2, CanonicalFolds DEF c
    <2>13. Shape(q, With(W2, b, Del(W2[b], k + 1)))
      <3>1. b \in 1 .. Len(W2) /\ k + 1 \in 1 .. Len(W2[b]) /\ W2[b][k + 1] = n
        BY <2>10, <2>11
      <3>2. Shape([moved EXCEPT !.ring = Unlink(@, W2[b][k + 1])], With(W2, b, Del(W2[b], k + 1)))
        BY <2>6, <2>12, <3>1, UnlinkShape
      <3> QED
        BY <3>1, <3>2
    <2>14. Del(d2, k + 1) = Ins(B[b], k, n + 1)
      <3>1. Len(d2) - 1 = Len(B[b]) + 1 /\ Len(d) = Len(B[b]) + 1
        BY <1>0, <2>2, <2>9
      <3>2. ASSUME NEW j \in 1 .. Len(B[b]) + 1
            PROVE  (IF j < k + 1 THEN d2[j] ELSE d2[j + 1]) =
                     IF j < k THEN B[b][j] ELSE IF j = k THEN n + 1 ELSE B[b][j - 1]
        <4>1. CASE j < k
          <5>1. j < k + 1 /\ j \in 1 .. Len(d) + 1 /\ j \in 1 .. Len(B[b]) + 1
            BY <1>0, <3>1, <4>1
          <5> QED
            BY <2>2, <2>9, <4>1, <5>1
        <4>2. CASE j = k
          <5>1. j < k + 1 /\ j \in 1 .. Len(d) + 1
            BY <1>0, <3>1, <4>2
          <5> QED
            BY <2>9, <4>2, <5>1
        <4>3. CASE j > k
          <5>1. /\ ~(j < k + 1) /\ j + 1 \in 1 .. Len(d) + 1 /\ ~(j + 1 < k) /\ j + 1 # k
                /\ (j + 1) - 1 = j /\ ~(j < k) /\ j # k
            BY <1>0, <3>1, <4>3
          <5>2. d2[j + 1] = d[j]
            BY <2>9, <5>1
          <5> QED
            BY <2>2, <5>1, <5>2
        <4> QED
          BY <1>0, <4>1, <4>2, <4>3
      <3> QED
        BY <3>1, <3>2 DEF Del, Ins
    <2>15. With(W2, b, Del(W2[b], k + 1)) = With(B, b, Ins(B[b], k, n + 1))
      <3> DEFINE y == Ins(B[b], k, n + 1)
      <3>1. With(W2, b, Del(W2[b], k + 1)) = With(W2, b, y)
        BY <2>10, <2>14
      <3> HIDE DEF y
      <3>2. W2 \in [1 .. Len(B) -> Seq(Pos)] /\ B \in [1 .. Len(B) -> Seq(Pos)]
        BY <1>0, <2>10
      <3>3. With(W2, b, y) = With(B, b, y)
        BY <2>10, <3>2 DEF With
      <3> QED
        BY <3>1, <3>3 DEF y
    <2>16. q.insts = moved.insts /\ q.succs = moved.succs /\ q.locals = moved.locals
      BY <2>7 DEF Record
    <2> HIDE DEF q
    <2>17. n + 1 \in Len(reg.insts) + 1 .. Len(q.insts)
      BY <1>2, <2>8, <2>16 DEF n
    <2>18. \A j \in Len(reg.insts) + 1 .. Len(q.insts) : q.insts[j] \in {c, mov}
      <3> TAKE j \in Len(reg.insts) + 1 .. Len(q.insts)
      <3>1. j = n \/ j = n + 1
        BY <1>2, <2>8, <2>16 DEF n
      <3>2. n \in 1 .. n
        BY <1>2 DEF Pos
      <3> QED
        BY <1>2, <2>8, <2>16, <3>1, <3>2
    <2>19. \A j \in 1 .. Len(reg.insts) : q.insts[j] = reg.insts[j]
      <3> TAKE j \in 1 .. Len(reg.insts)
      <3>1. j \in 1 .. n
        BY <1>2 DEF n
      <3> QED
        BY <1>2, <2>8, <2>16, <3>1
    <2>20. Created(q, reg, B, b, k, i, n + 1)
      BY <1>1, <2>1, <2>7, <2>8, <2>13, <2>15, <2>16, <2>17, <2>18, <2>19 DEF Created, c
    <2> QED
      BY <2>1, <2>4, <2>20
  <1> QED
    BY <1>4, <1>5

\* ms put in front of element k of c.
Splice(c, k, ms) ==
  [j \in 1 .. Len(c) + Len(ms) |->
     IF j < k THEN c[j] ELSE IF j < k + Len(ms) THEN ms[j - k + 1] ELSE c[j - Len(ms)]]

LEMMA SpliceIs ==
  ASSUME NEW c \in Seq(Pos), NEW k \in 1 .. Len(c) + 1, NEW ms \in Seq(Pos)
  PROVE  /\ Splice(c, k, ms) \in Seq(Pos) /\ Len(Splice(c, k, ms)) = Len(c) + Len(ms)
         /\ \A j \in 1 .. Len(c) + Len(ms) :
              Splice(c, k, ms)[j] =
                IF j < k THEN c[j] ELSE IF j < k + Len(ms) THEN ms[j - k + 1] ELSE c[j - Len(ms)]
  <1> DEFINE n == Len(c) + Len(ms)
             d == Splice(c, k, ms)
  <1>0. /\ Len(c) \in Nat /\ Len(ms) \in Nat /\ n \in Nat
        /\ (\A j \in 1 .. Len(c) : c[j] \in Pos) /\ \A j \in 1 .. Len(ms) : ms[j] \in Pos
    OBVIOUS
  <1>1. /\ d = [j \in 1 .. n |-> d[j]]
        /\ \A j \in 1 .. n :
              d[j] = IF j < k THEN c[j] ELSE IF j < k + Len(ms) THEN ms[j - k + 1] ELSE c[j - Len(ms)]
    BY DEF Splice
  <1> HIDE DEF d
  <1>2. ASSUME NEW j \in 1 .. n PROVE d[j] \in Pos
    <2>1. CASE j < k
      <3>1. j \in 1 .. Len(c)
        BY <1>0, <2>1
      <3> QED
        BY <1>0, <1>1, <2>1, <3>1
    <2>2. CASE ~(j < k) /\ j < k + Len(ms)
      <3>1. j - k + 1 \in 1 .. Len(ms)
        BY <1>0, <2>2
      <3> QED
        BY <1>0, <1>1, <2>2, <3>1
    <2>3. CASE ~(j < k) /\ ~(j < k + Len(ms))
      <3>1. j - Len(ms) \in 1 .. Len(c)
        BY <1>0, <2>3
      <3> QED
        BY <1>0, <1>1, <2>3, <3>1
    <2> QED
      BY <2>1, <2>2, <2>3
  <1>3. d \in [1 .. n -> Pos]
    BY <1>1, <1>2
  <1>4. d \in Seq(Pos) /\ Len(d) = n
    BY <1>0, <1>3, FunSeq
  <1> QED
    BY <1>1, <1>4 DEF d

LEMMA SpliceNone ==
  ASSUME NEW c \in Seq(Pos), NEW k \in 1 .. Len(c) + 1
  PROVE  Splice(c, k, <<>>) = c
  <1>1. Len(c) \in Nat /\ Len(<<>>) = 0 /\ c = [j \in 1 .. Len(c) |-> c[j]] /\ Len(c) + 0 = Len(c)
    OBVIOUS
  <1>2. \A j \in 1 .. Len(c) :
          (IF j < k THEN c[j] ELSE IF j < k + 0 THEN <<>>[j - k + 1] ELSE c[j - 0]) = c[j]
    BY <1>1
  <1> QED
    BY <1>1, <1>2 DEF Splice

\* In d one more element goes behind the l that were inserted at k.
Continues(d, c, k, ms, l, m, s) ==
  /\ Ins(d, k + l, m) = Splice(c, k, Append(ms, m))
  /\ Node(s, d, k + l) = Node(s, c, k)
  /\ k + l \in 1 .. Len(d) + 1

LEMMA SpliceMore ==
  ASSUME NEW c \in Seq(Pos), NEW k \in 1 .. Len(c) + 1, NEW ms \in Seq(Pos), NEW m \in Pos, NEW s
  PROVE  Continues(Splice(c, k, ms), c, k, ms, Len(ms), m, s)
  <1> DEFINE d == Splice(c, k, ms)
             l == Len(ms)
             a == Append(ms, m)
  <1>0. /\ Len(c) \in Nat /\ l \in Nat /\ a \in Seq(Pos) /\ Len(a) = l + 1
        /\ a[l + 1] = m /\ \A j \in 1 .. l : a[j] = ms[j]
    OBVIOUS
  <1>1. /\ Len(d) = Len(c) + l
        /\ \A j \in 1 .. Len(c) + l :
             d[j] = IF j < k THEN c[j] ELSE IF j < k + l THEN ms[j - k + 1] ELSE c[j - l]
    BY SpliceIs
  <1> HIDE DEF d, a
  <1>2. ASSUME NEW j \in 1 .. Len(c) + l + 1
        PROVE  (IF j < k + l THEN d[j] ELSE IF j = k + l THEN m ELSE d[j - 1]) =
                 IF j < k THEN c[j] ELSE IF j < k + (l + 1) THEN a[j - k + 1] ELSE c[j - (l + 1)]
    <2>1. CASE j < k
      <3>1. j < k + l /\ j \in 1 .. Len(c) + l
        BY <1>0, <2>1
      <3> QED
        BY <1>1, <2>1, <3>1
    <2>2. CASE ~(j < k) /\ j < k + l
      <3>1. j \in 1 .. Len(c) + l /\ j < k + (l + 1) /\ j - k + 1 \in 1 .. l
        BY <1>0, <2>2
      <3>2. d[j] = ms[j - k + 1] /\ a[j - k + 1] = ms[j - k + 1]
        BY <1>0, <1>1, <2>2, <3>1
      <3> QED
        BY <2>2, <3>1, <3>2
    <2>3. CASE j = k + l
      <3>1. ~(j < k) /\ ~(j < k + l) /\ j < k + (l + 1) /\ j - k + 1 = l + 1
        BY <1>0, <2>3
      <3> QED
        BY <1>0, <2>3, <3>1
    <2>4. CASE j > k + l
      <3>1. /\ ~(j < k) /\ ~(j < k + l) /\ j # k + l /\ ~(j < k + (l + 1))
            /\ j - 1 \in 1 .. Len(c) + l /\ ~(j - 1 < k) /\ ~(j - 1 < k + l) /\ (j - 1) - l = j - (l + 1)
        BY <1>0, <2>4
      <3> QED
        BY <1>1, <3>1
    <2>5. j < k \/ (~(j < k) /\ j < k + l) \/ j = k + l \/ j > k + l
      BY <1>0
    <2> QED
      BY <2>1, <2>2, <2>3, <2>4, <2>5, Zenon
  <1>3. Ins(d, k + l, m) = Splice(c, k, a)
    <2>1. Len(d) + 1 = Len(c) + l + 1 /\ Len(c) + Len(a) = Len(c) + l + 1
      BY <1>0, <1>1
    <2>2. Splice(c, k, a) = [j \in 1 .. Len(c) + l + 1 |->
             IF j < k THEN c[j] ELSE IF j < k + (l + 1) THEN a[j - k + 1] ELSE c[j - (l + 1)]]
      BY <1>0, <2>1 DEF Splice
    <2>3. Ins(d, k + l, m) = [j \in 1 .. Len(c) + l + 1 |->
             IF j < k + l THEN d[j] ELSE IF j = k + l THEN m ELSE d[j - 1]]
      BY <2>1 DEF Ins
    <2> QED
      BY <1>2, <2>2, <2>3
  <1>4. Node(s, d, k + l) = Node(s, c, k)
    <2>1. CASE k \in 1 .. Len(c)
      <3>1. k + l \in 1 .. Len(d) /\ ~(k + l < k) /\ ~(k + l < k + l) /\ (k + l) - l = k
        BY <1>0, <1>1, <2>1
      <3>2. d[k + l] = c[k]
        BY <1>1, <3>1
      <3> QED
        BY <2>1, <3>1, <3>2 DEF Node
    <2>2. CASE k \notin 1 .. Len(c)
      <3>1. k + l \notin 1 .. Len(d)
        BY <1>0, <1>1, <2>2
      <3> QED
        BY <2>2, <3>1 DEF Node
    <2> QED
      BY <2>1, <2>2
  <1>5. k + l \in 1 .. Len(d) + 1
    BY <1>0, <1>1
  <1> QED
    BY <1>3, <1>4, <1>5 DEF d, a, Continues

\* made[n] is reg with the first n instructions of body created at x.
Builds(made, n, reg, x, body) ==
  /\ DOMAIN made = 0 .. n /\ made[0] = reg
  /\ \A k \in 1 .. n : made[k] = Create(made[k - 1], x, body[k])

LEMMA CreateAllDef ==
  ASSUME NEW reg, NEW x, NEW body, Len(body) \in Nat
  PROVE  \E made : Builds(made, Len(body), reg, x, body) /\ CreateAll(reg, x, body) = made[Len(body)]
  <1> DEFINE F(g) == [k \in 0 .. Len(body) |-> IF k = 0 THEN reg ELSE Create(g[k - 1], x, body[k])]
             q == CHOOSE g : g = F(g)
             S == {n \in Nat : \E g : Builds(g, n, reg, x, body)}
  <1>1. 0 \in S
    <2> DEFINE g == [k \in 0 .. 0 |-> reg]
    <2>1. Builds(g, 0, reg, x, body)
      BY DEF Builds
    <2> QED
      BY <2>1
  <1>2. ASSUME NEW n \in Nat, n \in S
        PROVE  n + 1 \in S
    <2>1. PICK g : Builds(g, n, reg, x, body)
      BY <1>2
    <2> DEFINE h == [k \in 0 .. n + 1 |-> IF k = n + 1 THEN Create(g[n], x, body[n + 1]) ELSE g[k]]
    <2>2. DOMAIN h = 0 .. n + 1 /\ h[0] = reg
      BY <2>1 DEF Builds
    <2>3. ASSUME NEW k \in 1 .. n + 1
          PROVE  h[k] = Create(h[k - 1], x, body[k])
      <3>1. CASE k = n + 1
        <4>1. h[k] = Create(g[n], x, body[k]) /\ h[k - 1] = g[n]
          BY <3>1
        <4> QED
          BY <4>1
      <3>2. CASE k # n + 1
        <4>1. k \in 1 .. n /\ k - 1 # n + 1 /\ k - 1 \in 0 .. n + 1 /\ k \in 0 .. n + 1
          BY <3>2
        <4>2. h[k] = g[k] /\ h[k - 1] = g[k - 1]
          BY <3>2, <4>1
        <4> HIDE DEF h
        <4> QED
          BY <2>1, <4>1, <4>2 DEF Builds
      <3> QED
        BY <3>1, <3>2
    <2> HIDE DEF h
    <2>4. Builds(h, n + 1, reg, x, body)
      BY <2>2, <2>3 DEF Builds
    <2> QED
      BY <2>4
  <1>3. Nat \subseteq S
    <2> HIDE DEF S
    <2> QED
      BY <1>1, <1>2, NatInd
  <1>4. PICK g0 : Builds(g0, Len(body), reg, x, body)
    BY <1>3
  <1> HIDE DEF S
  <1> DEFINE g == [k \in 0 .. Len(body) |-> g0[k]]
  <1>5. g = F(g)
    <2>1. ASSUME NEW k \in 0 .. Len(body)
          PROVE  g0[k] = IF k = 0 THEN reg ELSE Create(g[k - 1], x, body[k])
      <3>1. CASE k = 0
        BY <1>4, <3>1 DEF Builds
      <3>2. CASE k # 0
        <4>1. k \in 1 .. Len(body) /\ k - 1 \in 0 .. Len(body)
          BY <3>2
        <4>2. g[k - 1] = g0[k - 1]
          BY <4>1
        <4> HIDE DEF g
        <4> QED
          BY <1>4, <3>2, <4>1, <4>2 DEF Builds
      <3> QED
        BY <3>1, <3>2
    <2> QED
      BY <2>1
  <1>6. q = F(q)
    <2> HIDE DEF F, g
    <2> QED
      BY <1>5
  <1>7. CreateAll(reg, x, body) = q[Len(body)]
    BY DEF CreateAll
  <1> HIDE DEF q
  <1>8. DOMAIN q = 0 .. Len(body) /\ q[0] = reg
    BY <1>6
  <1>9. \A k \in 1 .. Len(body) : q[k] = Create(q[k - 1], x, body[k])
    <2> TAKE k \in 1 .. Len(body)
    <2>1. k \in 0 .. Len(body) /\ k # 0
      OBVIOUS
    <2> QED
      BY <1>6, <2>1
  <1> HIDE DEF F
  <1>10. Builds(q, Len(body), reg, x, body)
    BY <1>8, <1>9 DEF Builds
  <1> QED
    BY <1>7, <1>10

\* q is reg after the first n instructions of body were created in front of
\* element k of block b, ms being the new elements.
Grown(q, reg, B, b, k, body, n, ms) ==
  /\ ms \in Seq(Pos) /\ Len(ms) = n
  /\ Shape(q, With(B, b, Splice(B[b], k, ms)))
  /\ \A l \in 1 .. n :
       ms[l] \in Len(reg.insts) + 1 .. Len(q.insts) /\ q.insts[ms[l]] = Kept(body[l])
  /\ Len(q.insts) >= Len(reg.insts)
  /\ \A m \in 1 .. Len(reg.insts) : q.insts[m] = reg.insts[m]
  /\ \A m \in Len(reg.insts) + 1 .. Len(q.insts) :
       \E l \in 1 .. n : q.insts[m] \in {Canonical(body[l]), Kept(body[l])}
  /\ q.succs = reg.succs /\ q.locals = reg.locals

LEMMA GrownNone ==
  ASSUME NEW reg, NEW B, Shape(reg, B), NEW b \in 1 .. Len(B), NEW k \in 1 .. Len(B[b]) + 1, NEW body
  PROVE  Grown(reg, reg, B, b, k, body, 0, <<>>)
  <1>1. B \in Seq(Seq(Pos)) /\ B[b] \in Seq(Pos) /\ Len(reg.insts) \in Nat
    BY AppendSeq DEF Shape, Listing, Record
  <1>2. Splice(B[b], k, <<>>) = B[b]
    BY <1>1, SpliceNone
  <1>3. With(B, b, B[b]) = B
    BY <1>1 DEF With
  <1>4. \A m \in Len(reg.insts) + 1 .. Len(reg.insts) : FALSE
    BY <1>1
  <1>5. <<>> \in Seq(Pos) /\ Len(<<>>) = 0 /\ Len(reg.insts) >= Len(reg.insts)
    BY <1>1
  <1>6. \A l \in 1 .. 0 : FALSE
    OBVIOUS
  <1> QED
    BY <1>2, <1>3, <1>4, <1>5, <1>6 DEF Grown

LEMMA GrownMore ==
  ASSUME NEW reg, NEW B, Shape(reg, B), NEW b \in 1 .. Len(B), NEW k \in 1 .. Len(B[b]) + 1,
         NEW body, NEW n \in Nat, NEW ms, NEW q, Grown(q, reg, B, b, k, body, n, ms), IsInst(body[n + 1])
  PROVE  \E m \in Pos : Grown(Create(q, Node(-b, B[b], k), body[n + 1]), reg, B, b, k, body, n + 1, Append(ms, m))
  <1> DEFINE c == B[b]
             d == Splice(c, k, ms)
             W == With(B, b, d)
             p == k + n
             i == body[n + 1]
             x == Node(-b, c, k)
             q2 == Create(q, x, i)
  <1>0. /\ B \in Seq(Seq(Pos)) /\ c \in Seq(Pos) /\ k \in 1 .. Len(c) + 1 /\ Len(reg.insts) \in Nat
        /\ Len(q.insts) \in Nat
    BY SMTT(30), AppendSeq DEF Shape, Listing, Record, Grown
  <1>1. /\ ms \in Seq(Pos) /\ Len(ms) = n /\ Shape(q, W)
        /\ \A l \in 1 .. n : ms[l] \in Len(reg.insts) + 1 .. Len(q.insts) /\ q.insts[ms[l]] = Kept(body[l])
        /\ Len(q.insts) >= Len(reg.insts)
        /\ \A m \in 1 .. Len(reg.insts) : q.insts[m] = reg.insts[m]
        /\ \A m \in Len(reg.insts) + 1 .. Len(q.insts) :
             \E l \in 1 .. n : q.insts[m] \in {Canonical(body[l]), Kept(body[l])}
        /\ q.succs = reg.succs /\ q.locals = reg.locals
    BY DEF Grown
  <1> HIDE DEF c
  <1>2. \A m \in Pos : /\ Ins(d, p, m) = Splice(c, k, Append(ms, m))
                       /\ Node(-b, d, p) = x /\ p \in 1 .. Len(d) + 1
    <2> TAKE m \in Pos
    <2>1. ms \in Seq(Pos) /\ n = Len(ms)
      BY <1>1
    <2>2. Continues(d, c, k, ms, Len(ms), m, -b)
      BY <1>0, <2>1, SpliceMore
    <2> HIDE DEF d
    <2> QED
      BY <2>1, <2>2 DEF Continues
  <1>3. Node(-b, d, p) = x /\ p \in 1 .. Len(d) + 1
    <2>1. 1 \in Pos
      BY DEF Pos
    <2> QED
      BY <1>2, <2>1
  <1>4. d \in Seq(Pos)
    BY <1>0, <1>1, SpliceIs
  <1> HIDE DEF d
  <1>5. Len(W) = Len(B) /\ W[b] = d
    BY <1>0, <1>4, WithIs DEF HasBlock
  <1>6. \E m \in Pos : Created(q2, q, W, b, p, i, m)
    <2>1. b \in 1 .. Len(W) /\ p \in 1 .. Len(W[b]) + 1 /\ Node(-b, W[b], p) = x
      BY <1>3, <1>5
    <2> HIDE DEF W, p, i, x
    <2>2. IsInst(i)
      BY DEF i
    <2>3. \E m \in Pos : Created(Create(q, Node(-b, W[b], p), i), q, W, b, p, i, m)
      BY <1>1, <2>1, <2>2, CreateIs
    <2> QED
      BY <2>1, <2>3
  <1>7. PICK m \in Pos : Created(q2, q, W, b, p, i, m)
    BY <1>6
  <1> DEFINE a == Append(ms, m)
  <1>8. /\ Shape(q2, With(W, b, Ins(W[b], p, m)))
        /\ m \in Len(q.insts) + 1 .. Len(q2.insts) /\ q2.insts[m] = Kept(i)
        /\ \A j \in 1 .. Len(q.insts) : q2.insts[j] = q.insts[j]
        /\ \A j \in Len(q.insts) + 1 .. Len(q2.insts) : q2.insts[j] \in {Canonical(i), Kept(i)}
        /\ q2.succs = q.succs /\ q2.locals = q.locals
    BY <1>7 DEF Created
  <1> HIDE DEF q2
  <1>9. Len(q2.insts) \in Nat
    BY <1>8, AppendSeq DEF Shape, Record
  <1>a. /\ Len(reg.insts) <= Len(q.insts) /\ Len(q.insts) < Len(q2.insts)
        /\ m \in Int /\ Len(q.insts) < m /\ m <= Len(q2.insts)
    <2>1. m \in Len(q.insts) + 1 .. Len(q2.insts) /\ Len(reg.insts) <= Len(q.insts)
      BY <1>1, <1>8
    <2> DEFINE l1 == Len(q.insts)
               l2 == Len(q2.insts)
    <2>2. l1 \in Nat /\ l2 \in Nat /\ m \in l1 + 1 .. l2
      BY <1>0, <1>9, <2>1
    <2> HIDE DEF l1, l2
    <2>3. l1 < l2 /\ m \in Int /\ l1 < m /\ m <= l2
      BY <2>2
    <2> QED
      BY <2>1, <2>3 DEF l1, l2
  <1>b. /\ \A j : j \in Len(reg.insts) + 1 .. Len(q.insts) =>
             j \in 1 .. Len(q.insts) /\ j \in Len(reg.insts) + 1 .. Len(q2.insts)
        /\ m \in Len(reg.insts) + 1 .. Len(q2.insts)
    <2> DEFINE l0 == Len(reg.insts)
               l1 == Len(q.insts)
               l2 == Len(q2.insts)
    <2>1. /\ l0 \in Nat /\ l1 \in Nat /\ l2 \in Nat /\ l0 <= l1 /\ l1 < l2
          /\ m \in Int /\ l1 < m /\ m <= l2
      BY <1>0, <1>9, <1>a
    <2> HIDE DEF l0, l1, l2
    <2>2. /\ \A j : j \in l0 + 1 .. l1 => j \in 1 .. l1 /\ j \in l0 + 1 .. l2
          /\ m \in l0 + 1 .. l2
      BY <2>1
    <2> QED
      BY <2>2 DEF l0, l1, l2
  <1>10. With(W, b, Ins(W[b], p, m)) = With(B, b, Splice(c, k, a))
    <2>1. Ins(W[b], p, m) = Splice(c, k, a)
      BY <1>2, <1>5
    <2>2. With(W, b, Splice(c, k, a)) = With(B, b, Splice(c, k, a))
      <3> DEFINE y == Splice(c, k, a)
      <3> HIDE DEF y
      <3>1. B \in [1 .. Len(B) -> Seq(Pos)]
        BY <1>0
      <3>2. With(W, b, y) = With(B, b, y)
        BY <3>1 DEF With
      <3> QED
        BY <3>2 DEF y
    <2> QED
      BY <2>1, <2>2
  <1>11. /\ a \in Seq(Pos) /\ Len(a) = n + 1 /\ a[n + 1] = m
         /\ \A l \in 1 .. n : a[l] = ms[l]
    BY <1>1
  <1> HIDE DEF W, a, p
  <1>12. ASSUME NEW l \in 1 .. n + 1
         PROVE  a[l] \in Len(reg.insts) + 1 .. Len(q2.insts) /\ q2.insts[a[l]] = Kept(body[l])
    <2>1. CASE l = n + 1
      BY <1>8, <1>11, <1>b, <2>1
    <2>2. CASE l # n + 1
      <3>1. l \in 1 .. n
        BY <2>2
      <3>2. a[l] = ms[l] /\ ms[l] \in Len(reg.insts) + 1 .. Len(q.insts) /\ q.insts[ms[l]] = Kept(body[l])
        BY <1>1, <1>11, <3>1
      <3>3. ms[l] \in 1 .. Len(q.insts) /\ ms[l] \in Len(reg.insts) + 1 .. Len(q2.insts)
        BY <1>b, <3>2
      <3>4. q2.insts[ms[l]] = q.insts[ms[l]]
        BY <1>8, <3>3
      <3> QED
        BY <3>2, <3>3, <3>4
    <2> QED
      BY <2>1, <2>2
  <1>13. ASSUME NEW j \in Len(reg.insts) + 1 .. Len(q2.insts)
         PROVE  \E l \in 1 .. n + 1 : q2.insts[j] \in {Canonical(body[l]), Kept(body[l])}
    <2>1. CASE j <= Len(q.insts)
      <3>1. j \in Len(reg.insts) + 1 .. Len(q.insts) /\ j \in 1 .. Len(q.insts)
        BY <1>0, <1>9, <2>1
      <3>2. PICK l \in 1 .. n : q.insts[j] \in {Canonical(body[l]), Kept(body[l])}
        BY <1>1, <3>1
      <3>3. l \in 1 .. n + 1
        OBVIOUS
      <3> QED
        BY <1>8, <3>1, <3>2, <3>3
    <2>2. CASE j > Len(q.insts)
      <3>1. j \in Len(q.insts) + 1 .. Len(q2.insts) /\ n + 1 \in 1 .. n + 1
        BY <1>0, <1>9, <2>2
      <3> QED
        BY <1>8, <3>1
    <2> QED
      BY <1>0, <1>9, <2>1, <2>2
  <1>14. Len(q2.insts) >= Len(reg.insts)
    BY <1>0, <1>9, <1>a
  <1>15. \A j \in 1 .. Len(reg.insts) : q2.insts[j] = reg.insts[j]
    <2> TAKE j \in 1 .. Len(reg.insts)
    <2>1. j \in 1 .. Len(q.insts)
      BY <1>0, <1>1
    <2> QED
      BY <1>1, <1>8, <2>1
  <1>16. Shape(q2, With(B, b, Splice(c, k, a)))
    BY <1>8, <1>10
  <1>17. q2.succs = reg.succs /\ q2.locals = reg.locals
    BY <1>1, <1>8
  <1> HIDE DEF i
  <1>18. Grown(q2, reg, B, b, k, body, n + 1, a)
    BY <1>11, <1>12, <1>13, <1>14, <1>15, <1>16, <1>17 DEF Grown, c
  <1> QED
    BY <1>18 DEF a, q2, c, i

\* Builder::Create once for each instruction of body.
LEMMA CreateAllIs ==
  ASSUME NEW reg, NEW B, Shape(reg, B), NEW b \in 1 .. Len(B), NEW k \in 1 .. Len(B[b]) + 1,
         NEW body, Len(body) \in Nat, \A l \in 1 .. Len(body) : IsInst(body[l])
  PROVE  \E ms : Grown(CreateAll(reg, Node(-b, B[b], k), body), reg, B, b, k, body, Len(body), ms)
  <1> DEFINE x == Node(-b, B[b], k)
  <1>1. PICK made : Builds(made, Len(body), reg, x, body) /\ CreateAll(reg, x, body) = made[Len(body)]
    BY CreateAllDef
  <1> DEFINE S == {n \in Nat : n <= Len(body) => \E ms : Grown(made[n], reg, B, b, k, body, n, ms)}
  <1>2. 0 \in S
    <2>1. made[0] = reg
      BY <1>1 DEF Builds
    <2>2. Grown(made[0], reg, B, b, k, body, 0, <<>>)
      BY <2>1, GrownNone
    <2> QED
      BY <2>2
  <1>3. ASSUME NEW n \in Nat, n \in S
        PROVE  n + 1 \in S
    <2> SUFFICES ASSUME n + 1 <= Len(body)
                 PROVE  \E ms : Grown(made[n + 1], reg, B, b, k, body, n + 1, ms)
      OBVIOUS
    <2>1. PICK ms : Grown(made[n], reg, B, b, k, body, n, ms)
      BY <1>3
    <2>2. n + 1 \in 1 .. Len(body) /\ (n + 1) - 1 = n
      OBVIOUS
    <2>3. made[n + 1] = Create(made[n], x, body[n + 1]) /\ IsInst(body[n + 1])
      BY <1>1, <2>2 DEF Builds
    <2>4. \E m \in Pos : Grown(Create(made[n], x, body[n + 1]), reg, B, b, k, body, n + 1, Append(ms, m))
      BY <2>1, <2>3, GrownMore
    <2> QED
      BY <2>3, <2>4
  <1>4. Nat \subseteq S
    <2> HIDE DEF S
    <2> QED
      BY <1>2, <1>3, NatInd
  <1>5. \E ms : Grown(made[Len(body)], reg, B, b, k, body, Len(body), ms)
    BY <1>4
  <1> QED
    BY <1>1, <1>5

LEMMA CountIs ==
  ASSUME NEW n \in Nat
  PROVE  /\ Count(n) \in Seq(Pos) /\ Len(Count(n)) = n
         /\ \A k \in 1 .. n : Count(n)[k] = k
         /\ Ins(Count(n), n + 1, n + 1) = Count(n + 1)
  <1>1. Count(n) \in [1 .. n -> Pos]
    BY DEF Count, Pos
  <1>2. Count(n) \in Seq(Pos) /\ Len(Count(n)) = n
    BY <1>1, FunSeq
  <1>3. \A k \in 1 .. n : Count(n)[k] = k
    BY DEF Count
  <1>4. \A j \in 1 .. n + 1 :
          (IF j < n + 1 THEN Count(n)[j] ELSE IF j = n + 1 THEN n + 1 ELSE Count(n)[j - 1]) = j
    BY <1>3
  <1>5. Ins(Count(n), n + 1, n + 1) = [j \in 1 .. n + 1 |-> j]
    BY <1>2, <1>4 DEF Ins
  <1> QED
    BY <1>2, <1>3, <1>5 DEF Count

\* A new sentinel is an empty list and disturbs no other.
Opens(q, M, r, N, s) ==
  Chain(q, M, s, <<>>) /\ \A t, c : Chain(r, N, t, c) => Chain(q, M, t, c)

LEMMA SentinelChains ==
  ASSUME NEW r, NEW N, Ring(r, N), NEW s \in Int, s <= 0, s \notin N
  PROVE  Opens(NewSentinel(r, s), N \cup {s}, r, N, s)
  <1> DEFINE q == NewSentinel(r, s)
  <1>1. /\ Ring(q, N \cup {s}) /\ q.next[s] = s /\ q.prev[s] = s
        /\ \A x \in N : q.next[x] = r.next[x] /\ q.prev[x] = r.prev[x]
    BY DEF Ring, NewSentinel, Point
  <1> HIDE DEF q
  <1>2. Chain(q, N \cup {s}, s, <<>>)
    <2>1. Len(<<>>) = 0 /\ <<>> \in Seq(Pos) /\ \A k : Node(s, <<>>, k) = s
      BY DEF Node
    <2>2. Chained(q, s, <<>>)
      BY <1>1, <2>1 DEF Chained
    <2>3. List(N \cup {s}, s, <<>>)
      BY <2>1 DEF List
    <2> QED
      BY <1>1, <2>2, <2>3 DEF Chain
  <1>3. ASSUME NEW t, NEW c, Chain(r, N, t, c)
        PROVE  Chain(q, N \cup {s}, t, c)
    <2>1. List(N, t, c) /\ Chained(r, t, c) /\ Len(c) \in Nat
      BY <1>3, NodeFacts DEF Chain
    <2>2. \A k \in Int : Node(t, c, k) \in N
      BY <2>1, NodeFacts
    <2>3. Chained(q, t, c)
      <3> SUFFICES ASSUME NEW k \in 0 .. Len(c)
                   PROVE  /\ q.next[Node(t, c, k)] = Node(t, c, k + 1)
                          /\ q.prev[Node(t, c, k + 1)] = Node(t, c, k)
        BY DEF Chained
      <3>1. k \in Int /\ k + 1 \in Int
        BY <2>1
      <3> QED
        BY <1>1, <2>1, <2>2, <3>1 DEF Chained
    <2>4. List(N \cup {s}, t, c)
      BY <2>1 DEF List
    <2> QED
      BY <1>1, <2>3, <2>4 DEF Chain
  <1> QED
    BY <1>2, <1>3 DEF q, Opens

\* Region::CreateBlock: one more block, with nothing in it.
LEMMA CreateBlockShape ==
  ASSUME NEW reg, NEW B, Shape(reg, B), Ring(reg.ring, Nodes(reg))
  PROVE  /\ Shape(CreateBlock(reg), Append(B, <<>>))
         /\ CreateBlock(reg).insts = reg.insts /\ CreateBlock(reg).locals = reg.locals
         /\ CreateBlock(reg).succs = Append(reg.succs, <<>>)
         /\ Ring(CreateBlock(reg).ring, Nodes(CreateBlock(reg)))
  <1> DEFINE q == CreateBlock(reg)
             l == Len(B)
             b == l + 1
             N == Nodes(reg)
             W == Append(B, <<>>)
  <1>0. /\ Record(reg) /\ B \in Seq(Seq(Pos)) /\ l = Len(reg.succs) /\ Distinct(B)
        /\ Chain(reg.bring, 0 .. l, 0, Count(l))
        /\ \A e \in 1 .. l : Chain(reg.ring, N, -e, B[e])
        /\ \A m \in 1 .. Len(reg.insts) : Listed(B, m) \/ FoldsTo(reg.insts[m]) # <<>>
    BY DEF Shape, Listing
  <1>1. l \in Nat /\ b \in Pos /\ Len(reg.insts) \in Nat
    BY <1>0, AppendSeq DEF Record, Pos
  <1>2. /\ DOMAIN q = {"insts", "ring", "bring", "succs", "locals"}
        /\ q.insts = reg.insts /\ q.locals = reg.locals
    BY <1>0 DEF CreateBlock, Record
  <1>3. q.bring = InsertBefore(reg.bring, 0, b) /\ q.ring = NewSentinel(reg.ring, -b)
    BY <1>0 DEF CreateBlock, Record, NumBlocks
  <1>4. q.succs = Append(reg.succs, <<>>)
    BY <1>0 DEF CreateBlock, Record
  <1> HIDE DEF q
  <1>5. /\ IsSeq(q.succs) /\ Len(q.succs) = b /\ q.succs[b] = <<>>
        /\ \A e \in 1 .. l : q.succs[e] = reg.succs[e]
    BY <1>0, <1>4, AppendSeq DEF Record
  <1>6. Record(q)
    <2>1. IsSeq(<<>>)
      BY DEF IsSeq
    <2>2. \A e \in 1 .. Len(q.succs) : IsSeq(q.succs[e])
      <3> TAKE e \in 1 .. Len(q.succs)
      <3>1. e = b \/ e \in 1 .. l
        BY <1>1, <1>5
      <3> QED
        BY <1>0, <1>5, <2>1, <3>1 DEF Record
    <2> QED
      BY <1>0, <1>2, <1>5, <2>2 DEF Record
  <1>7. Nodes(q) = N \cup {-b} /\ -b \notin N /\ -b \in Int /\ -b <= 0
    <2> DEFINE m == Len(reg.insts)
    <2>1. m \in Nat /\ N = (-l .. -1) \cup (1 .. m) /\ Nodes(q) = (-b .. -1) \cup (1 .. m)
      BY <1>0, <1>1, <1>2, <1>5 DEF Nodes
    <2> HIDE DEF m, N, l
    <2>2. -(l + 1) .. -1 = (-l .. -1) \cup {-(l + 1)} /\ -(l + 1) \notin 1 .. m /\ -(l + 1) \notin -l .. -1
      BY <1>1, <2>1
    <2> QED
      BY <1>1, <2>1, <2>2
  <1>8. /\ W \in Seq(Seq(Pos)) /\ Len(W) = b /\ W[b] = <<>>
        /\ \A e \in 1 .. l : W[e] = B[e]
    <2>1. <<>> \in Seq(Pos)
      OBVIOUS
    <2> QED
      BY <1>0, <2>1
  <1> HIDE DEF W, N
  <1>9. /\ Chain(q.ring, Nodes(q), -b, <<>>)
        /\ \A e \in 1 .. l : Chain(q.ring, Nodes(q), -e, B[e])
    <2>1. Ring(reg.ring, N)
      BY DEF N
    <2> DEFINE s == -b
    <2>2. q.ring = NewSentinel(reg.ring, s) /\ Nodes(q) = N \cup {s} /\ s \notin N /\ s \in Int /\ s <= 0
      BY <1>3, <1>7
    <2> HIDE DEF b, s, l
    <2>3. Opens(q.ring, Nodes(q), reg.ring, N, s)
      BY <2>1, <2>2, SentinelChains
    <2>4. \A e \in 1 .. l : Chain(q.ring, Nodes(q), -e, B[e])
      BY <1>0, <2>3 DEF Opens
    <2> QED
      BY <2>3, <2>4 DEF Opens, s
  <1>10. \A e \in 1 .. Len(W) : Chain(q.ring, Nodes(q), -e, W[e])
    <2> TAKE e \in 1 .. Len(W)
    <2>1. e = b \/ e \in 1 .. l
      BY <1>1, <1>8
    <2> QED
      BY <1>8, <1>9, <2>1
  <1>11. Chain(q.bring, 0 .. b, 0, Count(b))
    <2>1. /\ Count(l) \in Seq(Pos) /\ Len(Count(l)) = l /\ Ins(Count(l), l + 1, l + 1) = Count(l + 1)
      BY <1>1, CountIs
    <2>2. Node(0, Count(l), l + 1) = 0 /\ l + 1 \in 1 .. Len(Count(l)) + 1 /\ l + 1 \notin 0 .. l
      BY <1>1, <2>1 DEF Node
    <2>3. Chain(InsertBefore(reg.bring, Node(0, Count(l), b), b), (0 .. l) \cup {b}, 0, Ins(Count(l), b, b))
      <3>1. b \in 1 .. Len(Count(l)) + 1 /\ b \in Pos /\ b \notin 0 .. l /\ Chain(reg.bring, 0 .. l, 0, Count(l))
        BY <1>0, <1>1, <2>2
      <3> HIDE DEF b, l
      <3> QED
        BY <3>1, InsertChain
    <2>4. (0 .. l) \cup {b} = 0 .. b
      <3> HIDE DEF l
      <3> QED
        BY <1>1
    <2> HIDE DEF l
    <2> QED
      BY <1>3, <2>1, <2>2, <2>3, <2>4
  <1>12. Distinct(W)
    <2> SUFFICES ASSUME NEW e \in 1 .. Len(W), NEW f \in 1 .. Len(W),
                        NEW j \in 1 .. Len(W[e]), NEW k \in 1 .. Len(W[f]), W[e][j] = W[f][k]
                 PROVE  e = f /\ j = k
      BY DEF Distinct
    <2>1. Len(<<>>) = 0
      OBVIOUS
    <2>2. e \in 1 .. l /\ f \in 1 .. l
      <3>1. e = b \/ e \in 1 .. l
        BY <1>1, <1>8
      <3>2. f = b \/ f \in 1 .. l
        BY <1>1, <1>8
      <3>3. e # b
        BY <1>8, <2>1
      <3>4. f # b
        BY <1>8, <2>1
      <3> QED
        BY <3>1, <3>2, <3>3, <3>4
    <2>3. B[e][j] = B[f][k] /\ j \in 1 .. Len(B[e]) /\ k \in 1 .. Len(B[f])
      BY <1>8, <2>2
    <2>4. Distinct(B)
      BY <1>0
    <2> QED
      BY <2>2, <2>3, <2>4 DEF Distinct
  <1>13. ASSUME NEW m, Listed(B, m) PROVE Listed(W, m)
    <2>1. PICK e \in 1 .. l : \E j \in 1 .. Len(B[e]) : B[e][j] = m
      BY <1>13 DEF Listed
    <2>2. e \in 1 .. Len(W) /\ W[e] = B[e]
      BY <1>1, <1>8
    <2> QED
      BY <2>1, <2>2 DEF Listed
  <1>14. Shape(q, W)
    <2>1. Listing(q, W)
      BY <1>5, <1>8, <1>10, <1>11, <1>12 DEF Listing
    <2>2. \A m \in 1 .. Len(q.insts) : Listed(W, m) \/ FoldsTo(q.insts[m]) # <<>>
      BY <1>0, <1>2, <1>13
    <2> QED
      BY <1>6, <2>1, <2>2 DEF Shape
  <1>15. Ring(q.ring, Nodes(q))
    BY <1>9 DEF Chain
  <1> QED
    BY <1>2, <1>4, <1>14, <1>15 DEF q, W

\* Block::AddSucc.
SuccAdded(q, reg, B, b, s) ==
  /\ Shape(q, B) /\ q.insts = reg.insts
  /\ q.succs = [reg.succs EXCEPT ![b] = Append(reg.succs[b], s)]

LEMMA AddSuccShape ==
  ASSUME NEW reg, NEW B, Shape(reg, B), NEW b \in 1 .. Len(B), NEW s
  PROVE  SuccAdded(AddSucc(reg, b, s), reg, B, b, s)
  <1> DEFINE q == AddSucc(reg, b, s)
             e == Append(reg.succs[b], s)
  <1>0. Record(reg) /\ Len(B) = Len(reg.succs) /\ Len(reg.succs) \in Nat
    BY AppendSeq DEF Shape, Listing, Record
  <1>1. /\ DOMAIN q = {"insts", "ring", "bring", "succs", "locals"}
        /\ q.insts = reg.insts /\ q.ring = reg.ring /\ q.bring = reg.bring /\ q.locals = reg.locals
        /\ q.succs = [reg.succs EXCEPT ![b] = e]
    BY <1>0 DEF AddSucc, Record
  <1>2. IsSeq(reg.succs) /\ IsSeq(e) /\ DOMAIN reg.succs = 1 .. Len(reg.succs)
    BY <1>0, AppendSeq DEF Record
  <1> HIDE DEF q, e
  <1>3. DOMAIN q.succs = 1 .. Len(reg.succs) /\ q.succs[b] = e
        /\ \A x \in 1 .. Len(reg.succs) : x # b => q.succs[x] = reg.succs[x]
    BY <1>0, <1>1, <1>2
  <1>4. q.succs \in [1 .. Len(reg.succs) -> Range(q.succs)]
    BY <1>1, <1>3 DEF Range
  <1>5. IsSeq(q.succs) /\ Len(q.succs) = Len(reg.succs)
    BY <1>0, <1>4, FunSeq DEF IsSeq
  <1>6. Record(q)
    BY <1>0, <1>1, <1>2, <1>3, <1>5 DEF Record
  <1>7. Nodes(q) = Nodes(reg)
    BY <1>1, <1>5 DEF Nodes
  <1>8. Shape(q, B)
    BY <1>1, <1>5, <1>6, <1>7 DEF Shape, Listing
  <1> QED
    BY <1>1, <1>8 DEF q, e, SuccAdded

-----------------------------------------------------------------------------
(* What the translators make *)

\* i is an instruction of the inside of a block.
Inner(i) == IsInst(i) /\ ~BlockEnds(i)

\* A sequence of inner instructions, and one that ends a block.
Plain(s) == IsSeq(s) /\ \A k \in 1 .. Len(s) : Inner(s[k])
Closing(s) ==
  /\ IsSeq(s) /\ Len(s) > 0 /\ \A k \in 1 .. Len(s) - 1 : Inner(s[k])
  /\ IsInst(s[Len(s)]) /\ BlockEnds(s[Len(s)]) /\ Succs(s[Len(s)]) = 0

\* Folding makes no difference to where a block ends.
LEMMA KeptEnds ==
  ASSUME NEW i, IsInst(i)
  PROVE  (BlockEnds(Kept(i)) <=> BlockEnds(i)) /\ Succs(Kept(i)) = Succs(i)
  <1>1. CASE i.op = "add"
    <2>1. Canonical(i).op = "add"
      <3>1. i = [op |-> "add", x |-> i.x, opr |-> i.opr, at |-> i.at]
        BY <1>1 DEF IsInst, Inst
      <3> QED
        BY <1>1, <3>1 DEF Canonical
    <2>2. Kept(i).op \in {"add", "mov"}
      BY <2>1 DEF Kept, Inst
    <2>3. ~BlockEnds(Kept(i)) /\ ~BlockEnds(i)
      BY <1>1, <2>2 DEF BlockEnds
    <2>4. Succs(Kept(i)) = 0 /\ Succs(i) = 0
      BY <1>1, <2>2 DEF Succs
    <2> QED
      BY <2>3, <2>4
  <1>2. CASE i.op # "add"
    <2>1. Canonical(i) = i
      BY <1>2 DEF Canonical
    <2>2. MovOf(i) = <<>>
      BY <1>2 DEF MovOf
    <2>3. Kept(i) = i
      BY <2>1, <2>2 DEF Kept, FoldsTo
    <2> QED
      BY <2>3
  <1> QED
    BY <1>1, <1>2

LEMMA JoinSeq ==
  ASSUME NEW x, NEW y, IsSeq(x), IsSeq(y)
  PROVE  /\ IsSeq(x \o y) /\ Len(x) \in Nat /\ Len(y) \in Nat /\ Len(x \o y) = Len(x) + Len(y)
         /\ \A k \in 1 .. Len(x) : (x \o y)[k] = x[k]
         /\ \A k \in Len(x) + 1 .. Len(x) + Len(y) : (x \o y)[k] = y[k - Len(x)]
  <1> DEFINE T == Range(x) \cup Range(y)
             a == x \o y
  <1>1. x \in Seq(T) /\ y \in Seq(T)
    BY DEF IsSeq
  <1> HIDE DEF T
  <1>2. /\ a \in Seq(T) /\ Len(x) \in Nat /\ Len(y) \in Nat /\ Len(a) = Len(x) + Len(y)
        /\ (\A k \in 1 .. Len(x) : a[k] = x[k])
        /\ \A k \in Len(x) + 1 .. Len(x) + Len(y) : a[k] = y[k - Len(x)]
    BY <1>1
  <1> HIDE DEF a
  <1>3. DOMAIN a = 1 .. Len(a) /\ Len(a) \in Nat /\ a = [k \in 1 .. Len(a) |-> a[k]]
    BY <1>2
  <1>4. a \in [1 .. Len(a) -> Range(a)]
    BY <1>3 DEF Range
  <1>5. IsSeq(a)
    BY <1>3, <1>4 DEF IsSeq
  <1> QED
    BY <1>2, <1>5 DEF a

LEMMA PlainJoin ==
  ASSUME NEW x, NEW y, Plain(x)
  PROVE  (Plain(y) => Plain(x \o y)) /\ (Closing(y) => Closing(x \o y))
  <1> DEFINE a == x \o y
             m == Len(x)
             n == Len(y)
  <1>1. ASSUME IsSeq(y)
        PROVE  /\ IsSeq(a) /\ m \in Nat /\ n \in Nat /\ Len(a) = m + n
               /\ \A k \in 1 .. m : a[k] = x[k]
               /\ \A k \in m + 1 .. m + n : a[k] = y[k - m]
    BY <1>1, JoinSeq DEF Plain
  <1> HIDE DEF a
  <1>2. ASSUME IsSeq(y), NEW k \in 1 .. Len(a)
        PROVE  (a[k] = x[k] /\ k \in 1 .. m) \/ (a[k] = y[k - m] /\ k - m \in 1 .. n)
    <2>1. /\ m \in Nat /\ n \in Nat /\ Len(a) = m + n
          /\ \A j \in 1 .. m : a[j] = x[j]
          /\ \A j \in m + 1 .. m + n : a[j] = y[j - m]
      BY <1>1, <1>2
    <2> HIDE DEF m, n
    <2>2. k \in 1 .. m \/ (k \in m + 1 .. m + n /\ k - m \in 1 .. n)
      BY <1>2, <2>1
    <2> QED
      BY <2>1, <2>2
  <1>3. ASSUME Plain(y) PROVE Plain(a)
    BY <1>1, <1>2, <1>3 DEF Plain
  <1>4. ASSUME Closing(y) PROVE Closing(a)
    <2>1. IsSeq(y) /\ n > 0
      BY <1>4 DEF Closing
    <2>2. /\ IsSeq(a) /\ m \in Nat /\ n \in Nat /\ Len(a) = m + n
          /\ \A k \in 1 .. m : a[k] = x[k]
          /\ \A k \in m + 1 .. m + n : a[k] = y[k - m]
      BY <1>1, <2>1
    <2>3. Len(a) > 0 /\ a[Len(a)] = y[n]
      <3> HIDE DEF m, n
      <3>1. m + n \in m + 1 .. m + n /\ (m + n) - m = n
        BY <2>1, <2>2
      <3> QED
        BY <2>1, <2>2, <3>1
    <2>4. ASSUME NEW k \in 1 .. Len(a) - 1 PROVE Inner(a[k])
      <3>1. k \in 1 .. m \/ (k \in m + 1 .. m + n /\ k - m \in 1 .. n - 1)
        <4> HIDE DEF m, n
        <4> QED
          BY <2>1, <2>2
      <3> QED
        BY <1>4, <2>2, <3>1 DEF Plain, Closing
    <2> QED
      BY <1>4, <2>2, <2>3, <2>4 DEF Closing
  <1> QED
    BY <1>3, <1>4 DEF a

LEMMA PlainOne ==
  ASSUME NEW i
  PROVE  /\ Plain(<<>>) /\ (Inner(i) => Plain(<<i>>))
         /\ (IsInst(i) /\ BlockEnds(i) /\ Succs(i) = 0 => Closing(<<i>>))
         /\ IsSeq(<<i>>) /\ Len(<<i>>) = 1 /\ <<i>>[1] = i
  <1>1. /\ Len(<<>>) = 0 /\ IsSeq(<<>>) /\ Len(<<i>>) = 1 /\ <<i>>[1] = i
        /\ 1 .. 0 = {} /\ 1 .. 1 = {1} /\ 1 - 1 = 0
    BY DEF IsSeq
  <1>2. <<i>> \in Seq({i}) /\ Range(<<i>>) = {i}
    BY DEF Range
  <1>3. IsSeq(<<i>>)
    BY <1>2 DEF IsSeq
  <1> QED
    BY <1>1, <1>3 DEF Plain, Closing

\* An instruction that is no jump and no call is an inner one.
LEMMA InnerInst ==
  ASSUME NEW op, NEW x, NEW opr, NEW at, op \notin {"br", "brcc", "gbr", "gbrind", "hcall"}
  PROVE  Inner(Inst(op, x, opr, at)) /\ IsInst(Inst(op, x, opr, at))
  BY DEF Inner, IsInst, BlockEnds, Inst

LEMMA MovToPlain ==
  ASSUME NEW i, NEW n, NEW ip
  PROVE  Plain(MovTo(i, n, ip))
  <1>1. Inner(Inst("mov", "none", <<vgpr(i.rd, I32), vconst(n)>>, ip))
    BY InnerInst
  <1> QED
    BY <1>1, PlainOne DEF MovTo

LEMMA PreSideeffPlain ==
  ASSUME NEW i, NEW ip
  PROVE  Plain(PreSideeff(i, ip))
  <1>1. Inner(Inst("mov", "none", <<MakeSlot(TRUE, I32, IPOffs), vconst(ip)>>, ip))
    BY InnerInst
  <1> QED
    BY <1>1, PlainOne DEF PreSideeff

LEMMA ArithPlain ==
  ASSUME NEW i, NEW ip, i.op \in ArithOps
  PROVE  Plain(V_arith(i, ip))
  <1>1. IrOp(i.op) \notin {"br", "brcc", "gbr", "gbrind", "hcall"}
    BY DEF IrOp, ArithOps, RegOps, ShiftImmOps
  <1>2. Inner(Inst(IrOp(i.op), "none", <<vgpr(i.rd, I32), gprop(i.rs1, I32), Second(i)>>, ip))
    BY <1>1, InnerInst
  <1> QED
    BY <1>2, PlainOne DEF V_arith

LEMMA SetccPlain ==
  ASSUME NEW i, NEW ip
  PROVE  Plain(V_setcc(i, ip))
  <1>1. Inner(Inst("setcc", Cc(i.op), <<vgpr(i.rd, I32), gprop(i.rs1, I32), Second(i)>>, ip))
    BY InnerInst
  <1> QED
    BY <1>1, PlainOne DEF V_setcc

LEMMA AccessPlain ==
  ASSUME NEW i, NEW ip, NEW t
  PROVE  Plain(V_access(i, ip, t))
  <1> DEFINE addr == IF i.imm = 0 THEN gprop(i.rs1, I32) ELSE t
             st == Inst("vmstore", Access(i.op), <<addr, gprop(i.rs2, Access(i.op)[1])>>, ip)
             ld == Inst("vmload", Access(i.op), <<IF i.rd = 0 THEN addr ELSE vgpr(i.rd, I32), addr>>, ip)
  <1>1. Inner(Inst("add", "none", <<t, gprop(i.rs1, I32), vconst(i.imm)>>, ip))
    BY InnerInst
  <1>2. Plain(V_addr(i, ip, t))
    BY <1>1, PlainOne DEF V_addr
  <1>3. Inner(st) /\ Inner(ld)
    <2> HIDE DEF addr
    <2> QED
      BY InnerInst
  <1>4. V_access(i, ip, t) = V_addr(i, ip, t) \o (IF i.op \in StoreOps THEN <<st>> ELSE <<ld>>)
    BY DEF V_access
  <1> HIDE DEF st, ld
  <1>5. Plain(<<st>>) /\ Plain(<<ld>>)
    BY <1>3, PlainOne
  <1>6. Plain(V_addr(i, ip, t) \o <<st>>) /\ Plain(V_addr(i, ip, t) \o <<ld>>)
    BY <1>2, <1>5, PlainJoin
  <1> QED
    BY <1>4, <1>6

LEMMA JalrCloses ==
  ASSUME NEW i, NEW ip, NEW t
  PROVE  Closing(V_jalr(i, ip, t))
  <1> DEFINE sum == Inst("add", "none", <<t, gprop(i.rs1, I32), vconst(i.imm)>>, ip)
             mask == Inst("and", "none", <<t, t, vconst(-2)>>, ip)
             go == Inst("gbrind", "none", <<t>>, ip)
             link == MovTo(i, ip + 4, ip)
  <1>1. Inner(sum) /\ Inner(mask)
    BY InnerInst
  <1>2. IsInst(go) /\ BlockEnds(go) /\ Succs(go) = 0
    BY DEF IsInst, BlockEnds, Succs, Inst
  <1>3. V_jalr(i, ip, t) = (<<sum, mask>> \o link) \o <<go>>
    BY DEF V_jalr
  <1>4. Plain(link)
    BY MovToPlain
  <1> HIDE DEF sum, mask, go, link
  <1>5. Plain(<<sum, mask>>)
    <2> DEFINE p == <<sum, mask>>
    <2>1. p \in Seq({sum, mask}) /\ Len(p) = 2 /\ p[1] = sum /\ p[2] = mask /\ DOMAIN p = 1 .. 2
      OBVIOUS
    <2>2. p \in [1 .. 2 -> Range(p)]
      BY <2>1 DEF Range
    <2> HIDE DEF p
    <2>3. IsSeq(p)
      BY <2>1, <2>2 DEF IsSeq
    <2>4. \A k \in 1 .. Len(p) : Inner(p[k])
      BY <1>1, <2>1
    <2> QED
      BY <2>3, <2>4 DEF Plain, p
  <1>6. Plain(<<sum, mask>> \o link)
    BY <1>4, <1>5, PlainJoin
  <1>7. Closing(<<go>>)
    BY <1>2, PlainOne
  <1>8. Closing((<<sum, mask>> \o link) \o <<go>>)
    BY <1>6, <1>7, PlainJoin
  <1> QED
    BY <1>3, <1>8

\* The body of the translator of i: it ends the block for an indirect jump and
\* for a helper that raises.
Body(i, ip, t, raw) == PreSideeff(i, ip) \o V_code(i, ip, t, raw)

LEMMA BodyIs ==
  ASSUME NEW i, NEW ip, NEW t, NEW raw
  PROVE  IF i.op \in {"jalr", "ecall", "ebreak"} THEN Closing(Body(i, ip, t, raw))
         ELSE Plain(Body(i, ip, t, raw))
  <1> DEFINE c == V_code(i, ip, t, raw)
             call == Inst("hcall", i.op, <<vconst(raw)>>, ip)
  <1>0. /\ IsInst(call) /\ V_helper(i, ip, raw) = <<call>>
        /\ i.op \in Raises => BlockEnds(call)
        /\ i.op \notin Raises => ~BlockEnds(call)
        /\ Succs(call) = 0
    BY DEF IsInst, BlockEnds, Succs, Inst, V_helper
  <1> HIDE DEF call
  <1>1. CASE i.op = "jalr"
    <2>1. c = V_jalr(i, ip, t)
      BY <1>1 DEF V_code, ArithOps, SetccOps, ShiftImmOps, RegOps, LoadOps, StoreOps, HelperOps
    <2>2. Closing(c)
      BY <2>1, JalrCloses
    <2> HIDE DEF c
    <2> QED
      BY <1>1, <2>2, PreSideeffPlain, PlainJoin DEF Body, c
  <1>2. CASE i.op \in {"ecall", "ebreak"}
    <2>1. c = V_helper(i, ip, raw)
      BY <1>2 DEF V_code, ArithOps, SetccOps, ShiftImmOps, RegOps, LoadOps, StoreOps, HelperOps
    <2>2. Closing(c)
      BY <1>0, <1>2, <2>1, PlainOne DEF Raises
    <2> HIDE DEF c
    <2> QED
      BY <1>2, <2>2, PreSideeffPlain, PlainJoin DEF Body, c
  <1>3. CASE i.op \notin {"jalr", "ecall", "ebreak"}
    <2>7. Plain(c)
      <3>1. CASE i.op \in ArithOps
        <4>1. c = V_arith(i, ip)
          BY <3>1 DEF V_code, ArithOps, SetccOps, ShiftImmOps, RegOps, LoadOps, StoreOps, HelperOps
        <4> QED
          BY <3>1, <4>1, ArithPlain
      <3>2. CASE i.op \in SetccOps
        <4>1. c = V_setcc(i, ip)
          BY <3>2 DEF V_code, ArithOps, SetccOps, ShiftImmOps, RegOps, LoadOps, StoreOps, HelperOps
        <4> QED
          BY <4>1, SetccPlain
      <3>3. CASE i.op \in LoadOps \cup StoreOps
        <4>1. c = V_access(i, ip, t)
          BY <3>3 DEF V_code, ArithOps, SetccOps, ShiftImmOps, RegOps, LoadOps, StoreOps, HelperOps
        <4> QED
          BY <4>1, AccessPlain
      <3>4. CASE i.op \in {"fence", "fencei"}
        <4>1. c = V_helper(i, ip, raw)
          BY <3>4 DEF V_code, ArithOps, SetccOps, ShiftImmOps, RegOps, LoadOps, StoreOps, HelperOps
        <4>2. i.op \notin Raises
          BY <3>4 DEF Raises
        <4> QED
          BY <1>0, <4>1, <4>2, PlainOne DEF Inner
      <3>5. CASE i.op \in {"lui", "auipc", "jal"}
        <4>1. c \in {MovTo(i, i.imm, ip), MovTo(i, AddU32(i.imm, ip), ip), MovTo(i, ip + 4, ip)}
          BY <3>5 DEF V_code, ArithOps, SetccOps, ShiftImmOps, RegOps, LoadOps, StoreOps, HelperOps
        <4> QED
          BY <4>1, MovToPlain
      <3>6. CASE i.op \notin ArithOps \cup SetccOps \cup LoadOps \cup StoreOps
                     \cup {"fence", "fencei", "lui", "auipc", "jal"}
        <4>1. c = <<>>
          BY <1>3, <3>6 DEF V_code, HelperOps
        <4> QED
          BY <4>1, PlainOne
      <3> QED
        BY <3>1, <3>2, <3>3, <3>4, <3>5, <3>6
    <2> HIDE DEF c
    <2> QED
      BY <1>3, <2>7, PreSideeffPlain, PlainJoin DEF Body, c
  <1> QED
    BY <1>1, <1>2, <1>3

-----------------------------------------------------------------------------
(* Blocks while they grow *)

LEMMA InList ==
  ASSUME NEW reg, NEW B, Shape(reg, B), NEW b \in 1 .. Len(B)
  PROVE  /\ B[b] \in Seq(Pos) /\ Len(B[b]) \in Nat
         /\ \A k \in 1 .. Len(B[b]) : B[b][k] \in Pos /\ B[b][k] \in 1 .. Len(reg.insts)
  <1>1. /\ B[b] \in Seq(Pos) /\ Len(reg.insts) \in Nat /\ Len(reg.succs) \in Nat
        /\ Chain(reg.ring, Nodes(reg), -b, B[b])
    BY AppendSeq DEF Shape, Listing, Record
  <1> DEFINE c == B[b]
             m == Len(reg.insts)
             n == Len(reg.succs)
  <1>2. /\ c \in Seq(Pos) /\ m \in Nat /\ n \in Nat
        /\ \A k \in 1 .. Len(c) : c[k] \in (-n .. -1) \cup (1 .. m)
    BY <1>1 DEF Chain, List, Nodes
  <1> HIDE DEF c, m, n
  <1>3. \A k \in 1 .. Len(c) : c[k] \in Pos /\ c[k] \in 1 .. m
    BY <1>2 DEF Pos
  <1> QED
    BY <1>2, <1>3 DEF c, m

\* Block b of W is that of B with body put in front of its element k.
Spliced(q, reg, B, W, b, k, body) ==
  /\ Shape(q, W) /\ Len(W) = Len(B) /\ q.succs = reg.succs
  /\ \E ms \in Seq(Pos) : Len(ms) = Len(body) /\ W[b] = Splice(B[b], k, ms)
  /\ \A e \in 1 .. Len(B) : e # b =>
       /\ W[e] = B[e]
       /\ \A j \in 1 .. Len(B[e]) : q.insts[W[e][j]] = reg.insts[B[e][j]]
  /\ Len(W[b]) = Len(B[b]) + Len(body)
  /\ \A j \in 1 .. k - 1 : q.insts[W[b][j]] = reg.insts[B[b][j]]
  /\ \A l \in 1 .. Len(body) : q.insts[W[b][k + l - 1]] = Kept(body[l])
  /\ \A j \in k .. Len(B[b]) :
       W[b][j + Len(body)] = B[b][j] /\ q.insts[B[b][j]] = reg.insts[B[b][j]]

LEMMA GrowIs ==
  ASSUME NEW reg, NEW B, Shape(reg, B), NEW b \in 1 .. Len(B), NEW k \in 1 .. Len(B[b]) + 1,
         NEW body, IsSeq(body), \A l \in 1 .. Len(body) : IsInst(body[l])
  PROVE  \E W : Spliced(CreateAll(reg, Node(-b, B[b], k), body), reg, B, W, b, k, body)
  <1> DEFINE q == CreateAll(reg, Node(-b, B[b], k), body)
             c == B[b]
             n == Len(body)
  <1>1. n \in Nat
    BY AppendSeq
  <1>2. PICK ms : Grown(q, reg, B, b, k, body, n, ms)
    BY <1>1, CreateAllIs
  <1> DEFINE d == Splice(c, k, ms)
             W == With(B, b, d)
  <1>3. /\ B \in Seq(Seq(Pos)) /\ c \in Seq(Pos) /\ Len(c) \in Nat /\ Len(reg.insts) \in Nat
        /\ \A j \in 1 .. Len(c) : c[j] \in 1 .. Len(reg.insts)
    BY InList, AppendSeq DEF Shape, Listing, Record
  <1>4. /\ ms \in Seq(Pos) /\ Len(ms) = n /\ Shape(q, W) /\ q.succs = reg.succs
        /\ \A l \in 1 .. n : q.insts[ms[l]] = Kept(body[l])
        /\ \A m \in 1 .. Len(reg.insts) : q.insts[m] = reg.insts[m]
    BY <1>2 DEF Grown
  <1> HIDE DEF q
  <1>5. /\ d \in Seq(Pos) /\ Len(d) = Len(c) + n
        /\ \A j \in 1 .. Len(c) + n :
             d[j] = IF j < k THEN c[j] ELSE IF j < k + n THEN ms[j - k + 1] ELSE c[j - n]
    <2> HIDE DEF n
    <2> QED
      BY <1>3, <1>4, SpliceIs DEF c
  <1> HIDE DEF d
  <1>6. Len(W) = Len(B) /\ W[b] = d /\ \A e \in 1 .. Len(B) : e # b => W[e] = B[e]
    BY <1>3, <1>5, WithIs DEF HasBlock
  <1> HIDE DEF W
  <1>7. ASSUME NEW e \in 1 .. Len(B), e # b
        PROVE  W[e] = B[e] /\ \A j \in 1 .. Len(B[e]) : q.insts[W[e][j]] = reg.insts[B[e][j]]
    <2>1. \A j \in 1 .. Len(B[e]) : B[e][j] \in 1 .. Len(reg.insts)
      BY InList
    <2> QED
      BY <1>4, <1>6, <1>7, <2>1
  <1>8. k \in 1 .. Len(c) + 1
    OBVIOUS
  <1> HIDE DEF c, n
  <1>9. ASSUME NEW j \in 1 .. k - 1
        PROVE  q.insts[d[j]] = reg.insts[c[j]]
    <2>1. j \in 1 .. Len(c) + n /\ j < k /\ j \in 1 .. Len(c)
      BY <1>1, <1>3, <1>8
    <2> QED
      BY <1>3, <1>4, <1>5, <2>1
  <1>10. ASSUME NEW l \in 1 .. n
         PROVE  q.insts[d[k + l - 1]] = Kept(body[l])
    <2>1. /\ k + l - 1 \in 1 .. Len(c) + n /\ ~(k + l - 1 < k) /\ k + l - 1 < k + n
          /\ (k + l - 1) - k + 1 = l
      BY <1>1, <1>3, <1>8
    <2>2. d[k + l - 1] = ms[l]
      BY <1>5, <2>1
    <2> QED
      BY <1>4, <2>2
  <1>11. ASSUME NEW j \in k .. Len(c)
         PROVE  d[j + n] = c[j] /\ q.insts[c[j]] = reg.insts[c[j]]
    <2>1. /\ j + n \in 1 .. Len(c) + n /\ ~(j + n < k) /\ ~(j + n < k + n)
          /\ (j + n) - n = j /\ j \in 1 .. Len(c)
      BY <1>1, <1>3, <1>8
    <2>2. d[j + n] = c[j]
      BY <1>5, <2>1
    <2> QED
      BY <1>3, <1>4, <2>1, <2>2
  <1>12. Spliced(q, reg, B, W, b, k, body)
    <2>1. \E xs \in Seq(Pos) : Len(xs) = Len(body) /\ W[b] = Splice(B[b], k, xs)
      BY <1>4, <1>6 DEF d, c, n
    <2> QED
      BY <1>4, <1>5, <1>6, <1>7, <1>9, <1>10, <1>11, <2>1 DEF Spliced, c, n
  <1> QED
    BY <1>12 DEF q

\* The instructions c have no jump.
Free(insts, c) == \A k \in 1 .. Len(c) : ~BlockEnds(insts[c[k]])

\* The last of c is its only jump, and has n successors.
Jumps(insts, c, n) ==
  /\ Len(c) > 0 /\ BlockEnds(insts[c[Len(c)]]) /\ Succs(insts[c[Len(c)]]) = n
  /\ \A k \in 1 .. Len(c) - 1 : ~BlockEnds(insts[c[k]])

Growing(reg, B, b) == Free(reg.insts, B[b]) /\ reg.succs[b] = <<>>
Complete(reg, B, b) == Jumps(reg.insts, B[b], Len(reg.succs[b]))

LEMMA OthersStay ==
  ASSUME NEW q, NEW reg, NEW B, NEW W, NEW b, NEW k, NEW body, Spliced(q, reg, B, W, b, k, body),
         Shape(reg, B), NEW e \in 1 .. Len(B), e # b
  PROVE  /\ Complete(reg, B, e) => Complete(q, W, e)
         /\ Growing(reg, B, e) => Growing(q, W, e)
  <1>1. /\ W[e] = B[e] /\ q.succs = reg.succs /\ Len(B[e]) \in Nat
        /\ \A j \in 1 .. Len(B[e]) : q.insts[B[e][j]] = reg.insts[B[e][j]]
    BY InList DEF Spliced
  <1>2. ASSUME Complete(reg, B, e) PROVE Complete(q, W, e)
    <2> DEFINE c == B[e]
    <2>1. /\ Len(c) > 0 /\ BlockEnds(reg.insts[c[Len(c)]])
          /\ Succs(reg.insts[c[Len(c)]]) = Len(reg.succs[e])
          /\ \A j \in 1 .. Len(c) - 1 : ~BlockEnds(reg.insts[c[j]])
      BY <1>2 DEF Complete, Jumps
    <2>2. Len(c) \in 1 .. Len(c) /\ \A j \in 1 .. Len(c) - 1 : j \in 1 .. Len(c)
      BY <1>1, <2>1
    <2>3. q.insts[c[Len(c)]] = reg.insts[c[Len(c)]]
      BY <1>1, <2>2
    <2>4. \A j \in 1 .. Len(c) - 1 : ~BlockEnds(q.insts[c[j]])
      BY <1>1, <2>1, <2>2
    <2> QED
      BY <1>1, <2>1, <2>3, <2>4 DEF Complete, Jumps
  <1>3. ASSUME Growing(reg, B, e) PROVE Growing(q, W, e)
    BY <1>1, <1>3 DEF Growing, Free
  <1> QED
    BY <1>2, <1>3

Translating(reg, B) ==
  /\ Shape(reg, B) /\ Len(B) > 0 /\ Growing(reg, B, 1)
  /\ \A e \in 2 .. Len(B) : Complete(reg, B, e)

Whole(reg, B) ==
  Shape(reg, B) /\ Len(B) > 0 /\ \A e \in 1 .. Len(B) : Complete(reg, B, e)

LEMMA AppendPlain ==
  ASSUME NEW reg, NEW B, Translating(reg, B), NEW body, Plain(body)
  PROVE  \E W : Translating(CreateAll(reg, -1, body), W)
  <1> DEFINE q == CreateAll(reg, -1, body)
             k == Len(B[1]) + 1
             n == Len(body)
  <1>0. /\ Shape(reg, B) /\ Len(B) \in Nat /\ Len(B) > 0 /\ 1 \in 1 .. Len(B)
        /\ Free(reg.insts, B[1]) /\ reg.succs[1] = <<>>
        /\ \A e \in 2 .. Len(B) : Complete(reg, B, e)
    BY DEF Translating, Shape, Listing, Growing
  <1>1. /\ Len(B[1]) \in Nat /\ n \in Nat /\ IsSeq(body) /\ k \in 1 .. Len(B[1]) + 1
        /\ \A l \in 1 .. n : IsInst(body[l]) /\ ~BlockEnds(body[l])
    BY <1>0, InList, AppendSeq DEF Plain, Inner
  <1>2. Node(-1, B[1], k) = -1
    BY <1>1 DEF Node
  <1>3. PICK W : Spliced(q, reg, B, W, 1, k, body)
    <2>1. \E W : Spliced(CreateAll(reg, Node(-1, B[1], k), body), reg, B, W, 1, k, body)
      <3> HIDE DEF k
      <3> QED
        BY <1>0, <1>1, GrowIs
    <2> QED
      BY <1>2, <2>1
  <1>4. /\ Shape(q, W) /\ Len(W) = Len(B) /\ q.succs = reg.succs /\ Len(W[1]) = Len(B[1]) + n
        /\ \A j \in 1 .. k - 1 : q.insts[W[1][j]] = reg.insts[B[1][j]]
        /\ \A l \in 1 .. n : q.insts[W[1][k + l - 1]] = Kept(body[l])
    BY <1>3 DEF Spliced
  <1> DEFINE m == Len(B[1])
  <1>5. ASSUME NEW j \in 1 .. Len(W[1]) PROVE ~BlockEnds(q.insts[W[1][j]])
    <2>1. j \in 1 .. m \/ (j - m \in 1 .. n /\ (m + 1) + (j - m) - 1 = j)
      <3>1. m \in Nat /\ n \in Nat /\ j \in 1 .. m + n
        BY <1>1, <1>4
      <3> HIDE DEF m, n
      <3> QED
        BY <3>1
    <2>2. CASE j \in 1 .. m
      <3>1. k - 1 = m
        BY <1>1
      <3> QED
        BY <1>0, <1>4, <2>2, <3>1 DEF Free
    <2>3. CASE j - m \in 1 .. n /\ (m + 1) + (j - m) - 1 = j
      <3>1. q.insts[W[1][j]] = Kept(body[j - m])
        BY <1>4, <2>3
      <3> QED
        BY SMTT(30), <1>1, <2>3, <3>1, KeptEnds
    <2> QED
      BY <2>1, <2>2, <2>3
  <1>6. Growing(q, W, 1)
    BY <1>0, <1>4, <1>5 DEF Growing, Free
  <1>7. ASSUME NEW e \in 2 .. Len(W) PROVE Complete(q, W, e)
    <2>1. e \in 1 .. Len(B) /\ e # 1 /\ e \in 2 .. Len(B)
      BY <1>0, <1>4
    <2> QED
      BY <1>0, <1>3, <2>1, OthersStay
  <1> QED
    BY <1>0, <1>4, <1>6, <1>7 DEF Translating

\* Block b of q, a jump to n blocks at its end, is all that changed.
Jumped(q, reg, B, W, b, n) ==
  /\ Shape(q, W) /\ Len(W) = Len(B) /\ q.succs = reg.succs
  /\ Jumps(q.insts, W[b], n)
  /\ \A e \in 1 .. Len(B) : e # b =>
       /\ Complete(reg, B, e) => Complete(q, W, e)
       /\ Growing(reg, B, e) => Growing(q, W, e)

Ending(s) ==
  /\ IsSeq(s) /\ Len(s) > 0 /\ \A k \in 1 .. Len(s) - 1 : Inner(s[k])
  /\ IsInst(s[Len(s)]) /\ BlockEnds(s[Len(s)])

LEMMA AppendEnding ==
  ASSUME NEW reg, NEW B, Shape(reg, B), NEW b \in 1 .. Len(B), Free(reg.insts, B[b]),
         NEW body, Ending(body)
  PROVE  \E W : Jumped(CreateAll(reg, -b, body), reg, B, W, b, Succs(body[Len(body)]))
  <1> DEFINE q == CreateAll(reg, -b, body)
             k == Len(B[b]) + 1
             n == Len(body)
             m == Len(B[b])
  <1>1. /\ m \in Nat /\ n \in Nat /\ n > 0 /\ IsSeq(body) /\ k \in 1 .. Len(B[b]) + 1
        /\ \A l \in 1 .. n - 1 : IsInst(body[l]) /\ ~BlockEnds(body[l])
        /\ IsInst(body[n]) /\ BlockEnds(body[n])
    BY InList, AppendSeq DEF Ending, Inner
  <1>2. Node(-b, B[b], k) = -b
    BY <1>1 DEF Node
  <1>3. PICK W : Spliced(q, reg, B, W, b, k, body)
    <2>0. \A l \in 1 .. n : IsInst(body[l])
      <3>1. \A l \in 1 .. n : l = n \/ l \in 1 .. n - 1
        BY <1>1
      <3> QED
        BY <1>1, <3>1
    <2>1. \E W : Spliced(CreateAll(reg, Node(-b, B[b], k), body), reg, B, W, b, k, body)
      <3> HIDE DEF k
      <3> QED
        BY <1>1, <2>0, GrowIs
    <2> QED
      BY <1>2, <2>1
  <1>4. /\ Shape(q, W) /\ Len(W) = Len(B) /\ q.succs = reg.succs /\ Len(W[b]) = m + n
        /\ \A j \in 1 .. k - 1 : q.insts[W[b][j]] = reg.insts[B[b][j]]
        /\ \A l \in 1 .. n : q.insts[W[b][k + l - 1]] = Kept(body[l])
    BY <1>3 DEF Spliced
  <1>5. ASSUME NEW j \in 1 .. Len(W[b]) - 1 PROVE ~BlockEnds(q.insts[W[b][j]])
    <2>1. j \in 1 .. m \/ (j - m \in 1 .. n - 1 /\ j - m \in 1 .. n /\ (m + 1) + (j - m) - 1 = j)
      <3>1. m \in Nat /\ n \in Nat /\ j \in 1 .. m + n - 1
        BY <1>1, <1>4
      <3> HIDE DEF m, n
      <3> QED
        BY <3>1
    <2>2. CASE j \in 1 .. m
      <3>1. k - 1 = m
        BY <1>1
      <3> QED
        BY <1>4, <2>2, <3>1 DEF Free
    <2>3. CASE j - m \in 1 .. n - 1 /\ j - m \in 1 .. n /\ (m + 1) + (j - m) - 1 = j
      <3>1. q.insts[W[b][j]] = Kept(body[j - m])
        BY <1>4, <2>3
      <3> QED
        BY <1>1, <2>3, <3>1, KeptEnds
    <2> QED
      BY <2>1, <2>2, <2>3
  <1>6. q.insts[W[b][m + n]] = Kept(body[n]) /\ m + n > 0
    <2>1. (m + 1) + n - 1 = m + n /\ n \in 1 .. n /\ m + n > 0
      <3> HIDE DEF m, n
      <3> QED
        BY <1>1
    <2> QED
      BY <1>4, <2>1
  <1>7. BlockEnds(Kept(body[n])) /\ Succs(Kept(body[n])) = Succs(body[n])
    BY <1>1, KeptEnds
  <1>8. Jumps(q.insts, W[b], Succs(body[n]))
    BY <1>4, <1>5, <1>6, <1>7 DEF Jumps
  <1>9. \A e \in 1 .. Len(B) : e # b =>
          /\ Complete(reg, B, e) => Complete(q, W, e)
          /\ Growing(reg, B, e) => Growing(q, W, e)
    BY <1>3, OthersStay
  <1> QED
    BY <1>4, <1>8, <1>9 DEF Jumped

LEMMA CreateAllOne ==
  ASSUME NEW reg, NEW x, NEW i
  PROVE  CreateAll(reg, x, <<i>>) = Create(reg, x, i)
  <1> DEFINE body == <<i>>
  <1>1. Len(body) = 1 /\ body[1] = i /\ Len(body) \in Nat
    OBVIOUS
  <1> HIDE DEF body
  <1>2. PICK made : Builds(made, Len(body), reg, x, body) /\ CreateAll(reg, x, body) = made[Len(body)]
    BY <1>1, CreateAllDef
  <1>3. made[0] = reg /\ made[1] = Create(made[1 - 1], x, body[1])
    BY <1>1, <1>2 DEF Builds
  <1> QED
    BY <1>1, <1>2, <1>3 DEF body

LEMMA AppendJump ==
  ASSUME NEW reg, NEW B, Shape(reg, B), NEW b \in 1 .. Len(B), Free(reg.insts, B[b]),
         NEW i, IsInst(i), BlockEnds(i)
  PROVE  \E W : Jumped(Create(reg, -b, i), reg, B, W, b, Succs(i))
  <1> DEFINE body == <<i>>
  <1>1. IsSeq(body) /\ Len(body) = 1 /\ body[1] = i /\ 1 .. 1 - 1 = {}
    BY PlainOne
  <1>2. CreateAll(reg, -b, body) = Create(reg, -b, i)
    BY CreateAllOne
  <1> HIDE DEF body
  <1>3. Ending(body)
    BY <1>1 DEF Ending
  <1>4. \E W : Jumped(CreateAll(reg, -b, body), reg, B, W, b, Succs(body[Len(body)]))
    BY <1>3, AppendEnding
  <1> QED
    BY <1>1, <1>2, <1>4

\* The first block of reg has its jump, but maybe not the successors.
Jumping(reg, B, n) ==
  /\ Shape(reg, B) /\ Len(B) > 0 /\ Jumps(reg.insts, B[1], n)
  /\ \A e \in 2 .. Len(B) : Complete(reg, B, e)

LEMMA JumpingWhole ==
  ASSUME NEW reg, NEW B, NEW n, Jumping(reg, B, n), Len(reg.succs[1]) = n
  PROVE  Whole(reg, B)
  <1>1. Len(B) \in Nat
    BY DEF Jumping, Shape, Listing
  <1>2. \A e \in 1 .. Len(B) : e = 1 \/ e \in 2 .. Len(B)
    BY <1>1
  <1> QED
    BY <1>2 DEF Jumping, Whole, Complete

LEMMA JumpAtEnd ==
  ASSUME NEW reg, NEW B, Translating(reg, B), NEW i, IsInst(i), BlockEnds(i)
  PROVE  /\ \E W : Jumping(Create(reg, -1, i), W, Succs(i))
         /\ Len(Create(reg, -1, i).succs[1]) = 0
  <1> DEFINE q == Create(reg, -1, i)
  <1>1. /\ Shape(reg, B) /\ Len(B) > 0 /\ Len(B) \in Nat /\ 1 \in 1 .. Len(B)
        /\ Free(reg.insts, B[1]) /\ reg.succs[1] = <<>>
        /\ \A e \in 2 .. Len(B) : Complete(reg, B, e)
    BY DEF Translating, Growing, Shape, Listing
  <1>2. PICK W : Jumped(q, reg, B, W, 1, Succs(i))
    BY <1>1, AppendJump
  <1>3. \A e \in 2 .. Len(W) : Complete(q, W, e)
    <2>1. Len(W) = Len(B) /\ \A e \in 2 .. Len(B) : e \in 1 .. Len(B) /\ e # 1
      BY <1>1, <1>2 DEF Jumped
    <2> QED
      BY <1>1, <1>2, <2>1 DEF Jumped
  <1>4. Jumping(q, W, Succs(i))
    BY <1>1, <1>2, <1>3 DEF Jumping, Jumped
  <1>5. Len(q.succs[1]) = 0
    BY <1>1, <1>2 DEF Jumped
  <1> QED
    BY <1>4, <1>5

\* It has m of them.
Linked(reg, B, n, m) == Jumping(reg, B, n) /\ Len(reg.succs[1]) = m

LEMMA SuccAtEnd ==
  ASSUME NEW reg, NEW B, NEW n, NEW m, Linked(reg, B, n, m), NEW s
  PROVE  Linked(AddSucc(reg, 1, s), B, n, m + 1)
  <1> DEFINE q == AddSucc(reg, 1, s)
  <1>1. /\ Shape(reg, B) /\ Len(B) > 0 /\ Len(B) \in Nat /\ 1 \in 1 .. Len(B)
        /\ Len(reg.succs) = Len(B) /\ IsSeq(reg.succs) /\ IsSeq(reg.succs[1])
    BY DEF Linked, Jumping, Shape, Listing, Record
  <1>2. /\ Shape(q, B) /\ q.insts = reg.insts
        /\ q.succs = [reg.succs EXCEPT ![1] = Append(@, s)]
    <2>1. SuccAdded(q, reg, B, 1, s)
      <3> DEFINE b == 1
      <3>1. b \in 1 .. Len(B)
        BY <1>1
      <3> HIDE DEF b
      <3>2. SuccAdded(AddSucc(reg, b, s), reg, B, b, s)
        BY <1>1, <3>1, AddSuccShape
      <3> QED
        BY <3>2 DEF b
    <2> QED
      BY <2>1 DEF SuccAdded
  <1> HIDE DEF q
  <1>3. DOMAIN reg.succs = 1 .. Len(B) /\ Len(reg.succs[1]) \in Nat
        /\ Len(Append(reg.succs[1], s)) = Len(reg.succs[1]) + 1
    BY <1>1, AppendSeq
  <1>4. q.succs[1] = Append(reg.succs[1], s) /\ \A e \in 2 .. Len(B) : q.succs[e] = reg.succs[e]
    BY <1>1, <1>2, <1>3
  <1>5. \A e \in 2 .. Len(B) : Complete(q, B, e)
    BY <1>2, <1>4 DEF Linked, Jumping, Complete
  <1>6. Jumping(q, B, n)
    BY <1>2, <1>5 DEF Linked, Jumping
  <1>7. Len(q.succs[1]) = m + 1
    BY <1>3, <1>4 DEF Linked
  <1> QED
    BY <1>6, <1>7 DEF q, Linked

\* MakeGBr ends the region.
LEMMA MakeGBrWhole ==
  ASSUME NEW reg, NEW B, Translating(reg, B), NEW to, NEW ip
  PROVE  \E W : Whole(MakeGBr(reg, 1, to, ip), W)
  <1>1. CASE ip2bb(to) # 0
    <2> DEFINE i == Inst("br", "none", <<>>, ip)
               q == Create(reg, -1, i)
    <2>1. IsInst(i) /\ BlockEnds(i) /\ Succs(i) = 1
      BY DEF IsInst, BlockEnds, Succs, Inst
    <2>2. MakeGBr(reg, 1, to, ip) = AddSucc(q, 1, ip2bb(to))
      BY <1>1 DEF MakeGBr
    <2> HIDE DEF i
    <2>3. (\E W : Jumping(q, W, 1)) /\ Len(q.succs[1]) = 0
      BY <2>1, JumpAtEnd
    <2> HIDE DEF q
    <2>4. PICK W : Jumping(q, W, 1)
      BY <2>3
    <2>5. Linked(q, W, 1, 0)
      BY <2>3, <2>4 DEF Linked
    <2>6. Linked(AddSucc(q, 1, ip2bb(to)), W, 1, 0 + 1)
      BY <2>5, SuccAtEnd
    <2>7. Whole(AddSucc(q, 1, ip2bb(to)), W)
      <3> DEFINE p == AddSucc(q, 1, ip2bb(to))
      <3>1. Jumping(p, W, 1) /\ Len(p.succs[1]) = 1
        BY <2>6 DEF Linked
      <3> HIDE DEF p
      <3> QED
        BY <3>1, JumpingWhole DEF p
    <2> QED
      BY <2>2, <2>7
  <1>2. CASE ip2bb(to) = 0
    <2> DEFINE i == Gbr(to, ip)
               q == Create(reg, -1, i)
    <2>1. IsInst(i) /\ BlockEnds(i) /\ Succs(i) = 0
      BY DEF IsInst, BlockEnds, Succs, Inst, Gbr
    <2>2. MakeGBr(reg, 1, to, ip) = q
      BY <1>2 DEF MakeGBr
    <2> HIDE DEF i
    <2>3. (\E W : Jumping(q, W, 0)) /\ Len(q.succs[1]) = 0
      BY <2>1, JumpAtEnd
    <2> QED
      BY <2>2, <2>3, JumpingWhole
  <1> QED
    BY <1>1, <1>2

\* make_target adds a finished block or nothing.
LEMMA MakeTargetTranslating ==
  ASSUME NEW reg, NEW B, Translating(reg, B), NEW to, NEW ip
  PROVE  \E W : Translating(MakeTarget(reg, to, ip), W)
  <1>1. CASE ip2bb(to) # 0
    BY <1>1 DEF MakeTarget
  <1>2. CASE ip2bb(to) = 0
    <2> DEFINE made == CreateBlock(reg)
               D == Append(B, <<>>)
               b == Len(B) + 1
               i == Gbr(to, ip)
               q == Create(made, -b, i)
    <2>1. /\ Shape(reg, B) /\ Len(B) > 0 /\ Len(B) \in Nat /\ 1 \in 1 .. Len(B)
          /\ Free(reg.insts, B[1]) /\ reg.succs[1] = <<>> /\ B \in Seq(Seq(Pos))
          /\ Len(reg.succs) = Len(B) /\ IsSeq(reg.succs)
          /\ Chain(reg.ring, Nodes(reg), -1, B[1])
          /\ \A e \in 2 .. Len(B) : Complete(reg, B, e)
      BY DEF Translating, Growing, Shape, Listing, Record
    <2>2. Ring(reg.ring, Nodes(reg))
      BY <2>1 DEF Chain
    <2>3. Shape(made, D) /\ made.insts = reg.insts /\ made.succs = Append(reg.succs, <<>>)
      BY <2>1, <2>2, CreateBlockShape
    <2> HIDE DEF made
    <2>4. /\ Len(D) = b /\ D[b] = <<>> /\ \A e \in 1 .. Len(B) : D[e] = B[e]
      <3>1. <<>> \in Seq(Pos)
        OBVIOUS
      <3> QED
        BY <2>1, <3>1
    <2>5. /\ Len(made.succs) = b /\ made.succs[b] = <<>>
          /\ \A e \in 1 .. Len(B) : made.succs[e] = reg.succs[e]
      BY <2>1, <2>3, AppendSeq
    <2>6. MakeTarget(reg, to, ip) = q
      BY <1>2, <2>5 DEF MakeTarget, NumBlocks, made
    <2>7. IsInst(i) /\ BlockEnds(i) /\ Succs(i) = 0
      BY DEF IsInst, BlockEnds, Succs, Inst, Gbr
    <2>8. Free(made.insts, D[b])
      <3>1. Len(<<>>) = 0
        OBVIOUS
      <3> QED
        BY <2>4, <3>1 DEF Free
    <2> HIDE DEF D, i
    <2>9. b \in 1 .. Len(D)
      BY <2>1, <2>4
    <2>10. PICK W : Jumped(q, made, D, W, b, 0)
      <3> HIDE DEF b
      <3> QED
        BY <2>3, <2>7, <2>8, <2>9, AppendJump
    <2> HIDE DEF q
    <2>11. /\ Shape(q, W) /\ Len(W) = b /\ q.succs = made.succs /\ Jumps(q.insts, W[b], 0)
           /\ \A e \in 1 .. b : e # b =>
                /\ Complete(made, D, e) => Complete(q, W, e)
                /\ Growing(made, D, e) => Growing(q, W, e)
      BY <2>4, <2>10 DEF Jumped
    <2>12. Complete(q, W, b)
      <3>1. Len(<<>>) = 0
        OBVIOUS
      <3> QED
        BY <2>5, <2>11, <3>1 DEF Complete
    <2>13. Growing(q, W, 1)
      <3>1. Growing(made, D, 1)
        BY <2>1, <2>3, <2>4, <2>5 DEF Growing
      <3>2. 1 \in 1 .. b /\ 1 # b
        BY <2>1
      <3> QED
        BY <2>11, <3>1, <3>2
    <2>14. ASSUME NEW e \in 2 .. Len(W) PROVE Complete(q, W, e)
      <3>1. e = b \/ (e \in 2 .. Len(B) /\ e \in 1 .. Len(B) /\ e \in 1 .. b /\ e # b)
        BY <2>1, <2>11
      <3>2. CASE e \in 2 .. Len(B) /\ e \in 1 .. Len(B) /\ e \in 1 .. b /\ e # b
        <4>1. Complete(made, D, e)
          BY <2>1, <2>3, <2>4, <2>5, <3>2 DEF Complete
        <4> QED
          BY <2>11, <3>2, <4>1
      <3> QED
        BY <2>12, <3>1, <3>2
    <2>15. Len(W) > 0
      BY <2>1, <2>11
    <2> QED
      BY <2>6, <2>11, <2>13, <2>14, <2>15 DEF Translating
  <1> QED
    BY <1>1, <1>2

LEMMA TranslateBrccWhole ==
  ASSUME NEW reg, NEW B, Translating(reg, B), NEW i, NEW ip
  PROVE  \E W : Whole(TranslateBrcc(reg, 1, i, ip), W)
  <1> DEFINE jump == AddU32(ip, i.imm)
             withF == MakeTarget(reg, ip + 4, ip)
             withT == MakeTarget(withF, jump, ip)
             brcc == Inst("brcc", Cc(i.op), <<gprop(i.rs1, I32), gprop(i.rs2, I32)>>, ip)
             src == Create(withT, -1, brcc)
             t == TargetBlock(withT, jump)
             f == TargetBlock(withF, ip + 4)
  <1>0. TranslateBrcc(reg, 1, i, ip) = AddSucc(AddSucc(src, 1, t), 1, f)
    BY DEF TranslateBrcc
  <1>1. IsInst(brcc) /\ BlockEnds(brcc) /\ Succs(brcc) = 2
    BY DEF IsInst, BlockEnds, Succs, Inst
  <1>2. \E F : Translating(withF, F)
    BY MakeTargetTranslating
  <1> HIDE DEF brcc, withF, jump, f
  <1>3. \E T : Translating(withT, T)
    BY <1>2, MakeTargetTranslating
  <1> HIDE DEF withT, t
  <1>4. PICK T : Translating(withT, T)
    BY <1>3
  <1>5. (\E W : Jumping(src, W, 2)) /\ Len(src.succs[1]) = 0
    BY <1>1, <1>4, JumpAtEnd
  <1> HIDE DEF src
  <1>6. PICK W : Jumping(src, W, 2)
    BY <1>5
  <1> DEFINE one == AddSucc(src, 1, t)
  <1>7. Linked(src, W, 2, 0)
    BY <1>5, <1>6 DEF Linked
  <1>8. Linked(one, W, 2, 0 + 1)
    BY <1>7, SuccAtEnd
  <1> HIDE DEF one
  <1>9. Linked(AddSucc(one, 1, f), W, 2, (0 + 1) + 1)
    BY <1>8, SuccAtEnd
  <1>10. Whole(AddSucc(one, 1, f), W)
    <2> DEFINE p == AddSucc(one, 1, f)
    <2>1. Jumping(p, W, 2) /\ Len(p.succs[1]) = 2
      BY <1>9 DEF Linked
    <2> HIDE DEF p
    <2> QED
      BY <2>1, JumpingWhole DEF p
  <1> QED
    BY <1>0, <1>10 DEF one

LEMMA AppendClosing ==
  ASSUME NEW reg, NEW B, Translating(reg, B), NEW body, Closing(body)
  PROVE  \E W : Whole(CreateAll(reg, -1, body), W)
  <1> DEFINE q == CreateAll(reg, -1, body)
             b == 1
  <1>1. /\ Shape(reg, B) /\ Len(B) > 0 /\ Len(B) \in Nat /\ b \in 1 .. Len(B)
        /\ Free(reg.insts, B[b]) /\ reg.succs[1] = <<>>
        /\ \A e \in 2 .. Len(B) : Complete(reg, B, e)
    BY DEF Translating, Growing, Shape, Listing
  <1>2. Ending(body) /\ Succs(body[Len(body)]) = 0
    BY DEF Ending, Closing
  <1>3. q = CreateAll(reg, -b, body)
    OBVIOUS
  <1> HIDE DEF b, q
  <1>4. PICK W : Jumped(q, reg, B, W, b, 0)
    BY <1>1, <1>2, <1>3, AppendEnding
  <1> USE DEF b
  <1>5. \A e \in 2 .. Len(W) : Complete(q, W, e)
    <2>1. Len(W) = Len(B) /\ \A e \in 2 .. Len(B) : e \in 1 .. Len(B) /\ e # 1
      BY <1>1, <1>4 DEF Jumped
    <2> QED
      BY <1>1, <1>4, <2>1 DEF Jumped
  <1>6. Jumping(q, W, 0) /\ Len(q.succs[1]) = 0
    BY <1>1, <1>4, <1>5 DEF Jumping, Jumped
  <1> QED
    BY <1>6, JumpingWhole DEF q

\* The number of temporaries is not part of the lists.
LEMMA LocalsApart ==
  ASSUME NEW reg, NEW B, NEW n
  PROVE  /\ Translating(reg, B) => Translating([reg EXCEPT !.locals = n], B)
         /\ Whole(reg, B) => Whole([reg EXCEPT !.locals = n], B)
  <1> DEFINE q == [reg EXCEPT !.locals = n]
  <1> SUFFICES ASSUME Shape(reg, B)
               PROVE  /\ Translating(reg, B) => Translating(q, B)
                      /\ Whole(reg, B) => Whole(q, B)
    BY DEF Translating, Whole
  <1>1. DOMAIN reg = {"insts", "ring", "bring", "succs", "locals"} /\ Record(reg)
    BY DEF Shape, Record
  <1>2. /\ DOMAIN q = DOMAIN reg /\ q.insts = reg.insts /\ q.ring = reg.ring
        /\ q.bring = reg.bring /\ q.succs = reg.succs
    BY <1>1
  <1> HIDE DEF q
  <1>3. Shape(q, B)
    BY <1>1, <1>2 DEF Shape, Listing, Record, Nodes
  <1> QED
    BY <1>2, <1>3 DEF Translating, Whole, Complete, Growing

\* TranslateInsn closes the region for a branch or a trap, and else leaves it
\* open.
LEMMA TranslateInsnIs ==
  ASSUME NEW reg, NEW B, Translating(reg, B), NEW i, NEW ip, NEW raw, i.op # "illegal"
  PROVE  \E W : IF Stops(i) THEN Whole(TranslateInsn(reg, 1, i, ip, raw), W)
                ELSE Translating(TranslateInsn(reg, 1, i, ip, raw), W)
  <1> DEFINE body == Body(i, ip, vtemp(reg), raw)
             q == CreateAll(reg, -1, body)
             n == q.locals + Temps(i)
             made == [q EXCEPT !.locals = n]
  <1>1. TranslateInsn(reg, 1, i, ip, raw) = TranslateBranch(made, 1, i, ip)
    BY DEF TranslateInsn, Body
  <1>2. IF i.op \in {"jalr", "ecall", "ebreak"} THEN Closing(body) ELSE Plain(body)
    BY BodyIs
  <1> HIDE DEF body, n
  <1>3. CASE i.op \in {"jalr", "ecall", "ebreak"}
    <2>1. Stops(i) /\ TranslateBranch(made, 1, i, ip) = made
      BY <1>3 DEF Stops, FlagBranch, FlagTrap, TranslateBranch, BranchOps
    <2>2. PICK W : Whole(q, W)
      BY <1>2, <1>3, AppendClosing
    <2> HIDE DEF q
    <2>3. Whole(made, W)
      BY <2>2, LocalsApart
    <2> QED
      BY <1>1, <2>1, <2>3
  <1>4. CASE i.op \notin {"jalr", "ecall", "ebreak"}
    <2>1. PICK W : Translating(q, W)
      BY <1>2, <1>4, AppendPlain
    <2> HIDE DEF q
    <2>2. Translating(made, W)
      BY <2>1, LocalsApart
    <2> HIDE DEF made
    <2>3. CASE i.op = "jal"
      <3>1. Stops(i) /\ TranslateBranch(made, 1, i, ip) = MakeGBr(made, 1, AddU32(ip, i.imm), ip)
        BY <2>3 DEF Stops, FlagBranch, TranslateBranch, BranchOps
      <3>2. \E V : Whole(MakeGBr(made, 1, AddU32(ip, i.imm), ip), V)
        BY <2>2, MakeGBrWhole
      <3> QED
        BY <1>1, <3>1, <3>2
    <2>4. CASE i.op \in BranchOps
      <3>1. Stops(i) /\ TranslateBranch(made, 1, i, ip) = TranslateBrcc(made, 1, i, ip)
        BY <2>4 DEF Stops, FlagBranch, TranslateBranch, BranchOps
      <3>2. \E V : Whole(TranslateBrcc(made, 1, i, ip), V)
        BY <2>2, TranslateBrccWhole
      <3> QED
        BY <1>1, <3>1, <3>2
    <2>5. CASE i.op # "jal" /\ i.op \notin BranchOps
      <3>1. ~Stops(i) /\ TranslateBranch(made, 1, i, ip) = made
        BY <1>4, <2>5 DEF Stops, FlagBranch, FlagTrap, TranslateBranch
      <3> QED
        BY <1>1, <2>2, <3>1
    <2> QED
      BY <2>3, <2>4, <2>5
  <1> QED
    BY <1>3, <1>4

\* A region with one empty block.
LEMMA FirstBlock == \E B : Translating(CreateBlock(EmptyRegion), B)
  <1> DEFINE reg == EmptyRegion
             r0 == [next |-> <<>>, prev |-> <<>>]
  <1>1. /\ DOMAIN reg = {"insts", "ring", "bring", "succs", "locals"}
        /\ reg.insts = <<>> /\ reg.succs = <<>> /\ reg.ring = r0
        /\ reg.bring = NewSentinel(r0, 0)
    BY DEF EmptyRegion
  <1>2. /\ Len(<<>>) = 0 /\ <<>> \in Seq(Seq(Pos)) /\ IsSeq(<<>>) /\ DOMAIN <<>> = {}
        /\ 1 .. 0 = {} /\ -0 .. -1 = {} /\ 0 .. 0 = {0}
    BY DEF IsSeq
  <1>3. Ring(r0, {})
    BY <1>2 DEF Ring
  <1> HIDE DEF reg, r0
  <1>4. Nodes(reg) = {} /\ Ring(reg.ring, Nodes(reg))
    BY <1>1, <1>2, <1>3 DEF Nodes
  <1>5. Chain(reg.bring, 0 .. 0, 0, <<>>)
    <2>1. Opens(NewSentinel(r0, 0), {} \cup {0}, r0, {}, 0)
      <3> DEFINE s == 0
      <3>1. s \in Int /\ s <= 0 /\ s \notin {}
        OBVIOUS
      <3> HIDE DEF s
      <3>2. Opens(NewSentinel(r0, s), {} \cup {s}, r0, {}, s)
        BY <1>3, <3>1, SentinelChains
      <3> QED
        BY <3>2 DEF s
    <2>2. {} \cup {0} = 0 .. 0
      BY <1>2
    <2> QED
      BY <1>1, <2>1, <2>2 DEF Opens
  <1>6. Count(0) = <<>>
    BY <1>2 DEF Count
  <1>7. Record(reg)
    BY <1>1, <1>2 DEF Record
  <1>8. Shape(reg, <<>>)
    <2>1. Distinct(<<>>)
      BY <1>2 DEF Distinct
    <2>2. Listing(reg, <<>>)
      BY <1>1, <1>2, <1>5, <1>6, <2>1 DEF Listing
    <2> QED
      BY <1>1, <1>2, <1>7, <2>2 DEF Shape
  <1> DEFINE q == CreateBlock(reg)
             D == Append(<<>>, <<>>)
  <1>9. /\ Shape(q, D) /\ q.insts = reg.insts /\ q.succs = Append(reg.succs, <<>>)
    BY <1>4, <1>8, CreateBlockShape
  <1> HIDE DEF q
  <1>10. Len(D) = 1 /\ D[1] = <<>>
    OBVIOUS
  <1>11. q.succs[1] = <<>>
    BY <1>1, <1>9
  <1> HIDE DEF D
  <1>12. Translating(q, D)
    <2>1. Free(q.insts, D[1])
      BY <1>2, <1>10 DEF Free
    <2>2. \A e \in 2 .. Len(D) : FALSE
      BY <1>10
    <2> QED
      BY <1>9, <1>10, <1>11, <2>1, <2>2 DEF Translating, Growing
  <1> QED
    BY <1>12 DEF q, reg

-----------------------------------------------------------------------------
(* The lists of a region *)

LEMMA IntervalFinite ==
  ASSUME NEW a \in Int, NEW b \in Int
  PROVE  IsFiniteSet(a .. b)
  BY FS_Interval

LEMMA CodeIs ==
  ASSUME NEW reg, NEW B, Shape(reg, B), NEW b \in 1 .. Len(B)
  PROVE  Code(reg, b) = B[b]
  <1>1. /\ Chain(reg.ring, Nodes(reg), -b, B[b]) /\ Len(reg.insts) \in Nat /\ Len(reg.succs) \in Nat
    BY AppendSeq DEF Shape, Listing, Record
  <1>2. IsFiniteSet(Nodes(reg))
    <2>1. IsFiniteSet(-Len(reg.succs) .. -1) /\ IsFiniteSet(1 .. Len(reg.insts))
      BY <1>1, IntervalFinite
    <2> QED
      BY <2>1, FS_Union DEF Nodes
  <1> QED
    BY <1>1, <1>2, WalkIs DEF Code

\* x has what the blocks of B list, each once.
Gathers(x, B) ==
  /\ x \in Seq(Pos) /\ IsInjective(x)
  /\ \A n : n \in Range(x) <=> Listed(B, n)

\* A pass goes through the blocks one after the other.
LEMMA AllCodeFlat ==
  ASSUME NEW reg, NEW B, Shape(reg, B), Len(B) > 0
  PROVE  AllCode(reg) = FlattenSeq(B)
  <1> DEFINE l == Len(B)
             F == [k \in 1 .. NumBlocks(reg) |-> Code(reg, Walk(reg.bring, 0)[k])]
  <1>1. /\ l \in Nat /\ l = NumBlocks(reg) /\ B \in Seq(Seq(Pos)) /\ Distinct(B)
        /\ Chain(reg.bring, 0 .. l, 0, Count(l))
    BY DEF Shape, Listing, NumBlocks
  <1>2. Walk(reg.bring, 0) = Count(l)
    <2>1. IsFiniteSet(0 .. l)
      BY <1>1, IntervalFinite
    <2> DEFINE s == 0
    <2> HIDE DEF s
    <2>2. Walk(reg.bring, s) = Count(l)
      <3>1. Chain(reg.bring, 0 .. l, s, Count(l))
        BY <1>1 DEF s
      <3> QED
        BY <2>1, <3>1, WalkIs
    <2> QED
      BY <2>2 DEF s
  <1>3. \A k \in 1 .. l : Count(l)[k] = k
    BY <1>1, CountIs
  <1>4. \A k \in 1 .. l : Code(reg, k) = B[k]
    BY CodeIs
  <1>5. F = B
    <2>1. F = [k \in 1 .. l |-> B[k]]
      BY <1>1, <1>2, <1>3, <1>4
    <2> QED
      BY <1>1, <2>1
  <1> QED
    BY <1>5 DEF AllCode

LEMMA AllCodeIs ==
  ASSUME NEW reg, NEW B, Shape(reg, B), Len(B) > 0
  PROVE  Gathers(AllCode(reg), B)
  <1> DEFINE l == Len(B)
  <1>1. l \in Nat /\ B \in Seq(Seq(Pos)) /\ Distinct(B)
    BY DEF Shape, Listing
  <1>6. AllCode(reg) = FlattenSeq(B)
    BY AllCodeFlat
  <1>7. PICK fl : Flat(fl, B) /\ FlattenSeq(B) = fl[l]
    BY <1>1, FlattenDef
  <1> DEFINE x == AllCode(reg)
  <1>8. x \in Seq(Pos) /\ Joins(x, B, l)
    <2>1. \A m \in 0 .. Len(B) : fl[m] \in Seq(Pos) /\ Joins(fl[m], B, m)
      BY <1>1, <1>7, FlatFacts
    <2>2. l \in 0 .. Len(B)
      BY <1>1
    <2> QED
      BY <1>6, <1>7, <2>1, <2>2
  <1> HIDE DEF x
  <1>9. DOMAIN x = 1 .. Len(x)
    BY <1>8
  <1>10. IsInjective(x)
    BY <1>8, <1>9 DEF IsInjective, Joins
  <1>11. ASSUME NEW n PROVE n \in Range(x) <=> Listed(B, n)
    <2>1. n \in Range(x) <=> \E i \in 1 .. Len(x) : x[i] = n
      BY <1>9 DEF Range
    <2>2. ASSUME NEW i \in 1 .. Len(x), x[i] = n PROVE Listed(B, n)
      <3>1. PICK b \in 1 .. l : \E k \in 1 .. Len(B[b]) : x[i] = B[b][k]
        BY <1>8 DEF Joins
      <3> QED
        BY <2>2, <3>1 DEF Listed
    <2>3. ASSUME Listed(B, n) PROVE \E i \in 1 .. Len(x) : x[i] = n
      <3>1. PICK b \in 1 .. l : \E k \in 1 .. Len(B[b]) : B[b][k] = n
        BY <2>3 DEF Listed
      <3>2. PICK k \in 1 .. Len(B[b]) : B[b][k] = n
        BY <3>1
      <3>3. \E i \in 1 .. Len(x) : x[i] = B[b][k]
        BY <1>8 DEF Joins
      <3> QED
        BY <3>2, <3>3
    <2> QED
      BY <2>1, <2>2, <2>3
  <1> QED
    BY <1>8, <1>10, <1>11 DEF Gathers, x

\* The two directions of a list agree at n.
Agree(r, s, c, n) ==
  /\ \E j \in 0 .. Len(c) : r.next[n] = Node(s, c, j)
  /\ \E j \in 0 .. Len(c) : r.prev[n] = Node(s, c, j)
  /\ r.next[r.prev[n]] = n /\ r.prev[r.next[n]] = n

LEMMA ChainSound ==
  ASSUME NEW r, NEW N, NEW s, NEW c, Chain(r, N, s, c), NEW k \in 0 .. Len(c)
  PROVE  Agree(r, s, c, Node(s, c, k))
  <1> DEFINE n == Node(s, c, k)
             l == Len(c)
  <1>1. /\ l \in Nat /\ Chained(r, s, c) /\ Node(s, c, 0) = s /\ Node(s, c, l + 1) = s
    BY NodeFacts DEF Chain
  <1>2. /\ r.next[n] = Node(s, c, k + 1) /\ r.prev[Node(s, c, k + 1)] = n
    BY <1>1 DEF Chained
  <1>3. PICK j \in 0 .. l : n = Node(s, c, j + 1) /\ r.next[Node(s, c, j)] = n /\ r.prev[n] = Node(s, c, j)
    <2>1. CASE k = 0
      <3>1. l \in 0 .. l /\ r.next[Node(s, c, l)] = Node(s, c, l + 1) /\ r.prev[Node(s, c, l + 1)] = Node(s, c, l)
        BY <1>1 DEF Chained
      <3> QED
        BY <1>1, <2>1, <3>1
    <2>2. CASE k # 0
      <3>1. k - 1 \in 0 .. l /\ (k - 1) + 1 = k
        BY <1>1, <2>2
      <3> QED
        BY <1>1, <3>1 DEF Chained
    <2> QED
      BY <2>1, <2>2
  <1>4. \E i \in 0 .. l : r.next[n] = Node(s, c, i)
    <2>1. k + 1 \in 0 .. l \/ k + 1 = l + 1
      BY <1>1
    <2>2. 0 \in 0 .. l
      BY <1>1
    <2> QED
      BY <1>1, <1>2, <2>1, <2>2
  <1> QED
    BY <1>2, <1>3, <1>4 DEF Agree

LEMMA RingsSound ==
  ASSUME NEW reg, NEW B, Shape(reg, B), NEW live, \A n : n \in live <=> Listed(B, n)
  PROVE  /\ RingSound(reg.bring, 0 .. NumBlocks(reg))
         /\ RingSound(reg.ring, live \cup {-b : b \in 1 .. NumBlocks(reg)})
  <1> DEFINE l == Len(B)
             S == live \cup {-b : b \in 1 .. NumBlocks(reg)}
  <1>1. /\ l \in Nat /\ l = NumBlocks(reg) /\ B \in Seq(Seq(Pos))
        /\ Chain(reg.bring, 0 .. l, 0, Count(l))
        /\ \A b \in 1 .. l : Chain(reg.ring, Nodes(reg), -b, B[b])
    BY DEF Shape, Listing, NumBlocks
  <1>2. ASSUME NEW n \in 0 .. l
        PROVE  /\ {reg.bring.next[n], reg.bring.prev[n]} \subseteq 0 .. l
               /\ reg.bring.next[reg.bring.prev[n]] = n /\ reg.bring.prev[reg.bring.next[n]] = n
    <2>1. Len(Count(l)) = l /\ \A k \in 1 .. l : Count(l)[k] = k
      BY <1>1, CountIs
    <2>2. \A k \in 0 .. l : Node(0, Count(l), k) = k
      BY <1>1, <2>1 DEF Node
    <2>3. n \in 0 .. Len(Count(l))
      BY <2>1
    <2>4. /\ \E j \in 0 .. l : reg.bring.next[n] = Node(0, Count(l), j)
          /\ \E j \in 0 .. l : reg.bring.prev[n] = Node(0, Count(l), j)
          /\ reg.bring.next[reg.bring.prev[n]] = n /\ reg.bring.prev[reg.bring.next[n]] = n
      <3> DEFINE s == 0
                 c == Count(l)
                 x == Node(s, c, n)
      <3>1. Chain(reg.bring, 0 .. l, s, c) /\ n \in 0 .. Len(c)
        BY <1>1, <2>3
      <3>2. Agree(reg.bring, s, c, x)
        <4> HIDE DEF s, c, l
        <4> QED
          BY <3>1, ChainSound
      <3>3. x = n
        BY <2>2
      <3> QED
        BY <2>1, <3>2, <3>3 DEF Agree
    <2> QED
      BY <2>2, <2>4
  <1>3. ASSUME NEW b \in 1 .. l, NEW k \in 0 .. Len(B[b])
        PROVE  Node(-b, B[b], k) \in S
    <2>1. CASE k \in 1 .. Len(B[b])
      <3>1. Node(-b, B[b], k) = B[b][k] /\ Listed(B, B[b][k])
        BY <2>1 DEF Node, Listed
      <3> QED
        BY <3>1
    <2>2. CASE k \notin 1 .. Len(B[b])
      BY <1>1, <2>2 DEF Node
    <2> QED
      BY <2>1, <2>2
  <1>4. ASSUME NEW n \in S
        PROVE  \E b \in 1 .. l : \E k \in 0 .. Len(B[b]) : n = Node(-b, B[b], k)
    <2>1. CASE n \in live
      <3>1. PICK b \in 1 .. l : \E k \in 1 .. Len(B[b]) : B[b][k] = n
        BY <2>1 DEF Listed
      <3>2. PICK k \in 1 .. Len(B[b]) : B[b][k] = n
        BY <3>1
      <3>3. Len(B[b]) \in Nat
        BY InList
      <3> QED
        BY <3>2, <3>3 DEF Node
    <2>2. CASE n \notin live
      <3>1. PICK b \in 1 .. l : n = -b
        BY <1>1, <2>2
      <3>2. Len(B[b]) \in Nat
        BY InList
      <3>3. 0 \in 0 .. Len(B[b]) /\ Node(-b, B[b], 0) = n
        BY <3>1, <3>2 DEF Node
      <3> QED
        BY <3>3
    <2> QED
      BY <2>1, <2>2
  <1> HIDE DEF S
  <1>5. ASSUME NEW n \in S
        PROVE  /\ {reg.ring.next[n], reg.ring.prev[n]} \subseteq S
               /\ reg.ring.next[reg.ring.prev[n]] = n /\ reg.ring.prev[reg.ring.next[n]] = n
    <2>1. PICK b \in 1 .. l : \E k \in 0 .. Len(B[b]) : n = Node(-b, B[b], k)
      BY <1>4, <1>5
    <2>2. PICK k \in 0 .. Len(B[b]) : n = Node(-b, B[b], k)
      BY <2>1
    <2> DEFINE s == -b
               c == B[b]
    <2>3. Chain(reg.ring, Nodes(reg), s, c) /\ k \in 0 .. Len(c) /\ n = Node(s, c, k)
      BY <1>1, <2>2
    <2>4. Agree(reg.ring, s, c, n)
      <3> HIDE DEF s, c
      <3> QED
        BY <2>3, ChainSound
    <2>5. \A j \in 0 .. Len(c) : Node(s, c, j) \in S
      BY <1>3
    <2> HIDE DEF s, c
    <2> QED
      BY <2>4, <2>5 DEF Agree
  <1> QED
    BY <1>1, <1>2, <1>5 DEF RingSound, S

-----------------------------------------------------------------------------
(* Loops over the lists *)

\* A loop stands at node n of block b, or at its sentinel.
At(B, b, n) == b \in 1 .. Len(B) /\ \E k \in 0 .. Len(B[b]) + 1 : n = Node(-b, B[b], k)

LEMMA BlockAt ==
  ASSUME NEW reg, NEW B, Shape(reg, B), NEW b \in 1 .. Len(B)
  PROVE  At(B, b, reg.ring.next[-b])
  <1>1. Chain(reg.ring, Nodes(reg), -b, B[b]) /\ Len(B[b]) \in Nat
    BY InList DEF Shape, Listing
  <1> DEFINE s == -b
             c == B[b]
  <1>2. Chained(reg.ring, s, c) /\ Node(s, c, 0) = s /\ Len(c) \in Nat
    BY <1>1, NodeFacts DEF Chain
  <1>3. reg.ring.next[s] = Node(s, c, 0 + 1) /\ 0 + 1 \in 0 .. Len(c) + 1
    BY <1>2 DEF Chained
  <1> QED
    BY <1>3 DEF At

LEMMA NextAt ==
  ASSUME NEW reg, NEW B, Shape(reg, B), NEW b, NEW n, At(B, b, n), n > 0
  PROVE  /\ b \in 1 .. Len(B)
         /\ \E k \in 1 .. Len(B[b]) : n = B[b][k] /\ reg.ring.next[n] = Node(-b, B[b], k + 1)
  <1>1. b \in 1 .. Len(B) /\ \E k \in 0 .. Len(B[b]) + 1 : n = Node(-b, B[b], k)
    BY DEF At
  <1>2. PICK k \in 0 .. Len(B[b]) + 1 : n = Node(-b, B[b], k)
    BY <1>1
  <1>3. Len(B) \in Nat /\ Len(B[b]) \in Nat /\ Chain(reg.ring, Nodes(reg), -b, B[b])
    BY <1>1, InList DEF Shape, Listing
  <1>4. k \in 1 .. Len(B[b]) /\ n = B[b][k]
    <2>1. b \in Int /\ b > 0
      BY <1>1, <1>3
    <2>2. ASSUME k \notin 1 .. Len(B[b]) PROVE FALSE
      <3>1. n = -b
        BY <1>2, <2>2 DEF Node
      <3> QED
        BY <2>1, <3>1
    <2>3. k \in 1 .. Len(B[b])
      BY <2>2
    <2> QED
      BY <1>2, <2>3 DEF Node
  <1>5. reg.ring.next[n] = Node(-b, B[b], k + 1)
    BY <1>2, <1>3, <1>4 DEF Chain, Chained
  <1> QED
    BY <1>1, <1>4, <1>5

LEMMA StepAt ==
  ASSUME NEW reg, NEW B, Shape(reg, B), NEW b, NEW n, At(B, b, n), n > 0
  PROVE  At(B, b, reg.ring.next[n])
  <1>1. b \in 1 .. Len(B)
    BY DEF At
  <1>2. PICK k \in 1 .. Len(B[b]) : reg.ring.next[n] = Node(-b, B[b], k + 1)
    BY NextAt
  <1>3. Len(B[b]) \in Nat
    BY <1>1, InList
  <1>4. k + 1 \in 0 .. Len(B[b]) + 1
    BY <1>3
  <1> QED
    BY <1>1, <1>2, <1>4 DEF At

\* The block after b, 0 after the last one.
LEMMA BlockNext ==
  ASSUME NEW reg, NEW B, Shape(reg, B), Len(B) > 0
  PROVE  /\ reg.bring.next[0] = 1
         /\ \A b \in 1 .. Len(B) : reg.bring.next[b] = IF b = Len(B) THEN 0 ELSE b + 1
  <1> DEFINE l == Len(B)
             c == Count(l)
  <1>1. l \in Nat /\ Chain(reg.bring, 0 .. l, 0, c)
    BY DEF Shape, Listing
  <1>2. Len(c) = l /\ \A k \in 1 .. l : c[k] = k
    BY <1>1, CountIs
  <1> HIDE DEF c
  <1>3. (\A k \in 0 .. l : Node(0, c, k) = k) /\ Node(0, c, l + 1) = 0
    BY <1>1, <1>2 DEF Node
  <1>4. \A k \in 0 .. l : reg.bring.next[Node(0, c, k)] = Node(0, c, k + 1)
    BY <1>1, <1>2 DEF Chain, Chained
  <1>5. reg.bring.next[0] = 1
    <2>1. 0 \in 0 .. l /\ 0 + 1 \in 0 .. l
      BY <1>1
    <2> QED
      BY <1>3, <1>4, <2>1
  <1>6. ASSUME NEW b \in 1 .. l
        PROVE  reg.bring.next[b] = IF b = l THEN 0 ELSE b + 1
    <2>1. b \in 0 .. l /\ reg.bring.next[b] = Node(0, c, b + 1)
      BY <1>1, <1>3, <1>4
    <2>2. b # l => b + 1 \in 0 .. l
      BY <1>1
    <2> QED
      BY <1>3, <2>1, <2>2
  <1> QED
    BY <1>5, <1>6

LEMMA FirstAt ==
  ASSUME NEW reg, NEW B, Shape(reg, B), Len(B) > 0
  PROVE  At(B, reg.bring.next[0], reg.ring.next[-reg.bring.next[0]])
  <1> DEFINE b == reg.bring.next[0]
  <1>1. b = 1
    BY BlockNext
  <1>2. b \in 1 .. Len(B)
    BY <1>1 DEF Shape, Listing
  <1> HIDE DEF b
  <1>3. At(B, b, reg.ring.next[-b])
    BY <1>2, BlockAt
  <1> QED
    BY <1>3 DEF b

LEMMA NextBlockAt ==
  ASSUME NEW reg, NEW B, Shape(reg, B), Len(B) > 0, NEW b \in 1 .. Len(B), reg.bring.next[b] # 0
  PROVE  At(B, reg.bring.next[b], reg.ring.next[-reg.bring.next[b]])
  <1> DEFINE e == reg.bring.next[b]
  <1>1. Len(B) \in Nat /\ e = IF b = Len(B) THEN 0 ELSE b + 1
    BY BlockNext DEF Shape, Listing
  <1>2. e \in 1 .. Len(B)
    BY <1>1
  <1> HIDE DEF e
  <1>3. At(B, e, reg.ring.next[-e])
    BY <1>2, BlockAt
  <1> QED
    BY <1>3 DEF e

\* q is reg with body in front of element k of block b, and a loop at that
\* element goes on behind it.
Passed(q, reg, B, W, b, k, body) ==
  /\ Whole(q, W) /\ Spliced(q, reg, B, W, b, k, body)
  /\ q.ring.next[B[b][k]] = Node(-b, W[b], (k + Len(body)) + 1)

LEMMA VisitSplices ==
  ASSUME NEW reg, NEW B, Whole(reg, B), NEW b \in 1 .. Len(B), NEW k \in 1 .. Len(B[b]),
         NEW body, Plain(body)
  PROVE  \E W : Passed(CreateAll(reg, B[b][k], body), reg, B, W, b, k, body)
  <1> DEFINE n == B[b][k]
             q == CreateAll(reg, n, body)
             c == B[b]
             m == Len(body)
             l == Len(c)
  <1>1. Shape(reg, B) /\ Len(B) > 0 /\ \A e \in 1 .. Len(B) : Complete(reg, B, e)
    BY DEF Whole
  <1>2. n = B[b][k]
    OBVIOUS
  <1>3. /\ l \in Nat /\ m \in Nat /\ IsSeq(body) /\ k \in 1 .. Len(B[b]) + 1
        /\ \A j \in 1 .. m : IsInst(body[j]) /\ ~BlockEnds(body[j])
    BY <1>1, InList, AppendSeq DEF Plain, Inner
  <1>4. n = Node(-b, B[b], k)
    BY <1>2 DEF Node
  <1>5. PICK W : Spliced(q, reg, B, W, b, k, body)
    BY <1>1, <1>3, <1>4, GrowIs
  <1> HIDE DEF q, n
  <1>6. /\ Shape(q, W) /\ Len(W) = Len(B) /\ q.succs = reg.succs /\ Len(W[b]) = l + m
        /\ \A j \in 1 .. k - 1 : q.insts[W[b][j]] = reg.insts[c[j]]
        /\ \A j \in 1 .. m : q.insts[W[b][k + j - 1]] = Kept(body[j])
        /\ \A j \in k .. l : W[b][j + m] = c[j] /\ q.insts[c[j]] = reg.insts[c[j]]
    BY <1>5 DEF Spliced
  <1>7. /\ l > 0 /\ BlockEnds(reg.insts[c[l]]) /\ Succs(reg.insts[c[l]]) = Len(reg.succs[b])
        /\ \A j \in 1 .. l - 1 : ~BlockEnds(reg.insts[c[j]])
    BY <1>1 DEF Complete, Jumps
  <1>8. k \in 1 .. l
    OBVIOUS
  <1> HIDE DEF l, m, c
  <1>9. ASSUME NEW j \in 1 .. l + m - 1 PROVE ~BlockEnds(q.insts[W[b][j]])
    <2>1. CASE j \in 1 .. k - 1
      <3>1. j \in 1 .. l - 1
        BY <1>3, <1>8, <2>1
      <3> QED
        BY <1>6, <1>7, <2>1, <3>1
    <2>2. CASE j \in k .. k + m - 1
      <3>1. j - k + 1 \in 1 .. m /\ k + (j - k + 1) - 1 = j
        BY <1>3, <1>8, <2>2
      <3>2. q.insts[W[b][j]] = Kept(body[j - k + 1])
        BY <1>6, <3>1
      <3> QED
        BY <1>3, <3>1, <3>2, KeptEnds
    <2>3. CASE j \in k + m .. l + m - 1
      <3>1. j - m \in k .. l /\ j - m \in 1 .. l - 1 /\ (j - m) + m = j
        BY <1>3, <1>8, <2>3
      <3>2. q.insts[W[b][j]] = reg.insts[c[j - m]]
        BY <1>6, <3>1
      <3> QED
        BY <1>7, <3>1, <3>2
    <2>4. j \in 1 .. k - 1 \/ j \in k .. k + m - 1 \/ j \in k + m .. l + m - 1
      BY <1>3, <1>8
    <2> QED
      BY <2>1, <2>2, <2>3, <2>4
  <1>10. l \in k .. l /\ l + m > 0
    BY <1>3, <1>8
  <1>11. q.insts[W[b][l + m]] = reg.insts[c[l]]
    BY <1>6, <1>10
  <1>12. Complete(q, W, b)
    <2> DEFINE d == W[b]
               z == l + m
    <2>1. Len(d) = z /\ z > 0 /\ q.succs = reg.succs
      BY <1>6, <1>10
    <2>2. BlockEnds(q.insts[d[z]]) /\ Succs(q.insts[d[z]]) = Len(reg.succs[b])
      BY <1>7, <1>11
    <2>3. ASSUME NEW j \in 1 .. z - 1 PROVE ~BlockEnds(q.insts[d[j]])
      <3>1. j \in 1 .. l + m - 1
        BY <1>3 DEF z
      <3> QED
        BY <1>9, <3>1
    <2> HIDE DEF z, d
    <2>4. Jumps(q.insts, d, Len(q.succs[b]))
      BY <2>1, <2>2, <2>3 DEF Jumps
    <2> QED
      BY <2>4 DEF Complete, d
  <1>13. ASSUME NEW e \in 1 .. Len(W) PROVE Complete(q, W, e)
    <2>1. CASE e = b
      BY <1>12, <2>1
    <2>2. CASE e # b
      BY <1>1, <1>5, <1>6, <2>2, OthersStay
    <2> QED
      BY <2>1, <2>2
  <1>14. Whole(q, W)
    BY <1>1, <1>6, <1>13 DEF Whole
  <1>15. q.ring.next[n] = Node(-b, W[b], (k + m) + 1)
    <2>1. k + m \in 1 .. Len(W[b]) /\ k + m \in 0 .. Len(W[b]) /\ k \in k .. l
      BY <1>3, <1>6, <1>8
    <2>2. n = W[b][k + m]
      BY <1>2, <1>6, <2>1 DEF c
    <2>3. n = Node(-b, W[b], k + m)
      BY <2>1, <2>2 DEF Node
    <2>4. Chained(q.ring, -b, W[b])
      BY <1>6 DEF Shape, Listing, Chain
    <2> QED
      BY <2>1, <2>3, <2>4 DEF Chained
  <1> QED
    BY <1>2, <1>5, <1>14, <1>15 DEF q, m, n, Passed

\* A pass that puts body in front of the node it is at keeps the region whole
\* and goes on behind that node.
LEMMA VisitIs ==
  ASSUME NEW reg, NEW B, Whole(reg, B), NEW b, NEW n, At(B, b, n), n > 0, NEW body, Plain(body)
  PROVE  \E W : Whole(CreateAll(reg, n, body), W) /\ At(W, b, CreateAll(reg, n, body).ring.next[n])
  <1> DEFINE q == CreateAll(reg, n, body)
             m == Len(body)
  <1>1. Shape(reg, B) /\ b \in 1 .. Len(B)
    BY DEF Whole, At
  <1>2. PICK k \in 1 .. Len(B[b]) : n = B[b][k]
    BY <1>1, NextAt
  <1>3. PICK W : Passed(q, reg, B, W, b, k, body)
    BY <1>1, <1>2, VisitSplices
  <1> HIDE DEF q
  <1>4. /\ Whole(q, W) /\ q.ring.next[n] = Node(-b, W[b], (k + m) + 1)
        /\ Len(W) = Len(B) /\ Len(W[b]) = Len(B[b]) + m
    BY <1>2, <1>3 DEF Passed, Spliced
  <1>5. (k + m) + 1 \in 0 .. Len(W[b]) + 1
    <2>1. Len(B[b]) \in Nat /\ m \in Nat
      BY <1>1, InList, AppendSeq DEF Plain
    <2> HIDE DEF m
    <2> QED
      BY <1>4, <2>1
  <1>6. At(W, b, q.ring.next[n])
    BY <1>1, <1>4, <1>5 DEF At
  <1> QED
    BY <1>4, <1>6 DEF q

-----------------------------------------------------------------------------
(* Positions in the whole code *)

LEMMA SameSeq ==
  ASSUME NEW x \in Seq(Pos), NEW y \in Seq(Pos), Len(x) = Len(y),
         \A j \in 1 .. Len(x) : x[j] = y[j]
  PROVE  x = y
  OBVIOUS

LEMMA SpliceConcat ==
  ASSUME NEW x \in Seq(Pos), NEW y \in Seq(Pos), NEW ms \in Seq(Pos), NEW p \in 1 .. Len(x) + 1
  PROVE  Splice(x, p, ms) \o y = Splice(x \o y, p, ms)
  <1> DEFINE l == Len(x)
             h == Len(y)
             m == Len(ms)
             w == x \o y
             u == Splice(x, p, ms)
             v == u \o y
             z == Splice(w, p, ms)
  <1>1. /\ l \in Nat /\ h \in Nat /\ m \in Nat /\ w \in Seq(Pos) /\ Len(w) = l + h
        /\ (\A k \in 1 .. l : w[k] = x[k]) /\ \A k \in 1 .. h : w[l + k] = y[k]
    BY ConcatIs
  <1> HIDE DEF w
  <1>2. /\ u \in Seq(Pos) /\ Len(u) = l + m
        /\ \A j \in 1 .. l + m :
             u[j] = IF j < p THEN x[j] ELSE IF j < p + m THEN ms[j - p + 1] ELSE x[j - m]
    BY SpliceIs
  <1> HIDE DEF u
  <1>3. /\ v \in Seq(Pos) /\ Len(v) = (l + m) + h
        /\ (\A k \in 1 .. l + m : v[k] = u[k]) /\ \A k \in 1 .. h : v[(l + m) + k] = y[k]
    <2>1. /\ v \in Seq(Pos) /\ Len(v) = Len(u) + h
          /\ (\A k \in 1 .. Len(u) : v[k] = u[k]) /\ \A k \in 1 .. h : v[Len(u) + k] = y[k]
      BY <1>2, ConcatIs
    <2> HIDE DEF v
    <2> QED
      BY <1>2, <2>1
  <1> HIDE DEF v
  <1>4. p \in 1 .. Len(w) + 1
    BY <1>1
  <1>5. /\ z \in Seq(Pos) /\ Len(z) = (l + h) + m
        /\ \A j \in 1 .. (l + h) + m :
             z[j] = IF j < p THEN w[j] ELSE IF j < p + m THEN ms[j - p + 1] ELSE w[j - m]
    <2>1. /\ z \in Seq(Pos) /\ Len(z) = Len(w) + m
          /\ \A j \in 1 .. Len(w) + m :
               z[j] = IF j < p THEN w[j] ELSE IF j < p + m THEN ms[j - p + 1] ELSE w[j - m]
      BY <1>1, <1>4, SpliceIs
    <2> HIDE DEF z
    <2> QED
      BY <1>1, <2>1
  <1> HIDE DEF z
  <1>6. p \in 1 .. l + 1
    OBVIOUS
  <1> HIDE DEF l, h, m
  <1>7. ASSUME NEW j \in 1 .. Len(v) PROVE v[j] = z[j]
    <2>0. j \in 1 .. (l + h) + m
      BY <1>1, <1>3
    <2>1. CASE j \in 1 .. l + m
      <3>1. CASE j < p
        <4>1. j \in 1 .. l
          BY <1>1, <1>6, <2>1, <3>1
        <4> QED
          BY <1>1, <1>2, <1>3, <1>5, <2>0, <2>1, <3>1, <4>1
      <3>2. CASE ~(j < p) /\ j < p + m
        BY <1>2, <1>3, <1>5, <2>0, <2>1, <3>2
      <3>3. CASE ~(j < p) /\ ~(j < p + m)
        <4>1. j - m \in 1 .. l
          BY <1>1, <1>6, <2>1, <3>3
        <4> QED
          BY <1>1, <1>2, <1>3, <1>5, <2>0, <2>1, <3>3, <4>1
      <3> QED
        BY <3>1, <3>2, <3>3
    <2>2. CASE j \notin 1 .. l + m
      <3>1. /\ j - (l + m) \in 1 .. h /\ (l + m) + (j - (l + m)) = j
            /\ ~(j < p) /\ ~(j < p + m) /\ l + (j - (l + m)) = j - m
        BY <1>1, <1>6, <2>0, <2>2
      <3>2. v[j] = y[j - (l + m)]
        BY <1>3, <3>1
      <3>3. z[j] = w[j - m]
        BY <1>5, <2>0, <3>1
      <3>4. w[j - m] = y[j - (l + m)]
        BY <1>1, <3>1
      <3> QED
        BY <3>2, <3>3, <3>4
    <2> QED
      BY <2>1, <2>2
  <1>8. Len(v) = Len(z)
    BY <1>1, <1>3, <1>5
  <1>9. v = z
    BY <1>3, <1>5, <1>7, <1>8, SameSeq
  <1> QED
    BY <1>9 DEF v, z, u, w

LEMMA ConcatSplice ==
  ASSUME NEW x \in Seq(Pos), NEW c \in Seq(Pos), NEW ms \in Seq(Pos), NEW k \in 1 .. Len(c) + 1
  PROVE  x \o Splice(c, k, ms) = Splice(x \o c, Len(x) + k, ms)
  <1> DEFINE l == Len(x)
             h == Len(c)
             m == Len(ms)
             w == x \o c
             u == Splice(c, k, ms)
             v == x \o u
             p == l + k
             z == Splice(w, p, ms)
  <1>1. /\ l \in Nat /\ h \in Nat /\ m \in Nat /\ w \in Seq(Pos) /\ Len(w) = l + h
        /\ (\A j \in 1 .. l : w[j] = x[j]) /\ \A j \in 1 .. h : w[l + j] = c[j]
    BY ConcatIs
  <1> HIDE DEF w
  <1>2. /\ u \in Seq(Pos) /\ Len(u) = h + m
        /\ \A j \in 1 .. h + m :
             u[j] = IF j < k THEN c[j] ELSE IF j < k + m THEN ms[j - k + 1] ELSE c[j - m]
    BY SpliceIs
  <1> HIDE DEF u
  <1>3. /\ v \in Seq(Pos) /\ Len(v) = l + (h + m)
        /\ (\A j \in 1 .. l : v[j] = x[j]) /\ \A j \in 1 .. h + m : v[l + j] = u[j]
    <2>1. /\ v \in Seq(Pos) /\ Len(v) = l + Len(u)
          /\ (\A j \in 1 .. l : v[j] = x[j]) /\ \A j \in 1 .. Len(u) : v[l + j] = u[j]
      BY <1>2, ConcatIs
    <2> HIDE DEF v
    <2> QED
      BY <1>2, <2>1
  <1> HIDE DEF v
  <1>4. p \in 1 .. Len(w) + 1 /\ p = l + k /\ k \in 1 .. h + 1
    BY <1>1
  <1> HIDE DEF p
  <1>5. /\ z \in Seq(Pos) /\ Len(z) = (l + h) + m
        /\ \A j \in 1 .. (l + h) + m :
             z[j] = IF j < p THEN w[j] ELSE IF j < p + m THEN ms[j - p + 1] ELSE w[j - m]
    <2>1. /\ z \in Seq(Pos) /\ Len(z) = Len(w) + m
          /\ \A j \in 1 .. Len(w) + m :
               z[j] = IF j < p THEN w[j] ELSE IF j < p + m THEN ms[j - p + 1] ELSE w[j - m]
      BY <1>1, <1>4, SpliceIs
    <2> HIDE DEF z
    <2> QED
      BY <1>1, <2>1
  <1> HIDE DEF z, l, h, m
  <1>7. ASSUME NEW j \in 1 .. Len(v) PROVE v[j] = z[j]
    <2>0. j \in 1 .. (l + h) + m
      BY <1>1, <1>3
    <2>1. CASE j \in 1 .. l
      <3>1. j < p
        BY <1>1, <1>4, <2>1
      <3> QED
        BY <1>1, <1>3, <1>5, <2>0, <2>1, <3>1
    <2>2. CASE j \notin 1 .. l
      <3> DEFINE i == j - l
      <3>1. i \in 1 .. h + m /\ l + i = j /\ (i < k <=> j < p) /\ (i < k + m <=> j < p + m)
            /\ i - k + 1 = j - p + 1
        BY <1>1, <1>4, <2>0, <2>2
      <3> HIDE DEF i
      <3>2. v[j] = u[i]
        BY <1>3, <3>1
      <3>3. CASE i < k
        <4>1. i \in 1 .. h
          BY <1>1, <1>4, <3>1, <3>3
        <4>2. u[i] = c[i] /\ z[j] = w[j] /\ w[j] = c[i]
          BY <1>1, <1>2, <1>5, <2>0, <3>1, <3>3, <4>1
        <4> QED
          BY <3>2, <4>2
      <3>4. CASE ~(i < k) /\ i < k + m
        <4>2. u[i] = ms[i - k + 1] /\ z[j] = ms[j - p + 1]
          BY <1>2, <1>5, <2>0, <3>1, <3>4
        <4> QED
          BY <3>1, <3>2, <4>2
      <3>5. CASE ~(i < k) /\ ~(i < k + m)
        <4>1. i - m \in 1 .. h /\ l + (i - m) = j - m
          BY <1>1, <1>4, <3>1, <3>5
        <4>2. u[i] = c[i - m] /\ z[j] = w[j - m] /\ w[l + (i - m)] = c[i - m]
          BY <1>1, <1>2, <1>5, <2>0, <3>1, <3>5, <4>1
        <4> QED
          BY <3>2, <4>1, <4>2
      <3> QED
        BY <3>3, <3>4, <3>5
    <2> QED
      BY <2>1, <2>2
  <1>8. Len(v) = Len(z)
    BY SMTT(30), <1>1, <1>3, <1>5
  <1>9. v = z
    BY <1>3, <1>5, <1>7, <1>8, SameSeq
  <1> QED
    BY <1>9 DEF v, z, u, w, p, l

\* The elements of block b stand in the first n blocks, behind those of the
\* blocks before it.
Placed(fl, B, b, n) ==
  /\ Len(fl[b]) <= Len(fl[n])
  /\ \A k \in 1 .. Len(B[b]) : fl[n][Len(fl[b - 1]) + k] = B[b][k]

\* z is x followed by y.
Joined(z, x, y) ==
  /\ z = x \o y /\ x \in Seq(Pos) /\ y \in Seq(Pos) /\ z \in Seq(Pos)
  /\ Len(x) \in Nat /\ Len(y) \in Nat /\ Len(z) = Len(x) + Len(y)
  /\ \A k \in 1 .. Len(x) : z[k] = x[k]
  /\ \A k \in 1 .. Len(y) : z[Len(x) + k] = y[k]

LEMMA FlatStep ==
  ASSUME NEW B \in Seq(Seq(Pos)), NEW fl, Flat(fl, B), NEW n \in 1 .. Len(B)
  PROVE  Joined(fl[n], fl[n - 1], B[n])
  <1> DEFINE x == fl[n - 1]
             y == B[n]
             z == fl[n]
             A == Seq(Pos)
  <1>1. /\ n \in 0 .. Len(B) /\ n - 1 \in 0 .. Len(B) /\ fl \in [0 .. Len(B) -> A] /\ y \in A
        /\ z = x \o y
    <2>1. Len(B) \in Nat /\ y \in A
      OBVIOUS
    <2>2. n \in 0 .. Len(B) /\ n - 1 \in 0 .. Len(B)
      BY <2>1
    <2>3. fl \in [0 .. Len(B) -> A] /\ z = x \o y
      BY Zenon DEF Flat
    <2> QED
      BY <2>1, <2>2, <2>3
  <1>2. x \in A /\ z \in A
    <2> HIDE DEF A
    <2> QED
      BY <1>1
  <1> HIDE DEF x, y, z
  <1>3. Joined(z, x, y)
    BY SMTT(30), <1>1, <1>2, ConcatIs DEF Joined
  <1> QED
    BY <1>3 DEF x, y, z

LEMMA FlatAt ==
  ASSUME NEW B \in Seq(Seq(Pos)), NEW fl, Flat(fl, B)
  PROVE  \A b \in 1 .. Len(B) : Placed(fl, B, b, Len(B))
  <1> DEFINE S == {n \in Nat : n <= Len(B) => \A b \in 1 .. n : Placed(fl, B, b, n)}
  <1>0. Len(B) \in Nat
    OBVIOUS
  <1>1. 0 \in S
    OBVIOUS
  <1>2. ASSUME NEW n \in Nat, n \in S PROVE n + 1 \in S
    <2> SUFFICES ASSUME n + 1 <= Len(B), NEW b \in 1 .. n + 1 PROVE Placed(fl, B, b, n + 1)
      OBVIOUS
    <2> DEFINE h == n + 1
               x == fl[n]
               y == B[h]
               z == fl[h]
    <2>1. h \in 1 .. Len(B) /\ h - 1 = n /\ \A e \in 1 .. n : Placed(fl, B, e, n)
      BY <1>0, <1>2
    <2>2. Joined(z, x, y)
      <3> HIDE DEF h
      <3>1. Joined(fl[h], fl[h - 1], B[h])
        BY <2>1, FlatStep
      <3> QED
        BY <2>1, <3>1
    <2>3. CASE b = h
      <3>1. Len(fl[h]) <= Len(fl[h]) /\ \A k \in 1 .. Len(B[h]) : fl[h][Len(fl[n]) + k] = B[h][k]
        <4>1. Len(z) <= Len(z) /\ \A k \in 1 .. Len(y) : z[Len(x) + k] = y[k]
          <5> HIDE DEF x, y, z
          <5> QED
            BY <2>2 DEF Joined
        <4> QED
          BY <4>1
      <3> HIDE DEF h, x, y, z
      <3>2. Placed(fl, B, h, h)
        BY <2>1, <3>1 DEF Placed
      <3> QED
        BY <2>3, <3>2 DEF h
    <2>4. CASE b # h
      <3>1. b \in 1 .. n /\ b \in 1 .. Len(B)
        BY <1>0, <2>1, <2>4
      <3> DEFINE c == B[b]
                 u == fl[b - 1]
                 v == fl[b]
      <3>2. Joined(v, u, c)
        BY <3>1, FlatStep
      <3>3. Len(v) <= Len(x) /\ \A k \in 1 .. Len(c) : x[Len(u) + k] = c[k]
        BY <2>1, <3>1 DEF Placed
      <3>4. Len(v) <= Len(z) /\ \A k \in 1 .. Len(c) : z[Len(u) + k] = c[k]
        <4> HIDE DEF c, u, v, x, y, z
        <4>1. /\ Len(v) = Len(u) + Len(c) /\ Len(u) \in Nat /\ Len(c) \in Nat
              /\ Len(z) = Len(x) + Len(y) /\ Len(x) \in Nat /\ Len(y) \in Nat
              /\ \A k \in 1 .. Len(x) : z[k] = x[k]
          BY <2>2, <3>2 DEF Joined
        <4>2. \A k \in 1 .. Len(c) : Len(u) + k \in 1 .. Len(x)
          BY <3>3, <4>1
        <4> QED
          BY <3>3, <4>1, <4>2
      <3> HIDE DEF x, y
      <3> QED
        BY <3>4 DEF Placed
    <2> QED
      BY <2>3, <2>4
  <1>3. Nat \subseteq S
    <2> HIDE DEF S
    <2> QED
      BY <1>1, <1>2, NatInd
  <1> QED
    BY SMTT(30), <1>0, <1>3

\* W is B with another block b.
Replaced(B, W, b) == Len(W) = Len(B) /\ \A e \in 1 .. Len(B) : e # b => W[e] = B[e]

\* ms are in front of element k of block b of the whole code gl.
SplicedIn(fl, B, b, k, ms, gl) ==
  /\ gl[b - 1] = fl[b - 1]
  /\ gl[Len(B)] = Splice(fl[Len(B)], Len(fl[b - 1]) + k, ms)

\* Putting ms in front of an element of a block puts them in front of it in
\* the whole code, and leaves the blocks before it where they are.
LEMMA FlatSplice ==
  ASSUME NEW B \in Seq(Seq(Pos)), NEW W \in Seq(Seq(Pos)),
         NEW b \in 1 .. Len(B), NEW k \in 1 .. Len(B[b]) + 1, NEW ms \in Seq(Pos),
         Replaced(B, W, b), W[b] = Splice(B[b], k, ms),
         NEW fl, NEW gl, Flat(fl, B), Flat(gl, W)
  PROVE  SplicedIn(fl, B, b, k, ms, gl)
  <1> DEFINE l == Len(B)
             p == Len(fl[b - 1]) + k
             S == {n \in Nat : n <= l => /\ n < b => gl[n] = fl[n]
                                         /\ n >= b => /\ gl[n] = Splice(fl[n], p, ms)
                                                      /\ p \in 1 .. Len(fl[n]) + 1}
  <1>0. l \in Nat /\ b \in 1 .. l /\ Len(W) = l /\ \A e \in 1 .. l : e # b => W[e] = B[e]
    BY DEF Replaced
  <1>1. Joined(fl[b], fl[b - 1], B[b])
    BY FlatStep
  <1>2. p \in 1 .. Len(fl[b]) + 1
    <2> DEFINE x == fl[b - 1]
               y == B[b]
               z == fl[b]
    <2>1. k \in 1 .. Len(y) + 1
      OBVIOUS
    <2>2. Len(x) + k \in 1 .. Len(z) + 1
      <3> HIDE DEF x, y, z
      <3>1. Len(x) \in Nat /\ Len(y) \in Nat /\ Len(z) = Len(x) + Len(y)
        BY <1>1 DEF Joined, x, y, z
      <3> QED
        BY <2>1, <3>1
    <2> QED
      BY <2>2
  <1>3. 0 \in S
    BY <1>0 DEF Flat
  <1>4. ASSUME NEW n \in Nat, n \in S PROVE n + 1 \in S
    <2> DEFINE h == n + 1
    <2> SUFFICES ASSUME h <= l
                 PROVE  /\ h < b => gl[h] = fl[h]
                        /\ h >= b => gl[h] = Splice(fl[h], p, ms) /\ p \in 1 .. Len(fl[h]) + 1
      OBVIOUS
    <2>1. /\ h \in 1 .. l /\ h \in 1 .. Len(W) /\ h - 1 = n
          /\ n < b => gl[n] = fl[n]
          /\ n >= b => gl[n] = Splice(fl[n], p, ms) /\ p \in 1 .. Len(fl[n]) + 1
      BY <1>0, <1>4
    <2>2. (h < b <=> n + 1 < b) /\ (h = b <=> n = b - 1) /\ (h > b <=> n >= b)
      BY <1>0
    <2> HIDE DEF h, p
    <2>3. Joined(fl[h], fl[n], B[h])
      <3>1. Joined(fl[h], fl[h - 1], B[h])
        BY <2>1, FlatStep
      <3> QED
        BY <2>1, <3>1
    <2>4. gl[h] = gl[n] \o W[h]
      <3>1. Joined(gl[h], gl[h - 1], W[h])
        BY <2>1, FlatStep
      <3> QED
        BY <2>1, <3>1 DEF Joined
    <2>5. CASE h < b
      <3>1. n < b /\ h # b /\ ~(h >= b)
        BY <1>0, <2>1, <2>5
      <3> QED
        BY <1>0, <2>1, <2>3, <2>4, <2>5, <3>1 DEF Joined
    <2>6. CASE h = b
      <3>1. n < b /\ ~(h < b) /\ n = b - 1
        BY <1>0, <2>1, <2>6
      <3>2. gl[h] = fl[b - 1] \o Splice(B[b], k, ms)
        BY <2>1, <2>4, <2>6, <3>1
      <3>3. gl[h] = Splice(fl[b], p, ms)
        <4> DEFINE x == fl[b - 1]
                   y == B[b]
                   z == fl[b]
        <4>1. k \in 1 .. Len(y) + 1 /\ p = Len(x) + k /\ gl[h] = x \o Splice(y, k, ms) /\ Joined(z, x, y)
          BY <1>1, <3>2 DEF p
        <4> HIDE DEF x, y, z
        <4>2. x \o Splice(y, k, ms) = Splice(z, p, ms)
          BY <4>1, ConcatSplice DEF Joined
        <4> QED
          BY <4>1, <4>2 DEF z
      <3> QED
        BY <1>2, <2>6, <3>1, <3>3 DEF p
    <2>7. CASE h > b
      <3>1. n >= b /\ ~(h < b) /\ h # b
        BY <1>0, <2>1, <2>7
      <3>2. gl[h] = Splice(fl[n], p, ms) \o B[h]
        BY <1>0, <2>1, <2>4, <3>1
      <3>3. gl[h] = Splice(fl[h], p, ms)
        <4> DEFINE x == fl[n]
                   y == B[h]
                   z == fl[h]
        <4>1. p \in 1 .. Len(x) + 1 /\ gl[h] = Splice(x, p, ms) \o y /\ Joined(z, x, y)
          BY <2>1, <2>3, <3>1, <3>2
        <4> HIDE DEF x, y, z
        <4>2. Splice(x, p, ms) \o y = Splice(z, p, ms)
          BY <4>1, SpliceConcat DEF Joined
        <4> QED
          BY <4>1, <4>2 DEF z
      <3>4. p \in 1 .. Len(fl[h]) + 1
        <4> DEFINE x == fl[n]
                   y == B[h]
                   z == fl[h]
        <4>1. p \in 1 .. Len(x) + 1 /\ Joined(z, x, y)
          BY <2>1, <2>3, <3>1
        <4> HIDE DEF x, y, z
        <4>2. p \in 1 .. Len(z) + 1
          BY <4>1 DEF Joined
        <4> QED
          BY <4>2 DEF z
      <3> QED
        BY <3>1, <3>3, <3>4
    <2>8. h < b \/ h = b \/ h > b
      BY <1>0, <2>1
    <2> QED
      BY <2>5, <2>6, <2>7, <2>8
  <1>5. Nat \subseteq S
    <2> HIDE DEF S
    <2> QED
      BY <1>3, <1>4, NatInd
  <1>6. b - 1 \in Nat /\ b - 1 <= l /\ b - 1 < b /\ l >= b
    BY <1>0
  <1> HIDE DEF p
  <1>7. gl[b - 1] = fl[b - 1]
    BY <1>5, <1>6
  <1>8. gl[l] = Splice(fl[l], p, ms) /\ p \in 1 .. Len(fl[l]) + 1
    BY <1>0, <1>5, <1>6
  <1> QED
    BY <1>7, <1>8 DEF p, SplicedIn

-----------------------------------------------------------------------------
(* What a loop has passed and what is ahead of it *)

\* vis are the first elements of pl.
Followed(vis, pl) ==
  /\ pl \in Seq(Pos) /\ vis \in Seq(Pos) /\ Len(pl) \in Nat /\ Len(vis) \in Nat
  /\ Len(vis) <= Len(pl) /\ \A j \in 1 .. Len(vis) : vis[j] = pl[j]

\* From p on x is pl without its first v elements.
ToVisit(x, pl, v, p) ==
  /\ x \in Seq(Pos) /\ Len(x) \in Nat /\ p \in 1 .. Len(x) + 1
  /\ Len(x) + v + 1 = Len(pl) + p
  /\ \A i \in 1 .. Len(pl) - v : x[p + i - 1] = pl[v + i]

\* The first v elements of pl are before p in x, in order.
Behind(x, pl, v, p) ==
  /\ \A j \in 1 .. v : \E c \in 1 .. p - 1 : x[c] = pl[j]
  /\ \A i, j \in 1 .. v : i < j =>
       \E a, c \in 1 .. p - 1 : a < c /\ x[a] = pl[i] /\ x[c] = pl[j]

\* What is not of pl is of the guest instruction of the next element.
Fronts(x, insts, pl, p) ==
  \A i \in 1 .. p - 1 : x[i] \notin Range(pl) =>
    i < Len(x) /\ insts[x[i + 1]].at = insts[x[i]].at

Sweep(x, insts, pl, vis, p) ==
  /\ Followed(vis, pl) /\ ToVisit(x, pl, Len(vis), p)
  /\ Behind(x, pl, Len(vis), p) /\ Fronts(x, insts, pl, p)

LEMMA SweepBegins ==
  ASSUME NEW x \in Seq(Pos), NEW insts
  PROVE  Sweep(x, insts, x, <<>>, 1)
  <1> DEFINE e == <<>>
             n == 0
             p == 1
  <1>1. e \in Seq(Pos) /\ Len(e) = n /\ Len(x) \in Nat /\ n = 0 /\ p = 1
    OBVIOUS
  <1> HIDE DEF e, n, p
  <1>2. Followed(e, x)
    BY <1>1 DEF Followed
  <1>3. ToVisit(x, x, n, p)
    BY <1>1 DEF ToVisit
  <1>4. Behind(x, x, n, p) /\ Fronts(x, insts, x, p)
    BY <1>1 DEF Behind, Fronts
  <1>5. Sweep(x, insts, x, e, p)
    BY <1>1, <1>2, <1>3, <1>4 DEF Sweep
  <1> QED
    BY <1>5 DEF e, p

\* The loop puts ms in front of the element it is at, for the same guest
\* instruction, and goes on behind that element.
LEMMA SweepStep ==
  ASSUME NEW x, NEW insts, NEW pl, NEW vis, NEW p, Sweep(x, insts, pl, vis, p), p <= Len(x),
         NEW ms \in Seq(Pos), NEW new,
         \A i \in 1 .. Len(x) : new[x[i]].at = insts[x[i]].at,
         \A i \in 1 .. Len(ms) : new[ms[i]].at = insts[x[p]].at
  PROVE  Sweep(Splice(x, p, ms), new, pl, Append(vis, x[p]), (p + Len(ms)) + 1)
  <1> DEFINE m == Len(ms)
             v == Len(vis)
             l == Len(x)
             h == Len(pl)
             y == Splice(x, p, ms)
             w == Append(vis, x[p])
             z == (p + m) + 1
  <1>1. /\ pl \in Seq(Pos) /\ vis \in Seq(Pos) /\ h \in Nat /\ v \in Nat /\ v <= h
        /\ \A j \in 1 .. v : vis[j] = pl[j]
    BY DEF Sweep, Followed
  <1>2. /\ x \in Seq(Pos) /\ l \in Nat /\ p \in 1 .. l + 1 /\ l + v + 1 = h + p
        /\ \A i \in 1 .. h - v : x[p + i - 1] = pl[v + i]
    BY DEF Sweep, ToVisit
  <1>3. /\ \A j \in 1 .. v : \E c \in 1 .. p - 1 : x[c] = pl[j]
        /\ \A i, j \in 1 .. v : i < j =>
             \E a, c \in 1 .. p - 1 : a < c /\ x[a] = pl[i] /\ x[c] = pl[j]
    BY DEF Sweep, Behind
  <1>4. \A i \in 1 .. p - 1 : x[i] \notin Range(pl) => i < l /\ insts[x[i + 1]].at = insts[x[i]].at
    BY DEF Sweep, Fronts
  <1>5. /\ m \in Nat /\ y \in Seq(Pos) /\ Len(y) = l + m
        /\ \A j \in 1 .. l + m :
             y[j] = IF j < p THEN x[j] ELSE IF j < p + m THEN ms[j - p + 1] ELSE x[j - m]
    BY SMTT(30), <1>2, SpliceIs
  <1>6. /\ (\A i \in 1 .. l : new[x[i]].at = insts[x[i]].at) /\ p <= l
        /\ \A i \in 1 .. m : new[ms[i]].at = insts[x[p]].at
    OBVIOUS
  <1>7. p \in 1 .. l /\ x[p] \in Pos
    <2>1. p \in 1 .. l
      BY <1>2, <1>6
    <2> QED
      BY <1>2, <2>1
  <1>8. w \in Seq(Pos) /\ Len(w) = v + 1 /\ w[v + 1] = x[p] /\ \A j \in 1 .. v : w[j] = vis[j]
    BY <1>1, <1>7
  <1> HIDE DEF m, v, l, h, y, w
  <1>9. /\ v + 1 <= h /\ x[p] = pl[v + 1] /\ v + 1 \in 1 .. h
    <2>1. 1 \in 1 .. h - v /\ p + 1 - 1 = p
      BY <1>1, <1>2, <1>7
    <2>2. x[p] = pl[v + 1]
      BY <1>2, <2>1
    <2> QED
      BY <1>1, <2>1, <2>2
  <1>10. /\ \A i \in 1 .. p - 1 : y[i] = x[i] /\ i \in 1 .. l
         /\ \A i \in 1 .. m : y[p + i - 1] = ms[i]
         /\ \A i \in p .. l : y[i + m] = x[i]
    <2>1. ASSUME NEW i \in 1 .. p - 1 PROVE y[i] = x[i] /\ i \in 1 .. l
      <3>1. i \in 1 .. l + m /\ i < p /\ i \in 1 .. l
        BY <1>2, <1>5, <1>7
      <3> QED
        BY <1>5, <3>1
    <2>2. ASSUME NEW i \in 1 .. m PROVE y[p + i - 1] = ms[i]
      <3>1. /\ p + i - 1 \in 1 .. l + m /\ ~(p + i - 1 < p) /\ p + i - 1 < p + m
            /\ (p + i - 1) - p + 1 = i
        BY <1>2, <1>5, <1>7
      <3> QED
        BY <1>5, <3>1
    <2>3. ASSUME NEW i \in p .. l PROVE y[i + m] = x[i]
      <3>1. i + m \in 1 .. l + m /\ ~(i + m < p) /\ ~(i + m < p + m) /\ (i + m) - m = i
        BY <1>2, <1>5, <1>7
      <3> QED
        BY <1>5, <3>1
    <2> QED
      BY <2>1, <2>2, <2>3
  <1>11. y[p + m] = x[p] /\ z \in 1 .. (l + m) + 1 /\ p + m \in 1 .. z - 1
    BY <1>2, <1>5, <1>7, <1>10
  <1>12. Followed(w, pl)
    <2>1. ASSUME NEW j \in 1 .. v + 1 PROVE w[j] = pl[j]
      <3>1. j \in 1 .. v \/ j = v + 1
        BY <1>1
      <3> QED
        BY <1>1, <1>8, <1>9, <3>1
    <2> QED
      BY <1>1, <1>8, <1>9, <2>1 DEF Followed, h
  <1>13. ToVisit(y, pl, v + 1, z)
    <2>1. (l + m) + (v + 1) + 1 = h + z
      <3>1. l \in Nat /\ m \in Nat /\ v \in Nat /\ h \in Nat /\ p \in Int /\ l + v + 1 = h + p
        BY <1>1, <1>2, <1>5
      <3> QED
        BY <3>1
    <2>2. ASSUME NEW i \in 1 .. h - (v + 1) PROVE y[z + i - 1] = pl[(v + 1) + i]
      <3> DEFINE k == i + 1
                 g == p + i
      <3>1. /\ k \in 1 .. h - v /\ p + k - 1 = g /\ v + k = (v + 1) + i
            /\ g \in p .. l /\ g + m = z + i - 1
        BY <1>1, <1>2, <1>5, <1>7
      <3> HIDE DEF k, g
      <3>2. x[g] = pl[(v + 1) + i]
        BY <1>2, <3>1
      <3>3. y[g + m] = x[g]
        BY <1>10, <3>1
      <3> QED
        BY <3>1, <3>2, <3>3
    <2> QED
      BY <1>5, <1>11, <2>1, <2>2 DEF ToVisit, h
  <1>14. Behind(y, pl, v + 1, z)
    <2>0. \A c \in 1 .. p - 1 : c \in 1 .. z - 1 /\ c < p + m
      BY <1>2, <1>5, <1>7
    <2>1. ASSUME NEW j \in 1 .. v PROVE \E c \in 1 .. p - 1 : c \in 1 .. z - 1 /\ y[c] = pl[j]
      BY <1>3, <1>10, <2>0
    <2>2. ASSUME NEW j \in 1 .. v + 1 PROVE \E c \in 1 .. z - 1 : y[c] = pl[j]
      <3>1. j \in 1 .. v \/ j = v + 1
        BY <1>1
      <3> QED
        BY <1>9, <1>11, <2>1, <3>1
    <2>3. ASSUME NEW i \in 1 .. v + 1, NEW j \in 1 .. v + 1, i < j
          PROVE  \E a, c \in 1 .. z - 1 : a < c /\ y[a] = pl[i] /\ y[c] = pl[j]
      <3>1. i \in 1 .. v /\ (j \in 1 .. v \/ j = v + 1)
        BY <1>1, <2>3
      <3>2. CASE j \in 1 .. v
        <4>1. PICK a \in 1 .. p - 1, c \in 1 .. p - 1 : a < c /\ x[a] = pl[i] /\ x[c] = pl[j]
          BY <1>3, <2>3, <3>1, <3>2
        <4> QED
          BY <1>10, <2>0, <4>1
      <3>3. CASE j = v + 1
        <4>1. PICK c \in 1 .. p - 1 : c \in 1 .. z - 1 /\ y[c] = pl[i]
          BY <2>1, <3>1
        <4>2. c < p + m /\ y[p + m] = pl[j] /\ p + m \in 1 .. z - 1
          BY <1>9, <1>11, <2>0, <3>3
        <4> QED
          BY <4>1, <4>2
      <3> QED
        BY <3>1, <3>2, <3>3
    <2> QED
      BY <2>2, <2>3 DEF Behind
  <1>15. Fronts(y, new, pl, z)
    <2> SUFFICES ASSUME NEW i \in 1 .. z - 1, y[i] \notin Range(pl)
                 PROVE  i < l + m /\ new[y[i + 1]].at = new[y[i]].at
      BY <1>5 DEF Fronts
    <2>1. CASE i \in 1 .. p - 1
      <3>1. /\ x[i] \notin Range(pl) /\ y[i] = x[i] /\ i \in 1 .. l /\ i < l + m
            /\ insts[x[i + 1]].at = insts[x[i]].at /\ i + 1 \in 1 .. l
        BY <1>2, <1>4, <1>5, <1>7, <1>10, <2>1
      <3>2. new[x[i]].at = insts[x[i]].at /\ new[x[i + 1]].at = insts[x[i + 1]].at
        BY <1>6, <3>1
      <3>3. CASE i + 1 \in 1 .. p - 1
        <4>1. y[i + 1] = x[i + 1]
          BY <1>10, <3>3
        <4> QED
          BY <3>1, <3>2, <4>1
      <3>4. CASE i + 1 = p /\ m = 0
        <4>1. y[i + 1] = x[i + 1]
          BY <1>5, <1>7, <1>11, <3>4
        <4> QED
          BY <3>1, <3>2, <4>1
      <3>5. CASE i + 1 = p /\ m > 0
        <4>1. 1 \in 1 .. m /\ p + 1 - 1 = i + 1
          BY <1>2, <1>5, <3>5
        <4>2. y[i + 1] = ms[1]
          BY <1>10, <4>1
        <4>3. new[y[i + 1]].at = insts[x[p]].at
          BY <1>6, <4>1, <4>2
        <4> QED
          BY <3>1, <3>2, <3>5, <4>3
      <3>6. i + 1 \in 1 .. p - 1 \/ (i + 1 = p /\ m = 0) \/ (i + 1 = p /\ m > 0)
        BY <1>2, <1>5, <2>1
      <3> QED
        BY <3>3, <3>4, <3>5, <3>6
    <2>2. CASE i \in p .. (p + m) - 1
      <3> DEFINE k == i - p + 1
      <3>1. k \in 1 .. m /\ p + k - 1 = i /\ i < l + m
        BY <1>2, <1>5, <1>7, <2>2
      <3> HIDE DEF k
      <3>2. y[i] = ms[k] /\ new[y[i]].at = insts[x[p]].at
        BY <1>6, <1>10, <3>1
      <3>3. CASE k = m
        <4>1. i + 1 = p + m
          BY <1>2, <1>5, <3>1, <3>3
        <4>2. new[y[i + 1]].at = insts[x[p]].at
          BY <1>6, <1>7, <1>11, <4>1
        <4> QED
          BY <3>1, <3>2, <4>2
      <3>4. CASE k # m
        <4>1. k + 1 \in 1 .. m /\ p + (k + 1) - 1 = i + 1
          BY <1>2, <1>5, <3>1, <3>4
        <4>2. y[i + 1] = ms[k + 1]
          BY <1>10, <4>1
        <4>3. new[y[i + 1]].at = insts[x[p]].at
          BY <1>6, <4>1, <4>2
        <4> QED
          BY <3>1, <3>2, <4>3
      <3> QED
        BY <3>3, <3>4
    <2>3. CASE i = p + m
      <3>1. y[i] = pl[v + 1] /\ v + 1 \in DOMAIN pl
        BY <1>1, <1>9, <1>11, <2>3 DEF h
      <3> QED
        BY <2>3, <3>1 DEF Range
    <2>4. i \in 1 .. p - 1 \/ i \in p .. (p + m) - 1 \/ i = p + m
      BY <1>2, <1>5
    <2> QED
      BY <2>1, <2>2, <2>3, <2>4
  <1> QED
    BY <1>8, <1>12, <1>13, <1>14, <1>15 DEF Sweep, m, y, w

\* The parts of VisitedOnceInOrder, for code x.
LEMMA SweepSound ==
  ASSUME NEW x, NEW insts, NEW pl, NEW vis, NEW p, Sweep(x, insts, pl, vis, p)
  PROVE  /\ IsPrefix(vis, pl) /\ InOrder(pl, x)
         /\ p = Len(x) + 1 => vis = pl
         /\ \A k \in DOMAIN x : x[k] \notin Range(pl) =>
              k < Len(x) /\ insts[x[k + 1]].at = insts[x[k]].at
  <1> DEFINE v == Len(vis)
             l == Len(x)
             h == Len(pl)
  <1>1. /\ pl \in Seq(Pos) /\ vis \in Seq(Pos) /\ h \in Nat /\ v \in Nat /\ v <= h
        /\ \A j \in 1 .. v : vis[j] = pl[j]
    BY DEF Sweep, Followed
  <1>2. /\ x \in Seq(Pos) /\ l \in Nat /\ p \in 1 .. l + 1 /\ l + v + 1 = h + p
        /\ \A i \in 1 .. h - v : x[p + i - 1] = pl[v + i]
    BY DEF Sweep, ToVisit
  <1>3. /\ \A j \in 1 .. v : \E c \in 1 .. p - 1 : x[c] = pl[j]
        /\ \A i, j \in 1 .. v : i < j =>
             \E a, c \in 1 .. p - 1 : a < c /\ x[a] = pl[i] /\ x[c] = pl[j]
    BY DEF Sweep, Behind
  <1>4. \A i \in 1 .. p - 1 : x[i] \notin Range(pl) => i < l /\ insts[x[i + 1]].at = insts[x[i]].at
    BY DEF Sweep, Fronts
  <1>5. DOMAIN x = 1 .. l /\ DOMAIN pl = 1 .. h
    BY <1>1, <1>2
  <1>6. IsPrefix(vis, pl)
    <2>1. SubSeq(vis, 1, Len(vis)) = SubSeq(pl, 1, Len(vis))
      BY <1>1
    <2> QED
      BY <1>1, <2>1 DEF IsPrefix
  <1>7. p = l + 1 => vis = pl
    <2> SUFFICES ASSUME p = l + 1 PROVE vis = pl
      OBVIOUS
    <2>1. v = h
      <3> HIDE DEF v, l, h
      <3> QED
        BY <1>1, <1>2
    <2> QED
      BY <1>1, <2>1, SameSeq
  <1> HIDE DEF v, l, h
  <1>8. ASSUME NEW j \in 1 .. h, j > v
        PROVE  \E c \in p .. l : x[c] = pl[j] /\ c = (p + j) - (v + 1)
    <2> DEFINE i == j - v
               c == (p + j) - (v + 1)
    <2>1. i \in 1 .. h - v /\ p + i - 1 = c /\ v + i = j /\ c \in p .. l
      BY <1>1, <1>2, <1>8
    <2> HIDE DEF i, c
    <2>2. x[c] = pl[j]
      BY <1>2, <2>1
    <2> QED
      BY <2>1, <2>2 DEF c
  <1>9. (\A c \in p .. l : c \in 1 .. l) /\ \A c \in 1 .. p - 1 : c \in 1 .. l
    BY <1>2
  <1>10. ASSUME NEW j \in 1 .. h PROVE \E c \in 1 .. l : x[c] = pl[j]
    <2>1. CASE j > v
      BY <1>8, <1>9, <2>1
    <2>2. CASE ~(j > v)
      <3>1. j \in 1 .. v
        BY <1>1, <2>2
      <3> QED
        BY <1>3, <1>9, <3>1
    <2> QED
      BY <2>1, <2>2
  <1>11. ASSUME NEW i \in 1 .. h, NEW j \in 1 .. h, i < j
         PROVE  \E a, c \in 1 .. l : a < c /\ x[a] = pl[i] /\ x[c] = pl[j]
    <2>1. CASE i > v
      <3>1. j > v
        BY <1>1, <1>11, <2>1
      <3>2. PICK a \in p .. l : x[a] = pl[i] /\ a = (p + i) - (v + 1)
        BY <1>8, <2>1
      <3>3. PICK c \in p .. l : x[c] = pl[j] /\ c = (p + j) - (v + 1)
        BY <1>8, <3>1
      <3>4. a < c
        BY <1>1, <1>2, <1>11, <3>2, <3>3
      <3> QED
        BY <1>9, <3>2, <3>3, <3>4
    <2>2. CASE ~(i > v) /\ j > v
      <3>1. i \in 1 .. v
        BY <1>1, <2>2
      <3>2. PICK a \in 1 .. p - 1 : x[a] = pl[i]
        BY <1>3, <3>1
      <3>3. PICK c \in p .. l : x[c] = pl[j]
        BY <1>8, <2>2
      <3>4. a < c
        BY <1>2
      <3> QED
        BY <1>9, <3>2, <3>3, <3>4
    <2>3. CASE ~(j > v)
      <3>1. i \in 1 .. v /\ j \in 1 .. v
        BY <1>1, <1>11, <2>3
      <3> QED
        BY <1>3, <1>9, <1>11, <3>1
    <2> QED
      BY <2>1, <2>2, <2>3
  <1>12. InOrder(pl, x)
    <2>1. Range(pl) \subseteq Range(x)
      BY <1>5, <1>10 DEF Range
    <2>2. \A a, c \in 1 .. l : a < c => a \in 1 .. c - 1
      BY <1>2
    <2>3. \A i, j \in 1 .. h : i < j => \E c \in 1 .. l : x[c] = pl[j] /\ \E a \in 1 .. c - 1 : x[a] = pl[i]
      BY <1>11, <2>2
    <2> QED
      BY <1>5, <2>1, <2>3 DEF InOrder
  <1>13. ASSUME NEW k \in 1 .. l, x[k] \notin Range(pl)
         PROVE  k < l /\ insts[x[k + 1]].at = insts[x[k]].at
    <2>1. CASE k \in 1 .. p - 1
      BY <1>4, <1>13, <2>1
    <2>2. CASE k \notin 1 .. p - 1
      <3> DEFINE i == k - p + 1
                 j == v + i
      <3>1. i \in 1 .. h - v /\ p + i - 1 = k /\ j \in 1 .. h
        BY <1>1, <1>2, <2>2
      <3>2. x[k] = pl[j]
        <4> HIDE DEF i
        <4> QED
          BY <1>2, <3>1
      <3> HIDE DEF j
      <3> QED
        BY <1>5, <1>13, <3>1, <3>2 DEF Range
    <2> QED
      BY <2>1, <2>2
  <1> QED
    BY <1>5, <1>6, <1>7, <1>12, <1>13 DEF l

\* A loop over the region is at element k of block b, or at its end.
Sweeping(reg, B, fl, b, k, pl, vis) ==
  /\ Whole(reg, B) /\ Flat(fl, B) /\ AllCode(reg) = fl[Len(B)]
  /\ b \in 1 .. Len(B) /\ k \in 1 .. Len(B[b]) + 1
  /\ Sweep(fl[Len(B)], reg.insts, pl, vis, Len(fl[b - 1]) + k)

\* It is at node n.
SweptTo(reg, b, n, pl, vis) ==
  \E B, fl, k : Sweeping(reg, B, fl, b, k, pl, vis) /\ n = Node(-b, B[b], k)

LEMMA FlatOf ==
  ASSUME NEW reg, NEW B, Whole(reg, B)
  PROVE  \E fl : Flat(fl, B) /\ AllCode(reg) = fl[Len(B)]
  <1>1. Shape(reg, B) /\ Len(B) > 0 /\ B \in Seq(Seq(Pos))
    BY DEF Whole, Shape, Listing
  <1> QED
    BY <1>1, AllCodeFlat, FlattenDef

LEMMA SweptBegin ==
  ASSUME NEW reg, NEW B, Whole(reg, B)
  PROVE  SweptTo(reg, reg.bring.next[0], reg.ring.next[-reg.bring.next[0]], AllCode(reg), <<>>)
  <1> DEFINE b == 1
             k == 1
             e == <<>>
             x == AllCode(reg)
  <1>1. PICK fl : Flat(fl, B) /\ x = fl[Len(B)]
    BY FlatOf
  <1>2. Shape(reg, B) /\ Len(B) > 0 /\ Len(B) \in Nat
    BY DEF Whole, Shape, Listing
  <1>3. reg.bring.next[0] = b
    BY <1>2, BlockNext
  <1>4. b \in 1 .. Len(B) /\ b - 1 = 0 /\ k = 1
    BY <1>2
  <1> HIDE DEF b
  <1>5. Len(B[b]) \in Nat /\ Chain(reg.ring, Nodes(reg), -b, B[b])
    BY <1>2, <1>4, InList DEF Shape, Listing
  <1> DEFINE s == -b
             c == B[b]
  <1>6. Chained(reg.ring, s, c) /\ Node(s, c, 0) = s /\ Len(c) \in Nat
    BY <1>5, NodeFacts DEF Chain
  <1>7. reg.ring.next[s] = Node(s, c, k) /\ k \in 1 .. Len(c) + 1
    <2>1. 0 \in 0 .. Len(c) /\ 0 + 1 = k
      BY <1>6
    <2> HIDE DEF k
    <2> QED
      BY <1>4, <1>6, <2>1 DEF Chained
  <1>8. Len(fl[b - 1]) + k = k
    <2>1. fl[b - 1] = <<>>
      BY <1>1, <1>4 DEF Flat
    <2> QED
      BY <2>1
  <1>9. x \in Seq(Pos)
    BY <1>2, AllCodeIs DEF Gathers
  <1>10. Sweep(x, reg.insts, x, e, k)
    BY <1>9, SweepBegins
  <1> HIDE DEF x, k, e
  <1>11. Sweeping(reg, B, fl, b, k, x, e)
    BY <1>1, <1>4, <1>7, <1>8, <1>10 DEF Sweeping, x
  <1>12. SweptTo(reg, b, Node(s, c, k), x, e)
    BY <1>11 DEF SweptTo
  <1> QED
    BY <1>3, <1>7, <1>12 DEF x, e

\* The position of a loop in its block and in the whole code.
LEMMA SweptAt ==
  ASSUME NEW reg, NEW b, NEW n, NEW B, NEW fl, NEW k, NEW pl, NEW vis,
         Sweeping(reg, B, fl, b, k, pl, vis), n = Node(-b, B[b], k)
  PROVE  /\ B \in Seq(Seq(Pos)) /\ Shape(reg, B) /\ Len(B) > 0 /\ Len(B) \in Nat
         /\ Joined(fl[b], fl[b - 1], B[b])
         /\ n > 0 => /\ k \in 1 .. Len(B[b]) /\ n = B[b][k]
                     /\ Len(fl[b - 1]) + k <= Len(fl[Len(B)]) /\ fl[Len(B)][Len(fl[b - 1]) + k] = n
                     /\ reg.ring.next[n] = Node(-b, B[b], k + 1)
         /\ n < 0 => k = Len(B[b]) + 1 /\ Len(fl[b - 1]) + k = Len(fl[b]) + 1
  <1> DEFINE c == B[b]
             u == fl[b - 1]
             v == fl[b]
             x == fl[Len(B)]
  <1>1. /\ Whole(reg, B) /\ Flat(fl, B) /\ b \in 1 .. Len(B) /\ k \in 1 .. Len(c) + 1
    BY DEF Sweeping
  <1>2. B \in Seq(Seq(Pos)) /\ Shape(reg, B) /\ Len(B) > 0 /\ Len(B) \in Nat
    BY <1>1 DEF Whole, Shape, Listing
  <1>3. Joined(v, u, c)
    BY <1>1, <1>2, FlatStep
  <1>4. Len(v) <= Len(x) /\ \A j \in 1 .. Len(c) : x[Len(u) + j] = c[j]
    BY <1>1, <1>2, FlatAt DEF Placed
  <1>5. /\ \A j \in 1 .. Len(c) : c[j] \in Pos
        /\ Chained(reg.ring, -b, c)
    BY <1>1, <1>2, InList DEF Shape, Listing, Chain
  <1>6. n = Node(-b, c, k) /\ b \in Nat /\ b > 0
    BY <1>1, <1>2
  <1>7. x \in Seq(Pos)
    BY <1>1 DEF Sweeping, Sweep, ToVisit
  <1> HIDE DEF c, u, v, x
  <1>8. /\ Len(u) \in Nat /\ Len(c) \in Nat /\ Len(v) = Len(u) + Len(c) /\ Len(x) \in Nat
    BY <1>3, <1>7 DEF Joined
  <1>9. ASSUME n > 0
        PROVE  /\ k \in 1 .. Len(c) /\ n = c[k] /\ Len(u) + k <= Len(x) /\ x[Len(u) + k] = n
               /\ reg.ring.next[n] = Node(-b, c, k + 1)
    <2>1. k \in 1 .. Len(c)
      <3> SUFFICES ASSUME k \notin 1 .. Len(c) PROVE FALSE
        OBVIOUS
      <3>1. n = -b
        BY <1>6 DEF Node
      <3> QED
        BY <1>6, <1>9, <3>1
    <2>2. n = c[k]
      BY <1>6, <2>1 DEF Node
    <2>3. Len(u) + k <= Len(x)
      BY <1>4, <1>8, <2>1
    <2>4. k \in 0 .. Len(c)
      BY <2>1
    <2> QED
      BY <1>4, <1>5, <1>6, <2>1, <2>2, <2>3, <2>4 DEF Chained
  <1>10. ASSUME n < 0 PROVE k = Len(c) + 1 /\ Len(u) + k = Len(v) + 1
    <2>1. k \notin 1 .. Len(c)
      <3> SUFFICES ASSUME k \in 1 .. Len(c) PROVE FALSE
        OBVIOUS
      <3>1. n = c[k] /\ c[k] \in Pos
        BY <1>5, <1>6 DEF Node
      <3> QED
        BY <1>10, <3>1 DEF Pos
    <2> QED
      BY <1>1, <1>8, <2>1
  <1> QED
    BY <1>2, <1>3, <1>9, <1>10 DEF c, u, v, x

\* Visiting the element the loop is at.
LEMMA SweptStep ==
  ASSUME NEW reg, NEW b, NEW n, NEW pl, NEW vis, SweptTo(reg, b, n, pl, vis), n > 0
  PROVE  SweptTo(reg, b, reg.ring.next[n], pl, Append(vis, n))
  <1>1. PICK B, fl, k : Sweeping(reg, B, fl, b, k, pl, vis) /\ n = Node(-b, B[b], k)
    BY DEF SweptTo
  <1> DEFINE x == fl[Len(B)]
             p == Len(fl[b - 1]) + k
             e == <<>>
             i == reg.insts
  <1>2. /\ k \in 1 .. Len(B[b]) /\ p <= Len(x) /\ x[p] = n /\ reg.ring.next[n] = Node(-b, B[b], k + 1)
        /\ Joined(fl[b], fl[b - 1], B[b])
    BY <1>1, SweptAt
  <1>3. /\ Sweep(x, i, pl, vis, p) /\ Whole(reg, B) /\ Flat(fl, B) /\ AllCode(reg) = x
        /\ b \in 1 .. Len(B)
    BY <1>1 DEF Sweeping
  <1>4. Len(fl[b - 1]) \in Nat /\ Len(B[b]) \in Nat
    BY <1>2 DEF Joined
  <1>5. k + 1 \in 1 .. Len(B[b]) + 1 /\ p + 1 = Len(fl[b - 1]) + (k + 1) /\ p \in Int
    <2> DEFINE r == Len(B[b])
               g == Len(fl[b - 1])
    <2>1. r \in Nat /\ g \in Nat /\ k \in 1 .. r
      BY <1>2, <1>4
    <2> HIDE DEF r, g
    <2>2. k + 1 \in 1 .. r + 1 /\ (g + k) + 1 = g + (k + 1) /\ g + k \in Int
      BY <2>1
    <2> QED
      BY <2>2 DEF r, g
  <1>6. Sweep(x, i, pl, Append(vis, n), p + 1)
    <2>1. x \in Seq(Pos) /\ p \in 1 .. Len(x) + 1
      BY <1>3 DEF Sweep, ToVisit
    <2>2. e \in Seq(Pos) /\ Len(e) = 0 /\ \A j \in 1 .. Len(e) : FALSE
      OBVIOUS
    <2>3. Splice(x, p, e) = x
      <3> HIDE DEF x, p
      <3> QED
        BY <2>1, SpliceNone
    <2> HIDE DEF x, p, e, i
    <2>4. Sweep(Splice(x, p, e), i, pl, Append(vis, x[p]), (p + Len(e)) + 1)
      BY <1>2, <1>3, <2>2, SweepStep
    <2>5. (p + Len(e)) + 1 = p + 1
      BY <1>5, <2>2
    <2> QED
      BY <1>2, <2>3, <2>4, <2>5
  <1> HIDE DEF x, p
  <1> DEFINE h == k + 1
  <1>7. Sweeping(reg, B, fl, b, h, pl, Append(vis, n)) /\ reg.ring.next[n] = Node(-b, B[b], h)
    BY <1>2, <1>3, <1>5, <1>6 DEF Sweeping, x
  <1> HIDE DEF h
  <1> QED
    BY <1>7 DEF SweptTo

\* A splice keeps what is listed, and adds what is kept of body.
SplicedKeeps(q, reg, B, W, body) ==
  /\ \A n : Listed(B, n) => Listed(W, n) /\ q.insts[n] = reg.insts[n]
  /\ \A n : Listed(W, n) => Listed(B, n) \/ \E j \in 1 .. Len(body) : q.insts[n] = Kept(body[j])

LEMMA SpliceKeeps ==
  ASSUME NEW q, NEW reg, NEW B, NEW W, NEW b \in 1 .. Len(B), NEW k \in 1 .. Len(B[b]) + 1, NEW body,
         Shape(reg, B), IsSeq(body), Spliced(q, reg, B, W, b, k, body)
  PROVE  SplicedKeeps(q, reg, B, W, body)
  <1> DEFINE c == B[b]
             d == W[b]
             m == Len(body)
             l == Len(c)
  <1>1. PICK ms \in Seq(Pos) : Len(ms) = m /\ d = Splice(c, k, ms)
    BY DEF Spliced
  <1>2. /\ Len(W) = Len(B) /\ Len(d) = l + m
        /\ \A e \in 1 .. Len(B) : e # b =>
             W[e] = B[e] /\ \A j \in 1 .. Len(B[e]) : q.insts[B[e][j]] = reg.insts[B[e][j]]
        /\ \A j \in 1 .. k - 1 : q.insts[d[j]] = reg.insts[c[j]]
        /\ \A j \in 1 .. m : q.insts[d[k + j - 1]] = Kept(body[j])
        /\ \A j \in k .. l : d[j + m] = c[j] /\ q.insts[c[j]] = reg.insts[c[j]]
    BY DEF Spliced
  <1>3. c \in Seq(Pos) /\ l \in Nat /\ m \in Nat /\ k \in 1 .. l + 1
    BY InList, AppendSeq
  <1>4. \A e \in 1 .. Len(B) : e = b \/ e # b
    OBVIOUS
  <1>5. \A n : (\E j \in 1 .. l : c[j] = n) => Listed(B, n)
    BY DEF Listed
  <1>6. \A n : (\E j \in 1 .. l + m : d[j] = n) => Listed(W, n)
    BY <1>2 DEF Listed
  <1>7. ASSUME NEW n, Listed(B, n) PROVE (\E j \in 1 .. l : c[j] = n) \/ \E e \in 1 .. Len(B) : e # b /\ \E j \in 1 .. Len(B[e]) : B[e][j] = n
    BY <1>7 DEF Listed
  <1>8. ASSUME NEW n, Listed(W, n) PROVE (\E j \in 1 .. l + m : d[j] = n) \/ \E e \in 1 .. Len(B) : e # b /\ \E j \in 1 .. Len(B[e]) : B[e][j] = n
    BY <1>2, <1>8 DEF Listed
  <1>9. ASSUME NEW n, NEW e \in 1 .. Len(B), e # b, \E j \in 1 .. Len(B[e]) : B[e][j] = n
        PROVE  Listed(B, n) /\ Listed(W, n) /\ q.insts[n] = reg.insts[n]
    BY <1>2, <1>9 DEF Listed
  <1> HIDE DEF c, d, m, l
  <1>10. \A j \in 1 .. l + m :
           d[j] = IF j < k THEN c[j] ELSE IF j < k + m THEN ms[j - k + 1] ELSE c[j - m]
    BY <1>1, <1>3, SpliceIs DEF l
  <1>11. ASSUME NEW j \in 1 .. l
         PROVE  q.insts[c[j]] = reg.insts[c[j]] /\ \E i \in 1 .. l + m : d[i] = c[j]
    <2>1. CASE j < k
      <3>1. j \in 1 .. k - 1 /\ j \in 1 .. l + m
        BY <1>3, <2>1
      <3>2. d[j] = c[j]
        BY <1>10, <2>1, <3>1
      <3> QED
        BY <1>2, <3>1, <3>2
    <2>2. CASE ~(j < k)
      <3>1. j \in k .. l /\ j + m \in 1 .. l + m
        BY <1>3, <2>2
      <3> QED
        BY <1>2, <3>1
    <2> QED
      BY <2>1, <2>2
  <1>12. ASSUME NEW j \in 1 .. l + m
         PROVE  (\E i \in 1 .. l : c[i] = d[j]) \/ \E i \in 1 .. m : q.insts[d[j]] = Kept(body[i])
    <2>1. CASE j < k
      <3>1. j \in 1 .. l /\ d[j] = c[j]
        BY <1>3, <1>10, <2>1
      <3> QED
        BY <3>1
    <2>2. CASE ~(j < k) /\ j < k + m
      <3>1. j - k + 1 \in 1 .. m /\ k + (j - k + 1) - 1 = j
        BY <1>3, <2>2
      <3> QED
        BY <1>2, <3>1
    <2>3. CASE ~(j < k) /\ ~(j < k + m)
      <3>1. j - m \in 1 .. l /\ d[j] = c[j - m]
        BY <1>3, <1>10, <2>3
      <3> QED
        BY <3>1
    <2> QED
      BY <2>1, <2>2, <2>3
  <1>13. ASSUME NEW n, Listed(B, n) PROVE Listed(W, n) /\ q.insts[n] = reg.insts[n]
    <2>1. CASE \E j \in 1 .. l : c[j] = n
      BY <1>6, <1>11, <2>1
    <2>2. CASE \E e \in 1 .. Len(B) : e # b /\ \E j \in 1 .. Len(B[e]) : B[e][j] = n
      BY <1>9, <2>2
    <2> QED
      BY <1>7, <1>13, <2>1, <2>2
  <1>14. ASSUME NEW n, Listed(W, n) PROVE Listed(B, n) \/ \E j \in 1 .. m : q.insts[n] = Kept(body[j])
    <2>1. CASE \E j \in 1 .. l + m : d[j] = n
      BY <1>5, <1>12, <2>1
    <2>2. CASE \E e \in 1 .. Len(B) : e # b /\ \E j \in 1 .. Len(B[e]) : B[e][j] = n
      BY <1>9, <2>2
    <2> QED
      BY <1>8, <1>14, <2>1, <2>2
  <1> QED
    BY <1>13, <1>14 DEF SplicedKeeps, m

\* Visiting it after body was put in front of it.
LEMMA SweptVisit ==
  ASSUME NEW reg, NEW b, NEW n, NEW pl, NEW vis, SweptTo(reg, b, n, pl, vis), n > 0,
         NEW body, Plain(body),
         \A j \in 1 .. Len(body) : Kept(body[j]).at = reg.insts[n].at
  PROVE  SweptTo(CreateAll(reg, n, body), b, CreateAll(reg, n, body).ring.next[n], pl, Append(vis, n))
  <1>1. PICK B, fl, k : Sweeping(reg, B, fl, b, k, pl, vis) /\ n = Node(-b, B[b], k)
    BY DEF SweptTo
  <1> DEFINE q == CreateAll(reg, n, body)
             m == Len(body)
             x == fl[Len(B)]
             p == Len(fl[b - 1]) + k
             a == reg.insts[n].at
  <1>2. /\ k \in 1 .. Len(B[b]) /\ n = B[b][k] /\ p <= Len(x) /\ x[p] = n
        /\ Joined(fl[b], fl[b - 1], B[b]) /\ B \in Seq(Seq(Pos)) /\ Shape(reg, B) /\ Len(B) > 0
    BY SMTT(30), <1>1, SweptAt
  <1>3. /\ Sweep(x, reg.insts, pl, vis, p) /\ Whole(reg, B) /\ Flat(fl, B) /\ AllCode(reg) = x
        /\ b \in 1 .. Len(B) /\ k \in 1 .. Len(B[b]) + 1
    BY <1>1 DEF Sweeping
  <1>4. PICK W : Passed(q, reg, B, W, b, k, body)
    BY <1>2, <1>3, VisitSplices
  <1> HIDE DEF q
  <1>5. /\ Whole(q, W) /\ Spliced(q, reg, B, W, b, k, body)
        /\ q.ring.next[n] = Node(-b, W[b], (k + m) + 1) /\ Len(W) = Len(B)
    BY <1>2, <1>4 DEF Passed, Spliced
  <1>6. PICK ms \in Seq(Pos) : Len(ms) = m /\ W[b] = Splice(B[b], k, ms)
    BY <1>5 DEF Spliced
  <1>7. PICK gl : Flat(gl, W) /\ AllCode(q) = gl[Len(W)]
    BY <1>5, FlatOf
  <1>8. W \in Seq(Seq(Pos)) /\ \A e \in 1 .. Len(B) : e # b => W[e] = B[e]
    BY <1>5 DEF Whole, Shape, Listing, Spliced
  <1>9. gl[b - 1] = fl[b - 1] /\ gl[Len(W)] = Splice(x, p, ms)
    <2>1. Replaced(B, W, b)
      BY <1>5, <1>8 DEF Replaced
    <2>2. SplicedIn(fl, B, b, k, ms, gl)
      BY <1>2, <1>3, <1>6, <1>7, <1>8, <2>1, FlatSplice
    <2> QED
      BY <1>5, <2>2 DEF SplicedIn
  <1>10. \A j \in 1 .. Len(x) : q.insts[x[j]].at = reg.insts[x[j]].at
    <2>1. \A j \in 1 .. Len(x) : Listed(B, x[j])
      <3>1. Gathers(x, B)
        BY <1>2, <1>3, AllCodeIs
      <3>2. x \in Seq(Pos) /\ \A j : j \in Range(x) => Listed(B, j)
        BY <3>1 DEF Gathers
      <3> HIDE DEF x
      <3>3. \A j \in 1 .. Len(x) : x[j] \in Range(x)
        BY <3>2 DEF Range
      <3> QED
        BY <3>2, <3>3
    <2>2. SplicedKeeps(q, reg, B, W, body)
      BY <1>2, <1>3, <1>5, SpliceKeeps DEF Plain
    <2> QED
      BY <2>1, <2>2 DEF SplicedKeeps
  <1>11. \A j \in 1 .. m : q.insts[ms[j]].at = a
    <2> DEFINE c == B[b]
               d == W[b]
    <2>1. /\ \A j \in 1 .. m : q.insts[d[k + j - 1]] = Kept(body[j])
          /\ d = Splice(c, k, ms) /\ c \in Seq(Pos) /\ k \in 1 .. Len(c) + 1 /\ Len(c) \in Nat
          /\ \A j \in 1 .. m : Kept(body[j]).at = a
      BY <1>2, <1>3, <1>5, <1>6, InList DEF Spliced
    <2>2. m \in Nat
      BY AppendSeq DEF Plain
    <2> HIDE DEF c, d, m, a
    <2>3. ASSUME NEW j \in 1 .. m PROVE d[k + j - 1] = ms[j]
      <3> DEFINE i == k + j - 1
      <3>1. i \in 1 .. Len(c) + m /\ ~(i < k) /\ i < k + m /\ i - k + 1 = j
        BY <2>1, <2>2
      <3> HIDE DEF i
      <3>2. Splice(c, k, ms)[i] = ms[i - k + 1]
        BY <1>6, <2>1, <3>1, SpliceIs
      <3> QED
        BY <2>1, <3>1, <3>2 DEF i
    <2> QED
      BY <2>1, <2>3
  <1>12. Sweep(Splice(x, p, ms), q.insts, pl, Append(vis, n), (p + m) + 1)
    <2> DEFINE i == reg.insts
               o == q.insts
    <2>1. /\ \A j \in 1 .. Len(x) : o[x[j]].at = i[x[j]].at
          /\ \A j \in 1 .. Len(ms) : o[ms[j]].at = i[x[p]].at
      BY <1>2, <1>6, <1>10, <1>11
    <2>2. Sweep(x, i, pl, vis, p) /\ p <= Len(x)
      BY <1>2, <1>3
    <2> HIDE DEF x, p, i, o
    <2>3. Sweep(Splice(x, p, ms), o, pl, Append(vis, x[p]), (p + Len(ms)) + 1)
      BY <2>1, <2>2, SweepStep
    <2> QED
      BY <1>2, <1>6, <2>3 DEF o
  <1> DEFINE h == (k + m) + 1
  <1>13. /\ h \in 1 .. Len(W[b]) + 1 /\ (p + m) + 1 = Len(gl[b - 1]) + h
    <2> DEFINE r == Len(B[b])
               g == Len(fl[b - 1])
               t == Len(W[b])
    <2>1. r \in Nat /\ g \in Nat /\ m \in Nat /\ t = r + m /\ k \in 1 .. r
      BY <1>2, <1>5, AppendSeq DEF Joined, Spliced, Plain
    <2>2. Len(gl[b - 1]) = g
      BY <1>9
    <2> HIDE DEF r, g, t, m
    <2>3. h \in 1 .. t + 1 /\ ((g + k) + m) + 1 = g + h
      BY <2>1
    <2> QED
      BY <2>2, <2>3 DEF g, t
  <1> HIDE DEF x, p, h, m
  <1>14. Sweeping(q, W, gl, b, h, pl, Append(vis, n))
    BY <1>3, <1>5, <1>7, <1>9, <1>12, <1>13 DEF Sweeping
  <1>15. q.ring.next[n] = Node(-b, W[b], h)
    BY <1>5 DEF h
  <1> QED
    BY <1>14, <1>15 DEF SweptTo, q

\* From the end of one block to the beginning of the next.
LEMMA SweptBlock ==
  ASSUME NEW reg, NEW b, NEW n, NEW pl, NEW vis, SweptTo(reg, b, n, pl, vis), n < 0,
         reg.bring.next[b] # 0
  PROVE  SweptTo(reg, reg.bring.next[b], reg.ring.next[-reg.bring.next[b]], pl, vis)
  <1>1. PICK B, fl, k : Sweeping(reg, B, fl, b, k, pl, vis) /\ n = Node(-b, B[b], k)
    BY DEF SweptTo
  <1> DEFINE e == reg.bring.next[b]
             h == 1
  <1>2. /\ Len(fl[b - 1]) + k = Len(fl[b]) + 1 /\ Shape(reg, B) /\ Len(B) > 0 /\ Len(B) \in Nat
    BY <1>1, SweptAt
  <1>3. /\ Whole(reg, B) /\ Flat(fl, B) /\ AllCode(reg) = fl[Len(B)] /\ b \in 1 .. Len(B)
        /\ Sweep(fl[Len(B)], reg.insts, pl, vis, Len(fl[b - 1]) + k)
    BY <1>1 DEF Sweeping
  <1>4. e = b + 1 /\ e \in 1 .. Len(B) /\ e - 1 = b
    <2>1. e = IF b = Len(B) THEN 0 ELSE b + 1
      BY <1>2, <1>3, BlockNext
    <2> QED
      BY <1>2, <1>3, <2>1
  <1> HIDE DEF e
  <1>5. Len(B[e]) \in Nat /\ Chain(reg.ring, Nodes(reg), -e, B[e])
    BY <1>2, <1>4, InList DEF Shape, Listing
  <1> DEFINE s == -e
             c == B[e]
  <1>6. Chained(reg.ring, s, c) /\ Node(s, c, 0) = s /\ Len(c) \in Nat
    BY <1>5, NodeFacts DEF Chain
  <1>7. reg.ring.next[s] = Node(s, c, h) /\ h \in 1 .. Len(c) + 1
    <2>1. 0 \in 0 .. Len(c) /\ 0 + 1 = h /\ h \in 1 .. Len(c) + 1
      BY <1>6
    <2> HIDE DEF h
    <2> QED
      BY <1>6, <2>1 DEF Chained
  <1>8. Len(fl[b - 1]) + k = Len(fl[e - 1]) + h
    BY <1>2, <1>4
  <1> HIDE DEF h
  <1>9. Sweeping(reg, B, fl, e, h, pl, vis)
    BY <1>3, <1>4, <1>7, <1>8 DEF Sweeping
  <1>10. SweptTo(reg, e, Node(s, c, h), pl, vis)
    BY <1>9 DEF SweptTo
  <1> QED
    BY <1>7, <1>10 DEF e

LEMMA SweptSound ==
  ASSUME NEW reg, NEW b, NEW n, NEW pl, NEW vis, SweptTo(reg, b, n, pl, vis)
  PROVE  /\ IsPrefix(vis, pl) /\ InOrder(pl, AllCode(reg))
         /\ n < 0 /\ reg.bring.next[b] = 0 => vis = pl
         /\ \A k \in DOMAIN AllCode(reg) : AllCode(reg)[k] \notin Range(pl) =>
              /\ k < Len(AllCode(reg))
              /\ reg.insts[AllCode(reg)[k + 1]].at = reg.insts[AllCode(reg)[k]].at
  <1>1. PICK B, fl, k : Sweeping(reg, B, fl, b, k, pl, vis) /\ n = Node(-b, B[b], k)
    BY DEF SweptTo
  <1> DEFINE x == AllCode(reg)
             p == Len(fl[b - 1]) + k
             i == reg.insts
  <1>2. /\ Shape(reg, B) /\ Len(B) > 0 /\ Len(B) \in Nat /\ n < 0 => p = Len(fl[b]) + 1
    BY <1>1, SweptAt
  <1>3. x = fl[Len(B)] /\ b \in 1 .. Len(B) /\ Sweep(x, i, pl, vis, p)
    BY <1>1 DEF Sweeping
  <1>4. ASSUME n < 0, reg.bring.next[b] = 0 PROVE p = Len(x) + 1
    <2>1. reg.bring.next[b] = IF b = Len(B) THEN 0 ELSE b + 1
      BY <1>1, <1>3, SweptAt, BlockNext
    <2>2. b = Len(B)
      BY <1>1, <1>3, <1>4, <2>1, SweptAt
    <2>3. p = Len(fl[b]) + 1
      BY <1>1, <1>4, SweptAt
    <2> QED
      BY <1>3, <2>2, <2>3
  <1> HIDE DEF x, p, i
  <1>5. /\ IsPrefix(vis, pl) /\ InOrder(pl, x) /\ (p = Len(x) + 1 => vis = pl)
        /\ \A j \in DOMAIN x : x[j] \notin Range(pl) => j < Len(x) /\ i[x[j + 1]].at = i[x[j]].at
    BY <1>3, SweepSound
  <1> QED
    BY <1>4, <1>5 DEF x, i

-----------------------------------------------------------------------------
(* The lists of a compilation *)

\* The region grows in its first block until that has its jump; from then on
\* every block is finished, and a loop is at one of its instructions.
ListInv ==
  /\ plan \in Seq(Pos)
  /\ IF phase \in {"translate", "panic"} THEN bb = 1 /\ \E B : Translating(R, B)
     ELSE \E B : Whole(R, B) /\ At(B, bb, it)

LEMMA ListInvInit ==
  ASSUME Init
  PROVE  ListInv
  <1>1. plan \in Seq(Pos)
    BY DEF Init
  <1>2. \E B : Translating(R, B)
    BY FirstBlock DEF Init
  <1> QED
    BY <1>1, <1>2 DEF Init, ListInv

LEMMA BeginPassAt ==
  ASSUME NEW reg, NEW B, Whole(reg, B), BeginPass(reg)
  PROVE  At(B, bb', it') /\ plan' \in Seq(Pos)
  <1>1. Shape(reg, B) /\ Len(B) > 0
    BY DEF Whole
  <1>2. At(B, bb', it')
    BY <1>1, FirstAt DEF BeginPass
  <1>3. plan' \in Seq(Pos)
    BY <1>1, AllCodeIs DEF BeginPass, Gathers
  <1> QED
    BY <1>2, <1>3

LEMMA TranslateLists ==
  ASSUME ListInv, Translate
  PROVE  ListInv'
  <1> DEFINE made == TranslateInsn(R, bb, insn', insn_ip, FieldS(Word, 0, 31))
  <1>1. /\ phase = "translate" /\ insn'.op # "illegal"
        /\ R' = IF Overflows(insn') THEN MakeGBr(made, bb, insn_ip + 4, insn_ip) ELSE made
    BY DEF Translate
  <1>2. bb = 1 /\ plan \in Seq(Pos)
    BY <1>1 DEF ListInv
  <1>3. PICK B : Translating(R, B)
    BY <1>1 DEF ListInv
  <1>4. PICK W : IF Stops(insn') THEN Whole(made, W) ELSE Translating(made, W)
    BY <1>1, <1>2, <1>3, TranslateInsnIs
  <1> HIDE DEF made
  <1>5. CASE Stops(insn') \/ Overflows(insn')
    <2>1. phase' = "select" /\ BeginPass(R')
      BY <1>5 DEF Translate
    <2>2. PICK V : Whole(R', V)
      <3>1. CASE Stops(insn')
        BY <1>1, <1>4, <3>1 DEF Overflows
      <3>2. CASE ~Stops(insn')
        <4>1. R' = MakeGBr(made, 1, insn_ip + 4, insn_ip) /\ Translating(made, W)
          BY <1>1, <1>2, <1>4, <1>5, <3>2
        <4> QED
          BY <4>1, MakeGBrWhole
      <3> QED
        BY <3>1, <3>2
    <2>3. At(V, bb', it') /\ plan' \in Seq(Pos)
      BY <2>1, <2>2, BeginPassAt
    <2> QED
      BY <2>1, <2>2, <2>3 DEF ListInv
  <1>6. CASE ~(Stops(insn') \/ Overflows(insn'))
    <2>1. UNCHANGED <<phase, bb, plan>> /\ R' = made /\ Translating(made, W)
      BY <1>1, <1>4, <1>6 DEF Translate
    <2> QED
      BY <1>1, <1>2, <2>1 DEF ListInv
  <1> QED
    BY <1>5, <1>6

\* The movs of a pass for the instruction it is at.
Movs(k) == [j \in 1 .. k |-> PassMov(it)]

LEMMA MovsPlain ==
  ASSUME NEW k \in Nat
  PROVE  Plain(Movs(k)) /\ Len(Movs(k)) = k /\ \A j \in 1 .. k : Movs(k)[j] = PassMov(it)
  <1> DEFINE i == PassMov(it)
             body == Movs(k)
  <1>1. Inner(i)
    BY InnerInst DEF PassMov
  <1> HIDE DEF i
  <1>2. body \in [1 .. k -> {i}] /\ \A j \in 1 .. k : body[j] = i
    BY DEF i, Movs
  <1>3. body \in Seq({i}) /\ Len(body) = k
    BY <1>2, FunSeq
  <1>4. body \in [1 .. k -> Range(body)]
    BY <1>2 DEF Range
  <1> HIDE DEF body
  <1>5. IsSeq(body)
    BY <1>4, FunSeq DEF IsSeq
  <1>6. Plain(body)
    BY <1>1, <1>2, <1>3, <1>5 DEF Plain
  <1> QED
    BY <1>2, <1>3, <1>6 DEF i, body

\* One iteration of a pass.
LEMMA PassVisitIs ==
  ASSUME ListInv, PassVisit
  PROVE  \E k \in Nat : /\ R' = CreateAll(R, it, Movs(k))
                        /\ it' = CreateAll(R, it, Movs(k)).ring.next[it]
  <1>1. phase \in Passes /\ plan \in Seq(Pos) /\ phase \notin {"translate", "panic"}
    BY DEF PassVisit, Passes, ListInv
  <1>2. PICK B : Whole(R, B)
    BY <1>1 DEF ListInv
  <1>3. PICK k \in MovsFor(it) :
          LET made == CreateAll(R, InsertPoint(it), [j \in 1 .. k |-> PassMov(it)])
          IN  R' = made /\ it' = made.ring.next[it]
    BY DEF PassVisit
  <1>4. k \in Nat
    <2>1. AllCode(R) \in Seq(Pos)
      BY <1>2, AllCodeIs DEF Whole, Gathers
    <2>2. Inserted \in Int
      BY <1>1, <2>1 DEF Inserted
    <2> QED
      BY <2>2, FrontendAssumption DEF MovsFor
  <1> QED
    BY <1>3, <1>4 DEF InsertPoint, Movs

LEMMA PassVisitLists ==
  ASSUME ListInv, PassVisit
  PROVE  ListInv'
  <1>1. /\ it > 0 /\ plan \in Seq(Pos)
        /\ UNCHANGED <<phase, bb, plan>> /\ phase \notin {"translate", "panic"}
    BY DEF PassVisit, Passes, ListInv
  <1>2. PICK B : Whole(R, B) /\ At(B, bb, it)
    BY <1>1 DEF ListInv
  <1>3. PICK k \in Nat : R' = CreateAll(R, it, Movs(k)) /\ it' = CreateAll(R, it, Movs(k)).ring.next[it]
    BY PassVisitIs
  <1>4. \E W : Whole(R', W) /\ At(W, bb, it')
    <2> DEFINE body == Movs(k)
    <2>1. Plain(body)
      BY MovsPlain
    <2> HIDE DEF body
    <2>2. \E W : Whole(CreateAll(R, it, body), W) /\ At(W, bb, CreateAll(R, it, body).ring.next[it])
      BY <1>1, <1>2, <2>1, VisitIs
    <2> QED
      BY <1>3, <2>2 DEF body
  <1> QED
    BY <1>1, <1>4 DEF ListInv

LEMMA ListInvNext ==
  ASSUME ListInv, [Next]_vars
  PROVE  ListInv'
  <1>1. CASE Translate
    BY <1>1, TranslateLists
  <1>2. CASE TranslateIllegal
    BY <1>2 DEF TranslateIllegal, ListInv
  <1>3. CASE PassVisit
    BY <1>3, PassVisitLists
  <1>4. CASE PassNextBlock
    <2>1. /\ phase \notin {"translate", "panic"} /\ UNCHANGED <<phase, R, plan>>
          /\ R.bring.next[bb] # 0 /\ bb' = R.bring.next[bb] /\ it' = R.ring.next[-R.bring.next[bb]]
      BY <1>4 DEF PassNextBlock, NextBlock, Passes
    <2>2. PICK B : Whole(R, B) /\ At(B, bb, it)
      BY <2>1 DEF ListInv
    <2>3. At(B, bb', it')
      BY <2>1, <2>2, NextBlockAt DEF Whole, At
    <2> QED
      BY <2>1, <2>2, <2>3 DEF ListInv
  <1>5. CASE PassEnd
    <2>1. /\ phase \notin {"translate", "panic"} /\ phase' \notin {"translate", "panic"}
          /\ R' = R /\ BeginPass(R)
      BY <1>5 DEF PassEnd, Passes
    <2>2. PICK B : Whole(R, B) /\ At(B, bb, it)
      BY <2>1 DEF ListInv
    <2>3. At(B, bb', it') /\ plan' \in Seq(Pos)
      BY <2>1, <2>2, BeginPassAt
    <2> QED
      BY <2>1, <2>2, <2>3 DEF ListInv
  <1>6. CASE EmitInst
    <2>1. /\ phase \notin {"translate", "panic"} /\ UNCHANGED <<phase, R, bb, plan>>
          /\ it > 0 /\ it' = R.ring.next[it]
      BY <1>6 DEF EmitInst
    <2>2. PICK B : Whole(R, B) /\ At(B, bb, it)
      BY <2>1 DEF ListInv
    <2>3. At(B, bb, R.ring.next[it])
      BY <2>1, <2>2, StepAt DEF Whole
    <2> QED
      BY <2>1, <2>2, <2>3 DEF ListInv
  <1>7. CASE EmitEnd
    <2>1. /\ phase \notin {"translate", "panic"} /\ phase' \notin {"translate", "panic"}
          /\ UNCHANGED <<R, bb, it, plan>>
      BY <1>7 DEF EmitEnd
    <2> QED
      BY <2>1 DEF ListInv
  <1>8. CASE Leave
    <2>1. /\ phase \notin {"translate", "panic"} /\ phase' \notin {"translate", "panic"}
          /\ UNCHANGED <<R, bb, it, plan>>
      BY <1>8 DEF Leave, AtHost
    <2> QED
      BY <2>1 DEF ListInv
  <1>9. CASE RunLabel \/ RunOp \/ RunJmp \/ RunJccTaken \/ RunJccNot \/ Finished
    <2>1. UNCHANGED <<phase, R, bb, it, plan>>
      BY <1>9 DEF RunLabel, RunOp, RunJmp, RunJccTaken, RunJccNot, GoTo, Finished, vars
    <2> QED
      BY <2>1 DEF ListInv
  <1>10. CASE UNCHANGED vars
    BY <1>10 DEF vars, ListInv
  <1> QED
    BY <1>1, <1>2, <1>3, <1>4, <1>5, <1>6, <1>7, <1>8, <1>9, <1>10 DEF Next

LEMMA ListInvWhole ==
  ASSUME ListInv
  PROVE  ListsWhole
  <1>1. PICK B : /\ Shape(R, B) /\ Len(B) > 0
                 /\ phase \notin {"translate", "panic"} => Whole(R, B)
    BY DEF ListInv, Translating, Whole
  <1>2. /\ AllCode(R) \in Seq(Pos) /\ IsInjective(AllCode(R))
        /\ \A n : n \in Live <=> Listed(B, n)
    BY <1>1, AllCodeIs DEF Gathers, Live
  <1>3. /\ RingSound(R.bring, 0 .. NumBlocks(R))
        /\ RingSound(R.ring, Live \cup {-b : b \in 1 .. NumBlocks(R)})
    BY <1>1, <1>2, RingsSound
  <1>4. \A n \in DOMAIN R.insts \ Live : FoldsTo(R.insts[n]) # <<>>
    <2>1. DOMAIN R.insts = 1 .. Len(R.insts)
      BY <1>1, AppendSeq DEF Shape, Record
    <2> QED
      BY <1>1, <1>2, <2>1 DEF Shape
  <1>5. ASSUME phase \notin {"translate", "panic"}, NEW b \in 1 .. NumBlocks(R)
        PROVE  LET c == Code(R, b)
                   last == R.insts[c[Len(c)]]
               IN  /\ c # <<>> /\ BlockEnds(last)
                   /\ Len(R.succs[b]) = Succs(last)
                   /\ \A k \in 1 .. Len(c) - 1 : ~BlockEnds(R.insts[c[k]])
    <2>1. b \in 1 .. Len(B)
      BY <1>1 DEF Shape, Listing, NumBlocks
    <2>2. Code(R, b) = B[b]
      BY <1>1, <2>1, CodeIs
    <2>3. Complete(R, B, b)
      BY <1>1, <1>5, <2>1 DEF Whole
    <2>4. B[b] # <<>>
      BY <2>3 DEF Complete, Jumps
    <2> QED
      BY <2>2, <2>3, <2>4 DEF Complete, Jumps
  <1> QED
    BY <1>2, <1>3, <1>4, <1>5 DEF ListsWhole

\* The lists of a region stay whole whatever the guest code is and however
\* many movs the passes insert: every block and every instruction that was
\* not folded away is on its list once and in both directions, and a
\* translated block ends in its only jump.
THEOREM ListsAreWhole == Spec => []ListsWhole
  <1>1. Init => ListInv
    BY ListInvInit
  <1>2. ListInv /\ [Next]_vars => ListInv'
    BY ListInvNext
  <1>3. ListInv => ListsWhole
    BY ListInvWhole
  <1> QED
    BY <1>1, <1>2, <1>3, PTL DEF Spec

\* A pass, and emission, has visited the first instructions of its plan when
\* it is at the next one; a run begins when every block is behind the loop.
VisitInv ==
  phase \in Passes \cup {"emit", "run"} =>
    /\ SweptTo(R, bb, it, plan, visited)
    /\ phase = "run" => it < 0 /\ NextBlock = 0

LEMMA BeginPassSweeps ==
  ASSUME NEW reg, NEW B, Whole(reg, B), BeginPass(reg)
  PROVE  SweptTo(reg, bb', it', plan', visited')
  <1>1. SweptTo(reg, reg.bring.next[0], reg.ring.next[-reg.bring.next[0]], AllCode(reg), <<>>)
    BY SweptBegin
  <1> QED
    BY <1>1 DEF BeginPass

LEMMA PassVisitSweeps ==
  ASSUME ListInv, VisitInv, PassVisit
  PROVE  VisitInv'
  <1>1. /\ it > 0 /\ UNCHANGED <<phase, bb, plan>> /\ phase \in Passes /\ phase # "run"
        /\ visited' = Append(visited, it)
    BY DEF PassVisit, Passes
  <1>2. SweptTo(R, bb, it, plan, visited)
    BY <1>1 DEF VisitInv
  <1>3. PICK k \in Nat : R' = CreateAll(R, it, Movs(k)) /\ it' = CreateAll(R, it, Movs(k)).ring.next[it]
    BY PassVisitIs
  <1> DEFINE body == Movs(k)
             i == PassMov(it)
  <1>4. Plain(body) /\ Len(body) = k /\ \A j \in 1 .. k : body[j] = i
    BY MovsPlain
  <1>5. Kept(i).at = R.insts[it].at
    <2>1. i.op = "mov" /\ i.at = R.insts[it].at
      BY DEF PassMov, Inst
    <2> HIDE DEF i
    <2>2. Canonical(i) = i /\ MovOf(i) = <<>>
      BY <2>1 DEF Canonical, MovOf
    <2>3. Kept(i) = i
      BY <2>2 DEF Kept, FoldsTo
    <2> QED
      BY <2>1, <2>3
  <1> HIDE DEF body, i
  <1>6. \A j \in 1 .. Len(body) : Kept(body[j]).at = R.insts[it].at
    BY <1>4, <1>5
  <1>7. SweptTo(CreateAll(R, it, body), bb, CreateAll(R, it, body).ring.next[it], plan, Append(visited, it))
    BY <1>1, <1>2, <1>4, <1>6, SweptVisit
  <1>8. SweptTo(R', bb', it', plan', visited')
    BY <1>1, <1>3, <1>7 DEF body
  <1> QED
    BY <1>1, <1>8 DEF VisitInv

LEMMA VisitInvNext ==
  ASSUME ListInv, ListInv', VisitInv, [Next]_vars
  PROVE  VisitInv'
  <1>1. CASE Translate
    <2>1. CASE phase' = phase
      BY <1>1, <2>1 DEF Translate, VisitInv, Passes
    <2>2. CASE phase' # phase
      <3>1. phase' = "select" /\ BeginPass(R')
        BY <1>1, <2>2 DEF Translate
      <3>2. PICK B : Whole(R', B)
        BY <3>1 DEF ListInv
      <3>3. SweptTo(R', bb', it', plan', visited')
        BY <3>1, <3>2, BeginPassSweeps
      <3> QED
        BY <3>1, <3>3 DEF VisitInv
    <2> QED
      BY <2>1, <2>2
  <1>2. CASE TranslateIllegal
    BY <1>2 DEF TranslateIllegal, VisitInv, Passes
  <1>3. CASE PassVisit
    BY <1>3, PassVisitSweeps
  <1>4. CASE PassNextBlock
    <2>1. /\ phase \in Passes \cup {"emit"} /\ phase # "run" /\ UNCHANGED <<phase, R, plan, visited>>
          /\ R.bring.next[bb] # 0 /\ bb' = R.bring.next[bb] /\ it' = R.ring.next[-R.bring.next[bb]]
          /\ it < 0
      BY <1>4 DEF PassNextBlock, NextBlock, Passes
    <2>2. SweptTo(R, bb, it, plan, visited)
      BY <2>1 DEF VisitInv
    <2>3. SweptTo(R, bb', it', plan, visited)
      BY <2>1, <2>2, SweptBlock
    <2> QED
      BY <2>1, <2>3 DEF VisitInv
  <1>5. CASE PassEnd
    <2>1. /\ phase \notin {"translate", "panic"} /\ phase' \in {"regalloc", "emit"}
          /\ R' = R /\ BeginPass(R)
      BY <1>5 DEF PassEnd, Passes
    <2>2. PICK B : Whole(R, B)
      BY <2>1 DEF ListInv
    <2>3. SweptTo(R, bb', it', plan', visited')
      BY <2>1, <2>2, BeginPassSweeps
    <2> QED
      BY <2>1, <2>3 DEF VisitInv
  <1>6. CASE EmitInst
    <2>1. /\ phase = "emit" /\ UNCHANGED <<phase, R, bb, plan>>
          /\ it > 0 /\ it' = R.ring.next[it] /\ visited' = Append(visited, it)
      BY <1>6 DEF EmitInst
    <2>2. SweptTo(R, bb, it, plan, visited)
      BY <2>1 DEF VisitInv
    <2>3. SweptTo(R, bb, R.ring.next[it], plan, Append(visited, it))
      BY <2>1, <2>2, SweptStep
    <2> QED
      BY <2>1, <2>3 DEF VisitInv
  <1>7. CASE EmitEnd
    <2>1. phase = "emit" /\ it < 0 /\ NextBlock = 0 /\ UNCHANGED <<R, bb, it, plan, visited>>
      BY <1>7 DEF EmitEnd
    <2>2. SweptTo(R, bb, it, plan, visited)
      BY <2>1 DEF VisitInv
    <2> QED
      BY <2>1, <2>2 DEF VisitInv, NextBlock
  <1>8. CASE Leave
    BY <1>8 DEF Leave, VisitInv, Passes
  <1>9. CASE RunLabel \/ RunOp \/ RunJmp \/ RunJccTaken \/ RunJccNot \/ Finished \/ UNCHANGED vars
    <2>1. UNCHANGED <<phase, R, bb, it, plan, visited>>
      BY <1>9 DEF RunLabel, RunOp, RunJmp, RunJccTaken, RunJccNot, GoTo, Finished, vars
    <2> QED
      BY <2>1 DEF VisitInv, NextBlock
  <1> QED
    BY <1>1, <1>2, <1>3, <1>4, <1>5, <1>6, <1>7, <1>8, <1>9 DEF Next

LEMMA VisitInvSound ==
  ASSUME VisitInv
  PROVE  VisitedOnceInOrder
  <1> SUFFICES ASSUME phase \in Passes \cup {"emit", "run"}
               PROVE  /\ IsPrefix(visited, plan)
                      /\ phase = "run" \/ (it < 0 /\ NextBlock = 0) => visited = plan
                      /\ InOrder(plan, AllCode(R))
                      /\ \A k \in DOMAIN AllCode(R) : AllCode(R)[k] \notin Range(plan) =>
                           /\ k < Len(AllCode(R))
                           /\ R.insts[AllCode(R)[k + 1]].at = R.insts[AllCode(R)[k]].at
    BY DEF VisitedOnceInOrder
  <1>1. SweptTo(R, bb, it, plan, visited) /\ (phase = "run" => it < 0 /\ NextBlock = 0)
    BY DEF VisitInv
  <1>2. /\ IsPrefix(visited, plan) /\ InOrder(plan, AllCode(R))
        /\ it < 0 /\ R.bring.next[bb] = 0 => visited = plan
        /\ \A k \in DOMAIN AllCode(R) : AllCode(R)[k] \notin Range(plan) =>
             /\ k < Len(AllCode(R))
             /\ R.insts[AllCode(R)[k + 1]].at = R.insts[AllCode(R)[k]].at
    BY <1>1, SweptSound
  <1> QED
    BY <1>1, <1>2 DEF NextBlock

\* A pass, and emission, visits every instruction that was there when it
\* began, once and in order, and no mov it inserted itself, whatever the
\* guest code is and however many movs the passes insert; a mov stands in
\* front of an instruction of the same guest instruction.
THEOREM PassesVisitInOrder == Spec => []VisitedOnceInOrder
  <1>1. Init => ListInv /\ VisitInv
    BY ListInvInit DEF Init, VisitInv, Passes
  <1>2. ListInv /\ VisitInv /\ [Next]_vars => (ListInv /\ VisitInv)'
    BY ListInvNext, VisitInvNext
  <1>3. VisitInv => VisitedOnceInOrder
    BY VisitInvSound
  <1> QED
    BY <1>1, <1>2, <1>3, PTL DEF Spec

\* The calls of the region, those that selection has still to visit aside, are
\* known, and has_calls is not set without one.
CallInv ==
  /\ has_calls \in BOOLEAN
  /\ phase = "translate" => ~has_calls
  /\ phase \in Passes \cup {"emit", "run"} =>
       /\ has_calls => \E n \in Live : R.insts[n].op = "hcall"
       /\ \A n \in Live : R.insts[n].op = "hcall" =>
            has_calls \/ (phase = "select" /\ n \in Range(plan) \ Range(visited))

\* A visit leaves the instructions that were there alone and adds movs.
LEMMA PassVisitLive ==
  ASSUME ListInv, PassVisit
  PROVE  /\ it \in Live
         /\ \A n \in Live : n \in Live' /\ R'.insts[n] = R.insts[n]
         /\ \A n \in Live' : n \in Live \/ R'.insts[n].op = "mov"
  <1>1. it > 0 /\ phase \notin {"translate", "panic"}
    BY DEF PassVisit, Passes
  <1>2. PICK B : Whole(R, B) /\ At(B, bb, it)
    BY <1>1 DEF ListInv
  <1>3. PICK m \in Nat : R' = CreateAll(R, it, Movs(m))
    BY PassVisitIs
  <1> DEFINE body == Movs(m)
             i == PassMov(it)
  <1>4. Plain(body) /\ Len(body) = m /\ \A j \in 1 .. m : body[j] = i
    BY MovsPlain
  <1>5. Kept(i).op = "mov"
    <2>1. i.op = "mov"
      BY DEF PassMov, Inst
    <2> HIDE DEF i
    <2>2. Canonical(i) = i /\ MovOf(i) = <<>>
      BY <2>1 DEF Canonical, MovOf
    <2> QED
      BY <2>1, <2>2 DEF Kept, FoldsTo
  <1>6. R' = CreateAll(R, it, body)
    BY <1>3
  <1> HIDE DEF body, i
  <1>7. Shape(R, B) /\ Len(B) > 0 /\ bb \in 1 .. Len(B)
    BY <1>2 DEF Whole, At
  <1>8. PICK k \in 1 .. Len(B[bb]) : it = B[bb][k]
    BY <1>1, <1>2, <1>7, NextAt
  <1>9. PICK W : Passed(R', R, B, W, bb, k, body)
    BY <1>2, <1>4, <1>6, <1>7, <1>8, VisitSplices
  <1>10. Shape(R', W) /\ Len(W) > 0 /\ Spliced(R', R, B, W, bb, k, body)
    BY <1>9 DEF Passed, Whole
  <1>11. SplicedKeeps(R', R, B, W, body)
    <2>1. k \in 1 .. Len(B[bb]) + 1 /\ IsSeq(body)
      BY <1>4, <1>7, InList DEF Plain
    <2> QED
      BY <1>7, <1>10, <2>1, SpliceKeeps
  <1>12. \A n : n \in Live <=> Listed(B, n)
    BY <1>7, AllCodeIs DEF Gathers, Live
  <1>13. \A n : n \in Live' <=> Listed(W, n)
    <2> DEFINE q == R'
    <2> HIDE DEF q
    <2>1. Gathers(AllCode(q), W)
      BY <1>10, AllCodeIs DEF q
    <2>2. Live' = Range(AllCode(q))
      BY DEF Live, q
    <2> QED
      BY <2>1, <2>2 DEF Gathers
  <1>14. Listed(B, it)
    BY <1>7, <1>8 DEF Listed
  <1>15. ASSUME NEW n, Listed(W, n) PROVE Listed(B, n) \/ R'.insts[n].op = "mov"
    <2>1. Listed(B, n) \/ \E j \in 1 .. Len(body) : R'.insts[n] = Kept(body[j])
      BY <1>11, <1>15 DEF SplicedKeeps
    <2> QED
      BY <1>4, <1>5, <2>1
  <1> QED
    BY <1>11, <1>12, <1>13, <1>14, <1>15 DEF SplicedKeeps

LEMMA CallInvNext ==
  ASSUME ListInv, VisitInv, CallInv, [Next]_vars
  PROVE  CallInv'
  <1>1. CASE Translate
    <2>1. phase = "translate" /\ has_calls' = has_calls /\ has_calls = FALSE
      BY <1>1 DEF Translate, CallInv
    <2>2. CASE phase' = phase
      BY <2>1, <2>2 DEF CallInv, Passes
    <2>3. CASE phase' # phase
      <3>1. phase' = "select" /\ plan' = AllCode(R') /\ visited' = <<>>
        BY <1>1, <2>3 DEF Translate, BeginPass
      <3>2. Live' = Range(plan')
        BY <3>1 DEF Live
      <3>3. Range(visited') = {}
        BY <3>1 DEF Range
      <3> QED
        BY <2>1, <3>1, <3>2, <3>3 DEF CallInv
    <2> QED
      BY <2>2, <2>3
  <1>2. CASE TranslateIllegal
    BY <1>2 DEF TranslateIllegal, CallInv, Passes
  <1>3. CASE PassVisit
    <2>1. /\ phase \in Passes /\ UNCHANGED <<phase, plan>> /\ visited' = Append(visited, it)
          /\ has_calls' = FindsCalls(it)
      BY <1>3 DEF PassVisit
    <2>2. /\ it \in Live
          /\ \A n \in Live : n \in Live' /\ R'.insts[n] = R.insts[n]
          /\ \A n \in Live' : n \in Live \/ R'.insts[n].op = "mov"
      BY <1>3, PassVisitLive
    <2>3. \A n : n \in Range(visited') => n \in Range(visited) \/ n = it
      <3>1. visited \in Seq(Pos) /\ it \in Int
        <4>1. SweptTo(R, bb, it, plan, visited)
          BY <2>1 DEF VisitInv
        <4>2. visited \in Seq(Pos)
          BY <4>1 DEF SweptTo, Sweeping, Sweep, Followed
        <4>3. PICK B : Whole(R, B)
          BY <2>1 DEF ListInv, Passes
        <4>4. AllCode(R) \in Seq(Pos)
          BY <4>3, AllCodeIs DEF Whole, Gathers
        <4>5. it \in Pos
          BY <2>2, <4>4 DEF Live, Range
        <4> QED
          BY <4>2, <4>5 DEF Pos
      <3> DEFINE w == Append(visited, it)
      <3>2. /\ DOMAIN w = 1 .. Len(visited) + 1 /\ w[Len(visited) + 1] = it /\ Len(visited) \in Nat
            /\ DOMAIN visited = 1 .. Len(visited) /\ \A j \in 1 .. Len(visited) : w[j] = visited[j]
        BY <3>1
      <3> HIDE DEF w
      <3>3. \A j \in 1 .. Len(visited) + 1 : j \in 1 .. Len(visited) \/ j = Len(visited) + 1
        BY <3>2
      <3>4. \A n : n \in Range(w) => n \in Range(visited) \/ n = it
        BY <3>2, <3>3 DEF Range
      <3> QED
        BY <2>1, <3>4 DEF w
    <2>4. /\ has_calls \in BOOLEAN /\ (has_calls => \E n \in Live : R.insts[n].op = "hcall")
          /\ \A n \in Live : R.insts[n].op = "hcall" =>
               has_calls \/ (phase = "select" /\ n \in Range(plan) \ Range(visited))
      BY <2>1 DEF CallInv
    <2>5. has_calls' \in BOOLEAN /\ (has_calls' <=> has_calls \/ (phase = "select" /\ R.insts[it].op = "hcall"))
      BY <2>1, <2>4 DEF FindsCalls
    <2>6. has_calls' => \E n \in Live' : R'.insts[n].op = "hcall"
      BY <2>2, <2>4, <2>5
    <2>7. ASSUME NEW n \in Live', R'.insts[n].op = "hcall"
          PROVE  has_calls' \/ (phase = "select" /\ n \in Range(plan) \ Range(visited'))
      <3>1. n \in Live /\ R.insts[n].op = "hcall"
        BY <2>2, <2>7
      <3> QED
        BY <2>3, <2>4, <2>5, <3>1
    <2>8. phase \notin {"translate"}
      BY <2>1 DEF Passes
    <2> QED
      BY <2>1, <2>5, <2>6, <2>7, <2>8 DEF CallInv
  <1>4. CASE PassEnd
    <2>1. /\ phase \in Passes /\ it < 0 /\ NextBlock = 0 /\ R' = R /\ has_calls' = has_calls
          /\ phase' \in {"regalloc", "emit"}
      BY <1>4 DEF PassEnd, Passes
    <2>2. visited = plan
      BY <2>1, VisitInvSound DEF VisitedOnceInOrder
    <2>3. Live' = Live
      BY <2>1 DEF Live
    <2>4. \A n \in Live : R.insts[n].op = "hcall" => has_calls
      BY <2>1, <2>2 DEF CallInv
    <2> QED
      BY <2>1, <2>3, <2>4 DEF CallInv
  <1>5. CASE PassNextBlock
    <2>1. UNCHANGED <<phase, R, has_calls, plan, visited>>
      BY <1>5 DEF PassNextBlock
    <2> QED
      BY <2>1 DEF CallInv, Live
  <1>6. CASE EmitInst
    <2>1. phase = "emit" /\ UNCHANGED <<phase, R, has_calls>>
      BY <1>6 DEF EmitInst
    <2> QED
      BY <2>1 DEF CallInv, Live
  <1>7. CASE EmitEnd
    <2>1. phase = "emit" /\ phase' = "run" /\ UNCHANGED <<R, has_calls>>
      BY <1>7 DEF EmitEnd
    <2> QED
      BY <2>1 DEF CallInv, Live
  <1>8. CASE Leave
    BY <1>8 DEF Leave, CallInv, Passes
  <1>9. CASE RunLabel \/ RunOp \/ RunJmp \/ RunJccTaken \/ RunJccNot \/ Finished \/ UNCHANGED vars
    <2>1. UNCHANGED <<phase, R, has_calls, plan, visited>>
      BY <1>9 DEF RunLabel, RunOp, RunJmp, RunJccTaken, RunJccNot, GoTo, Finished, vars
    <2> QED
      BY <2>1 DEF CallInv, Live
  <1> QED
    BY <1>1, <1>2, <1>3, <1>4, <1>5, <1>6, <1>7, <1>8, <1>9 DEF Next

\* Emission knows whether the region has calls, so that Emit_hcall never
\* meets its assertion and a leaf is laid out as one.
THEOREM CallsAreKnown == Spec => []CallsKnown
  <1>1. Init => ListInv /\ VisitInv /\ CallInv
    BY ListInvInit DEF Init, VisitInv, CallInv, Passes
  <1>2. ListInv /\ VisitInv /\ CallInv /\ [Next]_vars => (ListInv /\ VisitInv /\ CallInv)'
    BY ListInvNext, VisitInvNext, CallInvNext
  <1>3. CallInv => CallsKnown
    BY DEF CallInv, CallsKnown
  <1> QED
    BY <1>1, <1>2, <1>3, PTL DEF Spec

-----------------------------------------------------------------------------
(* Packed operands *)

\* What a field of a container holds after it was encoded.
LEMMA EncodeIn ==
  ASSUME NEW c, NEW l \in Int, NEW h \in Int, NEW t, NEW p \in Int
  PROVE  p \in Encode(c, l, h, t) <=> IF p \in l .. h THEN BitOf(t, p - l) ELSE p \in c
  BY DEF Encode

LEMMA SmallBits ==
  /\ ~BitOf(0, 0) /\ ~BitOf(0, 1) /\ BitOf(1, 0) /\ ~BitOf(1, 1) /\ ~BitOf(2, 0) /\ BitOf(2, 1)
  /\ \A n \in {0, 1, 2} : Shr(n, 2) = 0
  <1>1. \A n \in {0, 1, 2} : /\ Shr(n, 0) = n /\ Shr(n, 1) = n \div 2 
                            /\ Shr(n, 2) = (n \div 2) \div 2
    <2> TAKE n \in {0, 1, 2}
    <2>1. n \in Int /\ 0 + 1 = 1 /\ 1 + 1 = 2
      OBVIOUS
    <2>2. Shr(n, 0) = n /\ Shr(n, 0 + 1) = Shr(n, 0) \div 2 /\ Shr(n, 1 + 1) = Shr(n, 1) \div 2
      BY <2>1, ShrDef
    <2> QED
      BY <2>1, <2>2
  <1>2. 0 \div 2 = 0 /\ 1 \div 2 = 0 /\ 2 \div 2 = 1 /\ 0 % 2 = 0 /\ 1 % 2 = 1 /\ 2 % 2 = 0
    OBVIOUS
  <1> QED
    BY <1>1, <1>2 DEF BitOf

\* The bits of the head of an operand.
LEMMA MakeIn ==
  ASSUME NEW kind \in {0, 1, 2}, NEW type
  PROVE  /\ 0 \in Make(kind, type) <=> kind = 1
         /\ 1 \in Make(kind, type) <=> kind = 2
  <1> DEFINE c == Encode({}, 0, 1, kind)
  <1>1. c \subseteq 0 .. 1 /\ (0 \in c <=> BitOf(kind, 0)) /\ (1 \in c <=> BitOf(kind, 1))
    <2>1. 0 - 0 = 0 /\ 1 - 0 = 1
      OBVIOUS
    <2> QED
      BY <2>1 DEF Encode
  <1> HIDE DEF c
  <1>2. Make(kind, type) = Encode(c, 2, 3, type)
    BY DEF Make, c
  <1>3. (0 \in Make(kind, type) <=> 0 \in c) /\ (1 \in Make(kind, type) <=> 1 \in c)
    BY <1>2 DEF Encode
  <1>4. (BitOf(kind, 0) <=> kind = 1) /\ (BitOf(kind, 1) <=> kind = 2)
    BY SmallBits
  <1> QED
    BY <1>1, <1>3, <1>4

\* The kind of an operand is in its two lowest bits.
LEMMA KindIs ==
  ASSUME NEW o, NEW kind \in {0, 1, 2}, 0 \in o <=> kind = 1, 1 \in o <=> kind = 2
  PROVE  Kind(o) = kind
  <1>2. Shr(kind, 2) = 0
    BY SmallBits
  <1>3. Carries(o, 0, 1, kind, 0)
    <2>1. \A p \in 0 .. 1 : p \in {0, 1} /\ 0 + (p - 0) = p
      OBVIOUS
    <2> QED
      BY <2>1, SmallBits DEF Carries
  <1>4. Piece(o, 0, 1, kind, 0, 2)
    BY <1>3 DEF Piece
  <1> QED
    BY <1>2, <1>4, FieldIs DEF Narrow, Kind

LEMMA KindsAre ==
  ASSUME NEW o
  PROVE  /\ 0 \notin o /\ 1 \notin o => Kind(o) = 0
         /\ 0 \in o /\ 1 \notin o => Kind(o) = 1
         /\ 0 \notin o /\ 1 \in o => Kind(o) = 2
  <1>1. 0 \in {0, 1, 2} /\ 1 \in {0, 1, 2} /\ 2 \in {0, 1, 2}
        /\ 0 # 1 /\ 0 # 2 /\ 1 # 2
    OBVIOUS
  <1> QED
    BY <1>1, KindIs

\* What a sign bit stands for.
LEMMA SignBit ==
  ASSUME NEW t \in Int, NEW m \in Nat, Shr(t, m) \in {-1, 0}
  PROVE  (IF BitOf(t, m) THEN -1 ELSE 0) = Shr(t, m)
  <1> DEFINE w == IF BitOf(t, m) THEN {31} ELSE {}
  <1>1. 31 \in w <=> BitOf(t, m)
    OBVIOUS
  <1>2. (IF 31 \in w THEN -1 ELSE 0) = Shr(t, m)
    <2> HIDE DEF w
    <2> QED
      BY <1>1, SignIs
  <1> HIDE DEF w
  <1> QED
    BY <1>1, <1>2

U32(n) == n \in Int /\ -2147483648 <= n /\ n < 2147483648

LEMMA U32Sign ==
  ASSUME NEW n
  PROVE  U32(n) <=> n \in Int /\ Shr(n, 31) \in {-1, 0}
  <1> SUFFICES ASSUME n \in Int
               PROVE  -2147483648 <= n /\ n < 2147483648 <=> Shr(n, 31) \in {-1, 0}
    BY DEF U32
  <1>1. Shr(n, 31) = n \div 2147483648
    BY ShrDiv
  <1>2. n \div 2147483648 \in {-1, 0} <=> -2147483648 <= n /\ n < 2147483648
    OBVIOUS
  <1> QED
    BY <1>1, <1>2

\* Constants, virtual registers and the slot of CPUState::ip.
LEMMA ConstIs ==
  ASSUME NEW type, NEW n, U32(n)
  PROVE  LET o == MakeConst(type, n)
         IN  IsConst(o) /\ ~IsVGPR(o) /\ GetConst(o) = n
  <1> DEFINE c == Make(0, type)
             o == MakeConst(type, n)
  <1>1. o = Encode(c, 5, 36, n)
    BY DEF MakeConst, KConst
  <1>2. 0 \notin c /\ 1 \notin c
    BY MakeIn
  <1> HIDE DEF c, o
  <1>3. 0 \notin o /\ 1 \notin o
    BY <1>1, <1>2 DEF Encode
  <1>4. Kind(o) = 0
    BY <1>3, KindsAre
  <1>5. \A p \in 5 .. 36 : p \in o <=> BitOf(n, p - 5)
    BY <1>1 DEF Encode
  <1>6. n \in Int /\ Shr(n, 31) \in {-1, 0} /\ Shr(n, 0) = n
    BY U32Sign, ShrDef
  <1>7. (IF 36 \in o THEN -1 ELSE 0) = Shr(n, 31)
    <2>1. 36 \in o <=> BitOf(n, 31)
      <3>1. 36 - 5 = 31 /\ 36 \in 5 .. 36
        OBVIOUS
      <3> QED
        BY <1>5, <3>1
    <2> QED
      BY <1>6, <2>1, SignBit
  <1>8. Piece(o, 5, 35, n, 0, 31)
    <2>1. ASSUME NEW p \in 5 .. 35
          PROVE  p \in o <=> BitOf(n, 0 + (p - 5))
      <3>1. p \in 5 .. 36 /\ 0 + (p - 5) = p - 5
        OBVIOUS
      <3> QED
        BY <1>5, <3>1
    <2> QED
      BY <1>6, <2>1 DEF Piece, Carries
  <1>9. GetConst(o) = n
    <2>1. ShiftIn(Shr(n, 31), o, 5, 35) = Shr(n, 0)
      BY <1>8, Rejoin
    <2>2. 36 - 1 = 35
      OBVIOUS
    <2> QED
      BY <1>6, <1>7, <2>1, <2>2 DEF GetConst, FieldS
  <1> QED
    BY <1>4, <1>9 DEF o, IsConst, IsVGPR, KConst, KGpr

U16 == {n \in Nat : n <= 65535}

LEMMA Narrow16 ==
  ASSUME NEW r \in U16
  PROVE  Narrow(r, 16)
  <1>1. r \in Int /\ r \div 65536 = 0
    BY DEF U16
  <1> QED
    BY <1>1, ShrDiv DEF Narrow

\* The 16 bits a register number or an offset is packed into.
LEMMA PayloadIs ==
  ASSUME NEW c, NEW r \in U16, NEW o, \A p \in 5 .. 20 : p \in o <=> p \in Encode(c, 5, 20, r)
  PROVE  Field(o, 5, 20) = r
  <1>1. Carries(o, 5, 20, r, 0)
    <2> SUFFICES ASSUME NEW p \in 5 .. 20 PROVE p \in o <=> BitOf(r, 0 + (p - 5))
      BY DEF Carries
    <2>1. 0 + (p - 5) = p - 5
      OBVIOUS
    <2> QED
      BY <2>1 DEF Encode
  <1>2. Piece(o, 5, 20, r, 0, 16)
    <2>1. r \in Int
      BY DEF U16
    <2> QED
      BY <1>1, <2>1 DEF Piece
  <1> QED
    BY <1>2, Narrow16, FieldIs, Zenon

LEMMA VGPRIs ==
  ASSUME NEW type, NEW r \in U16
  PROVE  LET o == MakeVGPR(type, r)
         IN  IsVGPR(o) /\ ~IsConst(o) /\ GetVGPR(o) = r
  <1> DEFINE m == Make(1, type)
             c == m \cup {4}
             o == MakeVGPR(type, r)
  <1>1. o = Encode(c, 5, 20, r)
    BY DEF MakeVGPR, KGpr
  <1>2. 0 \in m /\ 1 \notin m
    BY MakeIn
  <1> HIDE DEF m, o
  <1>3. 0 \in c /\ 1 \notin c /\ 4 \in c
    BY <1>2
  <1> HIDE DEF c
  <1>4. 0 \in o /\ 1 \notin o /\ 4 \in o
    BY <1>1, <1>3 DEF Encode
  <1>5. Kind(o) = 1
    BY <1>4, KindsAre
  <1>6. Field(o, 5, 20) = r
    BY <1>1, PayloadIs, Zenon
  <1> QED
    BY <1>4, <1>5, <1>6 DEF o, IsConst, IsVGPR, KConst, KGpr, GetVGPR

LEMMA SlotIs ==
  ASSUME NEW type, NEW n \in U16
  PROVE  LET o == MakeSlot(TRUE, type, n)
         IN  IsGSlot(o) /\ GetSlotOffs(o) = n
  <1> DEFINE c == Make(2, type)
             e == Encode(c, 5, 20, n)
             o == MakeSlot(TRUE, type, n)
  <1>1. o = e \cup {21}
    BY DEF MakeSlot, KSlot
  <1>2. 0 \notin c /\ 1 \in c
    BY MakeIn
  <1> HIDE DEF c, o
  <1>3. 0 \notin e /\ 1 \in e
    BY <1>2 DEF Encode
  <1> HIDE DEF e
  <1>4. 0 \notin o /\ 1 \in o /\ 21 \in o /\ \A p \in 5 .. 20 : p \in o <=> p \in e
    BY <1>1, <1>3
  <1>5. Kind(o) = 2
    BY <1>4, KindsAre
  <1>6. Field(o, 5, 20) = n
    BY <1>4, PayloadIs, Zenon DEF e
  <1> QED
    BY <1>4, <1>5, <1>6 DEF o, IsGSlot, KSlot, GetSlotOffs

\* A word as a number has its bits.
LEMMA RawIs ==
  ASSUME NEW w
  PROVE  LET n == FieldS(w, 0, 31)
         IN  U32(n) /\ \A k \in 0 .. 31 : k \in w <=> BitOf(n, k)
  <1> DEFINE n == FieldS(w, 0, 31)
             t == IF 31 \in w THEN -1 ELSE 0
  <1>1. n = ShiftIn(t, w, 0, 30) /\ t \in {-1, 0} /\ t \in Int
    <2>1. 31 - 1 = 30
      OBVIOUS
    <2> QED
      BY <2>1 DEF FieldS
  <1>2. t = -1 <=> 31 \in w
    OBVIOUS
  <1> HIDE DEF n, t
  <1>3. n \in Int /\ Carries(w, 0, 30, n, 0) /\ Shr(n, 31) = t
    <2>1. 30 - 0 + 1 = 31 /\ 30 - 0 + 1 \in Nat /\ 0 \in Int /\ 30 \in Int
      OBVIOUS
    <2>2. ShiftedIn(ShiftIn(t, w, 0, 30), t, w, 0, 30)
      BY <1>1, <2>1, ShiftInBits
    <2> QED
      BY <1>1, <2>1, <2>2 DEF ShiftedIn
  <1>4. U32(n)
    BY <1>1, <1>3, U32Sign
  <1>5. 31 \in w <=> BitOf(n, 31)
    <2>1. (IF BitOf(n, 31) THEN -1 ELSE 0) = t
      BY <1>1, <1>3, SignBit
    <2> QED
      BY <1>2, <2>1
  <1>6. ASSUME NEW k \in 0 .. 31
        PROVE  k \in w <=> BitOf(n, k)
    <2>1. k = 31 \/ (k \in 0 .. 30 /\ 0 + (k - 0) = k)
      OBVIOUS
    <2> QED
      BY <1>3, <1>5, <2>1 DEF Carries
  <1> QED
    BY <1>4, <1>6 DEF n

-----------------------------------------------------------------------------
(* Operands of a guest instruction *)

LEMMA AddIs ==
  ASSUME NEW x, NEW y, U32(x), U32(y)
  PROVE  U32(AddU32(x, y)) /\ AddU32(x, y) = AddU32(y, x) /\ AddU32(0, x) = x
  <1>1. x \in Int /\ y \in Int /\ -2147483648 <= x /\ x < 2147483648 /\ -2147483648 <= y /\ y < 2147483648
    BY DEF U32
  <1>2. MinInt = -2147483648 /\ MaxInt = 2147483647
    BY DEF MinInt, MaxInt
  <1> QED
    BY <1>1, <1>2 DEF AddU32, U32

\* a is an instruction at ip.
Guest(a, ip) == a.op # "illegal" /\ Wellformed(a) /\ U32(ip) /\ U32(ip + 4)

LEMMA GuestIs ==
  ASSUME NEW a, NEW ip, Guest(a, ip)
  PROVE  /\ a.op \in Ops /\ a.rd \in 0 .. 31 /\ a.rs1 \in 0 .. 31 /\ a.rs2 \in 0 .. 31
         /\ U32(a.imm) /\ U32(ip) /\ U32(ip + 4)
  <1>1. a.op \in Ops /\ a.rd \in 0 .. 31 /\ a.rs1 \in 0 .. 31 /\ a.rs2 \in 0 .. 31
    BY DEF Guest, Wellformed
  <1>2. a.imm \in Int /\ ImmFits(a.op, a.imm)
    BY Absent DEF Guest
  <1>3. U32(a.imm)
    BY <1>2 DEF ImmFits, U32, MinInt, MaxInt
  <1> QED
    BY <1>1, <1>3 DEF Guest

LEMMA GpropIs ==
  ASSUME NEW r \in 0 .. 31, NEW type
  PROVE  /\ Holds(gprop(r, type), r) /\ (IsConst(gprop(r, type)) <=> r = 0)
         /\ r # 0 => Holds(vgpr(r, type), r)
  <1>1. U32(0)
    BY DEF U32
  <1>2. CASE r = 0
    BY <1>1, <1>2, ConstIs DEF gprop, Holds
  <1>3. CASE r # 0
    <2>1. r - 1 \in U16
      BY <1>3 DEF U16
    <2>2. IsVGPR(vgpr(r, type)) /\ ~IsConst(vgpr(r, type)) /\ GetVGPR(vgpr(r, type)) = r - 1
      BY <2>1, VGPRIs DEF vgpr
    <2> QED
      BY <1>3, <2>2 DEF gprop, Holds
  <1> QED
    BY <1>2, <1>3

LEMMA VconstIs ==
  ASSUME NEW n, U32(n)
  PROVE  IsConst(vconst(n)) /\ GetConst(vconst(n)) = n
  BY ConstIs DEF vconst

\* What OperandOf accepts.
LEMMA OperandsOf ==
  ASSUME NEW a, NEW ip, Guest(a, ip)
  PROVE  /\ \A type : OperandOf(gprop(a.rs1, type), a, ip) /\ OperandOf(gprop(a.rs2, type), a, ip)
         /\ \A n \in {a.imm, ip, ip + 4, AddU32(ip, a.imm), -2} : U32(n) /\ OperandOf(vconst(n), a, ip)
         /\ \A t : IsTemp(t) => OperandOf(t, a, ip)
         /\ a.rs1 = 0 => OperandOf(vconst(0), a, ip)
  <1>1. ASSUME NEW type
        PROVE  OperandOf(gprop(a.rs1, type), a, ip) /\ OperandOf(gprop(a.rs2, type), a, ip)
    <2>1. Holds(gprop(a.rs1, type), a.rs1) /\ Holds(gprop(a.rs2, type), a.rs2)
      BY GuestIs, GpropIs
    <2> QED
      BY <2>1 DEF OperandOf
  <1>2. ASSUME NEW n \in {a.imm, ip, ip + 4, AddU32(ip, a.imm), -2}
        PROVE  U32(n) /\ OperandOf(vconst(n), a, ip)
    <2>1. U32(-2)
      BY DEF U32
    <2>2. U32(n)
      BY <2>1, GuestIs, AddIs
    <2> QED
      BY <2>2, VconstIs DEF OperandOf
  <1>3. ASSUME NEW t, IsTemp(t)
        PROVE  OperandOf(t, a, ip)
    BY <1>3 DEF OperandOf
  <1>4. a.rs1 = 0 => OperandOf(vconst(0), a, ip)
    <2>1. U32(0)
      BY DEF U32
    <2>2. IsConst(vconst(0)) /\ GetConst(vconst(0)) = 0
      BY <2>1, VconstIs
    <2> QED
      BY <2>2 DEF OperandOf, Holds
  <1> QED
    BY <1>1, <1>2, <1>3, <1>4

\* d may be written for a.
Dest(d, a) == IsTemp(d) \/ (a.rd # 0 /\ Holds(d, a.rd))

LEMMA FitsTwo ==
  ASSUME NEW a, NEW ip, NEW d, Dest(d, a), NEW s, OperandOf(s, a, ip)
  PROVE  OperandsFit(Inst("mov", "none", <<d, s>>, ip), a)
  <1> DEFINE i == Inst("mov", "none", <<d, s>>, ip)
  <1>1. i.op = "mov" /\ i.opr = <<d, s>> /\ i.at = ip
    BY DEF Inst
  <1>2. DOMAIN <<d, s>> = {1, 2} /\ <<d, s>>[1] = d /\ <<d, s>>[2] = s
    OBVIOUS
  <1> HIDE DEF i
  <1>3. "mov" \in Writes
    BY DEF Writes
  <1> QED
    BY <1>1, <1>2, <1>3 DEF OperandsFit, Dest, i

LEMMA FitsThree ==
  ASSUME NEW a, NEW ip, NEW op \in Writes, op \notin {"vmstore", "brcc"}, NEW x,
         NEW d, Dest(d, a), NEW s, OperandOf(s, a, ip), NEW t, OperandOf(t, a, ip)
  PROVE  OperandsFit(Inst(op, x, <<d, s, t>>, ip), a)
  <1> DEFINE i == Inst(op, x, <<d, s, t>>, ip)
  <1>1. i.op = op /\ i.opr = <<d, s, t>> /\ i.at = ip
    BY DEF Inst
  <1>2. DOMAIN <<d, s, t>> = {1, 2, 3} /\ <<d, s, t>>[1] = d /\ <<d, s, t>>[2] = s /\ <<d, s, t>>[3] = t
    OBVIOUS
  <1> HIDE DEF i
  <1> QED
    BY <1>1, <1>2 DEF OperandsFit, Dest, i

\* i and what Builder::Create makes of it have operands of a.
Sound(i, a, ip) ==
  /\ IsInst(i) /\ i.at = ip /\ Canonical(i).at = ip /\ Kept(i).at = ip
  /\ OperandsFit(Canonical(i), a) /\ OperandsFit(Kept(i), a)

LEMMA SoundNoAdd ==
  ASSUME NEW a, NEW ip, NEW op, op # "add", NEW x, NEW opr, OperandsFit(Inst(op, x, opr, ip), a)
  PROVE  Sound(Inst(op, x, opr, ip), a, ip)
  <1> DEFINE i == Inst(op, x, opr, ip)
  <1>1. i.op = op /\ i.at = ip /\ IsInst(i)
    BY DEF Inst, IsInst
  <1> HIDE DEF i
  <1>2. Canonical(i) = i /\ MovOf(i) = <<>>
    BY <1>1 DEF Canonical, MovOf
  <1>3. Kept(i) = i
    BY <1>2 DEF Kept, FoldsTo
  <1> QED
    BY <1>1, <1>2, <1>3 DEF Sound, i

LEMMA SoundAdd ==
  ASSUME NEW a, NEW ip, NEW d, Dest(d, a), NEW s, OperandOf(s, a, ip), NEW t, OperandOf(t, a, ip),
         IsConst(s) /\ IsConst(t) => OperandOf(MakeConst(I32, AddU32(GetConst(s), GetConst(t))), a, ip)
  PROVE  Sound(Inst("add", "none", <<d, s, t>>, ip), a, ip)
  <1> DEFINE i == Inst("add", "none", <<d, s, t>>, ip)
             j == Inst("add", "none", <<d, t, s>>, ip)
             c == Canonical(i)
             mov(x) == Inst("mov", "none", <<d, x>>, ip)
  <1>0. /\ <<d, s, t>>[1] = d /\ <<d, s, t>>[2] = s /\ <<d, s, t>>[3] = t
        /\ <<d, t, s>>[1] = d /\ <<d, t, s>>[2] = t /\ <<d, t, s>>[3] = s
    OBVIOUS
  <1>1. /\ i.op = "add" /\ i.at = ip /\ IsInst(i) /\ i.opr = <<d, s, t>>
        /\ j.op = "add" /\ j.at = ip /\ IsInst(j) /\ j.opr = <<d, t, s>>
        /\ [i EXCEPT !.opr = <<d, t, s>>] = j
    BY DEF Inst, IsInst
  <1>2. OperandsFit(i, a) /\ OperandsFit(j, a)
    <2>1. "add" \in Writes /\ "add" \notin {"vmstore", "brcc"}
      BY DEF Writes, ArithOps, IrOp
    <2> QED
      BY <2>1, FitsThree
  <1>3. \A x : OperandOf(x, a, ip) => OperandsFit(mov(x), a) /\ mov(x).at = ip
    BY FitsTwo DEF Inst
  <1> HIDE DEF i, j, mov
  <1>4. c = i \/ (c = j /\ IsConst(s) /\ ~IsConst(t))
    BY <1>0, <1>1 DEF Canonical
  <1>5. \A x : Inst("mov", "none", <<d, x>>, ip) = mov(x)
    BY DEF mov
  <1>6. Kept(i) = c \/ \E x : OperandOf(x, a, ip) /\ Kept(i) = mov(x)
    <2> SUFFICES ASSUME FoldsTo(i) # <<>>
                 PROVE  \E x : OperandOf(x, a, ip) /\ FoldsTo(i) = <<d, x>>
      BY <1>1, <1>5 DEF Kept
    <2>1. CASE c = i
      <3>1. MovOf(i) # <<>> /\ FoldsTo(i) = MovOf(i)
        BY <2>1 DEF FoldsTo
      <3> DEFINE k == MakeConst(I32, AddU32(GetConst(s), GetConst(t)))
      <3>2. IsConst(t)
        BY <1>0, <1>1, <3>1 DEF MovOf
      <3>3. CASE IsConst(s)
        <4>1. MovOf(i) = <<d, k>>
          BY <1>0, <1>1, <3>2, <3>3 DEF MovOf
        <4>2. OperandOf(k, a, ip)
          BY <3>2, <3>3
        <4> HIDE DEF k
        <4> QED
          BY <3>1, <4>1, <4>2
      <3>4. CASE ~IsConst(s)
        <4>1. MovOf(i) = <<d, s>>
          BY <1>0, <1>1, <3>1, <3>2, <3>4 DEF MovOf
        <4> QED
          BY <3>1, <4>1
      <3> QED
        BY <3>3, <3>4
    <2>2. CASE c = j /\ IsConst(s) /\ ~IsConst(t)
      <3>1. MovOf(j) # <<>> /\ FoldsTo(i) = MovOf(j)
        BY <2>2 DEF FoldsTo
      <3> QED
        BY <1>0, <1>1, <2>2, <3>1 DEF MovOf
    <2> QED
      BY <1>4, <2>1, <2>2
  <1>7. OperandsFit(c, a) /\ c.at = ip
    BY <1>1, <1>2, <1>4
  <1> HIDE DEF c
  <1>8. OperandsFit(Kept(i), a) /\ Kept(i).at = ip
    BY <1>3, <1>6, <1>7
  <1> QED
    BY <1>1, <1>7, <1>8 DEF Sound, i, c

-----------------------------------------------------------------------------
(* What the translators make has operands of the instruction *)

SoundSeq(s, a, ip) == IsSeq(s) /\ \A k \in 1 .. Len(s) : Sound(s[k], a, ip)

LEMMA SoundNone ==
  ASSUME NEW a, NEW ip
  PROVE  SoundSeq(<<>>, a, ip)
  <1>1. Len(<<>>) = 0 /\ 1 .. 0 = {} /\ IsSeq(<<>>)
    BY DEF IsSeq
  <1> QED
    BY <1>1 DEF SoundSeq

LEMMA SoundOne ==
  ASSUME NEW a, NEW ip, NEW i, Sound(i, a, ip)
  PROVE  SoundSeq(<<i>>, a, ip)
  <1>1. IsSeq(<<i>>) /\ Len(<<i>>) = 1 /\ <<i>>[1] = i /\ 1 .. 1 = {1}
    BY PlainOne
  <1> QED
    BY <1>1 DEF SoundSeq

LEMMA SoundJoin ==
  ASSUME NEW a, NEW ip, NEW x, NEW y, SoundSeq(x, a, ip), SoundSeq(y, a, ip)
  PROVE  SoundSeq(x \o y, a, ip)
  <1> DEFINE z == x \o y
             m == Len(x)
             n == Len(y)
  <1>1. /\ IsSeq(z) /\ m \in Nat /\ n \in Nat /\ Len(z) = m + n
        /\ \A k \in 1 .. m : z[k] = x[k]
        /\ \A k \in m + 1 .. m + n : z[k] = y[k - m]
    BY JoinSeq DEF SoundSeq
  <1>2. /\ \A k \in 1 .. m : Sound(x[k], a, ip)
        /\ \A k \in 1 .. n : Sound(y[k], a, ip)
    BY DEF SoundSeq
  <1> HIDE DEF z, m, n
  <1>3. ASSUME NEW k \in 1 .. Len(z) PROVE Sound(z[k], a, ip)
    <2>1. k \in 1 .. m \/ (k \in m + 1 .. m + n /\ k - m \in 1 .. n)
      BY <1>1
    <2> QED
      BY <1>1, <1>2, <2>1
  <1> QED
    BY <1>1, <1>3 DEF SoundSeq, z

LEMMA MovToSound ==
  ASSUME NEW a, NEW ip, Guest(a, ip), NEW n, OperandOf(vconst(n), a, ip)
  PROVE  SoundSeq(MovTo(a, n, ip), a, ip)
  <1>1. CASE a.rd = 0
    BY <1>1, SoundNone DEF MovTo
  <1>2. CASE a.rd # 0
    <2>1. Dest(vgpr(a.rd, I32), a)
      BY <1>2, GuestIs, GpropIs DEF Dest
    <2>2. OperandsFit(Inst("mov", "none", <<vgpr(a.rd, I32), vconst(n)>>, ip), a)
      BY <2>1, FitsTwo
    <2>3. Sound(Inst("mov", "none", <<vgpr(a.rd, I32), vconst(n)>>, ip), a, ip)
      BY <2>2, SoundNoAdd
    <2> QED
      BY <1>2, <2>3, SoundOne DEF MovTo
  <1> QED
    BY <1>1, <1>2

LEMMA PreSideeffSound ==
  ASSUME NEW a, NEW ip, Guest(a, ip)
  PROVE  SoundSeq(PreSideeff(a, ip), a, ip)
  <1> DEFINE d == MakeSlot(TRUE, I32, IPOffs)
             s == vconst(ip)
             i == Inst("mov", "none", <<d, s>>, ip)
  <1>1. IsGSlot(d) /\ GetSlotOffs(d) = IPOffs
    <2>1. 128 \in U16
      BY DEF U16
    <2> QED
      BY <2>1, SlotIs DEF IPOffs
  <1>2. OperandOf(s, a, ip) /\ GetConst(s) = ip
    BY OperandsOf, VconstIs
  <1> HIDE DEF d, s
  <1>3. i.op = "mov" /\ i.opr = <<d, s>> /\ i.at = ip
    BY DEF Inst
  <1>4. DOMAIN <<d, s>> = {1, 2} /\ <<d, s>>[1] = d /\ <<d, s>>[2] = s
    OBVIOUS
  <1>5. "mov" \in Writes
    BY DEF Writes
  <1>6. OperandsFit(i, a)
    <2> HIDE DEF i
    <2> QED
      BY <1>1, <1>2, <1>3, <1>4, <1>5 DEF OperandsFit
  <1>7. Sound(i, a, ip)
    BY <1>6, SoundNoAdd
  <1> HIDE DEF i
  <1> QED
    BY <1>7, SoundNone, SoundOne DEF PreSideeff, i, d, s

\* The sum that takes an address or a target apart from a register and imm.
LEMMA SumSound ==
  ASSUME NEW a, NEW ip, Guest(a, ip), NEW d, Dest(d, a)
  PROVE  Sound(Inst("add", "none", <<d, gprop(a.rs1, I32), vconst(a.imm)>>, ip), a, ip)
  <1> DEFINE s == gprop(a.rs1, I32)
             t == vconst(a.imm)
  <1>1. OperandOf(s, a, ip) /\ OperandOf(t, a, ip) /\ GetConst(t) = a.imm /\ U32(a.imm)
    BY OperandsOf, VconstIs
  <1>2. IsConst(s) => GetConst(s) = 0
    BY GuestIs, GpropIs DEF Holds
  <1>3. IsConst(s) => MakeConst(I32, AddU32(GetConst(s), GetConst(t))) = t
    BY <1>1, <1>2, AddIs DEF vconst
  <1> HIDE DEF s, t
  <1>4. Sound(Inst("add", "none", <<d, s, t>>, ip), a, ip)
    BY <1>1, <1>3, SoundAdd
  <1> QED
    BY <1>4 DEF s, t

LEMMA TempIs ==
  ASSUME NEW r \in U16, r >= NumGlobals
  PROVE  IsTemp(MakeVGPR(I32, r))
  BY VGPRIs DEF IsTemp

LEMMA WritesAre ==
  /\ Writes = {"mov", "setcc", "vmload", "add", "xor", "or", "and", "sll", "srl", "sra", "sub"}
  /\ \A op \in ArithOps : IrOp(op) \in Writes
  /\ \A op \in ArithOps : IrOp(op) = "add" <=> op \in {"addi", "add"}
  <1>1. ArithOps = {"addi", "xori", "ori", "andi", "slli", "srli", "srai",
                    "add", "sub", "sll", "xor", "srl", "sra", "or", "and"}
    BY DEF ArithOps, ShiftImmOps, RegOps
  <1>2. {IrOp(op) : op \in ArithOps} = {"add", "xor", "or", "and", "sll", "srl", "sra", "sub"}
    <2>1. \A op \in ArithOps : IrOp(op) \in {"add", "xor", "or", "and", "sll", "srl", "sra", "sub"}
      BY <1>1 DEF IrOp
    <2>2. /\ IrOp("add") = "add" /\ IrOp("xor") = "xor" /\ IrOp("or") = "or" /\ IrOp("and") = "and"
          /\ IrOp("sll") = "sll" /\ IrOp("srl") = "srl" /\ IrOp("sra") = "sra" /\ IrOp("sub") = "sub"
      BY DEF IrOp
    <2>3. ASSUME NEW x \in {"add", "xor", "or", "and", "sll", "srl", "sra", "sub"}
          PROVE  x \in ArithOps /\ IrOp(x) = x
      BY <1>1, <2>2
    <2> QED
      BY <2>1, <2>3
  <1>3. \A op \in ArithOps : IrOp(op) = "add" <=> op \in {"addi", "add"}
    BY <1>1 DEF IrOp
  <1> QED
    BY <1>2, <1>3 DEF Writes

LEMMA ArithSound ==
  ASSUME NEW a, NEW ip, Guest(a, ip), a.op \in ArithOps
  PROVE  SoundSeq(V_arith(a, ip), a, ip)
  <1> DEFINE d == vgpr(a.rd, I32)
             s == gprop(a.rs1, I32)
             t == Second(a)
             i == Inst(IrOp(a.op), "none", <<d, s, t>>, ip)
  <1>1. CASE a.rd = 0
    BY <1>1, SoundNone DEF V_arith
  <1>2. CASE a.rd # 0
    <2>1. Dest(d, a)
      BY <1>2, GuestIs, GpropIs DEF Dest
    <2>2. OperandOf(s, a, ip) /\ OperandOf(t, a, ip)
      BY OperandsOf DEF Second
    <2>3. ASSUME IrOp(a.op) # "add" PROVE Sound(i, a, ip)
      <3>1. IrOp(a.op) \in Writes /\ IrOp(a.op) \notin {"vmstore", "brcc"}
        BY WritesAre
      <3> HIDE DEF d, s, t
      <3>2. OperandsFit(i, a)
        BY <2>1, <2>2, <3>1, FitsThree
      <3> QED
        BY <2>3, <3>2, SoundNoAdd
    <2>4. ASSUME a.op = "addi" PROVE Sound(i, a, ip)
      <3>1. Format("addi") # "R" /\ IrOp("addi") = "add"
        BY DEF Format, LoadOps, ImmOps, StoreOps, BranchOps, ShiftImmOps, RegOps, IrOp
      <3>2. t = vconst(a.imm) /\ IrOp(a.op) = "add"
        BY <2>4, <3>1 DEF Second
      <3> QED
        BY <2>1, <3>2, SumSound
    <2>5. ASSUME a.op = "add" PROVE Sound(i, a, ip)
      <3>1. t = gprop(a.rs2, I32) /\ IrOp(a.op) = "add"
        BY <2>5 DEF Second, Format, LoadOps, ImmOps, StoreOps, BranchOps, ShiftImmOps, RegOps, IrOp
      <3>2. /\ IsConst(s) => a.rs1 = 0 /\ GetConst(s) = 0
            /\ IsConst(t) => GetConst(t) = 0
        BY <3>1, GuestIs, GpropIs DEF Holds
      <3>3. U32(0) /\ AddU32(0, 0) = 0
        <4>1. U32(0)
          BY DEF U32
        <4> QED
          BY <4>1, AddIs
      <3>4. IsConst(s) /\ IsConst(t) => OperandOf(MakeConst(I32, AddU32(GetConst(s), GetConst(t))), a, ip)
        BY <3>2, <3>3, OperandsOf DEF vconst
      <3> HIDE DEF d, s, t
      <3> QED
        BY <2>1, <2>2, <3>1, <3>4, SoundAdd
    <2>6. Sound(i, a, ip)
      BY <2>3, <2>4, <2>5, WritesAre
    <2>7. V_arith(a, ip) = <<i>>
      BY <1>2 DEF V_arith
    <2> HIDE DEF i
    <2> QED
      BY <2>6, <2>7, SoundOne
  <1> QED
    BY <1>1, <1>2

LEMMA SetccSound ==
  ASSUME NEW a, NEW ip, Guest(a, ip)
  PROVE  SoundSeq(V_setcc(a, ip), a, ip)
  <1> DEFINE d == vgpr(a.rd, I32)
             s == gprop(a.rs1, I32)
             t == Second(a)
             i == Inst("setcc", Cc(a.op), <<d, s, t>>, ip)
  <1>1. CASE a.rd = 0
    BY <1>1, SoundNone DEF V_setcc
  <1>2. CASE a.rd # 0
    <2>1. Dest(d, a)
      BY <1>2, GuestIs, GpropIs DEF Dest
    <2>2. OperandOf(s, a, ip) /\ OperandOf(t, a, ip)
      BY OperandsOf DEF Second
    <2>3. "setcc" \in Writes /\ "setcc" \notin {"vmstore", "brcc"} /\ "setcc" # "add"
      BY WritesAre
    <2>7. V_setcc(a, ip) = <<i>>
      BY <1>2 DEF V_setcc
    <2> HIDE DEF d, s, t
    <2>4. OperandsFit(i, a)
      BY <2>1, <2>2, <2>3, FitsThree
    <2>5. Sound(i, a, ip)
      BY <2>3, <2>4, SoundNoAdd
    <2> HIDE DEF i
    <2> QED
      BY <2>5, <2>7, SoundOne
  <1> QED
    BY <1>1, <1>2

\* An instruction that writes nothing.
LEMMA FitsNoWrite ==
  ASSUME NEW a, NEW ip, NEW op, op \notin Writes, NEW x, NEW opr,
         \A k \in DOMAIN opr : OperandOf(opr[k], a, ip),
         op = "vmstore" => Holds(opr[2], a.rs2) /\ (a.imm = 0 => Holds(opr[1], a.rs1)),
         op = "brcc" => Holds(opr[1], a.rs1) /\ Holds(opr[2], a.rs2)
  PROVE  OperandsFit(Inst(op, x, opr, ip), a)
  <1> DEFINE i == Inst(op, x, opr, ip)
  <1>1. i.op = op /\ i.opr = opr /\ i.at = ip
    BY DEF Inst
  <1> HIDE DEF i
  <1> QED
    BY <1>1 DEF OperandsFit, i

LEMMA AccessSound ==
  ASSUME NEW a, NEW ip, Guest(a, ip), NEW t, IsTemp(t), a.op \in LoadOps \cup StoreOps
  PROVE  SoundSeq(V_access(a, ip, t), a, ip)
  <1> DEFINE addr == IF a.imm = 0 THEN gprop(a.rs1, I32) ELSE t
             src == gprop(a.rs2, Access(a.op)[1])
             dst == IF a.rd = 0 THEN addr ELSE vgpr(a.rd, I32)
             st == Inst("vmstore", Access(a.op), <<addr, src>>, ip)
             ld == Inst("vmload", Access(a.op), <<dst, addr>>, ip)
             sum == Inst("add", "none", <<t, gprop(a.rs1, I32), vconst(a.imm)>>, ip)
  <1>1. Sound(sum, a, ip)
    BY SumSound DEF Dest
  <1>2. V_access(a, ip, t) = V_addr(a, ip, t) \o (IF a.op \in StoreOps THEN <<st>> ELSE <<ld>>)
    BY DEF V_access
  <1>3. V_addr(a, ip, t) = (IF a.imm = 0 THEN <<>> ELSE <<sum>>)
    BY DEF V_addr
  <1> HIDE DEF sum
  <1>4. SoundSeq(V_addr(a, ip, t), a, ip)
    BY <1>1, <1>3, SoundNone, SoundOne
  <1>5. /\ OperandOf(addr, a, ip) /\ OperandOf(src, a, ip) /\ Holds(src, a.rs2)
        /\ a.imm = 0 => Holds(addr, a.rs1)
    BY OperandsOf, GuestIs, GpropIs
  <1>6. a.rd # 0 => Holds(dst, a.rd)
    BY GuestIs, GpropIs
  <1> HIDE DEF addr, src, dst
  <1>7. OperandsFit(st, a)
    <2>1. "vmstore" \notin Writes /\ "vmstore" # "brcc"
      BY WritesAre
    <2>2. DOMAIN <<addr, src>> = {1, 2} /\ <<addr, src>>[1] = addr /\ <<addr, src>>[2] = src
      OBVIOUS
    <2> QED
      BY <1>5, <2>1, <2>2, FitsNoWrite
  <1>8. ASSUME a.op \notin StoreOps PROVE OperandsFit(ld, a)
    <2>1. ld.op = "vmload" /\ ld.opr = <<dst, addr>> /\ ld.at = ip
      BY DEF Inst
    <2>2. DOMAIN <<dst, addr>> = {1, 2} /\ <<dst, addr>>[1] = dst /\ <<dst, addr>>[2] = addr
      OBVIOUS
    <2>3. "vmload" \in Writes
      BY WritesAre
    <2> HIDE DEF ld
    <2> QED
      BY <1>5, <1>6, <1>8, <2>1, <2>2, <2>3 DEF OperandsFit
  <1>9. Sound(st, a, ip) /\ (a.op \notin StoreOps => Sound(ld, a, ip))
    BY <1>7, <1>8, SoundNoAdd
  <1> HIDE DEF st, ld
  <1>10. SoundSeq(<<st>>, a, ip) /\ (a.op \notin StoreOps => SoundSeq(<<ld>>, a, ip))
    BY <1>9, SoundOne
  <1> QED
    BY <1>2, <1>4, <1>10, SoundJoin

LEMMA JalrSound ==
  ASSUME NEW a, NEW ip, Guest(a, ip), NEW t, IsTemp(t)
  PROVE  SoundSeq(V_jalr(a, ip, t), a, ip)
  <1> DEFINE sum == Inst("add", "none", <<t, gprop(a.rs1, I32), vconst(a.imm)>>, ip)
             mask == Inst("and", "none", <<t, t, vconst(-2)>>, ip)
             go == Inst("gbrind", "none", <<t>>, ip)
             link == MovTo(a, ip + 4, ip)
  <1>1. Dest(t, a) /\ OperandOf(t, a, ip) /\ OperandOf(vconst(-2), a, ip) /\ OperandOf(vconst(ip + 4), a, ip)
    BY OperandsOf DEF Dest
  <1>2. Sound(sum, a, ip)
    BY <1>1, SumSound
  <1>3. Sound(mask, a, ip)
    <2>1. "and" \in Writes /\ "and" \notin {"vmstore", "brcc"} /\ "and" # "add"
      BY WritesAre
    <2>2. OperandsFit(mask, a)
      BY <1>1, <2>1, FitsThree
    <2> QED
      BY <2>1, <2>2, SoundNoAdd
  <1>4. Sound(go, a, ip)
    <2>1. "gbrind" \notin Writes /\ "gbrind" \notin {"vmstore", "brcc", "add"}
      BY WritesAre
    <2>2. DOMAIN <<t>> = {1} /\ <<t>>[1] = t
      OBVIOUS
    <2>3. OperandsFit(go, a)
      BY <1>1, <2>1, <2>2, FitsNoWrite
    <2> QED
      BY <2>1, <2>3, SoundNoAdd
  <1>5. SoundSeq(link, a, ip)
    BY <1>1, MovToSound
  <1>6. V_jalr(a, ip, t) = (<<sum, mask>> \o link) \o <<go>>
    BY DEF V_jalr
  <1> HIDE DEF sum, mask, go, link
  <1>7. SoundSeq(<<sum, mask>>, a, ip)
    <2> DEFINE p == <<sum, mask>>
    <2>1. p \in Seq({sum, mask}) /\ Len(p) = 2 /\ p[1] = sum /\ p[2] = mask /\ DOMAIN p = 1 .. 2
      OBVIOUS
    <2>2. p \in [1 .. 2 -> Range(p)]
      BY <2>1 DEF Range
    <2> HIDE DEF p
    <2>3. IsSeq(p)
      BY <2>1, <2>2 DEF IsSeq
    <2>4. \A k \in 1 .. Len(p) : Sound(p[k], a, ip)
      BY <1>2, <1>3, <2>1
    <2> QED
      BY <2>3, <2>4 DEF SoundSeq, p
  <1>8. SoundSeq(<<sum, mask>> \o link, a, ip)
    BY <1>5, <1>7, SoundJoin
  <1>9. SoundSeq((<<sum, mask>> \o link) \o <<go>>, a, ip)
    BY <1>4, <1>8, SoundOne, SoundJoin
  <1> QED
    BY <1>6, <1>9

LEMMA HelperSound ==
  ASSUME NEW a, NEW ip, a.op \in HelperOps
  PROVE  SoundSeq(V_helper(a, ip, FieldS(Assemble(a), 0, 31)), a, ip)
  <1> DEFINE n == FieldS(Assemble(a), 0, 31)
             o == vconst(n)
             i == Inst("hcall", a.op, <<o>>, ip)
  <1>1. U32(n) /\ \A k \in 0 .. 31 : k \in Assemble(a) <=> BitOf(n, k)
    BY RawIs
  <1>2. V_helper(a, ip, n) = <<i>>
    BY DEF V_helper
  <1> HIDE DEF n
  <1>3. IsConst(o) /\ GetConst(o) = n
    BY <1>1, VconstIs
  <1> HIDE DEF o
  <1>4. OperandOf(o, a, ip)
    BY <1>1, <1>3 DEF OperandOf
  <1>5. "hcall" \notin Writes /\ "hcall" \notin {"vmstore", "brcc", "add"}
    BY WritesAre
  <1>6. DOMAIN <<o>> = {1} /\ <<o>>[1] = o
    OBVIOUS
  <1>7. OperandsFit(i, a)
    BY <1>4, <1>5, <1>6, FitsNoWrite
  <1>8. Sound(i, a, ip)
    BY <1>5, <1>7, SoundNoAdd
  <1> HIDE DEF i
  <1> QED
    BY <1>2, <1>8, SoundOne DEF n

LEMMA BodySound ==
  ASSUME NEW a, NEW ip, Guest(a, ip), NEW t, IsTemp(t)
  PROVE  SoundSeq(Body(a, ip, t, FieldS(Assemble(a), 0, 31)), a, ip)
  <1> DEFINE raw == FieldS(Assemble(a), 0, 31)
             c == V_code(a, ip, t, raw)
  <1>1. SoundSeq(c, a, ip)
    <2>1. CASE a.op \in ArithOps
      <3>1. c = V_arith(a, ip)
        BY <2>1 DEF V_code, ArithOps, SetccOps, ShiftImmOps, RegOps, LoadOps, StoreOps, HelperOps
      <3> QED
        BY <2>1, <3>1, ArithSound
    <2>2. CASE a.op \in SetccOps
      <3>1. c = V_setcc(a, ip)
        BY <2>2 DEF V_code, ArithOps, SetccOps, ShiftImmOps, RegOps, LoadOps, StoreOps, HelperOps
      <3> QED
        BY <3>1, SetccSound
    <2>3. CASE a.op \in LoadOps \cup StoreOps
      <3>1. c = V_access(a, ip, t)
        BY <2>3 DEF V_code, ArithOps, SetccOps, ShiftImmOps, RegOps, LoadOps, StoreOps, HelperOps
      <3> QED
        BY <2>3, <3>1, AccessSound
    <2>4. CASE a.op \in HelperOps
      <3>1. c = V_helper(a, ip, raw)
        BY <2>4 DEF V_code, ArithOps, SetccOps, ShiftImmOps, RegOps, LoadOps, StoreOps, HelperOps
      <3> QED
        BY <2>4, <3>1, HelperSound
    <2>5. CASE a.op \in {"lui", "auipc", "jal"}
      <3>1. c \in {MovTo(a, a.imm, ip), MovTo(a, AddU32(a.imm, ip), ip), MovTo(a, ip + 4, ip)}
        BY <2>5 DEF V_code, ArithOps, SetccOps, ShiftImmOps, RegOps, LoadOps, StoreOps, HelperOps
      <3>2. AddU32(a.imm, ip) = AddU32(ip, a.imm)
        BY GuestIs, AddIs
      <3>3. OperandOf(vconst(a.imm), a, ip) /\ OperandOf(vconst(AddU32(a.imm, ip)), a, ip)
            /\ OperandOf(vconst(ip + 4), a, ip)
        BY <3>2, OperandsOf
      <3> QED
        BY <3>1, <3>3, MovToSound
    <2>6. CASE a.op = "jalr"
      <3>1. c = V_jalr(a, ip, t)
        BY <2>6 DEF V_code, ArithOps, SetccOps, ShiftImmOps, RegOps, LoadOps, StoreOps, HelperOps
      <3> QED
        BY <3>1, JalrSound
    <2>7. CASE a.op \notin ArithOps \cup SetccOps \cup LoadOps \cup StoreOps \cup HelperOps
                   \cup {"lui", "auipc", "jal", "jalr"}
      <3>1. c = <<>>
        BY <2>7 DEF V_code
      <3> QED
        BY <3>1, SoundNone
    <2> QED
      BY <2>1, <2>2, <2>3, <2>4, <2>5, <2>6, <2>7
  <1> HIDE DEF c
  <1> QED
    BY <1>1, PreSideeffSound, SoundJoin DEF Body, c

\* The jumps that close a block.
LEMMA JumpsSound ==
  ASSUME NEW a, NEW ip, Guest(a, ip)
  PROVE  /\ Sound(Inst("br", "none", <<>>, ip), a, ip)
         /\ \A to : Sound(Gbr(to, ip), a, ip)
         /\ \A cc : Sound(Inst("brcc", cc, <<gprop(a.rs1, I32), gprop(a.rs2, I32)>>, ip), a, ip)
  <1>1. /\ "br" \notin Writes /\ "br" \notin {"vmstore", "brcc", "add"}
        /\ "gbr" \notin Writes /\ "gbr" \notin {"vmstore", "brcc", "add"}
        /\ "brcc" \notin Writes /\ "brcc" \notin {"vmstore", "add"}
    BY WritesAre
  <1>2. \A k \in DOMAIN <<>> : FALSE
    OBVIOUS
  <1>3. Sound(Inst("br", "none", <<>>, ip), a, ip)
    <2>1. OperandsFit(Inst("br", "none", <<>>, ip), a)
      BY <1>1, <1>2, FitsNoWrite
    <2> QED
      BY <1>1, <2>1, SoundNoAdd
  <1>4. ASSUME NEW to PROVE Sound(Gbr(to, ip), a, ip)
    <2> DEFINE x == vconst(to)
    <2> HIDE DEF x
    <2>1. OperandsFit(Inst("gbr", x, <<>>, ip), a)
      BY <1>1, <1>2, FitsNoWrite
    <2>2. Sound(Inst("gbr", x, <<>>, ip), a, ip)
      BY <1>1, <2>1, SoundNoAdd
    <2> QED
      BY <2>2 DEF Gbr, x
  <1>5. ASSUME NEW cc
        PROVE  Sound(Inst("brcc", cc, <<gprop(a.rs1, I32), gprop(a.rs2, I32)>>, ip), a, ip)
    <2> DEFINE s == gprop(a.rs1, I32)
               t == gprop(a.rs2, I32)
    <2>1. OperandOf(s, a, ip) /\ OperandOf(t, a, ip) /\ Holds(s, a.rs1) /\ Holds(t, a.rs2)
      BY OperandsOf, GuestIs, GpropIs
    <2> HIDE DEF s, t
    <2>2. DOMAIN <<s, t>> = {1, 2} /\ <<s, t>>[1] = s /\ <<s, t>>[2] = t
      OBVIOUS
    <2>3. OperandsFit(Inst("brcc", cc, <<s, t>>, ip), a)
      BY <1>1, <2>1, <2>2, FitsNoWrite
    <2>4. Sound(Inst("brcc", cc, <<s, t>>, ip), a, ip)
      BY <1>1, <2>3, SoundNoAdd
    <2> QED
      BY <2>4 DEF s, t
  <1> QED
    BY <1>3, <1>4, <1>5

-----------------------------------------------------------------------------
(* Regions with operands of the program *)

\* Every instruction of reg was made with operands of its guest instruction.
Fit(reg) ==
  /\ DOMAIN reg = {"insts", "ring", "bring", "succs", "locals"}
  /\ IsSeq(reg.insts)
  /\ \A n \in 1 .. Len(reg.insts) : OperandsFit(reg.insts[n], AsmAt(reg.insts[n].at))

\* q is such a region and has as many temporaries as reg.
FitFrom(q, reg) == Fit(q) /\ q.locals = reg.locals

LEMMA InsertFit ==
  ASSUME NEW reg, Fit(reg), NEW x, NEW i, OperandsFit(i, AsmAt(i.at))
  PROVE  FitFrom(Insert(reg, x, i), reg)
  <1> DEFINE q == Insert(reg, x, i)
             s == reg.insts
             m == Len(s)
  <1>1. DOMAIN q = {"insts", "ring", "bring", "succs", "locals"} /\ q.insts = Append(s, i)
        /\ q.locals = reg.locals
    BY DEF Insert, Fit
  <1>2. IsSeq(s) /\ \A n \in 1 .. m : OperandsFit(s[n], AsmAt(s[n].at))
    BY DEF Fit
  <1> HIDE DEF q, s
  <1>3. /\ IsSeq(Append(s, i)) /\ m \in Nat /\ Len(Append(s, i)) = m + 1
        /\ Append(s, i)[m + 1] = i /\ \A k \in 1 .. m : Append(s, i)[k] = s[k]
    BY <1>2, AppendSeq
  <1> HIDE DEF m
  <1>4. ASSUME NEW n \in 1 .. m + 1
        PROVE  OperandsFit(Append(s, i)[n], AsmAt(Append(s, i)[n].at))
    <2>1. n = m + 1 \/ n \in 1 .. m
      BY <1>3
    <2> QED
      BY <1>2, <1>3, <2>1
  <1> QED
    BY <1>1, <1>3, <1>4 DEF Fit, FitFrom, q

LEMMA CreateFit ==
  ASSUME NEW reg, Fit(reg), NEW x, NEW i, NEW ip, Sound(i, AsmAt(ip), ip)
  PROVE  FitFrom(Create(reg, x, i), reg)
  <1> DEFINE n == Len(reg.insts) + 1
             mov == Inst("mov", "none", FoldsTo(i), i.at)
             made == Insert(reg, x, Canonical(i))
             moved == Insert(made, n, mov)
             q == [moved EXCEPT !.ring = Unlink(@, n)]
  <1>1. Create(reg, x, i) = IF FoldsTo(i) = <<>> THEN made ELSE q
    BY DEF Create
  <1>2. FoldsTo(i) # <<>> => Kept(i) = mov
    BY DEF Kept
  <1>3. OperandsFit(Canonical(i), AsmAt(Canonical(i).at)) /\ OperandsFit(Kept(i), AsmAt(Kept(i).at))
    BY DEF Sound
  <1>4. FitFrom(made, reg)
    BY <1>3, InsertFit
  <1> HIDE DEF made, mov
  <1>5. FoldsTo(i) # <<>> => FitFrom(moved, made)
    BY <1>2, <1>3, <1>4, InsertFit DEF FitFrom
  <1> HIDE DEF moved
  <1>6. FoldsTo(i) # <<>> => FitFrom(q, reg)
    <2> SUFFICES ASSUME FoldsTo(i) # <<>> PROVE FitFrom(q, reg)
      OBVIOUS
    <2>1. DOMAIN moved = {"insts", "ring", "bring", "succs", "locals"} /\ moved.locals = reg.locals
      BY <1>4, <1>5 DEF FitFrom, Fit
    <2>2. DOMAIN q = DOMAIN moved /\ q.insts = moved.insts /\ q.locals = moved.locals
      BY <2>1
    <2> HIDE DEF q
    <2> QED
      BY <1>5, <2>1, <2>2 DEF FitFrom, Fit
  <1> QED
    BY <1>1, <1>4, <1>6

LEMMA CreateAllFit ==
  ASSUME NEW reg, Fit(reg), NEW x, NEW body, NEW ip, SoundSeq(body, AsmAt(ip), ip)
  PROVE  FitFrom(CreateAll(reg, x, body), reg)
  <1> DEFINE m == Len(body)
  <1>0. m \in Nat /\ \A k \in 1 .. m : Sound(body[k], AsmAt(ip), ip)
    BY AppendSeq DEF SoundSeq
  <1>1. PICK made : Builds(made, m, reg, x, body) /\ CreateAll(reg, x, body) = made[m]
    BY <1>0, CreateAllDef
  <1> HIDE DEF m
  <1> DEFINE S == {n \in Nat : n <= m => FitFrom(made[n], reg)}
  <1>2. 0 \in S
    BY <1>1 DEF Builds, FitFrom
  <1>3. ASSUME NEW n \in Nat, n \in S
        PROVE  n + 1 \in S
    <2> SUFFICES ASSUME n + 1 <= m PROVE FitFrom(made[n + 1], reg)
      OBVIOUS
    <2>1. FitFrom(made[n], reg)
      BY <1>0, <1>3
    <2>2. n + 1 \in 1 .. m /\ (n + 1) - 1 = n
      BY <1>0
    <2>3. made[n + 1] = Create(made[n], x, body[n + 1])
      BY <1>1, <2>2 DEF Builds
    <2>4. FitFrom(Create(made[n], x, body[n + 1]), made[n])
      BY <1>0, <2>1, <2>2, CreateFit DEF FitFrom
    <2> QED
      BY <2>1, <2>3, <2>4 DEF FitFrom
  <1>4. Nat \subseteq S
    <2> HIDE DEF S
    <2> QED
      BY <1>2, <1>3, NatInd
  <1>5. FitFrom(made[m], reg)
    BY <1>0, <1>4
  <1> QED
    BY <1>1, <1>5

\* Blocks, their successors and the count of temporaries are beside it.
LEMMA FitApart ==
  ASSUME NEW reg, Fit(reg)
  PROVE  /\ \A b, s : FitFrom(AddSucc(reg, b, s), reg)
         /\ FitFrom(CreateBlock(reg), reg)
         /\ \A n : Fit([reg EXCEPT !.locals = n]) /\ [reg EXCEPT !.locals = n].locals = n
  <1>1. DOMAIN reg = {"insts", "ring", "bring", "succs", "locals"}
    BY DEF Fit
  <1>2. ASSUME NEW b, NEW s PROVE FitFrom(AddSucc(reg, b, s), reg)
    <2> DEFINE q == AddSucc(reg, b, s)
    <2>1. DOMAIN q = DOMAIN reg /\ q.insts = reg.insts /\ q.locals = reg.locals
      BY <1>1 DEF AddSucc
    <2> HIDE DEF q
    <2> QED
      BY <2>1 DEF FitFrom, Fit, q
  <1>3. FitFrom(CreateBlock(reg), reg)
    <2> DEFINE q == CreateBlock(reg)
    <2>1. DOMAIN q = DOMAIN reg /\ q.insts = reg.insts /\ q.locals = reg.locals
      BY <1>1 DEF CreateBlock
    <2> HIDE DEF q
    <2> QED
      BY <2>1 DEF FitFrom, Fit, q
  <1>4. ASSUME NEW n PROVE Fit([reg EXCEPT !.locals = n]) /\ [reg EXCEPT !.locals = n].locals = n
    <2> DEFINE q == [reg EXCEPT !.locals = n]
    <2>1. DOMAIN q = DOMAIN reg /\ q.insts = reg.insts /\ q.locals = n
      BY <1>1
    <2> HIDE DEF q
    <2> QED
      BY <2>1 DEF Fit, q
  <1> QED
    BY <1>2, <1>3, <1>4

LEMMA MakeGBrFit ==
  ASSUME NEW reg, Fit(reg), NEW b, NEW to, NEW ip, Guest(AsmAt(ip), ip)
  PROVE  FitFrom(MakeGBr(reg, b, to, ip), reg)
  <1> DEFINE p == Create(reg, -b, Inst("br", "none", <<>>, ip))
             q == Create(reg, -b, Gbr(to, ip))
  <1>1. FitFrom(p, reg) /\ FitFrom(q, reg)
    BY JumpsSound, CreateFit
  <1>2. MakeGBr(reg, b, to, ip) = IF ip2bb(to) # 0 THEN AddSucc(p, b, ip2bb(to)) ELSE q
    BY DEF MakeGBr
  <1> HIDE DEF p, q
  <1>3. FitFrom(AddSucc(p, b, ip2bb(to)), p)
    BY <1>1, FitApart DEF FitFrom
  <1> QED
    BY <1>1, <1>2, <1>3 DEF FitFrom

LEMMA MakeTargetFit ==
  ASSUME NEW reg, Fit(reg), NEW to, NEW ip, Guest(AsmAt(ip), ip)
  PROVE  FitFrom(MakeTarget(reg, to, ip), reg)
  <1> DEFINE made == CreateBlock(reg)
             q == Create(made, -NumBlocks(made), Gbr(to, ip))
  <1>1. MakeTarget(reg, to, ip) = IF ip2bb(to) # 0 THEN reg ELSE q
    BY DEF MakeTarget
  <1>2. FitFrom(made, reg)
    BY FitApart
  <1> HIDE DEF made
  <1>3. FitFrom(q, made)
    BY <1>2, JumpsSound, CreateFit DEF FitFrom
  <1> HIDE DEF q
  <1> QED
    BY <1>1, <1>2, <1>3 DEF FitFrom

LEMMA TranslateBrccFit ==
  ASSUME NEW reg, Fit(reg), NEW b, NEW ip, Guest(AsmAt(ip), ip)
  PROVE  FitFrom(TranslateBrcc(reg, b, AsmAt(ip), ip), reg)
  <1> DEFINE i == AsmAt(ip)
             jump == AddU32(ip, i.imm)
             withF == MakeTarget(reg, ip + 4, ip)
             withT == MakeTarget(withF, jump, ip)
             brcc == Inst("brcc", Cc(i.op), <<gprop(i.rs1, I32), gprop(i.rs2, I32)>>, ip)
             src == Create(withT, -b, brcc)
             t == TargetBlock(withT, jump)
             f == TargetBlock(withF, ip + 4)
             one == AddSucc(src, b, t)
             two == AddSucc(one, b, f)
  <1>1. TranslateBrcc(reg, b, i, ip) = two
    BY DEF TranslateBrcc
  <1>2. Sound(brcc, i, ip)
    BY JumpsSound
  <1>3. FitFrom(withF, reg)
    BY MakeTargetFit
  <1> HIDE DEF brcc, withF, jump, f
  <1>4. FitFrom(withT, withF)
    BY <1>3, MakeTargetFit DEF FitFrom
  <1> HIDE DEF withT, t
  <1>5. FitFrom(src, withT)
    BY <1>2, <1>4, CreateFit DEF FitFrom
  <1> HIDE DEF src
  <1>6. FitFrom(one, src)
    BY <1>5, FitApart DEF FitFrom
  <1> HIDE DEF one
  <1>7. FitFrom(two, one)
    BY <1>6, FitApart DEF FitFrom
  <1> HIDE DEF two
  <1> QED
    BY <1>1, <1>3, <1>4, <1>5, <1>6, <1>7 DEF FitFrom

\* Temporaries have numbers of 16 bits.
LEMMA TranslateInsnFit ==
  ASSUME NEW reg, Fit(reg), NEW b, NEW ip, Guest(AsmAt(ip), ip),
         reg.locals \in Nat, NumGlobals + reg.locals \in U16
  PROVE  LET a == AsmAt(ip)
             q == TranslateInsn(reg, b, a, ip, FieldS(Assemble(a), 0, 31))
         IN  Fit(q) /\ q.locals \in Nat /\ q.locals <= reg.locals + 1
  <1> DEFINE a == AsmAt(ip)
             raw == FieldS(Assemble(a), 0, 31)
             t == vtemp(reg)
             body == Body(a, ip, t, raw)
             q == CreateAll(reg, -b, body)
             n == q.locals + Temps(a)
             made == [q EXCEPT !.locals = n]
  <1>1. TranslateInsn(reg, b, a, ip, raw) = TranslateBranch(made, b, a, ip)
    BY DEF TranslateInsn, Body
  <1>2. IsTemp(t)
    <2>1. NumGlobals + reg.locals >= NumGlobals
      BY DEF NumGlobals
    <2> QED
      BY <2>1, TempIs DEF vtemp
  <1>3. SoundSeq(body, a, ip)
    BY <1>2, BodySound
  <1> HIDE DEF body
  <1>4. FitFrom(q, reg)
    BY <1>3, CreateAllFit
  <1> HIDE DEF q
  <1>5. n \in Nat /\ n <= reg.locals + 1
    BY <1>4 DEF FitFrom, Temps
  <1> HIDE DEF n
  <1>6. Fit(made) /\ made.locals = n
    BY <1>4, FitApart DEF FitFrom
  <1> HIDE DEF made
  <1>7. FitFrom(TranslateBranch(made, b, a, ip), made)
    <2>1. FitFrom(MakeGBr(made, b, AddU32(ip, a.imm), ip), made)
      BY <1>6, MakeGBrFit
    <2>2. FitFrom(TranslateBrcc(made, b, a, ip), made)
      BY <1>6, TranslateBrccFit
    <2>3. FitFrom(made, made)
      BY <1>6 DEF FitFrom
    <2> HIDE DEF a
    <2>4. TranslateBranch(made, b, a, ip) \in
            {MakeGBr(made, b, AddU32(ip, a.imm), ip), TranslateBrcc(made, b, a, ip), made}
      BY DEF TranslateBranch
    <2> QED
      BY <2>1, <2>2, <2>3, <2>4
  <1> QED
    BY <1>1, <1>5, <1>6, <1>7 DEF FitFrom

-----------------------------------------------------------------------------
(* Operands *)

\* While the region is translated, and until selection rewrites it, it has
\* operands of the program; no more temporaries were made than instructions
\* translated.
OprInv ==
  /\ IsSeq(visited)
  /\ phase = "translate" =>
       /\ Fit(R) /\ R.locals \in Nat /\ R.locals <= (insn_ip - Entry) \div 4
       /\ (insn_ip - Entry) \div 4 < TB_MAX_INSNS
  /\ phase = "select" /\ visited = <<>> => Fit(R)

\* The instruction translated next.
LEMMA NextGuest ==
  ASSUME DInv, phase = "translate", AsmAt(insn_ip).op # "illegal"
  PROVE  Guest(AsmAt(insn_ip), insn_ip)
  <1> DEFINE d == insn_ip - Entry
             L == Len(prog)
             k == d \div 4 + 1
  <1>0. MinInt = -2147483648 /\ MaxInt = 2147483647
    BY SMT DEF MinInt, MaxInt
  <1>1. Entry \in Int /\ Entry >= MinInt
    <2>1. MinInt \in Int /\ MaxInt \in Int
      BY SMT DEF MinInt, MaxInt
    <2>2. Entry \in MinInt .. MaxInt
      BY FrontendAssumption, SMT
    <2> QED
      BY <2>1, <2>2
  <1>2. prog \in Seq(Range(prog)) /\ Entry + 4 * L <= MaxInt
    BY FrontendAssumption, SMT DEF DInv
  <1>a. \A j \in DOMAIN prog : Wellformed(prog[j])
    BY FrontendAssumption, SMT DEF DInv
  <1>b. L \in Nat /\ DOMAIN prog = 1 .. L
    BY <1>2
  <1>3. insn_ip \in Int /\ d \in Nat /\ d < 4 * L /\ d % 4 = 0
    <2>1. BoundaryIp = Entry + 4 * L
      BY DEF BoundaryIp
    <2>2. insn_ip \in Int /\ insn_ip >= Entry /\ (insn_ip - Entry) % 4 = 0 /\ insn_ip < BoundaryIp
      BY DEF DInv
    <2> HIDE DEF L
    <2> QED
      BY <1>1, <1>b, <2>1, <2>2
  <1>4. AsmAt(insn_ip) = prog[k]
    BY DEF AsmAt
  <1>5. insn_ip = Entry + d
    BY <1>1, <1>3
  <1> HIDE DEF d, L
  <1>6. d \div 4 \in Nat /\ d \div 4 < L /\ d + 4 <= 4 * L
    BY <1>b, <1>3
  <1>7. k \in 1 .. L
    BY <1>b, <1>6
  <1>8. Wellformed(prog[k])
    BY <1>a, <1>b, <1>7
  <1>9. U32(insn_ip) /\ U32(insn_ip + 4)
    BY <1>0, <1>1, <1>2, <1>b, <1>3, <1>5, <1>6, SMT DEF U32
  <1> QED
    BY <1>4, <1>8, <1>9 DEF Guest

LEMMA FitLater ==
  ASSUME prog' = prog, Fit(R')
  PROVE  Fit(R)'
  <1>1. \A ip : AsmAt(ip)' = AsmAt(ip)
    BY DEF AsmAt
  <1> QED
    BY <1>1 DEF Fit

LEMMA OprInvInit ==
  ASSUME Init
  PROVE  OprInv
  <1>1. Fit(EmptyRegion) /\ EmptyRegion.locals = 0
    <2>1. IsSeq(<<>>) /\ Len(<<>>) = 0 /\ 1 .. 0 = {}
      BY DEF IsSeq
    <2>2. /\ DOMAIN EmptyRegion = {"insts", "ring", "bring", "succs", "locals"}
          /\ EmptyRegion.insts = <<>> /\ EmptyRegion.locals = 0
      BY DEF EmptyRegion
    <2> QED
      BY <2>1, <2>2 DEF Fit
  <1>2. FitFrom(CreateBlock(EmptyRegion), EmptyRegion)
    BY <1>1, FitApart
  <1>3. Fit(R) /\ R.locals = 0
    BY <1>1, <1>2 DEF Init, FitFrom
  <1>4. (insn_ip - Entry) \div 4 = 0 /\ 0 < TB_MAX_INSNS
    BY FrontendAssumption, SMT DEF Init
  <1>5. IsSeq(visited) /\ phase = "translate"
    BY DEF Init, IsSeq
  <1> QED
    BY <1>3, <1>4, <1>5 DEF OprInv

LEMMA TranslateOpr ==
  ASSUME DInv, ListInv, OprInv, Translate
  PROVE  OprInv'
  <1> DEFINE a == AsmAt(insn_ip)
             made == TranslateInsn(R, bb, a, insn_ip, FieldS(Assemble(a), 0, 31))
             d == (insn_ip - Entry) \div 4
  <1>1. /\ phase = "translate" /\ insn' = Insn(Word) /\ insn'.op # "illegal" /\ prog' = prog
        /\ insn_ip' = insn_ip + 4
        /\ R' = LET m == TranslateInsn(R, bb, insn', insn_ip, FieldS(Word, 0, 31))
                IN  IF Overflows(insn') THEN MakeGBr(m, bb, insn_ip + 4, insn_ip) ELSE m
        /\ IF Stops(insn') \/ Overflows(insn') THEN phase' = "select" /\ visited' = <<>>
           ELSE phase' = phase /\ visited' = visited
    BY DEF Translate, BeginPass
  <1>2. insn' = a /\ a.op # "illegal"
    BY <1>1, DecodeNext
  <1>3. Guest(a, insn_ip)
    BY <1>1, <1>2, NextGuest
  <1>4. R' = IF Overflows(insn') THEN MakeGBr(made, bb, insn_ip + 4, insn_ip) ELSE made
    BY <1>1, <1>2 DEF Word
  <1>5. /\ Fit(R) /\ R.locals \in Nat /\ R.locals <= d /\ d < TB_MAX_INSNS
    BY <1>1 DEF OprInv
  <1>6. /\ insn_ip \in Int /\ Entry \in Int /\ TB_MAX_INSNS \in Nat /\ TB_MAX_INSNS <= 65504
        /\ d \in Int /\ (insn_ip - Entry) % 4 = 0
    BY FrontendAssumption, SMT DEF DInv
  <1>7. NumGlobals + R.locals \in U16
    <2> DEFINE n == R.locals
    <2>1. n \in Nat /\ n <= d /\ d < TB_MAX_INSNS
      BY <1>5
    <2> HIDE DEF d, n
    <2>2. n \in Nat /\ n <= 65503
      BY <1>6, <2>1, SMT
    <2>3. NumGlobals + n \in U16
      BY <2>2, SMT DEF U16, NumGlobals
    <2> QED
      BY <2>3 DEF n
  <1>8. Fit(made) /\ made.locals \in Nat /\ made.locals <= R.locals + 1
    <2> HIDE DEF d
    <2> QED
      BY <1>3, <1>5, <1>7, TranslateInsnFit
  <1> HIDE DEF made
  <1>9. FitFrom(MakeGBr(made, bb, insn_ip + 4, insn_ip), made)
    BY <1>3, <1>8, MakeGBrFit
  <1>10. Fit(R') /\ R'.locals = made.locals
    BY <1>4, <1>8, <1>9 DEF FitFrom
  <1>11. Fit(R)'
    BY <1>1, <1>10, FitLater
  <1>12. IsSeq(visited)'
    <2>1. IsSeq(<<>>) /\ IsSeq(visited)
      BY DEF IsSeq, OprInv
    <2> QED
      BY <1>1, <2>1 DEF IsSeq
  <1>13. (insn_ip' - Entry) \div 4 = d + 1
    BY <1>1, <1>6, SMT
  <1>14. phase' = "translate" => d + 1 < TB_MAX_INSNS
    <2> SUFFICES ASSUME phase' = "translate" PROVE d + 1 < TB_MAX_INSNS
      OBVIOUS
    <2>1. ~RangeEnds(insn_ip + 4)
      BY <1>1 DEF Overflows
    <2>2. (insn_ip' - Entry) \div 4 # TB_MAX_INSNS
      BY <1>1, <2>1 DEF RangeEnds
    <2> HIDE DEF d
    <2> QED
      BY <1>5, <1>6, <1>13, <2>2, SMT
  <1> HIDE DEF d
  <1>15. R'.locals \in Nat /\ R'.locals <= d + 1
    BY <1>5, <1>6, <1>8, <1>10, SMT
  <1>16. /\ phase' = "translate" =>
              /\ Fit(R)' /\ R'.locals \in Nat /\ R'.locals <= (insn_ip' - Entry) \div 4
              /\ (insn_ip' - Entry) \div 4 < TB_MAX_INSNS
    BY <1>11, <1>13, <1>14, <1>15
  <1> QED
    BY <1>11, <1>12, <1>16 DEF OprInv

LEMMA OprInvNext ==
  ASSUME DInv, ListInv, OprInv, [Next]_vars
  PROVE  OprInv'
  <1>0. \A v : IsSeq(v) => IsSeq(Append(v, it)) /\ Append(v, it) # <<>>
    <2> TAKE v
    <2> HAVE IsSeq(v)
    <2>1. IsSeq(Append(v, it)) /\ Len(v) \in Nat /\ Len(Append(v, it)) = Len(v) + 1
      BY AppendSeq
    <2>2. Len(<<>>) = 0
      OBVIOUS
    <2> QED
      BY <2>1, <2>2
  <1>1. CASE Translate
    BY <1>1, TranslateOpr
  <1>2. CASE TranslateIllegal
    BY <1>2 DEF TranslateIllegal, OprInv, IsSeq
  <1>3. CASE PassVisit
    <2>1. visited' = Append(visited, it) /\ phase' = phase /\ phase # "translate"
      BY <1>3 DEF PassVisit, Passes
    <2>2. IsSeq(visited') /\ visited' # <<>>
      BY <1>0, <2>1 DEF OprInv
    <2> QED
      BY <2>1, <2>2 DEF OprInv, IsSeq
  <1>4. CASE PassNextBlock
    <2>1. UNCHANGED <<prog, phase, R, visited>> /\ phase # "translate"
      BY <1>4 DEF PassNextBlock, Passes
    <2>2. Fit(R) => Fit(R)'
      BY <2>1, FitLater
    <2> QED
      BY <2>1, <2>2 DEF OprInv, IsSeq
  <1>5. CASE PassEnd
    <2>1. visited' = <<>> /\ phase' \in {"regalloc", "emit"}
      BY <1>5 DEF PassEnd, BeginPass
    <2> QED
      BY <2>1 DEF OprInv, IsSeq
  <1>6. CASE EmitInst
    <2>1. visited' = Append(visited, it) /\ phase' = "emit"
      BY <1>6 DEF EmitInst
    <2>2. IsSeq(visited')
      BY <1>0, <2>1 DEF OprInv
    <2> QED
      BY <2>1, <2>2 DEF OprInv, IsSeq
  <1>7. CASE EmitEnd \/ Leave
    <2>1. visited' = visited /\ phase' \in {"run", "left"}
      BY <1>7 DEF EmitEnd, Leave
    <2> QED
      BY <2>1 DEF OprInv, IsSeq
  <1>8. CASE RunLabel \/ RunOp \/ RunJmp \/ RunJccTaken \/ RunJccNot \/ Finished \/ UNCHANGED vars
    <2>1. UNCHANGED <<prog, phase, insn_ip, R, visited>>
      BY <1>8 DEF RunLabel, RunOp, RunJmp, RunJccTaken, RunJccNot, GoTo, Finished, vars
    <2>2. Fit(R) => Fit(R)'
      BY <2>1, FitLater
    <2> QED
      BY <2>1, <2>2 DEF OprInv, IsSeq
  <1> QED
    BY <1>1, <1>2, <1>3, <1>4, <1>5, <1>6, <1>7, <1>8 DEF Next

LEMMA OprInvSound ==
  ASSUME ListInv, OprInv
  PROVE  OperandsMatchAsm
  <1> SUFFICES ASSUME phase = "select", visited = <<>>, NEW n \in Live
               PROVE  OperandsFit(R.insts[n], AsmAt(R.insts[n].at))
    BY DEF OperandsMatchAsm
  <1>1. PICK B : Shape(R, B) /\ Len(B) > 0
    BY DEF ListInv, Translating, Whole
  <1>2. Listed(B, n)
    BY <1>1, AllCodeIs DEF Gathers, Live
  <1>3. n \in 1 .. Len(R.insts)
    BY <1>1, <1>2, InList DEF Listed
  <1>4. Fit(R)
    BY DEF OprInv
  <1> QED
    BY <1>3, <1>4 DEF Fit

\* Whatever the guest's code and wherever it is, the IR the translator makes
\* of an instruction has its registers, its constants and its addresses, and
\* writes nothing but its destination, temporaries and CPUState::ip: operands
\* survive their packing into VOperand with their sign and all their bits,
\* and constant folding replaces none by another.
THEOREM OperandsAreRight == Spec => []OperandsMatchAsm
  <1>1. Init => DInv /\ ListInv /\ OprInv
    BY DInvInit, ListInvInit, OprInvInit
  <1>2. DInv /\ ListInv /\ OprInv /\ [Next]_vars => (DInv /\ ListInv /\ OprInv)'
    BY DInvNext, ListInvNext, OprInvNext
  <1>3. DInv /\ ListInv /\ OprInv => OperandsMatchAsm
    BY OprInvSound
  <1> QED
    BY <1>1, <1>2, <1>3, PTL DEF Spec
=============================================================================
