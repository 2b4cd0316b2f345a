--------------------------- MODULE LoweringProofs ---------------------------
(***************************************************************************)
(* The compiler's path from a guest instruction to host operations agrees  *)
(* with the interpreter for every word width, every set of registers and   *)
(* every value of registers, immediates and memory.                        *)
(*                                                                         *)
(* Executing one operation is a function, Exec, on machine states.  Reach  *)
(* says that a sequence of operations, each of them well formed where it   *)
(* is executed, leads from one state to another.  The IR of an instruction *)
(* reaches what the interpreter computes; folding an IR instruction does   *)
(* not change what it does; and the host operations selected for an IR     *)
(* instruction reach what it does, but for temporaries of their own.       *)
(***************************************************************************)
EXTENDS Lowering, Recursion

-----------------------------------------------------------------------------
(* Powers of two *)

LEMMA Pow2Def ==
  /\ Pow2 \in [Nat -> Nat]
  /\ Pow2[0] = 1
  /\ \A n \in Nat : Pow2[n + 1] = 2 * Pow2[n]
  <1> DEFINE step == [k \in Nat |-> [x \in Nat |-> 2 * x]]
             F(g) == [n \in Nat |-> IF n = 0 THEN 1 ELSE 2 * g[n - 1]]
             one == 1
  <1>1. step \in [Nat -> [Nat -> Nat]] /\ one \in Nat
    OBVIOUS
  <1>2. PICK g : Recursive(g, Nat, one, step)
    <2> HIDE DEF step, one
    <2> QED
      BY <1>1, NatRec
  <1>3. g \in [Nat -> Nat] /\ g[0] = 1 /\ \A n \in Nat : g[n + 1] = 2 * g[n]
    BY <1>2 DEF Recursive
  <1>4. g = F(g)
    <2>1. ASSUME NEW n \in Nat
          PROVE  g[n] = IF n = 0 THEN 1 ELSE 2 * g[n - 1]
      <3>1. CASE n = 0
        BY <1>3, <3>1
      <3>2. CASE n # 0
        <4>1. n - 1 \in Nat /\ (n - 1) + 1 = n
          BY <3>2
        <4> QED
          BY <1>3, <3>2, <4>1
      <3> QED
        BY <3>1, <3>2
    <2> QED
      BY <1>3, <2>1
  <1>5. Pow2 = F(Pow2)
    <2>1. Pow2 = CHOOSE h : h = F(h)
      BY DEF Pow2
    <2> HIDE DEF F
    <2> QED
      BY <1>4, <2>1
  <1>6. Pow2[0] = 1
    BY <1>5
  <1>7. \A n \in Nat : Pow2[n + 1] = 2 * Pow2[n]
    <2> TAKE n \in Nat
    <2>1. n + 1 \in Nat /\ n + 1 # 0 /\ (n + 1) - 1 = n
      OBVIOUS
    <2>2. Pow2[n + 1] = F(Pow2)[n + 1]
      <3> HIDE DEF F
      <3> QED
        BY <1>5
    <2> QED
      BY <2>1, <2>2
  <1>8. \A n \in Nat : Pow2[n] \in Nat
    <2> DEFINE S == {n \in Nat : Pow2[n] \in Nat}
    <2>1. 0 \in S
      BY <1>6
    <2>2. ASSUME NEW n \in Nat, n \in S
          PROVE  n + 1 \in S
      BY <1>7, <2>2
    <2>3. Nat \subseteq S
      <3> HIDE DEF S
      <3> QED
        BY <2>1, <2>2, NatInd
    <2> QED
      BY <2>3
  <1>9. DOMAIN Pow2 = Nat /\ Pow2 = [n \in Nat |-> Pow2[n]]
    BY <1>5
  <1> QED
    BY <1>6, <1>7, <1>8, <1>9

LEMMA Pow2Pos ==
  ASSUME NEW n \in Nat
  PROVE  Pow2[n] \in Nat /\ Pow2[n] > 0
  <1> DEFINE S == {k \in Nat : Pow2[k] > 0}
  <1>1. 0 \in S
    BY Pow2Def
  <1>2. ASSUME NEW k \in Nat, k \in S
        PROVE  k + 1 \in S
    <2>1. Pow2[k] \in Nat /\ Pow2[k + 1] = 2 * Pow2[k]
      BY Pow2Def
    <2> QED
      BY <1>2, <2>1
  <1>3. Nat \subseteq S
    <2> HIDE DEF S
    <2> QED
      BY <1>1, <1>2, NatInd
  <1> QED
    BY <1>3, Pow2Def

\* A larger power is a multiple of a smaller one.
LEMMA Pow2Multiple ==
  ASSUME NEW j \in Nat, NEW d \in Nat
  PROVE  \E m \in Nat : m > 0 /\ Pow2[j + d] = Pow2[j] * m
  <1> DEFINE S == {e \in Nat : \E m \in Nat : m > 0 /\ Pow2[j + e] = Pow2[j] * m}
  <1>1. 0 \in S
    <2>1. Pow2[j + 0] = Pow2[j] * 1
      BY Pow2Def
    <2> QED
      BY <2>1
  <1>2. ASSUME NEW e \in Nat, e \in S
        PROVE  e + 1 \in S
    <2>1. PICK m \in Nat : m > 0 /\ Pow2[j + e] = Pow2[j] * m
      BY <1>2
    <2>2. j + e \in Nat /\ (j + e) + 1 = j + (e + 1)
      OBVIOUS
    <2>3. Pow2[j + (e + 1)] = 2 * Pow2[j + e]
      BY <2>2, Pow2Def
    <2>4. Pow2[j] \in Nat
      BY Pow2Def
    <2>5. Pow2[j + (e + 1)] = Pow2[j] * (2 * m) /\ 2 * m \in Nat /\ 2 * m > 0
      BY <2>1, <2>3, <2>4
    <2> QED
      BY <2>5
  <1>3. Nat \subseteq S
    <2> HIDE DEF S
    <2> QED
      BY <1>1, <1>2, NatInd
  <1> QED
    BY <1>3

-----------------------------------------------------------------------------
(* Arithmetic of words *)

\* Division with remainder.
LEMMA Division ==
  ASSUME NEW n \in Int, n > 0, NEW a \in Int
  PROVE  /\ a \div n \in Int /\ a % n \in Nat
         /\ a = n * (a \div n) + (a % n)
         /\ 0 <= a % n /\ a % n < n
  <1>1. a \div n \in Int
    BY SMT
  <1>2. a = n * (a \div n) + (a % n)
    BY SMT
  <1>3. a % n \in Nat /\ 0 <= a % n /\ a % n < n
    BY SMT
  <1> QED
    BY <1>1, <1>2, <1>3

\* It is unique.
LEMMA DivisionUnique ==
  ASSUME NEW n \in Int, n > 0, NEW q \in Int, NEW r \in Int, 0 <= r, r < n, NEW a \in Int, a = n * q + r
  PROVE  a \div n = q /\ a % n = r
  <1>1. (n * q + r) \div n = q
    BY SMT
  <1>2. (n * q + r) % n = r
    BY SMT
  <1> QED
    BY <1>1, <1>2

LEMMA WordFacts ==
  /\ WordBits \in Nat /\ WordBits > 0
  /\ WordSize \in Nat /\ WordSize >= 2
  /\ WordSize = 2 * Pow2[WordBits - 1]
  <1>1. WordBits \in Nat /\ WordBits > 0
    BY LoweringAssumption
  <1>2. WordBits - 1 \in Nat /\ (WordBits - 1) + 1 = WordBits
    BY <1>1
  <1>3. WordSize = 2 * Pow2[WordBits - 1]
    BY <1>2, Pow2Def DEF WordSize
  <1>4. Pow2[WordBits - 1] \in Nat /\ Pow2[WordBits - 1] > 0
    BY <1>2, Pow2Pos
  <1> QED
    BY <1>1, <1>3, <1>4

LEMMA WordRange == ASSUME NEW a PROVE a \in Word <=> a \in Nat /\ a < WordSize
  BY WordFacts DEF Word

LEMMA ModWord ==
  ASSUME NEW a \in Int
  PROVE  a % WordSize \in Word
  <1>1. WordSize \in Int /\ WordSize > 0
    BY WordFacts
  <1>2. a % WordSize \in Nat /\ a % WordSize < WordSize
    BY <1>1, Division
  <1> QED
    BY <1>2, WordRange

LEMMA SmallMod ==
  ASSUME NEW w \in Word
  PROVE  w % WordSize = w
  <1>1. WordSize \in Int /\ WordSize > 0 /\ w \in Int /\ 0 <= w /\ w < WordSize
    BY WordFacts, WordRange
  <1>2. w = WordSize * 0 + w
    BY <1>1
  <1> QED
    BY <1>1, <1>2, DivisionUnique

LEMMA FlagWord == ASSUME NEW b PROVE Flag(b) \in Word
  <1>1. 0 \in Word /\ 1 \in Word
    BY WordFacts, WordRange
  <1> QED
    BY <1>1 DEF Flag

\* One bit of a natural number.
LEMMA BitRange ==
  ASSUME NEW a \in Nat, NEW k \in Nat
  PROVE  Bit(a, k) \in {0, 1}
  <1>1. Pow2[k] \in Int /\ Pow2[k] > 0
    BY Pow2Pos
  <1>2. a \div Pow2[k] \in Int
    BY <1>1, Division
  <1>3. Bit(a, k) \in Nat /\ Bit(a, k) < 2
    BY <1>2, Division DEF Bit
  <1> QED
    BY <1>3

LEMMA BitFnRange ==
  ASSUME NEW fn \in {"and", "or", "xor"}, NEW x \in {0, 1}, NEW y \in {0, 1}
  PROVE  BitFn(fn, x, y) \in {0, 1}
  <1>1. CASE fn = "and"
    BY <1>1 DEF BitFn
  <1>2. CASE fn = "or"
    BY <1>2 DEF BitFn
  <1>3. CASE fn = "xor"
    <2>1. BitFn(fn, x, y) = (x + y) % 2
      BY <1>3 DEF BitFn
    <2>2. x + y \in Int
      OBVIOUS
    <2>3. (x + y) % 2 \in Nat /\ (x + y) % 2 < 2
      BY <2>2, Division
    <2> QED
      BY <2>1, <2>3
  <1> QED
    BY <1>1, <1>2, <1>3

\* The loop over the bits.
LEMMA BitsDef ==
  ASSUME NEW fn \in {"and", "or", "xor"}, NEW a \in Nat, NEW b \in Nat
  PROVE  \E low \in [Nat -> Nat] :
           /\ low[0] = 0
           /\ \A k \in Nat : low[k + 1] = low[k] + Pow2[k] * BitFn(fn, Bit(a, k), Bit(b, k))
           /\ Bits(fn, a, b) = low[WordBits]
  <1> DEFINE c(k) == Pow2[k] * BitFn(fn, Bit(a, k), Bit(b, k))
             step == [k \in Nat |-> [x \in Nat |-> x + c(k)]]
             F(g) == [k \in Nat |-> IF k = 0 THEN 0 ELSE g[k - 1] + c(k - 1)]
             r == CHOOSE g : g = F(g)
             zero == 0
  <1>1. \A k \in Nat : c(k) \in Nat
    <2> TAKE k \in Nat
    <2>1. BitFn(fn, Bit(a, k), Bit(b, k)) \in {0, 1}
      BY BitRange, BitFnRange
    <2>2. Pow2[k] \in Nat
      BY Pow2Pos
    <2> QED
      BY <2>1, <2>2
  <1> HIDE DEF c
  <1>2. step \in [Nat -> [Nat -> Nat]] /\ zero \in Nat
    BY <1>1
  <1>3. PICK g : Recursive(g, Nat, zero, step)
    <2> HIDE DEF step, zero
    <2> QED
      BY <1>2, NatRec
  <1>4. g \in [Nat -> Nat] /\ g[0] = 0 /\ \A n \in Nat : g[n + 1] = g[n] + c(n)
    BY <1>3 DEF Recursive
  <1>5. g = F(g)
    <2>1. ASSUME NEW n \in Nat
          PROVE  g[n] = IF n = 0 THEN 0 ELSE g[n - 1] + c(n - 1)
      <3>1. CASE n = 0
        BY <1>4, <3>1
      <3>2. CASE n # 0
        <4>1. n - 1 \in Nat /\ (n - 1) + 1 = n
          BY <3>2
        <4> QED
          BY <1>4, <3>2, <4>1
      <3> QED
        BY <3>1, <3>2
    <2> QED
      BY <1>4, <2>1
  <1>6. r = F(r)
    <2> HIDE DEF F
    <2> QED
      BY <1>5
  <1> HIDE DEF r
  <1>7. r[0] = 0
    BY <1>6
  <1>8. \A n \in Nat : r[n + 1] = r[n] + c(n)
    <2> TAKE n \in Nat
    <2>1. n + 1 \in Nat /\ n + 1 # 0 /\ (n + 1) - 1 = n
      OBVIOUS
    <2>2. r[n + 1] = F(r)[n + 1]
      <3> HIDE DEF F
      <3> QED
        BY <1>6
    <2> QED
      BY <2>1, <2>2
  <1>9. \A n \in Nat : r[n] \in Nat
    <2> DEFINE S == {n \in Nat : r[n] \in Nat}
    <2>1. 0 \in S
      BY <1>7
    <2>2. ASSUME NEW n \in Nat, n \in S
          PROVE  n + 1 \in S
      BY <1>1, <1>8, <2>2
    <2>3. Nat \subseteq S
      <3> HIDE DEF S
      <3> QED
        BY <2>1, <2>2, NatInd
    <2> QED
      BY <2>3
  <1>10. r \in [Nat -> Nat]
    <2>1. DOMAIN r = Nat /\ r = [n \in Nat |-> r[n]]
      BY <1>6
    <2> QED
      BY <1>9, <2>1
  <1>11. Bits(fn, a, b) = r[WordBits]
    BY DEF Bits, r, c
  <1> HIDE DEF F, step
  <1> QED
    BY <1>7, <1>8, <1>10, <1>11 DEF c

LEMMA BitsWord ==
  ASSUME NEW fn \in {"and", "or", "xor"}, NEW a \in Word, NEW b \in Word
  PROVE  Bits(fn, a, b) \in Word
  <1>1. a \in Nat /\ b \in Nat
    BY WordRange
  <1>2. PICK low \in [Nat -> Nat] :
          /\ low[0] = 0
          /\ \A k \in Nat : low[k + 1] = low[k] + Pow2[k] * BitFn(fn, Bit(a, k), Bit(b, k))
          /\ Bits(fn, a, b) = low[WordBits]
    BY <1>1, BitsDef
  <1> DEFINE S == {k \in Nat : low[k] < Pow2[k]}
  <1>3. 0 \in S
    BY <1>2, Pow2Def
  <1>4. ASSUME NEW k \in Nat, k \in S
        PROVE  k + 1 \in S
    <2> DEFINE x == BitFn(fn, Bit(a, k), Bit(b, k))
    <2>1. x \in {0, 1}
      BY <1>1, BitRange, BitFnRange
    <2>2. low[k + 1] = low[k] + Pow2[k] * x
      BY <1>2
    <2> HIDE DEF x
    <2>3. Pow2[k] \in Nat /\ Pow2[k + 1] = 2 * Pow2[k] /\ low[k] \in Nat /\ low[k] < Pow2[k]
      BY <1>2, <1>4, Pow2Def
    <2>4. Pow2[k] * x <= Pow2[k] /\ Pow2[k] * x \in Nat
      BY <2>1, <2>3
    <2>5. low[k + 1] < Pow2[k + 1]
      BY <2>2, <2>3, <2>4
    <2> QED
      BY <2>5
  <1>5. Nat \subseteq S
    <2> HIDE DEF S
    <2> QED
      BY <1>3, <1>4, NatInd
  <1>6. low[WordBits] \in Nat /\ low[WordBits] < Pow2[WordBits]
    BY <1>2, <1>5, WordFacts
  <1> QED
    BY <1>2, <1>6, WordRange DEF WordSize

\* The next bit of a remainder.
LEMMA BitSplit ==
  ASSUME NEW a \in Nat, NEW k \in Nat
  PROVE  a % Pow2[k + 1] = (a % Pow2[k]) + Pow2[k] * Bit(a, k)
  <1> DEFINE p == Pow2[k]
             q == a \div p
             r == a % p
             h == q \div 2
             b == q % 2
  <1>1. p \in Int /\ p > 0 /\ Pow2[k + 1] = 2 * p
    BY Pow2Pos, Pow2Def
  <1>2. Bit(a, k) = b
    BY DEF Bit
  <1> HIDE DEF p
  <1>3. q \in Int /\ r \in Int /\ 0 <= r /\ r < p /\ a = p * q + r
    BY <1>1, Division
  <1> HIDE DEF q, r
  <1>4. h \in Int /\ b \in Int /\ 0 <= b /\ b < 2 /\ q = 2 * h + b
    BY <1>3, Division
  <1> HIDE DEF h, b
  <1>5. p * b \in Int /\ 0 <= p * b /\ p * b <= p
    <2>1. b = 0 \/ b = 1
      BY <1>4
    <2> QED
      BY <1>1, <2>1
  <1>6. p * q = (2 * p) * h + p * b
    <2>1. p * q = p * (2 * h + b)
      BY <1>4
    <2> QED
      BY <1>1, <1>4, <2>1
  <1> DEFINE P == 2 * p
             R == r + p * b
  <1>7. P \in Int /\ P > 0 /\ R \in Int /\ 0 <= R /\ R < P
    BY <1>1, <1>3, <1>5
  <1>8. a = P * h + R
    <2>1. P * h \in Int
      BY <1>1, <1>4
    <2> QED
      BY <1>1, <1>3, <1>5, <1>6, <2>1
  <1> HIDE DEF P, R
  <1>9. a % P = R
    BY <1>4, <1>7, <1>8, DivisionUnique
  <1> QED
    BY <1>1, <1>2, <1>9 DEF P, R, r, p

\* The bits of the mask of jalr: all but the lowest.
LEMMA MaskBits ==
  /\ WordSize - 2 \in Word
  /\ Bit(WordSize - 2, 0) = 0
  /\ \A k \in Nat : 0 < k /\ k < WordBits => Bit(WordSize - 2, k) = 1
  <1>1. WordSize - 2 \in Word /\ WordSize - 2 \in Nat
    BY WordFacts, WordRange
  <1>2. Bit(WordSize - 2, 0) = 0
    <2> DEFINE x == WordSize - 2
               h == Pow2[WordBits - 1]
    <2>1. h \in Int
      BY WordFacts, Pow2Pos
    <2>2. x = 2 * (h - 1) + 0
      BY <2>1, WordFacts
    <2>3. x \in Int /\ h - 1 \in Int
      BY <1>1, <2>1
    <2> HIDE DEF x, h
    <2>4. x % 2 = 0
      BY <2>2, <2>3, DivisionUnique
    <2>5. x = 1 * x + 0
      BY <2>3
    <2>6. x \div 1 = x
      BY <2>3, <2>5, DivisionUnique
    <2> QED
      BY <2>4, <2>6, Pow2Def DEF Bit, x
  <1>3. ASSUME NEW k \in Nat, 0 < k, k < WordBits
        PROVE  Bit(WordSize - 2, k) = 1
    <2> DEFINE d == WordBits - (k + 1)
    <2>1. d \in Nat /\ k + 1 \in Nat /\ (k + 1) + d = WordBits
      BY <1>3, WordFacts
    <2> HIDE DEF d
    <2>2. PICK m \in Nat : m > 0 /\ Pow2[(k + 1) + d] = Pow2[k + 1] * m
      BY <2>1, Pow2Multiple
    <2> DEFINE p == Pow2[k]
    <2>3. p \in Int /\ Pow2[k + 1] = 2 * p
      BY Pow2Pos, Pow2Def
    <2>4. p >= 2
      <3>1. k - 1 \in Nat /\ (k - 1) + 1 = k
        BY <1>3
      <3>2. p = 2 * Pow2[k - 1]
        BY <3>1, Pow2Def
      <3>3. Pow2[k - 1] \in Nat /\ Pow2[k - 1] > 0
        BY <3>1, Pow2Pos
      <3> QED
        BY <3>2, <3>3
    <2> HIDE DEF p
    <2>5. WordSize = (2 * p) * m
      BY <2>1, <2>2, <2>3 DEF WordSize
    <2> DEFINE x == WordSize - 2
               q == 2 * m - 1
               r == p - 2
    <2>6. x \in Int /\ q \in Int /\ r \in Int /\ 0 <= r /\ r < p /\ p > 0
      BY <1>1, <2>2, <2>3, <2>4
    <2>7. x = p * q + r
      <3>1. p * (2 * m - 1) = (2 * p) * m - p
        BY <2>2, <2>3
      <3> QED
        BY <2>2, <2>3, <2>5, <3>1
    <2>8. q = 2 * (m - 1) + 1 /\ m - 1 \in Int
      BY <2>2
    <2> HIDE DEF x, q, r
    <2>9. x \div p = q
      BY <2>3, <2>6, <2>7, DivisionUnique
    <2>10. q % 2 = 1
      BY <2>6, <2>8, DivisionUnique
    <2> QED
      BY <2>9, <2>10 DEF Bit, x, p
  <1> QED
    BY <1>1, <1>2, <1>3

\* The mask clears the lowest bit.
LEMMA MaskClears ==
  ASSUME NEW a \in Word
  PROVE  Bits("and", a, WordSize - 2) = a - (a % 2)
  <1> DEFINE M == WordSize - 2
  <1>1. a \in Nat /\ M \in Nat
    BY MaskBits, WordRange
  <1>2. PICK low \in [Nat -> Nat] :
          /\ low[0] = 0
          /\ \A k \in Nat : low[k + 1] = low[k] + Pow2[k] * BitFn("and", Bit(a, k), Bit(M, k))
          /\ Bits("and", a, M) = low[WordBits]
    <2> HIDE DEF M
    <2> QED
      BY <1>1, BitsDef
  <1>3. a % 2 \in Nat
    BY <1>1, Division
  <1> DEFINE S == {k \in Nat : 0 < k /\ k <= WordBits => low[k] = (a % Pow2[k]) - (a % 2)}
  <1>4. 0 \in S
    OBVIOUS
  <1>5. ASSUME NEW k \in Nat, k \in S
        PROVE  k + 1 \in S
    <2> SUFFICES ASSUME k + 1 <= WordBits PROVE low[k + 1] = (a % Pow2[k + 1]) - (a % 2)
      OBVIOUS
    <2>1. low[k + 1] = low[k] + Pow2[k] * BitFn("and", Bit(a, k), Bit(M, k))
      <3> HIDE DEF M
      <3> QED
        BY <1>2
    <2>2. Bit(a, k) \in {0, 1} /\ Pow2[k] \in Nat
      BY <1>1, BitRange, Pow2Pos
    <2>3. CASE k = 0
      <3>1. BitFn("and", Bit(a, k), Bit(M, k)) = 0
        BY <2>2, <2>3, MaskBits DEF BitFn
      <3>2. low[k + 1] = 0
        BY <1>2, <2>1, <2>2, <2>3, <3>1
      <3>3. Pow2[k + 1] = 2
        BY <2>3, Pow2Def
      <3> QED
        BY <1>3, <3>2, <3>3
    <2>4. CASE k > 0
      <3>1. k < WordBits
        BY WordFacts
      <3>2. BitFn("and", Bit(a, k), Bit(M, k)) = Bit(a, k)
        <4>1. Bit(M, k) = 1
          BY <2>4, <3>1, MaskBits
        <4> QED
          BY <2>2, <4>1 DEF BitFn
      <3>3. low[k] = (a % Pow2[k]) - (a % 2)
        BY <1>5, <2>4, <3>1, WordFacts
      <3>4. a % Pow2[k + 1] = (a % Pow2[k]) + Pow2[k] * Bit(a, k)
        BY <1>1, BitSplit
      <3> DEFINE x == Pow2[k] * Bit(a, k)
                 y == a % Pow2[k]
      <3>5. x \in Int
        BY <2>2
      <3>6. y \in Int
        BY <1>1, Pow2Pos, Division
      <3>7. low[k + 1] = low[k] + x
        BY <2>1, <3>2
      <3>8. low[k] = y - (a % 2) /\ a % Pow2[k + 1] = y + x
        BY <3>3, <3>4
      <3> HIDE DEF x, y
      <3> QED
        BY <1>3, <3>5, <3>6, <3>7, <3>8
    <2> QED
      BY <2>3, <2>4
  <1>6. Nat \subseteq S
    <2> HIDE DEF S
    <2> QED
      BY <1>4, <1>5, NatInd
  <1>7. low[WordBits] = (a % Pow2[WordBits]) - (a % 2)
    BY <1>6, WordFacts
  <1> QED
    BY <1>2, <1>7, SmallMod DEF WordSize

LEMMA SignedInt ==
  ASSUME NEW w \in Int, NEW bits \in Nat, bits > 0
  PROVE  SignedOf(w, bits) \in Int
  <1>1. bits - 1 \in Nat
    OBVIOUS
  <1>2. Pow2[bits - 1] \in Nat /\ Pow2[bits] \in Nat
    BY <1>1, Pow2Pos
  <1> QED
    BY <1>2 DEF SignedOf

\* A quotient and a remainder of a natural number are not larger.
LEMMA Shrinks ==
  ASSUME NEW a \in Nat, NEW p \in Int, p > 0
  PROVE  /\ a \div p \in Nat /\ a \div p <= a
         /\ a % p \in Nat /\ a % p <= a
  <1> DEFINE q == a \div p
             r == a % p
  <1>1. q \in Int /\ r \in Nat /\ a = p * q + r /\ r < p
    BY Division
  <1> HIDE DEF q, r
  <1>2. q >= 0
    <2> SUFFICES ASSUME q < 0 PROVE FALSE
      BY <1>1
    <2>1. p * q <= p * (-1)
      BY <1>1
    <2> QED
      BY <1>1, <2>1
  <1>3. p * q >= q /\ p * q \in Int
    BY <1>1, <1>2
  <1> QED
    BY <1>1, <1>2, <1>3 DEF q, r

LEMMA ArithWord ==
  ASSUME NEW fn \in BinFns, NEW a \in Word, NEW b \in Word
  PROVE  Arith(fn, a, b) \in Word
  <1> DEFINE n == b % WordBits
             p == Pow2[n]
  <1>1. a \in Nat /\ b \in Nat /\ a < WordSize /\ WordSize \in Nat
    BY WordRange, WordFacts
  <1>2. n \in Nat
    BY <1>1, WordFacts, Division
  <1> HIDE DEF n
  <1>3. p \in Nat /\ p > 0
    BY <1>2, Pow2Pos
  <1> HIDE DEF p
  <1>4. fn \in {"add", "sub", "and", "or", "xor", "sll", "srl", "sra"}
    BY DEF BinFns, ShiftFns
  <1>5. CASE fn = "add"
    BY <1>1, <1>5, ModWord DEF Arith
  <1>6. CASE fn = "sub"
    BY <1>1, <1>6, ModWord DEF Arith
  <1>7. CASE fn \in {"and", "or", "xor"}
    <2>1. Arith(fn, a, b) = Bits(fn, a, b)
      BY <1>7 DEF Arith
    <2> QED
      BY <1>7, <2>1, BitsWord
  <1>8. CASE fn = "sll"
    <2>1. Arith(fn, a, b) = (a * p) % WordSize
      BY <1>8 DEF Arith, p, n
    <2>2. a * p \in Int
      BY <1>1, <1>3
    <2> QED
      BY <2>1, <2>2, ModWord
  <1>9. CASE fn = "srl"
    <2>1. Arith(fn, a, b) = a \div p
      BY <1>9 DEF Arith, p, n
    <2>2. a \div p \in Nat /\ a \div p <= a
      BY <1>1, <1>3, Shrinks
    <2> QED
      BY <1>1, <2>1, <2>2, WordRange
  <1>10. CASE fn = "sra"
    <2>1. Arith(fn, a, b) = (i32(a) \div p) % WordSize
      BY <1>10 DEF Arith, p, n
    <2>2. i32(a) \in Int
      BY <1>1, WordFacts, SignedInt DEF i32
    <2>3. i32(a) \div p \in Int
      BY <1>3, <2>2, Division
    <2> QED
      BY <2>1, <2>3, ModWord
  <1> QED
    BY <1>4, <1>5, <1>6, <1>7, <1>8, <1>9, <1>10

LEMMA WidthFacts ==
  ASSUME NEW bits \in Widths
  PROVE  bits \in Nat /\ bits > 0
  <1>1. WordBits \in Nat /\ WordBits > 0 /\ WordBits % 4 = 0
    BY LoweringAssumption
  <1>2. WordBits \div 4 \in Int /\ WordBits = 4 * (WordBits \div 4) + (WordBits % 4)
    BY <1>1, Division
  <1>3. WordBits \div 4 > 0
    BY <1>1, <1>2
  <1>4. WordBits \div 2 \in Int /\ WordBits = 2 * (WordBits \div 2) + (WordBits % 2) /\ WordBits % 2 < 2
        /\ WordBits % 2 \in Nat
    BY <1>1, Division
  <1>5. WordBits \div 2 > 0
    BY <1>1, <1>2, <1>3, <1>4
  <1> QED
    BY <1>1, <1>2, <1>3, <1>4, <1>5 DEF Widths

LEMMA ExtendWord ==
  ASSUME NEW w \in Word, NEW bits \in Widths, NEW signed
  PROVE  Extend(w, bits, signed) \in Word
  <1> DEFINE n == w % Pow2[bits]
  <1>1. w \in Nat /\ w < WordSize /\ WordSize \in Nat
    BY WordRange, WordFacts
  <1>2. bits \in Nat /\ bits > 0 /\ Pow2[bits] \in Int /\ Pow2[bits] > 0
    BY WidthFacts, Pow2Pos
  <1>3. n \in Nat /\ n <= w
    BY <1>1, <1>2, Shrinks
  <1>4. n \in Word
    BY <1>1, <1>3, WordRange
  <1>5. SignedOf(n, bits) % WordSize \in Word
    BY <1>2, <1>3, SignedInt, ModWord
  <1> QED
    BY <1>4, <1>5 DEF Extend

\* The two rules of the folder: addition commutes and 0 is neutral.
LEMMA AddRules ==
  ASSUME NEW a \in Word, NEW b \in Word
  PROVE  /\ Arith("add", a, b) = (a + b) % WordSize
         /\ Arith("add", a, b) = Arith("add", b, a)
         /\ Arith("add", a, 0) = a
  <1>1. \A x, y : Arith("add", x, y) = (x + y) % WordSize
    BY DEF Arith
  <1>2. a \in Nat /\ b \in Nat
    BY WordRange
  <1>3. a + b = b + a /\ a + 0 = a
    BY <1>2
  <1> QED
    BY <1>1, <1>3, SmallMod

-----------------------------------------------------------------------------
(* Machine states and what an operation does to one *)

Machine(regs, sip, acc, nip) == [regs |-> regs, sip |-> sip, acc |-> acc, nip |-> nip]

\* The machine of the specification, and the one an instruction starts from.
Now == Machine(v, state_ip, access, next_ip)
Start(g) ==
  Machine([r \in VRegs |-> IF r > 0 THEN g[r] ELSE Undef], Undef, NoAccess, (Ip + 4) % WordSize)

Typed(s) ==
  /\ s = Machine(s.regs, s.sip, s.acc, s.nip)
  /\ s.regs \in [VRegs -> Word \cup {Undef}]
  /\ s.sip \in Word \cup {Undef}
  /\ s.nip \in Word

Val(o, s) == IF o.const THEN o.n ELSE s.regs[o.n]

Put(s, d, w) == Machine([s.regs EXCEPT ![d.n] = w], s.sip, s.acc, s.nip)

Target(o, s) ==
  CASE o.op = "gbr" -> o.x
    [] o.op = "gbrind" -> Val(o.src[1], s)
    [] o.op = "brcc" -> IF Holds(o.x[1], Val(o.src[1], s), Val(o.src[2], s)) THEN o.x[2] ELSE o.x[3]

Exec(o, s, m) ==
  CASE o.op \in BinFns -> Put(s, o.dst, Arith(o.op, Val(o.src[1], s), Val(o.src[2], s)))
    [] o.op = "mov" -> Put(s, o.dst, Val(o.src[1], s))
    [] o.op = "setcc" -> Put(s, o.dst, Flag(Holds(o.x, Val(o.src[1], s), Val(o.src[2], s))))
    [] o.op = "saveip" -> Machine(s.regs, Ip, s.acc, s.nip)
    [] o.op = "vmload" /\ o.dst.const -> s
    [] o.op = "vmload" /\ ~o.dst.const ->
         Machine([s.regs EXCEPT ![o.dst.n] = Extend(m, o.x[1], o.x[2])], s.sip,
                 <<Val(o.src[1], s), o.x[1]>>, s.nip)
    [] o.op = "vmstore" ->
         Machine(s.regs, s.sip, <<Val(o.src[1], s), o.x[1], Val(o.src[2], s) % Pow2[o.x[1]]>>, s.nip)
    [] o.op \in {"gbr", "gbrind", "brcc"} -> Machine(s.regs, s.sip, s.acc, Target(o, s))

-----------------------------------------------------------------------------
(* Well-formed operations, with T temporaries *)

Ccs == {"EQ", "NE", "LT", "GE", "LTU", "GEU"}

Const(o) == \E w \in Word : o = vconst(w)
Reg(o, T) == \E n \in VRegs : n >= -T /\ o = vreg(n)
Readable(o, s, T) == Const(o) \/ (Reg(o, T) /\ s.regs[o.n] # Undef)

\* g.gpr are the guest registers before the instruction, g.x0 tells whether it
\* is a load to x0 from the address in a register.
Precise(s, g) == s.sip = Ip /\ \A r \in GRegs : s.regs[r] = g.gpr[r]
LoadDst(d, g, T) == Reg(d, T) \/ (Const(d) /\ g.x0)

OkArith(o, s, T) ==
  \E fn \in BinFns : \E d, a, b :
    o = Inst(fn, "none", d, <<a, b>>) /\ Reg(d, T) /\ Readable(a, s, T) /\ Readable(b, s, T)
OkMov(o, s, T) == \E d, a : o = Mov(d, a) /\ Reg(d, T) /\ Readable(a, s, T)
OkSetcc(o, s, T) ==
  \E cc \in Ccs : \E d, a, b :
    o = Inst("setcc", cc, d, <<a, b>>) /\ Reg(d, T) /\ Readable(a, s, T) /\ Readable(b, s, T)
OkLoad(o, s, g, T) ==
  \E w \in Widths, sg \in BOOLEAN : \E d, a :
    /\ o = Inst("vmload", <<w, sg>>, d, <<a>>) /\ LoadDst(d, g, T) /\ Readable(a, s, T)
    /\ Precise(s, g)
OkStore(o, s, g, T) ==
  \E w \in Widths : \E a, b :
    /\ o = Inst("vmstore", <<w>>, NoDst, <<a, b>>) /\ Readable(a, s, T) /\ Readable(b, s, T)
    /\ Precise(s, g)
OkGbr(o) == \E x \in Word : o = Inst("gbr", x, NoDst, <<>>)
OkGbrind(o, s, T) ==
  \E a : o = Inst("gbrind", "none", NoDst, <<a>>) /\ Reg(a, T) /\ Readable(a, s, T)
OkBrcc(o, s, T) ==
  \E cc \in Ccs, x \in Word, y \in Word : \E a, b :
    o = Inst("brcc", <<cc, x, y>>, NoDst, <<a, b>>) /\ Readable(a, s, T) /\ Readable(b, s, T)

Ok(o, s, g, T) ==
  \/ OkArith(o, s, T) \/ OkMov(o, s, T) \/ OkSetcc(o, s, T) \/ o = PreSideeff
  \/ OkLoad(o, s, g, T) \/ OkStore(o, s, g, T)
  \/ OkGbr(o) \/ OkGbrind(o, s, T) \/ OkBrcc(o, s, T)

\* An upper bound on the temporaries selection makes for o.
Cost(o) ==
  CASE o.op \in {"setcc", "brcc"} -> 2
    [] o.op = "vmstore" -> 1
    [] o.op \in BinFns -> IF o.op = "and" /\ o.src[1] = o.dst THEN 0 ELSE 1
    [] OTHER -> 0

\* The operation of each form.
LEMMA OkOps ==
  ASSUME NEW o, NEW s, NEW g, NEW T
  PROVE  /\ OkArith(o, s, T) => o.op \in BinFns
         /\ OkMov(o, s, T) => o.op = "mov"
         /\ OkSetcc(o, s, T) => o.op = "setcc"
         /\ o = PreSideeff => o.op = "saveip"
         /\ OkLoad(o, s, g, T) => o.op = "vmload"
         /\ OkStore(o, s, g, T) => o.op = "vmstore"
         /\ OkGbr(o) => o.op = "gbr"
         /\ OkGbrind(o, s, T) => o.op = "gbrind"
         /\ OkBrcc(o, s, T) => o.op = "brcc"
  <1>1. OkArith(o, s, T) => o.op \in BinFns
    BY DEF OkArith, Inst
  <1>2. OkMov(o, s, T) => o.op = "mov"
    BY DEF OkMov, Mov, Inst
  <1>3. OkSetcc(o, s, T) => o.op = "setcc"
    BY DEF OkSetcc, Inst
  <1>4. o = PreSideeff => o.op = "saveip"
    BY DEF PreSideeff, Inst
  <1>5. OkLoad(o, s, g, T) => o.op = "vmload"
    BY DEF OkLoad, Inst
  <1>6. OkStore(o, s, g, T) => o.op = "vmstore"
    BY DEF OkStore, Inst
  <1>7. OkGbr(o) => o.op = "gbr"
    BY DEF OkGbr, Inst
  <1>8. OkGbrind(o, s, T) => o.op = "gbrind"
    BY DEF OkGbrind, Inst
  <1>9. OkBrcc(o, s, T) => o.op = "brcc"
    BY DEF OkBrcc, Inst
  <1> QED
    BY <1>1, <1>2, <1>3, <1>4, <1>5, <1>6, <1>7, <1>8, <1>9

\* What operands are.
LEMMA OperandFacts ==
  /\ \A n : vconst(n).const = TRUE /\ vconst(n).n = n
  /\ \A n : vreg(n).const = FALSE /\ vreg(n).n = n
  BY DEF vconst, vreg

LEMMA ReadableVal ==
  ASSUME NEW s, Typed(s), NEW o, NEW T, Readable(o, s, T)
  PROVE  Val(o, s) \in Word
  <1>1. CASE Const(o)
    BY <1>1 DEF Const, Val, vconst
  <1>2. CASE Reg(o, T) /\ s.regs[o.n] # Undef
    <2>1. PICK n \in VRegs : o = vreg(n)
      BY <1>2 DEF Reg
    <2>2. o.n = n /\ ~o.const
      BY <2>1 DEF vreg
    <2> QED
      BY <1>2, <2>2 DEF Val, Typed
  <1> QED
    BY <1>1, <1>2 DEF Readable

LEMMA MachineFacts ==
  ASSUME NEW a, NEW b, NEW c, NEW d
  PROVE  /\ Machine(a, b, c, d).regs = a /\ Machine(a, b, c, d).sip = b
         /\ Machine(a, b, c, d).acc = c /\ Machine(a, b, c, d).nip = d
  BY DEF Machine

LEMMA MachineTyped ==
  ASSUME NEW a \in [VRegs -> Word \cup {Undef}], NEW b \in Word \cup {Undef}, NEW c, NEW d \in Word
  PROVE  Typed(Machine(a, b, c, d))
  BY MachineFacts DEF Typed

LEMMA PutTyped ==
  ASSUME NEW s, Typed(s), NEW d, NEW T, Reg(d, T), NEW w \in Word
  PROVE  Typed(Put(s, d, w))
  <1>1. d.n \in VRegs
    BY OperandFacts DEF Reg
  <1>2. [s.regs EXCEPT ![d.n] = w] \in [VRegs -> Word \cup {Undef}]
    BY <1>1 DEF Typed
  <1> QED
    BY <1>2, MachineTyped DEF Put, Typed

LEMMA InstFacts ==
  ASSUME NEW op, NEW x, NEW d, NEW src
  PROVE  /\ Inst(op, x, d, src).op = op /\ Inst(op, x, d, src).x = x
         /\ Inst(op, x, d, src).dst = d /\ Inst(op, x, d, src).src = src
  BY DEF Inst

\* No other operation is an arithmetic one.
LEMMA OpNames ==
  /\ \A op \in {"mov", "setcc", "saveip", "vmload", "vmstore", "gbr", "gbrind", "brcc"} : op \notin BinFns
  /\ BinFns = {"add", "sub", "and", "or", "xor", "sll", "srl", "sra"}
  BY DEF BinFns, ShiftFns

LEMMA ExecArith ==
  ASSUME NEW fn \in BinFns, NEW x, NEW d, NEW a, NEW b, NEW s, NEW m
  PROVE  Exec(Inst(fn, x, d, <<a, b>>), s, m) = Put(s, d, Arith(fn, Val(a, s), Val(b, s)))
  <1> DEFINE o == Inst(fn, x, d, <<a, b>>)
  <1>1. o.op = fn /\ o.dst = d /\ o.src[1] = a /\ o.src[2] = b
    BY InstFacts
  <1>2. fn \notin {"mov", "setcc", "saveip", "vmload", "vmstore", "gbr", "gbrind", "brcc"}
    BY OpNames
  <1> HIDE DEF o
  <1>3. Exec(o, s, m) = Put(s, o.dst, Arith(o.op, Val(o.src[1], s), Val(o.src[2], s)))
    BY <1>1, <1>2 DEF Exec
  <1> QED
    BY <1>1, <1>3 DEF o

LEMMA ExecMov ==
  ASSUME NEW d, NEW a, NEW s, NEW m
  PROVE  Exec(Mov(d, a), s, m) = Put(s, d, Val(a, s))
  <1> DEFINE o == Mov(d, a)
  <1>1. o.op = "mov" /\ o.dst = d /\ o.src[1] = a
    BY InstFacts DEF Mov
  <1> HIDE DEF o
  <1>2. Exec(o, s, m) = Put(s, o.dst, Val(o.src[1], s))
    BY <1>1, OpNames DEF Exec
  <1> QED
    BY <1>1, <1>2 DEF o

LEMMA ExecSetcc ==
  ASSUME NEW cc, NEW d, NEW a, NEW b, NEW s, NEW m
  PROVE  Exec(Inst("setcc", cc, d, <<a, b>>), s, m) = Put(s, d, Flag(Holds(cc, Val(a, s), Val(b, s))))
  <1> DEFINE o == Inst("setcc", cc, d, <<a, b>>)
  <1>1. o.op = "setcc" /\ o.x = cc /\ o.dst = d /\ o.src[1] = a /\ o.src[2] = b
    BY InstFacts
  <1> HIDE DEF o
  <1>2. Exec(o, s, m) = Put(s, o.dst, Flag(Holds(o.x, Val(o.src[1], s), Val(o.src[2], s))))
    BY <1>1, OpNames DEF Exec
  <1> QED
    BY <1>1, <1>2 DEF o

LEMMA ExecSaveip ==
  ASSUME NEW s, NEW m
  PROVE  Exec(PreSideeff, s, m) = Machine(s.regs, Ip, s.acc, s.nip)
  <1> DEFINE o == PreSideeff
  <1>1. o.op = "saveip"
    BY InstFacts DEF PreSideeff
  <1> HIDE DEF o
  <1>2. Exec(o, s, m) = Machine(s.regs, Ip, s.acc, s.nip)
    BY <1>1, OpNames DEF Exec
  <1> QED
    BY <1>2 DEF o

LEMMA ExecLoad ==
  ASSUME NEW w, NEW sg, NEW d, NEW a, NEW s, NEW m
  PROVE  Exec(Inst("vmload", <<w, sg>>, d, <<a>>), s, m) =
           IF d.const THEN s
           ELSE Machine([s.regs EXCEPT ![d.n] = Extend(m, w, sg)], s.sip, <<Val(a, s), w>>, s.nip)
  <1> DEFINE o == Inst("vmload", <<w, sg>>, d, <<a>>)
  <1>1. o.op = "vmload" /\ o.x[1] = w /\ o.x[2] = sg /\ o.dst = d /\ o.src[1] = a
    BY InstFacts
  <1> HIDE DEF o
  <1>2. Exec(o, s, m) =
          IF o.dst.const THEN s
          ELSE Machine([s.regs EXCEPT ![o.dst.n] = Extend(m, o.x[1], o.x[2])], s.sip,
                       <<Val(o.src[1], s), o.x[1]>>, s.nip)
    <2>1. CASE o.dst.const
      BY <1>1, <2>1, OpNames DEF Exec
    <2>2. CASE ~o.dst.const
      BY <1>1, <2>2, OpNames DEF Exec
    <2> QED
      BY <2>1, <2>2
  <1> QED
    BY <1>1, <1>2 DEF o

LEMMA ExecLoadNoDst ==
  ASSUME NEW w, NEW sg, NEW d, NEW a, NEW s, NEW m, d.const
  PROVE  Exec(Inst("vmload", <<w, sg>>, d, <<a>>), s, m) = s
  <1> DEFINE o == Inst("vmload", <<w, sg>>, d, <<a>>)
  <1>1. o.op = "vmload" /\ o.dst = d
    BY InstFacts
  <1> HIDE DEF o
  <1>2. Exec(o, s, m) = s
    BY <1>1, OpNames DEF Exec
  <1> QED
    BY <1>2 DEF o

LEMMA ExecStore ==
  ASSUME NEW w, NEW d, NEW a, NEW b, NEW s, NEW m
  PROVE  Exec(Inst("vmstore", <<w>>, d, <<a, b>>), s, m) =
           Machine(s.regs, s.sip, <<Val(a, s), w, Val(b, s) % Pow2[w]>>, s.nip)
  <1> DEFINE o == Inst("vmstore", <<w>>, d, <<a, b>>)
  <1>1. o.op = "vmstore" /\ o.x[1] = w /\ o.src[1] = a /\ o.src[2] = b
    BY InstFacts
  <1> HIDE DEF o
  <1>2. Exec(o, s, m) =
          Machine(s.regs, s.sip, <<Val(o.src[1], s), o.x[1], Val(o.src[2], s) % Pow2[o.x[1]]>>, s.nip)
    BY <1>1, OpNames DEF Exec
  <1> QED
    BY <1>1, <1>2 DEF o

LEMMA ExecGbr ==
  ASSUME NEW x, NEW d, NEW src, NEW s, NEW m
  PROVE  Exec(Inst("gbr", x, d, src), s, m) = Machine(s.regs, s.sip, s.acc, x)
  <1> DEFINE o == Inst("gbr", x, d, src)
  <1>1. o.op = "gbr" /\ o.x = x
    BY InstFacts
  <1> HIDE DEF o
  <1>2. Exec(o, s, m) = Machine(s.regs, s.sip, s.acc, o.x)
    BY <1>1, OpNames DEF Exec, Target
  <1> QED
    BY <1>1, <1>2 DEF o

LEMMA ExecGbrind ==
  ASSUME NEW x, NEW d, NEW a, NEW s, NEW m
  PROVE  Exec(Inst("gbrind", x, d, <<a>>), s, m) = Machine(s.regs, s.sip, s.acc, Val(a, s))
  <1> DEFINE o == Inst("gbrind", x, d, <<a>>)
  <1>1. o.op = "gbrind" /\ o.src[1] = a
    BY InstFacts
  <1> HIDE DEF o
  <1>2. Exec(o, s, m) = Machine(s.regs, s.sip, s.acc, Val(o.src[1], s))
    BY <1>1, OpNames DEF Exec, Target
  <1> QED
    BY <1>1, <1>2 DEF o

LEMMA ExecBrcc ==
  ASSUME NEW cc, NEW x, NEW y, NEW d, NEW a, NEW b, NEW s, NEW m
  PROVE  Exec(Inst("brcc", <<cc, x, y>>, d, <<a, b>>), s, m) =
           Machine(s.regs, s.sip, s.acc, IF Holds(cc, Val(a, s), Val(b, s)) THEN x ELSE y)
  <1> DEFINE o == Inst("brcc", <<cc, x, y>>, d, <<a, b>>)
  <1>1. o.op = "brcc" /\ o.x[1] = cc /\ o.x[2] = x /\ o.x[3] = y /\ o.src[1] = a /\ o.src[2] = b
    BY InstFacts
  <1> HIDE DEF o
  <1>2. Exec(o, s, m) = Machine(s.regs, s.sip, s.acc,
          IF Holds(o.x[1], Val(o.src[1], s), Val(o.src[2], s)) THEN o.x[2] ELSE o.x[3])
    BY <1>1, OpNames DEF Exec, Target
  <1> QED
    BY <1>1, <1>2 DEF o

\* Executing a well-formed operation keeps words words.
LEMMA ExecTyped ==
  ASSUME NEW s, Typed(s), NEW o, NEW g, NEW T, Ok(o, s, g, T), NEW m \in Word
  PROVE  Typed(Exec(o, s, m))
  <1>0. /\ s.regs \in [VRegs -> Word \cup {Undef}] /\ s.sip \in Word \cup {Undef} /\ s.nip \in Word
        /\ Ip \in Word
    BY LoweringAssumption DEF Typed
  <1>1. CASE OkArith(o, s, T)
    <2>1. PICK fn, d, a, b :
            /\ fn \in BinFns
            /\ o = Inst(fn, "none", d, <<a, b>>) /\ Reg(d, T) /\ Readable(a, s, T) /\ Readable(b, s, T)
      BY <1>1 DEF OkArith
    <2>2. Arith(fn, Val(a, s), Val(b, s)) \in Word
      BY <2>1, ReadableVal, ArithWord
    <2> QED
      BY <2>1, <2>2, ExecArith, PutTyped
  <1>2. CASE OkMov(o, s, T)
    <2>1. PICK d, a : o = Mov(d, a) /\ Reg(d, T) /\ Readable(a, s, T)
      BY <1>2 DEF OkMov
    <2>2. Val(a, s) \in Word
      BY <2>1, ReadableVal
    <2> QED
      BY <2>1, <2>2, ExecMov, PutTyped
  <1>3. CASE OkSetcc(o, s, T)
    <2>1. PICK cc, d, a, b :
            cc \in Ccs /\ o = Inst("setcc", cc, d, <<a, b>>) /\ Reg(d, T)
      BY <1>3 DEF OkSetcc
    <2>2. Flag(Holds(cc, Val(a, s), Val(b, s))) \in Word
      BY FlagWord
    <2> QED
      BY <2>1, <2>2, ExecSetcc, PutTyped
  <1>4. CASE o = PreSideeff
    BY <1>0, <1>4, ExecSaveip, MachineTyped
  <1>5. CASE OkLoad(o, s, g, T)
    <2>1. PICK w, sg, d, a :
            /\ w \in Widths /\ sg \in BOOLEAN
            /\ o = Inst("vmload", <<w, sg>>, d, <<a>>) /\ LoadDst(d, g, T)
      BY <1>5 DEF OkLoad
    <2>2. Exec(o, s, m) =
            IF d.const THEN s
            ELSE Machine([s.regs EXCEPT ![d.n] = Extend(m, w, sg)], s.sip, <<Val(a, s), w>>, s.nip)
      BY <2>1, ExecLoad
    <2>3. CASE d.const
      BY <2>2, <2>3
    <2>4. CASE ~d.const
      <3>1. d.n \in VRegs
        BY <2>1, <2>4, OperandFacts DEF Reg, Const, LoadDst
      <3>2. Extend(m, w, sg) \in Word
        BY <2>1, ExtendWord
      <3>3. [s.regs EXCEPT ![d.n] = Extend(m, w, sg)] \in [VRegs -> Word \cup {Undef}]
        BY <1>0, <3>1, <3>2
      <3> QED
        BY <1>0, <2>2, <2>4, <3>3, MachineTyped
    <2> QED
      BY <2>3, <2>4
  <1>6. CASE OkStore(o, s, g, T)
    <2>1. PICK w, a, b :
            w \in Widths /\ o = Inst("vmstore", <<w>>, NoDst, <<a, b>>)
      BY <1>6 DEF OkStore
    <2> DEFINE z == <<Val(a, s), w, Val(b, s) % Pow2[w]>>
    <2>2. Exec(o, s, m) = Machine(s.regs, s.sip, z, s.nip)
      BY <2>1, ExecStore
    <2> HIDE DEF z
    <2> QED
      BY <1>0, <2>2, MachineTyped
  <1>7. CASE OkGbr(o)
    <2>1. PICK x \in Word : o = Inst("gbr", x, NoDst, <<>>)
      BY <1>7 DEF OkGbr
    <2>2. Exec(o, s, m) = Machine(s.regs, s.sip, s.acc, x)
      BY <2>1, ExecGbr
    <2> QED
      BY <1>0, <2>2, MachineTyped
  <1>8. CASE OkGbrind(o, s, T)
    <2>1. PICK a : o = Inst("gbrind", "none", NoDst, <<a>>) /\ Readable(a, s, T)
      BY <1>8 DEF OkGbrind
    <2>2. Val(a, s) \in Word
      BY <2>1, ReadableVal
    <2>3. Exec(o, s, m) = Machine(s.regs, s.sip, s.acc, Val(a, s))
      BY <2>1, ExecGbrind
    <2> QED
      BY <1>0, <2>2, <2>3, MachineTyped
  <1>9. CASE OkBrcc(o, s, T)
    <2>1. PICK cc, x, y, a, b :
            cc \in Ccs /\ x \in Word /\ y \in Word /\ o = Inst("brcc", <<cc, x, y>>, NoDst, <<a, b>>)
      BY <1>9 DEF OkBrcc
    <2> DEFINE z == IF Holds(cc, Val(a, s), Val(b, s)) THEN x ELSE y
    <2>2. z \in Word /\ Exec(o, s, m) = Machine(s.regs, s.sip, s.acc, z)
      BY <2>1, ExecBrcc
    <2> HIDE DEF z
    <2> QED
      BY <1>0, <2>2, MachineTyped
  <1> QED
    BY <1>1, <1>2, <1>3, <1>4, <1>5, <1>6, <1>7, <1>8, <1>9 DEF Ok

-----------------------------------------------------------------------------
(* Code: sequences of operations *)

IsSeq(c) == \E A : c \in Seq(A)

LEMMA SeqNil == IsSeq(<<>>) /\ Len(<<>>) = 0
  <1>1. <<>> \in Seq({})
    OBVIOUS
  <1> QED
    BY <1>1 DEF IsSeq

LEMMA SeqOne ==
  ASSUME NEW o
  PROVE  IsSeq(<<o>>) /\ Len(<<o>>) = 1 /\ <<o>>[1] = o
  <1>1. <<o>> \in Seq({o})
    OBVIOUS
  <1> QED
    BY <1>1 DEF IsSeq

LEMMA SeqLen ==
  ASSUME NEW c, IsSeq(c)
  PROVE  /\ Len(c) \in Nat /\ DOMAIN c = 1 .. Len(c)
         /\ c = <<>> <=> Len(c) = 0
  <1>1. PICK A : c \in Seq(A)
    BY DEF IsSeq
  <1> QED
    BY <1>1

LEMMA SeqCat ==
  ASSUME NEW c, IsSeq(c), NEW e, IsSeq(e)
  PROVE  /\ IsSeq(c \o e) /\ Len(c \o e) = Len(c) + Len(e)
         /\ \A k \in 1 .. Len(c) : (c \o e)[k] = c[k]
         /\ \A k \in Len(c) + 1 .. Len(c) + Len(e) : (c \o e)[k] = e[k - Len(c)]
  <1>1. PICK A : c \in Seq(A)
    BY DEF IsSeq
  <1>2. PICK B : e \in Seq(B)
    BY DEF IsSeq
  <1> DEFINE C == A \cup B
  <1>3. c \in Seq(C) /\ e \in Seq(C)
    <2>1. A \subseteq C /\ B \subseteq C
      OBVIOUS
    <2> HIDE DEF C
    <2> QED
      BY <1>1, <1>2, <2>1
  <1> HIDE DEF C
  <1>4. c \o e \in Seq(C) /\ Len(c \o e) = Len(c) + Len(e)
    BY <1>3
  <1>5. \A k \in 1 .. Len(c) : (c \o e)[k] = c[k]
    BY <1>3
  <1>6. \A k \in Len(c) + 1 .. Len(c) + Len(e) : (c \o e)[k] = e[k - Len(c)]
    BY <1>3
  <1> QED
    BY <1>4, <1>5, <1>6 DEF IsSeq

LEMMA SeqTail ==
  ASSUME NEW c, IsSeq(c), c # <<>>
  PROVE  /\ Len(c) > 0 /\ Head(c) = c[1]
         /\ IsSeq(Tail(c)) /\ Len(Tail(c)) = Len(c) - 1
         /\ \A k \in 1 .. Len(c) - 1 : Tail(c)[k] = c[k + 1]
  <1>1. PICK A : c \in Seq(A)
    BY DEF IsSeq
  <1>2. Tail(c) \in Seq(A) /\ Len(c) > 0 /\ Head(c) = c[1] /\ Len(Tail(c)) = Len(c) - 1
    BY <1>1
  <1>3. \A k \in 1 .. Len(c) - 1 : Tail(c)[k] = c[k + 1]
    BY <1>1, <1>2
  <1> QED
    BY <1>2, <1>3 DEF IsSeq

\* c, each of its operations well formed where it is executed, leads from s0
\* to s1; selecting it takes the number of temporaries from t0 to at most t1.
Reach(c, s0, s1, t0, t1, m, g, T) ==
  /\ IsSeq(c)
  /\ \E q, qt :
       /\ q[0] = s0 /\ q[Len(c)] = s1 /\ qt[0] = t0 /\ qt[Len(c)] = t1
       /\ \A k \in 0 .. Len(c) : Typed(q[k]) /\ qt[k] \in Nat
       /\ \A k \in 1 .. Len(c) :
            /\ Ok(c[k], q[k - 1], g, T) /\ q[k] = Exec(c[k], q[k - 1], m)
            /\ qt[k - 1] + Cost(c[k]) <= qt[k]

LEMMA ReachNil ==
  ASSUME NEW s, Typed(s), NEW t \in Nat, NEW m, NEW g, NEW T
  PROVE  Reach(<<>>, s, s, t, t, m, g, T)
  <1> DEFINE q == [k \in 0 .. 0 |-> s]
             qt == [k \in 0 .. 0 |-> t]
             c == <<>>
  <1>1. IsSeq(c) /\ Len(c) = 0
    BY SeqNil
  <1>2. q[0] = s /\ qt[0] = t /\ \A k \in 0 .. 0 : q[k] = s /\ qt[k] = t
    OBVIOUS
  <1> HIDE DEF q, qt, c
  <1>3. Reach(c, s, s, t, t, m, g, T)
    BY <1>1, <1>2 DEF Reach
  <1> QED
    BY <1>3 DEF c

LEMMA CostNat == ASSUME NEW o PROVE Cost(o) \in 0 .. 2
  BY DEF Cost

LEMMA ReachOne ==
  ASSUME NEW s, Typed(s), NEW t \in Nat, NEW t1 \in Nat, NEW m \in Word, NEW g, NEW T,
         NEW o, Ok(o, s, g, T), t + Cost(o) <= t1
  PROVE  Reach(<<o>>, s, Exec(o, s, m), t, t1, m, g, T)
  <1> DEFINE e == Exec(o, s, m)
             q == [k \in 0 .. 1 |-> IF k = 0 THEN s ELSE e]
             qt == [k \in 0 .. 1 |-> IF k = 0 THEN t ELSE t1]
             c == <<o>>
  <1>1. IsSeq(c) /\ Len(c) = 1 /\ c[1] = o
    BY SeqOne
  <1>2. q[0] = s /\ qt[0] = t /\ q[1] = e /\ qt[1] = t1
    OBVIOUS
  <1>3. Typed(e)
    BY ExecTyped
  <1> HIDE DEF q, qt, c
  <1>4. \A k \in 0 .. Len(c) : Typed(q[k]) /\ qt[k] \in Nat
    BY <1>1, <1>2, <1>3
  <1>5. \A k \in 1 .. Len(c) :
            /\ Ok(c[k], q[k - 1], g, T) /\ q[k] = Exec(c[k], q[k - 1], m)
            /\ qt[k - 1] + Cost(c[k]) <= qt[k]
    <2>1. \A k \in 1 .. Len(c) : k = 1 /\ k - 1 = 0
      BY <1>1
    <2> QED
      BY <1>1, <1>2, <2>1
  <1> HIDE DEF e
  <1>6. Reach(c, s, e, t, t1, m, g, T)
    BY <1>1, <1>2, <1>4, <1>5 DEF Reach
  <1> QED
    BY <1>6 DEF c, e

LEMMA ReachCat ==
  ASSUME NEW m, NEW g, NEW T, NEW c, NEW e, NEW s0, NEW s1, NEW s2, NEW t0, NEW t1, NEW t2,
         Reach(c, s0, s1, t0, t1, m, g, T), Reach(e, s1, s2, t1, t2, m, g, T)
  PROVE  Reach(c \o e, s0, s2, t0, t2, m, g, T)
  <1>1. PICK q, qt :
       /\ q[0] = s0 /\ q[Len(c)] = s1 /\ qt[0] = t0 /\ qt[Len(c)] = t1
       /\ \A k \in 0 .. Len(c) : Typed(q[k]) /\ qt[k] \in Nat
       /\ \A k \in 1 .. Len(c) :
            /\ Ok(c[k], q[k - 1], g, T) /\ q[k] = Exec(c[k], q[k - 1], m)
            /\ qt[k - 1] + Cost(c[k]) <= qt[k]
    BY DEF Reach
  <1>2. PICK p, pt :
       /\ p[0] = s1 /\ p[Len(e)] = s2 /\ pt[0] = t1 /\ pt[Len(e)] = t2
       /\ \A k \in 0 .. Len(e) : Typed(p[k]) /\ pt[k] \in Nat
       /\ \A k \in 1 .. Len(e) :
            /\ Ok(e[k], p[k - 1], g, T) /\ p[k] = Exec(e[k], p[k - 1], m)
            /\ pt[k - 1] + Cost(e[k]) <= pt[k]
    BY DEF Reach
  <1> DEFINE a == Len(c)
             b == Len(e)
             f == c \o e
             r == [k \in 0 .. a + b |-> IF k <= a THEN q[k] ELSE p[k - a]]
             rt == [k \in 0 .. a + b |-> IF k <= a THEN qt[k] ELSE pt[k - a]]
  <1>3. a \in Nat /\ b \in Nat /\ IsSeq(c) /\ IsSeq(e)
    BY SeqLen DEF Reach
  <1>4. /\ IsSeq(f) /\ Len(f) = a + b
        /\ \A k \in 1 .. a : f[k] = c[k]
        /\ \A k \in a + 1 .. a + b : f[k] = e[k - a]
    BY <1>3, SeqCat
  <1> HIDE DEF a, b, f
  <1>5. /\ \A k \in 0 .. a : r[k] = q[k] /\ rt[k] = qt[k]
        /\ \A k \in a .. a + b : r[k] = p[k - a] /\ rt[k] = pt[k - a]
    <2>1. \A k \in 0 .. a : r[k] = q[k] /\ rt[k] = qt[k]
      BY <1>3
    <2>2. ASSUME NEW k \in a .. a + b
          PROVE  r[k] = p[k - a] /\ rt[k] = pt[k - a]
      <3>1. CASE k = a
        <4>1. k - a = 0 /\ k \in 0 .. a
          BY <1>3, <3>1
        <4>2. q[a] = p[0] /\ qt[a] = pt[0]
          BY <1>1, <1>2 DEF a
        <4> QED
          BY <2>1, <3>1, <4>1, <4>2
      <3>2. CASE k # a
        <4>1. ~(k <= a) /\ k \in 0 .. a + b
          BY <1>3, <3>2
        <4> QED
          BY <4>1
      <3> QED
        BY <3>1, <3>2
    <2> QED
      BY <2>1, <2>2
  <1> HIDE DEF r, rt
  <1>6. r[0] = s0 /\ rt[0] = t0
    BY <1>1, <1>3, <1>5
  <1>7. r[a + b] = s2 /\ rt[a + b] = t2
    <2>1. a + b \in a .. a + b /\ (a + b) - a = b
      BY <1>3
    <2>2. p[b] = s2 /\ pt[b] = t2
      BY <1>2 DEF b
    <2> QED
      BY <1>5, <2>1, <2>2
  <1>8. ASSUME NEW k \in 0 .. a + b
        PROVE  Typed(r[k]) /\ rt[k] \in Nat
    <2>1. CASE k <= a
      <3>1. k \in 0 .. a
        BY <1>3, <2>1
      <3> QED
        BY <1>1, <1>5, <3>1 DEF a
    <2>2. CASE ~(k <= a)
      <3>1. k \in a .. a + b /\ k - a \in 0 .. b
        BY <1>3, <2>2
      <3> QED
        BY <1>2, <1>5, <3>1 DEF b
    <2> QED
      BY <2>1, <2>2
  <1>9. ASSUME NEW k \in 1 .. a + b
        PROVE  /\ Ok(f[k], r[k - 1], g, T) /\ r[k] = Exec(f[k], r[k - 1], m)
               /\ rt[k - 1] + Cost(f[k]) <= rt[k]
    <2>1. CASE k <= a
      <3>1. k \in 0 .. a /\ k - 1 \in 0 .. a /\ k \in 1 .. a
        BY <1>3, <2>1
      <3> QED
        BY <1>1, <1>4, <1>5, <3>1 DEF a
    <2>2. CASE ~(k <= a)
      <3>1. /\ k \in a .. a + b /\ k - 1 \in a .. a + b /\ (k - 1) - a = (k - a) - 1
            /\ k - a \in 1 .. b /\ k \in a + 1 .. a + b
        BY <1>3, <2>2
      <3>2. /\ Ok(e[k - a], p[(k - a) - 1], g, T) /\ p[k - a] = Exec(e[k - a], p[(k - a) - 1], m)
            /\ pt[(k - a) - 1] + Cost(e[k - a]) <= pt[k - a]
        BY <1>2, <3>1 DEF b
      <3>3. /\ f[k] = e[k - a] /\ r[k] = p[k - a] /\ rt[k] = pt[k - a]
            /\ r[k - 1] = p[(k - a) - 1] /\ rt[k - 1] = pt[(k - a) - 1]
        BY <1>4, <1>5, <3>1
      <3> QED
        BY <3>2, <3>3
    <2> QED
      BY <2>1, <2>2
  <1>10. Reach(f, s0, s2, t0, t2, m, g, T)
    BY <1>4, <1>6, <1>7, <1>8, <1>9 DEF Reach
  <1> QED
    BY <1>10 DEF f

LEMMA ReachHead ==
  ASSUME NEW m, NEW g, NEW T, NEW c, NEW s0, NEW s1, NEW t0, NEW t1,
         Reach(c, s0, s1, t0, t1, m, g, T), c # <<>>
  PROVE  /\ Typed(s0) /\ Ok(Head(c), s0, g, T) /\ t0 \in Nat
         /\ \E t \in Nat : /\ t0 + Cost(Head(c)) <= t
                           /\ Reach(Tail(c), Exec(Head(c), s0, m), s1, t, t1, m, g, T)
  <1>1. PICK q, qt :
       /\ q[0] = s0 /\ q[Len(c)] = s1 /\ qt[0] = t0 /\ qt[Len(c)] = t1
       /\ \A k \in 0 .. Len(c) : Typed(q[k]) /\ qt[k] \in Nat
       /\ \A k \in 1 .. Len(c) :
            /\ Ok(c[k], q[k - 1], g, T) /\ q[k] = Exec(c[k], q[k - 1], m)
            /\ qt[k - 1] + Cost(c[k]) <= qt[k]
    BY DEF Reach
  <1> DEFINE n == Len(c)
             d == Tail(c)
             r == [k \in 0 .. n - 1 |-> q[k + 1]]
             rt == [k \in 0 .. n - 1 |-> qt[k + 1]]
  <1>2. n \in Nat /\ n > 0 /\ Head(c) = c[1] /\ IsSeq(d) /\ Len(d) = n - 1
        /\ \A k \in 1 .. n - 1 : d[k] = c[k + 1]
    BY SeqLen, SeqTail DEF Reach
  <1> HIDE DEF n, d
  <1>3. \A k \in 0 .. n - 1 : r[k] = q[k + 1] /\ rt[k] = qt[k + 1]
    OBVIOUS
  <1> HIDE DEF r, rt
  <1>4. 0 \in 0 .. n /\ 1 \in 1 .. n /\ 1 - 1 = 0 /\ 0 \in 0 .. n - 1 /\ n - 1 \in 0 .. n - 1
        /\ (n - 1) + 1 = n /\ 0 + 1 = 1 /\ 1 \in 0 .. n
    BY <1>2
  <1>5. /\ Typed(s0) /\ Ok(c[1], s0, g, T) /\ t0 \in Nat /\ qt[1] \in Nat
        /\ q[1] = Exec(c[1], s0, m) /\ t0 + Cost(c[1]) <= qt[1]
    BY <1>1, <1>4 DEF n
  <1>6. r[0] = q[1] /\ rt[0] = qt[1] /\ r[n - 1] = s1 /\ rt[n - 1] = t1
    <2>1. q[n] = s1 /\ qt[n] = t1
      BY <1>1 DEF n
    <2> QED
      BY <1>3, <1>4, <2>1
  <1>7. \A k \in 0 .. n - 1 : Typed(r[k]) /\ rt[k] \in Nat
    <2> TAKE k \in 0 .. n - 1
    <2>1. k + 1 \in 0 .. n
      BY <1>2
    <2> QED
      BY <1>1, <1>3, <2>1 DEF n
  <1>8. \A k \in 1 .. n - 1 : /\ Ok(d[k], r[k - 1], g, T) /\ r[k] = Exec(d[k], r[k - 1], m)
                              /\ rt[k - 1] + Cost(d[k]) <= rt[k]
    <2> TAKE k \in 1 .. n - 1
    <2>1. k + 1 \in 1 .. n /\ (k + 1) - 1 = k /\ k \in 0 .. n - 1 /\ k - 1 \in 0 .. n - 1 /\ (k - 1) + 1 = k
      BY <1>2
    <2>2. /\ Ok(c[k + 1], q[k], g, T) /\ q[k + 1] = Exec(c[k + 1], q[k], m)
          /\ qt[k] + Cost(c[k + 1]) <= qt[k + 1]
      BY <1>1, <2>1 DEF n
    <2>3. d[k] = c[k + 1] /\ r[k - 1] = q[k] /\ r[k] = q[k + 1] /\ rt[k - 1] = qt[k] /\ rt[k] = qt[k + 1]
      BY <1>2, <1>3, <2>1
    <2> QED
      BY <2>2, <2>3
  <1>9. Reach(d, q[1], s1, qt[1], t1, m, g, T)
    BY <1>2, <1>6, <1>7, <1>8 DEF Reach
  <1> QED
    BY <1>2, <1>5, <1>9 DEF d

\* The end of a path is typed, and an empty path goes nowhere.
LEMMA ReachEnds ==
  ASSUME NEW m, NEW g, NEW T, NEW c, NEW s0, NEW s1, NEW t0, NEW t1,
         Reach(c, s0, s1, t0, t1, m, g, T)
  PROVE  /\ IsSeq(c) /\ Typed(s0) /\ Typed(s1) /\ t0 \in Nat /\ t1 \in Nat
         /\ c = <<>> => s0 = s1 /\ t0 = t1
  <1>1. PICK q, qt :
       /\ q[0] = s0 /\ q[Len(c)] = s1 /\ qt[0] = t0 /\ qt[Len(c)] = t1
       /\ \A k \in 0 .. Len(c) : Typed(q[k]) /\ qt[k] \in Nat
    BY DEF Reach
  <1>2. IsSeq(c) /\ Len(c) \in Nat /\ (c = <<>> => Len(c) = 0)
    BY SeqLen DEF Reach
  <1>3. 0 \in 0 .. Len(c) /\ Len(c) \in 0 .. Len(c)
    BY <1>2
  <1> QED
    BY <1>1, <1>2, <1>3

-----------------------------------------------------------------------------
(* The folder *)

LEMMA ReadableConst ==
  ASSUME NEW o, NEW s, NEW T, Readable(o, s, T)
  PROVE  /\ o.const \in BOOLEAN
         /\ o.const => o = vconst(o.n) /\ o.n \in Word /\ Val(o, s) = o.n
         /\ ~o.const => Reg(o, T)
  BY OperandFacts DEF Readable, Const, Reg, Val

\* What visit_add makes of a sum.
LEMMA FoldAdd ==
  ASSUME NEW d, NEW a, NEW b, NEW o, o = Inst("add", "none", d, <<a, b>>)
  PROVE  /\ a.const /\ b.const => Fold(o) = Mov(d, vconst((a.n + b.n) % WordSize))
         /\ a.const /\ ~b.const /\ a = vconst(0) => Fold(o) = Mov(d, b)
         /\ a.const /\ ~b.const /\ a # vconst(0) => Fold(o) = Inst("add", "none", d, <<b, a>>)
         /\ ~a.const /\ b = vconst(0) => Fold(o) = Mov(d, a)
         /\ ~a.const /\ b # vconst(0) => Fold(o) = o
  <1> DEFINE s == IF o.src[1].const THEN <<o.src[2], o.src[1]>> ELSE o.src
  <1>1. o.op = "add" /\ o.dst = d /\ o.src = <<a, b>> /\ o.src[1] = a /\ o.src[2] = b
    BY InstFacts
  <1>2. \A z : [o EXCEPT !.src = z] = Inst("add", "none", d, z)
    BY DEF Inst
  <1>3. Fold(o) = CASE o.op # "add" -> o
                    [] o.op = "add" /\ o.src[1].const /\ o.src[2].const ->
                         Mov(o.dst, vconst((o.src[1].n + o.src[2].n) % WordSize))
                    [] o.op = "add" /\ ~s[1].const /\ s[2] = vconst(0) -> Mov(o.dst, s[1])
                    [] OTHER -> [o EXCEPT !.src = s]
    BY DEF Fold
  <1>4. CASE a.const /\ b.const
    <2>1. s = <<b, a>>
      BY <1>1, <1>4
    <2>2. s[1] = b
      BY <2>1
    <2> HIDE DEF s
    <2>3. Fold(o) = Mov(d, vconst((a.n + b.n) % WordSize))
      BY <1>1, <1>3, <1>4, <2>2
    <2> QED
      BY <1>4, <2>3
  <1>5. CASE a.const /\ ~b.const
    <2>1. s = <<b, a>>
      BY <1>1, <1>5
    <2>2. s[1] = b /\ s[2] = a
      BY <2>1
    <2> HIDE DEF s
    <2>3. CASE a = vconst(0)
      <3>1. Fold(o) = Mov(d, b)
        BY <1>1, <1>3, <1>5, <2>2, <2>3
      <3> QED
        BY <1>5, <2>3, <3>1
    <2>4. CASE a # vconst(0)
      <3>1. Fold(o) = [o EXCEPT !.src = s]
        BY <1>1, <1>3, <1>5, <2>2, <2>4
      <3>2. Fold(o) = Inst("add", "none", d, <<b, a>>)
        BY <1>2, <2>1, <3>1
      <3> QED
        BY <1>5, <2>4, <3>2
    <2> QED
      BY <2>3, <2>4
  <1>6. CASE ~a.const
    <2>1. s = <<a, b>>
      BY <1>1, <1>6
    <2>2. s[1] = a /\ s[2] = b
      BY <2>1
    <2> HIDE DEF s
    <2>3. CASE b = vconst(0)
      <3>1. Fold(o) = Mov(d, a)
        BY <1>1, <1>3, <1>6, <2>2, <2>3
      <3> QED
        BY <1>6, <2>3, <3>1
    <2>4. CASE b # vconst(0)
      <3>1. Fold(o) = [o EXCEPT !.src = s]
        BY <1>1, <1>3, <1>6, <2>2, <2>4
      <3>2. Fold(o) = Inst("add", "none", d, <<a, b>>)
        BY <1>2, <2>1, <3>1
      <3> QED
        BY <1>6, <2>4, <3>2
    <2> QED
      BY <2>3, <2>4
  <1> QED
    BY <1>4, <1>5, <1>6

\* A folded instruction does what the instruction does.
LEMMA FoldExec ==
  ASSUME NEW s, Typed(s), NEW g, NEW T, NEW o, Ok(o, s, g, T), NEW m \in Word
  PROVE  /\ Ok(Fold(o), s, g, T) /\ Exec(Fold(o), s, m) = Exec(o, s, m)
         /\ Cost(Fold(o)) <= Cost(o)
  <1>1. CASE o.op # "add"
    <2>1. Fold(o) = o
      BY <1>1 DEF Fold
    <2> QED
      BY <2>1, CostNat
  <1>2. CASE o.op = "add"
    <2>1. OkArith(o, s, T)
      BY <1>2, OkOps DEF Ok
    <2>2. PICK fn, d, a, b :
            /\ fn \in BinFns
            /\ o = Inst(fn, "none", d, <<a, b>>) /\ Reg(d, T) /\ Readable(a, s, T) /\ Readable(b, s, T)
      BY <2>1 DEF OkArith
    <2>3. fn = "add" /\ "add" \in BinFns
      BY <1>2, <2>2, InstFacts
    <2> DEFINE x == Val(a, s)
               y == Val(b, s)
    <2>4. x \in Word /\ y \in Word
      BY <2>2, ReadableVal
    <2>5. Exec(o, s, m) = Put(s, d, Arith("add", x, y)) /\ Cost(o) = 1
      <3>1. Cost(o) = 1
        BY <1>2, <2>3 DEF Cost
      <3> QED
        BY <2>2, <2>3, <3>1, ExecArith
    <2>6. ASSUME NEW z, Readable(z, s, T), Val(z, s) = Arith("add", x, y), Fold(o) = Mov(d, z)
          PROVE  /\ Ok(Fold(o), s, g, T) /\ Exec(Fold(o), s, m) = Exec(o, s, m)
                 /\ Cost(Fold(o)) <= Cost(o)
      <3>1. OkMov(Fold(o), s, T)
        BY <2>2, <2>6 DEF OkMov
      <3>2. Fold(o).op = "mov"
        BY <2>6, InstFacts DEF Mov
      <3>3. Cost(Fold(o)) = 0
        BY <3>2, OpNames DEF Cost
      <3>4. Exec(Fold(o), s, m) = Exec(o, s, m)
        BY <2>5, <2>6, ExecMov
      <3> QED
        BY <2>5, <3>1, <3>3, <3>4 DEF Ok
    <2>7. /\ a.const \in BOOLEAN /\ b.const \in BOOLEAN
          /\ a.const => a = vconst(a.n) /\ a.n \in Word /\ x = a.n
          /\ b.const => b = vconst(b.n) /\ b.n \in Word /\ y = b.n
      BY <2>2, ReadableConst
    <2>8. o = Inst("add", "none", d, <<a, b>>)
      BY <2>2, <2>3
    <2>9. /\ Arith("add", x, y) = (x + y) % WordSize /\ Arith("add", x, y) = Arith("add", y, x)
          /\ Arith("add", x, 0) = x /\ Arith("add", y, 0) = y
      BY <2>4, AddRules
    <2>15. /\ a.const /\ b.const => Fold(o) = Mov(d, vconst((a.n + b.n) % WordSize))
           /\ a.const /\ ~b.const /\ a = vconst(0) => Fold(o) = Mov(d, b)
           /\ a.const /\ ~b.const /\ a # vconst(0) => Fold(o) = Inst("add", "none", d, <<b, a>>)
           /\ ~a.const /\ b = vconst(0) => Fold(o) = Mov(d, a)
           /\ ~a.const /\ b # vconst(0) => Fold(o) = o
      BY <2>8, FoldAdd
    <2> HIDE DEF x, y
    <2>10. CASE a.const /\ b.const
      <3> DEFINE w == (a.n + b.n) % WordSize
      <3>1. w \in Word
        <4>1. a.n + b.n \in Int
          BY <2>7, <2>10, WordRange
        <4> QED
          BY <4>1, ModWord
      <3>2. w = Arith("add", x, y) /\ Fold(o) = Mov(d, vconst(w))
        <4>1. x = a.n /\ y = b.n
          BY <2>7, <2>10
        <4>2. Fold(o) = Mov(d, vconst(w))
          BY <2>10, <2>15
        <4> QED
          BY <2>9, <4>1, <4>2
      <3> HIDE DEF w
      <3>3. Readable(vconst(w), s, T) /\ Val(vconst(w), s) = w
        BY <3>1, OperandFacts DEF Readable, Const, Val
      <3> QED
        BY <2>6, <3>2, <3>3
    <2>11. CASE a.const /\ ~b.const /\ a = vconst(0)
      <3>1. Fold(o) = Mov(d, b)
        BY <2>11, <2>15
      <3>2. x = 0
        BY <2>7, <2>11, OperandFacts
      <3>3. y = Arith("add", x, y)
        BY <2>9, <3>2
      <3> QED
        BY <2>2, <2>6, <3>1, <3>3 DEF y
    <2>12. CASE a.const /\ ~b.const /\ a # vconst(0)
      <3>1. Fold(o) = Inst("add", "none", d, <<b, a>>)
        BY <2>12, <2>15
      <3>2. OkArith(Fold(o), s, T)
        BY <2>2, <2>3, <3>1 DEF OkArith
      <3>3. Exec(Fold(o), s, m) = Put(s, d, Arith("add", y, x))
        BY <2>3, <3>1, ExecArith DEF x, y
      <3>4. Cost(Fold(o)) = 1
        <4>1. Fold(o).op = "add"
          BY <3>1, InstFacts
        <4> QED
          BY <2>3, <4>1 DEF Cost
      <3> QED
        BY <2>5, <2>9, <3>2, <3>3, <3>4 DEF Ok, x, y
    <2>13. CASE ~a.const /\ b = vconst(0)
      <3>1. Fold(o) = Mov(d, a)
        BY <2>13, <2>15
      <3>2. y = 0
        BY <2>7, <2>13, OperandFacts
      <3>3. x = Arith("add", x, y)
        BY <2>9, <3>2
      <3> QED
        BY <2>2, <2>6, <3>1, <3>3 DEF x
    <2>14. CASE ~a.const /\ b # vconst(0)
      <3>1. Fold(o) = o
        BY <2>14, <2>15
      <3> QED
        BY <3>1, CostNat
    <2> QED
      BY <2>7, <2>10, <2>11, <2>12, <2>13, <2>14
  <1> QED
    BY <1>1, <1>2

LEMMA ReachFold ==
  ASSUME NEW m \in Word, NEW g, NEW T, NEW c, NEW s0, NEW s1, NEW t0, NEW t1,
         Reach(c, s0, s1, t0, t1, m, g, T)
  PROVE  Reach([k \in DOMAIN c |-> Fold(c[k])], s0, s1, t0, t1, m, g, T)
  <1> DEFINE n == Len(c)
             f == [k \in DOMAIN c |-> Fold(c[k])]
             A == {Fold(c[k]) : k \in DOMAIN c}
  <1>1. n \in Nat /\ DOMAIN c = 1 .. n
    BY SeqLen DEF Reach
  <1>2. IsSeq(f) /\ Len(f) = n /\ \A k \in 1 .. n : f[k] = Fold(c[k])
    <2>1. f \in [1 .. n -> A] /\ \A k \in 1 .. n : f[k] = Fold(c[k])
      BY <1>1
    <2> HIDE DEF f, n, A
    <2>2. f \in Seq(A) /\ Len(f) = n
      BY <1>1, <2>1
    <2> QED
      BY <2>1, <2>2 DEF IsSeq
  <1>3. PICK q, qt :
       /\ q[0] = s0 /\ q[n] = s1 /\ qt[0] = t0 /\ qt[n] = t1
       /\ \A k \in 0 .. n : Typed(q[k]) /\ qt[k] \in Nat
       /\ \A k \in 1 .. n :
            /\ Ok(c[k], q[k - 1], g, T) /\ q[k] = Exec(c[k], q[k - 1], m)
            /\ qt[k - 1] + Cost(c[k]) <= qt[k]
    BY DEF Reach
  <1> HIDE DEF n, f, A
  <1>4. \A k \in 1 .. n :
            /\ Ok(f[k], q[k - 1], g, T) /\ q[k] = Exec(f[k], q[k - 1], m)
            /\ qt[k - 1] + Cost(f[k]) <= qt[k]
    <2> TAKE k \in 1 .. n
    <2>1. k - 1 \in 0 .. n /\ k \in 0 .. n
      BY <1>1
    <2>2. Typed(q[k - 1]) /\ qt[k - 1] \in Nat /\ qt[k] \in Nat
      BY <1>3, <2>1
    <2>3. /\ Ok(c[k], q[k - 1], g, T) /\ q[k] = Exec(c[k], q[k - 1], m)
          /\ qt[k - 1] + Cost(c[k]) <= qt[k]
      BY <1>3
    <2>4. /\ Ok(Fold(c[k]), q[k - 1], g, T) /\ Exec(Fold(c[k]), q[k - 1], m) = Exec(c[k], q[k - 1], m)
          /\ Cost(Fold(c[k])) <= Cost(c[k])
      BY <2>2, <2>3, FoldExec
    <2>5. Cost(c[k]) \in Nat /\ Cost(Fold(c[k])) \in Nat
      BY CostNat
    <2>6. qt[k - 1] + Cost(Fold(c[k])) <= qt[k]
      BY <2>2, <2>3, <2>4, <2>5
    <2> QED
      BY <1>2, <2>3, <2>4, <2>6
  <1>5. Reach(f, s0, s1, t0, t1, m, g, T)
    BY <1>2, <1>3, <1>4 DEF Reach
  <1> QED
    BY <1>5 DEF f

-----------------------------------------------------------------------------
(* The code selection makes *)

LEMMA PairDef ==
  ASSUME NEW a, NEW b
  PROVE  /\ DOMAIN <<a, b>> = {1, 2} /\ <<a, b>>[1] = a /\ <<a, b>>[2] = b
         /\ \A f : f = [k \in {1, 2} |-> f[k]] => f = <<f[1], f[2]>>
  <1>1. DOMAIN <<a, b>> = {1, 2} /\ <<a, b>>[1] = a /\ <<a, b>>[2] = b
    OBVIOUS
  <1>2. ASSUME NEW f, f = [k \in {1, 2} |-> f[k]]
        PROVE  f = <<f[1], f[2]>>
    <2> DEFINE e == <<f[1], f[2]>>
    <2>1. e = [k \in {1, 2} |-> IF k = 1 THEN f[1] ELSE f[2]]
      OBVIOUS
    <2>2. e = [k \in {1, 2} |-> f[k]]
      BY <2>1
    <2> QED
      BY <1>2, <2>2
  <1> QED
    BY <1>1, <1>2

\* Source k of an operation that has the sources in L lowered.
LowerMov(L, k, t, a) == IF k \in L THEN <<Mov(vtemp(t + 1), a)>> ELSE <<>>
LowerOpr(L, k, t, a) == IF k \in L THEN vtemp(t + 1) ELSE a
LowerCount(L, k) == Flag(k \in L)

LowerCode(L, t, u, op, x, d, a, b) ==
  (LowerMov(L, 1, t, a) \o LowerMov(L, 2, u, b))
    \o <<Inst(op, x, d, <<LowerOpr(L, 1, t, a), LowerOpr(L, 2, u, b)>>)>>

LEMMA LowerFacts ==
  ASSUME NEW L, NEW k, NEW t, NEW a
  PROVE  /\ LowerCount(L, k) \in 0 .. 1
         /\ k \in L => /\ LowerMov(L, k, t, a) = <<Mov(vtemp(t + 1), a)>>
                       /\ LowerOpr(L, k, t, a) = vtemp(t + 1) /\ LowerCount(L, k) = 1
         /\ k \notin L => LowerMov(L, k, t, a) = <<>> /\ LowerOpr(L, k, t, a) = a /\ LowerCount(L, k) = 0
  BY DEF LowerMov, LowerOpr, LowerCount, Flag

LEMMA CountFacts ==
  ASSUME NEW L, NEW k
  PROVE  /\ LowerCount(L, k) \in 0 .. 1
         /\ k \in L => LowerCount(L, k) = 1
         /\ k \notin L => LowerCount(L, k) = 0
  BY DEF LowerCount, Flag

LEMMA ConstCodeTwo ==
  ASSUME NEW op, NEW x, NEW d, NEW a, NEW b, NEW t \in Nat, NEW i, i = Inst(op, x, d, <<a, b>>),
         NEW L, L = Lowered(i), NEW u, u = t + LowerCount(L, 1)
  PROVE  /\ 1 \in L <=> a.const /\ ~Encodable(op, 1, a.n)
         /\ 2 \in L <=> b.const /\ ~Encodable(op, 2, b.n)
         /\ ConstCode(i, t) = LowerCode(L, t, u, op, x, d, a, b)
  <1> DEFINE f == [k \in DOMAIN i.src |-> IF k \in L THEN LowerTemp(i, k, t) ELSE i.src[k]]
             c1 == LowerMov(L, 1, t, a)
             c2 == LowerMov(L, 2, u, b)
             z == LowerOpr(L, 1, t, a)
             y == LowerOpr(L, 2, u, b)
  <1>1. i.op = op /\ i.src = <<a, b>> /\ DOMAIN i.src = {1, 2} /\ i.src[1] = a /\ i.src[2] = b
    BY InstFacts, PairDef
  <1>2. \A e : [i EXCEPT !.src = e] = Inst(op, x, d, e)
    BY DEF Inst
  <1>3. L = {k \in {1, 2} : i.src[k].const /\ ~Encodable(op, k, i.src[k].n)}
    BY <1>1 DEF Lowered
  <1>4. /\ 1 \in L <=> a.const /\ ~Encodable(op, 1, a.n)
        /\ 2 \in L <=> b.const /\ ~Encodable(op, 2, b.n)
    BY <1>1, <1>3
  <1>5. LowerTemp(i, 1, t) = vtemp(t + 1)
    BY DEF LowerTemp
  <1>6. LowerTemp(i, 2, t) = vtemp(u + 1)
    <2>1. CASE 1 \in L
      <3>1. LowerTemp(i, 2, t) = vtemp(t + 2) /\ LowerCount(L, 1) = 1
        BY <2>1, LowerFacts DEF LowerTemp
      <3>2. u + 1 = t + 2
        BY <3>1
      <3> QED
        BY <3>1, <3>2
    <2>2. CASE 1 \notin L
      <3>1. LowerTemp(i, 2, t) = vtemp(t + 1) /\ LowerCount(L, 1) = 0
        BY <2>2, LowerFacts DEF LowerTemp
      <3>2. u + 1 = t + 1
        BY <3>1
      <3> QED
        BY <3>1, <3>2
    <2> QED
      BY <2>1, <2>2
  <1>7. ConstCode(i, t) =
          (IF 1 \in L THEN <<Mov(LowerTemp(i, 1, t), i.src[1])>> ELSE <<>>)
          \o (IF 2 \in L THEN <<Mov(LowerTemp(i, 2, t), i.src[2])>> ELSE <<>>)
          \o <<[i EXCEPT !.src = f]>>
    BY DEF ConstCode
  <1>8. f = <<z, y>>
    <2>1. f = [k \in {1, 2} |-> f[k]]
      BY <1>1
    <2>2. f[1] = z /\ f[2] = y
      BY <1>1, <1>5, <1>6 DEF LowerOpr
    <2> HIDE DEF f, z, y
    <2> QED
      BY <2>1, <2>2, PairDef
  <1> HIDE DEF f
  <1>9. [i EXCEPT !.src = f] = Inst(op, x, d, <<z, y>>)
    BY <1>2, <1>8
  <1>10. (IF 1 \in L THEN <<Mov(LowerTemp(i, 1, t), i.src[1])>> ELSE <<>>) = c1
    BY <1>1, <1>5 DEF LowerMov
  <1>11. (IF 2 \in L THEN <<Mov(LowerTemp(i, 2, t), i.src[2])>> ELSE <<>>) = c2
    BY <1>1, <1>6 DEF LowerMov
  <1>12. ConstCode(i, t) = (c1 \o c2) \o <<Inst(op, x, d, <<z, y>>)>>
    BY <1>7, <1>9, <1>10, <1>11
  <1> QED
    BY <1>4, <1>12 DEF LowerCode

LEMMA ConstCodeOne ==
  ASSUME NEW op, NEW x, NEW d, NEW a, NEW t, NEW i, i = Inst(op, x, d, <<a>>),
         a.const => Encodable(op, 1, a.n)
  PROVE  Lowered(i) = {} /\ ConstCode(i, t) = <<i>>
  <1> DEFINE f == [k \in DOMAIN i.src |-> IF k \in Lowered(i) THEN LowerTemp(i, k, t) ELSE i.src[k]]
  <1>1. i.op = op /\ i.src = <<a>> /\ DOMAIN i.src = {1} /\ i.src[1] = a
    BY InstFacts
  <1>2. \A z : [i EXCEPT !.src = z] = Inst(op, x, d, z)
    BY DEF Inst
  <1>3. Lowered(i) = {}
    BY <1>1 DEF Lowered
  <1>4. ConstCode(i, t) = <<>> \o <<>> \o <<[i EXCEPT !.src = f]>>
    BY <1>3 DEF ConstCode
  <1>5. f = <<a>>
    <2>1. f = [k \in {1} |-> a]
      BY <1>1, <1>3
    <2>2. <<a>> = [k \in {1} |-> a]
      OBVIOUS
    <2> QED
      BY <2>1, <2>2
  <1> HIDE DEF f
  <1>6. [i EXCEPT !.src = f] = i
    BY <1>2, <1>5
  <1> QED
    BY <1>3, <1>4, <1>6

LEMMA ConstCodeNone ==
  ASSUME NEW op, NEW x, NEW d, NEW t, NEW i, i = Inst(op, x, d, <<>>)
  PROVE  Lowered(i) = {} /\ ConstCode(i, t) = <<i>>
  <1> DEFINE f == [k \in DOMAIN i.src |-> IF k \in Lowered(i) THEN LowerTemp(i, k, t) ELSE i.src[k]]
  <1>1. i.src = <<>> /\ DOMAIN i.src = {}
    BY InstFacts
  <1>2. \A z : [i EXCEPT !.src = z] = Inst(op, x, d, z)
    BY DEF Inst
  <1>3. Lowered(i) = {}
    BY <1>1 DEF Lowered
  <1>4. ConstCode(i, t) = <<>> \o <<>> \o <<[i EXCEPT !.src = f]>>
    BY <1>3 DEF ConstCode
  <1>5. f = <<>>
    <2>1. f = [k \in {} |-> 0]
      BY <1>1
    <2>2. <<>> = [k \in {} |-> 0]
      OBVIOUS
    <2> QED
      BY <2>1, <2>2
  <1> HIDE DEF f
  <1>6. [i EXCEPT !.src = f] = i
    BY <1>2, <1>5
  <1> QED
    BY <1>3, <1>4, <1>6

\* Nothing is aliased: the operation has no two-address form, or has it.
LEMMA SelectedPlain ==
  ASSUME NEW i, InForm(i), NEW t \in Nat, IsSeq(ConstCode(i, t))
  PROVE  /\ Selected(i, t) = ConstCode(i, t)
         /\ SelectedTemps(i, t) = Flag(1 \in Lowered(i)) + Flag(2 \in Lowered(i))
  <1>1. AliasCode(i, t) = <<>> /\ AliasTemps(i) = 0 /\ Aliased(i, t) = i
    BY DEF AliasCode, AliasTemps, Aliased, Flag
  <1> DEFINE c == ConstCode(i, t)
  <1>2. t + 0 = t
    OBVIOUS
  <1>3. Selected(i, t) = <<>> \o c
    BY <1>1, <1>2 DEF Selected
  <1>4. PICK A : c \in Seq(A)
    BY DEF IsSeq
  <1> HIDE DEF c
  <1>5. <<>> \o c = c
    BY <1>4
  <1>6. SelectedTemps(i, t) = 0 + Flag(1 \in Lowered(i)) + Flag(2 \in Lowered(i))
    BY <1>1 DEF SelectedTemps
  <1>7. Flag(1 \in Lowered(i)) \in Int
    BY DEF Flag
  <1> QED
    BY <1>3, <1>5, <1>6, <1>7 DEF c

\* The code for i is c and then that for j.
SelectedAs(i, t, c, j, u) ==
  /\ Selected(i, t) = c \o ConstCode(j, u)
  /\ SelectedTemps(i, t) = (u - t) + LowerCount(Lowered(j), 1) + LowerCount(Lowered(j), 2)

\* The first source is moved to the destination.
LEMMA SelectedMove ==
  ASSUME NEW fn \in BinFns, NEW d, NEW a, NEW b, a # d, b # d, NEW t \in Nat,
         NEW i, i = Inst(fn, "none", d, <<a, b>>), NEW j, j = Inst(fn, "none", d, <<d, b>>)
  PROVE  SelectedAs(i, t, <<Mov(d, a)>>, j, t)
  <1>1. i.op = fn /\ i.dst = d /\ i.src = <<a, b>> /\ i.src[1] = a /\ i.src[2] = b
    BY InstFacts
  <1>2. \A z : [i EXCEPT !.src = z] = Inst(fn, "none", d, z)
    BY DEF Inst
  <1>3. ~LiveInput(i) /\ ~InForm(i)
    BY <1>1 DEF LiveInput, InForm
  <1> DEFINE e == <<Mov(d, a)>>
  <1>4. AliasCode(i, t) = <<>> \o e /\ AliasTemps(i) = 0
    BY <1>1, <1>3 DEF AliasCode, AliasTemps, Flag
  <1>5. Aliased(i, t) = j
    BY <1>1, <1>2, <1>3 DEF Aliased
  <1>6. IsSeq(e)
    BY SeqOne
  <1>7. PICK A : e \in Seq(A)
    BY <1>6 DEF IsSeq
  <1> HIDE DEF e
  <1>8. <<>> \o e = e /\ t + 0 = t
    BY <1>7
  <1>9. Selected(i, t) = e \o ConstCode(j, t)
    BY <1>4, <1>5, <1>8 DEF Selected
  <1>10. SelectedTemps(i, t) = 0 + Flag(1 \in Lowered(j)) + Flag(2 \in Lowered(j))
    BY <1>4, <1>5 DEF SelectedTemps
  <1>11. SelectedTemps(i, t) = (t - t) + LowerCount(Lowered(j), 1) + LowerCount(Lowered(j), 2)
    BY <1>10 DEF LowerCount
  <1> QED
    BY <1>9, <1>11 DEF e, SelectedAs

\* The destination is also the second source: it is saved first.
LEMMA SelectedLive ==
  ASSUME NEW fn \in BinFns, NEW d, NEW a, a # d, NEW t \in Nat,
         NEW i, i = Inst(fn, "none", d, <<a, d>>),
         NEW j, j = Inst(fn, "none", d, <<d, vtemp(t + 1)>>)
  PROVE  SelectedAs(i, t, <<Mov(vtemp(t + 1), d)>> \o <<Mov(d, a)>>, j, t + 1)
  <1>1. i.op = fn /\ i.dst = d /\ i.src = <<a, d>> /\ i.src[1] = a /\ i.src[2] = d
    BY InstFacts
  <1>2. \A z : [i EXCEPT !.src = z] = Inst(fn, "none", d, z)
    BY DEF Inst
  <1>3. LiveInput(i) /\ ~InForm(i)
    BY <1>1 DEF LiveInput, InForm
  <1>4. AliasCode(i, t) = <<Mov(vtemp(t + 1), d)>> \o <<Mov(d, a)>> /\ AliasTemps(i) = 1
    BY <1>1, <1>3 DEF AliasCode, AliasTemps, Flag
  <1>5. Aliased(i, t) = j
    BY <1>1, <1>2, <1>3 DEF Aliased
  <1>6. SelectedTemps(i, t) = 1 + Flag(1 \in Lowered(j)) + Flag(2 \in Lowered(j))
    BY <1>4, <1>5 DEF SelectedTemps
  <1>7. (t + 1) - t = 1
    OBVIOUS
  <1>8. SelectedTemps(i, t) = ((t + 1) - t) + LowerCount(Lowered(j), 1) + LowerCount(Lowered(j), 2)
    BY <1>6, <1>7 DEF LowerCount
  <1>9. Selected(i, t) = (<<Mov(vtemp(t + 1), d)>> \o <<Mov(d, a)>>) \o ConstCode(j, t + 1)
    BY <1>4, <1>5 DEF Selected
  <1> QED
    BY <1>8, <1>9 DEF SelectedAs

-----------------------------------------------------------------------------
(* Machines that differ in temporaries above T *)

Agree(s, q, T) ==
  /\ Typed(s) /\ Typed(q)
  /\ s.sip = q.sip /\ s.acc = q.acc /\ s.nip = q.nip
  /\ \A r \in VRegs : r >= -T => s.regs[r] = q.regs[r]

LEMMA VRegFacts ==
  /\ MaxTemps \in Nat /\ MaxTemps >= 3
  /\ VRegs \subseteq Int
  /\ \A r \in GRegs : r \in VRegs /\ r > 0
  /\ \A t \in Nat : t > 0 /\ t <= MaxTemps => -t \in VRegs
  /\ \A n \in VRegs : n >= -MaxTemps
  /\ \A n \in VRegs : n > 0 => n \in GRegs
  <1>1. MaxTemps \in Nat /\ MaxTemps >= 3 /\ Regs \subseteq Nat
    BY LoweringAssumption
  <1>2. \A r \in GRegs : r \in VRegs /\ r > 0 /\ r \in Nat
    BY <1>1 DEF GRegs, VRegs
  <1>3. \A t \in Nat : t > 0 /\ t <= MaxTemps => -t \in VRegs
    BY <1>1 DEF VRegs
  <1>4. \A n \in VRegs : n \in GRegs \/ (n \in Int /\ n >= -MaxTemps /\ n < 0)
    BY <1>1 DEF VRegs
  <1> QED
    BY <1>1, <1>2, <1>3, <1>4

LEMMA AgreeRefl ==
  ASSUME NEW s, Typed(s), NEW T
  PROVE  Agree(s, s, T)
  BY DEF Agree

LEMMA AgreeTrans ==
  ASSUME NEW s, NEW q, NEW r, NEW T, Agree(s, q, T), Agree(q, r, T)
  PROVE  Agree(s, r, T)
  BY DEF Agree

LEMMA AgreeLess ==
  ASSUME NEW s, NEW q, NEW t \in Nat, NEW T \in Nat, T <= t, Agree(s, q, t)
  PROVE  Agree(s, q, T)
  <1>1. \A r \in VRegs : r >= -T => r >= -t
    BY VRegFacts
  <1> QED
    BY <1>1 DEF Agree

LEMMA AgreeVal ==
  ASSUME NEW s, NEW q, NEW T, Agree(s, q, T), NEW o, Readable(o, q, T)
  PROVE  Readable(o, s, T) /\ Val(o, s) = Val(o, q)
  <1>1. CASE Const(o)
    BY <1>1, OperandFacts DEF Const, Readable, Val
  <1>2. CASE Reg(o, T) /\ q.regs[o.n] # Undef
    <2>1. PICK n \in VRegs : n >= -T /\ o = vreg(n)
      BY <1>2 DEF Reg
    <2>2. o.n = n /\ o.const = FALSE
      BY <2>1, OperandFacts
    <2>3. s.regs[n] = q.regs[n]
      BY <2>1 DEF Agree
    <2> QED
      BY <1>2, <2>2, <2>3 DEF Readable, Val
  <1> QED
    BY <1>1, <1>2 DEF Readable

LEMMA AgreePrecise ==
  ASSUME NEW s, NEW q, NEW T \in Nat, Agree(s, q, T), NEW g, Precise(q, g)
  PROVE  Precise(s, g)
  <1>1. ASSUME NEW r \in GRegs
        PROVE  r \in VRegs /\ r >= -T
    <2>1. r \in VRegs /\ r > 0 /\ r \in Int
      BY VRegFacts
    <2> QED
      BY <2>1
  <1> QED
    BY <1>1 DEF Agree, Precise

LEMMA RegMax ==
  ASSUME NEW o, NEW T
  PROVE  /\ Reg(o, T) => Reg(o, MaxTemps)
         /\ \A s : Readable(o, s, T) => Readable(o, s, MaxTemps)
  BY VRegFacts DEF Reg, Readable

\* Writing the same word to the same register.
LEMMA PutAgree ==
  ASSUME NEW s, NEW q, NEW T, NEW t, Agree(s, q, t), NEW d, Reg(d, T), NEW w \in Word
  PROVE  Agree(Put(s, d, w), Put(q, d, w), t)
  <1>1. Typed(Put(s, d, w)) /\ Typed(Put(q, d, w))
    BY PutTyped DEF Agree
  <1>2. /\ Put(s, d, w).regs = [s.regs EXCEPT ![d.n] = w] /\ Put(s, d, w).sip = s.sip
        /\ Put(s, d, w).acc = s.acc /\ Put(s, d, w).nip = s.nip
        /\ Put(q, d, w).regs = [q.regs EXCEPT ![d.n] = w] /\ Put(q, d, w).sip = q.sip
        /\ Put(q, d, w).acc = q.acc /\ Put(q, d, w).nip = q.nip
    BY MachineFacts DEF Put
  <1>3. s.regs \in [VRegs -> Word \cup {Undef}] /\ q.regs \in [VRegs -> Word \cup {Undef}]
    BY DEF Agree, Typed
  <1>4. \A r \in VRegs : r >= -t => Put(s, d, w).regs[r] = Put(q, d, w).regs[r]
    BY <1>2, <1>3 DEF Agree
  <1> QED
    BY <1>1, <1>2, <1>4 DEF Agree

\* The second of two writes to a register counts.
LEMMA PutOver ==
  ASSUME NEW s, Typed(s), NEW T, NEW t, NEW d, Reg(d, T), NEW w \in Word, NEW u \in Word
  PROVE  Agree(Put(Put(s, d, u), d, w), Put(s, d, w), t)
  <1> DEFINE p == Put(s, d, u)
  <1>1. Typed(p) /\ Typed(Put(p, d, w)) /\ Typed(Put(s, d, w))
    BY PutTyped
  <1>2. /\ p.regs = [s.regs EXCEPT ![d.n] = u] /\ p.sip = s.sip /\ p.acc = s.acc /\ p.nip = s.nip
        /\ Put(p, d, w).regs = [p.regs EXCEPT ![d.n] = w] /\ Put(p, d, w).sip = p.sip
        /\ Put(p, d, w).acc = p.acc /\ Put(p, d, w).nip = p.nip
        /\ Put(s, d, w).regs = [s.regs EXCEPT ![d.n] = w] /\ Put(s, d, w).sip = s.sip
        /\ Put(s, d, w).acc = s.acc /\ Put(s, d, w).nip = s.nip
    BY MachineFacts DEF Put
  <1>3. s.regs \in [VRegs -> Word \cup {Undef}]
    BY DEF Typed
  <1> HIDE DEF p
  <1>4. \A r \in VRegs : Put(p, d, w).regs[r] = Put(s, d, w).regs[r]
    BY <1>2, <1>3
  <1>5. Agree(Put(p, d, w), Put(s, d, w), t)
    BY <1>1, <1>2, <1>4 DEF Agree
  <1> QED
    BY <1>5 DEF p

\* Registers apart, the same machine.
LEMMA MachineAgree ==
  ASSUME NEW s, NEW q, NEW t, Agree(s, q, t), NEW b \in Word \cup {Undef}, NEW c, NEW d \in Word
  PROVE  Agree(Machine(s.regs, b, c, d), Machine(q.regs, b, c, d), t)
  <1>1. s.regs \in [VRegs -> Word \cup {Undef}] /\ q.regs \in [VRegs -> Word \cup {Undef}]
    BY DEF Agree, Typed
  <1>2. Typed(Machine(s.regs, b, c, d)) /\ Typed(Machine(q.regs, b, c, d))
    BY <1>1, MachineTyped
  <1> QED
    BY <1>2, MachineFacts DEF Agree

\* A register that is written has the word, the others are as they were.
LEMMA PutVal ==
  ASSUME NEW s, Typed(s), NEW T, NEW d, Reg(d, T), NEW w \in Word
  PROVE  /\ Readable(d, Put(s, d, w), T) /\ Val(d, Put(s, d, w)) = w
         /\ \A o, U : Readable(o, s, U) /\ o # d =>
              Readable(o, Put(s, d, w), U) /\ Val(o, Put(s, d, w)) = Val(o, s)
  <1>1. Put(s, d, w).regs = [s.regs EXCEPT ![d.n] = w]
    BY MachineFacts DEF Put
  <1>2. s.regs \in [VRegs -> Word \cup {Undef}]
    BY DEF Typed
  <1>3. w # Undef
    BY WordRange DEF Undef
  <1>4. PICK n \in VRegs : n >= -T /\ d = vreg(n)
    BY DEF Reg
  <1>5. d.n = n /\ d.const = FALSE
    BY <1>4, OperandFacts
  <1>6. Readable(d, Put(s, d, w), T) /\ Val(d, Put(s, d, w)) = w
    BY <1>1, <1>2, <1>3, <1>5 DEF Readable, Val
  <1>7. ASSUME NEW o, NEW U, Readable(o, s, U), o # d
        PROVE  Readable(o, Put(s, d, w), U) /\ Val(o, Put(s, d, w)) = Val(o, s)
    <2>1. CASE Const(o)
      BY <2>1, OperandFacts DEF Const, Readable, Val
    <2>2. CASE Reg(o, U) /\ s.regs[o.n] # Undef
      <3>1. PICK k \in VRegs : k >= -U /\ o = vreg(k)
        BY <2>2 DEF Reg
      <3>2. o.n = k /\ o.const = FALSE /\ k # n
        BY <1>4, <1>7, <3>1, OperandFacts
      <3>3. Put(s, d, w).regs[k] = s.regs[k]
        BY <1>1, <1>2, <1>5, <3>2
      <3> QED
        BY <2>2, <3>2, <3>3 DEF Readable, Val
    <2> QED
      BY <1>7, <2>1, <2>2 DEF Readable
  <1> QED
    BY <1>6, <1>7

\* A temporary above t is not seen below.
LEMMA PutTemp ==
  ASSUME NEW s, Typed(s), NEW t \in Nat, t + 1 <= MaxTemps, NEW w \in Word
  PROVE  /\ Reg(vtemp(t + 1), t + 1) /\ Agree(Put(s, vtemp(t + 1), w), s, t)
  <1> DEFINE n == -(t + 1)
             d == vtemp(t + 1)
  <1>1. n \in VRegs /\ n < -t /\ n >= -(t + 1)
    BY VRegFacts
  <1>2. d = vreg(n) /\ d.n = n
    BY OperandFacts DEF vtemp
  <1> HIDE DEF d, n
  <1>3. Reg(d, t + 1)
    BY <1>1, <1>2 DEF Reg
  <1>4. /\ Put(s, d, w).regs = [s.regs EXCEPT ![d.n] = w] /\ Put(s, d, w).sip = s.sip
        /\ Put(s, d, w).acc = s.acc /\ Put(s, d, w).nip = s.nip
    BY MachineFacts DEF Put
  <1>5. Typed(Put(s, d, w)) /\ s.regs \in [VRegs -> Word \cup {Undef}]
    BY <1>3, PutTyped DEF Typed
  <1>6. \A r \in VRegs : r >= -t => r # n
    BY <1>1, VRegFacts
  <1>7. Agree(Put(s, d, w), s, t)
    BY <1>2, <1>4, <1>5, <1>6 DEF Agree
  <1> QED
    BY <1>3, <1>7 DEF d

-----------------------------------------------------------------------------
(* Host code: operations the host has, executed one after the other *)

Legal(o) ==
  /\ o.op \in BinFns => o.src[1] = o.dst
  /\ \A j \in DOMAIN o.src : o.src[j].const =>
       /\ ImmCt(o.op, j) # "NO"
       /\ ImmCt(o.op, j) = "S32" => i32(o.src[j].n) >= 0

HostCode(c, s0, s1, m, g) ==
  /\ \A k \in DOMAIN c : Legal(c[k])
  /\ \E t0, t1 : Reach(c, s0, s1, t0, t1, m, g, MaxTemps)

\* No operation needs more than two temporaries, whatever was there before.
LEMMA ReachAny ==
  ASSUME NEW m, NEW g, NEW T, NEW c, NEW s0, NEW s1, NEW t0, NEW t1,
         Reach(c, s0, s1, t0, t1, m, g, T), NEW t \in Nat
  PROVE  \E u : Reach(c, s0, s1, t, u, m, g, T)
  <1>1. PICK q :
       /\ q[0] = s0 /\ q[Len(c)] = s1
       /\ \A k \in 0 .. Len(c) : Typed(q[k])
       /\ \A k \in 1 .. Len(c) : Ok(c[k], q[k - 1], g, T) /\ q[k] = Exec(c[k], q[k - 1], m)
    BY DEF Reach
  <1>2. IsSeq(c) /\ Len(c) \in Nat
    BY ReachEnds, SeqLen
  <1> DEFINE n == Len(c)
             qt == [k \in 0 .. n |-> t + 2 * k]
  <1>3. /\ qt[0] = t /\ \A k \in 0 .. n : qt[k] \in Nat /\ qt[k] = t + 2 * k
    BY <1>2
  <1>4. ASSUME NEW k \in 1 .. n
        PROVE  qt[k - 1] + Cost(c[k]) <= qt[k]
    <2>1. k - 1 \in 0 .. n /\ k \in 0 .. n /\ k \in Int
      BY <1>2
    <2>2. Cost(c[k]) \in 0 .. 2
      BY CostNat
    <2>3. qt[k - 1] = t + 2 * (k - 1) /\ qt[k] = t + 2 * k
      BY <1>3, <2>1
    <2> QED
      BY <2>1, <2>2, <2>3
  <1> HIDE DEF qt
  <1>5. Reach(c, s0, s1, t, qt[n], m, g, T)
    BY <1>1, <1>2, <1>3, <1>4 DEF Reach
  <1> QED
    BY <1>5

LEMMA HostNil ==
  ASSUME NEW s, Typed(s), NEW m, NEW g
  PROVE  HostCode(<<>>, s, s, m, g)
  <1>1. Reach(<<>>, s, s, 0, 0, m, g, MaxTemps)
    BY ReachNil
  <1> QED
    BY <1>1 DEF HostCode

LEMMA HostOne ==
  ASSUME NEW s, Typed(s), NEW m \in Word, NEW g, NEW o, Ok(o, s, g, MaxTemps), Legal(o)
  PROVE  HostCode(<<o>>, s, Exec(o, s, m), m, g)
  <1>1. 0 + Cost(o) <= 2
    BY CostNat
  <1>2. Reach(<<o>>, s, Exec(o, s, m), 0, 2, m, g, MaxTemps)
    BY <1>1, ReachOne
  <1>3. \A k \in DOMAIN <<o>> : <<o>>[k] = o
    OBVIOUS
  <1> DEFINE c == <<o>>
  <1>4. \A k \in DOMAIN c : Legal(c[k])
    BY <1>3
  <1> QED
    BY <1>2, <1>4 DEF HostCode

LEMMA HostCat ==
  ASSUME NEW m, NEW g, NEW c, NEW e, NEW s0, NEW s1, NEW s2,
         HostCode(c, s0, s1, m, g), HostCode(e, s1, s2, m, g)
  PROVE  HostCode(c \o e, s0, s2, m, g)
  <1>1. PICK t0, t1 : Reach(c, s0, s1, t0, t1, m, g, MaxTemps)
    BY DEF HostCode
  <1>2. t1 \in Nat /\ IsSeq(c)
    BY <1>1, ReachEnds
  <1>3. PICK u0, u1 : Reach(e, s1, s2, u0, u1, m, g, MaxTemps)
    BY DEF HostCode
  <1>4. PICK t2 : Reach(e, s1, s2, t1, t2, m, g, MaxTemps)
    BY <1>2, <1>3, ReachAny
  <1>5. Reach(c \o e, s0, s2, t0, t2, m, g, MaxTemps)
    BY <1>1, <1>4, ReachCat
  <1>6. IsSeq(e)
    BY <1>3, ReachEnds
  <1> DEFINE a == Len(c)
             b == Len(e)
             f == c \o e
  <1>7. /\ a \in Nat /\ b \in Nat /\ DOMAIN f = 1 .. a + b
        /\ DOMAIN c = 1 .. a /\ DOMAIN e = 1 .. b
        /\ \A k \in 1 .. a : f[k] = c[k]
        /\ \A k \in a + 1 .. a + b : f[k] = e[k - a]
    BY <1>2, <1>6, SeqCat, SeqLen
  <1> HIDE DEF a, b, f
  <1>8. ASSUME NEW k \in DOMAIN f
        PROVE  Legal(f[k])
    <2>1. CASE k <= a
      <3>1. k \in DOMAIN c /\ f[k] = c[k]
        BY <1>7, <2>1
      <3> QED
        BY <3>1 DEF HostCode
    <2>2. CASE k > a
      <3>1. k - a \in DOMAIN e /\ f[k] = e[k - a]
        BY <1>7, <2>2
      <3> QED
        BY <3>1 DEF HostCode
    <2> QED
      BY <1>7, <2>1, <2>2
  <1> QED
    BY <1>5, <1>8 DEF HostCode, f

LEMMA HostHead ==
  ASSUME NEW m, NEW g, NEW c, NEW s0, NEW s1, HostCode(c, s0, s1, m, g), c # <<>>
  PROVE  /\ IsSeq(c) /\ Typed(s0) /\ Ok(Head(c), s0, g, MaxTemps) /\ Legal(Head(c))
         /\ HostCode(Tail(c), Exec(Head(c), s0, m), s1, m, g)
  <1>1. PICK t0, t1 : Reach(c, s0, s1, t0, t1, m, g, MaxTemps)
    BY DEF HostCode
  <1>2. Typed(s0) /\ Ok(Head(c), s0, g, MaxTemps)
    BY <1>1, ReachHead
  <1>3. PICK t : Reach(Tail(c), Exec(Head(c), s0, m), s1, t, t1, m, g, MaxTemps)
    BY <1>1, ReachHead
  <1> DEFINE n == Len(c)
             e == Tail(c)
  <1>4. IsSeq(c) /\ n \in Nat /\ DOMAIN c = 1 .. n
    BY <1>1, ReachEnds, SeqLen
  <1>5. /\ n > 0 /\ Head(c) = c[1] /\ IsSeq(e) /\ Len(e) = n - 1
        /\ \A k \in 1 .. n - 1 : e[k] = c[k + 1]
    BY <1>4, SeqTail
  <1>6. DOMAIN e = 1 .. n - 1
    BY <1>5, SeqLen
  <1> HIDE DEF n, e
  <1>7. Legal(Head(c))
    BY <1>4, <1>5 DEF HostCode
  <1>8. ASSUME NEW k \in DOMAIN e
        PROVE  Legal(e[k])
    <2>1. k \in 1 .. n - 1 /\ k + 1 \in DOMAIN c
      BY <1>4, <1>6
    <2> QED
      BY <1>5, <2>1 DEF HostCode
  <1> QED
    BY <1>2, <1>3, <1>4, <1>7, <1>8 DEF HostCode, e

LEMMA HostEnds ==
  ASSUME NEW m, NEW g, NEW c, NEW s0, NEW s1, HostCode(c, s0, s1, m, g)
  PROVE  /\ IsSeq(c) /\ Typed(s0) /\ Typed(s1)
         /\ c = <<>> => s0 = s1
  BY ReachEnds DEF HostCode

-----------------------------------------------------------------------------
(* Legal operations *)

LEMMA EncodableLegal ==
  ASSUME NEW op, NEW k, NEW n \in Word, Encodable(op, k, n)
  PROVE  /\ ImmCt(op, k) # "NO"
         /\ ImmCt(op, k) = "S32" => i32(n) >= 0
  <1>1. ImmCt(op, k) # "NO"
    BY DEF Encodable
  <1>2. ASSUME ImmCt(op, k) = "S32"
        PROVE  i32(n) >= 0
    <2>1. n < Pow2[WordBits - 1]
      BY <1>2 DEF Encodable
    <2>2. n \in Nat /\ WordBits - 1 \in Nat
      BY WordRange, LoweringAssumption
    <2>3. Pow2[WordBits - 1] \in Nat
      BY <2>2, Pow2Pos
    <2>4. i32(n) = n
      BY <2>1, <2>2, <2>3 DEF i32, SignedOf
    <2> QED
      BY <2>2, <2>4
  <1> QED
    BY <1>1, <1>2

LEMMA LegalTwo ==
  ASSUME NEW op, NEW x, NEW d, NEW a, NEW b, op \in BinFns => a = d,
         a.const => a.n \in Word /\ Encodable(op, 1, a.n),
         b.const => b.n \in Word /\ Encodable(op, 2, b.n),
         NEW o, o = Inst(op, x, d, <<a, b>>)
  PROVE  Legal(o)
  <1>1. o.op = op /\ o.dst = d /\ DOMAIN o.src = {1, 2} /\ o.src[1] = a /\ o.src[2] = b
    BY InstFacts, PairDef
  <1>2. a.const => ImmCt(op, 1) # "NO" /\ (ImmCt(op, 1) = "S32" => i32(a.n) >= 0)
    BY EncodableLegal
  <1>3. b.const => ImmCt(op, 2) # "NO" /\ (ImmCt(op, 2) = "S32" => i32(b.n) >= 0)
    BY EncodableLegal
  <1> QED
    BY <1>1, <1>2, <1>3 DEF Legal

LEMMA LegalOne ==
  ASSUME NEW op, NEW x, NEW d, NEW a, op \notin BinFns,
         a.const => a.n \in Word /\ Encodable(op, 1, a.n),
         NEW o, o = Inst(op, x, d, <<a>>)
  PROVE  Legal(o)
  <1>1. o.op = op /\ DOMAIN o.src = {1} /\ o.src[1] = a
    BY InstFacts
  <1>2. a.const => ImmCt(op, 1) # "NO" /\ (ImmCt(op, 1) = "S32" => i32(a.n) >= 0)
    BY EncodableLegal
  <1> QED
    BY <1>1, <1>2 DEF Legal

LEMMA LegalNone ==
  ASSUME NEW op, NEW x, NEW d, op \notin BinFns, NEW o, o = Inst(op, x, d, <<>>)
  PROVE  Legal(o)
  <1>1. o.op = op /\ DOMAIN o.src = {}
    BY InstFacts
  <1> QED
    BY <1>1 DEF Legal

\* Immediates the tables of arch_traits.cpp allow anywhere.
LEMMA EncodableOps ==
  ASSUME NEW n
  PROVE  /\ Encodable("mov", 1, n) /\ Encodable("vmload", 1, n) /\ Encodable("vmstore", 1, n)
         /\ Encodable("and", 2, n)
  <1>1. ImmCt("mov", 1) = "ANY" /\ ImmCt("vmload", 1) = "U32" /\ ImmCt("vmstore", 1) = "ANY"
    BY DEF ImmCt, ShiftFns
  <1>2. ImmCt("and", 2) = "U32"
    BY DEF ImmCt, ShiftFns
  <1> QED
    BY <1>1, <1>2 DEF Encodable

LEMMA MovLegal ==
  ASSUME NEW d, NEW a, NEW s, NEW T, Readable(a, s, T)
  PROVE  Legal(Mov(d, a))
  <1>1. a.const => a.n \in Word /\ Encodable("mov", 1, a.n)
    BY ReadableConst, EncodableOps
  <1>2. "mov" \notin BinFns
    BY OpNames
  <1> QED
    BY <1>1, <1>2, LegalOne DEF Mov

\* A move to a register.
LEMMA MovCode ==
  ASSUME NEW s, Typed(s), NEW d, NEW a, NEW T, Reg(d, T), Readable(a, s, T),
         NEW m \in Word, NEW g
  PROVE  /\ HostCode(<<Mov(d, a)>>, s, Put(s, d, Val(a, s)), m, g)
         /\ Val(a, s) \in Word
  <1>1. Reg(d, MaxTemps) /\ Readable(a, s, MaxTemps)
    BY RegMax
  <1>2. Ok(Mov(d, a), s, g, MaxTemps)
    BY <1>1 DEF Ok, OkMov
  <1>3. Legal(Mov(d, a))
    BY MovLegal
  <1>4. Exec(Mov(d, a), s, m) = Put(s, d, Val(a, s))
    BY ExecMov
  <1>5. HostCode(<<Mov(d, a)>>, s, Exec(Mov(d, a), s, m), m, g)
    BY <1>2, <1>3, HostOne
  <1> QED
    BY <1>4, <1>5, ReadableVal

LEMMA ReadableMore ==
  ASSUME NEW o, NEW s, NEW t \in Nat, NEW u \in Nat, t <= u
  PROVE  /\ Readable(o, s, t) => Readable(o, s, u)
         /\ Reg(o, t) => Reg(o, u)
  <1>1. \A n \in VRegs : n >= -t => n >= -u
    BY VRegFacts
  <1>2. Reg(o, t) => Reg(o, u)
    BY <1>1 DEF Reg
  <1> QED
    BY <1>2 DEF Readable

\* A source that is put into the next temporary, or left alone.
LEMMA LowerOne ==
  ASSUME NEW L, NEW k, NEW s, Typed(s), NEW t \in Nat, NEW a, Readable(a, s, t),
         t + LowerCount(L, k) <= MaxTemps, NEW m \in Word, NEW g
  PROVE  \E s1 : /\ HostCode(LowerMov(L, k, t, a), s, s1, m, g) /\ Agree(s1, s, t)
                 /\ Readable(LowerOpr(L, k, t, a), s1, t + LowerCount(L, k))
                 /\ Val(LowerOpr(L, k, t, a), s1) = Val(a, s)
  <1>1. CASE k \in L
    <2>1. LowerCount(L, k) = 1
      BY <1>1, LowerFacts
    <2>2. t + 1 <= MaxTemps /\ t <= t + 1 /\ t + 1 \in Nat
      BY <2>1
    <2> DEFINE d == vtemp(t + 1)
               w == Val(a, s)
               s1 == Put(s, d, w)
    <2>3. Readable(a, s, t + 1) /\ w \in Word
      BY <2>2, ReadableMore, ReadableVal
    <2>4. Reg(d, t + 1) /\ Agree(s1, s, t)
      BY <2>2, <2>3, PutTemp
    <2>5. HostCode(<<Mov(d, a)>>, s, s1, m, g)
      BY <2>3, <2>4, MovCode
    <2>6. Readable(d, s1, t + 1) /\ Val(d, s1) = w
      BY <2>3, <2>4, PutVal
    <2>7. LowerMov(L, k, t, a) = <<Mov(d, a)>> /\ LowerOpr(L, k, t, a) = d
      BY <1>1, LowerFacts
    <2> HIDE DEF s1, d
    <2> QED
      BY <2>1, <2>4, <2>5, <2>6, <2>7
  <1>2. CASE k \notin L
    <2>1. LowerCount(L, k) = 0 /\ t + 0 = t /\ LowerMov(L, k, t, a) = <<>> /\ LowerOpr(L, k, t, a) = a
      BY <1>2, LowerFacts
    <2>2. HostCode(<<>>, s, s, m, g) /\ Agree(s, s, t)
      BY HostNil, AgreeRefl
    <2> QED
      BY <2>1, <2>2
  <1> QED
    BY <1>1, <1>2

\* Both sources of an operation, one after the other.
LEMMA LowerBoth ==
  ASSUME NEW L, NEW s, Typed(s), NEW t \in Nat, NEW a, NEW b,
         Readable(a, s, t), Readable(b, s, t),
         NEW u, u = t + LowerCount(L, 1), u + LowerCount(L, 2) <= MaxTemps, NEW m \in Word, NEW g,
         NEW c1, c1 = LowerMov(L, 1, t, a), NEW c2, c2 = LowerMov(L, 2, u, b),
         NEW z, z = LowerOpr(L, 1, t, a), NEW y, y = LowerOpr(L, 2, u, b)
  PROVE  \E s2 : /\ HostCode(c1 \o c2, s, s2, m, g) /\ Agree(s2, s, t)
                 /\ Readable(z, s2, MaxTemps) /\ Val(z, s2) = Val(a, s)
                 /\ Readable(y, s2, MaxTemps) /\ Val(y, s2) = Val(b, s)
  <1>1. LowerCount(L, 1) \in 0 .. 1 /\ LowerCount(L, 2) \in 0 .. 1 /\ MaxTemps \in Nat
    BY VRegFacts, LowerFacts
  <1>2. u \in Nat /\ t <= u /\ t + LowerCount(L, 1) <= MaxTemps
    BY <1>1
  <1>3. PICK s1 : /\ HostCode(c1, s, s1, m, g) /\ Agree(s1, s, t)
                  /\ Readable(z, s1, u) /\ Val(z, s1) = Val(a, s)
    BY <1>2, LowerOne
  <1>4. Typed(s1) /\ Readable(b, s1, u) /\ Val(b, s1) = Val(b, s)
    BY <1>2, <1>3, AgreeVal, ReadableMore DEF Agree
  <1>5. PICK s2 : /\ HostCode(c2, s1, s2, m, g) /\ Agree(s2, s1, u)
                  /\ Readable(y, s2, u + LowerCount(L, 2)) /\ Val(y, s2) = Val(b, s1)
    BY <1>2, <1>4, LowerOne
  <1>6. HostCode(c1 \o c2, s, s2, m, g)
    BY <1>3, <1>5, HostCat
  <1>7. Agree(s2, s, t)
    BY <1>2, <1>3, <1>5, AgreeLess, AgreeTrans
  <1>8. Readable(z, s2, u) /\ Val(z, s2) = Val(z, s1)
    BY <1>3, <1>5, AgreeVal
  <1>9. Readable(z, s2, MaxTemps) /\ Readable(y, s2, MaxTemps)
    BY <1>5, <1>8, RegMax
  <1> QED
    BY <1>3, <1>4, <1>5, <1>6, <1>7, <1>8, <1>9

\* QSel::SelectOperands on the constants of an operation with two sources: moves,
\* then the operation on sources of the same values that it can encode.
Lowers(i, op, x, d, a, b, s, t, m, g) ==
  \E c, s1, z, y :
    /\ ConstCode(i, t) = c \o <<Inst(op, x, d, <<z, y>>)>>
    /\ HostCode(c, s, s1, m, g) /\ Agree(s1, s, t)
    /\ Readable(z, s1, MaxTemps) /\ Val(z, s1) = Val(a, s)
    /\ Readable(y, s1, MaxTemps) /\ Val(y, s1) = Val(b, s)
    /\ ~a.const => z = a
    /\ z.const => z.n \in Word /\ Encodable(op, 1, z.n)
    /\ y.const => y.n \in Word /\ Encodable(op, 2, y.n)

LEMMA ConstSeg ==
  ASSUME NEW op, NEW x, NEW d, NEW a, NEW b, NEW i, i = Inst(op, x, d, <<a, b>>),
         NEW s, Typed(s), NEW t \in Nat, Readable(a, s, t), Readable(b, s, t),
         t + LowerCount(Lowered(i), 1) + LowerCount(Lowered(i), 2) <= MaxTemps,
         NEW m \in Word, NEW g
  PROVE  Lowers(i, op, x, d, a, b, s, t, m, g)
  <1> DEFINE L == Lowered(i)
             u == t + LowerCount(L, 1)
             c1 == LowerMov(L, 1, t, a)
             c2 == LowerMov(L, 2, u, b)
             z == LowerOpr(L, 1, t, a)
             y == LowerOpr(L, 2, u, b)
  <1>1. u + LowerCount(L, 2) <= MaxTemps
    OBVIOUS
  <1> HIDE DEF u
  <1>2. /\ 1 \in L <=> a.const /\ ~Encodable(op, 1, a.n)
        /\ 2 \in L <=> b.const /\ ~Encodable(op, 2, b.n)
        /\ ConstCode(i, t) = (c1 \o c2) \o <<Inst(op, x, d, <<z, y>>)>>
    <2>1. u = t + LowerCount(L, 1) /\ L = Lowered(i)
      BY DEF u
    <2> HIDE DEF L
    <2>2. /\ 1 \in L <=> a.const /\ ~Encodable(op, 1, a.n)
          /\ 2 \in L <=> b.const /\ ~Encodable(op, 2, b.n)
          /\ ConstCode(i, t) = LowerCode(L, t, u, op, x, d, a, b)
      BY <2>1, ConstCodeTwo
    <2> QED
      BY <2>2 DEF LowerCode
  <1>3. PICK s2 : /\ HostCode(c1 \o c2, s, s2, m, g) /\ Agree(s2, s, t)
                  /\ Readable(z, s2, MaxTemps) /\ Val(z, s2) = Val(a, s)
                  /\ Readable(y, s2, MaxTemps) /\ Val(y, s2) = Val(b, s)
    <2>1. u = t + LowerCount(L, 1) /\ c1 = LowerMov(L, 1, t, a) /\ c2 = LowerMov(L, 2, u, b)
      BY DEF u
    <2>2. z = LowerOpr(L, 1, t, a) /\ y = LowerOpr(L, 2, u, b)
      OBVIOUS
    <2> HIDE DEF L, c1, c2, z, y
    <2> QED
      BY <1>1, <2>1, <2>2, LowerBoth
  <1>4. vtemp(t + 1).const = FALSE /\ vtemp(u + 1).const = FALSE
    BY OperandFacts DEF vtemp
  <1>5. /\ ~a.const => z = a
        /\ z.const => z.n \in Word /\ Encodable(op, 1, z.n)
    BY <1>2, <1>4, LowerFacts, ReadableConst
  <1>6. y.const => y.n \in Word /\ Encodable(op, 2, y.n)
    BY <1>2, <1>4, LowerFacts, ReadableConst
  <1> HIDE DEF c1, c2, z, y, L
  <1> QED
    BY <1>2, <1>3, <1>5, <1>6 DEF Lowers

\* What selection does for o: code that does what o does, but for temporaries.
Segment(o, s, t, m, g) ==
  /\ \E s1 : HostCode(Selected(o, t), s, s1, m, g) /\ Agree(s1, Exec(o, s, m), t)
  /\ SelectedTemps(o, t) \in 0 .. Cost(o)

\* Nothing to do.
LEMMA SegmentSame ==
  ASSUME NEW o, NEW s, Typed(s), NEW t \in Nat, NEW m \in Word, NEW g, NEW T,
         Ok(o, s, g, MaxTemps), Legal(o), InForm(o), Lowered(o) = {}, ConstCode(o, t) = <<o>>
  PROVE  Segment(o, s, t, m, g)
  <1>1. IsSeq(ConstCode(o, t))
    BY SeqOne
  <1>2. Selected(o, t) = <<o>>
    BY <1>1, SelectedPlain
  <1>3. SelectedTemps(o, t) = Flag(1 \in Lowered(o)) + Flag(2 \in Lowered(o))
    BY <1>1, SelectedPlain
  <1>4. Flag(1 \in Lowered(o)) = 0 /\ Flag(2 \in Lowered(o)) = 0
    BY DEF Flag
  <1>5. SelectedTemps(o, t) = 0
    BY <1>3, <1>4
  <1>6. HostCode(<<o>>, s, Exec(o, s, m), m, g)
    BY HostOne
  <1>7. Agree(Exec(o, s, m), Exec(o, s, m), t)
    BY ExecTyped, AgreeRefl
  <1>8. SelectedTemps(o, t) \in 0 .. Cost(o)
    BY <1>5, CostNat
  <1> QED
    BY <1>2, <1>6, <1>7, <1>8 DEF Segment

\* Arithmetic in two-address form.
LEMMA ArithInForm ==
  ASSUME NEW fn \in BinFns, NEW d, NEW b, NEW i, i = Inst(fn, "none", d, <<d, b>>),
         NEW s, Typed(s), NEW t \in Nat, NEW T \in Nat, T <= t, Reg(d, T),
         Readable(d, s, t), Readable(b, s, t),
         t + LowerCount(Lowered(i), 2) <= MaxTemps, NEW m \in Word, NEW g
  PROVE  /\ \E s2 : /\ HostCode(ConstCode(i, t), s, s2, m, g)
                    /\ Agree(s2, Put(s, d, Arith(fn, Val(d, s), Val(b, s))), t)
         /\ 1 \notin Lowered(i) /\ (2 \in Lowered(i) => b.const /\ fn # "and")
  <1>1. d.const = FALSE
    BY OperandFacts DEF Reg
  <1>2. /\ 1 \notin Lowered(i)
        /\ 2 \in Lowered(i) => b.const /\ ~Encodable(fn, 2, b.n)
    <2> DEFINE L == Lowered(i)
               u == t + LowerCount(L, 1)
    <2>1. L = Lowered(i) /\ u = t + LowerCount(L, 1)
      OBVIOUS
    <2> HIDE DEF L, u
    <2>2. /\ 1 \in L <=> d.const /\ ~Encodable(fn, 1, d.n)
          /\ 2 \in L <=> b.const /\ ~Encodable(fn, 2, b.n)
      BY <2>1, ConstCodeTwo
    <2> QED
      BY <1>1, <2>1, <2>2
  <1>3. 2 \in Lowered(i) => fn # "and"
    BY <1>2, EncodableOps
  <1>4. LowerCount(Lowered(i), 1) = 0 /\ LowerCount(Lowered(i), 2) \in 0 .. 1
    BY <1>2, LowerFacts
  <1>5. t + LowerCount(Lowered(i), 1) + LowerCount(Lowered(i), 2) <= MaxTemps
    BY <1>4
  <1>6. PICK c, s1, z, y :
           /\ ConstCode(i, t) = c \o <<Inst(fn, "none", d, <<z, y>>)>>
           /\ HostCode(c, s, s1, m, g) /\ Agree(s1, s, t)
           /\ Readable(z, s1, MaxTemps) /\ Val(z, s1) = Val(d, s)
           /\ Readable(y, s1, MaxTemps) /\ Val(y, s1) = Val(b, s)
           /\ ~d.const => z = d
           /\ z.const => z.n \in Word /\ Encodable(fn, 1, z.n)
           /\ y.const => y.n \in Word /\ Encodable(fn, 2, y.n)
    <2>1. Lowers(i, fn, "none", d, d, b, s, t, m, g)
      BY <1>5, ConstSeg
    <2> QED
      BY <2>1 DEF Lowers
  <1>7. z = d /\ Typed(s1)
    BY <1>1, <1>6 DEF Agree
  <1> DEFINE o == Inst(fn, "none", d, <<d, y>>)
             w == Arith(fn, Val(d, s), Val(b, s))
  <1>8. Ok(o, s1, g, MaxTemps)
    <2>1. Reg(d, MaxTemps)
      BY RegMax
    <2>2. OkArith(o, s1, MaxTemps)
      BY <1>6, <1>7, <2>1 DEF OkArith
    <2> QED
      BY <2>2 DEF Ok
  <1>9. Legal(o)
    BY <1>1, <1>6, LegalTwo
  <1>10. Val(d, s) \in Word /\ Val(b, s) \in Word
    BY ReadableVal
  <1>11. w \in Word
    BY <1>10, ArithWord
  <1>12. Exec(o, s1, m) = Put(s1, d, Arith(fn, Val(d, s1), Val(y, s1)))
    BY ExecArith
  <1>13. Exec(o, s1, m) = Put(s1, d, w)
    BY <1>6, <1>7, <1>12
  <1>14. Agree(Put(s1, d, w), Put(s, d, w), t)
    BY <1>6, <1>11, PutAgree
  <1>15. HostCode(<<o>>, s1, Exec(o, s1, m), m, g)
    BY <1>7, <1>8, <1>9, HostOne
  <1> HIDE DEF o, w
  <1>16. HostCode(c \o <<o>>, s, Exec(o, s1, m), m, g)
    BY <1>6, <1>15, HostCat
  <1>17. ConstCode(i, t) = c \o <<o>>
    BY <1>6, <1>7 DEF o
  <1> QED
    BY <1>2, <1>3, <1>13, <1>14, <1>16, <1>17 DEF w

LEMMA SegmentArith ==
  ASSUME NEW s, Typed(s), NEW t \in Nat, NEW T \in Nat, T <= t, NEW m \in Word, NEW g,
         NEW o, OkArith(o, s, T), t + Cost(o) <= MaxTemps
  PROVE  Segment(o, s, t, m, g)
  <1>1. PICK fn, d, a, b :
          /\ fn \in BinFns
          /\ o = Inst(fn, "none", d, <<a, b>>) /\ Reg(d, T) /\ Readable(a, s, T) /\ Readable(b, s, T)
    BY DEF OkArith
  <1>2. o.op = fn /\ o.dst = d /\ o.src[1] = a /\ o.src[2] = b
    BY <1>1, InstFacts
  <1>3. Cost(o) = IF fn = "and" /\ a = d THEN 0 ELSE 1
    <2>1. fn \notin {"setcc", "brcc", "vmstore"}
      BY <1>1, OpNames
    <2> QED
      BY <1>1, <1>2, <2>1 DEF Cost
  <1>4. Readable(a, s, t) /\ Readable(b, s, t) /\ Reg(d, t)
    BY <1>1, ReadableMore
  <1>5. Val(a, s) \in Word /\ Val(b, s) \in Word
    BY <1>1, ReadableVal
  <1> DEFINE w == Arith(fn, Val(a, s), Val(b, s))
  <1>6. w \in Word
    BY <1>1, <1>5, ArithWord
  <1>7. Exec(o, s, m) = Put(s, d, w)
    BY <1>1, ExecArith
  <1>8. MaxTemps \in Nat
    BY VRegFacts
  <1>9. CASE a = d
    <2>1. InForm(o)
      BY <1>2, <1>9 DEF InForm
    <2>2. 2 \in Lowered(o) => Cost(o) = 1
      <3> DEFINE L == Lowered(o)
                 u == t + LowerCount(L, 1)
      <3>1. L = Lowered(o) /\ u = t + LowerCount(L, 1)
        OBVIOUS
      <3> HIDE DEF L, u
      <3>2. 2 \in L <=> b.const /\ ~Encodable(fn, 2, b.n)
        BY <1>1, <3>1, ConstCodeTwo
      <3> QED
        BY <1>3, <3>1, <3>2, EncodableOps
    <2>3. LowerCount(Lowered(o), 2) \in 0 .. 1 /\ Cost(o) \in 0 .. 1 /\ LowerCount(Lowered(o), 2) <= Cost(o)
      BY <1>3, <2>2, CountFacts
    <2>4. t + LowerCount(Lowered(o), 2) <= MaxTemps
      BY <1>8, <2>3
    <2>5. /\ \E s2 : /\ HostCode(ConstCode(o, t), s, s2, m, g)
                     /\ Agree(s2, Put(s, d, Arith(fn, Val(d, s), Val(b, s))), t)
          /\ 1 \notin Lowered(o)
      BY <1>1, <1>4, <1>9, <2>4, ArithInForm
    <2>6. PICK s2 : HostCode(ConstCode(o, t), s, s2, m, g) /\ Agree(s2, Put(s, d, w), t)
      BY <1>9, <2>5
    <2>7. IsSeq(ConstCode(o, t))
      BY <2>6, HostEnds
    <2>8. Selected(o, t) = ConstCode(o, t)
      BY <2>1, <2>7, SelectedPlain
    <2>9. SelectedTemps(o, t) = LowerCount(Lowered(o), 1) + LowerCount(Lowered(o), 2)
      BY <2>1, <2>7, SelectedPlain DEF LowerCount
    <2>10. LowerCount(Lowered(o), 1) = 0
      BY <2>5, LowerFacts
    <2>11. SelectedTemps(o, t) \in 0 .. Cost(o)
      BY <2>3, <2>9, <2>10
    <2> QED
      BY <1>7, <2>6, <2>8, <2>11 DEF Segment
  <1>10. CASE a # d /\ b # d
    <2> DEFINE j == Inst(fn, "none", d, <<d, b>>)
               p == Put(s, d, Val(a, s))
    <2>1. j = Inst(fn, "none", d, <<d, b>>)
      OBVIOUS
    <2> HIDE DEF j
    <2>2. /\ Selected(o, t) = <<Mov(d, a)>> \o ConstCode(j, t)
          /\ SelectedTemps(o, t) = (t - t) + LowerCount(Lowered(j), 1) + LowerCount(Lowered(j), 2)
      <3>1. SelectedAs(o, t, <<Mov(d, a)>>, j, t)
        BY <1>1, <1>10, <2>1, SelectedMove
      <3> QED
        BY <3>1 DEF SelectedAs
    <2>3. HostCode(<<Mov(d, a)>>, s, p, m, g)
      BY <1>1, MovCode
    <2>4. Typed(p)
      BY <1>1, <1>5, PutTyped
    <2>5. Readable(d, p, t) /\ Val(d, p) = Val(a, s) /\ Readable(b, p, t) /\ Val(b, p) = Val(b, s)
      BY <1>4, <1>5, <1>10, PutVal
    <2>6. Agree(Put(p, d, w), Put(s, d, w), t)
      BY <1>1, <1>5, <1>6, PutOver
    <2> HIDE DEF p
    <2>7. LowerCount(Lowered(j), 2) \in 0 .. 1 /\ Cost(o) = 1
      BY <1>3, <1>10, LowerFacts
    <2>8. t + LowerCount(Lowered(j), 2) <= MaxTemps
      BY <1>8, <2>7
    <2>9. /\ \E s2 : /\ HostCode(ConstCode(j, t), p, s2, m, g)
                     /\ Agree(s2, Put(p, d, Arith(fn, Val(d, p), Val(b, p))), t)
          /\ 1 \notin Lowered(j)
      BY <1>1, <2>1, <2>4, <2>5, <2>8, ArithInForm
    <2>10. PICK s2 : HostCode(ConstCode(j, t), p, s2, m, g) /\ Agree(s2, Put(p, d, w), t)
      BY <2>5, <2>9
    <2>11. HostCode(Selected(o, t), s, s2, m, g)
      BY <2>2, <2>3, <2>10, HostCat
    <2>12. Agree(s2, Exec(o, s, m), t)
      BY <1>7, <2>6, <2>10, AgreeTrans
    <2>13. LowerCount(Lowered(j), 1) = 0
      BY <2>9, LowerFacts
    <2>14. SelectedTemps(o, t) \in 0 .. Cost(o)
      BY <2>2, <2>7, <2>13
    <2> QED
      BY <2>11, <2>12, <2>14 DEF Segment
  <1>11. CASE a # d /\ b = d
    <2> DEFINE e == vtemp(t + 1)
               j == Inst(fn, "none", d, <<d, e>>)
               p == Put(s, e, Val(d, s))
               q == Put(p, d, Val(a, s))
               c == <<Mov(e, d)>> \o <<Mov(d, a)>>
    <2>1. j = Inst(fn, "none", d, <<d, e>>) /\ e = vtemp(t + 1)
      OBVIOUS
    <2> HIDE DEF j
    <2>2. /\ Selected(o, t) = c \o ConstCode(j, t + 1)
          /\ SelectedTemps(o, t) = ((t + 1) - t) + LowerCount(Lowered(j), 1) + LowerCount(Lowered(j), 2)
      <3>1. SelectedAs(o, t, c, j, t + 1)
        BY <1>1, <1>11, <2>1, SelectedLive
      <3> QED
        BY <3>1 DEF SelectedAs
    <2>3. Cost(o) = 1
      BY <1>3, <1>11
    <2>4. t + 1 <= MaxTemps /\ t <= t + 1 /\ t + 1 \in Nat
      BY <1>8, <2>3
    <2>5. Reg(e, t + 1) /\ Agree(p, s, t)
      BY <1>5, <1>11, <2>4, PutTemp
    <2>6. Typed(p) /\ Readable(a, p, t) /\ Val(a, p) = Val(a, s)
      BY <1>4, <2>5, AgreeVal DEF Agree
    <2>7. Readable(e, p, t + 1) /\ Val(e, p) = Val(d, s)
      BY <1>5, <1>11, <2>5, PutVal
    <2>8. HostCode(<<Mov(e, d)>>, s, p, m, g)
      <3>1. Readable(d, s, t + 1)
        BY <1>4, <1>11, <2>4, ReadableMore
      <3> QED
        BY <2>5, <3>1, MovCode
    <2> HIDE DEF p
    <2>9. HostCode(<<Mov(d, a)>>, p, q, m, g)
      BY <1>4, <2>6, MovCode
    <2>10. HostCode(c, s, q, m, g)
      BY <2>8, <2>9, HostCat
    <2>11. e # d
      <3>1. PICK n \in VRegs : n >= -T /\ d = vreg(n)
        BY <1>1 DEF Reg
      <3>2. n \in Int /\ -(t + 1) # n
        BY <3>1, VRegFacts
      <3>3. d.n = n /\ e.n = -(t + 1)
        BY <3>1, OperandFacts DEF vtemp
      <3> QED
        BY <3>2, <3>3
    <2>12. Typed(q)
      BY <1>4, <1>5, <2>6, PutTyped
    <2>13. Readable(d, q, t) /\ Val(d, q) = Val(a, s) /\ Readable(e, q, t + 1) /\ Val(e, q) = Val(d, s)
      BY <1>4, <1>5, <2>6, <2>7, <2>11, PutVal
    <2>14. Agree(Put(q, d, w), Put(p, d, w), t)
      BY <1>4, <1>5, <1>6, <2>6, PutOver
    <2>15. Agree(Put(p, d, w), Put(s, d, w), t)
      BY <1>4, <1>6, <2>5, PutAgree
    <2> HIDE DEF q, c, e
    <2>16. Readable(d, q, t + 1) /\ T <= t + 1
      BY <2>4, <2>13, ReadableMore
    <2>17. 2 \notin Lowered(j)
      <3> DEFINE L == Lowered(j)
                 u == t + LowerCount(L, 1)
      <3>1. L = Lowered(j) /\ u = t + LowerCount(L, 1)
        OBVIOUS
      <3> HIDE DEF L, u
      <3>2. 2 \in L <=> e.const /\ ~Encodable(fn, 2, e.n)
        BY <2>1, <3>1, ConstCodeTwo
      <3>3. e.const = FALSE
        BY OperandFacts DEF e, vtemp
      <3> QED
        BY <3>1, <3>2, <3>3
    <2>18. LowerCount(Lowered(j), 2) = 0 /\ t + 1 + LowerCount(Lowered(j), 2) <= MaxTemps
      BY <2>4, <2>17, CountFacts
    <2>19. /\ \E s2 : /\ HostCode(ConstCode(j, t + 1), q, s2, m, g)
                      /\ Agree(s2, Put(q, d, Arith(fn, Val(d, q), Val(e, q))), t + 1)
           /\ 1 \notin Lowered(j)
      BY <1>1, <2>1, <2>4, <2>12, <2>13, <2>16, <2>18, ArithInForm
    <2>20. PICK s2 : HostCode(ConstCode(j, t + 1), q, s2, m, g) /\ Agree(s2, Put(q, d, w), t + 1)
      BY <1>11, <2>13, <2>19
    <2>21. HostCode(Selected(o, t), s, s2, m, g)
      BY <2>2, <2>10, <2>20, HostCat
    <2>22. Agree(s2, Put(q, d, w), t)
      BY <2>4, <2>20, AgreeLess
    <2>23. Agree(s2, Exec(o, s, m), t)
      BY <1>7, <2>14, <2>15, <2>22, AgreeTrans
    <2>24. LowerCount(Lowered(j), 1) = 0
      BY <2>19, LowerFacts
    <2>25. SelectedTemps(o, t) \in 0 .. Cost(o)
      BY <2>2, <2>3, <2>18, <2>24
    <2> QED
      BY <2>21, <2>23, <2>25 DEF Segment
  <1> QED
    BY <1>9, <1>10, <1>11

\* The rest of selection for an operation with two sources that is not arithmetic.
LEMMA SegmentTwo ==
  ASSUME NEW op, op \notin BinFns, NEW x, NEW d, NEW a, NEW b, NEW o, o = Inst(op, x, d, <<a, b>>),
         NEW s, NEW t \in Nat, NEW m \in Word, NEW g, NEW c, NEW s1, Typed(s1), NEW p,
         ConstCode(o, t) = c \o <<p>>, HostCode(c, s, s1, m, g),
         Ok(p, s1, g, MaxTemps), Legal(p), Agree(Exec(p, s1, m), Exec(o, s, m), t),
         LowerCount(Lowered(o), 1) + LowerCount(Lowered(o), 2) <= Cost(o)
  PROVE  Segment(o, s, t, m, g)
  <1>1. HostCode(<<p>>, s1, Exec(p, s1, m), m, g)
    BY HostOne
  <1>2. HostCode(ConstCode(o, t), s, Exec(p, s1, m), m, g)
    BY <1>1, HostCat
  <1>3. IsSeq(ConstCode(o, t))
    BY <1>2, HostEnds
  <1>4. InForm(o)
    BY InstFacts DEF InForm
  <1>5. Selected(o, t) = ConstCode(o, t)
    BY <1>3, <1>4, SelectedPlain
  <1>6. SelectedTemps(o, t) = LowerCount(Lowered(o), 1) + LowerCount(Lowered(o), 2)
    BY <1>3, <1>4, SelectedPlain DEF LowerCount
  <1>7. LowerCount(Lowered(o), 1) \in 0 .. 1 /\ LowerCount(Lowered(o), 2) \in 0 .. 1
    BY CountFacts
  <1>8. SelectedTemps(o, t) \in 0 .. Cost(o)
    BY <1>6, <1>7, CostNat
  <1> QED
    BY <1>2, <1>5, <1>8 DEF Segment

LEMMA SegmentSetcc ==
  ASSUME NEW s, Typed(s), NEW t \in Nat, NEW T \in Nat, T <= t, NEW m \in Word, NEW g,
         NEW o, OkSetcc(o, s, T), t + Cost(o) <= MaxTemps
  PROVE  Segment(o, s, t, m, g)
  <1>1. PICK cc, d, a, b :
          /\ cc \in Ccs
          /\ o = Inst("setcc", cc, d, <<a, b>>) /\ Reg(d, T) /\ Readable(a, s, T) /\ Readable(b, s, T)
    BY DEF OkSetcc
  <1>2. o.op = "setcc" /\ "setcc" \notin BinFns
    BY <1>1, InstFacts, OpNames
  <1>3. Cost(o) = 2
    BY <1>2 DEF Cost
  <1>4. LowerCount(Lowered(o), 1) \in 0 .. 1 /\ LowerCount(Lowered(o), 2) \in 0 .. 1 /\ MaxTemps \in Nat
    BY CountFacts, VRegFacts
  <1>5. /\ t + LowerCount(Lowered(o), 1) + LowerCount(Lowered(o), 2) <= MaxTemps
        /\ LowerCount(Lowered(o), 1) + LowerCount(Lowered(o), 2) <= Cost(o)
    BY <1>3, <1>4
  <1>6. Readable(a, s, t) /\ Readable(b, s, t)
    BY <1>1, ReadableMore
  <1>7. Lowers(o, "setcc", cc, d, a, b, s, t, m, g)
    BY <1>1, <1>5, <1>6, ConstSeg
  <1>8. PICK c, s1, z, y :
          /\ ConstCode(o, t) = c \o <<Inst("setcc", cc, d, <<z, y>>)>>
          /\ HostCode(c, s, s1, m, g) /\ Agree(s1, s, t)
          /\ Readable(z, s1, MaxTemps) /\ Val(z, s1) = Val(a, s)
          /\ Readable(y, s1, MaxTemps) /\ Val(y, s1) = Val(b, s)
          /\ z.const => z.n \in Word /\ Encodable("setcc", 1, z.n)
          /\ y.const => y.n \in Word /\ Encodable("setcc", 2, y.n)
    BY <1>7 DEF Lowers
  <1> DEFINE p == Inst("setcc", cc, d, <<z, y>>)
             w == Flag(Holds(cc, Val(a, s), Val(b, s)))
  <1>9. Typed(s1)
    BY <1>8 DEF Agree
  <1>10. Ok(p, s1, g, MaxTemps)
    <2>1. Reg(d, MaxTemps)
      BY <1>1, RegMax
    <2>2. OkSetcc(p, s1, MaxTemps)
      BY <1>1, <1>8, <2>1 DEF OkSetcc
    <2> QED
      BY <2>2 DEF Ok
  <1>11. Legal(p)
    BY <1>2, <1>8, LegalTwo
  <1>12. Exec(p, s1, m) = Put(s1, d, Flag(Holds(cc, Val(z, s1), Val(y, s1))))
    BY ExecSetcc
  <1>13. Exec(p, s1, m) = Put(s1, d, w)
    BY <1>8, <1>12
  <1>14. Exec(o, s, m) = Put(s, d, w)
    BY <1>1, ExecSetcc
  <1>15. w \in Word
    BY FlagWord
  <1> HIDE DEF p, w
  <1>16. Agree(Exec(p, s1, m), Exec(o, s, m), t)
    BY <1>1, <1>8, <1>13, <1>14, <1>15, PutAgree
  <1>17. ConstCode(o, t) = c \o <<p>>
    BY <1>8 DEF p
  <1> QED
    BY <1>1, <1>2, <1>5, <1>8, <1>9, <1>10, <1>11, <1>16, <1>17, SegmentTwo

LEMMA SegmentBrcc ==
  ASSUME NEW s, Typed(s), NEW t \in Nat, NEW T \in Nat, T <= t, NEW m \in Word, NEW g,
         NEW o, OkBrcc(o, s, T), t + Cost(o) <= MaxTemps
  PROVE  Segment(o, s, t, m, g)
  <1>1. PICK cc, e, f, a, b :
          /\ cc \in Ccs /\ e \in Word /\ f \in Word
          /\ o = Inst("brcc", <<cc, e, f>>, NoDst, <<a, b>>) /\ Readable(a, s, T) /\ Readable(b, s, T)
    BY DEF OkBrcc
  <1> DEFINE x == <<cc, e, f>>
  <1>2. o.op = "brcc" /\ "brcc" \notin BinFns
    BY <1>1, InstFacts, OpNames
  <1>3. Cost(o) = 2
    BY <1>2 DEF Cost
  <1>4. LowerCount(Lowered(o), 1) \in 0 .. 1 /\ LowerCount(Lowered(o), 2) \in 0 .. 1 /\ MaxTemps \in Nat
    BY CountFacts, VRegFacts
  <1>5. /\ t + LowerCount(Lowered(o), 1) + LowerCount(Lowered(o), 2) <= MaxTemps
        /\ LowerCount(Lowered(o), 1) + LowerCount(Lowered(o), 2) <= Cost(o)
    BY <1>3, <1>4
  <1>6. Readable(a, s, t) /\ Readable(b, s, t)
    BY <1>1, ReadableMore
  <1>7. Lowers(o, "brcc", x, NoDst, a, b, s, t, m, g)
    BY <1>1, <1>5, <1>6, ConstSeg
  <1>8. PICK c, s1, z, y :
          /\ ConstCode(o, t) = c \o <<Inst("brcc", x, NoDst, <<z, y>>)>>
          /\ HostCode(c, s, s1, m, g) /\ Agree(s1, s, t)
          /\ Readable(z, s1, MaxTemps) /\ Val(z, s1) = Val(a, s)
          /\ Readable(y, s1, MaxTemps) /\ Val(y, s1) = Val(b, s)
          /\ z.const => z.n \in Word /\ Encodable("brcc", 1, z.n)
          /\ y.const => y.n \in Word /\ Encodable("brcc", 2, y.n)
    BY <1>7 DEF Lowers
  <1> DEFINE p == Inst("brcc", x, NoDst, <<z, y>>)
             w == IF Holds(cc, Val(a, s), Val(b, s)) THEN e ELSE f
  <1>9. Typed(s1) /\ s1.sip = s.sip /\ s1.acc = s.acc
    BY <1>8 DEF Agree
  <1>10. Ok(p, s1, g, MaxTemps)
    <2>1. OkBrcc(p, s1, MaxTemps)
      BY <1>1, <1>8 DEF OkBrcc
    <2> QED
      BY <2>1 DEF Ok
  <1>11. Legal(p)
    BY <1>2, <1>8, LegalTwo
  <1>12. Exec(p, s1, m) = Machine(s1.regs, s1.sip, s1.acc, IF Holds(cc, Val(z, s1), Val(y, s1)) THEN e ELSE f)
    BY ExecBrcc
  <1>13. Exec(p, s1, m) = Machine(s1.regs, s.sip, s.acc, w)
    BY <1>8, <1>9, <1>12
  <1>14. Exec(o, s, m) = Machine(s.regs, s.sip, s.acc, w)
    BY <1>1, ExecBrcc
  <1>15. w \in Word /\ s.sip \in Word \cup {Undef}
    BY <1>1 DEF Typed
  <1> HIDE DEF p, w, x
  <1>16. Agree(Exec(p, s1, m), Exec(o, s, m), t)
    BY <1>8, <1>13, <1>14, <1>15, MachineAgree
  <1>17. ConstCode(o, t) = c \o <<p>>
    BY <1>8 DEF p
  <1>18. o = Inst("brcc", x, NoDst, <<a, b>>)
    BY <1>1 DEF x
  <1> QED
    BY <1>2, <1>5, <1>8, <1>9, <1>10, <1>11, <1>16, <1>17, <1>18, SegmentTwo

LEMMA SegmentStore ==
  ASSUME NEW s, Typed(s), NEW t \in Nat, NEW T \in Nat, T <= t, NEW m \in Word, NEW g,
         NEW o, OkStore(o, s, g, T), t + Cost(o) <= MaxTemps
  PROVE  Segment(o, s, t, m, g)
  <1>1. PICK w, a, b :
          /\ w \in Widths
          /\ o = Inst("vmstore", <<w>>, NoDst, <<a, b>>) /\ Readable(a, s, T) /\ Readable(b, s, T)
          /\ Precise(s, g)
    BY DEF OkStore
  <1> DEFINE x == <<w>>
  <1>2. o.op = "vmstore" /\ "vmstore" \notin BinFns
    BY <1>1, InstFacts, OpNames
  <1>3. Cost(o) = 1
    BY <1>2 DEF Cost
  <1>4. LowerCount(Lowered(o), 2) \in 0 .. 1 /\ MaxTemps \in Nat
    BY CountFacts, VRegFacts
  <1>5. LowerCount(Lowered(o), 1) = 0
    <2> DEFINE L == Lowered(o)
               u == t + LowerCount(L, 1)
    <2>1. L = Lowered(o) /\ u = t + LowerCount(L, 1)
      OBVIOUS
    <2> HIDE DEF L, u
    <2>2. 1 \in L <=> a.const /\ ~Encodable("vmstore", 1, a.n)
      BY <1>1, <2>1, ConstCodeTwo
    <2>3. 1 \notin L
      BY <2>2, EncodableOps
    <2> QED
      BY <2>1, <2>3, CountFacts
  <1>6. /\ t + LowerCount(Lowered(o), 1) + LowerCount(Lowered(o), 2) <= MaxTemps
        /\ LowerCount(Lowered(o), 1) + LowerCount(Lowered(o), 2) <= Cost(o)
    BY <1>3, <1>4, <1>5
  <1>7. Readable(a, s, t) /\ Readable(b, s, t)
    BY <1>1, ReadableMore
  <1>8. Lowers(o, "vmstore", x, NoDst, a, b, s, t, m, g)
    BY <1>1, <1>6, <1>7, ConstSeg
  <1>9. PICK c, s1, z, y :
          /\ ConstCode(o, t) = c \o <<Inst("vmstore", x, NoDst, <<z, y>>)>>
          /\ HostCode(c, s, s1, m, g) /\ Agree(s1, s, t)
          /\ Readable(z, s1, MaxTemps) /\ Val(z, s1) = Val(a, s)
          /\ Readable(y, s1, MaxTemps) /\ Val(y, s1) = Val(b, s)
          /\ z.const => z.n \in Word /\ Encodable("vmstore", 1, z.n)
          /\ y.const => y.n \in Word /\ Encodable("vmstore", 2, y.n)
    BY <1>8 DEF Lowers
  <1> DEFINE p == Inst("vmstore", x, NoDst, <<z, y>>)
             r == <<Val(a, s), w, Val(b, s) % Pow2[w]>>
  <1>10. Typed(s1) /\ s1.sip = s.sip /\ s1.nip = s.nip
    BY <1>9 DEF Agree
  <1>11. Ok(p, s1, g, MaxTemps)
    <2>1. Precise(s1, g)
      BY <1>1, <1>9, AgreePrecise
    <2>2. OkStore(p, s1, g, MaxTemps)
      BY <1>1, <1>9, <2>1 DEF OkStore
    <2> QED
      BY <2>2 DEF Ok
  <1>12. Legal(p)
    BY <1>2, <1>9, LegalTwo
  <1>13. Exec(p, s1, m) = Machine(s1.regs, s1.sip, <<Val(z, s1), w, Val(y, s1) % Pow2[w]>>, s1.nip)
    BY ExecStore
  <1>14. Exec(p, s1, m) = Machine(s1.regs, s.sip, r, s.nip)
    BY <1>9, <1>10, <1>13
  <1>15. Exec(o, s, m) = Machine(s.regs, s.sip, r, s.nip)
    BY <1>1, ExecStore
  <1>16. s.nip \in Word /\ s.sip \in Word \cup {Undef}
    BY DEF Typed
  <1> HIDE DEF p, r, x
  <1>17. Agree(Exec(p, s1, m), Exec(o, s, m), t)
    BY <1>9, <1>14, <1>15, <1>16, MachineAgree
  <1>18. ConstCode(o, t) = c \o <<p>>
    BY <1>9 DEF p
  <1>19. o = Inst("vmstore", x, NoDst, <<a, b>>)
    BY <1>1 DEF x
  <1> QED
    BY <1>2, <1>6, <1>9, <1>10, <1>11, <1>12, <1>17, <1>18, <1>19, SegmentTwo

\* Every well-formed operation is selected into code that does the same.
LEMMA SegmentOk ==
  ASSUME NEW s, Typed(s), NEW t \in Nat, NEW T \in Nat, T <= t, NEW m \in Word, NEW g,
         NEW o, Ok(o, s, g, T), t + Cost(o) <= MaxTemps
  PROVE  Segment(o, s, t, m, g)
  <1>1. CASE OkArith(o, s, T)
    BY <1>1, SegmentArith
  <1>2. CASE OkSetcc(o, s, T)
    BY <1>2, SegmentSetcc
  <1>3. CASE OkStore(o, s, g, T)
    BY <1>3, SegmentStore
  <1>4. CASE OkBrcc(o, s, T)
    BY <1>4, SegmentBrcc
  <1>5. CASE OkMov(o, s, T)
    <2>1. PICK d, a : o = Mov(d, a) /\ Reg(d, T) /\ Readable(a, s, T)
      BY <1>5 DEF OkMov
    <2>2. Reg(d, MaxTemps) /\ Readable(a, s, MaxTemps)
      BY <2>1, RegMax
    <2>3. Ok(o, s, g, MaxTemps)
      BY <2>1, <2>2 DEF Ok, OkMov
    <2>4. Legal(o)
      BY <2>1, MovLegal
    <2>5. o = Inst("mov", "none", d, <<a>>) /\ "mov" \notin BinFns
      BY <2>1, OpNames DEF Mov
    <2>6. InForm(o)
      BY <2>5, InstFacts DEF InForm
    <2>7. Lowered(o) = {} /\ ConstCode(o, t) = <<o>>
      BY <2>5, EncodableOps, ConstCodeOne
    <2> QED
      BY <2>3, <2>4, <2>6, <2>7, SegmentSame
  <1>6. CASE o = PreSideeff
    <2>1. o = Inst("saveip", "none", NoDst, <<>>) /\ "saveip" \notin BinFns
      BY <1>6, OpNames DEF PreSideeff
    <2>2. Legal(o)
      BY <2>1, LegalNone
    <2>3. InForm(o)
      BY <2>1, InstFacts DEF InForm
    <2>4. Lowered(o) = {} /\ ConstCode(o, t) = <<o>>
      BY <2>1, ConstCodeNone
    <2>5. Ok(o, s, g, MaxTemps)
      BY <1>6 DEF Ok
    <2> QED
      BY <2>2, <2>3, <2>4, <2>5, SegmentSame
  <1>7. CASE OkGbr(o)
    <2>1. PICK x \in Word : o = Inst("gbr", x, NoDst, <<>>)
      BY <1>7 DEF OkGbr
    <2>2. "gbr" \notin BinFns
      BY OpNames
    <2>3. Legal(o)
      BY <2>1, <2>2, LegalNone
    <2>4. InForm(o)
      BY <2>1, <2>2, InstFacts DEF InForm
    <2>5. Lowered(o) = {} /\ ConstCode(o, t) = <<o>>
      BY <2>1, ConstCodeNone
    <2>6. Ok(o, s, g, MaxTemps)
      BY <1>7 DEF Ok
    <2> QED
      BY <2>3, <2>4, <2>5, <2>6, SegmentSame
  <1>8. CASE OkGbrind(o, s, T)
    <2>1. PICK a : o = Inst("gbrind", "none", NoDst, <<a>>) /\ Reg(a, T) /\ Readable(a, s, T)
      BY <1>8 DEF OkGbrind
    <2>2. "gbrind" \notin BinFns /\ a.const = FALSE
      BY <2>1, OpNames, OperandFacts DEF Reg
    <2>3. Legal(o)
      BY <2>1, <2>2, LegalOne
    <2>4. InForm(o)
      BY <2>1, <2>2, InstFacts DEF InForm
    <2>5. Lowered(o) = {} /\ ConstCode(o, t) = <<o>>
      BY <2>1, <2>2, ConstCodeOne
    <2>6. Reg(a, MaxTemps) /\ Readable(a, s, MaxTemps)
      BY <2>1, RegMax
    <2>7. Ok(o, s, g, MaxTemps)
      BY <2>1, <2>6 DEF Ok, OkGbrind
    <2> QED
      BY <2>3, <2>4, <2>5, <2>7, SegmentSame
  <1>9. CASE OkLoad(o, s, g, T)
    <2>1. PICK w, sg, d, a :
            /\ w \in Widths /\ sg \in BOOLEAN
            /\ o = Inst("vmload", <<w, sg>>, d, <<a>>) /\ LoadDst(d, g, T) /\ Readable(a, s, T)
            /\ Precise(s, g)
      BY <1>9 DEF OkLoad
    <2>2. "vmload" \notin BinFns
      BY OpNames
    <2>3. a.const => a.n \in Word /\ Encodable("vmload", 1, a.n)
      BY <2>1, ReadableConst, EncodableOps
    <2>4. Legal(o)
      BY <2>1, <2>2, <2>3, LegalOne
    <2>5. InForm(o)
      BY <2>1, <2>2, InstFacts DEF InForm
    <2>6. Lowered(o) = {} /\ ConstCode(o, t) = <<o>>
      BY <2>1, <2>3, ConstCodeOne
    <2>7. LoadDst(d, g, MaxTemps) /\ Readable(a, s, MaxTemps)
      BY <2>1, RegMax DEF LoadDst
    <2>8. OkLoad(o, s, g, MaxTemps)
      BY <2>1, <2>7 DEF OkLoad
    <2>9. Ok(o, s, g, MaxTemps)
      BY <2>8 DEF Ok
    <2> QED
      BY <2>4, <2>5, <2>6, <2>9, SegmentSame
  <1> QED
    BY <1>1, <1>2, <1>3, <1>4, <1>5, <1>6, <1>7, <1>8, <1>9 DEF Ok

\* An operation on registers up to T does not see the temporaries above.
LEMMA AgreeExec ==
  ASSUME NEW s, NEW q, NEW T \in Nat, Agree(s, q, T), NEW m \in Word, NEW g,
         NEW o, Ok(o, q, g, T)
  PROVE  Ok(o, s, g, T) /\ Agree(Exec(o, s, m), Exec(o, q, m), T)
  <1>0. /\ Typed(s) /\ Typed(q) /\ s.sip = q.sip /\ s.acc = q.acc /\ s.nip = q.nip
        /\ q.sip \in Word \cup {Undef} /\ q.nip \in Word /\ Ip \in Word
    BY LoweringAssumption DEF Agree, Typed
  <1>1. CASE OkArith(o, q, T)
    <2>1. PICK fn, d, a, b :
            /\ fn \in BinFns
            /\ o = Inst(fn, "none", d, <<a, b>>) /\ Reg(d, T) /\ Readable(a, q, T) /\ Readable(b, q, T)
      BY <1>1 DEF OkArith
    <2>2. /\ Readable(a, s, T) /\ Readable(b, s, T)
          /\ Val(a, s) = Val(a, q) /\ Val(b, s) = Val(b, q)
      BY <2>1, AgreeVal
    <2>3. OkArith(o, s, T)
      BY <2>1, <2>2 DEF OkArith
    <2>4. Val(a, q) \in Word /\ Val(b, q) \in Word
      BY <1>0, <2>1, ReadableVal
    <2> DEFINE w == Arith(fn, Val(a, q), Val(b, q))
    <2>5. w \in Word
      BY <2>1, <2>4, ArithWord
    <2>6. Exec(o, s, m) = Put(s, d, w) /\ Exec(o, q, m) = Put(q, d, w)
      BY <2>1, <2>2, ExecArith
    <2> HIDE DEF w
    <2> QED
      BY <2>1, <2>3, <2>5, <2>6, PutAgree DEF Ok
  <1>2. CASE OkMov(o, q, T)
    <2>1. PICK d, a : o = Mov(d, a) /\ Reg(d, T) /\ Readable(a, q, T)
      BY <1>2 DEF OkMov
    <2>2. Readable(a, s, T) /\ Val(a, s) = Val(a, q) /\ Val(a, q) \in Word
      BY <1>0, <2>1, AgreeVal, ReadableVal
    <2>3. OkMov(o, s, T)
      BY <2>1, <2>2 DEF OkMov
    <2>4. Exec(o, s, m) = Put(s, d, Val(a, q)) /\ Exec(o, q, m) = Put(q, d, Val(a, q))
      BY <2>1, <2>2, ExecMov
    <2> QED
      BY <2>1, <2>2, <2>3, <2>4, PutAgree DEF Ok
  <1>3. CASE OkSetcc(o, q, T)
    <2>1. PICK cc, d, a, b :
            /\ cc \in Ccs
            /\ o = Inst("setcc", cc, d, <<a, b>>) /\ Reg(d, T) /\ Readable(a, q, T) /\ Readable(b, q, T)
      BY <1>3 DEF OkSetcc
    <2>2. /\ Readable(a, s, T) /\ Readable(b, s, T)
          /\ Val(a, s) = Val(a, q) /\ Val(b, s) = Val(b, q)
      BY <2>1, AgreeVal
    <2>3. OkSetcc(o, s, T)
      BY <2>1, <2>2 DEF OkSetcc
    <2> DEFINE w == Flag(Holds(cc, Val(a, q), Val(b, q)))
    <2>4. w \in Word
      BY FlagWord
    <2>5. Exec(o, s, m) = Put(s, d, w) /\ Exec(o, q, m) = Put(q, d, w)
      BY <2>1, <2>2, ExecSetcc
    <2> HIDE DEF w
    <2> QED
      BY <2>1, <2>3, <2>4, <2>5, PutAgree DEF Ok
  <1>4. CASE o = PreSideeff
    <2>1. Exec(o, s, m) = Machine(s.regs, Ip, q.acc, q.nip) /\ Exec(o, q, m) = Machine(q.regs, Ip, q.acc, q.nip)
      BY <1>0, <1>4, ExecSaveip
    <2> QED
      BY <1>0, <1>4, <2>1, MachineAgree DEF Ok
  <1>5. CASE OkLoad(o, q, g, T)
    <2>1. PICK w, sg, d, a :
            /\ w \in Widths /\ sg \in BOOLEAN
            /\ o = Inst("vmload", <<w, sg>>, d, <<a>>) /\ LoadDst(d, g, T) /\ Readable(a, q, T)
            /\ Precise(q, g)
      BY <1>5 DEF OkLoad
    <2>2. Readable(a, s, T) /\ Val(a, s) = Val(a, q) /\ Precise(s, g)
      BY <2>1, AgreeVal, AgreePrecise
    <2>3. OkLoad(o, s, g, T)
      BY <2>1, <2>2 DEF OkLoad
    <2> DEFINE e == Extend(m, w, sg)
               r == <<Val(a, q), w>>
    <2>4. CASE Const(d)
      <3>1. d.const
        BY <2>4, OperandFacts DEF Const
      <3>2. Exec(o, s, m) = s /\ Exec(o, q, m) = q
        BY <2>1, <3>1, ExecLoadNoDst
      <3> QED
        BY <2>3, <3>2 DEF Ok
    <2>5. CASE Reg(d, T)
      <3>1. ~d.const
        BY <2>5, OperandFacts DEF Reg
      <3>2. /\ Exec(o, s, m) = Machine([s.regs EXCEPT ![d.n] = e], s.sip, r, s.nip)
            /\ Exec(o, q, m) = Machine([q.regs EXCEPT ![d.n] = e], q.sip, r, q.nip)
        BY <2>1, <2>2, <3>1, ExecLoad
      <3>3. e \in Word
        BY <2>1, ExtendWord
      <3> HIDE DEF e, r
      <3>4. Agree(Put(s, d, e), Put(q, d, e), T)
        BY <2>5, <3>3, PutAgree
      <3>5. /\ Put(s, d, e).regs = [s.regs EXCEPT ![d.n] = e]
            /\ Put(q, d, e).regs = [q.regs EXCEPT ![d.n] = e]
        BY MachineFacts DEF Put
      <3>6. Agree(Machine(Put(s, d, e).regs, q.sip, r, q.nip), Machine(Put(q, d, e).regs, q.sip, r, q.nip), T)
        BY <1>0, <3>4, MachineAgree
      <3>7. Agree(Exec(o, s, m), Exec(o, q, m), T)
        BY <1>0, <3>2, <3>5, <3>6
      <3> QED
        BY <2>3, <3>7 DEF Ok
    <2> QED
      BY <2>1, <2>4, <2>5 DEF LoadDst
  <1>6. CASE OkStore(o, q, g, T)
    <2>1. PICK w, a, b :
            /\ w \in Widths
            /\ o = Inst("vmstore", <<w>>, NoDst, <<a, b>>) /\ Readable(a, q, T) /\ Readable(b, q, T)
            /\ Precise(q, g)
      BY <1>6 DEF OkStore
    <2>2. /\ Readable(a, s, T) /\ Readable(b, s, T) /\ Precise(s, g)
          /\ Val(a, s) = Val(a, q) /\ Val(b, s) = Val(b, q)
      BY <2>1, AgreeVal, AgreePrecise
    <2>3. OkStore(o, s, g, T)
      BY <2>1, <2>2 DEF OkStore
    <2> DEFINE r == <<Val(a, q), w, Val(b, q) % Pow2[w]>>
    <2>4. Exec(o, s, m) = Machine(s.regs, s.sip, r, s.nip) /\ Exec(o, q, m) = Machine(q.regs, q.sip, r, q.nip)
      BY <2>1, <2>2, ExecStore
    <2> HIDE DEF r
    <2>5. Agree(Exec(o, s, m), Exec(o, q, m), T)
      BY <1>0, <2>4, MachineAgree
    <2> QED
      BY <2>3, <2>5 DEF Ok
  <1>7. CASE OkGbr(o)
    <2>1. PICK x \in Word : o = Inst("gbr", x, NoDst, <<>>)
      BY <1>7 DEF OkGbr
    <2>2. Exec(o, s, m) = Machine(s.regs, q.sip, q.acc, x) /\ Exec(o, q, m) = Machine(q.regs, q.sip, q.acc, x)
      BY <1>0, <2>1, ExecGbr
    <2> QED
      BY <1>0, <1>7, <2>2, MachineAgree DEF Ok
  <1>8. CASE OkGbrind(o, q, T)
    <2>1. PICK a : o = Inst("gbrind", "none", NoDst, <<a>>) /\ Reg(a, T) /\ Readable(a, q, T)
      BY <1>8 DEF OkGbrind
    <2>2. Readable(a, s, T) /\ Val(a, s) = Val(a, q) /\ Val(a, q) \in Word
      BY <1>0, <2>1, AgreeVal, ReadableVal
    <2>3. OkGbrind(o, s, T)
      BY <2>1, <2>2 DEF OkGbrind
    <2>4. /\ Exec(o, s, m) = Machine(s.regs, q.sip, q.acc, Val(a, q))
          /\ Exec(o, q, m) = Machine(q.regs, q.sip, q.acc, Val(a, q))
      BY <1>0, <2>1, <2>2, ExecGbrind
    <2>5. Agree(Exec(o, s, m), Exec(o, q, m), T)
      BY <1>0, <2>2, <2>4, MachineAgree
    <2> QED
      BY <2>3, <2>5 DEF Ok
  <1>9. CASE OkBrcc(o, q, T)
    <2>1. PICK cc, e, f, a, b :
            /\ cc \in Ccs /\ e \in Word /\ f \in Word
            /\ o = Inst("brcc", <<cc, e, f>>, NoDst, <<a, b>>) /\ Readable(a, q, T) /\ Readable(b, q, T)
      BY <1>9 DEF OkBrcc
    <2>2. /\ Readable(a, s, T) /\ Readable(b, s, T)
          /\ Val(a, s) = Val(a, q) /\ Val(b, s) = Val(b, q)
      BY <2>1, AgreeVal
    <2>3. OkBrcc(o, s, T)
      BY <2>1, <2>2 DEF OkBrcc
    <2> DEFINE w == IF Holds(cc, Val(a, q), Val(b, q)) THEN e ELSE f
    <2>4. w \in Word
      BY <2>1
    <2>5. /\ Exec(o, s, m) = Machine(s.regs, q.sip, q.acc, w)
          /\ Exec(o, q, m) = Machine(q.regs, q.sip, q.acc, w)
      BY <1>0, <2>1, <2>2, ExecBrcc
    <2> HIDE DEF w
    <2>6. Agree(Exec(o, s, m), Exec(o, q, m), T)
      BY <1>0, <2>4, <2>5, MachineAgree
    <2> QED
      BY <2>3, <2>6 DEF Ok
  <1> QED
    BY <1>1, <1>2, <1>3, <1>4, <1>5, <1>6, <1>7, <1>8, <1>9 DEF Ok

-----------------------------------------------------------------------------
(* The translators, against the interpreter *)

\* What the interpreter computes, read off a machine.
Final(s) == [gpr |-> [r \in Regs |-> IF r = 0 THEN 0 ELSE s.regs[r]], access |-> s.acc, ip |-> s.nip]

GuestIs(s, g) == \A r \in GRegs : s.regs[r] = g[r]

Guests == {g \in [Regs -> Word] : g[0] = 0}

Outcome(g, acc, nip) == [gpr |-> g, access |-> acc, ip |-> nip]

X0Load(i) == i.kind = "load" /\ i.rd = 0 /\ i.imm = 0

NextIp == (Ip + 4) % WordSize

Env(i, g) == [gpr |-> g, x0 |-> X0Load(i)]

LEMMA EnvFacts ==
  ASSUME NEW i, NEW g
  PROVE  Env(i, g).gpr = g /\ Env(i, g).x0 = X0Load(i)
  BY DEF Env

\* The IR of i leads to what the interpreter computes, with at most three
\* temporaries.
Translated(i, g, m) ==
  \E s1, t1 :
    /\ Reach(TranslateInsn(i), Start(g), s1, TranslatorTemps(i), t1, m, Env(i, g), TranslatorTemps(i))
    /\ t1 \in 0 .. 3
    /\ ~X0Load(i) => Final(s1) = Interp(i, g, m)

LEMMA RegFacts ==
  /\ \A r \in Regs : r \in Nat
  /\ \A r \in Regs : r # 0 => r \in GRegs /\ r \in VRegs /\ r > 0
  /\ Ip \in Word /\ NextIp \in Word
  /\ \A n \in Imms : n \in Word
  <1>1. \A r \in Regs : r \in Nat
    BY LoweringAssumption
  <1>2. \A r \in Regs : r # 0 => r \in GRegs /\ r \in VRegs /\ r > 0
    BY VRegFacts DEF GRegs
  <1>3. Ip \in Word /\ \A n \in Imms : n \in Word
    BY LoweringAssumption
  <1>4. Ip + 4 \in Int
    BY <1>3, WordRange
  <1>5. NextIp \in Word
    BY <1>4, ModWord DEF NextIp
  <1> QED
    BY <1>1, <1>2, <1>3, <1>5

LEMMA StartFacts ==
  ASSUME NEW g \in Guests
  PROVE  /\ Typed(Start(g)) /\ GuestIs(Start(g), g)
         /\ Start(g).acc = NoAccess /\ Start(g).nip = NextIp /\ Start(g).sip = Undef
  <1> DEFINE f == [r \in VRegs |-> IF r > 0 THEN g[r] ELSE Undef]
  <1>1. \A r \in VRegs : r > 0 => r \in GRegs /\ r \in Regs
    BY VRegFacts DEF GRegs
  <1>2. g \in [Regs -> Word]
    BY DEF Guests
  <1>3. f \in [VRegs -> Word \cup {Undef}]
    BY <1>1, <1>2
  <1>4. \A r \in GRegs : f[r] = g[r]
    BY VRegFacts
  <1>5. Start(g) = Machine(f, Undef, NoAccess, NextIp)
    BY DEF Start, NextIp
  <1> HIDE DEF f
  <1>6. Typed(Start(g))
    BY <1>3, <1>5, RegFacts, MachineTyped
  <1>7. /\ Start(g).regs = f /\ Start(g).acc = NoAccess /\ Start(g).nip = NextIp
        /\ Start(g).sip = Undef
    BY <1>5, MachineFacts
  <1> QED
    BY <1>4, <1>6, <1>7 DEF GuestIs

LEMMA FinalFacts ==
  ASSUME NEW g \in Guests, NEW s, GuestIs(s, g)
  PROVE  Final(s) = Outcome(g, s.acc, s.nip)
  <1>1. g \in [Regs -> Word] /\ g[0] = 0
    BY DEF Guests
  <1>2. \A r \in Regs : r # 0 => s.regs[r] = g[r]
    BY DEF GuestIs, GRegs
  <1>3. [r \in Regs |-> IF r = 0 THEN 0 ELSE s.regs[r]] = g
    BY <1>1, <1>2
  <1> QED
    BY <1>3 DEF Final, Outcome

LEMMA SetRegGuest ==
  ASSUME NEW g \in Guests, NEW rd \in Regs, NEW w \in Word
  PROVE  SetReg(g, rd, w) \in Guests
  <1>1. g \in [Regs -> Word] /\ g[0] = 0
    BY DEF Guests
  <1>2. CASE rd = 0
    BY <1>2 DEF SetReg
  <1>3. CASE rd # 0
    <2> DEFINE h == [g EXCEPT ![rd] = w]
    <2>1. h \in [Regs -> Word] /\ h[0] = 0
      BY <1>1, <1>3, LoweringAssumption
    <2> QED
      BY <1>3, <2>1 DEF SetReg, Guests
  <1> QED
    BY <1>2, <1>3

LEMMA PutGuest ==
  ASSUME NEW g \in Guests, NEW s, Typed(s), GuestIs(s, g), NEW rd \in Regs, rd # 0, NEW w \in Word
  PROVE  /\ GuestIs(Put(s, vreg(rd), w), SetReg(g, rd, w))
         /\ Put(s, vreg(rd), w).acc = s.acc /\ Put(s, vreg(rd), w).nip = s.nip
         /\ Put(s, vreg(rd), w).sip = s.sip
  <1>1. /\ Put(s, vreg(rd), w).regs = [s.regs EXCEPT ![rd] = w]
        /\ Put(s, vreg(rd), w).acc = s.acc /\ Put(s, vreg(rd), w).nip = s.nip
        /\ Put(s, vreg(rd), w).sip = s.sip
    BY MachineFacts, OperandFacts DEF Put
  <1>2. SetReg(g, rd, w) = [g EXCEPT ![rd] = w]
    BY DEF SetReg
  <1>3. g \in [Regs -> Word] /\ s.regs \in [VRegs -> Word \cup {Undef}]
    BY DEF Guests, Typed
  <1>4. \A r \in GRegs : r \in VRegs /\ r \in Regs
    BY VRegFacts DEF GRegs
  <1>5. ASSUME NEW r \in GRegs
        PROVE  [s.regs EXCEPT ![rd] = w][r] = [g EXCEPT ![rd] = w][r]
    BY <1>3, <1>4 DEF GuestIs
  <1> QED
    BY <1>1, <1>2, <1>5 DEF GuestIs

\* A write to a temporary.
LEMMA PutGuestTemp ==
  ASSUME NEW g, NEW s, Typed(s), GuestIs(s, g), NEW w \in Word
  PROVE  /\ GuestIs(Put(s, vtemp(1), w), g) /\ Reg(vtemp(1), 1)
         /\ Put(s, vtemp(1), w).acc = s.acc /\ Put(s, vtemp(1), w).nip = s.nip
         /\ Put(s, vtemp(1), w).sip = s.sip
  <1>1. vtemp(1) = vreg(-1) /\ vtemp(1).n = -1 /\ -1 \in VRegs
    BY OperandFacts, VRegFacts DEF vtemp
  <1>2. /\ Put(s, vtemp(1), w).regs = [s.regs EXCEPT ![-1] = w]
        /\ Put(s, vtemp(1), w).acc = s.acc /\ Put(s, vtemp(1), w).nip = s.nip
        /\ Put(s, vtemp(1), w).sip = s.sip
    BY <1>1, MachineFacts DEF Put
  <1>3. s.regs \in [VRegs -> Word \cup {Undef}]
    BY DEF Typed
  <1>4. \A r \in GRegs : r \in VRegs /\ r # -1
    BY VRegFacts
  <1>5. \A r \in GRegs : [s.regs EXCEPT ![-1] = w][r] = s.regs[r]
    BY <1>3, <1>4
  <1>6. Reg(vtemp(1), 1)
    BY <1>1 DEF Reg
  <1> QED
    BY <1>2, <1>5, <1>6 DEF GuestIs

LEMMA GpropFacts ==
  ASSUME NEW g \in Guests, NEW s, GuestIs(s, g), NEW r \in Regs, NEW T \in Nat
  PROVE  /\ Readable(gprop(r), s, T) /\ Val(gprop(r), s) = g[r] /\ g[r] \in Word
         /\ r # 0 => Reg(vreg(r), T) /\ gprop(r) = vreg(r)
         /\ r = 0 => gprop(r) = vconst(0)
  <1>1. g \in [Regs -> Word] /\ g[0] = 0 /\ g[r] \in Word
    BY DEF Guests
  <1>2. CASE r = 0
    <2>1. gprop(r) = vconst(0)
      BY <1>2 DEF gprop
    <2>2. 0 \in Word
      BY <1>1, <1>2
    <2>3. Const(gprop(r)) /\ Val(gprop(r), s) = 0
      BY <2>1, <2>2, OperandFacts DEF Const, Val
    <2> QED
      BY <1>1, <1>2, <2>1, <2>3 DEF Readable
  <1>3. CASE r # 0
    <2>1. gprop(r) = vreg(r) /\ gprop(r).n = r /\ gprop(r).const = FALSE
      BY <1>3, OperandFacts DEF gprop
    <2>2. r \in GRegs /\ r \in VRegs /\ r >= -T
      BY <1>3, RegFacts
    <2>3. Reg(vreg(r), T)
      BY <2>2 DEF Reg
    <2>4. s.regs[r] = g[r] /\ g[r] # Undef
      BY <1>1, <2>2, WordRange DEF GuestIs, Undef
    <2> QED
      BY <1>1, <1>3, <2>1, <2>3, <2>4 DEF Readable, Val
  <1> QED
    BY <1>2, <1>3

LEMMA ConstReadable ==
  ASSUME NEW n \in Word, NEW s, NEW T
  PROVE  Readable(vconst(n), s, T) /\ Val(vconst(n), s) = n
  BY OperandFacts DEF Readable, Const, Val

\* The fields of an instruction.
LEMMA InsnFacts ==
  ASSUME NEW i \in Insns
  PROVE  /\ i.kind \in {"arithRR", "arithRI", "setRR", "setRI", "lui", "auipc", "jal", "jalr",
                        "brcc", "load", "store"}
         /\ i.kind = "arithRR" => i.fn \in BinFns /\ i.rd \in Regs /\ i.rs1 \in Regs /\ i.rs2 \in Regs
         /\ i.kind = "arithRI" => i.fn \in BinFns /\ i.rd \in Regs /\ i.rs1 \in Regs /\ i.imm \in Imms
         /\ i.kind = "setRR" => i.cc \in Ccs /\ i.rd \in Regs /\ i.rs1 \in Regs /\ i.rs2 \in Regs
         /\ i.kind = "setRI" => i.cc \in Ccs /\ i.rd \in Regs /\ i.rs1 \in Regs /\ i.imm \in Imms
         /\ i.kind \in {"lui", "auipc", "jal"} => i.rd \in Regs /\ i.imm \in Imms
         /\ i.kind = "jalr" => i.rd \in Regs /\ i.rs1 \in Regs /\ i.imm \in Imms
         /\ i.kind = "brcc" => i.cc \in Ccs /\ i.rs1 \in Regs /\ i.rs2 \in Regs /\ i.imm \in Imms
         /\ i.kind = "load" => /\ i.width \in Widths /\ i.signed \in BOOLEAN
                               /\ i.rd \in Regs /\ i.rs1 \in Regs /\ i.imm \in Imms
         /\ i.kind = "store" => /\ i.width \in Widths
                                /\ i.rs1 \in Regs /\ i.rs2 \in Regs /\ i.imm \in Imms
  <1>1. CASE i \in [kind : {"arithRR"}, fn : BinFns, rd : Regs, rs1 : Regs, rs2 : Regs]
    BY <1>1
  <1>2. CASE i \in [kind : {"arithRI"}, fn : BinFns \ {"sub"}, rd : Regs, rs1 : Regs, imm : Imms]
    BY <1>2
  <1>3. CASE i \in [kind : {"setRR"}, cc : {"LT", "LTU"}, rd : Regs, rs1 : Regs, rs2 : Regs]
    BY <1>3 DEF Ccs
  <1>4. CASE i \in [kind : {"setRI"}, cc : {"LT", "LTU"}, rd : Regs, rs1 : Regs, imm : Imms]
    BY <1>4 DEF Ccs
  <1>5. CASE i \in [kind : {"lui", "auipc", "jal"}, rd : Regs, imm : Imms]
    BY <1>5
  <1>6. CASE i \in [kind : {"jalr"}, rd : Regs, rs1 : Regs, imm : Imms]
    BY <1>6
  <1>7. CASE i \in [kind : {"brcc"}, cc : {"EQ", "NE", "LT", "GE", "LTU", "GEU"},
                    rs1 : Regs, rs2 : Regs, imm : Imms]
    BY <1>7 DEF Ccs
  <1>8. CASE i \in [kind : {"load"}, width : Widths, signed : BOOLEAN, rd : Regs, rs1 : Regs, imm : Imms]
    BY <1>8
  <1>9. CASE i \in [kind : {"store"}, width : Widths, rs1 : Regs, rs2 : Regs, imm : Imms]
    BY <1>9
  <1> QED
    BY <1>1, <1>2, <1>3, <1>4, <1>5, <1>6, <1>7, <1>8, <1>9 DEF Insns

\* The interpreter, one kind of instruction at a time.
LEMMA InterpFacts ==
  ASSUME NEW i, NEW g, NEW m
  PROVE  /\ i.kind = "arithRR" =>
              Interp(i, g, m) = Outcome(SetReg(g, i.rd, Arith(i.fn, g[i.rs1], g[i.rs2])), NoAccess, NextIp)
         /\ i.kind = "arithRI" =>
              Interp(i, g, m) = Outcome(SetReg(g, i.rd, Arith(i.fn, g[i.rs1], i.imm)), NoAccess, NextIp)
         /\ i.kind = "setRR" =>
              Interp(i, g, m) = Outcome(SetReg(g, i.rd, Flag(Holds(i.cc, g[i.rs1], g[i.rs2]))), NoAccess, NextIp)
         /\ i.kind = "setRI" =>
              Interp(i, g, m) = Outcome(SetReg(g, i.rd, Flag(Holds(i.cc, g[i.rs1], i.imm))), NoAccess, NextIp)
         /\ i.kind = "lui" => Interp(i, g, m) = Outcome(SetReg(g, i.rd, i.imm), NoAccess, NextIp)
         /\ i.kind = "auipc" =>
              Interp(i, g, m) = Outcome(SetReg(g, i.rd, (Ip + i.imm) % WordSize), NoAccess, NextIp)
         /\ i.kind = "jal" =>
              Interp(i, g, m) = Outcome(SetReg(g, i.rd, NextIp), NoAccess, (Ip + i.imm) % WordSize)
         /\ i.kind = "brcc" =>
              Interp(i, g, m) = Outcome(g, NoAccess, IF Holds(i.cc, g[i.rs1], g[i.rs2])
                                                     THEN (Ip + i.imm) % WordSize ELSE NextIp)
  <1>1. i.kind = "arithRR" =>
          Interp(i, g, m) = Outcome(SetReg(g, i.rd, Arith(i.fn, g[i.rs1], g[i.rs2])), NoAccess, NextIp)
    BY DEF Interp, Outcome, NextIp
  <1>2. i.kind = "arithRI" =>
          Interp(i, g, m) = Outcome(SetReg(g, i.rd, Arith(i.fn, g[i.rs1], i.imm)), NoAccess, NextIp)
    BY DEF Interp, Outcome, NextIp
  <1>3. i.kind = "setRR" =>
          Interp(i, g, m) = Outcome(SetReg(g, i.rd, Flag(Holds(i.cc, g[i.rs1], g[i.rs2]))), NoAccess, NextIp)
    BY DEF Interp, Outcome, NextIp
  <1>4. i.kind = "setRI" =>
          Interp(i, g, m) = Outcome(SetReg(g, i.rd, Flag(Holds(i.cc, g[i.rs1], i.imm))), NoAccess, NextIp)
    BY DEF Interp, Outcome, NextIp
  <1>5. i.kind = "lui" => Interp(i, g, m) = Outcome(SetReg(g, i.rd, i.imm), NoAccess, NextIp)
    BY DEF Interp, Outcome, NextIp
  <1>6. i.kind = "auipc" =>
          Interp(i, g, m) = Outcome(SetReg(g, i.rd, (Ip + i.imm) % WordSize), NoAccess, NextIp)
    BY DEF Interp, Outcome, NextIp
  <1>7. i.kind = "jal" =>
          Interp(i, g, m) = Outcome(SetReg(g, i.rd, NextIp), NoAccess, (Ip + i.imm) % WordSize)
    BY DEF Interp, Outcome, NextIp
  <1>8. i.kind = "brcc" =>
          Interp(i, g, m) = Outcome(g, NoAccess, IF Holds(i.cc, g[i.rs1], g[i.rs2])
                                                 THEN (Ip + i.imm) % WordSize ELSE NextIp)
    BY DEF Interp, Outcome, NextIp
  <1> QED
    BY <1>1, <1>2, <1>3, <1>4, <1>5, <1>6, <1>7, <1>8

LEMMA InterpAccess ==
  ASSUME NEW i, NEW g, NEW m, NEW a, a = (g[i.rs1] + i.imm) % WordSize
  PROVE  /\ i.kind = "jalr" =>
              Interp(i, g, m) = Outcome(SetReg(g, i.rd, NextIp), NoAccess, a - (a % 2))
         /\ i.kind = "load" =>
              Interp(i, g, m) = Outcome(SetReg(g, i.rd, Extend(m, i.width, i.signed)), <<a, i.width>>, NextIp)
         /\ i.kind = "store" =>
              Interp(i, g, m) = Outcome(g, <<a, i.width, g[i.rs2] % Pow2[i.width]>>, NextIp)
  <1>1. i.kind = "jalr" =>
          Interp(i, g, m) = Outcome(SetReg(g, i.rd, NextIp), NoAccess, a - (a % 2))
    BY DEF Interp, Outcome, NextIp
  <1>2. i.kind = "load" =>
          Interp(i, g, m) = Outcome(SetReg(g, i.rd, Extend(m, i.width, i.signed)), <<a, i.width>>, NextIp)
    BY DEF Interp, Outcome, NextIp
  <1>3. i.kind = "store" =>
          Interp(i, g, m) = Outcome(g, <<a, i.width, g[i.rs2] % Pow2[i.width]>>, NextIp)
    BY DEF Interp, Outcome, NextIp
  <1> QED
    BY <1>1, <1>2, <1>3

\* Instructions that compute a register from registers and constants.
LEMMA TranslateOne ==
  ASSUME NEW i, NEW g \in Guests, NEW m \in Word, NEW o, NEW w \in Word, i.rd \in Regs,
         i.rd = 0 => TranslateInsn(i) = <<>>, i.rd # 0 => TranslateInsn(i) = <<o>>,
         TranslatorTemps(i) = 0,
         i.rd # 0 => Ok(o, Start(g), Env(i, g), 0) /\ Exec(o, Start(g), m) = Put(Start(g), vreg(i.rd), w),
         Interp(i, g, m) = Outcome(SetReg(g, i.rd, w), NoAccess, NextIp)
  PROVE  Translated(i, g, m)
  <1>1. /\ Typed(Start(g)) /\ GuestIs(Start(g), g)
        /\ Start(g).acc = NoAccess /\ Start(g).nip = NextIp
    BY StartFacts
  <1>2. CASE i.rd = 0
    <2>1. Reach(<<>>, Start(g), Start(g), 0, 0, m, Env(i, g), 0)
      BY <1>1, ReachNil
    <2>2. Final(Start(g)) = Outcome(g, NoAccess, NextIp)
      BY <1>1, FinalFacts
    <2>3. SetReg(g, i.rd, w) = g
      BY <1>2 DEF SetReg
    <2> QED
      BY <1>2, <2>1, <2>2, <2>3 DEF Translated
  <1>3. CASE i.rd # 0
    <2> DEFINE s1 == Put(Start(g), vreg(i.rd), w)
    <2>1. 0 + Cost(o) <= 3
      BY CostNat
    <2>2. Reach(<<o>>, Start(g), Exec(o, Start(g), m), 0, 3, m, Env(i, g), 0)
      BY <1>1, <1>3, <2>1, ReachOne
    <2>3. GuestIs(s1, SetReg(g, i.rd, w)) /\ s1.acc = NoAccess /\ s1.nip = NextIp
      BY <1>1, <1>3, PutGuest
    <2>4. SetReg(g, i.rd, w) \in Guests
      BY SetRegGuest
    <2> HIDE DEF s1
    <2>5. Final(s1) = Outcome(SetReg(g, i.rd, w), NoAccess, NextIp)
      BY <2>3, <2>4, FinalFacts
    <2>6. Exec(o, Start(g), m) = s1
      BY SMTT(30), <1>3 DEF s1
    <2> QED
      BY <1>3, <2>2, <2>5, <2>6 DEF Translated
  <1> QED
    BY <1>2, <1>3

LEMMA TranslateKinds ==
  ASSUME NEW i
  PROVE  /\ i.kind = "arithRR" =>
              /\ i.rd = 0 => TranslateInsn(i) = <<>>
              /\ i.rd # 0 => TranslateInsn(i) = <<Inst(i.fn, "none", vreg(i.rd), <<gprop(i.rs1), gprop(i.rs2)>>)>>
         /\ i.kind = "arithRI" =>
              /\ i.rd = 0 => TranslateInsn(i) = <<>>
              /\ i.rd # 0 => TranslateInsn(i) = <<Inst(i.fn, "none", vreg(i.rd), <<gprop(i.rs1), vconst(i.imm)>>)>>
         /\ i.kind = "setRR" =>
              /\ i.rd = 0 => TranslateInsn(i) = <<>>
              /\ i.rd # 0 => TranslateInsn(i) = <<Inst("setcc", i.cc, vreg(i.rd), <<gprop(i.rs1), gprop(i.rs2)>>)>>
         /\ i.kind = "setRI" =>
              /\ i.rd = 0 => TranslateInsn(i) = <<>>
              /\ i.rd # 0 => TranslateInsn(i) = <<Inst("setcc", i.cc, vreg(i.rd), <<gprop(i.rs1), vconst(i.imm)>>)>>
         /\ i.kind = "lui" =>
              /\ i.rd = 0 => TranslateInsn(i) = <<>>
              /\ i.rd # 0 => TranslateInsn(i) = <<Mov(vreg(i.rd), vconst(i.imm))>>
         /\ i.kind = "auipc" =>
              /\ i.rd = 0 => TranslateInsn(i) = <<>>
              /\ i.rd # 0 => TranslateInsn(i) = <<Mov(vreg(i.rd), vconst((Ip + i.imm) % WordSize))>>
  BY DEF TranslateInsn

LEMMA TranslatorTempsKinds ==
  ASSUME NEW i
  PROVE  /\ i.kind = "jalr" => TranslatorTemps(i) = 1
         /\ i.kind \in {"load", "store"} => TranslatorTemps(i) = AddrTemps(i)
         /\ i.kind \in {"arithRR", "arithRI", "setRR", "setRI", "lui", "auipc", "jal", "brcc"} =>
              TranslatorTemps(i) = 0
  BY DEF TranslatorTemps

LEMMA TranslatedArithRR ==
  ASSUME NEW i \in Insns, i.kind = "arithRR", NEW g \in Guests, NEW m \in Word
  PROVE  Translated(i, g, m)
  <1>1. i.fn \in BinFns /\ i.rd \in Regs /\ i.rs1 \in Regs /\ i.rs2 \in Regs
    BY InsnFacts
  <1> DEFINE s == Start(g)
             a == gprop(i.rs1)
             b == gprop(i.rs2)
             o == Inst(i.fn, "none", vreg(i.rd), <<a, b>>)
             w == Arith(i.fn, g[i.rs1], g[i.rs2])
  <1>2. Typed(s) /\ GuestIs(s, g)
    BY StartFacts
  <1>3. /\ Readable(a, s, 0) /\ Val(a, s) = g[i.rs1] /\ g[i.rs1] \in Word
        /\ Readable(b, s, 0) /\ Val(b, s) = g[i.rs2] /\ g[i.rs2] \in Word
        /\ i.rd # 0 => Reg(vreg(i.rd), 0)
    BY <1>1, <1>2, GpropFacts
  <1>4. w \in Word
    BY <1>1, <1>3, ArithWord
  <1>5. Exec(o, s, m) = Put(s, vreg(i.rd), w)
    BY <1>1, <1>3, ExecArith
  <1> HIDE DEF a, b
  <1>6. i.rd # 0 => Ok(o, s, Env(i, g), 0)
    BY <1>1, <1>3 DEF Ok, OkArith
  <1>7. /\ i.rd = 0 => TranslateInsn(i) = <<>>
        /\ i.rd # 0 => TranslateInsn(i) = <<o>>
    BY TranslateKinds DEF a, b
  <1>8. TranslatorTemps(i) = 0
    BY TranslatorTempsKinds
  <1>9. Interp(i, g, m) = Outcome(SetReg(g, i.rd, w), NoAccess, NextIp)
    BY InterpFacts
  <1> HIDE DEF o, w
  <1> QED
    BY <1>1, <1>4, <1>5, <1>6, <1>7, <1>8, <1>9, TranslateOne

LEMMA TranslatedArithRI ==
  ASSUME NEW i \in Insns, i.kind = "arithRI", NEW g \in Guests, NEW m \in Word
  PROVE  Translated(i, g, m)
  <1>1. i.fn \in BinFns /\ i.rd \in Regs /\ i.rs1 \in Regs /\ i.imm \in Word
    BY InsnFacts, RegFacts
  <1> DEFINE s == Start(g)
             a == gprop(i.rs1)
             b == vconst(i.imm)
             o == Inst(i.fn, "none", vreg(i.rd), <<a, b>>)
             w == Arith(i.fn, g[i.rs1], i.imm)
  <1>2. Typed(s) /\ GuestIs(s, g)
    BY StartFacts
  <1>3. /\ Readable(a, s, 0) /\ Val(a, s) = g[i.rs1] /\ g[i.rs1] \in Word
        /\ Readable(b, s, 0) /\ Val(b, s) = i.imm
        /\ i.rd # 0 => Reg(vreg(i.rd), 0)
    BY <1>1, <1>2, GpropFacts, ConstReadable
  <1>4. w \in Word
    BY <1>1, <1>3, ArithWord
  <1>5. Exec(o, s, m) = Put(s, vreg(i.rd), w)
    BY <1>1, <1>3, ExecArith
  <1> HIDE DEF a, b
  <1>6. i.rd # 0 => Ok(o, s, Env(i, g), 0)
    BY <1>1, <1>3 DEF Ok, OkArith
  <1>7. /\ i.rd = 0 => TranslateInsn(i) = <<>>
        /\ i.rd # 0 => TranslateInsn(i) = <<o>>
    BY TranslateKinds DEF a, b
  <1>8. TranslatorTemps(i) = 0
    BY TranslatorTempsKinds
  <1>9. Interp(i, g, m) = Outcome(SetReg(g, i.rd, w), NoAccess, NextIp)
    BY InterpFacts
  <1> HIDE DEF o, w
  <1> QED
    BY <1>1, <1>4, <1>5, <1>6, <1>7, <1>8, <1>9, TranslateOne

LEMMA TranslatedSetRR ==
  ASSUME NEW i \in Insns, i.kind = "setRR", NEW g \in Guests, NEW m \in Word
  PROVE  Translated(i, g, m)
  <1>1. i.cc \in Ccs /\ i.rd \in Regs /\ i.rs1 \in Regs /\ i.rs2 \in Regs
    BY InsnFacts
  <1> DEFINE s == Start(g)
             a == gprop(i.rs1)
             b == gprop(i.rs2)
             o == Inst("setcc", i.cc, vreg(i.rd), <<a, b>>)
             w == Flag(Holds(i.cc, g[i.rs1], g[i.rs2]))
  <1>2. Typed(s) /\ GuestIs(s, g)
    BY StartFacts
  <1>3. /\ Readable(a, s, 0) /\ Val(a, s) = g[i.rs1]
        /\ Readable(b, s, 0) /\ Val(b, s) = g[i.rs2]
        /\ i.rd # 0 => Reg(vreg(i.rd), 0)
    BY <1>1, <1>2, GpropFacts
  <1>4. w \in Word
    BY FlagWord
  <1>5. Exec(o, s, m) = Put(s, vreg(i.rd), w)
    BY <1>3, ExecSetcc
  <1> HIDE DEF a, b
  <1>6. i.rd # 0 => Ok(o, s, Env(i, g), 0)
    BY <1>1, <1>3 DEF Ok, OkSetcc
  <1>7. /\ i.rd = 0 => TranslateInsn(i) = <<>>
        /\ i.rd # 0 => TranslateInsn(i) = <<o>>
    BY TranslateKinds DEF a, b
  <1>8. TranslatorTemps(i) = 0
    BY TranslatorTempsKinds
  <1>9. Interp(i, g, m) = Outcome(SetReg(g, i.rd, w), NoAccess, NextIp)
    BY InterpFacts
  <1> HIDE DEF o, w
  <1> QED
    BY <1>1, <1>4, <1>5, <1>6, <1>7, <1>8, <1>9, TranslateOne

LEMMA TranslatedSetRI ==
  ASSUME NEW i \in Insns, i.kind = "setRI", NEW g \in Guests, NEW m \in Word
  PROVE  Translated(i, g, m)
  <1>1. i.cc \in Ccs /\ i.rd \in Regs /\ i.rs1 \in Regs /\ i.imm \in Word
    BY InsnFacts, RegFacts
  <1> DEFINE s == Start(g)
             a == gprop(i.rs1)
             b == vconst(i.imm)
             o == Inst("setcc", i.cc, vreg(i.rd), <<a, b>>)
             w == Flag(Holds(i.cc, g[i.rs1], i.imm))
  <1>2. Typed(s) /\ GuestIs(s, g)
    BY StartFacts
  <1>3. /\ Readable(a, s, 0) /\ Val(a, s) = g[i.rs1]
        /\ Readable(b, s, 0) /\ Val(b, s) = i.imm
        /\ i.rd # 0 => Reg(vreg(i.rd), 0)
    BY <1>1, <1>2, GpropFacts, ConstReadable
  <1>4. w \in Word
    BY FlagWord
  <1>5. Exec(o, s, m) = Put(s, vreg(i.rd), w)
    BY <1>3, ExecSetcc
  <1> HIDE DEF a, b
  <1>6. i.rd # 0 => Ok(o, s, Env(i, g), 0)
    BY <1>1, <1>3 DEF Ok, OkSetcc
  <1>7. /\ i.rd = 0 => TranslateInsn(i) = <<>>
        /\ i.rd # 0 => TranslateInsn(i) = <<o>>
    BY TranslateKinds DEF a, b
  <1>8. TranslatorTemps(i) = 0
    BY TranslatorTempsKinds
  <1>9. Interp(i, g, m) = Outcome(SetReg(g, i.rd, w), NoAccess, NextIp)
    BY InterpFacts
  <1> HIDE DEF o, w
  <1> QED
    BY <1>1, <1>4, <1>5, <1>6, <1>7, <1>8, <1>9, TranslateOne

LEMMA TranslatedUpper ==
  ASSUME NEW i \in Insns, i.kind \in {"lui", "auipc"}, NEW g \in Guests, NEW m \in Word
  PROVE  Translated(i, g, m)
  <1>1. i.rd \in Regs /\ i.imm \in Word
    BY InsnFacts, RegFacts
  <1> DEFINE s == Start(g)
             w == IF i.kind = "lui" THEN i.imm ELSE (Ip + i.imm) % WordSize
             b == vconst(w)
             o == Mov(vreg(i.rd), b)
  <1>2. Typed(s) /\ GuestIs(s, g)
    BY StartFacts
  <1>3. Ip + i.imm \in Int
    BY <1>1, RegFacts, WordRange
  <1>4. w \in Word
    BY <1>1, <1>3, ModWord
  <1>5. i.rd # 0 => Reg(vreg(i.rd), 0)
    BY <1>1, <1>2, GpropFacts
  <1>6. /\ i.rd = 0 => TranslateInsn(i) = <<>>
        /\ i.rd # 0 => TranslateInsn(i) = <<o>>
    BY TranslateKinds
  <1>7. Interp(i, g, m) = Outcome(SetReg(g, i.rd, w), NoAccess, NextIp)
    BY InterpFacts
  <1> HIDE DEF w
  <1>8. Readable(b, s, 0) /\ Val(b, s) = w
    BY <1>4, ConstReadable
  <1>9. Exec(o, s, m) = Put(s, vreg(i.rd), w)
    BY <1>8, ExecMov
  <1> HIDE DEF b
  <1>10. i.rd # 0 => Ok(o, s, Env(i, g), 0)
    BY <1>5, <1>8 DEF Ok, OkMov
  <1>11. TranslatorTemps(i) = 0
    BY TranslatorTempsKinds
  <1> HIDE DEF o
  <1> QED
    BY <1>1, <1>4, <1>6, <1>7, <1>9, <1>10, <1>11, TranslateOne

LEMMA TranslatedBrcc ==
  ASSUME NEW i \in Insns, i.kind = "brcc", NEW g \in Guests, NEW m \in Word
  PROVE  Translated(i, g, m)
  <1>1. i.cc \in Ccs /\ i.rs1 \in Regs /\ i.rs2 \in Regs /\ i.imm \in Word
    BY InsnFacts, RegFacts
  <1> DEFINE s == Start(g)
             a == gprop(i.rs1)
             b == gprop(i.rs2)
             e == (Ip + i.imm) % WordSize
             w == IF Holds(i.cc, g[i.rs1], g[i.rs2]) THEN e ELSE NextIp
             o == Inst("brcc", <<i.cc, e, NextIp>>, NoDst, <<a, b>>)
             s1 == Machine(s.regs, s.sip, s.acc, w)
  <1>2. Typed(s) /\ GuestIs(s, g) /\ s.acc = NoAccess
    BY StartFacts
  <1>3. /\ Readable(a, s, 0) /\ Val(a, s) = g[i.rs1]
        /\ Readable(b, s, 0) /\ Val(b, s) = g[i.rs2]
    BY <1>1, <1>2, GpropFacts
  <1>4. Ip + i.imm \in Int
    BY <1>1, RegFacts, WordRange
  <1>5. e \in Word /\ NextIp \in Word
    BY <1>4, ModWord, RegFacts
  <1>6. TranslateInsn(i) = <<o>>
    BY DEF TranslateInsn, NextIp
  <1>7. Exec(o, s, m) = Machine(s.regs, s.sip, s.acc, IF Holds(i.cc, Val(a, s), Val(b, s)) THEN e ELSE NextIp)
    BY ExecBrcc
  <1>8. Exec(o, s, m) = s1
    BY <1>3, <1>7
  <1>9. Interp(i, g, m) = Outcome(g, NoAccess, w)
    BY InterpFacts
  <1> HIDE DEF a, b, e
  <1>10. Ok(o, s, Env(i, g), 0)
    BY <1>1, <1>3, <1>5 DEF Ok, OkBrcc
  <1>11. 0 + Cost(o) <= 3 /\ TranslatorTemps(i) = 0
    BY CostNat, TranslatorTempsKinds
  <1> HIDE DEF o, w
  <1>12. Reach(<<o>>, s, s1, 0, 3, m, Env(i, g), 0)
    BY <1>2, <1>8, <1>10, <1>11, ReachOne
  <1>13. GuestIs(s1, g) /\ s1.acc = NoAccess /\ s1.nip = w
    BY <1>2, MachineFacts DEF GuestIs
  <1> HIDE DEF s1
  <1>14. Final(s1) = Outcome(g, NoAccess, w)
    BY <1>13, FinalFacts
  <1> QED
    BY <1>6, <1>9, <1>11, <1>12, <1>14 DEF Translated

LEMMA PairCat ==
  ASSUME NEW a, NEW b
  PROVE  <<a, b>> = <<a>> \o <<b>>
  <1> DEFINE x == <<a>>
             y == <<b>>
             f == x \o y
  <1>1. IsSeq(x) /\ Len(x) = 1 /\ x[1] = a /\ IsSeq(y) /\ Len(y) = 1 /\ y[1] = b
    BY SeqOne
  <1> HIDE DEF x, y
  <1>2. /\ IsSeq(f) /\ Len(f) = Len(x) + Len(y)
        /\ \A k \in 1 .. Len(x) : f[k] = x[k]
        /\ \A k \in Len(x) + 1 .. Len(x) + Len(y) : f[k] = y[k - Len(x)]
    BY <1>1, SeqCat
  <1>3. Len(f) = 2 /\ f[1] = a
    BY <1>1, <1>2
  <1>4. f[2] = b
    <2>1. 2 \in Len(x) + 1 .. Len(x) + Len(y) /\ 2 - Len(x) = 1
      BY <1>1
    <2> QED
      BY <1>1, <1>2, <2>1
  <1> HIDE DEF f
  <1>5. DOMAIN f = 1 .. 2
    BY <1>2, <1>3, SeqLen
  <1>6. 1 .. 2 = {1, 2}
    OBVIOUS
  <1>7. PICK A : f \in Seq(A)
    BY <1>2 DEF IsSeq
  <1>8. f = [k \in DOMAIN f |-> f[k]]
    BY <1>7
  <1>9. f = <<f[1], f[2]>>
    BY <1>6, <1>8, <1>5, PairDef
  <1> QED
    BY <1>3, <1>4, <1>9 DEF f, x, y

LinkCode(rd) == IF rd = 0 THEN <<>> ELSE <<Mov(vreg(rd), vconst(NextIp))>>

LEMMA MovCost ==
  ASSUME NEW d, NEW a
  PROVE  Cost(Mov(d, a)) = 0
  <1>1. Mov(d, a).op = "mov"
    BY InstFacts DEF Mov
  <1> QED
    BY <1>1, OpNames DEF Cost

Linked(rd, s, t, m, g, h, T) ==
  \E s1 : /\ Reach(LinkCode(rd), s, s1, t, t, m, h, T) /\ Typed(s1)
          /\ GuestIs(s1, SetReg(g, rd, NextIp))
          /\ s1.sip = s.sip /\ s1.acc = s.acc /\ s1.nip = s.nip
          /\ s1.regs[-1] = s.regs[-1]

\* The link register of a jump.
LEMMA LinkReach ==
  ASSUME NEW g \in Guests, NEW s, Typed(s), GuestIs(s, g), NEW rd \in Regs, NEW m \in Word,
         NEW h, NEW t \in Nat, NEW T \in Nat
  PROVE  Linked(rd, s, t, m, g, h, T)
  <1>1. CASE rd = 0
    <2>1. LinkCode(rd) = <<>> /\ SetReg(g, rd, NextIp) = g
      BY <1>1 DEF LinkCode, SetReg
    <2>2. Reach(<<>>, s, s, t, t, m, h, T)
      BY ReachNil
    <2> QED
      BY <2>1, <2>2 DEF Linked
  <1>2. CASE rd # 0
    <2> DEFINE b == vconst(NextIp)
               d == vreg(rd)
               o == Mov(d, b)
               s1 == Put(s, d, NextIp)
    <2>1. LinkCode(rd) = <<o>>
      BY <1>2 DEF LinkCode
    <2>2. Readable(b, s, T) /\ Val(b, s) = NextIp /\ NextIp \in Word
      BY RegFacts, ConstReadable
    <2>3. Reg(d, T)
      BY <1>2, GpropFacts
    <2>4. Exec(o, s, m) = s1
      BY <2>2, ExecMov
    <2>5. Typed(s1)
      BY <2>2, <2>3, PutTyped
    <2>6. /\ GuestIs(s1, SetReg(g, rd, NextIp))
          /\ s1.sip = s.sip /\ s1.acc = s.acc /\ s1.nip = s.nip
      BY <1>2, <2>2, PutGuest
    <2>7. s1.regs[-1] = s.regs[-1]
      <3>1. s1.regs = [s.regs EXCEPT ![rd] = NextIp]
        BY MachineFacts, OperandFacts DEF Put
      <3>2. -1 \in VRegs /\ rd # -1 /\ s.regs \in [VRegs -> Word \cup {Undef}]
        BY VRegFacts, RegFacts DEF Typed
      <3> QED
        BY <3>1, <3>2
    <2>8. Ok(o, s, h, T)
      BY <2>2, <2>3 DEF Ok, OkMov
    <2>9. t + Cost(o) <= t
      BY MovCost
    <2> HIDE DEF o, s1
    <2>10. Reach(<<o>>, s, s1, t, t, m, h, T)
      BY <2>4, <2>8, <2>9, ReachOne
    <2> QED
      BY <2>1, <2>5, <2>6, <2>7, <2>10 DEF Linked
  <1> QED
    BY <1>1, <1>2

LEMMA TranslatedJal ==
  ASSUME NEW i \in Insns, i.kind = "jal", NEW g \in Guests, NEW m \in Word
  PROVE  Translated(i, g, m)
  <1>1. i.rd \in Regs /\ i.imm \in Word
    BY InsnFacts, RegFacts
  <1> DEFINE s == Start(g)
             h == SetReg(g, i.rd, NextIp)
             e == (Ip + i.imm) % WordSize
             o == Inst("gbr", e, NoDst, <<>>)
  <1>2. Typed(s) /\ GuestIs(s, g) /\ s.acc = NoAccess
    BY StartFacts
  <1>3. PICK s1 : /\ Reach(LinkCode(i.rd), s, s1, 0, 0, m, Env(i, g), 0) /\ Typed(s1)
                  /\ GuestIs(s1, h) /\ s1.acc = NoAccess
    <2>1. Linked(i.rd, s, 0, m, g, Env(i, g), 0)
      BY <1>1, <1>2, LinkReach
    <2> QED
      BY <1>2, <2>1 DEF Linked
  <1>4. Ip + i.imm \in Int
    BY <1>1, RegFacts, WordRange
  <1>5. e \in Word
    BY <1>4, ModWord
  <1>6. TranslateInsn(i) = LinkCode(i.rd) \o <<o>>
    BY DEF TranslateInsn, LinkCode, NextIp
  <1>7. Interp(i, g, m) = Outcome(h, NoAccess, e)
    BY InterpFacts
  <1> HIDE DEF e
  <1>8. Ok(o, s1, Env(i, g), 0)
    BY <1>5 DEF Ok, OkGbr
  <1> DEFINE s2 == Machine(s1.regs, s1.sip, s1.acc, e)
  <1>9. Exec(o, s1, m) = s2
    BY ExecGbr
  <1>10. 0 + Cost(o) <= 3 /\ TranslatorTemps(i) = 0
    BY CostNat, TranslatorTempsKinds
  <1>11. h \in Guests
    BY <1>1, RegFacts, SetRegGuest
  <1> HIDE DEF o, h
  <1>12. Reach(<<o>>, s1, s2, 0, 3, m, Env(i, g), 0)
    BY <1>3, <1>8, <1>9, <1>10, ReachOne
  <1>13. Reach(TranslateInsn(i), s, s2, 0, 3, m, Env(i, g), 0)
    BY <1>3, <1>6, <1>12, ReachCat
  <1>14. GuestIs(s2, h) /\ s2.acc = NoAccess /\ s2.nip = e
    BY <1>3, MachineFacts DEF GuestIs
  <1> HIDE DEF s2
  <1>15. Final(s2) = Outcome(h, NoAccess, e)
    BY <1>11, <1>14, FinalFacts
  <1> QED
    BY <1>7, <1>10, <1>13, <1>15 DEF Translated

\* c computes the address a, to be found in d.
AddrReach(c, d, a, s, t, t1, m, g, h) ==
  \E s1 : /\ Reach(c, s, s1, t, t1, m, h, t) /\ Typed(s1) /\ GuestIs(s1, g)
          /\ s1.sip = s.sip /\ s1.acc = s.acc /\ s1.nip = s.nip
          /\ Readable(d, s1, t) /\ Val(d, s1) = a /\ a \in Word

\* The address rs + imm goes to the first temporary.
LEMMA AddTemp ==
  ASSUME NEW g \in Guests, NEW s, Typed(s), GuestIs(s, g), NEW rs \in Regs, NEW n \in Word,
         NEW m \in Word, NEW h,
         NEW a, a = (g[rs] + n) % WordSize,
         NEW o, o = Inst("add", "none", vtemp(1), <<gprop(rs), vconst(n)>>)
  PROVE  AddrReach(<<o>>, vtemp(1), a, s, 1, 2, m, g, h)
  <1> DEFINE x == gprop(rs)
             y == vconst(n)
             d == vtemp(1)
             s1 == Put(s, d, a)
  <1>1. /\ Readable(x, s, 1) /\ Val(x, s) = g[rs] /\ g[rs] \in Word
        /\ Readable(y, s, 1) /\ Val(y, s) = n
    BY GpropFacts, ConstReadable
  <1>2. Arith("add", g[rs], n) = a /\ "add" \in BinFns
    BY <1>1, AddRules, OpNames
  <1>3. a \in Word
    BY <1>1, <1>2, ArithWord
  <1>4. /\ GuestIs(s1, g) /\ Reg(d, 1)
        /\ s1.sip = s.sip /\ s1.acc = s.acc /\ s1.nip = s.nip
    BY <1>3, PutGuestTemp
  <1>5. Typed(s1) /\ Readable(d, s1, 1) /\ Val(d, s1) = a
    BY <1>3, <1>4, PutTyped, PutVal
  <1>6. Exec(o, s, m) = Put(s, d, Arith("add", Val(x, s), Val(y, s)))
    BY <1>2, ExecArith
  <1>7. Exec(o, s, m) = s1
    BY <1>1, <1>2, <1>6
  <1> HIDE DEF x, y, d, s1
  <1>8. Ok(o, s, h, 1)
    <2>1. o = Inst("add", "none", d, <<x, y>>)
      BY DEF x, y, d
    <2> QED
      BY <1>1, <1>2, <1>4, <2>1 DEF Ok, OkArith
  <1>9. 1 + Cost(o) <= 2
    <2>1. o.op = "add"
      BY InstFacts
    <2>2. Cost(o) = 1
      BY <1>2, <2>1 DEF Cost
    <2> QED
      BY <2>2
  <1>10. Reach(<<o>>, s, s1, 1, 2, m, h, 1)
    BY <1>7, <1>8, <1>9, ReachOne
  <1> QED
    BY <1>3, <1>4, <1>5, <1>10 DEF d, AddrReach

LEMMA TranslatedJalr ==
  ASSUME NEW i \in Insns, i.kind = "jalr", NEW g \in Guests, NEW m \in Word
  PROVE  Translated(i, g, m)
  <1>1. i.rd \in Regs /\ i.rs1 \in Regs /\ i.imm \in Word
    BY InsnFacts, RegFacts
  <1> DEFINE s == Start(g)
             h == SetReg(g, i.rd, NextIp)
             a == (g[i.rs1] + i.imm) % WordSize
             b == a - (a % 2)
             d == vtemp(1)
             y == vconst(WordSize - 2)
             o1 == Inst("add", "none", vtemp(1), <<gprop(i.rs1), vconst(i.imm)>>)
             o2 == Inst("and", "none", d, <<d, y>>)
             o4 == Inst("gbrind", "none", NoDst, <<d>>)
  <1>2. Typed(s) /\ GuestIs(s, g) /\ s.acc = NoAccess
    BY StartFacts
  <1>3. TranslateInsn(i) = ((<<o1>> \o <<o2>>) \o LinkCode(i.rd)) \o <<o4>>
    <2>1. TranslateInsn(i) = TranslateJalr(i)
      BY DEF TranslateInsn
    <2> HIDE DEF o1, o2, o4
    <2>2. <<o1, o2>> = <<o1>> \o <<o2>>
      BY PairCat
    <2>3. TranslateJalr(i) = (<<o1, o2>> \o LinkCode(i.rd)) \o <<o4>>
      BY DEF TranslateJalr, LinkCode, NextIp, o1, o2, o4
    <2> QED
      BY <2>1, <2>2, <2>3
  <1>4. Interp(i, g, m) = Outcome(h, NoAccess, b)
    BY InterpAccess
  <1>5. PICK s1 : /\ Reach(<<o1>>, s, s1, 1, 2, m, Env(i, g), 1) /\ Typed(s1) /\ GuestIs(s1, g)
                  /\ s1.acc = NoAccess
                  /\ Readable(d, s1, 1) /\ Val(d, s1) = a /\ a \in Word
    <2>1. a = (g[i.rs1] + i.imm) % WordSize /\ o1 = Inst("add", "none", vtemp(1), <<gprop(i.rs1), vconst(i.imm)>>)
      OBVIOUS
    <2> HIDE DEF a, o1
    <2>2. AddrReach(<<o1>>, vtemp(1), a, s, 1, 2, m, g, Env(i, g))
      BY <1>1, <1>2, <2>1, AddTemp
    <2> QED
      BY <1>2, <2>2 DEF AddrReach
  <1> HIDE DEF a, o1
  <1>6. Bits("and", a, WordSize - 2) = b
    BY <1>5, MaskClears
  <1>7. WordSize - 2 \in Word
    BY WordFacts, WordRange
  <1>8. Readable(y, s1, 1) /\ Val(y, s1) = WordSize - 2
    BY <1>7, ConstReadable
  <1>9. Arith("and", a, WordSize - 2) = b /\ "and" \in BinFns
    <2>1. Arith("and", a, WordSize - 2) = Bits("and", a, WordSize - 2)
      BY DEF Arith
    <2> QED
      BY <1>6, <2>1, OpNames
  <1>10. b \in Word
    BY <1>5, <1>7, <1>9, ArithWord
  <1> DEFINE s2 == Put(s1, d, b)
  <1>11. /\ GuestIs(s2, g) /\ Reg(d, 1) /\ s2.acc = NoAccess
    BY <1>5, <1>10, PutGuestTemp
  <1>12. Typed(s2) /\ Val(d, s2) = b
    BY <1>5, <1>10, <1>11, PutTyped, PutVal
  <1>13. Exec(o2, s1, m) = Put(s1, d, Arith("and", Val(d, s1), Val(y, s1)))
    BY <1>9, ExecArith
  <1>14. Exec(o2, s1, m) = s2
    BY <1>5, <1>8, <1>9, <1>13
  <1> HIDE DEF y, s2, b
  <1>15. Ok(o2, s1, Env(i, g), 1)
    BY <1>5, <1>8, <1>9, <1>11 DEF Ok, OkArith
  <1>16. 2 + Cost(o2) <= 2
    <2>1. o2.op = "and" /\ o2.src[1] = d /\ o2.dst = d
      BY InstFacts
    <2>2. Cost(o2) = 0
      BY <1>9, <2>1 DEF Cost
    <2> QED
      BY <2>2
  <1>17. Reach(<<o2>>, s1, s2, 2, 2, m, Env(i, g), 1)
    BY <1>5, <1>14, <1>15, <1>16, ReachOne
  <1>18. PICK s3 : /\ Reach(LinkCode(i.rd), s2, s3, 2, 2, m, Env(i, g), 1) /\ Typed(s3)
                   /\ GuestIs(s3, h) /\ s3.acc = NoAccess /\ s3.regs[-1] = s2.regs[-1]
    <2>1. Linked(i.rd, s2, 2, m, g, Env(i, g), 1)
      BY <1>1, <1>11, <1>12, LinkReach
    <2> QED
      BY <1>11, <2>1 DEF Linked
  <1>19. Readable(d, s3, 1) /\ Val(d, s3) = b
    <2>1. d.n = -1 /\ d.const = FALSE
      BY OperandFacts DEF vtemp
    <2>2. s3.regs[-1] = b /\ b # Undef
      BY <1>10, <1>12, <1>18, <2>1, WordRange DEF Val, Undef
    <2> QED
      BY <1>11, <2>1, <2>2 DEF Readable, Val
  <1> DEFINE s4 == Machine(s3.regs, s3.sip, s3.acc, b)
  <1>20. Exec(o4, s3, m) = Machine(s3.regs, s3.sip, s3.acc, Val(d, s3))
    BY ExecGbrind
  <1>21. Exec(o4, s3, m) = s4
    BY <1>19, <1>20
  <1> HIDE DEF d, o2
  <1>22. Ok(o4, s3, Env(i, g), 1)
    BY <1>11, <1>19 DEF Ok, OkGbrind
  <1>23. 2 + Cost(o4) <= 3
    <2>1. o4.op = "gbrind"
      BY InstFacts
    <2>2. Cost(o4) = 0
      BY <2>1, OpNames DEF Cost
    <2> QED
      BY <2>2
  <1> HIDE DEF o4
  <1>24. Reach(<<o4>>, s3, s4, 2, 3, m, Env(i, g), 1)
    BY <1>18, <1>21, <1>22, <1>23, ReachOne
  <1>25. Reach(<<o1>> \o <<o2>>, s, s2, 1, 2, m, Env(i, g), 1)
    BY <1>5, <1>17, ReachCat
  <1>26. Reach((<<o1>> \o <<o2>>) \o LinkCode(i.rd), s, s3, 1, 2, m, Env(i, g), 1)
    BY <1>18, <1>25, ReachCat
  <1>27. Reach(TranslateInsn(i), s, s4, 1, 3, m, Env(i, g), 1)
    BY <1>3, <1>24, <1>26, ReachCat
  <1>28. GuestIs(s4, h) /\ s4.acc = NoAccess /\ s4.nip = b
    BY <1>18, MachineFacts DEF GuestIs
  <1>29. h \in Guests
    BY <1>1, RegFacts, SetRegGuest
  <1> HIDE DEF s4, h
  <1>30. Final(s4) = Outcome(h, NoAccess, b)
    BY <1>28, <1>29, FinalFacts
  <1>31. TranslatorTemps(i) = 1
    BY TranslatorTempsKinds
  <1> QED
    BY <1>4, <1>27, <1>30, <1>31 DEF Translated

\* The address of a load or store.
LEMMA AccessAddr ==
  ASSUME NEW i, i.rs1 \in Regs, i.imm \in Word, NEW g \in Guests, NEW s, Typed(s), GuestIs(s, g),
         NEW m \in Word, NEW h, NEW a, a = (g[i.rs1] + i.imm) % WordSize
  PROVE  /\ AddrTemps(i) \in 0 .. 1
         /\ AddrReach(AddrCode(i), AddrOpr(i), a, s, AddrTemps(i), 2 * AddrTemps(i), m, g, h)
         /\ i.imm # 0 => AddrOpr(i) = vtemp(1) /\ AddrTemps(i) = 1
  <1>1. CASE i.imm = 0
    <2>1. AddrTemps(i) = 0 /\ AddrCode(i) = <<>> /\ AddrOpr(i) = gprop(i.rs1)
      BY <1>1 DEF AddrTemps, AddrCode, AddrOpr, Flag
    <2>2. g[i.rs1] \in Word /\ Readable(gprop(i.rs1), s, 0) /\ Val(gprop(i.rs1), s) = g[i.rs1]
      BY GpropFacts
    <2>3. g[i.rs1] + i.imm = g[i.rs1]
      BY <1>1, <2>2, WordRange
    <2>4. a = g[i.rs1]
      BY <2>2, <2>3, SmallMod
    <2>5. Reach(<<>>, s, s, 0, 0, m, h, 0)
      BY ReachNil
    <2>6. AddrReach(<<>>, gprop(i.rs1), a, s, 0, 0, m, g, h)
      BY <2>2, <2>4, <2>5 DEF AddrReach
    <2>7. 2 * AddrTemps(i) = 0
      BY <2>1
    <2> QED
      BY <1>1, <2>1, <2>6, <2>7
  <1>2. CASE i.imm # 0
    <2> DEFINE o == Inst("add", "none", vtemp(1), <<gprop(i.rs1), vconst(i.imm)>>)
    <2>1. AddrTemps(i) = 1 /\ AddrCode(i) = <<o>> /\ AddrOpr(i) = vtemp(1)
      BY <1>2 DEF AddrTemps, AddrCode, AddrOpr, Flag
    <2>2. AddrReach(<<o>>, vtemp(1), a, s, 1, 2, m, g, h)
      BY AddTemp
    <2> HIDE DEF o
    <2>3. 2 * AddrTemps(i) = 2
      BY <2>1
    <2> QED
      BY <1>2, <2>1, <2>2, <2>3
  <1> QED
    BY <1>1, <1>2

\* PreSideeff and the address: the guest is as before and its ip stored.
LEMMA AccessPrefix ==
  ASSUME NEW i, i.rs1 \in Regs, i.imm \in Word, NEW g \in Guests, NEW m \in Word,
         NEW a, a = (g[i.rs1] + i.imm) % WordSize, NEW T, T = AddrTemps(i)
  PROVE  /\ T \in 0 .. 1 /\ (i.imm # 0 => AddrOpr(i) = vtemp(1) /\ T = 1)
         /\ \E s1 : /\ Reach(<<PreSideeff>> \o AddrCode(i), Start(g), s1, T, 2 * T, m, Env(i, g), T)
                    /\ Typed(s1) /\ GuestIs(s1, g) /\ Precise(s1, Env(i, g))
                    /\ s1.acc = NoAccess /\ s1.nip = NextIp
                    /\ Readable(AddrOpr(i), s1, T) /\ Val(AddrOpr(i), s1) = a /\ a \in Word
  <1> DEFINE s == Start(g)
             s0 == Machine(s.regs, Ip, s.acc, s.nip)
  <1>1. Typed(s) /\ GuestIs(s, g) /\ s.acc = NoAccess /\ s.nip = NextIp
    BY StartFacts
  <1>2. Exec(PreSideeff, s, m) = s0
    BY ExecSaveip
  <1>3. Ok(PreSideeff, s, Env(i, g), T)
    BY DEF Ok
  <1>4. Typed(s0)
    BY <1>1, <1>2, <1>3, ExecTyped
  <1>5. GuestIs(s0, g) /\ s0.acc = NoAccess /\ s0.nip = NextIp /\ s0.sip = Ip
    BY <1>1, MachineFacts DEF GuestIs
  <1>6. Cost(PreSideeff) = 0
    <2>1. PreSideeff.op = "saveip"
      BY InstFacts DEF PreSideeff
    <2> QED
      BY <2>1, OpNames DEF Cost
  <1> HIDE DEF s0
  <1>7. /\ T \in 0 .. 1 /\ (i.imm # 0 => AddrOpr(i) = vtemp(1) /\ T = 1)
        /\ AddrReach(AddrCode(i), AddrOpr(i), a, s0, T, 2 * T, m, g, Env(i, g))
    BY <1>4, <1>5, AccessAddr
  <1>8. T \in Nat /\ T + Cost(PreSideeff) <= T
    BY <1>6, <1>7
  <1>9. Reach(<<PreSideeff>>, s, s0, T, T, m, Env(i, g), T)
    BY <1>1, <1>2, <1>3, <1>8, ReachOne
  <1>10. PICK s1 : /\ Reach(AddrCode(i), s0, s1, T, 2 * T, m, Env(i, g), T) /\ Typed(s1) /\ GuestIs(s1, g)
                   /\ s1.sip = s0.sip /\ s1.acc = s0.acc /\ s1.nip = s0.nip
                   /\ Readable(AddrOpr(i), s1, T) /\ Val(AddrOpr(i), s1) = a /\ a \in Word
    BY <1>7 DEF AddrReach
  <1>11. Precise(s1, Env(i, g))
    BY <1>5, <1>10, EnvFacts DEF Precise, GuestIs
  <1>12. Reach(<<PreSideeff>> \o AddrCode(i), s, s1, T, 2 * T, m, Env(i, g), T)
    BY <1>9, <1>10, ReachCat
  <1> QED
    BY <1>5, <1>7, <1>10, <1>11, <1>12

LEMMA TranslatedStore ==
  ASSUME NEW i \in Insns, i.kind = "store", NEW g \in Guests, NEW m \in Word
  PROVE  Translated(i, g, m)
  <1>1. i.width \in Widths /\ i.rs1 \in Regs /\ i.rs2 \in Regs /\ i.imm \in Word
    BY InsnFacts, RegFacts
  <1> DEFINE s == Start(g)
             a == (g[i.rs1] + i.imm) % WordSize
             T == AddrTemps(i)
             c == <<PreSideeff>> \o AddrCode(i)
             d == AddrOpr(i)
             b == gprop(i.rs2)
             o == Inst("vmstore", <<i.width>>, NoDst, <<d, b>>)
             r == <<a, i.width, g[i.rs2] % Pow2[i.width]>>
  <1>2. TranslateInsn(i) = c \o <<o>>
    BY DEF TranslateInsn, TranslateStore
  <1>3. Interp(i, g, m) = Outcome(g, r, NextIp)
    BY InterpAccess
  <1>4. TranslatorTemps(i) = T
    BY TranslatorTempsKinds
  <1>5. a = (g[i.rs1] + i.imm) % WordSize /\ T = AddrTemps(i)
    OBVIOUS
  <1> HIDE DEF a, T
  <1>6. T \in 0 .. 1
    BY <1>1, <1>5, AccessPrefix
  <1>7. PICK s1 : /\ Reach(c, s, s1, T, 2 * T, m, Env(i, g), T)
                  /\ Typed(s1) /\ GuestIs(s1, g) /\ Precise(s1, Env(i, g))
                  /\ s1.acc = NoAccess /\ s1.nip = NextIp
                  /\ Readable(d, s1, T) /\ Val(d, s1) = a /\ a \in Word
    BY <1>1, <1>5, AccessPrefix
  <1>8. T \in Nat /\ 2 * T \in Nat
    BY <1>6
  <1>9. Readable(b, s1, T) /\ Val(b, s1) = g[i.rs2]
    BY <1>1, <1>7, <1>8, GpropFacts
  <1> HIDE DEF c, d, b
  <1>10. Ok(o, s1, Env(i, g), T)
    <2>1. OkStore(o, s1, Env(i, g), T)
      BY <1>1, <1>7, <1>9 DEF OkStore
    <2> QED
      BY <2>1 DEF Ok
  <1>11. Exec(o, s1, m) = Machine(s1.regs, s1.sip, <<Val(d, s1), i.width, Val(b, s1) % Pow2[i.width]>>, s1.nip)
    BY ExecStore
  <1> DEFINE s2 == Machine(s1.regs, s1.sip, r, s1.nip)
  <1>12. Exec(o, s1, m) = s2
    BY <1>7, <1>9, <1>11
  <1>13. Cost(o) = 1
    <2>1. o.op = "vmstore"
      BY InstFacts
    <2> QED
      BY <2>1 DEF Cost
  <1>14. 2 * T + Cost(o) <= 3
    BY <1>6, <1>13
  <1> HIDE DEF o, r
  <1>15. Reach(<<o>>, s1, s2, 2 * T, 3, m, Env(i, g), T)
    BY <1>7, <1>8, <1>10, <1>12, <1>14, ReachOne
  <1>16. Reach(TranslateInsn(i), s, s2, T, 3, m, Env(i, g), T)
    BY <1>2, <1>7, <1>15, ReachCat
  <1>17. GuestIs(s2, g) /\ s2.acc = r /\ s2.nip = NextIp
    BY <1>7, MachineFacts DEF GuestIs
  <1> HIDE DEF s2
  <1>18. Final(s2) = Outcome(g, r, NextIp)
    BY <1>17, FinalFacts
  <1> QED
    BY <1>3, <1>4, <1>16, <1>18 DEF Translated

LEMMA TranslatedLoad ==
  ASSUME NEW i \in Insns, i.kind = "load", NEW g \in Guests, NEW m \in Word
  PROVE  Translated(i, g, m)
  <1>1. /\ i.width \in Widths /\ i.signed \in BOOLEAN
        /\ i.rd \in Regs /\ i.rs1 \in Regs /\ i.imm \in Word
    BY InsnFacts, RegFacts
  <1> DEFINE s == Start(g)
             a == (g[i.rs1] + i.imm) % WordSize
             T == AddrTemps(i)
             c == <<PreSideeff>> \o AddrCode(i)
             b == AddrOpr(i)
             d == IF i.rd # 0 THEN vreg(i.rd) ELSE AddrOpr(i)
             o == Inst("vmload", <<i.width, i.signed>>, d, <<b>>)
             e == Extend(m, i.width, i.signed)
             h == SetReg(g, i.rd, e)
             r == <<a, i.width>>
  <1>2. TranslateInsn(i) = c \o <<o>>
    BY DEF TranslateInsn, TranslateLoad
  <1>3. Interp(i, g, m) = Outcome(h, r, NextIp)
    BY InterpAccess
  <1>4. TranslatorTemps(i) = T
    BY TranslatorTempsKinds
  <1>5. a = (g[i.rs1] + i.imm) % WordSize /\ T = AddrTemps(i)
    OBVIOUS
  <1> HIDE DEF a, T
  <1>6. T \in 0 .. 1 /\ (i.imm # 0 => b = vtemp(1) /\ T = 1)
    BY <1>1, <1>5, AccessPrefix
  <1>7. PICK s1 : /\ Reach(c, s, s1, T, 2 * T, m, Env(i, g), T)
                  /\ Typed(s1) /\ GuestIs(s1, g) /\ Precise(s1, Env(i, g))
                  /\ s1.acc = NoAccess /\ s1.nip = NextIp
                  /\ Readable(b, s1, T) /\ Val(b, s1) = a /\ a \in Word
    BY <1>1, <1>5, AccessPrefix
  <1>8. T \in Nat /\ 2 * T \in Nat
    BY <1>6
  <1>9. LoadDst(d, Env(i, g), T)
    <2>1. CASE i.rd # 0
      BY <1>1, <1>7, <1>8, <2>1, GpropFacts DEF LoadDst
    <2>2. CASE i.rd = 0 /\ i.imm = 0
      <3>1. Env(i, g).x0
        BY <2>2, EnvFacts DEF X0Load
      <3> QED
        BY <1>7, <2>2, <3>1 DEF LoadDst, Readable
    <2>3. CASE i.rd = 0 /\ i.imm # 0
      <3>1. Reg(vtemp(1), 1)
        BY VRegFacts DEF Reg, vtemp
      <3> QED
        BY <1>6, <2>3, <3>1 DEF LoadDst
    <2> QED
      BY <2>1, <2>2, <2>3
  <1>10. e \in Word
    BY <1>1, ExtendWord
  <1>11. h \in Guests
    BY <1>1, <1>10, SetRegGuest
  <1>12. i.rd # 0 => d = vreg(i.rd) /\ h = SetReg(g, i.rd, e)
    OBVIOUS
  <1>13. i.rd = 0 => d = b /\ h = g
    BY DEF SetReg
  <1> HIDE DEF c, b, d, e, h
  <1>14. Ok(o, s1, Env(i, g), T)
    <2>1. OkLoad(o, s1, Env(i, g), T)
      BY <1>1, <1>7, <1>9 DEF OkLoad
    <2> QED
      BY <2>1 DEF Ok
  <1>15. Cost(o) = 0
    <2>1. o.op = "vmload"
      BY InstFacts
    <2> QED
      BY <2>1, OpNames DEF Cost
  <1>16. 2 * T + Cost(o) <= 3
    BY <1>6, <1>15
  <1> DEFINE s2 == Exec(o, s1, m)
  <1>17. Reach(<<o>>, s1, s2, 2 * T, 3, m, Env(i, g), T)
    BY <1>7, <1>8, <1>14, <1>16, ReachOne
  <1>18. ASSUME ~X0Load(i)
         PROVE  Final(s2) = Outcome(h, r, NextIp)
    <2>1. i.rd # 0 \/ i.imm # 0
      BY <1>18 DEF X0Load
    <2>2. d.const = FALSE
      BY <1>6, <1>12, <1>13, <2>1, OperandFacts DEF vtemp
    <2>3. s2 = Machine([s1.regs EXCEPT ![d.n] = e], s1.sip, <<Val(b, s1), i.width>>, s1.nip)
      BY <2>2, ExecLoad DEF e
    <2> DEFINE p == Put(s1, d, e)
    <2>4. p.regs = [s1.regs EXCEPT ![d.n] = e]
      BY MachineFacts DEF Put
    <2>5. GuestIs(p, h)
      <3>1. CASE i.rd # 0
        BY <1>1, <1>7, <1>10, <1>12, <3>1, PutGuest
      <3>2. CASE i.rd = 0
        BY <1>6, <1>7, <1>10, <1>13, <2>1, <3>2, PutGuestTemp
      <3> QED
        BY <3>1, <3>2
    <2> HIDE DEF p
    <2>6. s2 = Machine(p.regs, s1.sip, r, s1.nip)
      BY <1>7, <2>3, <2>4
    <2> HIDE DEF s2, r
    <2>7. GuestIs(s2, h) /\ s2.acc = r /\ s2.nip = NextIp
      BY <1>7, <2>5, <2>6, MachineFacts DEF GuestIs
    <2> QED
      BY <1>11, <2>7, FinalFacts
  <1> HIDE DEF o, s2, r
  <1>19. Reach(TranslateInsn(i), s, s2, T, 3, m, Env(i, g), T)
    BY <1>2, <1>7, <1>17, ReachCat
  <1> QED
    BY <1>3, <1>4, <1>18, <1>19 DEF Translated

\* The IR of every instruction does what the interpreter does.
LEMMA TranslateCorrect ==
  ASSUME NEW i \in Insns, NEW g \in Guests, NEW m \in Word
  PROVE  Translated(i, g, m)
  BY InsnFacts, TranslatedArithRR, TranslatedArithRI, TranslatedSetRR, TranslatedSetRI,
     TranslatedUpper, TranslatedJal, TranslatedJalr, TranslatedBrcc, TranslatedLoad, TranslatedStore

-----------------------------------------------------------------------------
(* The inductive invariant *)

\* Temporaries are never given back.
LEMMA ReachMono ==
  ASSUME NEW m, NEW g, NEW T, NEW c, NEW s0, NEW s1, NEW t0, NEW t1,
         Reach(c, s0, s1, t0, t1, m, g, T)
  PROVE  t0 <= t1
  <1>1. PICK q, qt :
       /\ qt[0] = t0 /\ qt[Len(c)] = t1
       /\ \A k \in 0 .. Len(c) : Typed(q[k]) /\ qt[k] \in Nat
       /\ \A k \in 1 .. Len(c) : qt[k - 1] + Cost(c[k]) <= qt[k]
    BY DEF Reach
  <1>2. Len(c) \in Nat
    BY ReachEnds, SeqLen
  <1> DEFINE n == Len(c)
             S == {k \in Nat : k <= n => t0 <= qt[k]}
  <1>3. \A k \in 0 .. n : qt[k] \in Nat
    BY <1>1
  <1>4. \A k \in 1 .. n : qt[k - 1] + Cost(c[k]) <= qt[k]
    BY <1>1
  <1>5. qt[0] = t0 /\ qt[n] = t1 /\ n \in Nat
    BY <1>1, <1>2
  <1> HIDE DEF n
  <1>6. 0 \in S
    BY <1>3, <1>5
  <1>7. ASSUME NEW k \in Nat, k \in S
        PROVE  k + 1 \in S
    <2> SUFFICES ASSUME k + 1 <= n PROVE t0 <= qt[k + 1]
      OBVIOUS
    <2>1. k + 1 \in 1 .. n /\ (k + 1) - 1 = k /\ k \in 0 .. n /\ k + 1 \in 0 .. n /\ 0 \in 0 .. n
      BY <1>5
    <2>2. qt[k] \in Nat /\ qt[k + 1] \in Nat /\ t0 \in Nat /\ t0 <= qt[k]
      BY <1>3, <1>5, <1>7, <2>1
    <2>3. qt[k] + Cost(c[k + 1]) <= qt[k + 1]
      BY <1>4, <2>1
    <2>4. Cost(c[k + 1]) \in 0 .. 2
      BY CostNat
    <2> HIDE DEF S
    <2> QED
      BY <2>2, <2>3, <2>4
  <1>8. Nat \subseteq S
    <2> HIDE DEF S
    <2> QED
      BY <1>6, <1>7, NatInd
  <1> QED
    BY <1>5, <1>8

\* What the end of an instruction's code has to show: the interpreter's
\* outcome, except for a load to x0 from the address in a register.
Post(i, g, m, s) == Typed(s) /\ (~X0Load(i) => Final(s) = Interp(i, g, m))

LEMMA PostAgree ==
  ASSUME NEW i, NEW g, NEW m, NEW s, NEW q, NEW T \in Nat, Agree(s, q, T), Post(i, g, m, q)
  PROVE  Post(i, g, m, s)
  <1>1. \A r \in GRegs : r \in VRegs /\ r >= -T
    <2> TAKE r \in GRegs
    <2>1. r \in VRegs /\ r > 0 /\ r \in Int
      BY VRegFacts
    <2> QED
      BY <2>1
  <1>2. \A r \in Regs : r # 0 => s.regs[r] = q.regs[r]
    BY <1>1 DEF Agree, GRegs
  <1>3. s.acc = q.acc /\ s.nip = q.nip /\ Typed(s)
    BY DEF Agree
  <1>4. [r \in Regs |-> IF r = 0 THEN 0 ELSE s.regs[r]] = [r \in Regs |-> IF r = 0 THEN 0 ELSE q.regs[r]]
    BY <1>2
  <1>5. Final(s) = Final(q)
    BY <1>3, <1>4 DEF Final
  <1> QED
    BY <1>3, <1>5 DEF Post

\* While code is selected: what is selected leads to s, what is left of the
\* IR leads from q to the outcome, and s and q differ only in temporaries
\* made by selection.
Selects(i, g, m, h, c, n) ==
  \E s, q, s1, t, t1 :
    /\ HostCode(h, Start(g), s, m, Env(i, g))
    /\ Reach(c, q, s1, t, t1, m, Env(i, g), TranslatorTemps(i))
    /\ Agree(s, q, TranslatorTemps(i))
    /\ TranslatorTemps(i) <= n /\ n <= t /\ t1 <= 3
    /\ Post(i, g, m, s1)

\* While it runs: what is left leads to the outcome.
Runs(i, g, m, h, s) == \E s1 : HostCode(h, s, s1, m, Env(i, g)) /\ Post(i, g, m, s1)

IType ==
  /\ insn \in Insns /\ gpr0 \in Guests /\ mem \in Word
  /\ stage \in {"translate", "select", "run", "done", "bad"}
  /\ ntemps \in 0 .. 3
  /\ Typed(Now)

IInv ==
  /\ IType
  /\ stage = "translate" => Now = Start(gpr0) /\ host = <<>>
  /\ stage = "select" => Now = Start(gpr0) /\ Selects(insn, gpr0, mem, host, ir, ntemps)
  /\ stage = "run" => Runs(insn, gpr0, mem, host, Now)
  /\ stage = "done" => Post(insn, gpr0, mem, Now)
  /\ stage = "bad" => X0Load(insn)

LEMMA TranslatorTempsNat ==
  ASSUME NEW i
  PROVE  TranslatorTemps(i) \in 0 .. 1
  BY DEF TranslatorTemps, AddrTemps, Flag

\* The folded IR of an instruction, before anything is selected.
LEMMA SelectsFirst ==
  ASSUME NEW i \in Insns, NEW g \in Guests, NEW m \in Word,
         NEW c, c = TranslateInsn(i)
  PROVE  Selects(i, g, m, <<>>, [k \in DOMAIN c |-> Fold(c[k])], TranslatorTemps(i))
  <1> DEFINE E == Env(i, g)
             T == TranslatorTemps(i)
             f == [k \in DOMAIN c |-> Fold(c[k])]
             z == <<>>
  <1>1. Translated(i, g, m)
    BY TranslateCorrect
  <1>2. PICK s1, t1 :
    /\ Reach(c, Start(g), s1, T, t1, m, E, T)
    /\ t1 \in 0 .. 3
    /\ ~X0Load(i) => Final(s1) = Interp(i, g, m)
    BY <1>1 DEF Translated
  <1>3. Typed(s1)
    BY <1>2, ReachEnds
  <1>4. Reach(f, Start(g), s1, T, t1, m, E, T)
    BY <1>2, ReachFold
  <1>5. Typed(Start(g))
    BY StartFacts
  <1>6. HostCode(z, Start(g), Start(g), m, E)
    BY <1>5, HostNil
  <1>7. Agree(Start(g), Start(g), T)
    BY <1>5, AgreeRefl
  <1>8. T <= T /\ t1 <= 3
    BY <1>2, TranslatorTempsNat
  <1>9. Post(i, g, m, s1)
    BY <1>2, <1>3 DEF Post
  <1> HIDE DEF f, z
  <1>10. Selects(i, g, m, z, f, T)
    BY <1>4, <1>6, <1>7, <1>8, <1>9 DEF Selects
  <1> QED
    BY <1>10 DEF f, z

\* One instruction of the IR is selected.
LEMMA SelectsStep ==
  ASSUME NEW i, NEW g, NEW m \in Word, NEW h, NEW c, NEW n \in Nat,
         Selects(i, g, m, h, c, n), c # <<>>,
         NEW e, e = SelectedTemps(Head(c), n)
  PROVE  n + e \in 0 .. 3 /\ Selects(i, g, m, h \o Selected(Head(c), n), Tail(c), n + e)
  <1> DEFINE E == Env(i, g)
             T == TranslatorTemps(i)
             o == Head(c)
  <1>1. PICK s, q, s1, t, t1 :
    /\ HostCode(h, Start(g), s, m, E)
    /\ Reach(c, q, s1, t, t1, m, E, T)
    /\ Agree(s, q, T)
    /\ T <= n /\ n <= t /\ t1 <= 3
    /\ Post(i, g, m, s1)
    BY DEF Selects
  <1>2. Ok(o, q, E, T) /\ t \in Nat
    BY <1>1, ReachHead
  <1>3. PICK u \in Nat : t + Cost(o) <= u /\ Reach(Tail(c), Exec(o, q, m), s1, u, t1, m, E, T)
    BY <1>1, ReachHead
  <1>4. u <= t1 /\ t1 \in Nat
    BY <1>3, ReachMono, ReachEnds
  <1>5. T \in Nat
    BY TranslatorTempsNat
  <1> HIDE DEF E, T, o
  <1>6. Ok(o, s, E, T) /\ Agree(Exec(o, s, m), Exec(o, q, m), T)
    BY <1>1, <1>2, <1>5, AgreeExec
  <1>7. Typed(s)
    BY <1>1 DEF Agree
  <1>8. Cost(o) \in 0 .. 2
    BY CostNat
  <1>9. n + Cost(o) <= u /\ n + Cost(o) <= MaxTemps /\ u <= 3
    <2>1. MaxTemps \in Nat /\ MaxTemps >= 3
      BY VRegFacts
    <2>2. n <= t /\ t1 <= 3
      BY <1>1
    <2> QED
      BY <1>2, <1>3, <1>4, <1>8, <2>1, <2>2
  <1>10. Segment(o, s, n, m, E)
    BY <1>1, <1>5, <1>6, <1>7, <1>9, SegmentOk
  <1>11. PICK s2 : HostCode(Selected(o, n), s, s2, m, E) /\ Agree(s2, Exec(o, s, m), n)
    BY <1>10 DEF Segment
  <1>12. e \in 0 .. Cost(o)
    BY <1>10 DEF Segment, o
  <1>13. n + e \in 0 .. 3 /\ n + e <= u /\ T <= n + e
    <2>1. T <= n
      BY <1>1
    <2> QED
      BY <1>5, <1>8, <1>9, <1>12, <2>1
  <1>14. Agree(s2, Exec(o, q, m), T)
    <2>1. Agree(s2, Exec(o, s, m), T)
      BY <1>1, <1>5, <1>11, AgreeLess
    <2> QED
      BY <1>6, <2>1, AgreeTrans
  <1>15. HostCode(h \o Selected(o, n), Start(g), s2, m, E)
    BY <1>1, <1>11, HostCat
  <1> DEFINE f == h \o Selected(o, n)
             d == Tail(c)
  <1> HIDE DEF f, d
  <1>16. Selects(i, g, m, f, d, n + e)
    <2>1. HostCode(f, Start(g), s2, m, Env(i, g))
      BY <1>15 DEF f, E
    <2>2. Reach(d, Exec(o, q, m), s1, u, t1, m, Env(i, g), TranslatorTemps(i))
      BY <1>3 DEF d, E, T
    <2>3. Agree(s2, Exec(o, q, m), TranslatorTemps(i))
      BY <1>14 DEF T
    <2>4. TranslatorTemps(i) <= n + e /\ n + e <= u /\ t1 <= 3
      BY <1>1, <1>13 DEF T
    <2> QED
      BY <1>1, <2>1, <2>2, <2>3, <2>4 DEF Selects
  <1> QED
    BY <1>13, <1>16 DEF f, d, o

\* Nothing is left to select.
LEMMA SelectsEnd ==
  ASSUME NEW i, NEW g, NEW m, NEW h, NEW c, NEW n, Selects(i, g, m, h, c, n), c = <<>>
  PROVE  Runs(i, g, m, h, Start(g))
  <1>1. PICK s, q, s1, t, t1 :
    /\ HostCode(h, Start(g), s, m, Env(i, g))
    /\ Reach(c, q, s1, t, t1, m, Env(i, g), TranslatorTemps(i))
    /\ Agree(s, q, TranslatorTemps(i))
    /\ Post(i, g, m, s1)
    BY DEF Selects
  <1>2. q = s1
    BY <1>1, ReachEnds
  <1>3. TranslatorTemps(i) \in Nat
    BY TranslatorTempsNat
  <1>4. Post(i, g, m, s)
    BY <1>1, <1>2, <1>3, PostAgree
  <1> QED
    BY <1>1, <1>4 DEF Runs

\* One operation runs.
LEMMA RunsStep ==
  ASSUME NEW i, NEW g, NEW m \in Word, NEW h, NEW s, Runs(i, g, m, h, s), h # <<>>
  PROVE  /\ Typed(s) /\ Ok(Head(h), s, Env(i, g), MaxTemps) /\ Legal(Head(h))
         /\ Typed(Exec(Head(h), s, m))
         /\ Runs(i, g, m, Tail(h), Exec(Head(h), s, m))
  <1>1. PICK s1 : HostCode(h, s, s1, m, Env(i, g)) /\ Post(i, g, m, s1)
    BY DEF Runs
  <1>2. /\ Typed(s) /\ Ok(Head(h), s, Env(i, g), MaxTemps) /\ Legal(Head(h))
        /\ HostCode(Tail(h), Exec(Head(h), s, m), s1, m, Env(i, g))
    BY <1>1, HostHead
  <1>3. Typed(Exec(Head(h), s, m))
    BY <1>2, HostEnds
  <1> QED
    BY <1>1, <1>2, <1>3 DEF Runs

LEMMA RunsEnd ==
  ASSUME NEW i, NEW g, NEW m, NEW h, NEW s, Runs(i, g, m, h, s), h = <<>>
  PROVE  Post(i, g, m, s)
  BY HostEnds DEF Runs

-----------------------------------------------------------------------------
(* The steps *)

\* The form of an operation, from its name.
LEMMA OkForm ==
  ASSUME NEW o, NEW s, NEW g, NEW T, Ok(o, s, g, T)
  PROVE  /\ o.op \in BinFns => OkArith(o, s, T)
         /\ o.op = "vmload" => OkLoad(o, s, g, T)
         /\ o.op = "vmstore" => OkStore(o, s, g, T)
  BY OkOps, OpNames DEF Ok

LEMMA NowFacts ==
  /\ Now.regs = v /\ Now.sip = state_ip /\ Now.acc = access /\ Now.nip = next_ip
  /\ \A o : Val(o, Now) = ValueOf(o)
  <1>1. Now.regs = v /\ Now.sip = state_ip /\ Now.acc = access /\ Now.nip = next_ip
    BY MachineFacts DEF Now
  <1> QED
    BY <1>1 DEF Val, ValueOf

LEMMA IInit == Init => IInv
  <1> SUFFICES ASSUME Init PROVE IInv
    OBVIOUS
  <1>1. insn \in Insns /\ stage = "translate" /\ ntemps \in 0 .. 3 /\ host = <<>>
    BY DEF Init
  <1>2. Words \cup {0} \subseteq Word /\ MemWords \cup {0} \subseteq Word
    <2>1. 0 \in Word
      BY FlagWord DEF Flag
    <2>2. Words \subseteq Word /\ MemWords \subseteq Word
      BY LoweringAssumption
    <2> QED
      BY <2>1, <2>2
  <1>3. mem \in Word
    <2>1. mem \in MemWords \cup {0}
      BY DEF Init
    <2> QED
      BY <1>2, <2>1
  <1>4. gpr0 \in Guests
    BY <1>2 DEF Init, Guests
  <1>5. Now = Start(gpr0)
    BY DEF Init, Now, Start
  <1>6. Typed(Now)
    BY <1>4, <1>5, StartFacts
  <1> QED
    BY <1>1, <1>3, <1>4, <1>5, <1>6 DEF IInv, IType

LEMMA ITranslate == IInv /\ Translate => IInv'
  <1> SUFFICES ASSUME IInv, Translate PROVE IInv'
    OBVIOUS
  <1> DEFINE c == TranslateInsn(insn)
             n == TranslatorTemps(insn)
             z == <<>>
  <1>1. /\ insn' = insn /\ gpr0' = gpr0 /\ mem' = mem /\ stage = "translate" /\ stage' = "select"
        /\ host' = host /\ ntemps' = n
        /\ ir' = [k \in DOMAIN c |-> Fold(c[k])]
    BY DEF Translate
  <1>2. Now' = Now
    BY DEF Translate, Now
  <1>3. insn \in Insns /\ gpr0 \in Guests /\ mem \in Word /\ Typed(Now) /\ Now = Start(gpr0) /\ host = z
    BY <1>1 DEF IInv, IType
  <1> HIDE DEF z
  <1>4. Selects(insn, gpr0, mem, z, ir', n)
    BY <1>1, <1>3, SelectsFirst DEF z
  <1>5. n \in 0 .. 1
    BY TranslatorTempsNat
  <1> HIDE DEF n, c
  <1>6. n \in 0 .. 3
    BY <1>5
  <1> QED
    BY <1>1, <1>2, <1>3, <1>4, <1>6 DEF IInv, IType

LEMMA ISelect == IInv /\ Select => IInv'
  <1> SUFFICES ASSUME IInv, Select PROVE IInv'
    OBVIOUS
  <1> DEFINE e == SelectedTemps(Head(ir), ntemps)
  <1>1. /\ insn' = insn /\ gpr0' = gpr0 /\ mem' = mem /\ stage = "select" /\ stage' = "select"
        /\ ir # <<>> /\ ir' = Tail(ir)
        /\ host' = host \o Selected(Head(ir), ntemps) /\ ntemps' = ntemps + e
    BY DEF Select
  <1>2. Now' = Now
    BY DEF Select, Now
  <1>3. /\ insn \in Insns /\ gpr0 \in Guests /\ mem \in Word /\ Typed(Now) /\ Now = Start(gpr0)
        /\ Selects(insn, gpr0, mem, host, ir, ntemps) /\ ntemps \in Nat
    BY <1>1 DEF IInv, IType
  <1> HIDE DEF e
  <1>4. ntemps' \in 0 .. 3 /\ Selects(insn, gpr0, mem, host', ir', ntemps')
    BY <1>1, <1>3, SelectsStep DEF e
  <1> QED
    BY <1>1, <1>2, <1>3, <1>4 DEF IInv, IType

LEMMA ISelectEnd == IInv /\ SelectEnd => IInv'
  <1> SUFFICES ASSUME IInv, SelectEnd PROVE IInv'
    OBVIOUS
  <1>1. /\ insn' = insn /\ gpr0' = gpr0 /\ mem' = mem /\ stage = "select" /\ stage' = "run"
        /\ ir = <<>> /\ host' = host /\ ntemps' = ntemps
    BY DEF SelectEnd
  <1>2. Now' = Now
    BY DEF SelectEnd, Now
  <1>3. Now = Start(gpr0) /\ Selects(insn, gpr0, mem, host, ir, ntemps)
    BY <1>1 DEF IInv
  <1>4. Runs(insn, gpr0, mem, host, Now)
    BY <1>1, <1>3, SelectsEnd
  <1> QED
    BY <1>1, <1>2, <1>4 DEF IInv, IType

\* What a run step has to show of itself.
LEMMA IRun ==
  ASSUME IInv, stage = "run", host # <<>>, Step, stage' = "run", Now' = Exec(Op, Now, mem)
  PROVE  IInv'
  <1>1. /\ insn' = insn /\ gpr0' = gpr0 /\ mem' = mem /\ host' = Tail(host) /\ ntemps' = ntemps
    BY DEF Step
  <1>2. IType /\ mem \in Word /\ Runs(insn, gpr0, mem, host, Now)
    BY DEF IInv, IType
  <1>3. Typed(Now') /\ Runs(insn, gpr0, mem, host', Now')
    BY <1>1, <1>2, RunsStep DEF Op
  <1> QED
    BY <1>1, <1>2, <1>3 DEF IInv, IType

\* The operation at hand is well formed and legal.
LEMMA IOk ==
  ASSUME IInv, stage = "run", host # <<>>
  PROVE  Ok(Op, Now, Env(insn, gpr0), MaxTemps) /\ Legal(Op)
  <1>1. mem \in Word /\ Runs(insn, gpr0, mem, host, Now)
    BY DEF IInv, IType
  <1> QED
    BY <1>1, RunsStep DEF Op

\* An operation that only writes its destination.
LEMMA IResult ==
  ASSUME NEW w, Result(w), stage = "run", access' = access
  PROVE  Step /\ stage' = "run" /\ Now' = Put(Now, Op.dst, w)
  <1>1. /\ Step /\ stage' = "run" /\ v' = [v EXCEPT ![Op.dst.n] = w]
        /\ state_ip' = state_ip /\ next_ip' = next_ip
    BY DEF Result
  <1>2. Now' = Machine([v EXCEPT ![Op.dst.n] = w], state_ip, access, next_ip)
    BY <1>1 DEF Now
  <1> QED
    BY <1>1, <1>2, NowFacts DEF Put

LEMMA IRunArith == IInv /\ RunArith => IInv'
  <1> SUFFICES ASSUME IInv, RunArith PROVE IInv'
    OBVIOUS
  <1> DEFINE w == Arith(Op.op, v[Op.dst.n], SrcVal(2))
  <1>1. stage = "run" /\ host # <<>> /\ Op.op \in BinFns /\ Result(w) /\ access' = access
    BY DEF RunArith, At, Op
  <1>2. Ok(Op, Now, Env(insn, gpr0), MaxTemps) /\ Legal(Op)
    BY <1>1, IOk
  <1>3. OkArith(Op, Now, MaxTemps) /\ Op.src[1] = Op.dst
    BY <1>1, <1>2, OkForm DEF Legal
  <1>4. Op.dst.const = FALSE
    <2>1. PICK fn, d, a, b :
            fn \in BinFns /\ Op = Inst(fn, "none", d, <<a, b>>) /\ Reg(d, MaxTemps)
      BY <1>3 DEF OkArith
    <2> QED
      BY <2>1, InstFacts, OperandFacts DEF Reg
  <1>5. Val(Op.src[1], Now) = v[Op.dst.n] /\ Val(Op.src[2], Now) = SrcVal(2)
    BY <1>3, <1>4, NowFacts DEF ValueOf, SrcVal
  <1>6. Exec(Op, Now, mem) = Put(Now, Op.dst, w)
    <2>1. Op.op \notin {"mov", "setcc", "saveip", "vmload", "vmstore", "gbr", "gbrind", "brcc"}
      BY <1>1, OpNames
    <2> QED
      BY <1>1, <1>5, <2>1 DEF Exec
  <1> HIDE DEF w
  <1>7. Step /\ stage' = "run" /\ Now' = Put(Now, Op.dst, w)
    BY <1>1, IResult
  <1> QED
    BY <1>1, <1>6, <1>7, IRun

LEMMA IRunMov == IInv /\ RunMov => IInv'
  <1> SUFFICES ASSUME IInv, RunMov PROVE IInv'
    OBVIOUS
  <1> DEFINE w == SrcVal(1)
  <1>1. stage = "run" /\ host # <<>> /\ Op.op = "mov" /\ Result(w) /\ access' = access
    BY DEF RunMov, At, Op
  <1>2. Val(Op.src[1], Now) = w
    BY NowFacts DEF SrcVal
  <1>3. Exec(Op, Now, mem) = Put(Now, Op.dst, w)
    BY <1>1, <1>2, OpNames DEF Exec
  <1> HIDE DEF w
  <1>4. Step /\ stage' = "run" /\ Now' = Put(Now, Op.dst, w)
    BY <1>1, IResult
  <1> QED
    BY <1>1, <1>3, <1>4, IRun

LEMMA IRunSetcc == IInv /\ RunSetcc => IInv'
  <1> SUFFICES ASSUME IInv, RunSetcc PROVE IInv'
    OBVIOUS
  <1> DEFINE w == Flag(Holds(Op.x, SrcVal(1), SrcVal(2)))
  <1>1. stage = "run" /\ host # <<>> /\ Op.op = "setcc" /\ Result(w) /\ access' = access
    BY DEF RunSetcc, At, Op
  <1>2. Val(Op.src[1], Now) = SrcVal(1) /\ Val(Op.src[2], Now) = SrcVal(2)
    BY NowFacts DEF SrcVal
  <1>3. Exec(Op, Now, mem) = Put(Now, Op.dst, w)
    BY <1>1, <1>2, OpNames DEF Exec
  <1> HIDE DEF w
  <1>4. Step /\ stage' = "run" /\ Now' = Put(Now, Op.dst, w)
    BY <1>1, IResult
  <1> QED
    BY <1>1, <1>3, <1>4, IRun

LEMMA IRunSaveIp == IInv /\ RunSaveIp => IInv'
  <1> SUFFICES ASSUME IInv, RunSaveIp PROVE IInv'
    OBVIOUS
  <1>1. /\ stage = "run" /\ host # <<>> /\ Op.op = "saveip" /\ stage' = "run" /\ Step
        /\ v' = v /\ state_ip' = Ip /\ access' = access /\ next_ip' = next_ip
    BY DEF RunSaveIp, At, Op
  <1>2. Exec(Op, Now, mem) = Machine(v, Ip, access, next_ip)
    BY <1>1, OpNames, NowFacts DEF Exec
  <1>3. Now' = Machine(v, Ip, access, next_ip)
    BY <1>1 DEF Now
  <1> QED
    BY <1>1, <1>2, <1>3, IRun

LEMMA IRunLoad == IInv /\ RunLoad => IInv'
  <1> SUFFICES ASSUME IInv, RunLoad PROVE IInv'
    OBVIOUS
  <1> DEFINE w == Extend(mem, Op.x[1], Op.x[2])
             r == <<SrcVal(1), Op.x[1]>>
  <1>1. /\ stage = "run" /\ host # <<>> /\ Op.op = "vmload" /\ ~Op.dst.const
        /\ Result(w) /\ access' = r
    BY DEF RunLoad, At, Op
  <1>2. Val(Op.src[1], Now) = SrcVal(1)
    BY NowFacts DEF SrcVal
  <1>3. Exec(Op, Now, mem) = Machine([v EXCEPT ![Op.dst.n] = w], state_ip, r, next_ip)
    BY <1>1, <1>2, OpNames, NowFacts DEF Exec
  <1> HIDE DEF w, r
  <1>4. /\ Step /\ stage' = "run" /\ v' = [v EXCEPT ![Op.dst.n] = w]
        /\ state_ip' = state_ip /\ next_ip' = next_ip
    BY <1>1 DEF Result
  <1>5. Now' = Machine([v EXCEPT ![Op.dst.n] = w], state_ip, r, next_ip)
    BY <1>1, <1>4 DEF Now
  <1> QED
    BY <1>1, <1>3, <1>4, <1>5, IRun

LEMMA IRunLoadNoDst == IInv /\ RunLoadNoDst => IInv'
  <1> SUFFICES ASSUME IInv, RunLoadNoDst PROVE IInv'
    OBVIOUS
  <1>1. /\ stage = "run" /\ host # <<>> /\ Op.op = "vmload" /\ Op.dst.const /\ stage' = "bad" /\ Step
        /\ v' = v /\ state_ip' = state_ip /\ access' = access /\ next_ip' = next_ip
    BY DEF RunLoadNoDst, At, Op
  <1>2. Ok(Op, Now, Env(insn, gpr0), MaxTemps)
    BY <1>1, IOk
  <1>3. OkLoad(Op, Now, Env(insn, gpr0), MaxTemps)
    BY <1>1, <1>2, OkForm
  <1>4. PICK a, w, sg, d :
          Op = Inst("vmload", <<w, sg>>, d, <<a>>) /\ LoadDst(d, Env(insn, gpr0), MaxTemps)
    BY <1>3 DEF OkLoad
  <1>5. d.const
    BY <1>1, <1>4, InstFacts
  <1>6. ~Reg(d, MaxTemps)
    BY <1>5, OperandFacts DEF Reg
  <1>7. X0Load(insn)
    BY <1>4, <1>6, EnvFacts DEF LoadDst
  <1>8. Now' = Now
    BY <1>1 DEF Now
  <1>9. insn' = insn /\ gpr0' = gpr0 /\ mem' = mem /\ ntemps' = ntemps
    BY <1>1 DEF Step
  <1>10. IType'
    BY <1>1, <1>8, <1>9 DEF IInv, IType
  <1> QED
    BY <1>1, <1>7, <1>9, <1>10 DEF IInv

LEMMA IRunStore == IInv /\ RunStore => IInv'
  <1> SUFFICES ASSUME IInv, RunStore PROVE IInv'
    OBVIOUS
  <1> DEFINE r == <<SrcVal(1), Op.x[1], SrcVal(2) % Pow2[Op.x[1]]>>
  <1>1. /\ stage = "run" /\ host # <<>> /\ Op.op = "vmstore" /\ stage' = "run" /\ Step
        /\ v' = v /\ state_ip' = state_ip /\ access' = r /\ next_ip' = next_ip
    BY DEF RunStore, At, Op
  <1>2. Val(Op.src[1], Now) = SrcVal(1) /\ Val(Op.src[2], Now) = SrcVal(2)
    BY NowFacts DEF SrcVal
  <1>3. Exec(Op, Now, mem) = Machine(v, state_ip, r, next_ip)
    BY <1>1, <1>2, OpNames, NowFacts DEF Exec
  <1> HIDE DEF r
  <1>4. Now' = Machine(v, state_ip, r, next_ip)
    BY <1>1 DEF Now
  <1> QED
    BY <1>1, <1>3, <1>4, IRun

LEMMA IRunBranch == IInv /\ RunBranch => IInv'
  <1> SUFFICES ASSUME IInv, RunBranch PROVE IInv'
    OBVIOUS
  <1>1. /\ stage = "run" /\ host # <<>> /\ Op.op \in {"gbr", "gbrind", "brcc"} /\ stage' = "run" /\ Step
        /\ v' = v /\ state_ip' = state_ip /\ access' = access
    BY DEF RunBranch, At, Op
  <1>2. Val(Op.src[1], Now) = SrcVal(1) /\ Val(Op.src[2], Now) = SrcVal(2)
    BY NowFacts DEF SrcVal
  <1>3. next_ip' = Target(Op, Now)
    BY <1>1, <1>2 DEF RunBranch, Target
  <1>4. Exec(Op, Now, mem) = Machine(v, state_ip, access, Target(Op, Now))
    BY <1>1, OpNames, NowFacts DEF Exec
  <1>5. Now' = Machine(v, state_ip, access, Target(Op, Now))
    BY <1>1, <1>3 DEF Now
  <1> QED
    BY <1>1, <1>4, <1>5, IRun

LEMMA IRunEnd == IInv /\ RunEnd => IInv'
  <1> SUFFICES ASSUME IInv, RunEnd PROVE IInv'
    OBVIOUS
  <1>1. /\ insn' = insn /\ gpr0' = gpr0 /\ mem' = mem /\ stage = "run" /\ stage' = "done"
        /\ host = <<>> /\ ntemps' = ntemps
    BY DEF RunEnd
  <1>2. Now' = Now
    BY DEF RunEnd, Now
  <1>3. Runs(insn, gpr0, mem, host, Now)
    BY <1>1 DEF IInv
  <1>4. Post(insn, gpr0, mem, Now)
    BY <1>1, <1>3, RunsEnd
  <1> QED
    BY <1>1, <1>2, <1>4 DEF IInv, IType

LEMMA IStutter == IInv /\ UNCHANGED vars => IInv'
  <1> SUFFICES ASSUME IInv, UNCHANGED vars PROVE IInv'
    OBVIOUS
  <1>1. Now' = Now
    BY DEF vars, Now
  <1> QED
    BY <1>1 DEF IInv, IType, vars

\* The invariant holds in every reachable state.
THEOREM Inductive == Spec => []IInv
  <1>1. Init => IInv
    BY IInit
  <1>2. IInv /\ [Next]_vars => IInv'
    BY ITranslate, ISelect, ISelectEnd, IRunArith, IRunMov, IRunSetcc, IRunSaveIp, IRunLoad,
       IRunLoadNoDst, IRunStore, IRunBranch, IRunEnd, IStutter DEF Next, Finished
  <1> QED
    BY <1>1, <1>2, PTL DEF Spec

-----------------------------------------------------------------------------
(* What the invariant says of the properties *)

\* Registers, immediates and addresses stay words of the guest's width through
\* folding, selection and execution.
THEOREM LoweringTyped == Spec => []TypeOK
  <1>1. IInv => TypeOK
    <2> SUFFICES ASSUME IInv PROVE TypeOK
      OBVIOUS
    <2>1. Typed(Now)
      BY DEF IInv, IType
    <2>2. v \in [VRegs -> Word \cup {Undef}] /\ state_ip \in Word \cup {Undef} /\ next_ip \in Word
      BY <2>1, NowFacts DEF Typed
    <2>3. gpr0 \in [Regs -> Word]
      BY DEF IInv, IType, Guests
    <2>4. ntemps \in 0 .. MaxTemps
      BY VRegFacts DEF IInv, IType
    <2> QED
      BY <2>2, <2>3, <2>4 DEF TypeOK, IInv, IType
  <1> QED
    BY <1>1, Inductive, PTL

\* For words of any width, any registers and any immediates, the code a guest
\* instruction is translated, folded and selected into does what the
\* interpreter does: the registers, the access to guest memory and the address
\* of the next instruction are the same.
THEOREM TranslationCorrect == Spec => []LoweringCorrect
  <1>1. IInv => LoweringCorrect
    <2> SUFFICES ASSUME IInv, stage \in {"done", "bad"}, ~LoadToX0
                 PROVE  /\ stage = "done"
                        /\ [gpr |-> Gpr, access |-> access, ip |-> next_ip] = Interp(insn, gpr0, mem)
      BY DEF LoweringCorrect
    <2>1. ~X0Load(insn)
      BY DEF X0Load, LoadToX0
    <2>2. stage = "done"
      BY <2>1 DEF IInv
    <2>3. Final(Now) = Interp(insn, gpr0, mem)
      BY <2>1, <2>2 DEF IInv, Post
    <2>4. Final(Now) = [gpr |-> Gpr, access |-> access, ip |-> next_ip]
      BY NowFacts DEF Final, Gpr
    <2> QED
      BY <2>2, <2>3, <2>4
  <1> QED
    BY <1>1, Inductive, PTL

\* When guest memory is accessed CPUState::ip is the address of the instruction
\* and no guest register has been written, so a fault in the access leaves the
\* guest where it was before the instruction.
THEOREM FaultsPrecise == Spec => []FaultPrecise
  <1>1. IInv => FaultPrecise
    <2> SUFFICES ASSUME IInv, At({"vmload", "vmstore"}) PROVE Gpr = gpr0 /\ state_ip = Ip
      BY DEF FaultPrecise
    <2>1. stage = "run" /\ host # <<>> /\ Op.op \in {"vmload", "vmstore"}
      BY DEF At, Op
    <2>2. Ok(Op, Now, Env(insn, gpr0), MaxTemps)
      BY <2>1, IOk
    <2>3. Precise(Now, Env(insn, gpr0))
      BY <2>1, <2>2, OkForm DEF OkLoad, OkStore
    <2>4. state_ip = Ip /\ \A r \in GRegs : v[r] = gpr0[r]
      BY <2>3, NowFacts, EnvFacts DEF Precise
    <2>5. gpr0 \in [Regs -> Word] /\ gpr0[0] = 0
      BY DEF IInv, IType, Guests
    <2>6. Gpr = gpr0
      BY <2>4, <2>5 DEF Gpr, GRegs
    <2> QED
      BY <2>4, <2>6
  <1> QED
    BY <1>1, Inductive, PTL

\* A guest instruction needs at most three temporaries, those of its
\* translator and those operand selection makes.
THEOREM ThreeTemps == Spec => []TempsBounded
  <1>1. IInv => TempsBounded
    BY DEF IInv, IType, TempsBounded
  <1> QED
    BY <1>1, Inductive, PTL

\* An operation changes no register but its destination.
LEMMA ExecRegs ==
  ASSUME NEW o, NEW s, NEW g, NEW T, Ok(o, s, g, T), Typed(s), NEW m, NEW r \in VRegs,
         o.dst # vreg(r)
  PROVE  Exec(o, s, m).regs[r] = s.regs[r]
  <1>0. s.regs \in [VRegs -> Word \cup {Undef}]
    BY DEF Typed
  <1>1. ASSUME NEW d, NEW w, Reg(d, T), o.dst = d
        PROVE  Put(s, d, w).regs[r] = s.regs[r] /\ [s.regs EXCEPT ![d.n] = w][r] = s.regs[r]
    <2>1. PICK n \in VRegs : d = vreg(n)
      BY <1>1 DEF Reg
    <2>2. d.n = n /\ n # r
      BY <1>1, <2>1, OperandFacts
    <2>3. Put(s, d, w).regs = [s.regs EXCEPT ![d.n] = w]
      BY MachineFacts DEF Put
    <2> QED
      BY <1>0, <2>2, <2>3
  <1>2. CASE OkArith(o, s, T)
    <2>1. PICK fn, d, a, b :
            fn \in BinFns /\ o = Inst(fn, "none", d, <<a, b>>) /\ Reg(d, T)
      BY <1>2 DEF OkArith
    <2> DEFINE w == Arith(fn, Val(a, s), Val(b, s))
    <2>2. Exec(o, s, m) = Put(s, d, w) /\ o.dst = d
      BY <2>1, ExecArith, InstFacts
    <2> HIDE DEF w
    <2> QED
      BY <1>1, <2>1, <2>2
  <1>3. CASE OkMov(o, s, T)
    <2>1. PICK d, a : o = Mov(d, a) /\ Reg(d, T)
      BY <1>3 DEF OkMov
    <2>2. Exec(o, s, m) = Put(s, d, Val(a, s)) /\ o.dst = d
      BY <2>1, ExecMov, InstFacts DEF Mov
    <2> QED
      BY <1>1, <2>1, <2>2
  <1>4. CASE OkSetcc(o, s, T)
    <2>1. PICK cc, d, a, b :
            cc \in Ccs /\ o = Inst("setcc", cc, d, <<a, b>>) /\ Reg(d, T)
      BY <1>4 DEF OkSetcc
    <2> DEFINE w == Flag(Holds(cc, Val(a, s), Val(b, s)))
    <2>2. Exec(o, s, m) = Put(s, d, w) /\ o.dst = d
      BY <2>1, ExecSetcc, InstFacts
    <2> HIDE DEF w
    <2> QED
      BY <1>1, <2>1, <2>2
  <1>5. CASE OkLoad(o, s, g, T)
    <2>1. PICK w, sg, d, a :
            /\ w \in Widths /\ sg \in BOOLEAN
            /\ o = Inst("vmload", <<w, sg>>, d, <<a>>) /\ LoadDst(d, g, T)
      BY <1>5 DEF OkLoad
    <2>2. o.dst = d
      BY <2>1, InstFacts
    <2>3. CASE d.const
      BY <2>1, <2>3, ExecLoadNoDst
    <2>4. CASE ~d.const
      <3> DEFINE e == Extend(m, w, sg)
                 z == <<Val(a, s), w>>
      <3>1. Exec(o, s, m) = Machine([s.regs EXCEPT ![d.n] = e], s.sip, z, s.nip)
        BY <2>1, <2>4, ExecLoad
      <3>2. Reg(d, T)
        BY <2>1, <2>4, OperandFacts DEF LoadDst, Const
      <3> HIDE DEF e, z
      <3>3. Exec(o, s, m).regs = [s.regs EXCEPT ![d.n] = e]
        BY <3>1, MachineFacts
      <3> QED
        BY <1>1, <2>2, <3>2, <3>3
    <2> QED
      BY <2>3, <2>4
  <1>6. CASE o.op \in {"saveip", "vmstore", "gbr", "gbrind", "brcc"}
    BY <1>6, OpNames, MachineFacts DEF Exec
  <1> QED
    BY <1>2, <1>3, <1>4, <1>5, <1>6, OkOps DEF Ok

\* Every source of a well-formed operation can be read.
LEMMA OkSources ==
  ASSUME NEW o, NEW s, NEW g, NEW T, Ok(o, s, g, T), NEW j \in DOMAIN o.src, ~o.src[j].const
  PROVE  \E n \in VRegs : o.src[j] = vreg(n) /\ s.regs[n] # Undef
  <1>1. ASSUME NEW a, Readable(a, s, T), ~a.const
        PROVE  \E n \in VRegs : a = vreg(n) /\ s.regs[n] # Undef
    BY <1>1, OperandFacts DEF Readable, Const, Reg
  <1>2. ASSUME NEW a, NEW b, o.src = <<a, b>>, Readable(a, s, T), Readable(b, s, T)
        PROVE  Readable(o.src[j], s, T)
    <2>1. j = 1 \/ j = 2
      BY <1>2
    <2> QED
      BY <1>2, <2>1
  <1>3. ASSUME NEW a, o.src = <<a>>, Readable(a, s, T)
        PROVE  Readable(o.src[j], s, T)
    <2>1. j = 1
      BY <1>3
    <2> QED
      BY <1>3, <2>1
  <1>4. o.src # <<>>
    OBVIOUS
  <1>5. Readable(o.src[j], s, T)
    <2>1. CASE OkArith(o, s, T)
      BY <1>2, <2>1, InstFacts DEF OkArith
    <2>2. CASE OkMov(o, s, T)
      BY <1>3, <2>2, InstFacts DEF OkMov, Mov
    <2>3. CASE OkSetcc(o, s, T)
      BY <1>2, <2>3, InstFacts DEF OkSetcc
    <2>4. CASE o = PreSideeff
      BY <1>4, <2>4, InstFacts DEF PreSideeff
    <2>5. CASE OkLoad(o, s, g, T)
      BY <1>3, <2>5, InstFacts DEF OkLoad
    <2>6. CASE OkStore(o, s, g, T)
      BY <1>2, <2>6, InstFacts DEF OkStore
    <2>7. CASE OkGbr(o)
      BY <1>4, <2>7, InstFacts DEF OkGbr
    <2>8. CASE OkGbrind(o, s, T)
      BY <1>3, <2>8, InstFacts DEF OkGbrind
    <2>9. CASE OkBrcc(o, s, T)
      BY <1>2, <2>9, InstFacts DEF OkBrcc
    <2> QED
      BY <2>1, <2>2, <2>3, <2>4, <2>5, <2>6, <2>7, <2>8, <2>9 DEF Ok
  <1> QED
    BY <1>1, <1>5

\* A register that is read was defined at the start or is written before.
LEMMA WrittenBefore ==
  ASSUME NEW c, NEW s0, NEW s1, NEW t0, NEW t1, NEW m, NEW g, NEW T,
         Reach(c, s0, s1, t0, t1, m, g, T),
         NEW k \in DOMAIN c, NEW j \in DOMAIN c[k].src, ~c[k].src[j].const
  PROVE  \/ s0.regs[c[k].src[j].n] # Undef
         \/ \E l \in 1 .. k - 1 : c[l].dst = c[k].src[j]
  <1>1. PICK q :
       /\ q[0] = s0
       /\ \A i \in 0 .. Len(c) : Typed(q[i])
       /\ \A i \in 1 .. Len(c) : Ok(c[i], q[i - 1], g, T) /\ q[i] = Exec(c[i], q[i - 1], m)
    BY DEF Reach
  <1> DEFINE n == Len(c)
  <1>2. n \in Nat /\ DOMAIN c = 1 .. n
    BY ReachEnds, SeqLen
  <1>3. /\ \A i \in 0 .. n : Typed(q[i])
        /\ \A i \in 1 .. n : Ok(c[i], q[i - 1], g, T) /\ q[i] = Exec(c[i], q[i - 1], m)
    BY <1>1
  <1> HIDE DEF n
  <1>4. k \in 1 .. n /\ k - 1 \in Nat /\ k - 1 <= n
    BY <1>2
  <1>5. PICK r \in VRegs : c[k].src[j] = vreg(r) /\ q[k - 1].regs[r] # Undef
    BY <1>3, <1>4, OkSources
  <1> DEFINE S == {i \in Nat : i <= n /\ q[i].regs[r] # Undef =>
                     s0.regs[r] # Undef \/ \E l \in 1 .. i : c[l].dst = vreg(r)}
  <1>6. 0 \in S
    BY <1>1
  <1>7. ASSUME NEW i \in Nat, i \in S
        PROVE  i + 1 \in S
    <2> SUFFICES ASSUME i + 1 <= n, q[i + 1].regs[r] # Undef, ~\E l \in 1 .. i + 1 : c[l].dst = vreg(r)
                 PROVE  s0.regs[r] # Undef
      OBVIOUS
    <2>1. i + 1 \in 1 .. n /\ (i + 1) - 1 = i /\ i \in 0 .. n /\ i <= n /\ i + 1 \in 1 .. i + 1
      BY <1>2
    <2>2. Ok(c[i + 1], q[i], g, T) /\ q[i + 1] = Exec(c[i + 1], q[i], m) /\ Typed(q[i])
      BY <1>3, <2>1
    <2>3. c[i + 1].dst # vreg(r)
      BY <2>1
    <2>4. q[i].regs[r] # Undef
      BY <2>2, <2>3, ExecRegs
    <2>5. ~\E l \in 1 .. i : c[l].dst = vreg(r)
      <3>1. \A l \in 1 .. i : l \in 1 .. i + 1
        OBVIOUS
      <3> QED
        BY <3>1
    <2> QED
      BY <1>7, <2>1, <2>4, <2>5
  <1>8. Nat \subseteq S
    <2> HIDE DEF S
    <2> QED
      BY <1>6, <1>7, NatInd
  <1>9. s0.regs[r] # Undef \/ \E l \in 1 .. k - 1 : c[l].dst = vreg(r)
    BY <1>4, <1>5, <1>8
  <1>10. c[k].src[j].n = r
    BY <1>5, OperandFacts
  <1> QED
    BY <1>5, <1>9, <1>10

\* Whatever is left to run consists of operations the host has: two-address
\* arithmetic, immediates it can encode, and no temporary is read before it is
\* written.
THEOREM OnlyHostOperations == Spec => []SelectionLegal
  <1>1. IInv => SelectionLegal
    <2> SUFFICES ASSUME IInv, stage = "run", NEW k \in DOMAIN host
                 PROVE  /\ Legal(host[k])
                        /\ \A j \in DOMAIN host[k].src : ~host[k].src[j].const =>
                             \/ v[host[k].src[j].n] # Undef
                             \/ \E l \in 1 .. k - 1 : host[l].dst = host[k].src[j]
      BY DEF SelectionLegal, Legal
    <2>1. PICK s1 : HostCode(host, Now, s1, mem, Env(insn, gpr0))
      BY DEF IInv, Runs
    <2>2. Legal(host[k])
      BY <2>1 DEF HostCode
    <2>3. PICK t0, t1 : Reach(host, Now, s1, t0, t1, mem, Env(insn, gpr0), MaxTemps)
      BY <2>1 DEF HostCode
    <2>4. ASSUME NEW j \in DOMAIN host[k].src, ~host[k].src[j].const
          PROVE  \/ v[host[k].src[j].n] # Undef
                 \/ \E l \in 1 .. k - 1 : host[l].dst = host[k].src[j]
      <3>1. \/ Now.regs[host[k].src[j].n] # Undef
            \/ \E l \in 1 .. k - 1 : host[l].dst = host[k].src[j]
        BY <2>3, <2>4, WrittenBefore
      <3> QED
        BY <3>1, NowFacts
    <2> QED
      BY <2>2, <2>4
  <1> QED
    BY <1>1, Inductive, PTL
=============================================================================
