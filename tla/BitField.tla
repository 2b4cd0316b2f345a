------------------------------ MODULE BitField ------------------------------
(***************************************************************************)
(* Bit fields (util/bitfield.h).  A container is the set of the positions  *)
(* of its one bits.  A u32 is the integer of -2^31 .. 2^31 - 1 it is       *)
(* congruent to: the range TLC computes with.                              *)
(***************************************************************************)
EXTENDS Integers, Sequences

MinInt == -2147483647 - 1
MaxInt == 2147483647

\* The sum of two u32, which wraps.
AddU32(a, b) ==
  IF a > 0 /\ b > MaxInt - a THEN (a + MinInt) + (b + MinInt)
  ELSE IF a < 0 /\ b < MinInt - a THEN (a - MinInt) + (b - MinInt)
  ELSE a + b

\* t >> k, which keeps the sign, and bit k of t.
Shr(t, k) ==
  LET s[j \in Nat] == IF j = 0 THEN t ELSE s[j - 1] \div 2
  IN  s[k]
BitOf(t, k) == Shr(t, k) % 2 = 1

\* (t << (h - l + 1)) | the bits l .. h of c.  bf_seq<T, pts...>::decode puts
\* an unsigned piece below the value of the pieces above it in this way.
ShiftIn(t, c, l, h) ==
  LET v[k \in Nat] ==
        IF k = 0 THEN t ELSE 2 * v[k - 1] + IF h + 1 - k \in c THEN 1 ELSE 0
  IN  v[h - l + 1]

\* bf_range<T, l, h>::decode for an unsigned T and at most 31 bits.
Field(c, l, h) == ShiftIn(0, c, l, h)

\* Mutant: the top bit of a signed field counts positive.
FieldSUnsigned(c, l, h) ==
  ShiftIn(IF h \notin c THEN 0 ELSE IF h - l = 31 THEN -1 ELSE 1, c, l, h - 1)

\* bf_range<T, l, h>::decode for a signed T, and for a u32 of 32 bits.
FieldS(c, l, h) == ShiftIn(IF h \in c THEN -1 ELSE 0, c, l, h - 1)

\* bf_range<T, l, h>::encode: the field replaced by the low bits of t.
Encode(c, l, h, t) == (c \ (l .. h)) \cup {i \in l .. h : BitOf(t, i - l)}
=============================================================================
