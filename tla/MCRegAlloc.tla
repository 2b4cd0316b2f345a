---------------------------- MODULE MCRegAlloc ----------------------------
(* Small hosts for RegAlloc: a register file just large enough for an      *)
(* instruction with two sources and a destination, so that registers are   *)
(* evicted all the time.                                                   *)
EXTENDS RegAlloc

CONSTANTS g1, g2, t1, t2

MCVSize == [v \in Locals |-> IF v = t1 THEN 1 ELSE 4]
=============================================================================
