----------------------------- MODULE MCLowering -----------------------------
(* Four-bit words: I8, I16 and I32 are 1, 2 and 4 bits wide.  The register *)
(* values are the boundaries of the signed and the unsigned order.         *)
EXTENDS Lowering
=============================================================================
