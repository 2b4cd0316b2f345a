--------------------------- MODULE MCExecuteFrame ---------------------------
(***************************************************************************)
(* The composition of the run time and the host stack, on the programs of  *)
(* MCExecute that mix leaf and calling regions, every way out of a region, *)
(* and stores into code.                                                   *)
(***************************************************************************)
EXTENDS MCExecute, ExecuteFrame
=============================================================================
