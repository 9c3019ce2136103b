-------------------------- MODULE MCExpressionPool --------------------------
(***************************************************************************)
(* Two input bytes, three blocks of memory for more expressions, so that   *)
(* blocks are used again, and two pointers known to the collector.         *)
(***************************************************************************)
EXTENDS ExpressionPool, TLC
Symmetry == Permutations(Ptr) \cup Permutations(Slots)
=============================================================================
