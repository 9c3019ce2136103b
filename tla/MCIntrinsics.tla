---------------------------- MODULE MCIntrinsics ----------------------------
(***************************************************************************)
(* An instance of Intrinsics: bytes of two bits and integers of two bytes, *)
(* with the intrinsics, the indices and the comparisons for which the      *)
(* instrumentation is right.  It meets the hypotheses of the theorems in   *)
(* IntrinsicsProofs.                                                       *)
(***************************************************************************)
EXTENDS Intrinsics

ASSUME InstanceIsSound == SoundTarget /\ SoundProgram
=============================================================================
