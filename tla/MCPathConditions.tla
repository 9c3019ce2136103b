-------------------------- MODULE MCPathConditions --------------------------
(***************************************************************************)
(* Two input bytes with three values, two bytes of memory, a switch with   *)
(* two cases and a default, a table that is not injective, a string of     *)
(* two bytes.                                                              *)
(***************************************************************************)
EXTENDS PathConditions
MCCases == <<0, 2>>
MCText  == <<1, 2>>
MCTable == [b \in 0 .. 2 |-> IF b = 2 THEN 1 ELSE b]
=============================================================================
