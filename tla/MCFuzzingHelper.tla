-------------------------- MODULE MCFuzzingHelper --------------------------
(***************************************************************************)
(* An instance of FuzzingHelper: a small seed file, a large file with new  *)
(* coverage, and test cases whose coverage overlaps.                       *)
(***************************************************************************)
EXTENDS FuzzingHelper
MCInputs == {"seed", "cov"}
MCScore == [i \in MCInputs |-> IF i = "seed" THEN <<0, 1, -4, 0>> ELSE <<1, 0, -9, 1>>]
MCTests == {"t1", "t2"}
MCCoverage == [t \in MCTests |-> IF t = "t1" THEN {1} ELSE {1, 2}]
=============================================================================
