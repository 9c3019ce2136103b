----------------------------- MODULE MCSymCCRun -----------------------------
(***************************************************************************)
(* An input that is empty, fits into the pipe, or exceeds it; a pipe for   *)
(* standard error that a line and a half fill; one-digit and two-digit     *)
(* solver times, so that a cut line reads as a different number.           *)
(***************************************************************************)
EXTENDS SymCCRun
MCInputSizes == 0 .. 2
MCTimes      == {5, 31, 42}
=============================================================================
