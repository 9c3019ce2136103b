--------------------------- MODULE MCCallProtocol ---------------------------
(***************************************************************************)
(* An instance of CallProtocol: two symbolic values, four frames.          *)
(***************************************************************************)
EXTENDS CallProtocol
=============================================================================
