--------------------------- MODULE MCShadowMemory ---------------------------
(***************************************************************************)
(* An instance of ShadowMemory: addresses 1 .. 4 on three pages of two     *)
(* bytes, one input byte, and the two constants.                           *)
(***************************************************************************)
EXTENDS ShadowMemory
MCAddr == 1 .. 4
MCExpr == {"input0", "const0", "const1"}
MCVal == [e \in MCExpr |-> IF e = "const0" THEN 0 ELSE 1]
MCConst == [b \in {0, 1} |-> IF b = 0 THEN "const0" ELSE "const1"]
MCInputByte == [o \in {0} |-> "input0"]
=============================================================================
