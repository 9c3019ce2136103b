---------------------------- MODULE MCLibcInput ----------------------------
(***************************************************************************)
(* An instance of LibcInput: an input of three bytes with a newline and a  *)
(* NUL, other files of one byte, of which one has a path that matches the  *)
(* configured name; two descriptors.                                       *)
(***************************************************************************)
EXTENDS LibcInput
MCContent == [f \in Files |-> IF f = InputFile THEN <<"char", "newline", "nul">> ELSE <<"char">>]
=============================================================================
