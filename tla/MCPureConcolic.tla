--------------------------- MODULE MCPureConcolic ---------------------------
(***************************************************************************)
(* An instance of PureConcolic: two files are given; a leads to g1 and g2, *)
(* ab to g1, g1 to g2, and g2 to nothing.  The name a is part of ab, and   *)
(* ab (which stands for a name like a[b]) does not match itself.           *)
(***************************************************************************)
EXTENDS PureConcolic
MCGen == [f \in Names |-> CASE f = "a" -> {"g1", "g2"} [] f = "g1" -> {"g2"}
                            [] f = "ab" -> {"g1"} [] f = "g2" -> {}]
MCWithin == {<<f, f>> : f \in Names \ {"ab"}} \cup {<<"a", "ab">>}
=============================================================================
