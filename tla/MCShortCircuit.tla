--------------------------- MODULE MCShortCircuit ---------------------------
(***************************************************************************)
(* All functions with one parameter (0), one constant (1) and a loop of    *)
(* three instructions 2 .. 4, the PHI nodes first.                         *)
(***************************************************************************)
EXTENDS ShortCircuit
MCBody == 2 .. 4
Earlier(i) == 0 .. i - 1
Phi(i)     == {[kind |-> "phi", x |-> x, y |-> y] : x \in 0 .. 1, y \in 0 .. 4}
Pairs(i)   == {p \in Earlier(i) \X Earlier(i) : p[1] <= p[2]}
Other(i) ==
  {[kind |-> "binary", x |-> p[1], y |-> p[2]] : p \in Pairs(i)}
  \cup {[kind |-> "select", c |-> c, x |-> p[1], y |-> p[2]] : c \in Earlier(i), p \in Pairs(i)}
  \cup {[kind |-> "branch", x |-> x] : x \in Earlier(i)}
\* A branch has no value that others could use.
Uses(q, b) == \E i \in MCBody : \/ q[i].kind # "branch" /\ b \in {q[i].x, q[i].y}
                                \/ q[i].kind = "branch" /\ q[i].x = b
                                \/ q[i].kind = "select" /\ q[i].c = b
MCPrograms ==
  {q \in {[i \in MCBody |-> CASE i = 2 -> a [] i = 3 -> b [] i = 4 -> c] :
            a \in Phi(2) \cup Other(2), b \in Phi(3) \cup Other(3),
            c \in Phi(4) \cup Other(4)} :
     /\ \A i \in 3 .. 4 : q[i].kind = "phi" => q[i - 1].kind = "phi"
     /\ \A i \in MCBody : q[i].kind = "branch" => ~Uses(q, i)}
=============================================================================
