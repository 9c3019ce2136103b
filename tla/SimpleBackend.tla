--------------------------- MODULE SimpleBackend ---------------------------
(***************************************************************************)
(* The solver side of runtime/simple_backend/Runtime.cpp and its start-up  *)
(* with the configuration of runtime/Config.cpp.                           *)
(*                                                                         *)
(* The solver's variables are named stdin0, stdin1, ...; a model gives     *)
(* each of them a byte.  An expression is what it evaluates to under every *)
(* model, and the assertions on the solver are the set of models that      *)
(* satisfy them all.                                                       *)
(***************************************************************************)
EXTENDS Naturals, Sequences

CONSTANTS
  ByteValues, \* the number of values of a byte (256 in the code)
  InputSize,  \* the number of input bytes, and of solver variables
  Debug       \* are assertions compiled into the run-time library?

ASSUME BackendAssumption ==
  ByteValues \in Nat \ {0} /\ InputSize \in Nat \ {0} /\ Debug \in BOOLEAN

VARIABLES
  g_config_input,  \* "unset" before initialization, else what is symbolic
  stdinBytes,      \* the expressions of the input bytes
  g_solver,        \* the models of the asserted path constraints
  log,             \* the model logged for the last constraint, if any
  status           \* "running", or how the process was ended

backend == <<g_config_input, stdinBytes, g_solver, log, status>>

Byte  == 0 .. ByteValues - 1
Model == [0 .. InputSize - 1 -> Byte]
Null  == <<>>

Constant(v) == [m \in Model |-> v]

-----------------------------------------------------------------------------
(***************************************************************************)
(* Start-up.  The environment sets the name of an input file or not, three *)
(* flags and a threshold, each of them unset, valid or malformed.          *)
(***************************************************************************)
Environment == [file : BOOLEAN, memory : {"unset", "on", "off", "bad"},
                concrete : {"unset", "on", "off", "bad"},
                pruning : {"unset", "on", "off", "bad"},
                threshold : {"unset", "valid", "bad"}]

\* Exceptions: malformed values, and two inputs at the same time.
ConfigThrows(e) ==
  \/ "bad" \in {e.memory, e.concrete, e.pruning, e.threshold}
  \/ e.file /\ e.memory = "on"

ConfiguredInput(e) ==
  CASE e.concrete = "on" -> "none"
    [] e.concrete # "on" /\ e.memory = "on" -> "memory"
    [] e.concrete # "on" /\ e.memory # "on" /\ e.file -> "file"
    [] OTHER -> "stdin"

\* Every instrumented module calls this; only the first call has an effect.
_sym_initialize ==
  /\ status = "running"
  /\ IF g_config_input # "unset"
       THEN UNCHANGED <<g_config_input, status>>
       ELSE \E e \in Environment :
              IF ConfigThrows(e)
                THEN status' = "exception" /\ UNCHANGED g_config_input
                ELSE g_config_input' = ConfiguredInput(e) /\ UNCHANGED status
  /\ UNCHANGED <<stdinBytes, g_solver, log>>

-----------------------------------------------------------------------------
(***************************************************************************)
(* Input bytes: from the expressions known so far and an offset, the       *)
(* expression for the offset and the expressions known then.               *)
(***************************************************************************)
Variable(n) == [m \in Model |-> m[n]]

\* Mutant: the vector grows by one whatever the offset is.
InputByteAlwaysNew(known, offset) ==
  LET var == Variable(Len(known) % InputSize) IN
  [expr |-> var, bytes |-> Append(known, var)]

\* The new variable is named after the number of bytes known, not after the
\* offset; offsets that are skipped have no expression from then on.
_sym_get_input_byte(known, offset) ==
  LET size == Len(known)
      var  == Variable(size)
      resized == [i \in 1 .. offset |-> IF i <= size THEN known[i] ELSE Null] IN
  IF offset < size
    THEN [expr |-> known[offset + 1], bytes |-> known]
    ELSE [expr |-> var, bytes |-> Append(resized, var)]

-----------------------------------------------------------------------------
(***************************************************************************)
(* Path constraints                                                        *)
(***************************************************************************)
NoLog == [found |-> FALSE]

Satisfying(constraint, value) ==
  IF constraint = Null THEN Model ELSE {m \in Model : constraint[m] = value}

\* Mutants: the alternative stays asserted; the roles of the constraint and
\* its negation are swapped in the query.
PushWithoutPop(constraint, taken) ==
  /\ g_solver' = g_solver \cap Satisfying(constraint, taken)
                         \cap Satisfying(constraint, ~taken)
  /\ log' = NoLog
  /\ UNCHANGED status

PushSwapped(constraint, taken) ==
  LET actual == Satisfying(constraint, taken) IN
  /\ log' \in {[found |-> TRUE, model |-> m] : m \in g_solver \cap actual}
  /\ g_solver' = g_solver \cap actual
  /\ UNCHANGED status

\* Simplification may, but need not, recognise a constraint without
\* alternative.  A query may time out, which counts as having no solution;
\* in the last check of a debug build it ends the process.
_sym_push_path_constraint(constraint, taken) ==
  LET actual      == Satisfying(constraint, taken)
      alternative == Satisfying(constraint, ~taken) IN
  \/ /\ constraint = Null
     /\ UNCHANGED <<g_solver, log, status>>
  \/ /\ constraint # Null /\ actual = Model
     /\ log' = NoLog
     /\ UNCHANGED <<g_solver, status>>
  \/ /\ constraint # Null /\ alternative = Model
     /\ log' = NoLog
     /\ status' = IF Debug THEN "impossible branch" ELSE status
     /\ UNCHANGED g_solver
  \/ /\ constraint # Null
     /\ log' \in {NoLog} \cup
                 {[found |-> TRUE, model |-> m] : m \in g_solver \cap alternative}
     /\ g_solver' = g_solver \cap actual
     /\ \/ status' = IF Debug /\ g_solver' = {} THEN "infeasible" ELSE status
        \/ Debug /\ status' = "timeout"
=============================================================================
