---------------------------- MODULE PureConcolic ----------------------------
(***************************************************************************)
(* util/pure_concolic_execution.sh: concolic execution without a fuzzer.   *)
(* The script runs the target on one generation of inputs after another    *)
(* and makes the test cases that SymCC generates the next generation,      *)
(* together with files that others drop into the input directory.          *)
(*                                                                         *)
(* A file is its name: generated files are named by the hash of their      *)
(* content.  SymCC numbers the files it writes from 0 in every run, so     *)
(* the directory symcc_out is a sequence.                                  *)
(***************************************************************************)
EXTENDS Naturals, Sequences, FiniteSets, Functions

CONSTANTS
  Given,       \* names of files that may appear in the input directory
  Generated,   \* names (hashes) of test cases
  Gen,         \* Gen[f]: the test cases that SymCC may derive from f
  Within       \* <<f, g>>: as a regular expression, the name f matches a part of the name g

Names == Given \cup Generated

ASSUME GenAssumption    == Gen \in [Names -> SUBSET Generated]
ASSUME FiniteAssumption == \A f \in Names : IsFiniteSet(Gen[f])   \* an execution ends
ASSUME WithinAssumption == Within \subseteq Names \X Names

VARIABLES
  in,               \* the input directory
  out,              \* the output directory
  next, cur,        \* $work_dir/next and $work_dir/cur
  symcc_out,        \* $work_dir/symcc_out
  analyzed_inputs,  \* the lines of $work_dir/analyzed_inputs
  phase,            \* "generation", "run" or "wait"
  written           \* all test cases that SymCC has written (history)

scriptVars == <<in, out, next, cur, symcc_out, analyzed_inputs, phase, written>>

-----------------------------------------------------------------------------
\* Somebody adds a file to the input directory.
AddInput(f) ==
  /\ f \notin in
  /\ in' = in \cup {f}
  /\ UNCHANGED <<out, next, cur, symcc_out, analyzed_inputs, phase, written>>

\* Mutant: once anything has been analysed, every file is skipped.
SkippedAfterFirst(f) == analyzed_inputs # {}

\* maybe_import skips a file if grep finds its name, taken as a regular
\* expression, in a line of analyzed_inputs.  A name with metacharacters need
\* not match itself; such a file is analysed again in every generation.
Skipped(f) == \E g \in analyzed_inputs : <<f, g>> \in Within

\* Mutant: a new file replaces what SymCC has generated.
ImportInstead == IF \E f \in in : ~Skipped(f) THEN {f \in in : ~Skipped(f)} ELSE next

maybe_import == next \cup {f \in in : ~Skipped(f)}

\* Mutant: the imported files stay in the next generation as well.
NewGenerationCopies ==
  /\ phase = "generation"
  /\ cur' = maybe_import
  /\ next' = maybe_import
  /\ phase' = IF cur' = {} THEN "wait" ELSE "run"
  /\ UNCHANGED <<in, out, symcc_out, analyzed_inputs, written>>

NewGeneration ==
  /\ phase = "generation"
  /\ cur' = maybe_import
  /\ next' = {}
  /\ phase' = IF cur' = {} THEN "wait" ELSE "run"
  /\ UNCHANGED <<in, out, symcc_out, analyzed_inputs, written>>

\* Files that a run of SymCC numbers like existing ones replace them; the
\* others stay.
Overwritten(old, new) ==
  new \o SubSeq(old, Len(new) + 1, Len(old))

\* The orders in which SymCC may write test cases of a set.
Orders(S) == {s \in [1 .. Cardinality(S) -> S] : Range(s) = S}

\* One execution of the target, add_to_next_generation and maybe_export
\* (both copy all of symcc_out).  The shell takes the files of cur in the
\* order of their names; any order is allowed here.
RunOn(f, new) ==
  /\ phase = "run"
  /\ f \in cur
  /\ symcc_out' = Overwritten(symcc_out, new)
  /\ next' = next \cup Range(symcc_out')
  /\ out' = out \cup Range(symcc_out')
  /\ analyzed_inputs' = analyzed_inputs \cup {f}
  /\ cur' = cur \ {f}
  /\ phase' = IF cur' = {} THEN "generation" ELSE "run"
  /\ written' = written \cup Range(new)
  /\ UNCHANGED in

Wait ==
  /\ phase = "wait"
  /\ phase' = "generation"
  /\ UNCHANGED <<in, out, next, cur, symcc_out, analyzed_inputs, written>>

ScriptInit ==
  /\ in \in SUBSET Given
  /\ out = {} /\ next = {} /\ cur = {} /\ symcc_out = <<>>
  /\ analyzed_inputs = {} /\ phase = "generation" /\ written = {}

Script ==
  \/ NewGeneration
  \/ \E f \in cur : \E S \in SUBSET Gen[f] : \E new \in Orders(S) : RunOn(f, new)
  \/ Wait

ScriptNext == Script \/ \E f \in Given : AddInput(f)

\* The script runs as long as nobody stops it.
ScriptSpec == ScriptInit /\ [][ScriptNext]_scriptVars /\ WF_scriptVars(Script)

-----------------------------------------------------------------------------
\* Types of the directories.
ScriptTypeOK ==
  /\ in \subseteq Given
  /\ next \subseteq Generated /\ cur \subseteq Names /\ out \subseteq Names
  /\ symcc_out \in Seq(Generated)
  /\ analyzed_inputs \subseteq Names
  /\ phase \in {"generation", "run", "wait"}

\* No test case is dropped when SymCC overwrites its files, when files are
\* imported or when the generations change: it is in the output directory, and
\* it has been analysed or is part of the current or the next generation.
NothingDropped ==
  written \subseteq out /\ written \subseteq analyzed_inputs \cup next \cup cur

\* Every file of the input directory and every test case is eventually
\* analysed, however SymCC reuses file names and whenever files appear.  The
\* one exception is a file whose name grep finds in the name of an analysed one.
AllAnalysed ==
  \A f \in Names : f \in in \cup written ~>
    f \in analyzed_inputs \/ \E g \in analyzed_inputs : <<f, g>> \in Within
=============================================================================
