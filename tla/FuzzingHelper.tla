--------------------------- MODULE FuzzingHelper ---------------------------
(***************************************************************************)
(* The helper that lets SymCC work beside AFL                              *)
(* (util/symcc_fuzzing_helper): it picks the most promising unseen file of *)
(* the fuzzer's queue, runs the instrumented program on it, evaluates each *)
(* generated test case with afl-showmap, and files the useful ones in      *)
(* directories that AFL in turn imports.  AFL runs concurrently.           *)
(*                                                                         *)
(* A coverage map is the set of its bits.  Every call that can fail ends   *)
(* the helper: main propagates the error with the ? operator.              *)
(***************************************************************************)
EXTENDS Integers, FiniteSets, Sequences

CONSTANTS
  Inputs,    \* files that may appear in the fuzzer's queue
  Score,     \* Score[i]: new_coverage, derived_from_seed, file_size, base_name
  Tests,     \* test cases that SymCC may generate
  Bits,      \* bits of the coverage map
  Coverage,  \* Coverage[t]: the map that afl-showmap produces for t
  None       \* no input is being processed

ASSUME ScoreAssumption    == Score \in [Inputs -> Nat \X Nat \X Int \X Nat]
ASSUME CoverageAssumption == Coverage \in [Tests -> SUBSET Bits]
ASSUME BitsAssumption     == IsFiniteSet(Bits)   \* AFL's map has a fixed size
ASSUME NoneAssumption     == None \notin Inputs

VARIABLES
  afl_queue,        \* the files in the fuzzer's queue
  pc,               \* where the main loop is
  input,            \* the file being analysed
  todo,             \* the generated test cases that are yet to be evaluated
  status,           \* how the execution of SymCC ended
  current_bitmap, processed_files, queue, hangs, crashes,  \* struct State
  stats             \* struct Stats

vars == <<afl_queue, pc, input, todo, status, current_bitmap, processed_files,
          queue, hangs, crashes, stats>>

-----------------------------------------------------------------------------
\* The derived Ord of TestcaseScore compares field by field; a smaller file
\* has a larger file_size, which is stored negated.
Less(s, t) == \E k \in 1 .. 4 : s[k] < t[k] /\ \A j \in 1 .. k - 1 : s[j] = t[j]

\* Mutant: the best file of the queue, unless it has been processed.
BestOfAll(i) ==
  /\ i \in afl_queue \ processed_files
  /\ \A j \in afl_queue : ~Less(Score[i], Score[j])

\* best_new_testcase may return i.
best_new_testcase(i) ==
  /\ i \in afl_queue \ processed_files
  /\ \A j \in afl_queue \ processed_files : ~Less(Score[i], Score[j])

\* Mutant: the test case and its parent are mixed up.
CopyParent(dir, t, parent) == Append(dir, [content |-> parent, src |-> t])

\* copy_testcase names the file by the directory's next ID and the ID of the
\* parent; an entry is the file's content and its parent.
copy_testcase(dir, t, parent) == Append(dir, [content |-> t, src |-> parent])

\* How an execution under "timeout -k" may end: the program exits; its time
\* is up (timeout exits with 124); or a signal ends it and timeout: a crash,
\* out of memory, or the kill after the grace period (see SymCCRun).
Statuses == {"exit", "time_up", "signalled"}

\* run recognises the exit code 124 and signals.
Killed(s) == s \in {"time_up", "signalled"}

-----------------------------------------------------------------------------
\* AFL finds a new test case, or removes one.
AflAdds(i) ==
  /\ i \notin afl_queue
  /\ afl_queue' = afl_queue \cup {i}
  /\ UNCHANGED <<pc, input, todo, status, current_bitmap, processed_files,
                 queue, hangs, crashes, stats>>

AflRemoves(i) ==
  /\ i \in afl_queue
  /\ afl_queue' = afl_queue \ {i}
  /\ UNCHANGED <<pc, input, todo, status, current_bitmap, processed_files,
                 queue, hangs, crashes, stats>>

\* An iteration of the main loop that finds a file ...
Pick(i) ==
  /\ pc = "scan"
  /\ best_new_testcase(i)
  /\ pc' = "run" /\ input' = i
  /\ UNCHANGED <<afl_queue, todo, status, current_bitmap, processed_files,
                 queue, hangs, crashes, stats>>

\* ... or sleeps.
Sleep ==
  /\ pc = "scan"
  /\ ~\E i \in Inputs : best_new_testcase(i)
  /\ UNCHANGED vars

\* SymCC::run: the file is copied first, so it must still be there.
Run(new_tests, s) ==
  /\ pc = "run"
  /\ input \in afl_queue
  /\ pc' = "evaluate" /\ todo' = new_tests /\ status' = s
  /\ UNCHANGED <<afl_queue, input, current_bitmap, processed_files,
                 queue, hangs, crashes, stats>>

\* process_new_testcase, by the outcome of afl-showmap; the directory is
\* listed in any order.
Evaluating(t) ==
  /\ pc = "evaluate"
  /\ t \in todo
  /\ todo' = todo \ {t}

\* Mutant: the new map replaces the old one.
Replace(other) == current_bitmap' = other

merge(other) == current_bitmap' = current_bitmap \cup other

\* Mutant: a test case is interesting only if all of its coverage is new.
SuccessAllNew(t) ==
  /\ Evaluating(t)
  /\ merge(Coverage[t])
  /\ queue' = IF Coverage[t] \cap current_bitmap # {}
                THEN queue
                ELSE copy_testcase(queue, t, input)
  /\ UNCHANGED <<afl_queue, pc, input, status, processed_files,
                 hangs, crashes, stats>>

Success(t) ==
  /\ Evaluating(t)
  /\ merge(Coverage[t])
  /\ queue' = IF Coverage[t] \subseteq current_bitmap
                THEN queue
                ELSE copy_testcase(queue, t, input)
  /\ UNCHANGED <<afl_queue, pc, input, status, processed_files,
                 hangs, crashes, stats>>

\* A test case that afl-showmap times out on is ignored.
Hang(t) ==
  /\ Evaluating(t)
  /\ UNCHANGED <<afl_queue, pc, input, status, current_bitmap, processed_files,
                 queue, hangs, crashes, stats>>

Crash(t) ==
  /\ Evaluating(t)
  /\ crashes' = copy_testcase(crashes, t, input)
  /\ queue' = copy_testcase(queue, t, input)
  /\ UNCHANGED <<afl_queue, pc, input, status, current_bitmap, processed_files,
                 hangs, stats>>

\* The end of test_input: archive, mark as processed, count.
add_execution(killed) ==
  stats' = IF killed THEN [stats EXCEPT !.failed_count = @ + 1]
                     ELSE [stats EXCEPT !.total_count = @ + 1]

\* Mutant: a killed execution does not mark its input as processed.
FinishRetries ==
  /\ pc = "evaluate" /\ todo = {}
  /\ hangs' = IF Killed(status) THEN copy_testcase(hangs, input, input) ELSE hangs
  /\ processed_files' = IF Killed(status) THEN processed_files
                                          ELSE processed_files \cup {input}
  /\ add_execution(Killed(status))
  /\ pc' = "scan" /\ input' = None
  /\ UNCHANGED <<afl_queue, todo, status, current_bitmap, queue, crashes>>

Finish ==
  /\ pc = "evaluate" /\ todo = {}
  /\ hangs' = IF Killed(status) THEN copy_testcase(hangs, input, input) ELSE hangs
  /\ processed_files' = processed_files \cup {input}
  /\ add_execution(Killed(status))
  /\ pc' = "scan" /\ input' = None
  /\ UNCHANGED <<afl_queue, todo, status, current_bitmap, queue, crashes>>

\* An error ends the helper: the queue cannot be listed, the input has
\* disappeared, a program cannot be run or fed, or a copy fails, after what
\* precedes it in the handler.
FailScan ==
  /\ pc = "scan"
  /\ pc' = "stopped"
  /\ UNCHANGED <<afl_queue, input, todo, status, current_bitmap, processed_files,
                 queue, hangs, crashes, stats>>

FailRun ==
  /\ pc = "run"
  /\ pc' = "stopped"
  /\ UNCHANGED <<afl_queue, input, todo, status, current_bitmap, processed_files,
                 queue, hangs, crashes, stats>>

FailEvaluate(t) ==
  /\ Evaluating(t)
  /\ pc' = "stopped"
  /\ \/ UNCHANGED <<current_bitmap, crashes>>
     \/ merge(Coverage[t]) /\ ~(Coverage[t] \subseteq current_bitmap)
        /\ UNCHANGED crashes
     \/ crashes' = copy_testcase(crashes, t, input) /\ UNCHANGED current_bitmap
  /\ UNCHANGED <<afl_queue, input, status, processed_files, queue, hangs, stats>>

FailArchive ==
  /\ pc = "evaluate" /\ todo = {} /\ Killed(status)
  /\ pc' = "stopped"
  /\ UNCHANGED <<afl_queue, input, todo, status, current_bitmap, processed_files,
                 queue, hangs, crashes, stats>>

-----------------------------------------------------------------------------
\* main and State::initialize, with any files in the queue already.
Init ==
  /\ afl_queue \in SUBSET Inputs
  /\ pc = "scan" /\ input = None /\ todo = {} /\ status = "exit"
  /\ current_bitmap = {} /\ processed_files = {}
  /\ queue = <<>> /\ hangs = <<>> /\ crashes = <<>>
  /\ stats = [total_count |-> 0, failed_count |-> 0]

Afl == \E i \in Inputs : AflAdds(i) \/ AflRemoves(i)

Helper ==
  \/ \E i \in Inputs : Pick(i)
  \/ Sleep
  \/ \E new_tests \in SUBSET Tests, s \in Statuses : Run(new_tests, s)
  \/ \E t \in Tests : Success(t) \/ Hang(t) \/ Crash(t)
  \/ Finish

Fail == FailScan \/ FailRun \/ FailArchive \/ \E t \in Tests : FailEvaluate(t)

Next == Afl \/ Helper \/ Fail

\* The helper takes its next step as long as it has one: every program it
\* waits for runs under a time limit, so SymCC::run returns, with a result or
\* an error.
Spec == Init /\ [][Next]_vars /\ WF_vars(Helper \/ FailRun)

-----------------------------------------------------------------------------
(***************************************************************************)
(* Properties                                                              *)
(***************************************************************************)
RangeOf(dir) == {dir[k] : k \in DOMAIN dir}
Contents(dir) == {e.content : e \in RangeOf(dir)}

\* Types of the helper's state.
TypeOK ==
  /\ afl_queue \subseteq Inputs
  /\ pc \in {"scan", "run", "evaluate", "stopped"}
  /\ input \in Inputs \cup {None}
  /\ todo \subseteq Tests
  /\ status \in Statuses
  /\ current_bitmap \subseteq Bits
  /\ processed_files \subseteq Inputs
  /\ queue \in Seq([content : Tests, src : Inputs])
  /\ crashes \in Seq([content : Tests, src : Inputs])
  /\ hangs \in Seq([content : Inputs, src : Inputs])
  /\ stats \in [total_count : Nat, failed_count : Nat]

\* While the helper runs, coverage is never claimed without a test case that
\* AFL can import: every bit of current_bitmap, which is what later test
\* cases are compared with, is covered by a file in the queue.
BitmapIsBacked ==
  pc # "stopped" =>
    \A b \in current_bitmap : \E t \in Contents(queue) : b \in Coverage[t]

\* Every analysed file is counted once, as a success or as a failure, and
\* the failures are the ones that have been archived.
Accounted ==
  /\ stats.total_count + stats.failed_count = Cardinality(processed_files)
  /\ stats.failed_count = Len(hangs)

\* The queue stays small: every file in it that did not crash the target
\* added coverage when it was filed, so there is at most one per bit.
QueueIsMinimal == Len(queue) <= Len(crashes) + Cardinality(Bits)

\* A file that is not worse than i and was not analysed before is analysed.
OvertakenBy(g, i) == input = g /\ g \notin processed_files /\ ~Less(Score[g], Score[i])

\* A file that stays in the fuzzer's queue is eventually analysed, unless an
\* error ends the helper or files that are no worse keep overtaking it, each
\* of them once.  (With an endless supply of better files best_new_testcase
\* starves the others.)
EventuallyAnalysed ==
  \A i \in Inputs : i \in afl_queue ~>
    \/ i \in processed_files \/ i \notin afl_queue \/ pc = "stopped"
    \/ \E g \in Inputs \ {i} : OvertakenBy(g, i)
=============================================================================
