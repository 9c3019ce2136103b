------------------------------ MODULE SymCCRun ------------------------------
(***************************************************************************)
(* One analysis by the fuzzing helper: SymCC::run of symcc.rs, the program *)
(* it starts under timeout(1), and the two pipes between them.             *)
(*                                                                         *)
(* The helper first writes the whole input to the program's standard input *)
(* and only then reads its standard error, until both the program and      *)
(* timeout are gone; the pipes are bounded.  The program's log holds lines *)
(* with the solver time so far, each arriving in two pieces, the second    *)
(* with the last digit of the time.                                        *)
(***************************************************************************)
EXTENDS Naturals, Sequences, SequencesExt

CONSTANTS
  InputSizes,   \* possible sizes of the input, in blocks
  StdinSize,    \* the capacity of the pipe to standard input, in blocks
  StderrSize,   \* the capacity of the pipe from standard error, in pieces
  Times,        \* the solver times the backend may report
  MaxReports,   \* bound: lines with a solver time in one execution
  MaxTests,     \* bound: test cases generated in one execution
  None          \* not a time

ASSUME SizesAssumption ==
  /\ InputSizes \subseteq Nat /\ Times \subseteq Nat
  /\ StdinSize \in Nat \ {0} /\ StderrSize \in Nat \ {0}
  /\ MaxReports \in Nat /\ MaxTests \in Nat
  /\ None \notin Nat

VARIABLES
  use_standard_input,  \* is the input piped, or read from a file?
  pc,                  \* the helper's next step
  unwritten,           \* blocks of the input not yet piped
  stdin,               \* blocks in the pipe to standard input
  stderr,              \* pieces in the pipe from standard error
  captured,            \* pieces the helper has read
  child,               \* "none", "running", "terminating", "dead"
  status,              \* how the program ended, as timeout reports it
  line,                \* the time whose line the program has half written
  reports,             \* the times the program has reported in full
  output_dir,          \* the number of test cases in the output directory
  result               \* the SymCCResult

vars == <<use_standard_input, pc, unwritten, stdin, stderr, captured, child,
          status, line, reports, output_dir, result>>

helper  == <<pc, unwritten, captured, result>>
program == <<child, status, line, reports, output_dir>>

Piece    == [time : Times, part : {"begin", "end"}]
NoResult == [test_cases |-> 0, killed |-> FALSE, time |-> 0, solver_time |-> None]

Alive == child \in {"running", "terminating"}

-----------------------------------------------------------------------------
(***************************************************************************)
(* The helper                                                              *)
(***************************************************************************)
\* Mutant: the first matching line is taken.
FirstSolverTime(output) ==
  LET begins == {i \in DOMAIN output : output[i].part = "begin"} IN
  IF begins = {} THEN None
  ELSE output[CHOOSE i \in begins : \A j \in begins : i <= j].time

\* The last line with a solver time counts; the digits that have not arrived
\* are missing from the number.
parse_solver_time(output) ==
  LET begins == {i \in DOMAIN output : output[i].part = "begin"}
      last   == CHOOSE i \in begins : \A j \in begins : j <= i IN
  IF begins = {} THEN None
  ELSE IF last < Len(output) THEN output[last].time
  ELSE output[last].time \div 10

\* fs::copy, fs::create_dir and spawn; the input has not changed since.
Prepare ==
  /\ \/ pc = "copy" /\ pc' = "create_dir" /\ UNCHANGED child
     \/ pc = "create_dir" /\ pc' = "spawn" /\ UNCHANGED child
     \/ pc = "spawn" /\ child' = "running"
        /\ pc' = IF use_standard_input THEN "write" ELSE "wait"
  /\ UNCHANGED <<use_standard_input, unwritten, stdin, stderr, captured,
                 status, line, reports, output_dir, result>>



\* io::copy to the program's standard input: blocks while the pipe is full,
\* fails when nobody can read it any more.
Write ==
  /\ pc = "write"
  /\ \/ /\ unwritten > 0 /\ child = "dead"
        /\ pc' = "failed"
        /\ UNCHANGED <<unwritten, stdin>>
     \/ /\ unwritten > 0 /\ child # "dead" /\ stdin < StdinSize
        /\ unwritten' = unwritten - 1 /\ stdin' = stdin + 1
        /\ UNCHANGED pc
     \/ /\ unwritten = 0
        /\ pc' = "wait"
        /\ UNCHANGED <<unwritten, stdin>>
  /\ UNCHANGED <<use_standard_input, stderr, captured, program, result>>

\* wait_with_output closes standard input, reads standard error until its
\* end and waits for the program.
WaitWithOutput ==
  /\ pc = "wait"
  /\ \/ /\ stderr # <<>>
        /\ captured' = Append(captured, Head(stderr)) /\ stderr' = Tail(stderr)
        /\ UNCHANGED pc
     \/ /\ stderr = <<>> /\ child = "dead"
        /\ pc' = "collect"
        /\ UNCHANGED <<captured, stderr>>
  /\ UNCHANGED <<use_standard_input, unwritten, stdin, program, result>>

\* Mutant: the test cases are listed before the program is waited for.
CollectEarly ==
  /\ pc = "collect" \/ (pc = "wait" /\ stderr = <<>>)
  /\ result' = [NoResult EXCEPT !.test_cases = output_dir]
  /\ pc' = "done"
  /\ UNCHANGED <<use_standard_input, unwritten, stdin, stderr, captured, program>>

\* Mutant: the reported time is returned as it is.
CollectUncapped ==
  /\ pc = "collect"
  /\ \E total \in Times :
       result' = [test_cases |-> output_dir,
                  killed |-> status \in {"124", "signal"},
                  time |-> total,
                  solver_time |-> parse_solver_time(captured)]
  /\ pc' = "done"
  /\ UNCHANGED <<use_standard_input, unwritten, stdin, stderr, captured, program>>

\* Reading the output directory and the log.  Exit code 124 and death by a
\* signal count as killed; the backend may report more than the time that
\* the execution took.
Collect ==
  /\ pc = "collect"
  /\ \E total \in Times :
       LET solver == parse_solver_time(captured) IN
       result' = [test_cases |-> output_dir,
                  killed |-> status \in {"124", "signal"},
                  time |-> total,
                  solver_time |-> IF solver = None THEN None
                                  ELSE IF solver < total THEN solver ELSE total]
  /\ pc' = "done"
  /\ UNCHANGED <<use_standard_input, unwritten, stdin, stderr, captured, program>>

\* Every call may fail and end the analysis; the helper gives up then.
Fail ==
  /\ pc \in {"copy", "create_dir", "spawn", "write", "wait", "collect"}
  /\ pc' = "failed"
  /\ UNCHANGED <<use_standard_input, unwritten, stdin, stderr, captured,
                 program, result>>

HelperStep == Prepare \/ Write \/ WaitWithOutput \/ Collect

-----------------------------------------------------------------------------
(***************************************************************************)
(* The instrumented program (external)                                     *)
(***************************************************************************)
Runs == Alive /\ pc # "failed"

ReadInput ==
  /\ Runs /\ stdin > 0
  /\ stdin' = stdin - 1
  /\ UNCHANGED <<use_standard_input, helper, stderr, program>>

\* A line of the log; writing to a full pipe blocks.
BeginLine ==
  /\ Runs /\ line = None /\ Len(reports) < MaxReports /\ Len(stderr) < StderrSize
  /\ \E t \in Times :
       /\ line' = t
       /\ stderr' = Append(stderr, [time |-> t, part |-> "begin"])
  /\ UNCHANGED <<use_standard_input, helper, stdin, child, status, reports, output_dir>>

EndLine ==
  /\ Runs /\ line # None /\ Len(stderr) < StderrSize
  /\ stderr' = Append(stderr, [time |-> line, part |-> "end"])
  /\ reports' = Append(reports, line)
  /\ line' = None
  /\ UNCHANGED <<use_standard_input, helper, stdin, child, status, output_dir>>

GenerateTest ==
  /\ Runs /\ line = None /\ output_dir < MaxTests
  /\ output_dir' = output_dir + 1
  /\ UNCHANGED <<use_standard_input, helper, stdin, stderr, child, status, line, reports>>

\* It ends, or a signal (out of memory) ends it and timeout with it.  How it
\* ends is not reported any more once it was asked to.
Exit ==
  /\ Runs
  /\ \/ child = "running" /\ line = None /\ status' = "exit"
     \/ child = "running" /\ status' = "signal"
     \/ child = "terminating" /\ status' = "124"
  /\ child' = "dead"
  /\ UNCHANGED <<use_standard_input, helper, stdin, stderr, line, reports, output_dir>>

ProgramStep == ReadInput \/ BeginLine \/ EndLine \/ GenerateTest \/ Exit

-----------------------------------------------------------------------------
(***************************************************************************)
(* timeout -k 5 90 (external): a request to terminate, then SIGKILL, which *)
(* ends timeout itself as well                                             *)
(***************************************************************************)
\* Mutant: the time limit is not passed to the command.
NoLimit == FALSE /\ UNCHANGED vars

TimeLimit ==
  /\ \/ /\ child = "running"
        /\ child' = "terminating" /\ UNCHANGED status
     \/ /\ child = "terminating"
        /\ child' = "dead" /\ status' = "signal"
  /\ UNCHANGED <<use_standard_input, helper, stdin, stderr, line, reports, output_dir>>

-----------------------------------------------------------------------------
Init ==
  /\ use_standard_input \in BOOLEAN
  /\ unwritten \in InputSizes
  /\ pc = "copy"
  /\ stdin = 0 /\ stderr = <<>> /\ captured = <<>>
  /\ child = "none" /\ status = "none" /\ line = None /\ reports = <<>>
  /\ output_dir = 0
  /\ result = NoResult

\* The analysis is over.
Over == pc \in {"done", "failed"} /\ UNCHANGED vars

Next == HelperStep \/ Fail \/ ProgramStep \/ TimeLimit \/ Over

Spec == Init /\ [][Next]_vars /\ WF_vars(HelperStep) /\ WF_vars(TimeLimit)

-----------------------------------------------------------------------------
\* Types: the pipes hold no more than their capacity, and the solver took no
\* longer than the whole execution.
TypeOK ==
  /\ use_standard_input \in BOOLEAN
  /\ pc \in {"copy", "create_dir", "spawn", "write", "wait", "collect",
             "done", "failed"}
  /\ unwritten \in Nat /\ stdin \in 0 .. StdinSize
  /\ stderr \in Seq(Piece) /\ Len(stderr) <= StderrSize
  /\ captured \in Seq(Piece)
  /\ child \in {"none", "running", "terminating", "dead"}
  /\ status \in {"none", "exit", "signal", "124"}
  /\ line \in Times \cup {None} /\ reports \in Seq(Times)
  /\ output_dir \in 0 .. MaxTests
  /\ result.test_cases \in 0 .. MaxTests
  /\ result.time \in Nat
  /\ result.solver_time \in {None} \cup 0 .. result.time

\* A successful analysis returns every test case that the program generates,
\* and nothing is added to them afterwards: the directory is listed when
\* nobody can write to it any more.
TestsComplete == pc = "done" => child = "dead" /\ result.test_cases = output_dir

\* Unless the result is marked as killed, the solver time is the last one that
\* the program reported, however the reports were cut into pieces and however long they
\* waited in the pipe, but no longer than the execution took.
SolverTimeExact ==
  pc = "done" /\ ~result.killed =>
    result.solver_time = IF reports = <<>> THEN None
                         ELSE IF Last(reports) < result.time THEN Last(reports)
                         ELSE result.time

\* Every analysis returns, with a result or an error.  The helper and the
\* program may block on each other, the one writing standard input and the
\* other standard error; it is the time limit that ends this.
Returns == <>(pc \in {"done", "failed"})
=============================================================================
