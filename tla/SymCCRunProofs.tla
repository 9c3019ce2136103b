--------------------------- MODULE SymCCRunProofs ---------------------------
(***************************************************************************)
(* One analysis, for any input size, any capacities of the pipes and any   *)
(* number of reports: the result holds every test case, and the solver     *)
(* time that the program reported last.                                    *)
(***************************************************************************)
EXTENDS SymCCRun, TLAPS

\* The log as the program has written it: what has been read and then what
\* waits in the pipe.
LogLen == Len(captured) + Len(stderr)
Log(k) == IF k <= Len(captured) THEN captured[k] ELSE stderr[k - Len(captured)]

\* The log ends with the line that the program is writing, or else with the
\* last one that it has finished.
LogEnds ==
  /\ line # None => LogLen >= 1 /\ Log(LogLen) = [time |-> line, part |-> "begin"]
  /\ line = None /\ reports = <<>> => LogLen = 0
  /\ line = None /\ reports # <<>> =>
       /\ LogLen >= 2
       /\ Log(LogLen) = [time |-> Last(reports), part |-> "end"]
       /\ Log(LogLen - 1) = [time |-> Last(reports), part |-> "begin"]

\* How the program ended is known when it is dead; it does not exit in the
\* middle of a line, and is not there before it is started.
Ended ==
  /\ pc \in {"copy", "create_dir", "spawn"} => child = "none"
  /\ child = "dead" <=> status # "none"
  /\ status = "exit" => line = None

\* The helper goes on when the program is dead and the pipe empty.
Drained == pc \in {"collect", "done"} => child = "dead" /\ stderr = <<>>

\* The inductive invariant.
IInv == TypeOK /\ LogEnds /\ Ended /\ Drained /\ TestsComplete /\ SolverTimeExact

-----------------------------------------------------------------------------
(***************************************************************************)
(* The log                                                                 *)
(***************************************************************************)
\* What the regular expression finds in a log that ends with a full line.
LEMMA ParsesLastLine ==
  ASSUME NEW output \in Seq(Piece), Len(output) >= 2,
         output[Len(output)].part = "end", output[Len(output) - 1].part = "begin"
  PROVE  parse_solver_time(output) = output[Len(output) - 1].time
<1> DEFINE n == Len(output)
           begins == {i \in DOMAIN output : output[i].part = "begin"}
           last == CHOOSE i \in begins : \A j \in begins : j <= i
<1>1. n \in Nat /\ DOMAIN output = 1 .. n
  OBVIOUS
<1>2. n - 1 \in begins
  BY <1>1
<1>3. \A j \in begins : j \in Int /\ j <= n - 1
  <2> SUFFICES ASSUME NEW j \in begins PROVE j \in Int /\ j <= n - 1
    OBVIOUS
  <2>1. j \in 1 .. n /\ output[j].part = "begin"
    BY <1>1
  <2>2. j # n
    BY <2>1
  <2> QED
    BY <1>1, <2>1, <2>2
<1> HIDE DEF begins
<1>4. last \in begins /\ \A j \in begins : j <= last
  <2>1. \E i \in begins : \A j \in begins : j <= i
    BY <1>2, <1>3
  <2> QED
    BY <2>1
<1>5. last = n - 1
  <2> HIDE DEF last
  <2>1. last \in Int /\ last <= n - 1 /\ n - 1 <= last
    BY <1>2, <1>3, <1>4
  <2> HIDE DEF n
  <2> QED
    BY <1>1, <2>1
<1>6. parse_solver_time(output) = IF begins = {} THEN None
                                  ELSE IF last < n THEN output[last].time
                                  ELSE output[last].time \div 10
  BY DEF parse_solver_time, begins
<1> HIDE DEF last
<1>7. begins # {} /\ last < n
  BY <1>1, <1>2, <1>5
<1> QED
  BY <1>5, <1>6, <1>7

\* What it finds in a log that was cut in the middle of a line.
LEMMA ParsesCutLine ==
  ASSUME NEW output \in Seq(Piece), Len(output) >= 1, output[Len(output)].part = "begin"
  PROVE  parse_solver_time(output) = output[Len(output)].time \div 10
<1> DEFINE n == Len(output)
           begins == {i \in DOMAIN output : output[i].part = "begin"}
           last == CHOOSE i \in begins : \A j \in begins : j <= i
<1>1. n \in Nat /\ DOMAIN output = 1 .. n
  OBVIOUS
<1>2. n \in begins /\ \A j \in begins : j \in Int /\ j <= n
  BY <1>1
<1> HIDE DEF begins
<1>3. last \in begins /\ \A j \in begins : j <= last
  <2>1. \E i \in begins : \A j \in begins : j <= i
    BY <1>2
  <2> QED
    BY <2>1
<1>4. last = n
  <2> HIDE DEF last
  <2>1. last \in Int /\ last <= n /\ n <= last
    BY <1>2, <1>3
  <2> HIDE DEF n
  <2> QED
    BY <1>1, <2>1
<1>5. parse_solver_time(output) = IF begins = {} THEN None
                                  ELSE IF last < n THEN output[last].time
                                  ELSE output[last].time \div 10
  BY DEF parse_solver_time, begins
<1> HIDE DEF last
<1>6. begins # {} /\ ~(last < n)
  BY <1>1, <1>2, <1>4
<1> QED
  BY <1>4, <1>5, <1>6

\* Nothing is found in an empty log.
LEMMA ParsesNothing == parse_solver_time(<<>>) = None
BY DEF parse_solver_time

\* Whatever part of the log arrived, a number is found in it or nothing.
LEMMA ParsesNumber ==
  ASSUME TypeOK, LogEnds, stderr = <<>>
  PROVE  parse_solver_time(captured) \in Nat \cup {None}
<1> DEFINE n == Len(captured)
<1>1. /\ captured \in Seq(Piece) /\ n \in Nat /\ LogLen = n
      /\ \A k \in 1 .. n : Log(k) = captured[k]
  BY DEF TypeOK, LogLen, Log
<1>2. CASE line # None
  <2>1. n >= 1 /\ captured[n] = [time |-> line, part |-> "begin"] /\ line \in Nat
    BY <1>1, <1>2, SizesAssumption DEF LogEnds, TypeOK
  <2>2. parse_solver_time(captured) = line \div 10
    BY <1>1, <2>1, ParsesCutLine
  <2> QED
    BY <2>1, <2>2
<1>3. CASE line = None /\ reports = <<>>
  <2>1. captured = <<>>
    BY <1>1, <1>3 DEF LogEnds
  <2> QED
    BY <2>1, ParsesNothing
<1>4. CASE line = None /\ reports # <<>>
  <2>1. /\ n >= 2
        /\ captured[n] = [time |-> Last(reports), part |-> "end"]
        /\ captured[n - 1] = [time |-> Last(reports), part |-> "begin"]
    BY <1>1, <1>4 DEF LogEnds
  <2>2. Last(reports) \in Nat
    <3>1. Last(reports) \in Times
      BY <1>4 DEF TypeOK, Last
    <3> QED
      BY <3>1, SizesAssumption
  <2>3. parse_solver_time(captured) = captured[n - 1].time
    BY <1>1, <2>1, ParsesLastLine
  <2> QED
    BY <2>1, <2>2, <2>3
<1> QED
  BY <1>2, <1>3, <1>4

\* The program writes a piece: the log grows by it.
LEMMA LogGrows ==
  ASSUME TypeOK, NEW piece \in Piece, stderr' = Append(stderr, piece), captured' = captured
  PROVE  /\ LogLen \in Nat /\ LogLen' = LogLen + 1 /\ Log(LogLen)' = piece
         /\ \A k \in 1 .. LogLen : Log(k)' = Log(k)
<1>1. /\ Len(captured) \in Nat /\ Len(stderr) \in Nat /\ Len(stderr') = Len(stderr) + 1
      /\ stderr'[Len(stderr) + 1] = piece
      /\ \A k \in 1 .. Len(stderr) : stderr'[k] = stderr[k]
  BY DEF TypeOK
<1>2. LogLen \in Nat /\ LogLen' = LogLen + 1
  BY <1>1 DEF LogLen
<1>3. Log(LogLen)' = piece
  <2>1. LogLen' - Len(captured) = Len(stderr) + 1 /\ ~(LogLen' <= Len(captured))
    BY <1>1, <1>2 DEF LogLen
  <2> QED
    BY <1>1, <2>1 DEF Log
<1>4. ASSUME NEW k \in 1 .. LogLen PROVE Log(k)' = Log(k)
  <2>0. k \in Nat /\ k <= Len(captured) + Len(stderr)
    BY <1>1 DEF LogLen
  <2>1. CASE k <= Len(captured)
    BY <2>1 DEF Log
  <2>2. CASE ~(k <= Len(captured))
    <3>1. k - Len(captured) \in 1 .. Len(stderr)
      BY <1>1, <2>0, <2>2
    <3> QED
      BY <1>1, <2>2, <3>1 DEF Log
  <2> QED
    BY <2>1, <2>2
<1> QED
  BY <1>2, <1>3, <1>4

\* The helper reads a piece: the log stays what it is.
LEMMA LogStays ==
  ASSUME TypeOK, stderr # <<>>,
         captured' = Append(captured, Head(stderr)), stderr' = Tail(stderr)
  PROVE  LogLen' = LogLen /\ \A k \in 1 .. LogLen : Log(k)' = Log(k)
<1>1. /\ Len(captured) \in Nat /\ Len(stderr) \in Nat /\ Len(stderr) >= 1
      /\ Len(captured') = Len(captured) + 1 /\ Len(stderr') = Len(stderr) - 1
      /\ captured'[Len(captured) + 1] = stderr[1]
      /\ \A k \in 1 .. Len(captured) : captured'[k] = captured[k]
      /\ \A k \in 1 .. Len(stderr) - 1 : stderr'[k] = stderr[k + 1]
  BY DEF TypeOK
<1>2. LogLen' = LogLen
  BY <1>1 DEF LogLen
<1>3. ASSUME NEW k \in 1 .. LogLen PROVE Log(k)' = Log(k)
  <2>0. k \in Nat /\ k <= Len(captured) + Len(stderr)
    BY <1>1 DEF LogLen
  <2>1. CASE k <= Len(captured)
    BY <1>1, <2>0, <2>1 DEF Log
  <2>2. CASE k = Len(captured) + 1
    BY <1>1, <2>2 DEF Log
  <2>3. CASE k > Len(captured) + 1
    <3>1. /\ k - (Len(captured) + 1) \in 1 .. Len(stderr) - 1
          /\ k - (Len(captured) + 1) + 1 = k - Len(captured)
      BY <1>1, <2>0, <2>3
    <3>2. stderr'[k - (Len(captured) + 1)] = stderr[k - Len(captured)]
      BY <1>1, <3>1
    <3> QED
      BY <1>1, <2>0, <2>3, <3>2 DEF Log
  <2> QED
    BY <1>1, <2>0, <2>1, <2>2, <2>3
<1> QED
  BY <1>2, <1>3

-----------------------------------------------------------------------------
(***************************************************************************)
(* The steps                                                               *)
(***************************************************************************)
\* The log's end does not change if nothing is written and read.
LEMMA LogKept ==
  ASSUME LogEnds, UNCHANGED <<captured, stderr, line, reports>>
  PROVE  LogEnds'
BY DEF LogEnds, LogLen, Log

\* Steps of the helper before it collects the result.
LEMMA PrepareInv ==
  ASSUME IInv, Prepare \/ Write \/ Fail
  PROVE  IInv'
<1>1. UNCHANGED <<use_standard_input, stderr, captured, line, reports, status, output_dir, result>>
  BY DEF Prepare, Write, Fail, program
<1>2. TypeOK'
  <2>1. CASE Prepare
    BY <2>1 DEF IInv, TypeOK, Prepare
  <2>2. CASE Write
    BY <2>2, SizesAssumption DEF IInv, TypeOK, Write, program
  <2>3. CASE Fail
    BY <2>3 DEF IInv, TypeOK, Fail, program
  <2> QED
    BY <2>1, <2>2, <2>3
<1>3. LogEnds'
  BY <1>1, LogKept DEF IInv
<1>4. pc' \notin {"collect", "done"}
  BY DEF Prepare, Write, Fail
<1>5. Drained' /\ TestsComplete' /\ SolverTimeExact'
  BY <1>4 DEF Drained, TestsComplete, SolverTimeExact
<1>6. Ended'
  <2>1. CASE Prepare
    BY <2>1 DEF Prepare, IInv, Ended
  <2>2. CASE Write \/ Fail
    BY <2>2 DEF IInv, Ended, Write, Fail, program
  <2> QED
    BY <2>1, <2>2
<1> QED
  BY <1>2, <1>3, <1>5, <1>6 DEF IInv

\* A step that leaves the program's log where it is and the log's end as it
\* was keeps that part of the invariant.
LEMMA EndsKept ==
  ASSUME LogEnds, LogLen \in Nat, LogLen' = LogLen, \A k \in 1 .. LogLen : Log(k)' = Log(k),
         UNCHANGED <<line, reports>>
  PROVE  LogEnds'
<1>1. LogLen >= 1 => Log(LogLen)' = Log(LogLen)
  <2> SUFFICES ASSUME LogLen >= 1 PROVE Log(LogLen)' = Log(LogLen)
    OBVIOUS
  <2>1. LogLen \in 1 .. LogLen
    OBVIOUS
  <2>2. \A k \in 1 .. LogLen : k = LogLen' => Log(LogLen)' = Log(k)
    OBVIOUS
  <2> QED
    BY <2>1, <2>2
<1>2. LogLen >= 2 => Log(LogLen - 1)' = Log(LogLen - 1)
  <2> SUFFICES ASSUME LogLen >= 2 PROVE Log(LogLen - 1)' = Log(LogLen - 1)
    OBVIOUS
  <2>1. LogLen - 1 \in 1 .. LogLen
    OBVIOUS
  <2>2. \A k \in 1 .. LogLen : k = LogLen' - 1 => Log(LogLen - 1)' = Log(k)
    OBVIOUS
  <2> QED
    BY <2>1, <2>2
<1> QED
  BY <1>1, <1>2 DEF LogEnds

\* Reading standard error, to its end.
LEMMA WaitInv ==
  ASSUME IInv, WaitWithOutput
  PROVE  IInv'
<1>0. TypeOK /\ LogEnds /\ Ended
  BY DEF IInv
<1>1. /\ pc = "wait"
      /\ UNCHANGED <<use_standard_input, unwritten, stdin, child, status, line, reports, output_dir, result>>
  BY DEF WaitWithOutput, program
<1>2. CASE /\ stderr # <<>> /\ captured' = Append(captured, Head(stderr)) /\ stderr' = Tail(stderr)
           /\ pc' = pc
  <2>1. TypeOK'
    <3>1. stderr' \in Seq(Piece) /\ Len(stderr') = Len(stderr) - 1 /\ captured' \in Seq(Piece)
          /\ Len(stderr) \in Nat
      BY <1>0, <1>2 DEF TypeOK
    <3> QED
      BY <1>0, <1>1, <1>2, <3>1, SizesAssumption DEF TypeOK
  <2>2. LogEnds'
    <3>1. LogLen \in Nat
      BY <1>0 DEF TypeOK, LogLen
    <3>2. LogLen' = LogLen /\ \A k \in 1 .. LogLen : Log(k)' = Log(k)
      BY <1>0, <1>2, LogStays
    <3> QED
      BY <1>0, <1>1, <3>1, <3>2, EndsKept
  <2>3. Ended' /\ Drained' /\ TestsComplete' /\ SolverTimeExact'
    BY <1>0, <1>1, <1>2 DEF Ended, Drained, TestsComplete, SolverTimeExact
  <2> QED
    BY <2>1, <2>2, <2>3 DEF IInv
<1>3. CASE /\ stderr = <<>> /\ child = "dead" /\ pc' = "collect" /\ UNCHANGED <<captured, stderr>>
  <2>1. TypeOK'
    BY <1>0, <1>1, <1>3 DEF TypeOK
  <2>2. LogEnds'
    BY <1>0, <1>1, <1>3, LogKept
  <2>3. Ended' /\ Drained' /\ TestsComplete' /\ SolverTimeExact'
    BY <1>0, <1>1, <1>3 DEF Ended, Drained, TestsComplete, SolverTimeExact
  <2> QED
    BY <2>1, <2>2, <2>3 DEF IInv
<1> QED
  BY <1>2, <1>3 DEF WaitWithOutput

\* The result: the log is complete, and was not cut if the program exited.
LEMMA CollectInv ==
  ASSUME IInv, Collect
  PROVE  IInv'
<1>0. TypeOK /\ LogEnds /\ Ended /\ Drained
  BY DEF IInv
<1> DEFINE solver == parse_solver_time(captured)
<1>1. PICK total \in Times :
        result' = [test_cases |-> output_dir,
                   killed |-> status \in {"124", "signal"},
                   time |-> total,
                   solver_time |-> IF solver = None THEN None
                                   ELSE IF solver < total THEN solver ELSE total]
  BY DEF Collect
<1>2. /\ pc = "collect" /\ pc' = "done"
      /\ UNCHANGED <<use_standard_input, unwritten, stdin, stderr, captured, child, status,
                     line, reports, output_dir>>
  BY DEF Collect, program
<1>3. child = "dead" /\ stderr = <<>>
  BY <1>0, <1>2 DEF Drained
<1>4. TypeOK'
  <2>1. solver \in Nat \cup {None}
    BY <1>0, <1>3, ParsesNumber
  <2> HIDE DEF solver
  <2>2. /\ result'.test_cases = output_dir /\ result'.time = total /\ total \in Nat
        /\ result'.solver_time = IF solver = None THEN None
                                 ELSE IF solver < total THEN solver ELSE total
    BY <1>1, SizesAssumption
  <2>3. result'.solver_time \in {None} \cup 0 .. total
    BY <2>1, <2>2
  <2> QED
    BY <1>0, <1>2, <2>2, <2>3 DEF TypeOK
<1>5. LogEnds' /\ Ended' /\ Drained'
  BY <1>0, <1>2, <1>3, LogKept DEF Ended, Drained
<1>6. TestsComplete'
  BY <1>1, <1>2, <1>3 DEF TestsComplete
<1>7. SolverTimeExact'
  <2> SUFFICES ASSUME ~result'.killed
               PROVE  result'.solver_time = IF reports = <<>> THEN None
                                            ELSE IF Last(reports) < total THEN Last(reports)
                                            ELSE total
    BY <1>1, <1>2 DEF SolverTimeExact, Last
  <2>1. status = "exit"
    BY <1>0, <1>1, <1>3 DEF Ended, TypeOK
  <2>2. line = None
    BY <1>0, <2>1 DEF Ended
  <2>3. Len(captured) \in Nat /\ LogLen = Len(captured) /\ \A k \in 1 .. Len(captured) : Log(k) = captured[k]
    BY <1>0, <1>3 DEF LogLen, Log, TypeOK
  <2>4. CASE reports = <<>>
    <3>1. captured = <<>>
      BY <1>0, <2>2, <2>3, <2>4 DEF LogEnds, TypeOK
    <3> QED
      BY <1>1, <2>4, <3>1, ParsesNothing
  <2>5. CASE reports # <<>>
    <3>1. /\ Len(captured) >= 2
          /\ captured[Len(captured)] = [time |-> Last(reports), part |-> "end"]
          /\ captured[Len(captured) - 1] = [time |-> Last(reports), part |-> "begin"]
      BY <1>0, <2>2, <2>3, <2>5 DEF LogEnds
    <3>2. solver = Last(reports)
      <4>1. captured \in Seq(Piece)
        BY <1>0 DEF TypeOK
      <4>2. parse_solver_time(captured) = captured[Len(captured) - 1].time
        BY <3>1, <4>1, ParsesLastLine
      <4> QED
        BY <3>1, <4>2
    <3>3. Last(reports) # None
      <4>1. Last(reports) \in Times
        BY <1>0, <2>5 DEF TypeOK, Last
      <4> QED
        BY <4>1, SizesAssumption
    <3> QED
      BY <1>1, <2>5, <3>2, <3>3
  <2> QED
    BY <2>4, <2>5
<1> QED
  BY <1>4, <1>5, <1>6, <1>7 DEF IInv

\* While the program lives the helper has no result.
LEMMA NoResultYet ==
  ASSUME IInv, Alive
  PROVE  pc \notin {"collect", "done"} /\ status = "none" /\ child # "none"
BY DEF IInv, Drained, Ended, Alive

\* Steps of the program that do not write to the log.
LEMMA SilentInv ==
  ASSUME IInv, ReadInput \/ GenerateTest \/ Exit \/ TimeLimit
  PROVE  IInv'
<1>0. TypeOK /\ LogEnds /\ Ended
  BY DEF IInv
<1>1. /\ Alive
      /\ UNCHANGED <<use_standard_input, pc, unwritten, captured, result, stderr, line, reports>>
  BY DEF ReadInput, GenerateTest, Exit, TimeLimit, Runs, Alive, helper, program
<1>2. pc \notin {"collect", "done"} /\ status = "none" /\ child # "none"
  BY <1>1, NoResultYet
<1>3. TypeOK'
  <2>1. CASE ReadInput
    BY <1>0, <1>1, <2>1, SizesAssumption DEF ReadInput, TypeOK, program
  <2>2. CASE GenerateTest
    BY <1>0, <1>1, <2>2, SizesAssumption DEF GenerateTest, TypeOK
  <2>3. CASE Exit \/ TimeLimit
    BY <1>0, <1>1, <2>3 DEF Exit, TimeLimit, TypeOK
  <2> QED
    BY <2>1, <2>2, <2>3
<1>4. LogEnds'
  BY <1>0, <1>1, LogKept
<1>5. Ended'
  <2>1. pc \notin {"copy", "create_dir", "spawn"}
    BY <1>0, <1>1, <1>2 DEF Ended
  <2>2. /\ child' = "dead" <=> status' # "none"
        /\ status' = "exit" => line = None
    BY <1>0, <1>1, <1>2 DEF ReadInput, GenerateTest, Exit, TimeLimit, program, Alive
  <2> QED
    BY <1>1, <2>1, <2>2 DEF Ended
<1>6. Drained' /\ TestsComplete' /\ SolverTimeExact'
  BY <1>1, <1>2 DEF Drained, TestsComplete, SolverTimeExact
<1> QED
  BY <1>3, <1>4, <1>5, <1>6 DEF IInv

\* The first part of a line.
LEMMA BeginInv ==
  ASSUME IInv, BeginLine
  PROVE  IInv'
<1>0. TypeOK /\ LogEnds /\ Ended
  BY DEF IInv
<1>1. PICK t \in Times : line' = t /\ stderr' = Append(stderr, [time |-> t, part |-> "begin"])
  BY DEF BeginLine
<1>2. /\ Alive /\ Len(stderr) < StderrSize
      /\ UNCHANGED <<use_standard_input, pc, unwritten, captured, result, stdin, child, status,
                     reports, output_dir>>
  BY DEF BeginLine, Runs, helper
<1>3. pc \notin {"collect", "done"} /\ status = "none" /\ child # "none"
  BY <1>2, NoResultYet
<1> DEFINE piece == [time |-> t, part |-> "begin"]
<1>4. piece \in Piece /\ t # None
  BY SizesAssumption DEF Piece
<1>5. LogLen \in Nat /\ LogLen' = LogLen + 1 /\ Log(LogLen)' = piece
  BY <1>0, <1>1, <1>2, <1>4, LogGrows
<1>6. LogEnds'
  <2>1. LogLen' >= 1
    BY <1>5
  <2> QED
    BY <1>1, <1>4, <1>5, <2>1 DEF LogEnds
<1>7. TypeOK'
  <2>1. stderr' \in Seq(Piece) /\ Len(stderr') <= StderrSize
    BY <1>0, <1>1, <1>2, <1>4, SizesAssumption DEF TypeOK
  <2> QED
    BY <1>0, <1>1, <1>2, <2>1 DEF TypeOK
<1>8. Ended' /\ Drained' /\ TestsComplete' /\ SolverTimeExact'
  BY <1>0, <1>2, <1>3 DEF Ended, Drained, TestsComplete, SolverTimeExact
<1> QED
  BY <1>6, <1>7, <1>8 DEF IInv

\* The second part.
LEMMA EndInv ==
  ASSUME IInv, EndLine
  PROVE  IInv'
<1>0. TypeOK /\ LogEnds /\ Ended
  BY DEF IInv
<1> DEFINE piece == [time |-> line, part |-> "end"]
<1>1. /\ line # None /\ line' = None /\ reports' = Append(reports, line)
      /\ stderr' = Append(stderr, piece)
  BY DEF EndLine
<1>2. /\ Alive /\ Len(stderr) < StderrSize
      /\ UNCHANGED <<use_standard_input, pc, unwritten, captured, result, stdin, child, status,
                     output_dir>>
  BY DEF EndLine, Runs, helper
<1>3. pc \notin {"collect", "done"} /\ status = "none" /\ child # "none"
  BY <1>2, NoResultYet
<1>4. piece \in Piece /\ line \in Times
  BY <1>0, <1>1 DEF Piece, TypeOK
<1>5. /\ LogLen \in Nat /\ LogLen' = LogLen + 1 /\ Log(LogLen)' = piece
      /\ \A k \in 1 .. LogLen : Log(k)' = Log(k)
  BY <1>0, <1>1, <1>2, <1>4, LogGrows
<1>6. LogLen >= 1 /\ Log(LogLen) = [time |-> line, part |-> "begin"]
  BY <1>0, <1>1 DEF LogEnds
<1>7. Log(LogLen - 1)' = [time |-> line, part |-> "begin"]
  <2>1. LogLen \in 1 .. LogLen /\ LogLen' - 1 = LogLen
    BY <1>5, <1>6
  <2>2. \A k \in 1 .. LogLen : k = LogLen' - 1 => Log(LogLen - 1)' = Log(k)
    BY <1>5
  <2> QED
    BY <1>6, <2>1, <2>2
<1>8. reports' # <<>> /\ Last(reports') = line /\ reports' \in Seq(Times)
  BY <1>0, <1>1, <1>4 DEF TypeOK, Last
<1>9. LogEnds'
  <2>1. LogLen' >= 2
    BY <1>5, <1>6
  <2>2. Last(reports)' = Last(reports')
    BY DEF Last
  <2> QED
    BY <1>1, <1>5, <1>7, <1>8, <2>1, <2>2 DEF LogEnds
<1>10. TypeOK'
  <2>1. stderr' \in Seq(Piece) /\ Len(stderr') <= StderrSize
    BY <1>0, <1>1, <1>2, <1>4, SizesAssumption DEF TypeOK
  <2> QED
    BY <1>0, <1>1, <1>2, <1>8, <2>1 DEF TypeOK
<1>11. Ended' /\ Drained' /\ TestsComplete' /\ SolverTimeExact'
  BY <1>0, <1>1, <1>2, <1>3 DEF Ended, Drained, TestsComplete, SolverTimeExact
<1> QED
  BY <1>9, <1>10, <1>11 DEF IInv

-----------------------------------------------------------------------------
(***************************************************************************)
(* The theorems                                                            *)
(***************************************************************************)
\* The invariant holds at the start.
LEMMA InitInv == Init => IInv
<1> SUFFICES ASSUME Init PROVE IInv
  OBVIOUS
<1>1. TypeOK
  BY SizesAssumption DEF Init, TypeOK, NoResult
<1>2. LogEnds
  BY DEF Init, LogEnds, LogLen
<1>3. Ended /\ Drained /\ TestsComplete /\ SolverTimeExact
  BY DEF Init, Ended, Drained, TestsComplete, SolverTimeExact
<1> QED
  BY <1>1, <1>2, <1>3 DEF IInv

\* No step breaks it.
LEMMA NextInv == IInv /\ [Next]_vars => IInv'
<1> SUFFICES ASSUME IInv, [Next]_vars PROVE IInv'
  OBVIOUS
<1>1. CASE HelperStep \/ Fail
  BY <1>1, PrepareInv, WaitInv, CollectInv DEF HelperStep
<1>2. CASE ProgramStep \/ TimeLimit
  BY <1>2, SilentInv, BeginInv, EndInv DEF ProgramStep
<1>3. CASE Over \/ UNCHANGED vars
  <2>1. UNCHANGED <<use_standard_input, pc, unwritten, stdin, stderr, captured, child,
                    status, line, reports, output_dir, result>>
    BY <1>3 DEF Over, vars
  <2>2. LogEnds'
    BY <2>1, LogKept DEF IInv
  <2> QED
    BY <2>1, <2>2 DEF IInv, TypeOK, Ended, Drained, TestsComplete, SolverTimeExact, Last
<1> QED
  BY <1>1, <1>2, <1>3 DEF Next

\* The pipes never hold more than their capacity, and the solver time of a
\* result is no longer than its execution, also when a line was cut.
THEOREM AnalysisTypes == Spec => []TypeOK
<1>1. IInv => TypeOK
  BY DEF IInv
<1> QED
  BY InitInv, NextInv, <1>1, PTL DEF Spec

\* A successful analysis returns all test cases of the program.
THEOREM AllTestsReturned == Spec => []TestsComplete
<1>1. IInv => TestsComplete
  BY DEF IInv
<1> QED
  BY InitInv, NextInv, <1>1, PTL DEF Spec

\* The solver time of an execution that was not killed is the last one that
\* the program reported, however its log was cut.
THEOREM LastReportCounts == Spec => []SolverTimeExact
<1>1. IInv => SolverTimeExact
  BY DEF IInv
<1> QED
  BY InitInv, NextInv, <1>1, PTL DEF Spec
=============================================================================
