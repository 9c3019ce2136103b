---------------------------- MODULE DriverProofs ----------------------------
(***************************************************************************)
(* The two programs that run SymCC again and again.                        *)
(*                                                                         *)
(* The fuzzing helper, for any files, test cases and coverage: what it     *)
(* claims as covered AFL can import, every analysed file is counted once,  *)
(* and the queue holds at most one file per bit of coverage.               *)
(*                                                                         *)
(* The script for pure concolic execution, for any files: no test case is  *)
(* dropped when SymCC overwrites its files or the generations change.      *)
(***************************************************************************)
EXTENDS FuzzingHelper, PureConcolic, FiniteSetTheorems, TLAPS

\* The file that is analysed is one of the queue's and was not analysed yet.
Analysing == pc \in {"run", "evaluate"} => input \in Inputs \ processed_files

\* Every file that did not crash the target set a bit that was not set.
Lean == Len(queue) <= Len(crashes) + Cardinality(current_bitmap)

\* The inductive invariant.
IInv == /\ TypeOK /\ Analysing /\ BitmapIsBacked
        /\ IsFiniteSet(processed_files) /\ Accounted /\ Lean

-----------------------------------------------------------------------------
(***************************************************************************)
(* Directories and maps                                                    *)
(***************************************************************************)
Directory(C) == Seq([content : C, src : Inputs])

\* A directory after copy_testcase: one file more, with the test's content.
LEMMA CopyOK ==
  ASSUME NEW C, NEW dir \in Directory(C), NEW t \in C, NEW i \in Inputs
  PROVE  /\ copy_testcase(dir, t, i) \in Directory(C)
         /\ Len(copy_testcase(dir, t, i)) = Len(dir) + 1
         /\ Contents(dir) \subseteq Contents(copy_testcase(dir, t, i))
         /\ t \in Contents(copy_testcase(dir, t, i))
<1> DEFINE file == [content |-> t, src |-> i]
           new == Append(dir, file)
<1>1. file \in [content : C, src : Inputs] /\ file.content = t
  OBVIOUS
<1> HIDE DEF file
<1>2. /\ new \in Directory(C) /\ Len(new) = Len(dir) + 1
      /\ \A k \in 1 .. Len(dir) : new[k] = dir[k]
      /\ new[Len(dir) + 1] = file /\ Len(dir) \in Nat
  BY <1>1 DEF Directory
<1>3. DOMAIN new = 1 .. Len(dir) + 1 /\ DOMAIN dir = 1 .. Len(dir)
  BY <1>2 DEF Directory
<1>4. copy_testcase(dir, t, i) = new
  BY DEF copy_testcase, file
<1> HIDE DEF new
<1>5. RangeOf(dir) \subseteq RangeOf(new)
  BY <1>2, <1>3 DEF RangeOf
<1>6. file \in RangeOf(new)
  <2>1. Len(dir) + 1 \in DOMAIN new
    BY <1>2, <1>3
  <2> QED
    BY <1>2, <2>1 DEF RangeOf
<1>7. Contents(dir) \subseteq Contents(new) /\ t \in Contents(new)
  BY <1>1, <1>5, <1>6 DEF Contents
<1> QED
  BY <1>2, <1>4, <1>7

\* Maps are finite, and a map that adds something has more bits.
LEMMA MapsGrow ==
  ASSUME NEW old \in SUBSET Bits, NEW other \in SUBSET Bits
  PROVE  /\ Cardinality(old) \in Nat /\ Cardinality(old \cup other) \in Nat
         /\ Cardinality(old) <= Cardinality(old \cup other)
         /\ ~(other \subseteq old) => Cardinality(old) < Cardinality(old \cup other)
         /\ Cardinality(old) <= Cardinality(Bits) /\ Cardinality(Bits) \in Nat
<1>1. IsFiniteSet(old) /\ IsFiniteSet(old \cup other) /\ IsFiniteSet(Bits)
      /\ Cardinality(old) <= Cardinality(Bits)
  <2>1. old \cup other \in SUBSET Bits
    OBVIOUS
  <2> QED
    BY <2>1, BitsAssumption, FS_Subset
<1>2. /\ Cardinality(old) <= Cardinality(old \cup other)
      /\ Cardinality(old \cup other) = Cardinality(old) => old \cup other = old
  <2>1. old \in SUBSET (old \cup other)
    OBVIOUS
  <2> QED
    BY <1>1, <2>1, FS_Subset
<1>3. Cardinality(old) \in Nat /\ Cardinality(old \cup other) \in Nat /\ Cardinality(Bits) \in Nat
  BY <1>1, FS_CardinalityType
<1>4. ~(other \subseteq old) => old \cup other # old
  OBVIOUS
<1> QED
  BY <1>1, <1>2, <1>3, <1>4

\* The invariant implies that the queue is minimal.
LEMMA LeanIsMinimal == IInv => QueueIsMinimal
<1> SUFFICES ASSUME IInv PROVE QueueIsMinimal
  OBVIOUS
<1>1. /\ Cardinality(current_bitmap) \in Nat /\ Cardinality(Bits) \in Nat
      /\ Cardinality(current_bitmap) <= Cardinality(Bits)
  <2>1. current_bitmap \in SUBSET Bits
    BY DEF IInv, TypeOK
  <2> QED
    BY <2>1, MapsGrow
<1>2. Len(queue) \in Nat /\ Len(crashes) \in Nat
  BY DEF IInv, TypeOK
<1> QED
  BY <1>1, <1>2 DEF IInv, Lean, QueueIsMinimal

-----------------------------------------------------------------------------
(***************************************************************************)
(* The steps                                                               *)
(***************************************************************************)
\* What leaves State and Stats alone keeps the invariant.
LEMMA Untouched ==
  ASSUME IInv, TypeOK', Analysing', pc = "stopped" => pc' = "stopped",
         UNCHANGED <<current_bitmap, processed_files, queue, hangs, crashes, stats>>
  PROVE  IInv'
<1>1. BitmapIsBacked'
  BY DEF IInv, BitmapIsBacked, Contents, RangeOf
<1>2. Accounted' /\ Lean' /\ IsFiniteSet(processed_files)'
  BY DEF IInv, Accounted, Lean
<1> QED
  BY <1>1, <1>2 DEF IInv

\* AFL's changes do not concern the helper.
LEMMA AflInv == IInv /\ Afl => IInv'
<1> SUFFICES ASSUME IInv, NEW i \in Inputs, AflAdds(i) \/ AflRemoves(i)
             PROVE  IInv'
  BY DEF Afl
<1>1. /\ UNCHANGED <<pc, input, todo, status, current_bitmap, processed_files,
                     queue, hangs, crashes, stats>>
      /\ afl_queue' \subseteq afl_queue \cup {i}
  BY DEF AflAdds, AflRemoves
<1>2. TypeOK' /\ Analysing'
  BY <1>1 DEF IInv, TypeOK, Analysing
<1> QED
  BY <1>1, <1>2, Untouched

\* The next file, its analysis, and the failures of both.
LEMMA ScheduleInv ==
  ASSUME IInv,
         \/ \E i \in Inputs : Pick(i)
         \/ Sleep
         \/ \E new_tests \in SUBSET Tests, s \in Statuses : Run(new_tests, s)
         \/ FailScan
         \/ FailRun
         \/ FailArchive
         \/ \E t \in Tests : Hang(t)
  PROVE  IInv'
<1>1. UNCHANGED <<current_bitmap, processed_files, queue, hangs, crashes, stats>>
  BY DEF Pick, Sleep, Run, FailScan, FailRun, FailArchive, Hang, vars
<1>2. TypeOK' /\ Analysing'
  <2>1. ASSUME NEW i \in Inputs, Pick(i) PROVE TypeOK' /\ Analysing'
    BY <2>1 DEF IInv, TypeOK, Analysing, Pick, best_new_testcase
  <2>2. CASE Sleep
    BY <2>2 DEF IInv, TypeOK, Analysing, Sleep, vars
  <2>3. ASSUME NEW new_tests \in SUBSET Tests, NEW s \in Statuses, Run(new_tests, s)
        PROVE  TypeOK' /\ Analysing'
    BY <2>3 DEF IInv, TypeOK, Analysing, Run
  <2>4. CASE FailScan \/ FailRun \/ FailArchive
    BY <2>4 DEF IInv, TypeOK, Analysing, FailScan, FailRun, FailArchive
  <2>5. ASSUME NEW t \in Tests, Hang(t) PROVE TypeOK' /\ Analysing'
    BY <2>5 DEF IInv, TypeOK, Analysing, Hang, Evaluating
  <2> QED
    BY <2>1, <2>2, <2>3, <2>4, <2>5
<1>3. pc = "stopped" => pc' = "stopped"
  BY DEF Pick, Sleep, Run, FailScan, FailRun, FailArchive, Hang, Evaluating, vars
<1> QED
  BY <1>1, <1>2, <1>3, Untouched

\* A test case that runs is filed if it adds to the map, and only then.
LEMMA SuccessInv ==
  ASSUME IInv, NEW t \in Tests, Success(t)
  PROVE  IInv'
<1>0. TypeOK /\ Analysing /\ BitmapIsBacked /\ Accounted /\ Lean /\ IsFiniteSet(processed_files)
  BY DEF IInv
<1> DEFINE cov == Coverage[t]
           copy == copy_testcase(queue, t, input)
<1>1. /\ pc = "evaluate" /\ t \in todo /\ todo' = todo \ {t}
      /\ current_bitmap' = current_bitmap \cup cov
      /\ queue' = IF cov \subseteq current_bitmap THEN queue ELSE copy
      /\ UNCHANGED <<afl_queue, pc, input, status, processed_files, hangs, crashes, stats>>
  BY DEF Success, Evaluating, merge
<1>2. cov \in SUBSET Bits /\ input \in Inputs /\ current_bitmap \in SUBSET Bits
  BY <1>0, <1>1, CoverageAssumption DEF TypeOK, Analysing, Directory
<1>3. /\ copy \in Directory(Tests) /\ Len(copy) = Len(queue) + 1
      /\ Contents(queue) \subseteq Contents(copy) /\ t \in Contents(copy)
  <2>1. queue \in Directory(Tests)
    BY <1>0 DEF TypeOK, Directory
  <2> QED
    BY <1>2, <2>1, CopyOK
<1>4. /\ Cardinality(current_bitmap) \in Nat /\ Cardinality(current_bitmap') \in Nat
      /\ Cardinality(current_bitmap) <= Cardinality(current_bitmap')
      /\ ~(cov \subseteq current_bitmap) => Cardinality(current_bitmap) < Cardinality(current_bitmap')
  BY <1>1, <1>2, MapsGrow
<1> HIDE DEF copy
<1>5. TypeOK' /\ Analysing'
  BY <1>0, <1>1, <1>2, <1>3 DEF TypeOK, Analysing, Directory
<1>6. BitmapIsBacked'
  <2> SUFFICES ASSUME NEW b \in current_bitmap'
               PROVE  \E u \in Contents(queue') : b \in Coverage[u]
    BY DEF BitmapIsBacked, Contents, RangeOf
  <2>1. CASE b \in current_bitmap
    <3>1. PICK u \in Contents(queue) : b \in Coverage[u]
      BY <1>0, <1>1, <2>1 DEF BitmapIsBacked
    <3>2. u \in Contents(queue')
      BY <1>1, <1>3
    <3> QED
      BY <3>1, <3>2
  <2>2. CASE b \notin current_bitmap
    BY <1>1, <1>3, <2>2
  <2> QED
    BY <2>1, <2>2
<1>7. Lean'
  <2>1. Len(queue) \in Nat /\ Len(crashes) \in Nat /\ crashes' = crashes
    BY <1>0, <1>1 DEF TypeOK
  <2>2. Len(queue') = Len(queue) \/ (~(cov \subseteq current_bitmap) /\ Len(queue') = Len(queue) + 1)
    BY <1>1, <1>3
  <2> HIDE DEF cov
  <2> QED
    BY <1>0, <1>4, <2>1, <2>2 DEF Lean
<1>8. Accounted' /\ IsFiniteSet(processed_files)'
  BY <1>0, <1>1 DEF Accounted
<1> QED
  BY <1>5, <1>6, <1>7, <1>8 DEF IInv

\* A test case that crashes the target is filed in two directories.
LEMMA CrashInv ==
  ASSUME IInv, NEW t \in Tests, Crash(t)
  PROVE  IInv'
<1>0. TypeOK /\ Analysing /\ BitmapIsBacked /\ Accounted /\ Lean /\ IsFiniteSet(processed_files)
  BY DEF IInv
<1>1. /\ pc = "evaluate" /\ t \in todo /\ todo' = todo \ {t}
      /\ crashes' = copy_testcase(crashes, t, input) /\ queue' = copy_testcase(queue, t, input)
      /\ UNCHANGED <<afl_queue, pc, input, status, current_bitmap, processed_files, hangs, stats>>
  BY DEF Crash, Evaluating
<1>2. input \in Inputs /\ current_bitmap \in SUBSET Bits
  BY <1>0, <1>1 DEF TypeOK, Analysing, Directory
<1>3. /\ queue' \in Directory(Tests) /\ Len(queue') = Len(queue) + 1
      /\ crashes' \in Directory(Tests) /\ Len(crashes') = Len(crashes) + 1
      /\ Contents(queue) \subseteq Contents(queue')
  <2>1. queue \in Directory(Tests) /\ crashes \in Directory(Tests)
    BY <1>0 DEF TypeOK, Directory
  <2> QED
    BY <1>1, <1>2, <2>1, CopyOK
<1>4. TypeOK' /\ Analysing'
  BY <1>0, <1>1, <1>3 DEF TypeOK, Analysing, Directory
<1>5. BitmapIsBacked'
  <2>1. Contents(queue)' = Contents(queue')
    BY DEF Contents, RangeOf
  <2> QED
    BY <1>0, <1>1, <1>3, <2>1 DEF BitmapIsBacked
<1>6. Lean'
  <2>1. Len(queue) \in Nat /\ Len(crashes) \in Nat /\ Cardinality(current_bitmap) \in Nat
    BY <1>0, <1>2, MapsGrow DEF TypeOK
  <2> QED
    BY <1>0, <1>1, <1>3, <2>1 DEF Lean
<1>7. Accounted' /\ IsFiniteSet(processed_files)'
  BY <1>0, <1>1 DEF Accounted
<1> QED
  BY <1>4, <1>5, <1>6, <1>7 DEF IInv

\* The end of an analysis: one more file, counted in one of two places.
LEMMA FinishInv ==
  ASSUME IInv, Finish
  PROVE  IInv'
<1>0. TypeOK /\ Analysing /\ BitmapIsBacked /\ Accounted /\ Lean /\ IsFiniteSet(processed_files)
  BY DEF IInv
<1>1. /\ pc = "evaluate" /\ pc' = "scan" /\ input' = None
      /\ hangs' = IF Killed(status) THEN copy_testcase(hangs, input, input) ELSE hangs
      /\ processed_files' = processed_files \cup {input}
      /\ stats' = IF Killed(status) THEN [stats EXCEPT !.failed_count = @ + 1]
                                    ELSE [stats EXCEPT !.total_count = @ + 1]
      /\ UNCHANGED <<afl_queue, todo, status, current_bitmap, queue, crashes>>
  BY DEF Finish, add_execution
<1>2. input \in Inputs \ processed_files
  BY <1>0, <1>1 DEF Analysing
<1>3. /\ copy_testcase(hangs, input, input) \in Directory(Inputs)
      /\ Len(copy_testcase(hangs, input, input)) = Len(hangs) + 1 /\ Len(hangs) \in Nat
  <2>1. hangs \in Directory(Inputs)
    BY <1>0 DEF TypeOK, Directory
  <2>2. Len(hangs) \in Nat
    BY <2>1 DEF Directory
  <2> QED
    BY <1>2, <2>1, <2>2, CopyOK
<1>4. /\ stats \in [total_count : Nat, failed_count : Nat]
      /\ stats' \in [total_count : Nat, failed_count : Nat]
      /\ Killed(status) => stats'.failed_count = stats.failed_count + 1
                           /\ stats'.total_count = stats.total_count
      /\ ~Killed(status) => stats'.total_count = stats.total_count + 1
                            /\ stats'.failed_count = stats.failed_count
  <2>1. stats \in [total_count : Nat, failed_count : Nat]
    BY <1>0 DEF TypeOK
  <2>2. CASE Killed(status)
    BY <1>1, <2>1, <2>2
  <2>3. CASE ~Killed(status)
    BY <1>1, <2>1, <2>3
  <2> QED
    BY <2>1, <2>2, <2>3
<1>5. TypeOK' /\ Analysing'
  BY <1>0, <1>1, <1>2, <1>3, <1>4 DEF TypeOK, Analysing, Directory
<1>6. /\ IsFiniteSet(processed_files') /\ Cardinality(processed_files) \in Nat
      /\ Cardinality(processed_files') = Cardinality(processed_files) + 1
  BY <1>0, <1>1, <1>2, FS_AddElement, FS_CardinalityType
<1>7. Accounted'
  <2>1. stats.total_count \in Nat /\ stats.failed_count \in Nat
    BY <1>4
  <2>2. stats'.total_count + stats'.failed_count = Cardinality(processed_files')
    BY <1>0, <1>4, <1>6, <2>1 DEF Accounted
  <2>3. stats'.failed_count = Len(hangs')
    BY <1>0, <1>1, <1>3, <1>4 DEF Accounted
  <2> QED
    BY <2>2, <2>3 DEF Accounted
<1>8. BitmapIsBacked' /\ Lean'
  BY <1>0, <1>1 DEF BitmapIsBacked, Contents, RangeOf, Lean
<1> QED
  BY <1>5, <1>6, <1>7, <1>8 DEF IInv

\* A failure during evaluation may leave coverage that no file backs, but
\* nothing runs then that would rely on it.
LEMMA FailEvaluateInv ==
  ASSUME IInv, NEW t \in Tests, FailEvaluate(t)
  PROVE  IInv'
<1>0. TypeOK /\ Analysing /\ BitmapIsBacked /\ Accounted /\ Lean /\ IsFiniteSet(processed_files)
  BY DEF IInv
<1>1. /\ pc = "evaluate" /\ todo' = todo \ {t} /\ pc' = "stopped"
      /\ UNCHANGED <<afl_queue, input, status, processed_files, queue, hangs, stats>>
  BY DEF FailEvaluate, Evaluating
<1>2. /\ current_bitmap' = current_bitmap \/ current_bitmap' = current_bitmap \cup Coverage[t]
      /\ crashes' = crashes \/ crashes' = copy_testcase(crashes, t, input)
  BY DEF FailEvaluate, merge
<1>3. input \in Inputs /\ current_bitmap \in SUBSET Bits /\ Coverage[t] \in SUBSET Bits
  BY <1>0, <1>1, CoverageAssumption DEF TypeOK, Analysing, Directory
<1>4. /\ crashes' \in Directory(Tests) /\ Len(crashes) \in Nat
      /\ Len(crashes') = Len(crashes) \/ Len(crashes') = Len(crashes) + 1
  <2>1. crashes \in Directory(Tests)
    BY <1>0 DEF TypeOK, Directory
  <2>2. Len(crashes) \in Nat
    BY <2>1 DEF Directory
  <2> QED
    BY <1>2, <1>3, <2>1, <2>2, CopyOK
<1>5. /\ Cardinality(current_bitmap) \in Nat /\ Cardinality(current_bitmap') \in Nat
      /\ Cardinality(current_bitmap) <= Cardinality(current_bitmap')
  BY <1>2, <1>3, MapsGrow
<1>6. TypeOK' /\ Analysing'
  BY <1>0, <1>1, <1>2, <1>3, <1>4 DEF TypeOK, Analysing, Directory
<1>7. Lean'
  <2>1. Len(queue) \in Nat /\ queue' = queue
    BY <1>0, <1>1 DEF TypeOK
  <2> QED
    BY <1>0, <1>4, <1>5, <2>1 DEF Lean
<1>8. BitmapIsBacked' /\ Accounted' /\ IsFiniteSet(processed_files)'
  BY <1>0, <1>1 DEF BitmapIsBacked, Accounted
<1> QED
  BY <1>6, <1>7, <1>8 DEF IInv

-----------------------------------------------------------------------------
(***************************************************************************)
(* The theorems                                                            *)
(***************************************************************************)
\* The invariant holds at the start.
LEMMA InitInv == Init => IInv
<1> SUFFICES ASSUME Init PROVE IInv
  OBVIOUS
<1>1. TypeOK /\ Analysing
  BY DEF Init, TypeOK, Analysing, Statuses
<1>2. BitmapIsBacked
  BY DEF Init, BitmapIsBacked
<1>3. Cardinality({}) = 0 /\ IsFiniteSet({})
  BY FS_EmptySet
<1>4. Accounted /\ Lean /\ IsFiniteSet(processed_files)
  BY <1>3 DEF Init, Accounted, Lean
<1> QED
  BY <1>1, <1>2, <1>4 DEF IInv

\* No step breaks it.
LEMMA NextInv == IInv /\ [Next]_vars => IInv'
<1> SUFFICES ASSUME IInv, [Next]_vars PROVE IInv'
  OBVIOUS
<1>1. CASE Afl
  BY <1>1, AflInv
<1>2. CASE Helper
  <2>1. ASSUME NEW t \in Tests, Success(t) PROVE IInv'
    BY <2>1, SuccessInv
  <2>2. ASSUME NEW t \in Tests, Crash(t) PROVE IInv'
    BY <2>2, CrashInv
  <2>3. CASE Finish
    BY <2>3, FinishInv
  <2> QED
    BY <1>2, <2>1, <2>2, <2>3, ScheduleInv DEF Helper
<1>3. CASE Fail
  <2>1. ASSUME NEW t \in Tests, FailEvaluate(t) PROVE IInv'
    BY <2>1, FailEvaluateInv
  <2> QED
    BY <1>3, <2>1, ScheduleInv DEF Fail
<1>4. CASE UNCHANGED vars
  BY <1>4, Untouched DEF IInv, TypeOK, Analysing, vars
<1> QED
  BY <1>1, <1>2, <1>3, <1>4 DEF Next

\* The helper's state has its types.
THEOREM HelperTypes == Spec => []TypeOK
<1>1. IInv => TypeOK
  BY DEF IInv
<1> QED
  BY InitInv, NextInv, <1>1, PTL DEF Spec

\* While the helper runs, AFL can import a test case for every bit that the
\* helper takes as covered.
THEOREM CoverageIsBacked == Spec => []BitmapIsBacked
<1>1. IInv => BitmapIsBacked
  BY DEF IInv
<1> QED
  BY InitInv, NextInv, <1>1, PTL DEF Spec

\* Every analysed file is counted exactly once, as a success or as a failure.
THEOREM FilesAccounted == Spec => []Accounted
<1>1. IInv => Accounted
  BY DEF IInv
<1> QED
  BY InitInv, NextInv, <1>1, PTL DEF Spec

\* The queue never holds more files than crashes and bits of coverage.
THEOREM QueueStaysMinimal == Spec => []QueueIsMinimal
BY InitInv, NextInv, LeanIsMinimal, PTL DEF Spec
-----------------------------------------------------------------------------
(***************************************************************************)
(* The script for pure concolic execution                                  *)
(***************************************************************************)
\* The inductive invariant: between two generations no file is left to run.
ScriptIInv == ScriptTypeOK /\ NothingDropped /\ (phase # "run" => cur = {})

\* The orders of the test cases of an execution are sequences of them.
LEMMA OrdersAreSequences ==
  ASSUME NEW f \in Names, NEW S \in SUBSET Gen[f], NEW new \in Orders(S)
  PROVE  new \in Seq(Generated) /\ Range(new) = S
<1>1. Gen[f] \in SUBSET Generated /\ IsFiniteSet(Gen[f])
  BY GenAssumption, FiniteAssumption
<1>2. Cardinality(S) \in Nat
  BY <1>1, FS_Subset, FS_CardinalityType
<1>3. new \in [1 .. Cardinality(S) -> Generated]
  BY <1>1 DEF Orders
<1> QED
  BY <1>2, <1>3 DEF Orders

\* symcc_out after an execution: it holds the new files, and of the old ones
\* some.
LEMMA OverwrittenOK ==
  ASSUME NEW old \in Seq(Generated), NEW new \in Seq(Generated)
  PROVE  /\ Overwritten(old, new) \in Seq(Generated)
         /\ Range(new) \subseteq Range(Overwritten(old, new))
         /\ Range(Overwritten(old, new)) \subseteq Generated
<1> DEFINE rest == SubSeq(old, Len(new) + 1, Len(old))
           all == new \o rest
<1>1. rest \in Seq(Generated)
  <2>1. \A k \in Len(new) + 1 .. Len(old) : old[k] \in Generated
    OBVIOUS
  <2> QED
    BY <2>1
<1> HIDE DEF rest
<1>2. /\ all \in Seq(Generated) /\ Len(all) = Len(new) + Len(rest)
      /\ \A k \in 1 .. Len(new) : all[k] = new[k]
  BY <1>1
<1>3. /\ DOMAIN new = 1 .. Len(new) /\ DOMAIN all = 1 .. Len(new) + Len(rest)
      /\ Len(new) \in Nat /\ Len(rest) \in Nat
  BY <1>1, <1>2
<1>4. Overwritten(old, new) = all
  BY DEF Overwritten, rest
<1> HIDE DEF all
<1>5. Range(new) \subseteq Range(all)
  BY <1>2, <1>3 DEF Range
<1>6. Range(all) \subseteq Generated
  BY <1>2 DEF Range
<1> QED
  BY <1>2, <1>4, <1>5, <1>6

\* An execution keeps the invariant: whatever SymCC writes and whatever it
\* overwrites, the new files are copied before the next execution.
LEMMA RunOnOK ==
  ASSUME ScriptIInv, NEW f \in cur, NEW S \in SUBSET Gen[f], NEW new \in Orders(S),
         RunOn(f, new)
  PROVE  ScriptIInv'
<1>1. f \in Names
  BY DEF ScriptIInv, ScriptTypeOK
<1>2. new \in Seq(Generated)
  BY <1>1, OrdersAreSequences
<1>3. /\ symcc_out' \in Seq(Generated) /\ Range(new) \subseteq Range(symcc_out')
      /\ Range(symcc_out') \subseteq Generated
  BY <1>2, OverwrittenOK DEF ScriptIInv, ScriptTypeOK, RunOn
<1>4. ScriptTypeOK'
  BY <1>1, <1>3 DEF ScriptIInv, ScriptTypeOK, RunOn, Names
<1>5. NothingDropped'
  BY <1>3 DEF ScriptIInv, NothingDropped, RunOn
<1>6. (phase # "run" => cur = {})'
  BY DEF RunOn
<1> QED
  BY <1>4, <1>5, <1>6 DEF ScriptIInv

\* Every step of the script and of its surroundings keeps the invariant.
LEMMA ScriptStep == ScriptIInv /\ [ScriptNext]_scriptVars => ScriptIInv'
<1> SUFFICES ASSUME ScriptIInv, [ScriptNext]_scriptVars PROVE ScriptIInv'
  OBVIOUS
<1>1. CASE UNCHANGED scriptVars
  BY <1>1 DEF ScriptIInv, ScriptTypeOK, NothingDropped, scriptVars
<1>2. CASE NewGeneration
  <2>1. maybe_import \subseteq Names /\ next \subseteq maybe_import
    BY DEF maybe_import, Names, ScriptIInv, ScriptTypeOK
  <2>2. ScriptTypeOK'
    BY <1>2, <2>1 DEF NewGeneration, ScriptIInv, ScriptTypeOK
  <2>3. NothingDropped'
    BY <1>2, <2>1 DEF NewGeneration, ScriptIInv, NothingDropped
  <2>4. (phase # "run" => cur = {})'
    BY <1>2 DEF NewGeneration
  <2> QED
    BY <2>2, <2>3, <2>4 DEF ScriptIInv
<1>3. CASE \E f \in cur : \E S \in SUBSET Gen[f] : \E new \in Orders(S) : RunOn(f, new)
  BY <1>3, RunOnOK
<1>4. CASE Wait
  BY <1>4 DEF Wait, ScriptIInv, ScriptTypeOK, NothingDropped
<1>5. ASSUME NEW f \in Given, AddInput(f) PROVE ScriptIInv'
  BY <1>5 DEF AddInput, ScriptIInv, ScriptTypeOK, NothingDropped
<1> QED
  BY <1>1, <1>2, <1>3, <1>4, <1>5 DEF ScriptNext, Script

\* The invariant holds of the script.
LEMMA ScriptInvariant == ScriptSpec => []ScriptIInv
<1>1. ScriptInit => ScriptIInv
  BY DEF ScriptInit, ScriptIInv, ScriptTypeOK, NothingDropped
<1> QED
  BY <1>1, ScriptStep, PTL DEF ScriptSpec

\* Types of the script's directories, for any files and whatever SymCC derives
\* from them: the next generation holds generated test cases only, the given
\* files are imported by name.
THEOREM DirectoriesKeepTypes == ScriptSpec => []ScriptTypeOK
<1>1. ScriptIInv => ScriptTypeOK
  BY DEF ScriptIInv
<1> QED
  BY <1>1, ScriptInvariant, PTL

\* However SymCC reuses the names of its files from one execution to the next
\* and whenever others add inputs, add_to_next_generation and maybe_export
\* save every test case before it can be overwritten: it is exported, and it
\* has been analysed or belongs to the current or the next generation.
THEOREM NoTestDropped == ScriptSpec => []NothingDropped
<1>1. ScriptIInv => NothingDropped
  BY DEF ScriptIInv
<1> QED
  BY <1>1, ScriptInvariant, PTL
=============================================================================
