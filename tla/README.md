# A TLA+ model of SymCC (with the sanitizer extension)

SymCC compiles concolic execution into a program: a compiler pass inserts code
that builds a symbolic expression next to every value that depends on the
input, a run-time library keeps those expressions and hands branch conditions
to a solver backend, and two drivers run the instrumented program in a loop.
The modules here model the parts of the system where state outlives a single
instruction, check them with TLC on small instances and prove the central
results with TLAPS for every instance.

All paths below are relative to `src/`. `PROJECT.json` maps every definition to
the lines it models.

## 1. Inventory

| component | state | operations | hard because | correct if |
|---|---|---|---|---|
| shadow memory (`runtime/Shadow.h`, `RuntimeCommon.cpp`) | `g_shadow_pages`, iterators with a cached page pointer | load, store, memcpy, memmove, memset, make_symbolic | copies read through pointers that were cached before their own writes allocated pages; overlap; page boundaries; byte order | it behaves like a flat map from addresses to expressions, each evaluating to its byte |
| libc wrappers (`runtime/LibcWrappers.cpp`) | `inputFileDescriptor`, `inputOffset` | open, read, fread, fgets, seeks, getc, ungetc, mmap and memory functions | they duplicate state that the C library owns: descriptors are reused, reads are short, streams reach their end | a byte is labelled with the offset it came from |
| call protocol (`compiler/Symbolizer.cpp`, `RuntimeCommon.cpp`) | global parameter and return slots | call, return, exception, callback | either side may be uninstrumented | a function gets the expressions of its own arguments and results |
| intrinsics and aggregates (`RuntimeCommon.cpp`, `Symbolizer.cpp`) | expressions | saturating and overflow arithmetic, shifts, insert, extract, byte swap | numeric limits, endianness, padding | the expression evaluates to what the instruction computes |
| concreteness checks (`Symbolizer.cpp`) | `symbolicExpressions`, `expressionUses`, PHI nodes | visit, finalizePHINodes, shortCircuitExpressionUses | loops: PHI inputs are visited late; what is pruned at compile time decides what exists at run time | no symbolic value is lost, no null reaches the library |
| fuzzing helper (`util/symcc_fuzzing_helper`) | coverage bitmap, processed files, queue, hangs, crashes, statistics | select, run, evaluate, archive | AFL changes its queue concurrently; every external program may fail, hang or be killed | claimed coverage is backed by files; a file waits only behind better ones |
| concolic script (`util/pure_concolic_execution.sh`) | directories next, cur, symcc_out, list of analysed names | import, run, export, wait | SymCC overwrites its output; files appear at any time | nothing is dropped, everything is analysed |
| path constraints (`Symbolizer.cpp`, `LibcWrappers.cpp`, `simple_backend/Runtime.cpp`) | the solver's assertions, the variables of the input bytes, settings (`Config.cpp`) | initialize, read, branch, select, switch, load, store, memcmp, bcmp, strchr, malloc, calloc, memset | one missing or left-over constraint makes every later test case wrong; the solver may give up | the execution satisfies its constraints, and every input that does takes the same path |
| conversions, addresses, comparisons (`Symbolizer.cpp`, `simple_backend/Runtime.cpp`) | expressions | truncation, extension, getelementptr, fcmp, concrete structures | widths, signs, NaN | the expression evaluates to what the instruction computes |
| QSYM backend, garbage collection, sanitizer interface (`runtime/qsym_backend/Runtime.cpp`, `GarbageCollection.cpp`) | allocated expressions, known input bytes, delayed address constraints, exact dependencies | build, insert, verify, collect garbage | queued pointers outlive a collection; memory is used again; the order of a hash table | pointers stay good, the solver knows the bytes that expressions depend on |
| one execution by the helper (`symcc.rs`, `SymCC::run`) | two pipes, the child, the log | prepare, write, wait, collect, time limit | the pipes are bounded; the child ends at any time | it returns, with all test cases and the right solver time |
| compiler driver, floating-point arithmetic, tests, build | none | | | not modelled |

The compiler pass decides which run-time calls a program makes; the calls read
and write shadow memory and the call slots; the libc wrappers write shadow
memory and label it with input offsets; branch conditions go to the backend,
whose test cases the helper or the script feeds to the next execution.

## 2. Modules

| module | models |
|---|---|
| `ConcolicMemory` | abstract specification: a flat memory of values and optional expressions |
| `ShadowMemory` | pages, iterators and loops of the shadow memory, one iterator step per action |
| `LibcInput` | how the libc wrappers follow the input file |
| `CallProtocol` | expressions across calls |
| `BitVectors` | the builders of `RuntimeCommon.cpp` as operators on bit vectors |
| `Instructions` | the expressions of conversions, address computations, comparisons and concrete structures |
| `Intrinsics` | instrumented programs that use both |
| `SimpleBackend` | configuration, input variables and path constraints of the simple backend |
| `PathConditions` | instrumented programs composed with that backend |
| `ExpressionPool` | the expressions of the QSYM backend, its collector and the sanitizer interface |
| `ShortCircuit` | the compiler pass and the run time of the code it generates |
| `FuzzingHelper` | the helper beside AFL |
| `SymCCRun` | one execution of SymCC by the helper |
| `PureConcolic` | the script |
| `MC...` | the instances for TLC |
| `ShadowMemoryProofs`, `LibcInputProofs`, `IntrinsicsProofs`, `PathConditionsProofs`, `ExpressionPoolProofs`, `SymCCRunProofs` | theorems about the module of that name |
| `CompilerProofs` | theorems about `CallProtocol` and `ShortCircuit`, the code that the pass inserts |
| `DriverProofs` | theorems about `FuzzingHelper` and `PureConcolic`, the programs that run SymCC in a loop |

### ShadowMemory

`mem` is the program's memory and `g_shadow_pages` the partial map from page
addresses to pages. An expression is an uninterpreted element of `Expr`;
`Val[e]` is what it evaluates to under the current input, so that "the
expression describes the byte" can be said without modelling expressions.
A call (`Memcpy`, `Memmove`, `Memset`, `Bzero`, `Strncpy`, `Store`, input
reads) changes `mem` at once and sets `op` to the loop over the shadow that the
code runs (`std::copy`, `std::copy_backward`, `std::fill`, ...); the `...Step`
actions are single iterations with the iterators' cached pointers in the state.
C++ leaves the evaluation order of `src.begin()` and `dest.begin()` open; both
are allowed. `Load` is one step since a reading walk meets no new pages.

### LibcInput

Every byte that a call delivers carries two independent records: the offset of
the input it really came from, written by the model of the C library, and the
label that the wrapper gave it. The program makes any calls in any order on any
files: it opens the input several times, closes it and lets another file get
its number, opens files whose path matches too, reads bytes of three kinds
(characters, newlines, NUL), pushes back characters it has read and others,
also at the beginning of a file, where the wrappers' `uint64_t` wraps
(`Wrap`). `last` is the number that a matching path was last opened under, and
`Watched` says that the input is still open under it. `lost` is set by the four
calls that the wrappers cannot follow and reset by a seek, a rewind or opening
the file again; the properties speak of the time in which it is not set, and
section 4 says what happens otherwise. Two restrictions are on the C library's
side: a descriptor is used through stdio or through read and lseek, not both,
with the position that ftell or lseek reports, and one character can be pushed
back, which is what the C standard guarantees.

### CallProtocol

A stack of frames, instrumented or not, each working on one value with the
expression the inserted code has for it. The one parameter slot stands for the
256 of the code; they are independent. In `CallSpec` an uninstrumented
function calls nothing; `CallbackSpec` adds calls from
uninstrumented into instrumented code.

### BitVectors, Instructions and Intrinsics

The theory of bit vectors is stated (external), the builders are translated
on top of it, and `Intrinsics` compares their results with LLVM's semantics.
A Boolean is of a sort of its own, as in the simple backend. A failed
assertion and a rejected solver call, such as an equality between a Boolean and
a bit vector, yield `Malformed`. A byte has 2
bits and an integer or a pointer 4: two bytes per integer make byte order
visible, and all operands are enumerated. The host's `uint64_t` is `WordBits`
wide; its overflowing shift is a nondeterministic choice. Of a floating-point
number only its order and whether it is a number are kept. The constants
`Scalar`, `Overflow`, `Inserted`, `Seconds`, `Narrow` and `Predicates` choose the operations and
operands the program uses; `SoundTarget` and `SoundProgram` say for which
choices the builders are right, and section 4 what happens beyond them.

### SimpleBackend and PathConditions

An expression is the function from inputs ("models") to the value it evaluates
to, and the solver's assertions are the set of inputs that satisfy them, so
that "no solution", "a solution" and "implied" need no theory. The solver may
time out in every query, and simplification may or may not recognise a
constraint without alternative. A value of the program has two records: `sem`,
what it would be for every input on the same path (the program), and `expr`,
the expression the instrumentation keeps, null for a concrete value. An
instruction or library call changes memory and leaves the constraints it pushes
in `pushes`; `Push` hands them to the backend one by one. `choice` holds the
inputs that reach the instruction and those that make it do the same; `exact`
becomes false when the program uses a result that the wrappers leave
unconstrained on purpose (the order of memcmp, the pointer of strchr).
`SimpleBackend` begins with `loadConfig`, over all combinations of settings.

### ExpressionPool

An expression object lies in a block of memory (`heap`), lives while the table
`allocatedExpressions` or a live expression refers to it, and its block may be
used again afterwards. Clients hold raw pointers in `slot`: the shadow pages
and registered regions that the collector searches. The slots for parameters and
return values (`RuntimeCommon.cpp:36-37`) are neither, and outside the model: a
client that collects while one of them is in use would lose its expression. The
variables `terms` and `held` record what was meant. The queue of delayed address
constraints is keyed by a pointer into the loaded value's expression, as in the
code; what is read through a key whose block is free is any set of bytes.
Clients collect garbage between any two operations.

### ShortCircuit

The program is a variable: all functions with a parameter, a constant and a
loop of three instructions (PHI, binary, select, branch) are compiled, phase by
phase, and then run for any number of iterations and calls. Only the presence
of an expression matters at run time.

### FuzzingHelper

Coverage maps are sets of bits. Failing calls end the helper, after the effects
that precede them. AFL adds and removes files at any time. The score is the
derived lexicographic order of four fields.

### SymCCRun

The analysis that is one step of `FuzzingHelper`: the helper writes the whole
input, then drains standard error until the program and timeout are gone, then
lists the output directory and parses the log. Pipes are bounded. A log line
arrives in two pieces, the second with the last digit of the time, so that a
cut line reads as a different number. When timeout kills the program after the
grace period it kills itself too, and the helper sees a death by signal.

### PureConcolic

Files are names; SymCC's output directory is a sequence because the backend
numbers its files from 0 in every run. `Within` says which names contain which
(the script looks names up with `grep`).

## 3. Runs that pass

| run | bounds | shows |
|---|---|---|
| `shadow` | 4 addresses on 3 pages of 2 bytes, lengths 1 and 3, words of 2 bytes, two byte values, one input byte, little endian, fair | `LoopsSound`: a loop writes through valid pointers, within memory, and never overwrites what it has yet to read; `CopyReadsFresh`: no stale cached pointer is read; `Concolic`: expressions describe their bytes; `ImplementsFlat`: refinement of `ConcolicMemory`; `LoopsEnd` |
| `libc` | input file of 3 bytes (character, newline, NUL), another file whose path matches, one that does not and a terminal, of 1 byte each, two descriptors, buffers of 3 bytes, offsets modulo 8 | `OffsetIsPosition`: the wrappers know the input's number and the position in it; `LabelsExact`: a byte has the label of the offset it was read from, bytes of other files have none |
| `calls` | 4 frames, 2 symbolic values | `ExpressionsExact` |
| `intrinsics` | 4-bit integers, 2-bit bytes, little endian, all operands | `ScalarsExact`, `MembersExact` |
| `shortcircuit` | all loops of 3 instructions | `TracksInput`, `ArgumentsExact` |
| `paths` | 2 input bytes of 3 values, 2 bytes of memory, 3 instructions or calls with any operands, debug build | `InputFollowsPath`: the program's own input satisfies what was pushed for it; `PathDetermined`: all inputs that satisfy it take the same path; `ValuesExact`: expressions are right for all of them; `NewInputDiverges`: a new input reaches the last decision and takes it differently |
| `pool` | 3 blocks for 5 expressions, 2 input bytes, 2 known pointers, symmetric | `PointersValid`, `InputsKnown` |
| `helper` | 2 files, 2 test cases with overlapping coverage, 2 bits | `BitmapIsBacked`, `Accounted`, `QueueIsMinimal`, `EventuallyAnalysed` |
| `script` | 2 given files, one name part of the other, 2 test cases | `NothingDropped`, `AllAnalysed` |
| `pipes` | inputs of 0 to 2 blocks, a pipe of 1 block, a log pipe of 3 pieces, 2 reports, 2 test cases | `TestsComplete`, `SolverTimeExact`, `Returns` |

Why the bounds are enough. Three pages and regions of up to three bytes give
regions inside a page, ending at a page boundary and straddling one, and every
overlap, with each page allocated or not. An input with a newline and a NUL byte
has lines that end early, at the buffer's end and at the end of the file, and
two descriptors let the input be opened twice and its number be used
again. Four frames allow nested instrumented calls above `main`, with an
uninstrumented function as the innermost one.
Loops of three instructions allow a PHI whose input is a later PHI or a later
computation. Three instructions suffice to read the input, compute with it or
fix an address, and branch on the result. Five expressions in three blocks
make every block be used again. An input of two blocks exceeds its pipe and two
reports exceed theirs, so that helper and program block on each other. Two
bytes per integer have an order, and leave padding after the overflow flag. The
safety properties of all passing runs are proved beyond these bounds
(section 6).

`helper`, `paths` and `pool` do not check deadlock: the helper stops on an
error, a program after `MaxSteps` instructions or an exception, and a client
of the pool when all blocks are in use.

## 4. Disagreements between the code and what is said of it

Two runs check a statement of a comment that the code breaks; the quotations
are with the findings in `PROJECT.json`.

* `calls_callback`: the result of an uninstrumented function that called back
  into instrumented code gets the callback's return expression.
* `pool_collect`: the collector does not know the queue of delayed address
  constraints, so a collection between insertion and verification frees the
  expressions that the queue points to.

The passing runs exclude, by a guard or by the choice of a constant, further
cases in which the modelled code does not do what is expected of it. Each can
be seen by dropping the restriction.

* `Watched`: nothing resets `inputFileDescriptor` when the input is closed, so
  the next file with the same number is taken for the input
  (`LibcWrappers.cpp:55`); so is every file whose path contains the configured
  name (`LibcWrappers.cpp:83`), and after it has been opened the input itself is
  no longer followed. Of an input that is open twice only the last number is
  followed, as the warning at `LibcWrappers.cpp:87` says.
* `lost`, fgets: the length of a line is taken from `strlen`
  (`LibcWrappers.cpp:287`). A NUL byte in the line makes it too short; at the end
  of the file fgets leaves the buffer alone, and the offset advances by the
  length of its old contents. The terminator that fgets writes keeps the
  expression of the byte it replaces.
* `lost`, fread: an element cut off by the end of the file is consumed but not
  counted (`LibcWrappers.cpp:269`).
* `lost`, mmap: all bytes of a mapping of the input get the label of its end,
  and the offset leaves the descriptor's position
  (`LibcWrappers.cpp:142-148`); while there is no input descriptor its value
  -1 equals the descriptor of anonymous mappings (`LibcWrappers.cpp:136`).
* A character that the program pushes back without having read it gets the
  label of the byte whose place it takes (`LibcWrappers.cpp:400`).
* `Scalar`: `ushl_sat` tests for overflow with an arithmetic shift
  (`RuntimeCommon.cpp:375`); rotations and other funnel shifts extract with
  reversed bounds (`RuntimeCommon.cpp:454`). `Overflow`: the unsigned builders
  compare the bit that tells an overflow, a bit vector, with the Boolean true
  (`RuntimeCommon.cpp:396-397`, `418-419`, `440-442`), which in the simple backend
  is `Z3_mk_eq` of different sorts (`simple_backend/Runtime.cpp:231`; how QSYM's
  builder takes it is not in the repository); and unsigned multiplication tests
  only the top bit of the double-width product (`RuntimeCommon.cpp:440`).
  `Bits = WordBits`: the limits of 64-bit integers
  are computed with an undefined shift (`RuntimeCommon.cpp:44-52`).
  `Bits = ByteBits`: the byte swap of a single byte fails its assertion
  (`RuntimeCommon.cpp:70`). `LittleEndian = FALSE`: the overflow flag is not
  at its member's offset (`RuntimeCommon.cpp:82`).
* `Seconds`: a member of type i1 of a structure that is concrete becomes a
  Boolean (`Symbolizer.cpp:949-952`), which is concatenated with bit vectors
  without a conversion (`Symbolizer.cpp:1026-1039`). `Inserted`: a Boolean that
  is a compile-time constant is inserted without a conversion, because
  `buildRuntimeCall` returns nothing when no operand is symbolic
  (`Symbolizer.cpp:1141`), and fails the assertion at `RuntimeCommon.cpp:238`.
* `Narrow`: indices narrower than a pointer are zero-extended, although they
  are signed (`Symbolizer.cpp:627`).
* `Predicates`: "ordered and not equal" is built as the negation of "equal",
  which holds for what is not a number (`simple_backend/Runtime.cpp:298`); the
  unordered relations build a disjunction of three operands and say it has two
  (`simple_backend/Runtime.cpp:318`).
* `Seek`: an input byte beyond the first unread one gets the variable of
  another offset (`simple_backend/Runtime.cpp:183`).
* `exact`: memcmp constrains whether regions are equal but not the order it
  returns, and strchr the bytes before its result but not the byte it found
  (`LibcWrappers.cpp:497-553`).
* `memset` in `PathConditions`: a symbolic character has the expression of an
  int, which is stored for every byte (`LibcWrappers.cpp:418`).
* `SolverTimeExact` does not speak of killed executions: a report that was cut
  off counts with the digits that arrived.
* `EventuallyAnalysed`: the best unseen file is analysed first
  (`symcc.rs:302-320`), so that an endless supply of better files starves the
  others. The property excepts the files that overtake, and the run, with two
  files, shows that nothing else delays a file.
* `Within`: a file whose name grep finds in that of an analysed file is never
  imported (`pure_concolic_execution.sh:91`); the property says so. The name is
  taken as a regular expression, so that a name with metacharacters need not
  match itself; such a file is imported in every generation. `Within` may be any
  relation on names.
* "A copy of the corpus and of each generated input is preserved" in the output
  directory (`pure_concolic_execution.sh:10-11`): `maybe_export` copies SymCC's
  output only (`pure_concolic_execution.sh:78-83`), so that the files of the
  input directory are not preserved. `NothingDropped` speaks of generated inputs.
* A second delayed address is dropped, with its own equality, if the bytes of
  the loaded value are exact or covered by an entry of the queue
  (`qsym_backend/Runtime.cpp:351-356`), and each branch pushes one entry of
  those that apply (`qsym_backend/Runtime.cpp:371`). The module has both; no
  property says which equalities a path may lose.
* `Hang`: test cases on which afl-showmap times out are not filed under hangs
  (`main.rs:370`).
* The script never empties SymCC's output directory and analyses the leftovers
  in every generation (`pure_concolic_execution.sh:131`): the state in which
  `PureConcolic` waits for input is not reached again and again, although
  `pure_concolic_execution.sh:110` says that generations end.

Seen while reading and outside the models: a bit cast from a floating-point
number to an integer registers its computation without the instruction, so that
the result has no expression (`Symbolizer.cpp:670`); casts between pointers and
integers of another width keep the expression as it is (`Symbolizer.cpp:703`);
calloc leaves the shadow of the memory it zeroes (`LibcWrappers.cpp:115`).

## 5. Fairness

* `ShadowMemory!FairSpec`: a loop that has begun goes on; it is straight-line
  code of a single thread. Nothing is assumed about the program's calls.
* `FuzzingHelper!Spec`: weak fairness of the helper's next step, where the
  analysis of a file may also end in an error; every external program it waits
  for has a time limit. Nothing is assumed about AFL.
* `PureConcolic!ScriptSpec`: weak fairness of the script, a sequential loop whose
  executions have a time limit.
* `SymCCRun!Spec`: weak fairness of the helper's steps, each a call that returns
  or is disabled while it blocks, and of `timeout -k 5 90`. Nothing is assumed
  about the program: it may hang, or block on a full pipe.

## 6. Theorems

Each theorem has the form `Spec => []P` for a property `P` that a run checks
(`Spec => ImplementsFlat` is the refinement; the specifications of
`CallProtocol` and `PureConcolic` are called `CallSpec` and `ScriptSpec`); a run
shows it for one small instance, the theorem for every value of the constants.
Every safety property of a passing run has its theorem.

| module | theorem: property |
|---|---|
| `ShadowMemoryProofs` | `PagesKeepTypes`: `TypeOK`; `LoopsAreSound`: `LoopsSound`; `CopiesReadFresh`: `CopyReadsFresh`; `ConcolicConsistency`: `Concolic`; `ShadowRefinesFlat`: `ImplementsFlat` |
| `LibcInputProofs` | `WrapperTypes`: `TypeOK`; `OffsetInSync`: `OffsetIsPosition`; `LabelsAreExact`: `LabelsExact` |
| `CompilerProofs` | `SlotsKeepTypes`: `CallTypeOK`; `CallsAreExact`: `ExpressionsExact`; `PassTypes`: `TypeOK`; `NoDependenceLost`: `TracksInput`; `NoNullArgument`: `ArgumentsExact` |
| `IntrinsicsProofs` | `ResultsHaveWidths`: `TypeOK`; `ScalarExpressionsExact`: `ScalarsExact`; `MemberExpressionsExact`: `MembersExact` |
| `PathConditionsProofs` | `PathTypes`: `TypeOK`; `OwnInputFollowsPath`: `InputFollowsPath`; `ConstraintsDeterminePath`: `PathDetermined`; `ExpressionsAreExact`: `ValuesExact`; `FoundInputsDiverge`: `NewInputDiverges` |
| `ExpressionPoolProofs` | `PoolTypes`: `TypeOK`; `NoPointerDangles`: `PointersValid`; `SolverKnowsInputs`: `InputsKnown` |
| `DriverProofs` | `HelperTypes`: `TypeOK`; `CoverageIsBacked`: `BitmapIsBacked`; `FilesAccounted`: `Accounted`; `QueueStaysMinimal`: `QueueIsMinimal`; `DirectoriesKeepTypes`: `ScriptTypeOK`; `NoTestDropped`: `NothingDropped` |
| `SymCCRunProofs` | `AnalysisTypes`: `TypeOK`; `AllTestsReturned`: `TestsComplete`; `LastReportCounts`: `SolverTimeExact` |

They assume only the named assumptions of the modules: a positive page size,
addresses and lengths that are natural numbers, expressions that evaluate to
bytes, constants that evaluate to themselves, distinct special values; at
least one value of a byte and one byte of input; a finite set of coverage bits
(`BitsAssumption`; AFL's map has a fixed size); finitely many test cases of an
execution (`FiniteAssumption`; it has a time limit); and functions in SSA form
(`ProgramsAssumption`: operands are defined before their use, only PHI nodes
look ahead). TLC evaluates all of them on the instances.

The theorems of `IntrinsicsProofs` have two hypotheses of their own.
`SoundTarget`: the target is little endian and an integer has an even number of
bytes, as the target's integers of 16, 32 and 64 bits do. `SoundProgram`: the
program uses the operations that the code builds correctly. Section 4
lists what they leave out (the items `Scalar`, `Seconds`, `Narrow` and
`Predicates`): cases that the code gets wrong, and for which TLC finds the
property violated. The instance of the run meets both hypotheses
(`InstanceIsSound`, which TLC evaluates). Integers as wide as the host's `uint64_t` are included, with the
operations that need no integer limit.

*Shadow memory.* `TypeOK /\ LoopsSound` is the inductive invariant: it describes
what a running loop has left to do in terms of the current pages only, such
that every unread source cell still holds its old expression. For a copy this
needs the direction: forward if the destination is below the source, or disjoint
from it; backward if above. A cached source
pointer may be null although the page now exists; this is harmless only because
the page that the copy itself created is empty except where the copy wrote, and
those cells are not read again. That is the content of `CopyReadsFresh`, which
follows from the invariant. The refinement mapping shows, while a loop runs,
the shadow that the loop will leave behind; the call is then the abstract step
and every iteration stutters.

*Input.* The invariant adds where positions can be (`Placed`: at most one past
the end of the file, or past the pushed-back character, and at -1 only after a
character was pushed back at the beginning) and that the wrappers' number and
`last` are the same (`SameNumber`). One lemma (`TransferInv`) serves read, fread,
getc and fgets, which deliver, consume and label, and differ in how many bytes
each of the three is about.

*Calls.* The invariant adds that an uninstrumented function is innermost on the
stack (it calls nothing), and that the return slot stays empty while it runs for
a caller that uses its result.

*Intrinsics.* The invariant says that the last result is exact, and replaces
"the members are right" by what survives an insertion: the expression of the
structure is its memory, byte for byte (`Laid`), where byte `i` of a number is
its digit `i` in base `Pow2[ByteBits]` (`Digit`). An insertion cuts the
expression at two byte boundaries and joins it with the swapped member, an
extraction cuts out and swaps; both are statements about digits, and a number is
determined by its digits. Under this lie the theory of `Pow2` (sums, order,
remainders), of bit vectors as numbers with sign, one lemma per builder that its
expression is what LLVM computes (for signed saturation that one more bit holds
the exact sum, for the shift that shifting back reveals an overflow, for signed
multiplication that the double-width product differs from the extended narrow
one exactly if it leaves the range), and `GetElementPtrOK` for paths of any
length.

The recursive functions (`Pow2`, the byte swap, the sum of an address) are
treated without an induction theorem: a counterexample would have a least
number (`LeastNumber`, from the well-foundedness of the natural numbers), and
`Recursion` gives the existence of a function defined by its first value and a
step, from which the definition's `CHOOSE` is known to satisfy its equation.

*Path constraints.* The checked properties speak of the state between two
instructions. The invariant also says what holds while constraints wait in
`pushes`: of the inputs that satisfy what has been pushed, those that satisfy
the rest too are exactly the ones for which the instruction does the same
(`Decides`), and values are exact for them (`ValuesKnown`); the program's own
input is one of them (`OwnPath`); and the known input bytes have the variables
of their offsets (`BytesNamed`), for which reading must never skip a byte.
`Faithful` states once what an instruction has to get right, `ExecuteInv` that
this keeps the invariant, and there is one lemma per instruction and library
call that it is faithful: for a switch that the constraints of all cases say
together which one is taken, for memcmp that the conjunction holds exactly if
the regions are equal, for strchr that the bytes before the first match differ
from the character.

*Expressions of the QSYM backend.* `PoolOK` says that expressions are kept alive
with their operands, depend on known input bytes only, and that the table of
allocated expressions and what clients point to are among them, still with the
term they were held for. `QueueOK` says of the delayed constraints only that
their keys are blocks, which may be free or hold something else by now: as
`pool_collect` shows, no more is true of them. The theorems say that this does
not damage what clients hold.

*Compiled code.* The invariant relates the phases: `Noted` says where the visit
has put expressions and run-time calls, `NodesErased` which PHI nodes are erased
(those without a symbolic input) and `Planned` which operands
`shortCircuitExpressionUses` checks. At run time parameters have an expression
exactly if they depend on the input, and constants never do (`ArgumentsTracked`);
`TracksInput` then passes from instruction to instruction, and around the loop
through the PHI nodes.

*Helper.* The file being analysed is not yet processed (`Analysing`), and the
queue is no longer than crashes and covered bits together (`Lean`), from which
the bound by all bits follows.

*Script.* Between two generations the current one is empty; without this, the
change of generations would drop what has not been run.

*One execution.* `LogEnds`: what was captured, followed by what is in the pipe,
ends with the line that is being written, or with the last report. `Ended`: a
program that exits by itself leaves no unfinished line. `Drained`: the helper
collects results only when the program is dead and the pipe is empty.

## 7. Only model-checked, and not modelled

Liveness (`LoopsEnd`, `EventuallyAnalysed`, `AllAnalysed`, `Returns`) is beyond
the proof system and stays with TLC. So do the two violations, which are
statements about one instance.

Not modelled: the solver and QSYM (an empty submodule here); floating-point
arithmetic and conversions, whose theory belongs to the solver; the one-line
builders of the backends that forward to it; 128-bit constants; the compiler
driver, build files and tests. Threads: the run-time library's globals are
shared without synchronisation, and SymCC does not support them. Of the
allocators only the constraints on sizes are modelled, not which memory is used
again.

## 8. Plan

1. Done: shadow memory and its abstract specification; input tracking and
   calls; intrinsics and instructions; the pass's concreteness checks; path
   constraints with the simple backend and its configuration; the QSYM backend's
   expressions with the collector and the sanitizer interface; helper, its
   executions, and script. All safety properties of the passing runs are proved.
2. A composition of `LibcInput` with `ShadowMemory`: reads through the wrappers
   as calls of shadow memory, labels as expressions.
3. Floating-point arithmetic and conversions of the pass, once a theory to state
   them in is available.
