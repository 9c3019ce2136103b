-------------------------- MODULE PathConditions --------------------------
(***************************************************************************)
(* Which constraints an instrumented program pushes, composed with the     *)
(* backend that they are pushed to: branches, selects, switches and memory *)
(* accesses (compiler/Symbolizer.cpp) and the libc wrappers that compare   *)
(* memory or take sizes (runtime/LibcWrappers.cpp).                        *)
(*                                                                         *)
(* A value of the program is known twice: sem is what it would be for each *)
(* possible input, had the program taken the same path, and expr is the    *)
(* expression that the instrumentation keeps, null for a concrete value.   *)
(***************************************************************************)
EXTENDS SimpleBackend, SequencesExt

CONSTANTS
  Cells,     \* the number of bytes in the program's memory
  Consts,    \* the constants in the program
  Cases,     \* the cases of its switch instructions
  Table,     \* the contents of a constant table that it indexes
  Text,      \* a constant string that it compares memory with
  MaxSteps   \* bound: instructions executed

ASSUME ProgramAssumption ==
  /\ Cells \in Nat \ {0} /\ Consts \subseteq Byte /\ Cases \in Seq(Byte)
  /\ Table \in [Byte -> Byte] /\ Text \in Seq(Byte) /\ MaxSteps \in Nat

VARIABLES
  input,     \* the input of this execution
  offset,    \* the position of the next byte to read
  mem,       \* the program's memory
  pushes,    \* the constraints that the current instruction has yet to push
  choice,    \* the inputs before the current instruction, and those for
             \* which it does the same as in this execution
  exact,     \* has the program ignored results without constraints so far?
  steps      \* the number of instructions executed

vars == <<backend, input, offset, mem, pushes, choice, exact, steps>>

Cell == 1 .. Cells

Concrete(v) == [sem |-> Constant(v), expr |-> Null]
ValueOf(x)  == x.sem[input]

\* Memory is followed by the constant string, which is never written.
Address == 1 .. Cells + Len(Text)
Region(i, n) == i .. i + n - 1
At(t)   == IF t \in Cell THEN mem[t] ELSE Concrete(Text[t - Cells])

\* The inputs for which a term has the value that it has in this execution.
Same(sem) == {m \in Model : sem[m] = sem[input]}

-----------------------------------------------------------------------------
(***************************************************************************)
(* Expressions: an operation on concrete operands has no expression, and   *)
(* concrete operands of a symbolic operation become constants.             *)
(***************************************************************************)
createValueExpression(x) == Constant(ValueOf(x))
OrValue(x) == IF x.expr = Null THEN createValueExpression(x) ELSE x.expr

\* The operations that the modelled instructions and wrappers need.
Operation(op, a, b) ==
  CASE op = "equal"     -> a = b
    [] op = "not_equal" -> a # b
    [] op = "add"       -> (a + b) % ByteValues

Apply(op, f, g) == [m \in Model |-> Operation(op, f[m], g[m])]

Computed(op, x, y) ==
  [sem  |-> Apply(op, x.sem, y.sem),
   expr |-> IF x.expr = Null /\ y.expr = Null
              THEN Null ELSE Apply(op, OrValue(x), OrValue(y))]

Condition(x, k) == Computed("equal", x, Concrete(k))

-----------------------------------------------------------------------------
(***************************************************************************)
(* Instructions and calls.  An instruction changes memory, then pushes its *)
(* constraints one by one; same is the set of inputs for which it would do *)
(* the same, and precise whether the constraints are meant to say so.      *)
(***************************************************************************)
Constraint(expr, taken) == [expr |-> expr, taken |-> taken]

Ready == /\ status = "running" /\ g_config_input # "unset"
         /\ pushes = <<>> /\ steps < MaxSteps

Execute(newMem, constraints, same, precise) ==
  /\ Ready
  /\ mem' = newMem
  /\ pushes' = constraints
  /\ choice' = [before |-> choice.before \cap choice.same, same |-> same]
  /\ exact' = (exact /\ precise)
  /\ steps' = steps + 1
  /\ log' = NoLog
  /\ UNCHANGED <<g_config_input, g_solver, status, input>>

\* The backend takes the next constraint.
Push ==
  /\ status = "running" /\ pushes # <<>>
  /\ _sym_push_path_constraint(Head(pushes).expr, Head(pushes).taken)
  /\ pushes' = Tail(pushes)
  /\ UNCHANGED <<g_config_input, stdinBytes, input, offset, mem, choice, exact, steps>>

UnchangedInput == UNCHANGED <<stdinBytes, offset>>

\* The expressions of input bytes that are known when n more were asked for.
AfterReading(known, from, n) ==
  LET Known[k \in 0 .. n] ==
        IF k = 0 THEN known
                 ELSE _sym_get_input_byte(Known[k - 1], from + k - 1).bytes IN
  Known[n]

\* Bytes of the symbolic input, one after the other.
_sym_make_symbolic(i, n) ==
  LET byte(k) == _sym_get_input_byte(AfterReading(stdinBytes, offset, k), offset + k).expr IN
  /\ Region(i, n) \subseteq Cell /\ offset + n <= InputSize
  /\ Execute([t \in Cell |-> IF t \in Region(i, n)
                               THEN [sem |-> Variable(offset + t - i), expr |-> byte(t - i)]
                               ELSE mem[t]],
             <<>>, Model, TRUE)
  /\ stdinBytes' = AfterReading(stdinBytes, offset, n)
  /\ offset' = offset + n

Read(i, n) == g_config_input \in {"stdin", "file"} /\ _sym_make_symbolic(i, n)

\* Without symbolic input, what the program reads is not tracked.
ReadConcrete(i, n) ==
  /\ g_config_input = "none"
  /\ Region(i, n) \subseteq Cell /\ offset + n <= InputSize
  /\ Execute([t \in Cell |-> IF t \in Region(i, n) THEN Concrete(input[offset + t - i])
                                                   ELSE mem[t]],
             <<>>, Model, TRUE)
  /\ offset' = offset + n /\ UNCHANGED stdinBytes

symcc_make_symbolic(i, n) ==
  \/ g_config_input = "memory" /\ _sym_make_symbolic(i, n)
  \/ /\ Ready /\ g_config_input # "memory"
     /\ status' = "exception"
     /\ UNCHANGED <<g_config_input, stdinBytes, g_solver, log, input, offset, mem,
                    pushes, choice, exact, steps>>

\* Back, or to the first byte that has not been read; see _sym_get_input_byte
\* for what happens to other offsets.
Seek(o) ==
  /\ g_config_input \in {"stdin", "file"} /\ o <= Len(stdinBytes) /\ o # offset
  /\ Execute(mem, <<>>, Model, TRUE)
  /\ offset' = o /\ UNCHANGED stdinBytes

visitBinaryOperator(c, d) ==
  /\ Execute([mem EXCEPT ![c] = Computed("add", mem[c], mem[d])], <<>>, Model, TRUE)
  /\ UnchangedInput

\* A comparison with a constant, and a branch on its result.
visitBranchInst(c, k) ==
  LET cond == Condition(mem[c], k) IN
  /\ Execute(mem, <<Constraint(cond.expr, ValueOf(cond))>>, Same(cond.sem), TRUE)
  /\ UnchangedInput

\* The result has the expression of the operand that was chosen.
visitSelectInst(c, k, d) ==
  LET cond   == Condition(mem[c], k)
      chosen == IF ValueOf(cond) THEN mem[d] ELSE mem[c]
      sem    == [m \in Model |-> IF cond.sem[m] THEN mem[d].sem[m] ELSE mem[c].sem[m]] IN
  /\ Execute([mem EXCEPT ![c] = [sem |-> sem, expr |-> chosen.expr]],
             <<Constraint(cond.expr, ValueOf(cond))>>, Same(cond.sem), TRUE)
  /\ UnchangedInput

\* Mutant: only the case that is taken is pushed.
SwitchTakenOnly(c) ==
  LET x == mem[c]
      case(v) == IF v \in Range(Cases) THEN v ELSE ByteValues IN
  /\ Execute(mem,
             IF x.expr = Null \/ ValueOf(x) \notin Range(Cases) THEN <<>>
             ELSE <<Constraint(Apply("equal", x.expr, createValueExpression(x)), TRUE)>>,
             Same([m \in Model |-> case(x.sem[m])]), TRUE)
  /\ UnchangedInput

\* One constraint per case, taken or not, before the jump.
visitSwitchInst(c) ==
  LET x == mem[c]
      case(v) == IF v \in Range(Cases) THEN v ELSE ByteValues IN
  /\ Execute(mem,
             IF x.expr = Null THEN <<>>
             ELSE [i \in DOMAIN Cases |-> Constraint(Apply("equal", x.expr, Constant(Cases[i])),
                                                     ValueOf(x) = Cases[i])],
             Same([m \in Model |-> case(x.sem[m])]), TRUE)
  /\ UnchangedInput

\* Mutant: symbolic addresses are not fixed.
IgnoreAlternative(x) == <<>>

\* Addresses and indirect jumps: the solver may look for another value, and
\* the path is restricted to this one.
tryAlternative(x) ==
  IF x.expr = Null THEN <<>>
  ELSE <<Constraint(Apply("equal", x.expr, createValueExpression(x)), TRUE)>>

visitIndirectBrInst(c) ==
  /\ Execute(mem, tryAlternative(mem[c]), Same(mem[c].sem), TRUE)
  /\ UnchangedInput

\* A load from a constant table, at an index in memory.
visitLoadInst(c) ==
  /\ Execute([mem EXCEPT ![c] = [sem  |-> [m \in Model |-> Table[mem[c].sem[m]]],
                                 expr |-> Null]],
             tryAlternative(mem[c]), Same(mem[c].sem), TRUE)
  /\ UnchangedInput

\* A store of d to the cell that c points to.
visitStoreInst(c, d) ==
  LET target(m) == 1 + (mem[c].sem[m] % Cells) IN
  /\ Execute([t \in Cell |->
                [sem  |-> [m \in Model |-> IF t = target(m) THEN mem[d].sem[m]
                                                            ELSE mem[t].sem[m]],
                 expr |-> IF t = target(input) THEN mem[d].expr ELSE mem[t].expr]],
             tryAlternative(mem[c]), Same(mem[c].sem), TRUE)
  /\ UnchangedInput

-----------------------------------------------------------------------------
(***************************************************************************)
(* Library functions.  Pointers are concrete, lengths need not be.         *)
(***************************************************************************)
\* tryAlternative of the wrappers: the same, for a parameter.
tryAlternativeValue(x) ==
  IF x.expr = Null THEN <<>>
  ELSE <<Constraint(Apply("equal", x.expr, Constant(ValueOf(x))), TRUE)>>

Numbers    == {mem[c] : c \in Cell} \cup {Concrete(Cells)}
Characters == {mem[c] : c \in Cell} \cup {Concrete(k) : k \in Consts}

malloc(size) ==
  /\ Execute(mem, tryAlternativeValue(size), Same(size.sem), TRUE)
  /\ UnchangedInput

calloc(nmemb, size) ==
  /\ Execute(mem, tryAlternativeValue(nmemb) \o tryAlternativeValue(size),
             Same(nmemb.sem) \cap Same(size.sem), TRUE)
  /\ UnchangedInput

isConcrete(i, n) == \A t \in Region(i, n) : At(t).expr = Null

\* The conjunction that memcmp and bcmp build.
AllEqual(i, j, n) ==
  [m \in Model |-> \A k \in 0 .. n - 1 : OrValue(At(i + k))[m] = OrValue(At(j + k))[m]]

\* What the comparison returns: the order of the first bytes that differ.
Order(i, j, n) ==
  [m \in Model |->
     LET differ == {k \in 0 .. n - 1 : At(i + k).sem[m] # At(j + k).sem[m]}
         first  == CHOOSE k \in differ : \A l \in differ : k <= l IN
     IF differ = {} THEN 0
     ELSE IF At(i + first).sem[m] < At(j + first).sem[m] THEN 1 ELSE 2]

\* memcmp and bcmp.  The constraint is about equality only: a program that
\* uses the order of unequal regions goes its own way.
compare(i, j, len, ordered) ==
  LET n == ValueOf(len)
      order == Order(i, j, n)
      used  == [m \in Model |-> IF ordered THEN order[m] ELSE IF order[m] = 0 THEN 0 ELSE 1] IN
  /\ Region(i, n) \cup Region(j, n) \subseteq Address
  /\ Execute(mem,
             tryAlternativeValue(len) \o
             IF isConcrete(i, n) /\ isConcrete(j, n) THEN <<>>
             ELSE <<Constraint(AllEqual(i, j, n), order[input] = 0)>>,
             Same(len.sem) \cap Same(used), ~ordered)
  /\ UnchangedInput

bcmp(i, j, len) == compare(i, j, len, FALSE)
memcmp(i, j, len, ordered) == compare(i, j, len, ordered)

\* The string that starts at i ends at a zero or with the memory.
StopsAt(i, ch, m) ==
  LET stops == {t \in i .. Cells : mem[t].sem[m] \in {0, ch.sem[m]}} IN
  IF stops = {} THEN Cells + 1 ELSE CHOOSE t \in stops : \A u \in stops : t <= u

\* The bytes before the result are constrained to differ from the character,
\* the byte that ends the search is not constrained.
strchr(i, ch) ==
  LET length  == StopsAt(i, ch, input) - i
      chExpr  == OrValue(ch)
      found   == [m \in Model |->
                    LET t == StopsAt(i, ch, m) IN
                    IF t <= Cells /\ mem[t].sem[m] = ch.sem[m] THEN t ELSE 0] IN
  /\ Execute(mem,
             tryAlternativeValue(ch) \o
             IF isConcrete(i, length) /\ ch.expr = Null THEN <<>>
             ELSE [k \in 1 .. length |->
                     Constraint(Apply("not_equal", OrValue(mem[i + k - 1]), chExpr), TRUE)],
             Same(ch.sem) \cap Same(found), isConcrete(i, Cells - i + 1))
  /\ UnchangedInput

\* A fill with a concrete character; the expression of a symbolic one has
\* the width of an int, which is no expression of a byte.
memset(i, ch, len) ==
  LET n == ValueOf(len) IN
  /\ ch.expr = Null /\ Region(i, n) \subseteq Cell
  /\ Execute([t \in Cell |-> IF t \in Region(i, n) THEN ch ELSE mem[t]],
             tryAlternativeValue(len), Same(len.sem), TRUE)
  /\ UnchangedInput

-----------------------------------------------------------------------------
Init ==
  /\ g_config_input = "unset" /\ stdinBytes = <<>> /\ g_solver = Model
  /\ log = NoLog /\ status = "running"
  /\ input \in Model /\ offset = 0
  /\ mem = [c \in Cell |-> Concrete(0)]
  /\ pushes = <<>> /\ choice = [before |-> Model, same |-> Model]
  /\ exact = TRUE /\ steps = 0

Initialize == _sym_initialize
              /\ UNCHANGED <<input, offset, mem, pushes, choice, exact, steps>>

Instruction ==
  \/ \E i \in Cell, n \in 1 .. Cells :
       Read(i, n) \/ ReadConcrete(i, n) \/ symcc_make_symbolic(i, n)
  \/ \E o \in 0 .. InputSize - 1 : Seek(o)
  \/ \E c, d \in Cell : visitBinaryOperator(c, d) \/ visitStoreInst(c, d)
  \/ \E c \in Cell, k \in Consts : visitBranchInst(c, k)
  \/ \E c, d \in Cell, k \in Consts : visitSelectInst(c, k, d)
  \/ \E c \in Cell : visitSwitchInst(c) \/ visitIndirectBrInst(c) \/ visitLoadInst(c)

LibraryCall ==
  \/ \E x \in Numbers : malloc(x)
  \/ \E x, y \in Numbers : calloc(x, y)
  \/ \E i \in Cell, j \in Address, n \in Numbers :
       i < j /\ (bcmp(i, j, n) \/ \E o \in BOOLEAN : memcmp(i, j, n, o))
  \/ \E i \in Cell, ch \in Characters : strchr(i, ch)
  \/ \E i \in Cell, ch \in Characters, n \in Numbers : memset(i, ch, n)

Next == Initialize \/ Push \/ Instruction \/ LibraryCall

Spec == Init /\ [][Next]_vars

-----------------------------------------------------------------------------
\* Types; the backend never knows more input bytes than there are.
TypeOK ==
  /\ g_config_input \in {"unset", "stdin", "file", "memory", "none"}
  /\ Len(stdinBytes) <= InputSize
  /\ g_solver \subseteq Model /\ choice.same \subseteq Model
  /\ status \in {"running", "exception", "timeout", "infeasible", "impossible branch"}
  /\ input \in Model /\ offset \in 0 .. InputSize
  /\ \A c \in Cell : mem[c].sem \in [Model -> Byte] /\ mem[c].expr \in [Model -> Byte] \cup {Null}
  /\ steps \in 0 .. MaxSteps

\* The program's own input satisfies every constraint that was pushed for it,
\* so that no assertion of the backend can fail but for a solver timeout.
InputFollowsPath ==
  input \in g_solver /\ status \notin {"infeasible", "impossible branch"}

\* Between instructions, unless results without constraints were used: every
\* input that satisfies the path constraints makes the program take the same
\* decisions so far.
PathDetermined ==
  pushes = <<>> /\ exact /\ status = "running" =>
    g_solver \subseteq choice.before \cap choice.same

\* For all inputs on that path a symbolic value is what its expression
\* evaluates to, and a concrete value does not depend on the input.
ValuesExact ==
  pushes = <<>> /\ exact /\ status = "running" =>
    \A c \in Cell, m \in g_solver :
      mem[c].sem[m] = IF mem[c].expr = Null THEN ValueOf(mem[c]) ELSE mem[c].expr[m]

\* A new input that is found for a constraint leads to the instruction that
\* pushed it and then makes it do something else.
NewInputDiverges ==
  exact /\ log.found => log.model \in choice.before \ choice.same
=============================================================================
