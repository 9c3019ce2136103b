------------------------ MODULE PathConditionsProofs ------------------------
(***************************************************************************)
(* Path constraints, for programs of any length over any memory, input and *)
(* alphabet: the program's own input satisfies them, they determine its    *)
(* path, and the inputs that are found leave that path where they should.  *)
(***************************************************************************)
EXTENDS PathConditions, WellFoundedInduction, TLAPS

\* A value in memory, and a constraint to be pushed.
Datum    == [sem : [Model -> Byte], expr : [Model -> Byte] \cup {Null}]
Pushable == [expr : [Model -> BOOLEAN] \cup {Null}, taken : BOOLEAN]

\* The model satisfies all of the constraints.
Satisfies(constraints, m) ==
  \A k \in DOMAIN constraints : m \in Satisfying(constraints[k].expr, constraints[k].taken)

\* The value is what its expression evaluates to, or does not depend on m.
ExactFor(x, m) == x.sem[m] = IF x.expr = Null THEN ValueOf(x) ELSE x.expr[m]

\* Types, in more detail than they are checked.
Typed ==
  /\ g_config_input \in {"unset", "stdin", "file", "memory", "none"}
  /\ g_solver \subseteq Model
  /\ choice \in [before : SUBSET Model, same : SUBSET Model]
  /\ status \in {"running", "exception", "timeout", "infeasible", "impossible branch"}
  /\ input \in Model /\ offset \in 0 .. InputSize
  /\ mem \in [Cell -> Datum] /\ pushes \in Seq(Pushable)
  /\ exact \in BOOLEAN /\ steps \in 0 .. MaxSteps

\* No input byte is skipped, so that each has the variable of its offset.
BytesNamed(known) ==
  /\ known \in Seq([Model -> Byte]) /\ Len(known) <= InputSize
  /\ \A k \in 1 .. Len(known) : known[k] = Variable(k - 1)

InputRead == BytesNamed(stdinBytes) /\ (g_config_input # "none" => offset <= Len(stdinBytes))

\* The program's own input satisfies all constraints, those that are yet to
\* be pushed too, and expressions evaluate to concrete values under it.
OwnPath ==
  /\ input \in g_solver /\ Satisfies(pushes, input)
  /\ status \notin {"infeasible", "impossible branch"}
  /\ \A c \in Cell : ExactFor(mem[c], input)

\* Of the inputs that satisfy what has been pushed, exactly those that satisfy
\* the rest as well make the current instruction do what it does.
Decides ==
  exact /\ status = "running" =>
    \A m \in g_solver : m \in choice.before /\ (Satisfies(pushes, m) <=> m \in choice.same)

\* And for those the values are exact.
ValuesKnown ==
  exact /\ status = "running" =>
    \A m \in g_solver : Satisfies(pushes, m) => \A c \in Cell : ExactFor(mem[c], m)

\* The inductive invariant.
IInv == Typed /\ InputRead /\ OwnPath /\ Decides /\ ValuesKnown /\ NewInputDiverges

\* The invariant implies the properties that are checked.
LEMMA Implied ==
  IInv => TypeOK /\ InputFollowsPath /\ PathDetermined /\ ValuesExact /\ NewInputDiverges
<1> SUFFICES ASSUME IInv
             PROVE  TypeOK /\ InputFollowsPath /\ PathDetermined /\ ValuesExact /\ NewInputDiverges
  OBVIOUS
<1>1. TypeOK
  BY DEF IInv, Typed, InputRead, BytesNamed, TypeOK, Datum
<1>2. InputFollowsPath /\ NewInputDiverges
  BY DEF IInv, OwnPath, InputFollowsPath
<1>3. pushes = <<>> => \A m \in Model : Satisfies(pushes, m)
  BY DEF Satisfies
<1>4. g_solver \subseteq Model
  BY DEF IInv, Typed
<1>5. PathDetermined
  BY <1>3, <1>4 DEF IInv, Decides, PathDetermined
<1>6. ValuesExact
  BY <1>3, <1>4 DEF IInv, ValuesKnown, ValuesExact, ExactFor
<1> QED
  BY <1>1, <1>2, <1>5, <1>6

-----------------------------------------------------------------------------
(***************************************************************************)
(* Constraints                                                             *)
(***************************************************************************)
\* An expression is not the null pointer.
LEMMA NotNull ==
  ASSUME Model # {}, NEW f, DOMAIN f = Model
  PROVE  f # Null
BY DEF Null

\* A constraint that may be pushed, and whether a model satisfies it.
LEMMA SatisfyingOK ==
  ASSUME Model # {}, NEW e \in [Model -> BOOLEAN], NEW taken \in BOOLEAN, NEW m \in Model
  PROVE  /\ Constraint(e, taken) \in Pushable
         /\ Constraint(e, taken).expr = e /\ Constraint(e, taken).taken = taken
         /\ m \in Satisfying(e, taken) <=> (e[m] <=> taken)
<1>1. e # Null
  BY NotNull
<1>2. m \in Satisfying(e, taken) <=> e[m] = taken
  BY <1>1 DEF Satisfying
<1>3. e[m] \in BOOLEAN
  OBVIOUS
<1>4. e[m] = taken <=> (e[m] <=> taken)
  BY <1>3
<1>5. Constraint(e, taken) \in Pushable /\ Constraint(e, taken).expr = e /\ Constraint(e, taken).taken = taken
  BY DEF Constraint, Pushable
<1> QED
  BY <1>2, <1>4, <1>5

\* Every model satisfies a list of no constraints.
LEMMA NoneOK ==
  ASSUME NEW m
  PROVE  <<>> \in Seq(Pushable) /\ Satisfies(<<>>, m)
BY DEF Satisfies

\* A list of one constraint, and when a model satisfies it.
LEMMA OneOK ==
  ASSUME Model # {}, NEW e \in [Model -> BOOLEAN], NEW taken \in BOOLEAN, NEW m \in Model
  PROVE  /\ <<Constraint(e, taken)>> \in Seq(Pushable)
         /\ Satisfies(<<Constraint(e, taken)>>, m) <=> (e[m] <=> taken)
<1> DEFINE c == Constraint(e, taken)
<1>1. /\ c \in Pushable /\ c.expr = e /\ c.taken = taken
      /\ m \in Satisfying(e, taken) <=> (e[m] <=> taken)
  BY SatisfyingOK
<1> HIDE DEF c
<1>2. <<c>> \in Seq(Pushable) /\ DOMAIN <<c>> = {1} /\ <<c>>[1] = c
  BY <1>1
<1>3. Satisfies(<<c>>, m) <=> m \in Satisfying(c.expr, c.taken)
  BY <1>2 DEF Satisfies
<1> QED
  BY <1>1, <1>2, <1>3 DEF c

\* The constraints of two lists, one after the other.
LEMMA BothOK ==
  ASSUME NEW s \in Seq(Pushable), NEW t \in Seq(Pushable), NEW m
  PROVE  /\ s \o t \in Seq(Pushable)
         /\ Satisfies(s \o t, m) <=> Satisfies(s, m) /\ Satisfies(t, m)
<1> DEFINE both == s \o t
<1>1. /\ both \in Seq(Pushable) /\ Len(s) \in Nat /\ Len(t) \in Nat
      /\ DOMAIN both = 1 .. Len(s) + Len(t) /\ DOMAIN s = 1 .. Len(s) /\ DOMAIN t = 1 .. Len(t)
      /\ \A k \in 1 .. Len(s) : both[k] = s[k]
      /\ \A k \in 1 .. Len(t) : both[Len(s) + k] = t[k]
  OBVIOUS
<1> HIDE DEF both
<1>2. \A k \in DOMAIN s : k \in DOMAIN both
  BY <1>1
<1>3. \A k \in DOMAIN t : Len(s) + k \in DOMAIN both
  BY <1>1
<1>4. Satisfies(both, m) => Satisfies(s, m)
  BY <1>1, <1>2 DEF Satisfies
<1>5. Satisfies(both, m) => Satisfies(t, m)
  <2> SUFFICES ASSUME Satisfies(both, m), NEW k \in DOMAIN t
               PROVE  m \in Satisfying(t[k].expr, t[k].taken)
    BY DEF Satisfies
  <2>1. m \in Satisfying(both[Len(s) + k].expr, both[Len(s) + k].taken)
    BY <1>3 DEF Satisfies
  <2>2. both[Len(s) + k] = t[k]
    BY <1>1
  <2> QED
    BY <2>1, <2>2
<1>6. ASSUME Satisfies(s, m), Satisfies(t, m) PROVE Satisfies(both, m)
  <2> SUFFICES ASSUME NEW k \in DOMAIN both
               PROVE  m \in Satisfying(both[k].expr, both[k].taken)
    BY DEF Satisfies
  <2>1. k \in Nat /\ 1 <= k /\ k <= Len(s) + Len(t)
    BY <1>1
  <2>2. CASE k <= Len(s)
    <3>1. k \in DOMAIN s /\ both[k] = s[k]
      BY <1>1, <2>1, <2>2
    <3> QED
      BY <1>6, <3>1 DEF Satisfies
  <2>3. CASE ~(k <= Len(s))
    <3>1. k - Len(s) \in 1 .. Len(t) /\ Len(s) + (k - Len(s)) = k
      BY <1>1, <2>1, <2>3
    <3>2. both[k] = t[k - Len(s)]
      BY <1>1, <3>1
    <3> QED
      BY <1>1, <1>6, <3>1, <3>2 DEF Satisfies
  <2> QED
    BY <2>2, <2>3
<1> QED
  BY <1>1, <1>4, <1>5, <1>6 DEF both

\* The first constraint of a list, and the rest.
LEMMA TailOK ==
  ASSUME NEW s \in Seq(Pushable), s # <<>>, NEW m
  PROVE  /\ Tail(s) \in Seq(Pushable) /\ Head(s) \in Pushable
         /\ Satisfies(s, m) <=> /\ m \in Satisfying(Head(s).expr, Head(s).taken)
                               /\ Satisfies(Tail(s), m)
<1> DEFINE t == Tail(s)
<1>1. /\ Len(s) \in Nat /\ Len(s) >= 1 /\ DOMAIN s = 1 .. Len(s) /\ Head(s) = s[1]
      /\ t \in Seq(Pushable) /\ DOMAIN t = 1 .. Len(s) - 1 /\ s[1] \in Pushable
      /\ \A k \in 1 .. Len(s) - 1 : t[k] = s[k + 1]
  OBVIOUS
<1> HIDE DEF t
<1>2. ASSUME Satisfies(s, m)
      PROVE  m \in Satisfying(s[1].expr, s[1].taken) /\ Satisfies(t, m)
  <2>1. 1 \in DOMAIN s /\ \A k \in DOMAIN t : k + 1 \in DOMAIN s /\ t[k] = s[k + 1]
    BY <1>1
  <2> QED
    BY <1>2, <2>1 DEF Satisfies
<1>3. ASSUME m \in Satisfying(s[1].expr, s[1].taken), Satisfies(t, m)
      PROVE  Satisfies(s, m)
  <2> SUFFICES ASSUME NEW k \in DOMAIN s
               PROVE  m \in Satisfying(s[k].expr, s[k].taken)
    BY DEF Satisfies
  <2>1. CASE k = 1
    BY <1>3, <2>1
  <2>2. CASE k # 1
    <3>1. k - 1 \in DOMAIN t /\ (k - 1) + 1 = k
      BY <1>1, <2>2
    <3>2. t[k - 1] = s[k]
      BY <1>1, <3>1
    <3> QED
      BY <1>3, <3>1, <3>2 DEF Satisfies
  <2> QED
    BY <2>1, <2>2
<1> QED
  BY <1>1, <1>2, <1>3 DEF t

\* What the solver is left with after a constraint that the program's input
\* satisfies: the models of it, unless there is no other; what is logged
\* does not satisfy it; and no assertion fails.
LEMMA SolverOK ==
  ASSUME g_solver \subseteq Model, input \in g_solver, status = "running",
         NEW h \in Pushable, input \in Satisfying(h.expr, h.taken),
         _sym_push_path_constraint(h.expr, h.taken)
  PROVE  /\ g_solver' \subseteq g_solver /\ g_solver' \subseteq Satisfying(h.expr, h.taken)
         /\ input \in g_solver' /\ status' \in {"running", "timeout"}
         /\ \/ log' = log
            \/ log' = NoLog
            \/ \E m \in g_solver : /\ log' = [found |-> TRUE, model |-> m]
                                   /\ m \notin Satisfying(h.expr, h.taken)
<1> DEFINE e == h.expr
           actual == Satisfying(e, h.taken)
           alternative == Satisfying(e, ~h.taken)
<1>0. e \in [Model -> BOOLEAN] \cup {Null} /\ h.taken \in BOOLEAN
  BY DEF Pushable
<1>1. e # Null => \A m \in Model : m \in alternative => m \notin actual
  <2> SUFFICES ASSUME e # Null, NEW m \in Model, m \in alternative PROVE m \notin actual
    OBVIOUS
  <2>1. e[m] = ~h.taken
    BY DEF Satisfying
  <2>2. e[m] # h.taken
    BY <1>0, <2>1
  <2> QED
    BY <2>2 DEF Satisfying
<1>2. e = Null => actual = Model
  BY DEF Satisfying
<1>3. input \in Model /\ input \in actual
  OBVIOUS
<1>4. \/ e = Null /\ UNCHANGED <<g_solver, log, status>>
      \/ e # Null /\ actual = Model /\ log' = NoLog /\ UNCHANGED <<g_solver, status>>
      \/ e # Null /\ alternative = Model
      \/ /\ e # Null
         /\ log' \in {NoLog} \cup {[found |-> TRUE, model |-> m] : m \in g_solver \cap alternative}
         /\ g_solver' = g_solver \cap actual
         /\ \/ status' = IF Debug /\ g_solver' = {} THEN "infeasible" ELSE status
            \/ status' = "timeout"
  BY DEF _sym_push_path_constraint
<1> HIDE DEF e, actual, alternative
<1>5. CASE e = Null /\ UNCHANGED <<g_solver, log, status>>
  BY <1>2, <1>3, <1>5 DEF e, actual
<1>6. CASE e # Null /\ actual = Model /\ log' = NoLog /\ UNCHANGED <<g_solver, status>>
  BY <1>3, <1>6 DEF e, actual
<1>7. CASE e # Null /\ alternative = Model
  BY <1>1, <1>3, <1>7
<1>8. CASE /\ e # Null
           /\ log' \in {NoLog} \cup {[found |-> TRUE, model |-> m] : m \in g_solver \cap alternative}
           /\ g_solver' = g_solver \cap actual
           /\ \/ status' = IF Debug /\ g_solver' = {} THEN "infeasible" ELSE status
              \/ status' = "timeout"
  <2>1. input \in g_solver' /\ g_solver' # {}
    BY <1>3, <1>8
  <2>2. status' \in {"running", "timeout"}
    BY <1>8, <2>1
  <2>3. log' = NoLog \/ \E m \in g_solver : log' = [found |-> TRUE, model |-> m] /\ m \notin actual
    BY <1>1, <1>8
  <2> QED
    BY <1>8, <2>1, <2>2, <2>3 DEF e, actual
<1> QED
  BY <1>4, <1>5, <1>6, <1>7, <1>8

\* Pushing a constraint.
LEMMA PushInv ==
  ASSUME IInv, Push
  PROVE  IInv'
<1>0. Typed /\ InputRead /\ OwnPath /\ Decides /\ ValuesKnown /\ NewInputDiverges
  BY DEF IInv
<1> DEFINE h == Head(pushes)
           actual == Satisfying(h.expr, h.taken)
<1>1. /\ status = "running" /\ pushes # <<>> /\ pushes' = Tail(pushes)
      /\ _sym_push_path_constraint(h.expr, h.taken)
      /\ UNCHANGED <<g_config_input, stdinBytes, input, offset, mem, choice, exact, steps>>
  BY DEF Push
<1>2. /\ pushes' \in Seq(Pushable) /\ h \in Pushable
      /\ \A m : Satisfies(pushes, m) <=> m \in actual /\ Satisfies(pushes', m)
  BY <1>0, <1>1, TailOK DEF Typed
<1>3. /\ g_solver' \subseteq g_solver /\ g_solver' \subseteq actual
      /\ input \in g_solver' /\ status' \in {"running", "timeout"}
      /\ \/ log' = log
         \/ log' = NoLog
         \/ \E m \in g_solver : log' = [found |-> TRUE, model |-> m] /\ m \notin actual
  BY <1>0, <1>1, <1>2, SolverOK DEF Typed, OwnPath
<1> HIDE DEF h, actual
<1>4. Typed'
  BY <1>0, <1>1, <1>2, <1>3 DEF Typed
<1>5. InputRead'
  BY <1>0, <1>1 DEF InputRead
<1>6. \A x, m : ExactFor(x, m)' <=> ExactFor(x, m)
  BY <1>1 DEF ExactFor, ValueOf
<1>7. \A m : Satisfies(pushes, m)' <=> Satisfies(pushes', m)
  BY DEF Satisfies
<1>8. OwnPath'
  <2>1. \A c \in Cell : ExactFor(mem[c], input)'
    BY <1>0, <1>1 DEF OwnPath, ExactFor, ValueOf
  <2>2. Satisfies(pushes, input)'
    BY <1>0, <1>1, <1>2 DEF OwnPath, Satisfies
  <2> QED
    BY <1>3, <2>1, <2>2, <1>1 DEF OwnPath
<1>9. \A m \in g_solver' : Satisfies(pushes', m) <=> Satisfies(pushes, m)
  BY <1>2, <1>3
<1>10. Decides'
  BY <1>0, <1>1, <1>3, <1>7, <1>9 DEF Decides
<1>11. ValuesKnown'
  <2>1. \A m : \A c \in Cell : ExactFor(mem[c], m)' <=> ExactFor(mem[c], m)
    BY <1>1 DEF ExactFor, ValueOf
  <2> QED
    BY <1>0, <1>1, <1>3, <1>7, <1>9, <2>1 DEF ValuesKnown
<1>12. NewInputDiverges'
  <2>1. CASE log' = log
    BY <1>0, <1>1, <2>1 DEF NewInputDiverges
  <2>2. CASE log' = NoLog
    BY <2>2 DEF NewInputDiverges, NoLog
  <2>3. ASSUME NEW m \in g_solver, log' = [found |-> TRUE, model |-> m], m \notin actual, exact
        PROVE  m \in choice.before \ choice.same
    BY <1>0, <1>1, <1>2, <2>3 DEF Decides
  <2>4. CASE \E m \in g_solver : log' = [found |-> TRUE, model |-> m] /\ m \notin actual
    BY <1>1, <2>3, <2>4 DEF NewInputDiverges
  <2> QED
    BY <1>3, <2>1, <2>2, <2>4
<1> QED
  BY <1>4, <1>5, <1>8, <1>10, <1>11, <1>12 DEF IInv
-----------------------------------------------------------------------------
(***************************************************************************)
(* Instructions in general                                                 *)
(***************************************************************************)
\* All values in memory are exact for the model.
Known(m) == \A c \in Cell : ExactFor(mem[c], m)

\* What an instruction has to get right: for models under which memory is
\* exact, the constraints say whether the instruction does the same, and if
\* so memory is exact afterwards.
Faithful(newMem, constraints, same, precise) ==
  /\ newMem \in [Cell -> Datum] /\ \A c \in Cell : ExactFor(newMem[c], input)
  /\ constraints \in Seq(Pushable) /\ Satisfies(constraints, input)
  /\ same \subseteq Model
  /\ precise \in BOOLEAN
  /\ precise => \A m \in Model : Known(m) =>
       /\ Satisfies(constraints, m) <=> m \in same
       /\ Satisfies(constraints, m) => \A c \in Cell : ExactFor(newMem[c], m)

\* Faithful instructions keep the invariant.
LEMMA ExecuteInv ==
  ASSUME IInv, NEW newMem, NEW constraints, NEW same, NEW precise,
         Faithful(newMem, constraints, same, precise),
         Execute(newMem, constraints, same, precise),
         offset' \in 0 .. InputSize, InputRead'
  PROVE  IInv'
<1>0. Typed /\ InputRead /\ OwnPath /\ Decides /\ ValuesKnown /\ NewInputDiverges
  BY DEF IInv
<1>1. /\ status = "running" /\ pushes = <<>> /\ steps < MaxSteps /\ mem' = newMem
      /\ pushes' = constraints
      /\ choice' = [before |-> choice.before \cap choice.same, same |-> same]
      /\ exact' = (exact /\ precise) /\ steps' = steps + 1 /\ log' = NoLog
      /\ UNCHANGED <<g_config_input, g_solver, status, input>>
  BY DEF Execute, Ready
<1>2. /\ newMem \in [Cell -> Datum] /\ \A c \in Cell : ExactFor(newMem[c], input)
      /\ constraints \in Seq(Pushable) /\ Satisfies(constraints, input)
      /\ same \subseteq Model /\ precise \in BOOLEAN
  BY DEF Faithful
<1>3. Typed'
  <2>1. steps' \in 0 .. MaxSteps
    BY <1>0, <1>1, ProgramAssumption DEF Typed
  <2> QED
    BY <1>0, <1>1, <1>2, <2>1 DEF Typed
<1>4. \A m : Satisfies(pushes, m)' <=> Satisfies(constraints, m)
  BY <1>1 DEF Satisfies
<1>5. \A m : \A c \in Cell : ExactFor(mem[c], m)' <=> ExactFor(newMem[c], m)
  BY <1>1 DEF ExactFor, ValueOf
<1>6. OwnPath'
  <2>1. Satisfies(pushes, input)'
    BY <1>1, <1>2 DEF Satisfies
  <2>2. \A c \in Cell : ExactFor(mem[c], input)'
    BY <1>1, <1>2 DEF ExactFor, ValueOf
  <2> QED
    BY <1>0, <1>1, <2>1, <2>2 DEF OwnPath
<1>7. ASSUME exact, precise, NEW m \in g_solver
      PROVE  /\ m \in choice.before /\ m \in choice.same
             /\ Satisfies(constraints, m) <=> m \in same
             /\ Satisfies(constraints, m) => \A c \in Cell : ExactFor(newMem[c], m)
  <2>1. Satisfies(pushes, m)
    BY <1>1 DEF Satisfies
  <2>2. m \in choice.before /\ m \in choice.same /\ Known(m) /\ m \in Model
    BY <1>0, <1>1, <1>7, <2>1 DEF Decides, ValuesKnown, Known, Typed
  <2> QED
    BY <1>7, <2>2 DEF Faithful
<1>8. Decides'
  BY <1>1, <1>4, <1>7 DEF Decides
<1>9. ValuesKnown'
  BY <1>1, <1>4, <1>5, <1>7 DEF ValuesKnown
<1>10. NewInputDiverges'
  BY <1>1 DEF NewInputDiverges, NoLog
<1> QED
  BY <1>3, <1>6, <1>8, <1>9, <1>10 DEF IInv

\* The same, for instructions that read nothing.
LEMMA ExecuteOnly ==
  ASSUME IInv, NEW newMem, NEW constraints, NEW same, NEW precise,
         Faithful(newMem, constraints, same, precise),
         Execute(newMem, constraints, same, precise), UnchangedInput
  PROVE  IInv'
<1>1. UNCHANGED <<g_config_input, stdinBytes, offset>>
  BY DEF Execute, UnchangedInput
<1>2. InputRead' /\ offset' \in 0 .. InputSize
  BY <1>1 DEF IInv, Typed, InputRead
<1> QED
  BY <1>2, ExecuteInv

-----------------------------------------------------------------------------
(***************************************************************************)
(* Values and operations                                                   *)
(***************************************************************************)
\* An operand: a value in memory, or a number that is not.
Operand == [sem : [Model -> Nat], expr : [Model -> Nat] \cup {Null}]

\* There are inputs.
LEMMA ModelOK ==
  Model # {} /\ Byte \subseteq Nat /\ 0 \in Byte
<1>1. 0 \in Byte /\ Byte \subseteq Nat
  BY BackendAssumption DEF Byte
<1>2. [k \in 0 .. InputSize - 1 |-> 0] \in Model
  BY <1>1 DEF Model
<1> QED
  BY <1>1, <1>2

\* Values in memory are operands.
LEMMA DatumOK ==
  ASSUME NEW x \in Datum
  PROVE  x \in Operand /\ x.sem \in [Model -> Byte] /\ x.expr \in [Model -> Byte] \cup {Null}
BY ModelOK DEF Datum, Operand

\* Concrete values.
LEMMA ConcreteOK ==
  ASSUME input \in Model, NEW v \in Nat
  PROVE  /\ Concrete(v) \in Operand /\ (v \in Byte => Concrete(v) \in Datum)
         /\ Concrete(v).expr = Null /\ \A m \in Model : Concrete(v).sem[m] = v
         /\ \A m \in Model : ExactFor(Concrete(v), m)
BY DEF Concrete, Constant, Operand, Datum, ExactFor, ValueOf

\* An expression for an operand evaluates to its value.
LEMMA OrValueOK ==
  ASSUME input \in Model, NEW x \in Operand
  PROVE  /\ OrValue(x) \in [Model -> Nat]
         /\ x \in Datum => OrValue(x) \in [Model -> Byte]
         /\ \A m \in Model : ExactFor(x, m) => OrValue(x)[m] = x.sem[m]
BY DatumOK DEF OrValue, createValueExpression, Constant, ValueOf, ExactFor, Operand

\* Comparisons.
LEMMA ApplyOK ==
  ASSUME NEW f, NEW g
  PROVE  /\ Apply("equal", f, g) \in [Model -> BOOLEAN]
         /\ Apply("not_equal", f, g) \in [Model -> BOOLEAN]
         /\ \A m \in Model : Apply("equal", f, g)[m] <=> f[m] = g[m]
         /\ \A m \in Model : Apply("not_equal", f, g)[m] <=> f[m] # g[m]
BY DEF Apply, Operation

\* Additions.
LEMMA AddOK ==
  ASSUME NEW f \in [Model -> Nat], NEW g \in [Model -> Nat]
  PROVE  /\ Apply("add", f, g) \in [Model -> Byte]
         /\ \A m \in Model : Apply("add", f, g)[m] = (f[m] + g[m]) % ByteValues
<1>1. \A a, b \in Nat : (a + b) % ByteValues \in Byte
  BY BackendAssumption DEF Byte
<1>2. Apply("add", f, g) = [k \in Model |-> (f[k] + g[k]) % ByteValues]
  BY DEF Apply, Operation
<1> QED
  BY <1>1, <1>2

\* The condition of a branch, and the constraint that is pushed for it.
LEMMA ConditionOK ==
  ASSUME input \in Model, NEW x \in Datum, NEW k \in Byte, ExactFor(x, input),
         NEW m \in Model
  PROVE  LET cond == Condition(x, k)
             list == <<Constraint(cond.expr, ValueOf(cond))>> IN
         /\ cond.sem \in [Model -> BOOLEAN]
         /\ list \in Seq(Pushable) /\ Satisfies(list, input)
         /\ ExactFor(x, m) => (Satisfies(list, m) <=> cond.sem[m] = cond.sem[input])
<1> DEFINE cond == Condition(x, k)
           y == Concrete(k)
           e == Apply("equal", OrValue(x), OrValue(y))
           list == <<Constraint(cond.expr, ValueOf(cond))>>
<1>1. k \in Nat /\ y \in Operand /\ y.expr = Null /\ x \in Operand
      /\ \A l \in Model : y.sem[l] = k /\ ExactFor(y, l)
  BY ModelOK, ConcreteOK, DatumOK
<1>2. cond.sem = Apply("equal", x.sem, y.sem) /\ cond.expr = IF x.expr = Null THEN Null ELSE e
  BY <1>1 DEF Condition, Computed
<1>3. cond.sem \in [Model -> BOOLEAN] /\ \A l \in Model : cond.sem[l] <=> x.sem[l] = k
  <2> DEFINE f == Apply("equal", x.sem, y.sem)
  <2>1. f \in [Model -> BOOLEAN] /\ \A l \in Model : f[l] <=> x.sem[l] = y.sem[l]
    BY ApplyOK
  <2> HIDE DEF f, cond
  <2>2. cond.sem = f
    BY <1>2 DEF f
  <2> QED
    BY <1>1, <2>1, <2>2
<1>4. \A l \in Model : ExactFor(x, l) => OrValue(x)[l] = x.sem[l] /\ OrValue(y)[l] = k
  BY <1>1, OrValueOK
<1>5. e \in [Model -> BOOLEAN] /\ \A l \in Model : ExactFor(x, l) => (e[l] <=> x.sem[l] = k)
  <2>1. e \in [Model -> BOOLEAN] /\ \A l \in Model : e[l] <=> OrValue(x)[l] = OrValue(y)[l]
    BY ApplyOK
  <2> HIDE DEF e
  <2> QED
    BY <1>4, <2>1
<1>6. ValueOf(cond) \in BOOLEAN /\ ValueOf(cond) = cond.sem[input]
  BY <1>3 DEF ValueOf
<1> HIDE DEF cond, e, y
<1>7. CASE x.expr = Null
  <2>1. cond.expr = Null
    BY <1>2, <1>7
  <2>2. list \in Seq(Pushable)
    BY <1>6, <2>1 DEF Constraint, Pushable
  <2>3. \A l \in Model : Satisfies(list, l)
    BY <2>1 DEF Satisfies, Constraint, Satisfying
  <2>4. ExactFor(x, m) => x.sem[m] = x.sem[input]
    BY <1>7 DEF ExactFor, ValueOf
  <2>5. ExactFor(x, m) => (cond.sem[m] <=> cond.sem[input])
    BY <1>3, <2>4
  <2>6. ExactFor(x, m) => cond.sem[m] = cond.sem[input]
    BY <1>3, <2>5
  <2> QED
    BY <1>3, <2>2, <2>3, <2>6 DEF cond
<1>8. CASE x.expr # Null
  <2>1. cond.expr = e
    BY <1>2, <1>8
  <2>2. \A l \in Model : list \in Seq(Pushable) /\ (Satisfies(list, l) <=> (e[l] <=> ValueOf(cond)))
    BY <1>5, <1>6, <2>1, OneOK, ModelOK
  <2>3. \A l \in Model : ExactFor(x, l) => (Satisfies(list, l) <=> (cond.sem[l] <=> cond.sem[input]))
    BY <1>3, <1>5, <1>6, <2>2
  <2>4. (cond.sem[m] <=> cond.sem[input]) <=> cond.sem[m] = cond.sem[input]
    BY <1>3
  <2> QED
    BY <1>3, <2>2, <2>3, <2>4 DEF cond
<1> QED
  BY <1>7, <1>8

\* The constraint that fixes a value.
LEMMA TryOK ==
  ASSUME input \in Model, NEW x \in Operand, ExactFor(x, input), NEW m \in Model
  PROVE  /\ tryAlternative(x) = tryAlternativeValue(x)
         /\ tryAlternativeValue(x) \in Seq(Pushable)
         /\ Satisfies(tryAlternativeValue(x), input)
         /\ ExactFor(x, m) => (Satisfies(tryAlternativeValue(x), m) <=> m \in Same(x.sem))
<1> DEFINE e == Apply("equal", x.expr, Constant(ValueOf(x)))
<1>1. tryAlternative(x) = tryAlternativeValue(x)
  BY DEF tryAlternative, tryAlternativeValue, createValueExpression
<1>2. m \in Same(x.sem) <=> x.sem[m] = x.sem[input]
  BY DEF Same
<1>3. CASE x.expr = Null
  <2>1. tryAlternativeValue(x) = <<>>
    BY <1>3 DEF tryAlternativeValue
  <2>2. ExactFor(x, m) => x.sem[m] = x.sem[input]
    BY <1>3 DEF ExactFor, ValueOf
  <2> QED
    BY <1>1, <1>2, <2>1, <2>2, NoneOK
<1>4. CASE x.expr # Null
  <2>1. tryAlternativeValue(x) = <<Constraint(e, TRUE)>>
    BY <1>4 DEF tryAlternativeValue
  <2>2. e \in [Model -> BOOLEAN] /\ \A l \in Model : e[l] <=> x.expr[l] = x.sem[input]
    <3>1. e \in [Model -> BOOLEAN] /\ \A l \in Model : e[l] <=> x.expr[l] = Constant(ValueOf(x))[l]
      BY ApplyOK
    <3> HIDE DEF e
    <3>2. \A l \in Model : Constant(ValueOf(x))[l] = x.sem[input]
      BY DEF Constant, ValueOf
    <3> QED
      BY <3>1, <3>2
  <2>3. \A l \in Model : ExactFor(x, l) => x.expr[l] = x.sem[l]
    BY <1>4 DEF ExactFor
  <2> HIDE DEF e
  <2>4. \A l \in Model : /\ <<Constraint(e, TRUE)>> \in Seq(Pushable)
                         /\ Satisfies(<<Constraint(e, TRUE)>>, l) <=> e[l]
    BY <2>2, OneOK, ModelOK
  <2> QED
    BY <1>1, <1>2, <2>1, <2>2, <2>3, <2>4
<1> QED
  BY <1>3, <1>4

-----------------------------------------------------------------------------
(***************************************************************************)
(* Instructions                                                            *)
(***************************************************************************)
\* What the invariant says about memory.
LEMMA MemoryOK ==
  ASSUME IInv
  PROVE  /\ input \in Model /\ Known(input) /\ mem \in [Cell -> Datum]
         /\ \A c \in Cell : mem[c] \in Datum /\ mem[c] \in Operand
BY DatumOK DEF IInv, Typed, OwnPath, Known

\* An instruction without constraints, which does the same for all inputs.
LEMMA Unconditional ==
  ASSUME input \in Model, NEW newMem \in [Cell -> Datum], Known(input),
         \A m \in Model : Known(m) => \A c \in Cell : ExactFor(newMem[c], m)
  PROVE  Faithful(newMem, <<>>, Model, TRUE)
<1>1. <<>> \in Seq(Pushable) /\ \A m \in Model : Satisfies(<<>>, m)
  BY NoneOK
<1> QED
  BY <1>1 DEF Faithful

\* Arithmetic.
LEMMA BinaryInv ==
  ASSUME IInv, NEW c \in Cell, NEW d \in Cell, visitBinaryOperator(c, d)
  PROVE  IInv'
<1> DEFINE x == mem[c]
           y == mem[d]
           r == Computed("add", x, y)
           newMem == [mem EXCEPT ![c] = r]
<1>0. Execute(newMem, <<>>, Model, TRUE) /\ UnchangedInput
  BY DEF visitBinaryOperator
<1>1. /\ input \in Model /\ Known(input) /\ mem \in [Cell -> Datum]
      /\ x \in Datum /\ y \in Datum /\ x \in Operand /\ y \in Operand
  BY MemoryOK
<1>2. \A m \in Model : Known(m) => ExactFor(x, m) /\ ExactFor(y, m)
  BY DEF Known
<1> HIDE DEF x, y
<1> DEFINE sum == Apply("add", x.sem, y.sem)
           e   == Apply("add", OrValue(x), OrValue(y))
<1>3. x.sem \in [Model -> Nat] /\ y.sem \in [Model -> Nat]
  BY <1>1 DEF Operand
<1>4. OrValue(x) \in [Model -> Nat] /\ OrValue(y) \in [Model -> Nat]
  BY <1>1, OrValueOK
<1>5. sum \in [Model -> Byte] /\ \A m \in Model : sum[m] = (x.sem[m] + y.sem[m]) % ByteValues
  BY <1>3, AddOK
<1>6. e \in [Model -> Byte] /\ \A m \in Model : e[m] = (OrValue(x)[m] + OrValue(y)[m]) % ByteValues
  BY <1>4, AddOK
<1>7. r.sem = sum /\ r.expr = IF x.expr = Null /\ y.expr = Null THEN Null ELSE e
  BY DEF Computed
<1>8. r \in Datum
  BY <1>5, <1>6 DEF Computed, Datum
<1> HIDE DEF sum, e, r
<1>9. ASSUME NEW m \in Model, Known(m) PROVE ExactFor(r, m)
  <2>0. ExactFor(x, m) /\ ExactFor(y, m) /\ ExactFor(x, input) /\ ExactFor(y, input)
    BY <1>1, <1>2, <1>9
  <2>1. CASE x.expr = Null /\ y.expr = Null
    <3>1. x.sem[m] = x.sem[input] /\ y.sem[m] = y.sem[input]
      BY <2>0, <2>1 DEF ExactFor, ValueOf
    <3>2. sum[m] = sum[input]
      BY <1>1, <1>5, <3>1
    <3> QED
      BY <1>7, <2>1, <3>2 DEF ExactFor, ValueOf
  <2>2. CASE ~(x.expr = Null /\ y.expr = Null)
    <3>1. OrValue(x)[m] = x.sem[m] /\ OrValue(y)[m] = y.sem[m]
      BY <1>1, <2>0, OrValueOK
    <3>2. sum[m] = e[m]
      BY <1>5, <1>6, <3>1
    <3>3. e # Null
      BY <1>6, NotNull, ModelOK
    <3> QED
      BY <1>7, <2>2, <3>2, <3>3 DEF ExactFor
  <2> QED
    BY <2>1, <2>2
<1>10. newMem \in [Cell -> Datum] /\ \A t \in Cell : newMem[t] = IF t = c THEN r ELSE mem[t]
  BY <1>1, <1>8
<1> HIDE DEF newMem
<1>11. \A m \in Model : Known(m) => \A t \in Cell : ExactFor(newMem[t], m)
  BY <1>9, <1>10 DEF Known
<1>12. Faithful(newMem, <<>>, Model, TRUE)
  BY <1>1, <1>10, <1>11, Unconditional
<1> QED
  BY <1>0, <1>12, ExecuteOnly

\* Branches.
LEMMA BranchInv ==
  ASSUME IInv, NEW c \in Cell, NEW k \in Consts, visitBranchInst(c, k)
  PROVE  IInv'
<1> DEFINE x == mem[c]
           cond == Condition(x, k)
           list == <<Constraint(cond.expr, ValueOf(cond))>>
<1>0. Execute(mem, list, Same(cond.sem), TRUE) /\ UnchangedInput
  BY DEF visitBranchInst
<1>1. /\ input \in Model /\ Known(input) /\ mem \in [Cell -> Datum] /\ x \in Datum /\ k \in Byte
  BY MemoryOK, ProgramAssumption
<1>2. \A m \in Model : Known(m) => ExactFor(x, m)
  BY DEF Known
<1> HIDE DEF x
<1>3. /\ list \in Seq(Pushable) /\ Satisfies(list, input)
      /\ \A m \in Model : ExactFor(x, m) => (Satisfies(list, m) <=> cond.sem[m] = cond.sem[input])
  BY <1>1, <1>2, ConditionOK
<1> HIDE DEF list, cond
<1>4. Same(cond.sem) \subseteq Model /\ \A m \in Model : m \in Same(cond.sem) <=> cond.sem[m] = cond.sem[input]
  BY DEF Same
<1>5. Faithful(mem, list, Same(cond.sem), TRUE)
  BY <1>1, <1>2, <1>3, <1>4 DEF Faithful, Known
<1> QED
  BY <1>0, <1>5, ExecuteOnly

\* Selects.
LEMMA SelectInv ==
  ASSUME IInv, NEW c \in Cell, NEW k \in Consts, NEW d \in Cell, visitSelectInst(c, k, d)
  PROVE  IInv'
<1> DEFINE x == mem[c]
           y == mem[d]
           cond == Condition(x, k)
           list == <<Constraint(cond.expr, ValueOf(cond))>>
           chosen == IF ValueOf(cond) THEN y ELSE x
           sem == [m \in Model |-> IF cond.sem[m] THEN y.sem[m] ELSE x.sem[m]]
           r == [sem |-> sem, expr |-> chosen.expr]
           newMem == [mem EXCEPT ![c] = r]
<1>0. Execute(newMem, list, Same(cond.sem), TRUE) /\ UnchangedInput
  BY DEF visitSelectInst
<1>1. /\ input \in Model /\ Known(input) /\ mem \in [Cell -> Datum]
      /\ x \in Datum /\ y \in Datum /\ k \in Byte
  BY MemoryOK, ProgramAssumption
<1>2. \A m \in Model : Known(m) => ExactFor(x, m) /\ ExactFor(y, m)
  BY DEF Known
<1> HIDE DEF x, y
<1>3. /\ list \in Seq(Pushable) /\ Satisfies(list, input)
      /\ \A m \in Model : ExactFor(x, m) => (Satisfies(list, m) <=> cond.sem[m] = cond.sem[input])
  BY <1>1, <1>2, ConditionOK
<1> HIDE DEF list, cond
<1>4. Same(cond.sem) \subseteq Model /\ \A m \in Model : m \in Same(cond.sem) <=> cond.sem[m] = cond.sem[input]
  BY DEF Same
<1>5. x.sem \in [Model -> Byte] /\ y.sem \in [Model -> Byte]
      /\ x.expr \in [Model -> Byte] \cup {Null} /\ y.expr \in [Model -> Byte] \cup {Null}
  BY <1>1, DatumOK
<1>6. r \in Datum
  BY <1>5 DEF Datum
<1>7. newMem \in [Cell -> Datum] /\ \A t \in Cell : newMem[t] = IF t = c THEN r ELSE mem[t]
  BY <1>1, <1>6
<1>8. ASSUME NEW m \in Model, Known(m), cond.sem[m] = cond.sem[input]
      PROVE  ExactFor(r, m)
  <2>1. ExactFor(x, m) /\ ExactFor(y, m)
    BY <1>2, <1>8
  <2>2. CASE cond.sem[input]
    <3>1. r.sem[m] = y.sem[m] /\ r.sem[input] = y.sem[input] /\ r.expr = y.expr
      BY <1>1, <1>8, <2>2 DEF ValueOf
    <3> QED
      BY <2>1, <3>1 DEF ExactFor, ValueOf
  <2>3. CASE ~cond.sem[input]
    <3>1. r.sem[m] = x.sem[m] /\ r.sem[input] = x.sem[input] /\ r.expr = x.expr
      BY <1>1, <1>8, <2>3 DEF ValueOf
    <3> QED
      BY <2>1, <3>1 DEF ExactFor, ValueOf
  <2> QED
    BY <2>2, <2>3
<1> HIDE DEF r, newMem
<1>9. \A m \in Model : Known(m) /\ cond.sem[m] = cond.sem[input] => \A t \in Cell : ExactFor(newMem[t], m)
  BY <1>7, <1>8 DEF Known
<1>10. Faithful(newMem, list, Same(cond.sem), TRUE)
  BY <1>1, <1>2, <1>3, <1>4, <1>7, <1>9 DEF Faithful
<1> QED
  BY <1>0, <1>10, ExecuteOnly

\* Switches: the constraints of all cases together say which one is taken.
LEMMA SwitchInv ==
  ASSUME IInv, NEW c \in Cell, visitSwitchInst(c)
  PROVE  IInv'
<1> DEFINE x == mem[c]
           case(v) == IF v \in Range(Cases) THEN v ELSE ByteValues
           sem == [m \in Model |-> case(x.sem[m])]
           e(i) == Apply("equal", x.expr, Constant(Cases[i]))
           list == IF x.expr = Null THEN <<>>
                   ELSE [i \in DOMAIN Cases |-> Constraint(e(i), ValueOf(x) = Cases[i])]
<1>0. Execute(mem, list, Same(sem), TRUE) /\ UnchangedInput
  BY DEF visitSwitchInst
<1>1. /\ input \in Model /\ Known(input) /\ mem \in [Cell -> Datum] /\ x \in Datum
  BY MemoryOK
<1>2. \A m \in Model : Known(m) => ExactFor(x, m)
  BY DEF Known
<1> HIDE DEF x
<1>3. x.sem \in [Model -> Byte] /\ x.expr \in [Model -> Byte] \cup {Null}
  BY <1>1, DatumOK
<1>4. Same(sem) \subseteq Model /\ \A m \in Model : m \in Same(sem) <=> case(x.sem[m]) = case(x.sem[input])
  BY <1>1 DEF Same
<1>5. ByteValues \notin Byte
  BY BackendAssumption DEF Byte
<1>6. \A v : v \in Range(Cases) <=> \E i \in DOMAIN Cases : v = Cases[i]
  BY DEF Range
<1>7. ASSUME NEW v \in Byte, NEW w \in Byte
      PROVE  case(v) = case(w) <=> \A i \in DOMAIN Cases : v = Cases[i] <=> w = Cases[i]
  BY <1>5, <1>6
<1> HIDE DEF case, sem
<1>8. CASE x.expr = Null
  <2>1. list = <<>>
    BY <1>8
  <2>2. \A m \in Model : Known(m) => x.sem[m] = x.sem[input]
    BY <1>2, <1>8 DEF ExactFor, ValueOf
  <2>3. \A m \in Model : Known(m) => m \in Same(sem)
    BY <1>4, <2>2
  <2>4. Faithful(mem, <<>>, Same(sem), TRUE)
    BY <1>1, <1>4, <2>3, NoneOK DEF Faithful, Known
  <2> QED
    BY <1>0, <2>1, <2>4, ExecuteOnly
<1>9. CASE x.expr # Null
  <2> DEFINE n == Len(Cases)
  <2>0. n \in Nat /\ DOMAIN Cases = 1 .. n
    BY ProgramAssumption
  <2> HIDE DEF n
  <2>1. /\ DOMAIN list = 1 .. n
        /\ list = [i \in 1 .. n |-> Constraint(e(i), ValueOf(x) = Cases[i])]
    BY <1>9, <2>0
  <2>2. ASSUME NEW i \in 1 .. n
        PROVE  /\ e(i) \in [Model -> BOOLEAN]
               /\ \A m \in Model : e(i)[m] <=> x.expr[m] = Cases[i]
    <3> DEFINE g == Constant(Cases[i])
               f == Apply("equal", x.expr, g)
    <3>1. f \in [Model -> BOOLEAN] /\ \A m \in Model : f[m] <=> x.expr[m] = g[m]
      BY ApplyOK
    <3>2. \A m \in Model : g[m] = Cases[i]
      BY DEF Constant
    <3> HIDE DEF f, g
    <3>3. e(i) = f
      BY DEF f, g
    <3> HIDE DEF e
    <3> QED
      BY <3>1, <3>2, <3>3
  <2> HIDE DEF e
  <2>3. ASSUME NEW i \in 1 .. n, NEW m \in Model
        PROVE  /\ list[i] \in Pushable
               /\ m \in Satisfying(list[i].expr, list[i].taken)
                    <=> (x.expr[m] = Cases[i] <=> x.sem[input] = Cases[i])
    <3> DEFINE taken == (ValueOf(x) = Cases[i])
    <3>1. list[i] = Constraint(e(i), taken)
      BY <2>1
    <3>2. taken \in BOOLEAN /\ (taken <=> x.sem[input] = Cases[i])
      BY DEF ValueOf
    <3> HIDE DEF taken, list
    <3>3. /\ Constraint(e(i), taken) \in Pushable
          /\ Constraint(e(i), taken).expr = e(i) /\ Constraint(e(i), taken).taken = taken
          /\ m \in Satisfying(e(i), taken) <=> (e(i)[m] <=> taken)
      BY <2>2, <3>2, SatisfyingOK, ModelOK
    <3> QED
      BY <2>2, <3>1, <3>2, <3>3
  <2>4. list \in Seq(Pushable)
    BY <2>0, <2>1, <2>3, <1>1
  <2> HIDE DEF list
  <2>5. \A m \in Model : Satisfies(list, m) <=>
          \A i \in 1 .. n : x.expr[m] = Cases[i] <=> x.sem[input] = Cases[i]
    BY <2>1, <2>3 DEF Satisfies
  <2>6. \A m \in Model : Known(m) => x.expr[m] = x.sem[m]
    BY <1>2, <1>9 DEF ExactFor
  <2>7. \A m \in Model : Known(m) => (Satisfies(list, m) <=> m \in Same(sem))
    <3> SUFFICES ASSUME NEW m \in Model, Known(m) PROVE Satisfies(list, m) <=> m \in Same(sem)
      OBVIOUS
    <3>1. x.sem[m] \in Byte /\ x.sem[input] \in Byte /\ x.expr[m] = x.sem[m]
      BY <1>1, <1>3, <2>6
    <3>2. m \in Same(sem) <=> \A i \in 1 .. n : x.sem[m] = Cases[i] <=> x.sem[input] = Cases[i]
      BY <1>4, <1>7, <2>0, <3>1
    <3> QED
      BY <2>5, <3>1, <3>2
  <2>8. Satisfies(list, input)
    <3>1. x.expr[input] = x.sem[input]
      BY <1>1, <2>6
    <3> QED
      BY <1>1, <2>5, <3>1
  <2>9. Faithful(mem, list, Same(sem), TRUE)
    BY <1>1, <1>4, <2>4, <2>7, <2>8 DEF Faithful, Known
  <2> QED
    BY <1>0, <2>9, ExecuteOnly
<1> QED
  BY <1>8, <1>9

\* Indirect jumps, and other uses of a value that is fixed.
LEMMA FixedInv ==
  ASSUME IInv, NEW x \in Operand, \A m \in Model : Known(m) => ExactFor(x, m),
         NEW newMem \in [Cell -> Datum],
         \A m \in Model : Known(m) /\ x.sem[m] = x.sem[input] => \A c \in Cell : ExactFor(newMem[c], m),
         Execute(newMem, tryAlternativeValue(x), Same(x.sem), TRUE), UnchangedInput
  PROVE  IInv'
<1> DEFINE list == tryAlternativeValue(x)
<1>1. input \in Model /\ Known(input) /\ ExactFor(x, input)
  BY MemoryOK
<1>2. /\ list \in Seq(Pushable) /\ Satisfies(list, input)
      /\ \A m \in Model : ExactFor(x, m) => (Satisfies(list, m) <=> m \in Same(x.sem))
  BY <1>1, TryOK
<1>3. Same(x.sem) \subseteq Model /\ \A m \in Same(x.sem) : x.sem[m] = x.sem[input]
  BY DEF Same
<1> HIDE DEF list
<1>4. Faithful(newMem, list, Same(x.sem), TRUE)
  BY <1>1, <1>2, <1>3 DEF Faithful
<1> QED
  BY <1>4, ExecuteOnly DEF list

\* Indirect jumps.
LEMMA IndirectInv ==
  ASSUME IInv, NEW c \in Cell, visitIndirectBrInst(c)
  PROVE  IInv'
<1>1. mem \in [Cell -> Datum] /\ mem[c] \in Operand /\ input \in Model
      /\ ExactFor(mem[c], input)
  BY MemoryOK DEF Known
<1>2. \A m \in Model : Known(m) => ExactFor(mem[c], m) /\ \A t \in Cell : ExactFor(mem[t], m)
  BY DEF Known
<1>3. Execute(mem, tryAlternativeValue(mem[c]), Same(mem[c].sem), TRUE) /\ UnchangedInput
  BY <1>1, TryOK DEF visitIndirectBrInst
<1> QED
  BY <1>1, <1>2, <1>3, FixedInv

\* Loads at a symbolic index.
LEMMA LoadInv ==
  ASSUME IInv, NEW c \in Cell, visitLoadInst(c)
  PROVE  IInv'
<1> DEFINE x == mem[c]
           r == [sem |-> [m \in Model |-> Table[x.sem[m]]], expr |-> Null]
           newMem == [mem EXCEPT ![c] = r]
<1>1. mem \in [Cell -> Datum] /\ x \in Operand /\ x \in Datum /\ input \in Model /\ ExactFor(x, input)
  BY MemoryOK DEF Known
<1>2. \A m \in Model : Known(m) => ExactFor(x, m)
  BY DEF Known
<1>3. Execute(newMem, tryAlternativeValue(x), Same(x.sem), TRUE) /\ UnchangedInput
  BY <1>1, TryOK DEF visitLoadInst
<1> HIDE DEF x
<1>4. r \in Datum
  BY <1>1, DatumOK, ProgramAssumption DEF Datum
<1>5. newMem \in [Cell -> Datum] /\ \A t \in Cell : newMem[t] = IF t = c THEN r ELSE mem[t]
  BY <1>1, <1>4
<1>6. \A m \in Model : x.sem[m] = x.sem[input] => ExactFor(r, m)
  BY <1>1 DEF ExactFor, ValueOf
<1> HIDE DEF r, newMem
<1>7. \A m \in Model : Known(m) /\ x.sem[m] = x.sem[input] => \A t \in Cell : ExactFor(newMem[t], m)
  BY <1>5, <1>6 DEF Known
<1> QED
  BY <1>1, <1>2, <1>3, <1>5, <1>7, FixedInv

\* Stores to a symbolic address.
LEMMA StoreInv ==
  ASSUME IInv, NEW c \in Cell, NEW d \in Cell, visitStoreInst(c, d)
  PROVE  IInv'
<1> DEFINE x == mem[c]
           y == mem[d]
           target(m) == 1 + (x.sem[m] % Cells)
           r(t) == [sem  |-> [m \in Model |-> IF t = target(m) THEN y.sem[m] ELSE mem[t].sem[m]],
                    expr |-> IF t = target(input) THEN y.expr ELSE mem[t].expr]
           newMem == [t \in Cell |-> r(t)]
<1>1. /\ mem \in [Cell -> Datum] /\ x \in Operand /\ input \in Model /\ ExactFor(x, input)
      /\ y \in Datum /\ \A t \in Cell : mem[t] \in Datum
  BY MemoryOK DEF Known
<1>2. \A m \in Model : Known(m) => ExactFor(x, m) /\ ExactFor(y, m) /\ \A t \in Cell : ExactFor(mem[t], m)
  BY DEF Known
<1>3. Execute(newMem, tryAlternativeValue(x), Same(x.sem), TRUE) /\ UnchangedInput
  BY <1>1, TryOK DEF visitStoreInst
<1> HIDE DEF x, y, target
<1>4. ASSUME NEW t \in Cell PROVE r(t) \in Datum
  <2>1. y.sem \in [Model -> Byte] /\ mem[t].sem \in [Model -> Byte]
        /\ y.expr \in [Model -> Byte] \cup {Null} /\ mem[t].expr \in [Model -> Byte] \cup {Null}
    BY <1>1, DatumOK
  <2> QED
    BY <2>1 DEF Datum
<1>5. newMem \in [Cell -> Datum] /\ \A t \in Cell : newMem[t] = r(t)
  BY <1>4
<1>6. ASSUME NEW m \in Model, Known(m), x.sem[m] = x.sem[input], NEW t \in Cell
      PROVE  ExactFor(r(t), m)
  <2>0. target(m) = target(input)
    BY <1>6 DEF target
  <2>1. CASE t = target(input)
    <3>1. r(t).sem[m] = y.sem[m] /\ r(t).sem[input] = y.sem[input] /\ r(t).expr = y.expr
      BY <1>1, <2>0, <2>1
    <3> QED
      BY <1>2, <1>6, <3>1 DEF ExactFor, ValueOf
  <2>2. CASE t # target(input)
    <3>1. r(t).sem[m] = mem[t].sem[m] /\ r(t).sem[input] = mem[t].sem[input] /\ r(t).expr = mem[t].expr
      BY <1>1, <2>0, <2>2
    <3> QED
      BY <1>2, <1>6, <3>1 DEF ExactFor, ValueOf
  <2> QED
    BY <2>1, <2>2
<1> HIDE DEF r, newMem
<1>7. \A m \in Model : Known(m) /\ x.sem[m] = x.sem[input] => \A t \in Cell : ExactFor(newMem[t], m)
  BY <1>5, <1>6
<1>8. \A m \in Model : Known(m) => ExactFor(x, m)
  BY <1>2
<1> QED
  BY <1>1, <1>3, <1>5, <1>7, <1>8, FixedInv

-----------------------------------------------------------------------------
(***************************************************************************)
(* Library functions                                                       *)
(***************************************************************************)
\* Parameters are exact when memory is.
LEMMA ParameterOK ==
  ASSUME IInv, NEW x \in Numbers \cup Characters
  PROVE  /\ x \in Operand /\ (x \in Characters => x \in Datum)
         /\ \A m \in Model : Known(m) => ExactFor(x, m)
         /\ ExactFor(x, input) /\ ValueOf(x) \in Nat
<1>1. /\ input \in Model /\ Known(input) /\ \A c \in Cell : mem[c] \in Datum /\ mem[c] \in Operand
  BY MemoryOK
<1>2. Cells \in Nat /\ Consts \subseteq Nat /\ Consts \subseteq Byte
  BY ProgramAssumption, ModelOK
<1>3. /\ x \in Operand /\ (x \in Characters => x \in Datum)
      /\ \A m \in Model : Known(m) => ExactFor(x, m)
  <2>1. ASSUME NEW c \in Cell, x = mem[c]
        PROVE  x \in Datum /\ x \in Operand /\ \A m \in Model : Known(m) => ExactFor(x, m)
    BY <1>1, <2>1 DEF Known
  <2>2. ASSUME NEW k \in Consts, x = Concrete(k)
        PROVE  x \in Datum /\ x \in Operand /\ \A m \in Model : ExactFor(x, m)
    BY <1>1, <1>2, <2>2, ConcreteOK
  <2>3. x = Concrete(Cells) => x \in Operand /\ \A m \in Model : ExactFor(x, m)
    BY <1>1, <1>2, ConcreteOK
  <2>4. x \in Characters => (\E c \in Cell : x = mem[c]) \/ (\E k \in Consts : x = Concrete(k))
    BY DEF Characters
  <2>5. x \in Numbers => (\E c \in Cell : x = mem[c]) \/ x = Concrete(Cells)
    BY DEF Numbers
  <2> QED
    BY <2>1, <2>2, <2>3, <2>4, <2>5
<1>4. ValueOf(x) \in Nat
  BY <1>1, <1>3 DEF ValueOf, Operand
<1> QED
  BY <1>1, <1>3, <1>4

\* Allocation.
LEMMA MallocInv ==
  ASSUME IInv, NEW x \in Numbers, malloc(x)
  PROVE  IInv'
<1>1. x \in Operand /\ \A m \in Model : Known(m) => ExactFor(x, m)
  BY ParameterOK
<1>2. mem \in [Cell -> Datum]
  BY MemoryOK
<1>3. Execute(mem, tryAlternativeValue(x), Same(x.sem), TRUE) /\ UnchangedInput
  BY DEF malloc
<1>4. \A m \in Model : Known(m) => \A c \in Cell : ExactFor(mem[c], m)
  BY DEF Known
<1> QED
  BY <1>1, <1>2, <1>3, <1>4, FixedInv

\* Allocation of several members.
LEMMA CallocInv ==
  ASSUME IInv, NEW x \in Numbers, NEW y \in Numbers, calloc(x, y)
  PROVE  IInv'
<1> DEFINE s == tryAlternativeValue(x)
           t == tryAlternativeValue(y)
           same == Same(x.sem) \cap Same(y.sem)
<1>1. /\ x \in Operand /\ y \in Operand /\ ExactFor(x, input) /\ ExactFor(y, input)
      /\ \A m \in Model : Known(m) => ExactFor(x, m) /\ ExactFor(y, m)
  BY ParameterOK
<1>2. mem \in [Cell -> Datum] /\ input \in Model /\ Known(input)
  BY MemoryOK
<1>3. /\ s \in Seq(Pushable) /\ Satisfies(s, input) /\ t \in Seq(Pushable) /\ Satisfies(t, input)
      /\ \A m \in Model : ExactFor(x, m) => (Satisfies(s, m) <=> m \in Same(x.sem))
      /\ \A m \in Model : ExactFor(y, m) => (Satisfies(t, m) <=> m \in Same(y.sem))
  BY <1>1, <1>2, TryOK
<1>4. Execute(mem, s \o t, same, TRUE) /\ UnchangedInput
  BY DEF calloc
<1> HIDE DEF s, t
<1>5. s \o t \in Seq(Pushable) /\ \A m : Satisfies(s \o t, m) <=> Satisfies(s, m) /\ Satisfies(t, m)
  BY <1>3, BothOK
<1>6. same \subseteq Model
  BY DEF Same
<1>7. \A m \in Model : Known(m) => (Satisfies(s \o t, m) <=> m \in same)
  BY <1>1, <1>3, <1>5
<1> HIDE DEF same
<1>8. Faithful(mem, s \o t, same, TRUE)
  BY <1>2, <1>3, <1>5, <1>6, <1>7 DEF Faithful, Known
<1> QED
  BY <1>4, <1>8, ExecuteOnly

\* Filling memory.
LEMMA MemsetInv ==
  ASSUME IInv, NEW i \in Cell, NEW ch \in Characters, NEW x \in Numbers, memset(i, ch, x)
  PROVE  IInv'
<1> DEFINE region == Region(i, ValueOf(x))
           newMem == [t \in Cell |-> IF t \in region THEN ch ELSE mem[t]]
<1>1. /\ x \in Operand /\ ch \in Datum
      /\ \A m \in Model : Known(m) => ExactFor(x, m) /\ ExactFor(ch, m)
  BY ParameterOK
<1>2. mem \in [Cell -> Datum]
  BY MemoryOK
<1>3. Execute(newMem, tryAlternativeValue(x), Same(x.sem), TRUE) /\ UnchangedInput
  BY DEF memset
<1> HIDE DEF region
<1>4. newMem \in [Cell -> Datum] /\ \A t \in Cell : newMem[t] = IF t \in region THEN ch ELSE mem[t]
  BY <1>1, <1>2
<1> HIDE DEF newMem
<1>5. \A m \in Model : Known(m) => \A c \in Cell : ExactFor(newMem[c], m)
  BY <1>1, <1>4 DEF Known
<1> QED
  BY <1>1, <1>3, <1>4, <1>5, FixedInv

\* Bytes that are compared are exact when memory is.
LEMMA AtOK ==
  ASSUME IInv, NEW t \in Address
  PROVE  At(t) \in Datum /\ At(t) \in Operand /\ \A m \in Model : Known(m) => ExactFor(At(t), m)
<1>1. /\ input \in Model /\ \A c \in Cell : mem[c] \in Datum /\ mem[c] \in Operand
  BY MemoryOK
<1>2. CASE t \in Cell
  BY <1>1, <1>2 DEF At, Known
<1>3. CASE t \notin Cell
  <2>1. t - Cells \in 1 .. Len(Text)
    BY <1>3, ProgramAssumption DEF Address, Cell
  <2>2. Text[t - Cells] \in Byte /\ Text[t - Cells] \in Nat
    BY <2>1, ProgramAssumption, ModelOK
  <2> QED
    BY <1>1, <1>3, <2>2, ConcreteOK DEF At
<1> QED
  BY <1>2, <1>3

\* memcmp and bcmp: the constraint says whether the regions are equal.
LEMMA CompareInv ==
  ASSUME IInv, NEW i \in Cell, NEW j \in Address, NEW x \in Numbers, NEW ordered \in BOOLEAN,
         compare(i, j, x, ordered)
  PROVE  IInv'
<1> DEFINE n == ValueOf(x)
           order == Order(i, j, n)
           used == [m \in Model |-> IF ordered THEN order[m] ELSE IF order[m] = 0 THEN 0 ELSE 1]
           e == AllEqual(i, j, n)
           s == tryAlternativeValue(x)
           t == IF isConcrete(i, n) /\ isConcrete(j, n) THEN <<>> ELSE <<Constraint(e, order[input] = 0)>>
           same == Same(x.sem) \cap Same(used)
           Equal(m) == \A k \in 0 .. n - 1 : At(i + k).sem[m] = At(j + k).sem[m]
<1>0. Execute(mem, s \o t, same, ~ordered) /\ UnchangedInput /\ Region(i, n) \cup Region(j, n) \subseteq Address
  BY DEF compare
<1>1. /\ x \in Operand /\ ExactFor(x, input) /\ n \in Nat
      /\ \A m \in Model : Known(m) => ExactFor(x, m)
  BY ParameterOK
<1>2. mem \in [Cell -> Datum] /\ input \in Model /\ Known(input)
  BY MemoryOK
<1>3. /\ s \in Seq(Pushable) /\ Satisfies(s, input)
      /\ \A m \in Model : ExactFor(x, m) => (Satisfies(s, m) <=> m \in Same(x.sem))
  BY <1>1, <1>2, TryOK
<1> HIDE DEF s, n
<1>4. \A k \in 0 .. n - 1 : /\ i + k \in Region(i, n) /\ j + k \in Region(j, n)
                            /\ i + k \in Address /\ j + k \in Address
  BY <1>0, <1>1, ProgramAssumption DEF Region, Cell, Address
<1>5. \A m \in Model : order[m] = 0 <=> Equal(m)
  <2> SUFFICES ASSUME NEW m \in Model PROVE order[m] = 0 <=> Equal(m)
    OBVIOUS
  <2> DEFINE differ == {k \in 0 .. n - 1 : At(i + k).sem[m] # At(j + k).sem[m]}
  <2>1. order[m] = 0 <=> differ = {}
    BY DEF Order
  <2>2. differ = {} <=> Equal(m)
    OBVIOUS
  <2> QED
    BY <2>1, <2>2
<1>6. e \in [Model -> BOOLEAN] /\ \A m \in Model : Known(m) => (e[m] <=> Equal(m))
  <2>1. e \in [Model -> BOOLEAN]
    BY DEF AllEqual
  <2>2. ASSUME NEW m \in Model, Known(m), NEW k \in 0 .. n - 1
        PROVE  OrValue(At(i + k))[m] = At(i + k).sem[m] /\ OrValue(At(j + k))[m] = At(j + k).sem[m]
    <3>1. /\ At(i + k) \in Operand /\ ExactFor(At(i + k), m)
          /\ At(j + k) \in Operand /\ ExactFor(At(j + k), m)
      BY <1>4, <2>2, AtOK
    <3> QED
      BY <1>2, <3>1, OrValueOK
  <2>3. \A m \in Model : e[m] <=> \A k \in 0 .. n - 1 : OrValue(At(i + k))[m] = OrValue(At(j + k))[m]
    BY DEF AllEqual
  <2> HIDE DEF e
  <2> QED
    BY <2>1, <2>2, <2>3
<1> HIDE DEF order, e
<1>7. /\ t \in Seq(Pushable) /\ Satisfies(t, input)
      /\ \A m \in Model : Known(m) => (Satisfies(t, m) <=> (order[m] = 0 <=> order[input] = 0))
  <2>1. CASE isConcrete(i, n) /\ isConcrete(j, n)
    <3>1. t = <<>>
      BY <2>1
    <3>2. ASSUME NEW m \in Model, Known(m), NEW k \in 0 .. n - 1
          PROVE  At(i + k).sem[m] = At(i + k).sem[input] /\ At(j + k).sem[m] = At(j + k).sem[input]
      <4>1. At(i + k).expr = Null /\ At(j + k).expr = Null
        BY <1>4, <2>1 DEF isConcrete
      <4>2. ExactFor(At(i + k), m) /\ ExactFor(At(j + k), m)
        BY <1>4, <3>2, AtOK
      <4> QED
        BY <4>1, <4>2 DEF ExactFor, ValueOf
    <3>3. \A m \in Model : Known(m) => (Equal(m) <=> Equal(input))
      BY <3>2
    <3> HIDE DEF Equal
    <3>4. \A m \in Model : Known(m) => (order[m] = 0 <=> order[input] = 0)
      BY <1>2, <1>5, <3>3
    <3> QED
      BY <1>2, <3>1, <3>4, NoneOK
  <2>2. CASE ~(isConcrete(i, n) /\ isConcrete(j, n))
    <3> DEFINE taken == (order[input] = 0)
    <3>1. taken \in BOOLEAN /\ (taken <=> order[input] = 0)
      OBVIOUS
    <3>2. t = <<Constraint(e, taken)>>
      BY <2>2
    <3> HIDE DEF taken, t, Equal
    <3>3. \A m \in Model : t \in Seq(Pushable) /\ (Satisfies(t, m) <=> (e[m] <=> taken))
      BY <1>6, <3>1, <3>2, OneOK, ModelOK
    <3> QED
      BY <1>2, <1>5, <1>6, <3>1, <3>3
  <2> QED
    BY <2>1, <2>2
<1>8. s \o t \in Seq(Pushable) /\ \A m : Satisfies(s \o t, m) <=> Satisfies(s, m) /\ Satisfies(t, m)
  BY <1>3, <1>7, BothOK
<1>9. same \subseteq Model
  BY DEF Same
<1>10. ~ordered => \A m \in Model : m \in Same(used) <=> (order[m] = 0 <=> order[input] = 0)
  BY <1>2 DEF Same
<1> HIDE DEF t, used
<1>11. ~ordered => \A m \in Model : Known(m) => (Satisfies(s \o t, m) <=> m \in same)
  BY <1>1, <1>3, <1>7, <1>8, <1>10
<1> HIDE DEF same
<1>12. Faithful(mem, s \o t, same, ~ordered)
  BY <1>2, <1>3, <1>7, <1>8, <1>9, <1>11 DEF Faithful, Known
<1> QED
  BY <1>0, <1>12, ExecuteOnly

\* Every set of numbers has a least one if the order is well-founded,
LEMMA LeastIn ==
  ASSUME NEW R, IsWellFoundedOn(R, Nat), \A x, y \in Nat : x < y => <<x, y>> \in R,
         NEW T \in SUBSET Nat, T # {}
  PROVE  \E n \in T : \A m \in T : n <= m
<1>0. T \subseteq Nat
  OBVIOUS
<1>1. PICK n \in T : \A m \in T : ~(<<m, n>> \in R)
  BY ONLY WFMin, IsWellFoundedOn(R, Nat), <1>0, T # {}, Zenon
<1>2. \A m \in T : ~(m < n)
  BY <1>0, <1>1, Zenon
<1>3. \A m \in T : n <= m
  BY <1>0, <1>2
<1> QED
  BY <1>3

\* and it is.
LEMMA LeastNumber ==
  ASSUME NEW T \in SUBSET Nat, T # {}
  PROVE  \E n \in T : \A m \in T : n <= m
<1>1. \A x, y \in Nat : x < y => <<x, y>> \in OpToRel(<, Nat)
  BY DEF OpToRel
<1> QED
  BY <1>1, NatLessThanWellFounded, LeastIn

\* Where a search for a character ends, and that it does not end before.
LEMMA StopsAtOK ==
  ASSUME NEW i \in Cell, NEW ch, NEW m
  PROVE  /\ StopsAt(i, ch, m) \in i .. Cells + 1
         /\ \A t \in i .. StopsAt(i, ch, m) - 1 : t \in Cell /\ mem[t].sem[m] # ch.sem[m]
<1> DEFINE stops == {t \in i .. Cells : mem[t].sem[m] \in {0, ch.sem[m]}}
           end == StopsAt(i, ch, m)
<1>0. Cells \in Nat /\ i \in Nat /\ i >= 1 /\ i <= Cells
  BY ProgramAssumption DEF Cell
<1>1. CASE stops = {}
  <2>1. end = Cells + 1
    BY <1>1 DEF StopsAt
  <2> HIDE DEF end
  <2>2. \A t \in i .. end - 1 : t \in Cell /\ t \in i .. Cells
    BY <1>0, <2>1 DEF Cell
  <2>3. end \in i .. Cells + 1
    BY <1>0, <2>1
  <2> QED
    BY <1>1, <2>2, <2>3 DEF end
<1>2. CASE stops # {}
  <2>1. stops \in SUBSET Nat /\ stops \subseteq i .. Cells
    BY <1>0
  <2>2. \E t \in stops : \A u \in stops : t <= u
    BY <1>2, <2>1, LeastNumber
  <2>3. end = CHOOSE t \in stops : \A u \in stops : t <= u
    BY <1>2 DEF StopsAt
  <2> HIDE DEF end
  <2>4. end \in stops /\ \A u \in stops : end <= u
    BY <2>2, <2>3
  <2>5. end \in i .. Cells
    BY <2>1, <2>4
  <2>6. \A t \in i .. end - 1 : t \in Cell /\ t \in i .. Cells /\ ~(end <= t)
    BY <1>0, <2>5 DEF Cell
  <2>7. \A t \in i .. end - 1 : t \notin stops
    BY <2>4, <2>6
  <2>8. end \in i .. Cells + 1
    BY <1>0, <2>5
  <2> QED
    BY <2>6, <2>7, <2>8 DEF end
<1> QED
  BY <1>1, <1>2

\* strchr: a search over concrete bytes for a symbolic character goes the
\* same way for the inputs that satisfy its constraints, and in any case the
\* program's own input satisfies them.
LEMMA StrchrInv ==
  ASSUME IInv, NEW i \in Cell, NEW ch \in Characters, strchr(i, ch)
  PROVE  IInv'
<1> DEFINE length == StopsAt(i, ch, input) - i
           precise == isConcrete(i, Cells - i + 1)
           found == [m \in Model |->
                       LET t == StopsAt(i, ch, m) IN
                       IF t <= Cells /\ mem[t].sem[m] = ch.sem[m] THEN t ELSE 0]
           e(k) == Apply("not_equal", OrValue(mem[i + k - 1]), OrValue(ch))
           s == tryAlternativeValue(ch)
           t == IF isConcrete(i, length) /\ ch.expr = Null THEN <<>>
                ELSE [k \in 1 .. length |-> Constraint(e(k), TRUE)]
           same == Same(ch.sem) \cap Same(found)
<1>0. Execute(mem, s \o t, same, precise) /\ UnchangedInput
  BY DEF strchr
<1>1. /\ ch \in Operand /\ ExactFor(ch, input)
      /\ \A m \in Model : Known(m) => ExactFor(ch, m)
  BY ParameterOK
<1>2. /\ mem \in [Cell -> Datum] /\ input \in Model /\ Known(input)
      /\ \A c \in Cell : mem[c] \in Operand
  BY MemoryOK
<1>3. /\ s \in Seq(Pushable) /\ Satisfies(s, input)
      /\ \A m \in Model : ExactFor(ch, m) => (Satisfies(s, m) <=> m \in Same(ch.sem))
  BY <1>1, <1>2, TryOK
<1> HIDE DEF s
<1>4. Cells \in Nat /\ i \in Nat /\ i >= 1 /\ i <= Cells
  BY ProgramAssumption DEF Cell
<1>5. length \in Nat
  BY <1>4, StopsAtOK
<1>6. \A k \in 1 .. length : /\ i + k - 1 \in Cell
                             /\ mem[i + k - 1].sem[input] # ch.sem[input]
  <2>1. \A k \in 1 .. length : i + k - 1 \in i .. StopsAt(i, ch, input) - 1
    BY <1>4, <1>5, StopsAtOK
  <2> QED
    BY <2>1, StopsAtOK
<1> HIDE DEF length
<1>7. ASSUME NEW k \in 1 .. length
      PROVE  /\ e(k) \in [Model -> BOOLEAN]
             /\ \A m \in Model : Known(m) =>
                  (e(k)[m] <=> mem[i + k - 1].sem[m] # ch.sem[m])
  <2> DEFINE x == mem[i + k - 1]
             f == Apply("not_equal", OrValue(x), OrValue(ch))
  <2>1. f \in [Model -> BOOLEAN] /\ \A m \in Model : f[m] <=> OrValue(x)[m] # OrValue(ch)[m]
    BY ApplyOK
  <2>2. x \in Operand /\ \A m \in Model : Known(m) => ExactFor(x, m)
    BY <1>2, <1>6 DEF Known
  <2> HIDE DEF f, x
  <2>3. \A m \in Model : Known(m) => OrValue(x)[m] = x.sem[m] /\ OrValue(ch)[m] = ch.sem[m]
    BY <1>1, <1>2, <2>2, OrValueOK
  <2>4. e(k) = f
    BY DEF f, x
  <2> HIDE DEF e
  <2>5. f \in [Model -> BOOLEAN] /\ \A m \in Model : Known(m) => (f[m] <=> x.sem[m] # ch.sem[m])
    BY <2>1, <2>3
  <2> QED
    BY <2>4, <2>5 DEF x
<1> HIDE DEF e
<1>8. /\ t \in Seq(Pushable) /\ Satisfies(t, input)
      /\ \A m \in Model : Known(m) /\ (\A k \in 1 .. length : mem[i + k - 1].sem[m] # ch.sem[m]) => Satisfies(t, m)
  <2>1. CASE isConcrete(i, length) /\ ch.expr = Null
    BY <2>1, NoneOK
  <2>2. CASE ~(isConcrete(i, length) /\ ch.expr = Null)
    <3>1. DOMAIN t = 1 .. length /\ t = [k \in 1 .. length |-> Constraint(e(k), TRUE)]
      BY <2>2
    <3>2. ASSUME NEW k \in 1 .. length, NEW m \in Model
          PROVE  /\ t[k] \in Pushable
                 /\ m \in Satisfying(t[k].expr, t[k].taken) <=> e(k)[m]
      <4>1. t[k] = Constraint(e(k), TRUE)
        BY <3>1
      <4> HIDE DEF t
      <4>2. /\ Constraint(e(k), TRUE) \in Pushable
            /\ Constraint(e(k), TRUE).expr = e(k) /\ Constraint(e(k), TRUE).taken = TRUE
            /\ m \in Satisfying(e(k), TRUE) <=> e(k)[m]
        BY <1>7, SatisfyingOK, ModelOK
      <4> QED
        BY <4>1, <4>2
    <3>3. t \in Seq(Pushable)
      <4>1. \A k \in 1 .. length : t[k] \in Pushable
        BY <1>2, <3>2
      <4> HIDE DEF t
      <4>2. t = [k \in 1 .. length |-> t[k]]
        BY <3>1
      <4> QED
        BY <1>5, <4>1, <4>2
    <3> HIDE DEF t
    <3>4. \A m \in Model : Satisfies(t, m) <=> \A k \in 1 .. length : e(k)[m]
      BY <3>1, <3>2 DEF Satisfies
    <3>5. \A m \in Model : Known(m) /\ (\A k \in 1 .. length : mem[i + k - 1].sem[m] # ch.sem[m]) => Satisfies(t, m)
      BY <1>7, <3>4
    <3> QED
      BY <1>2, <1>6, <3>3, <3>5
  <2> QED
    BY <2>1, <2>2
<1> HIDE DEF t
<1>9. s \o t \in Seq(Pushable) /\ \A m : Satisfies(s \o t, m) <=> Satisfies(s, m) /\ Satisfies(t, m)
  BY <1>3, <1>8, BothOK
<1>10. same \subseteq Model
  BY DEF Same
<1>11. ASSUME precise, NEW m \in Model, Known(m), ch.sem[m] = ch.sem[input]
       PROVE  Satisfies(t, m) /\ m \in Same(found)
  <2>1. \A u \in i .. Cells : mem[u].sem[m] = mem[u].sem[input]
    <3> SUFFICES ASSUME NEW u \in i .. Cells PROVE mem[u].sem[m] = mem[u].sem[input]
      OBVIOUS
    <3>1. u \in Cell /\ u \in Region(i, Cells - i + 1)
      BY <1>4 DEF Cell, Region
    <3>2. mem[u].expr = Null
      BY <1>11, <3>1 DEF isConcrete, At
    <3> QED
      BY <1>11, <3>1, <3>2 DEF Known, ExactFor, ValueOf
  <2>3. StopsAt(i, ch, m) = StopsAt(i, ch, input)
    <3> DEFINE stops(l) == {u \in i .. Cells : mem[u].sem[l] \in {0, ch.sem[l]}}
               end(l) == IF stops(l) = {} THEN Cells + 1
                         ELSE CHOOSE u \in stops(l) : \A v \in stops(l) : u <= v
    <3>1. stops(m) = stops(input)
      BY <1>11, <2>1
    <3>2. StopsAt(i, ch, m) = end(m) /\ StopsAt(i, ch, input) = end(input)
      BY DEF StopsAt
    <3> HIDE DEF stops
    <3>3. end(m) = end(input)
      BY <3>1
    <3> QED
      BY <3>2, <3>3
  <2>4. StopsAt(i, ch, input) \in i .. Cells + 1
    BY StopsAtOK
  <2>5. found[m] = found[input]
    <3> DEFINE u == StopsAt(i, ch, input)
    <3>1. found[m] = IF u <= Cells /\ mem[u].sem[m] = ch.sem[m] THEN u ELSE 0
      BY <2>3
    <3>2. found[input] = IF u <= Cells /\ mem[u].sem[input] = ch.sem[input] THEN u ELSE 0
      BY <1>2
    <3> HIDE DEF u
    <3>3. u <= Cells => u \in i .. Cells
      BY <1>4, <2>4 DEF u
    <3> HIDE DEF found
    <3> QED
      BY <1>11, <2>1, <3>1, <3>2, <3>3
  <2>6. \A k \in 1 .. length : mem[i + k - 1].sem[m] # ch.sem[m]
    <3>1. \A k \in 1 .. length : i + k - 1 \in i .. Cells
      BY <1>4, <1>5, <1>6 DEF Cell
    <3> QED
      BY <1>6, <1>11, <2>1, <3>1
  <2> QED
    BY <1>8, <1>11, <2>5, <2>6 DEF Same
<1>12. \A m \in Model : m \in Same(ch.sem) <=> ch.sem[m] = ch.sem[input]
  BY DEF Same
<1> HIDE DEF found
<1>13. precise => \A m \in Model : Known(m) => (Satisfies(s \o t, m) <=> m \in same)
  BY <1>1, <1>3, <1>9, <1>11, <1>12
<1>14. precise \in BOOLEAN
  BY DEF isConcrete
<1> HIDE DEF same, precise
<1>15. Faithful(mem, s \o t, same, precise)
  BY <1>2, <1>3, <1>8, <1>9, <1>10, <1>13, <1>14 DEF Faithful, Known
<1> QED
  BY <1>0, <1>15, ExecuteOnly

-----------------------------------------------------------------------------
(***************************************************************************)
(* Reading input                                                           *)
(***************************************************************************)
\* The expressions of the first n input bytes.
FirstBytes(n) == [k \in 1 .. n |-> Variable(k - 1)]

\* The number of bytes that are known after some were asked for.
Longer(a, b) == IF a < b THEN b ELSE a

\* Named bytes are the first ones.
LEMMA FirstBytesOK ==
  ASSUME NEW n \in 0 .. InputSize
  PROVE  BytesNamed(FirstBytes(n)) /\ Len(FirstBytes(n)) = n
<1>1. n \in Nat /\ n <= InputSize /\ InputSize \in Nat
  BY BackendAssumption
<1>2. ASSUME NEW k \in 1 .. n PROVE Variable(k - 1) \in [Model -> Byte]
  <2>1. k - 1 \in 0 .. InputSize - 1
    BY <1>1
  <2> QED
    BY <2>1 DEF Variable, Model
<1>3. FirstBytes(n) \in Seq([Model -> Byte]) /\ Len(FirstBytes(n)) = n
  BY <1>1, <1>2 DEF FirstBytes
<1>4. \A k \in 1 .. n : FirstBytes(n)[k] = Variable(k - 1)
  BY DEF FirstBytes
<1> QED
  BY <1>1, <1>3, <1>4 DEF BytesNamed

\* Named bytes are the first ones.
LEMMA NamedOK ==
  ASSUME NEW known, BytesNamed(known)
  PROVE  known = FirstBytes(Len(known)) /\ Len(known) \in 0 .. InputSize
<1>1. /\ Len(known) \in Nat /\ Len(known) <= InputSize /\ DOMAIN known = 1 .. Len(known)
      /\ known = [k \in 1 .. Len(known) |-> known[k]]
  BY DEF BytesNamed
<1>2. \A k \in 1 .. Len(known) : known[k] = Variable(k - 1)
  BY DEF BytesNamed
<1>3. Len(known) \in 0 .. InputSize
  BY <1>1, BackendAssumption
<1> QED
  BY <1>1, <1>2, <1>3 DEF FirstBytes

\* A byte that is known, or the next one.
LEMMA InputByteOK ==
  ASSUME NEW n \in 0 .. InputSize, NEW o \in 0 .. InputSize - 1, o <= n
  PROVE  /\ _sym_get_input_byte(FirstBytes(n), o).expr = Variable(o)
         /\ _sym_get_input_byte(FirstBytes(n), o).bytes = FirstBytes(Longer(n, o + 1))
<1> DEFINE known == FirstBytes(n)
           resized == [i \in 1 .. o |-> IF i <= Len(known) THEN known[i] ELSE Null]
<1>1. Len(known) = n /\ n \in Nat /\ o \in Nat /\ known \in Seq([Model -> Byte])
      /\ \A k \in 1 .. n : known[k] = Variable(k - 1)
  BY FirstBytesOK, BackendAssumption DEF BytesNamed
<1>2. CASE o < n
  <2>1. _sym_get_input_byte(known, o) = [expr |-> known[o + 1], bytes |-> known]
    BY <1>1, <1>2 DEF _sym_get_input_byte
  <2>2. o + 1 \in 1 .. n /\ (o + 1) - 1 = o
    BY <1>1, <1>2
  <2>3. known[o + 1] = Variable(o)
    BY <1>1, <2>2
  <2>4. Longer(n, o + 1) = n
    BY <1>1, <1>2 DEF Longer
  <2> HIDE DEF known
  <2> QED
    BY <2>1, <2>3, <2>4 DEF known
<1>3. CASE o = n
  <2>0. _sym_get_input_byte(known, o) = [expr |-> Variable(n), bytes |-> Append(resized, Variable(n))]
    BY <1>1, <1>3 DEF _sym_get_input_byte
  <2>1. resized = known
    <3>1. DOMAIN known = 1 .. n /\ known = [i \in 1 .. n |-> known[i]]
      BY <1>1
    <3> HIDE DEF known
    <3> QED
      BY <1>1, <1>3, <3>1
  <2> DEFINE v == Variable(n)
             both == Append(known, v)
  <2>2. Variable(n) \in [Model -> Byte]
    <3>1. n \in 0 .. InputSize - 1
      BY <1>3
    <3> QED
      BY <3>1 DEF Variable, Model
  <2>3. both = FirstBytes(n + 1)
    <3> HIDE DEF known, v
    <3>0. v \in [Model -> Byte]
      BY <2>2 DEF v
    <3>1. /\ DOMAIN both = 1 .. n + 1 /\ both = [i \in 1 .. n + 1 |-> both[i]]
          /\ \A i \in 1 .. n : both[i] = known[i]
          /\ both[n + 1] = v
      <4>1. both \in Seq([Model -> Byte]) /\ Len(both) = n + 1
        BY <1>1, <3>0
      <4>2. \A i \in 1 .. n : both[i] = known[i]
        BY <1>1, <3>0
      <4>3. both[n + 1] = v
        BY <1>1, <3>0
      <4> HIDE DEF both
      <4> QED
        BY <4>1, <4>2, <4>3
    <3> HIDE DEF both
    <3>2. \A i \in 1 .. n + 1 : i \in 1 .. n \/ (i = n + 1 /\ i - 1 = n)
      BY <1>1
    <3>3. \A i \in 1 .. n + 1 : both[i] = Variable(i - 1)
      BY <1>1, <3>1, <3>2 DEF v
    <3> QED
      BY <3>1, <3>3 DEF FirstBytes
  <2>4. Longer(n, o + 1) = n + 1
    BY <1>1, <1>3 DEF Longer
  <2> QED
    BY <1>3, <2>0, <2>1, <2>3, <2>4
<1> QED
  BY <1>1, <1>2, <1>3

\* Asking for n bytes makes known those of them that are not; the values of
\* the recursive function are found for the least number where they would differ.
LEMMA AfterReadingOK ==
  ASSUME NEW known, BytesNamed(known), NEW from \in Nat, from <= Len(known),
         NEW n \in Nat, from + n <= InputSize
  PROVE  AfterReading(known, from, n) = FirstBytes(Longer(Len(known), from + n))
<1> DEFINE len == Len(known)
           g == [k \in 0 .. n |-> FirstBytes(Longer(len, from + k))]
           Step(f) == [k \in 0 .. n |->
                         IF k = 0 THEN known ELSE _sym_get_input_byte(f[k - 1], from + k - 1).bytes]
           f == CHOOSE h : h = Step(h)
<1>1. known = FirstBytes(len) /\ len \in Nat /\ len <= InputSize /\ InputSize \in Nat
  BY NamedOK, BackendAssumption
<1> HIDE DEF len
<1>2. from <= len
  BY DEF len
<1>3. AfterReading(known, from, n) = f[n]
  BY DEF AfterReading
<1>4. g[0] = known
  <2>1. 0 \in 0 .. n /\ Longer(len, from + 0) = len
    BY <1>1, <1>2 DEF Longer
  <2> QED
    BY <1>1, <2>1
<1>5. ASSUME NEW k \in 1 .. n
      PROVE  _sym_get_input_byte(g[k - 1], from + k - 1).bytes = g[k]
  <2> DEFINE o == from + k - 1
             l == Longer(len, o)
  <2>1. k - 1 \in 0 .. n /\ k \in 0 .. n /\ from + (k - 1) = o /\ o + 1 = from + k
    BY <1>1
  <2>2. l \in 0 .. InputSize /\ o \in 0 .. InputSize - 1 /\ o <= l
    BY <1>1 DEF Longer
  <2>3. Longer(l, o + 1) = Longer(len, from + k)
    BY <1>1, <2>1 DEF Longer
  <2> HIDE DEF l, o
  <2>4. g[k - 1] = FirstBytes(l) /\ g[k] = FirstBytes(Longer(len, from + k))
    BY <2>1 DEF l
  <2>5. _sym_get_input_byte(FirstBytes(l), o).bytes = FirstBytes(Longer(l, o + 1))
    BY <2>2, InputByteOK
  <2> HIDE DEF g
  <2> QED
    BY <2>3, <2>4, <2>5 DEF o
<1>6. g = Step(g)
  <2>1. DOMAIN g = 0 .. n /\ g = [k \in 0 .. n |-> g[k]]
    OBVIOUS
  <2> HIDE DEF g
  <2>2. \A k \in 0 .. n : k # 0 => k \in 1 .. n
    OBVIOUS
  <2>3. \A k \in 0 .. n : g[k] = IF k = 0 THEN known ELSE _sym_get_input_byte(g[k - 1], from + k - 1).bytes
    BY <1>4, <1>5, <2>2
  <2> QED
    BY <2>1, <2>3
<1>7. f = Step(f)
  <2> HIDE DEF Step, g
  <2> QED
    BY <1>6
<1> HIDE DEF f
<1>8. \A k \in 0 .. n : f[k] = IF k = 0 THEN known ELSE _sym_get_input_byte(f[k - 1], from + k - 1).bytes
  BY <1>7
<1> HIDE DEF Step, g
<1> DEFINE T == {k \in 0 .. n : f[k] # g[k]}
<1>9. CASE T = {}
  <2>1. n \in 0 .. n
    OBVIOUS
  <2>2. f[n] = g[n]
    BY <1>9, <2>1
  <2>3. g[n] = FirstBytes(Longer(len, from + n))
    BY <2>1 DEF g
  <2> QED
    BY <1>3, <2>2, <2>3 DEF len
<1>10. CASE T # {}
  <2>1. T \in SUBSET Nat
    OBVIOUS
  <2>2. PICK k \in T : \A l \in T : k <= l
    BY <1>10, <2>1, LeastNumber
  <2>3. k \in 0 .. n /\ f[k] # g[k]
    OBVIOUS
  <2>4. k # 0
    BY <1>4, <1>8, <2>3
  <2>5. k \in 1 .. n /\ k - 1 \in 0 .. n /\ ~(k <= k - 1)
    BY <2>3, <2>4
  <2>6. f[k - 1] = g[k - 1]
    BY <2>2, <2>5
  <2> QED
    BY <1>5, <1>8, <2>3, <2>4, <2>5, <2>6
<1> QED
  BY <1>9, <1>10

\* Symbolic input: each byte gets the variable of its offset.
LEMMA MakeSymbolicInv ==
  ASSUME IInv, NEW i \in Cell, NEW n \in 1 .. Cells, g_config_input # "none", _sym_make_symbolic(i, n)
  PROVE  IInv'
<1> DEFINE byte(k) == _sym_get_input_byte(AfterReading(stdinBytes, offset, k), offset + k).expr
           r(t) == [sem |-> Variable(offset + t - i), expr |-> byte(t - i)]
           newMem == [t \in Cell |-> IF t \in Region(i, n) THEN r(t) ELSE mem[t]]
           len == Len(stdinBytes)
<1>0. /\ offset + n <= InputSize /\ Execute(newMem, <<>>, Model, TRUE)
      /\ stdinBytes' = AfterReading(stdinBytes, offset, n) /\ offset' = offset + n
  BY DEF _sym_make_symbolic
<1>1. /\ BytesNamed(stdinBytes) /\ offset <= len /\ offset \in Nat /\ len \in Nat /\ len <= InputSize
      /\ InputSize \in Nat /\ n \in Nat /\ i \in Nat
  <2>1. BytesNamed(stdinBytes) /\ offset <= len /\ offset \in 0 .. InputSize
    BY DEF IInv, InputRead, Typed
  <2>2. len \in 0 .. InputSize
    BY <2>1, NamedOK
  <2>3. InputSize \in Nat /\ Cells \in Nat
    BY BackendAssumption, ProgramAssumption
  <2> HIDE DEF len
  <2> QED
    BY <2>1, <2>2, <2>3 DEF Cell
<1>2. input \in Model /\ Known(input) /\ mem \in [Cell -> Datum]
  BY MemoryOK
<1>3. ASSUME NEW k \in 0 .. n - 1
      PROVE  byte(k) = Variable(offset + k) /\ Variable(offset + k) \in [Model -> Byte]
  <2> DEFINE l == Longer(len, offset + k)
             o == offset + k
  <2>1. k \in Nat /\ offset + k <= InputSize /\ o \in 0 .. InputSize - 1
    BY <1>0, <1>1
  <2>2. AfterReading(stdinBytes, offset, k) = FirstBytes(l)
    BY <1>1, <2>1, AfterReadingOK
  <2>3. l \in 0 .. InputSize /\ o <= l
    BY <1>1, <2>1 DEF Longer
  <2>4. Variable(o) \in [Model -> Byte]
    BY <2>1 DEF Variable, Model
  <2> HIDE DEF l, o
  <2>5. _sym_get_input_byte(FirstBytes(l), o).expr = Variable(o)
    BY <2>1, <2>3, InputByteOK
  <2> QED
    BY <2>2, <2>4, <2>5 DEF o
<1> HIDE DEF byte
<1>4. ASSUME NEW t \in Cell, t \in Region(i, n)
      PROVE  r(t) \in Datum /\ \A m \in Model : ExactFor(r(t), m)
  <2>1. t - i \in 0 .. n - 1 /\ offset + t - i = offset + (t - i)
    BY <1>1, <1>4, ProgramAssumption DEF Region, Cell
  <2> DEFINE v == Variable(offset + t - i)
  <2>2. byte(t - i) = v /\ v \in [Model -> Byte]
    BY <1>3, <2>1
  <2> HIDE DEF v
  <2>3. r(t) = [sem |-> v, expr |-> v]
    BY <2>2 DEF v
  <2>4. v # Null
    BY <2>2, NotNull, ModelOK
  <2> HIDE DEF r
  <2> QED
    BY <2>2, <2>3, <2>4 DEF Datum, ExactFor
<1> HIDE DEF r
<1>5. newMem \in [Cell -> Datum] /\ \A t \in Cell : newMem[t] = IF t \in Region(i, n) THEN r(t) ELSE mem[t]
  BY <1>2, <1>4
<1> HIDE DEF newMem
<1>6. \A m \in Model : Known(m) => \A t \in Cell : ExactFor(newMem[t], m)
  BY <1>4, <1>5 DEF Known
<1>7. Faithful(newMem, <<>>, Model, TRUE)
  BY <1>2, <1>5, <1>6, Unconditional
<1>8. offset' \in 0 .. InputSize
  BY <1>0, <1>1
<1>9. InputRead'
  <2> DEFINE l == Longer(len, offset + n)
  <2>1. stdinBytes' = FirstBytes(l)
    BY <1>0, <1>1, AfterReadingOK
  <2>2. l \in 0 .. InputSize /\ offset + n <= l
    BY <1>0, <1>1 DEF Longer
  <2> HIDE DEF l
  <2>3. BytesNamed(stdinBytes') /\ Len(stdinBytes') = l
    BY <2>1, <2>2, FirstBytesOK
  <2>4. BytesNamed(stdinBytes)'
    BY <2>3 DEF BytesNamed
  <2> QED
    BY <1>0, <2>2, <2>3, <2>4 DEF InputRead
<1> QED
  BY <1>0, <1>7, <1>8, <1>9, ExecuteInv

\* Input that is not symbolic.
LEMMA ReadConcreteInv ==
  ASSUME IInv, NEW i \in Cell, NEW n \in 1 .. Cells, ReadConcrete(i, n)
  PROVE  IInv'
<1> DEFINE r(t) == Concrete(input[offset + t - i])
           newMem == [t \in Cell |-> IF t \in Region(i, n) THEN r(t) ELSE mem[t]]
<1>0. /\ g_config_input = "none" /\ offset + n <= InputSize /\ Execute(newMem, <<>>, Model, TRUE)
      /\ offset' = offset + n /\ UNCHANGED stdinBytes
  BY DEF ReadConcrete
<1>1. offset \in Nat /\ InputSize \in Nat /\ n \in Nat /\ i \in Nat
  <2>1. offset \in 0 .. InputSize
    BY DEF IInv, Typed
  <2>2. InputSize \in Nat /\ Cells \in Nat
    BY BackendAssumption, ProgramAssumption
  <2> QED
    BY <2>1, <2>2 DEF Cell
<1>2. input \in Model /\ Known(input) /\ mem \in [Cell -> Datum]
  BY MemoryOK
<1>3. ASSUME NEW t \in Cell, t \in Region(i, n)
      PROVE  r(t) \in Datum /\ \A m \in Model : ExactFor(r(t), m)
  <2>1. offset + t - i \in 0 .. InputSize - 1
    BY <1>0, <1>1, <1>3, ProgramAssumption DEF Region, Cell
  <2>2. input[offset + t - i] \in Byte /\ input[offset + t - i] \in Nat
    BY <1>2, <2>1, ModelOK DEF Model
  <2> QED
    BY <1>2, <2>2, ConcreteOK
<1> HIDE DEF r
<1>4. newMem \in [Cell -> Datum] /\ \A t \in Cell : newMem[t] = IF t \in Region(i, n) THEN r(t) ELSE mem[t]
  BY <1>2, <1>3
<1> HIDE DEF newMem
<1>5. \A m \in Model : Known(m) => \A t \in Cell : ExactFor(newMem[t], m)
  BY <1>3, <1>4 DEF Known
<1>6. Faithful(newMem, <<>>, Model, TRUE)
  BY <1>2, <1>4, <1>5, Unconditional
<1>7. offset' \in 0 .. InputSize
  BY <1>0, <1>1
<1>8. InputRead'
  BY <1>0 DEF IInv, InputRead, Execute
<1> QED
  BY <1>0, <1>6, <1>7, <1>8, ExecuteInv

\* Repositioning within the bytes that are known.
LEMMA SeekInv ==
  ASSUME IInv, NEW o \in 0 .. InputSize - 1, Seek(o)
  PROVE  IInv'
<1>1. /\ o <= Len(stdinBytes) /\ Execute(mem, <<>>, Model, TRUE)
      /\ offset' = o /\ UNCHANGED stdinBytes
  BY DEF Seek
<1>2. input \in Model /\ Known(input) /\ mem \in [Cell -> Datum]
  BY MemoryOK
<1>3. Faithful(mem, <<>>, Model, TRUE)
  BY <1>2, Unconditional DEF Known
<1>4. offset' \in 0 .. InputSize
  BY <1>1, BackendAssumption
<1>5. InputRead'
  BY <1>1 DEF IInv, InputRead, BytesNamed
<1> QED
  BY <1>1, <1>3, <1>4, <1>5, ExecuteInv

\* Steps that leave the program's state alone: start-up, an exception, and
\* stuttering.
LEMMA StateKept ==
  ASSUME IInv, UNCHANGED <<stdinBytes, g_solver, log, input, offset, mem, pushes, choice, exact, steps>>,
         g_config_input' \in {"unset", "stdin", "file", "memory", "none"},
         \/ g_config_input' = g_config_input
         \/ g_config_input = "unset",
         status' = status \/ status' = "exception"
  PROVE  IInv'
<1>0. Typed /\ InputRead /\ OwnPath /\ Decides /\ ValuesKnown /\ NewInputDiverges
  BY DEF IInv
<1>1. Typed'
  BY <1>0 DEF Typed
<1>2. InputRead'
  BY <1>0 DEF InputRead
<1>3. \A m : Satisfies(pushes, m)' <=> Satisfies(pushes, m)
  BY DEF Satisfies
<1>4. \A m : \A c \in Cell : ExactFor(mem[c], m)' <=> ExactFor(mem[c], m)
  BY DEF ExactFor, ValueOf
<1>5. OwnPath'
  <2>1. Satisfies(pushes, input)' /\ \A c \in Cell : ExactFor(mem[c], input)'
    BY <1>0 DEF OwnPath, Satisfies, ExactFor, ValueOf
  <2> QED
    BY <1>0, <2>1 DEF OwnPath
<1>6. Decides'
  BY <1>0, <1>3 DEF Decides
<1>7. ValuesKnown'
  BY <1>0, <1>3, <1>4 DEF ValuesKnown
<1>8. NewInputDiverges'
  BY <1>0 DEF NewInputDiverges
<1> QED
  BY <1>1, <1>2, <1>5, <1>6, <1>7, <1>8 DEF IInv

\* Start-up.
LEMMA InitializeInv ==
  ASSUME IInv, Initialize
  PROVE  IInv'
<1>1. \A e \in Environment : ConfiguredInput(e) \in {"stdin", "file", "memory", "none"}
  BY DEF Environment, ConfiguredInput
<1>2. UNCHANGED <<stdinBytes, g_solver, log, input, offset, mem, pushes, choice, exact, steps>>
  BY DEF Initialize, _sym_initialize
<1>3. g_config_input \in {"unset", "stdin", "file", "memory", "none"}
  BY DEF IInv, Typed
<1>4. /\ status' = status \/ status' = "exception"
      /\ g_config_input' = g_config_input \/ g_config_input = "unset"
      /\ g_config_input' \in {"unset", "stdin", "file", "memory", "none"}
  BY <1>1, <1>3 DEF Initialize, _sym_initialize
<1> QED
  BY <1>2, <1>4, StateKept

-----------------------------------------------------------------------------
(***************************************************************************)
(* The specification                                                       *)
(***************************************************************************)
\* The invariant holds when the process starts.
LEMMA InitInv ==
  Init => IInv
<1> SUFFICES ASSUME Init PROVE IInv
  OBVIOUS
<1>1. Constant(0) \in [Model -> Byte] /\ \A m \in Model : Constant(0)[m] = 0
  BY ModelOK DEF Constant
<1>2. \A c \in Cell : mem[c] = Concrete(0) /\ Concrete(0) \in Datum
  BY <1>1 DEF Init, Concrete, Datum
<1>3. mem \in [Cell -> Datum]
  BY <1>2 DEF Init
<1>4. \A c \in Cell, m \in Model : ExactFor(mem[c], m)
  BY <1>2, ConcreteOK, ModelOK DEF Init
<1>5. \A m : Satisfies(pushes, m) /\ pushes \in Seq(Pushable)
  BY NoneOK DEF Init
<1>6. Typed
  BY <1>3, <1>5, BackendAssumption, ProgramAssumption DEF Init, Typed
<1>7. InputRead
  BY BackendAssumption DEF Init, InputRead, BytesNamed
<1>8. OwnPath /\ Decides /\ ValuesKnown
  BY <1>4, <1>5 DEF Init, OwnPath, Decides, ValuesKnown
<1>9. NewInputDiverges
  BY DEF Init, NewInputDiverges, NoLog
<1> QED
  BY <1>6, <1>7, <1>8, <1>9 DEF IInv

\* Every step keeps the invariant.
LEMMA NextInv ==
  IInv /\ [Next]_vars => IInv'
<1> SUFFICES ASSUME IInv, [Next]_vars PROVE IInv'
  OBVIOUS
<1>1. CASE UNCHANGED vars
  <2>1. g_config_input \in {"unset", "stdin", "file", "memory", "none"}
    BY DEF IInv, Typed
  <2> QED
    BY <1>1, <2>1, StateKept DEF vars, backend
<1>2. CASE Initialize
  BY <1>2, InitializeInv
<1>3. CASE Push
  BY <1>3, PushInv
<1>4. CASE Instruction
  <2>1. ASSUME NEW i \in Cell, NEW n \in 1 .. Cells, Read(i, n) PROVE IInv'
    BY <2>1, MakeSymbolicInv DEF Read
  <2>2. ASSUME NEW i \in Cell, NEW n \in 1 .. Cells, ReadConcrete(i, n) PROVE IInv'
    BY <2>2, ReadConcreteInv
  <2>3. ASSUME NEW i \in Cell, NEW n \in 1 .. Cells, symcc_make_symbolic(i, n) PROVE IInv'
    <3>1. CASE g_config_input = "memory" /\ _sym_make_symbolic(i, n)
      BY <3>1, MakeSymbolicInv
    <3>2. CASE /\ status' = "exception"
               /\ UNCHANGED <<g_config_input, stdinBytes, g_solver, log, input, offset, mem,
                              pushes, choice, exact, steps>>
      <4>1. g_config_input \in {"unset", "stdin", "file", "memory", "none"}
        BY DEF IInv, Typed
      <4> QED
        BY <3>2, <4>1, StateKept
    <3> QED
      BY <2>3, <3>1, <3>2 DEF symcc_make_symbolic
  <2>4. ASSUME NEW o \in 0 .. InputSize - 1, Seek(o) PROVE IInv'
    BY <2>4, SeekInv
  <2>5. ASSUME NEW c \in Cell, NEW d \in Cell, visitBinaryOperator(c, d) \/ visitStoreInst(c, d)
        PROVE  IInv'
    BY <2>5, BinaryInv, StoreInv
  <2>6. ASSUME NEW c \in Cell, NEW k \in Consts, visitBranchInst(c, k) PROVE IInv'
    BY <2>6, BranchInv
  <2>7. ASSUME NEW c \in Cell, NEW d \in Cell, NEW k \in Consts, visitSelectInst(c, k, d) PROVE IInv'
    BY <2>7, SelectInv
  <2>8. ASSUME NEW c \in Cell, visitSwitchInst(c) \/ visitIndirectBrInst(c) \/ visitLoadInst(c)
        PROVE  IInv'
    BY <2>8, SwitchInv, IndirectInv, LoadInv
  <2> QED
    BY <1>4, <2>1, <2>2, <2>3, <2>4, <2>5, <2>6, <2>7, <2>8 DEF Instruction
<1>5. CASE LibraryCall
  <2>1. ASSUME NEW x \in Numbers, malloc(x) PROVE IInv'
    BY <2>1, MallocInv
  <2>2. ASSUME NEW x \in Numbers, NEW y \in Numbers, calloc(x, y) PROVE IInv'
    BY <2>2, CallocInv
  <2>3. ASSUME NEW i \in Cell, NEW j \in Address, NEW n \in Numbers, NEW o \in BOOLEAN,
               bcmp(i, j, n) \/ memcmp(i, j, n, o)
        PROVE  IInv'
    BY <2>3, CompareInv DEF bcmp, memcmp
  <2>4. ASSUME NEW i \in Cell, NEW ch \in Characters, strchr(i, ch) PROVE IInv'
    BY <2>4, StrchrInv
  <2>5. ASSUME NEW i \in Cell, NEW ch \in Characters, NEW n \in Numbers, memset(i, ch, n) PROVE IInv'
    BY <2>5, MemsetInv
  <2>6. TRUE \in BOOLEAN
    OBVIOUS
  <2> QED
    BY <1>5, <2>1, <2>2, <2>3, <2>4, <2>5, <2>6 DEF LibraryCall
<1> QED
  BY <1>1, <1>2, <1>3, <1>4, <1>5 DEF Next

\* The inductive invariant holds throughout.
LEMMA Invariant ==
  Spec => []IInv
BY InitInv, NextInv, PTL DEF Spec

\* The backend never knows more bytes than the input has, its solver keeps a
\* set of inputs, and every byte of memory has a byte value and a byte
\* expression or none, in whichever order instructions are executed.
THEOREM PathTypes ==
  Spec => []TypeOK
BY Invariant, Implied, PTL

\* The program's own input satisfies every path constraint that is pushed, so
\* that the backend's assertions (a feasible path, a possible branch) hold.
THEOREM OwnInputFollowsPath ==
  Spec => []InputFollowsPath
BY Invariant, Implied, PTL

\* Between instructions, every input that satisfies the path constraints makes
\* the program take the same decisions, unless results without constraints
\* were used.
THEOREM ConstraintsDeterminePath ==
  Spec => []PathDetermined
BY Invariant, Implied, PTL

\* On that path, the expressions in memory evaluate to what the program would
\* compute, and what has no expression does not depend on the input.
THEOREM ExpressionsAreExact ==
  Spec => []ValuesExact
BY Invariant, Implied, PTL

\* An input that the solver finds for a negated constraint reaches the
\* instruction that pushed it and makes it do something else.
THEOREM FoundInputsDiverge ==
  Spec => []NewInputDiverges
BY Invariant, Implied, PTL
=============================================================================
