---------------------------- MODULE ShortCircuit ----------------------------
(***************************************************************************)
(* The code that compiler/Symbolizer.cpp generates for one function, and   *)
(* what that code does at run time.                                        *)
(*                                                                         *)
(* The pass visits the instructions once, noting a symbolic expression for *)
(* every value that may have one and a run-time call for every instruction *)
(* that computes with such values.  Then it completes the PHI nodes, whose *)
(* inputs may be visited after them, and finally wraps every computation   *)
(* in checks that skip it when all inputs are concrete and supply          *)
(* expressions for the concrete inputs of a symbolic computation.          *)
(*                                                                         *)
(* The function modelled has parameters and constants in its entry block   *)
(* and one loop: PHI nodes first, then other instructions.  At run time    *)
(* only the presence of an expression matters, so an expression is "sym",  *)
(* the expression of a concrete value is "lit", and null is "null".        *)
(***************************************************************************)
EXTENDS Naturals, FiniteSets, Functions

CONSTANTS
  Params,    \* values with an expression at run time: arguments, loads
  Consts,    \* values without a symbolic expression: compile-time constants
  First,     \* the instructions of the loop are numbered First .. Last,
  Last,      \* in program order
  Programs   \* the programs: what each instruction of the loop is

Body == First .. Last
End  == Last + 1

ASSUME BodyAssumption == First \in Nat \ {0} /\ Last \in Nat /\ First <= Last
ASSUME ValueAssumption ==
  Body \cap (Params \cup Consts) = {} /\ Params \cap Consts = {}

\* What LLVM guarantees of a function in SSA form: operands are computed
\* before they are used; a block's PHI nodes come first, with one input from
\* the entry block and one from the end of the loop.  Branches have no value.
Available(q, i) == Params \cup Consts \cup {j \in Body : j < i /\ q[j].kind # "branch"}

ASSUME ProgramsAssumption ==
  \A q \in Programs, i \in Body :
    \/ q[i].kind = "binary" /\ q[i].x \in Available(q, i) /\ q[i].y \in Available(q, i)
    \/ q[i].kind = "branch" /\ q[i].x \in Available(q, i)
    \/ q[i].kind = "select" /\ q[i].c \in Available(q, i)
       /\ q[i].x \in Available(q, i) /\ q[i].y \in Available(q, i)
    \/ q[i].kind = "phi" /\ q[i].x \in Params \cup Consts /\ q[i].y \in Available(q, End)
       /\ \A j \in First .. i : q[j].kind = "phi"

VARIABLES
  prog,                 \* the program, chosen initially
  phase,                \* "visit", "finalize", "shortcircuit", "run"
  symbolicExpressions,  \* the values with an expression at compile time
  expressionUses,       \* instruction -> symbolic operands of its computation
  erased,               \* PHI nodes replaced by a null expression
  plan,                 \* instruction -> how each operand is obtained
  pc,                   \* the next instruction of the body
  expr,                 \* run time: the expression of every value
  tainted,              \* run time: does the value depend on the input?
  call                  \* run time: the last computation and its arguments

compiled == <<prog, symbolicExpressions, expressionUses, erased, plan>>
vars == <<prog, phase, symbolicExpressions, expressionUses, erased, plan,
          pc, expr, tainted, call>>

Value  == Params \cup Consts \cup Body
NoCall == [inst |-> 0, args |-> <<>>]

Phis == {i \in Body : prog[i].kind = "phi"}

-----------------------------------------------------------------------------
(***************************************************************************)
(* Compile time                                                            *)
(***************************************************************************)
\* The operands whose expressions an instruction computes with; a select
\* computes with its condition only and forwards the chosen operand.
Inputs(i) ==
  CASE prog[i].kind = "binary" -> <<prog[i].x, prog[i].y>>
    [] prog[i].kind = "branch" -> <<prog[i].x>>
    [] prog[i].kind = "select" -> <<prog[i].c>>
    [] prog[i].kind = "phi"    -> <<>>

\* No run-time call is built when all operands are known to be concrete.
buildRuntimeCall(i) ==
  expressionUses' = IF Range(Inputs(i)) \cap symbolicExpressions = {}
                      THEN expressionUses
                      ELSE [j \in DOMAIN expressionUses \cup {i} |->
                              IF j = i THEN Inputs(i) ELSE expressionUses[j]]

HasExpression(i) ==
  CASE prog[i].kind = "binary" -> Range(Inputs(i)) \cap symbolicExpressions # {}
    [] prog[i].kind = "select" -> {prog[i].x, prog[i].y} \cap symbolicExpressions # {}
    [] prog[i].kind = "phi"    -> TRUE
    [] prog[i].kind = "branch" -> FALSE

\* visitBinaryOperator, visitCmpInst, visitSelectInst, visitBranchInst and
\* visitPHINode.
Visit ==
  /\ phase = "visit"
  /\ buildRuntimeCall(pc)
  /\ symbolicExpressions' = IF HasExpression(pc)
                              THEN symbolicExpressions \cup {pc}
                              ELSE symbolicExpressions
  /\ IF pc + 1 = End THEN phase' = "finalize" /\ pc' = First
                     ELSE phase' = phase /\ pc' = pc + 1
  /\ UNCHANGED <<prog, erased, plan, expr, tainted, call>>

\* Mutant: a node is erased if one of its inputs is known to be concrete.
EraseIfAnyConcrete ==
  /\ phase = "finalize"
  /\ erased' = {i \in Phis : ~({prog[i].x, prog[i].y} \subseteq symbolicExpressions)}
  /\ phase' = "shortcircuit"
  /\ UNCHANGED <<prog, symbolicExpressions, expressionUses, plan, pc, expr,
                 tainted, call>>



\* Uses of the erased nodes become null only after all nodes were examined.
finalizePHINodes ==
  /\ phase = "finalize"
  /\ erased' = {i \in Phis : {prog[i].x, prog[i].y} \cap symbolicExpressions = {}}
  /\ phase' = "shortcircuit"
  /\ UNCHANGED <<prog, symbolicExpressions, expressionUses, plan, pc, expr,
                 tainted, call>>

\* The inputs of a computation for which the generated code has an operand
\* other than the null constant.
Unknown(i) == {k \in DOMAIN expressionUses[i] :
                 expressionUses[i][k] \in symbolicExpressions \ erased}

\* Mutant: an operand that may be symbolic is never checked at run time.
SupplyUnchecked(i, k) == IF k \notin Unknown(i) THEN "create" ELSE "keep"

\* How an input is obtained on the slow path: created from the concrete
\* value, taken as it is, or checked at run time.
Supply(i, k) ==
  IF k \notin Unknown(i) THEN "create"
  ELSE IF Cardinality(Unknown(i)) = 1 THEN "keep" ELSE "check"

shortCircuitExpressionUses ==
  /\ phase = "shortcircuit"
  /\ plan' = [i \in DOMAIN expressionUses |->
                [k \in DOMAIN expressionUses[i] |-> Supply(i, k)]]
  /\ phase' = "run"
  /\ UNCHANGED <<prog, symbolicExpressions, expressionUses, erased, pc, expr,
                 tainted, call>>

-----------------------------------------------------------------------------
(***************************************************************************)
(* Run time                                                                *)
(***************************************************************************)
\* Mutant: a value without an expression gets one created from its value.
FindOrCreate(v) == IF v \in symbolicExpressions \ erased THEN expr[v] ELSE "lit"

\* The expression that generated code finds for a value.
Find(v) == IF v \in symbolicExpressions \ erased THEN expr[v] ELSE "null"

\* Is the computation of instruction i skipped?
allConcrete(i) == \A v \in Range(expressionUses[i]) : Find(v) = "null"

Argument(i, k) ==
  LET found == Find(expressionUses[i][k]) IN
  CASE plan[i][k] = "create" -> "lit"
    [] plan[i][k] = "keep"   -> found
    [] plan[i][k] = "check"  -> IF found = "null" THEN "lit" ELSE found

\* The run-time call of a computation, if there is one and it is not skipped.
Compute(i) ==
  IF i \notin DOMAIN expressionUses \/ allConcrete(i)
    THEN call' = NoCall
    ELSE call' = [inst |-> i,
                  args |-> [k \in DOMAIN expressionUses[i] |-> Argument(i, k)]]

\* The PHI nodes at the head of the loop take their values at once, from the
\* entry block or from the end of the body.
EnterBody(input) ==
  /\ expr' = [v \in Value |->
                IF v \in Phis \ erased THEN Find(input[v]) ELSE expr[v]]
  /\ tainted' = [v \in Value |-> IF v \in Phis THEN tainted[input[v]] ELSE tainted[v]]
  /\ pc' = CHOOSE n \in Body \cup {End} :
             n \notin Phis /\ \A m \in (Body \cup {End}) \ Phis : n <= m

FirstEntry ==
  /\ phase = "run"
  /\ EnterBody([i \in Phis |-> prog[i].x])
  /\ phase' = "loop"
  /\ call' = NoCall
  /\ UNCHANGED compiled

BackEdge ==
  /\ phase = "loop" /\ pc = End
  /\ EnterBody([i \in Phis |-> prog[i].y])
  /\ call' = NoCall
  /\ UNCHANGED <<phase, compiled>>

Binary ==
  /\ phase = "loop" /\ pc # End
  /\ prog[pc].kind = "binary"
  /\ Compute(pc)
  /\ expr' = [expr EXCEPT ![pc] = IF call'.inst = pc THEN "sym" ELSE "null"]
  /\ tainted' = [tainted EXCEPT ![pc] = tainted[prog[pc].x] \/ tainted[prog[pc].y]]
  /\ pc' = pc + 1
  /\ UNCHANGED <<phase, compiled>>

\* The condition becomes a path constraint, the chosen operand is forwarded.
Select ==
  /\ phase = "loop" /\ pc # End
  /\ prog[pc].kind = "select"
  /\ Compute(pc)
  /\ \E chosen \in {prog[pc].x, prog[pc].y} :
       /\ expr' = [expr EXCEPT ![pc] = Find(chosen)]
       /\ tainted' = [tainted EXCEPT ![pc] = tainted[chosen]]
  /\ pc' = pc + 1
  /\ UNCHANGED <<phase, compiled>>

Branch ==
  /\ phase = "loop" /\ pc # End
  /\ prog[pc].kind = "branch"
  /\ Compute(pc)
  /\ pc' = pc + 1
  /\ UNCHANGED <<phase, compiled, expr, tainted>>

\* The function returns and is called again, with other arguments.
CallAgain ==
  /\ phase = "loop" /\ pc = End
  /\ phase' = "run"
  /\ tainted' \in {t \in [Value -> BOOLEAN] : \A v \in Value \ Params : t[v] = tainted[v]}
  /\ expr' = [v \in Value |-> IF v \notin Params THEN expr[v]
                              ELSE IF tainted'[v] THEN "sym" ELSE "null"]
  /\ call' = NoCall
  /\ UNCHANGED <<compiled, pc>>

-----------------------------------------------------------------------------
Init ==
  /\ prog \in Programs
  /\ phase = "visit"
  /\ symbolicExpressions = Params
  /\ expressionUses = [i \in {} |-> {}]
  /\ erased = {}
  /\ plan = [i \in {} |-> <<>>]
  /\ pc = First
  /\ tainted \in {t \in [Value -> BOOLEAN] : \A v \in Value \ Params : ~t[v]}
  /\ expr = [v \in Value |-> IF tainted[v] THEN "sym" ELSE "null"]
  /\ call = NoCall

Next ==
  \/ Visit \/ finalizePHINodes \/ shortCircuitExpressionUses
  \/ FirstEntry \/ BackEdge \/ Binary \/ Select \/ Branch
  \/ CallAgain

Spec == Init /\ [][Next]_vars

-----------------------------------------------------------------------------
\* Types: the compile-time maps speak about instructions of the program, and
\* every value has an expression or null.
TypeOK ==
  /\ phase \in {"visit", "finalize", "shortcircuit", "run", "loop"}
  /\ symbolicExpressions \subseteq Value
  /\ DOMAIN expressionUses \subseteq Body
  /\ erased \subseteq Phis
  /\ pc \in Body \cup {End}
  /\ expr \in [Value -> {"sym", "null"}]
  /\ tainted \in [Value -> BOOLEAN]

\* Whenever generated code runs, a value has an expression exactly if it
\* depends on symbolic input: PHI nodes that are erased, run-time calls that
\* are never built and computations that are skipped lose nothing.
TracksInput ==
  phase = "loop" =>
    \A v \in Value :
      v \in Params \cup Consts \cup Phis \cup {i \in Body : i < pc /\ prog[i].kind # "branch"}
        => (Find(v) = "sym" <=> tainted[v])

\* Functions of the run-time library are never called with a null expression:
\* the argument for a symbolic operand is its expression, that for a concrete
\* operand one created from its value.
ArgumentsExact ==
  \A k \in DOMAIN call.args :
    call.args[k] = (IF tainted[Inputs(call.inst)[k]] THEN "sym" ELSE "lit")
=============================================================================
