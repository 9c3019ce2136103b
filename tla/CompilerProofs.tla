--------------------------- MODULE CompilerProofs ---------------------------
(***************************************************************************)
(* The code that the compiler pass inserts: function calls, for any depth  *)
(* of the call stack, and concreteness checks, for functions with any      *)
(* number of parameters, constants and instructions.                       *)
(***************************************************************************)
EXTENDS CallProtocol, ShortCircuit, FiniteSetTheorems, TLAPS

-----------------------------------------------------------------------------
(***************************************************************************)
(* Calls: without callbacks from uninstrumented code, every instrumented   *)
(* function works with exact expressions.                                  *)
(***************************************************************************)
\* The frames of a call stack.
FrameSet == [symcc : BOOLEAN, used : BOOLEAN,
             got   : {"computed", "parameter", "result", "opaque", "callback"},
             val   : Values, expr : Expressions]

\* An uninstrumented function calls nothing, and while it runs on behalf of
\* a caller that uses its result, the return expression stays cleared.
OpaqueRunsAlone ==
  \A k \in DOMAIN stack : ~stack[k].symcc =>
    k = Len(stack) /\ (stack[k].used => g_return_value = Null)

CallIInv == CallTypeOK /\ ExpressionsExact /\ OpaqueRunsAlone

\* The invariant of a single frame of a stack of n frames.
FrameOK(f, k, n, ret) ==
  /\ f \in FrameSet
  /\ f.symcc => Exact(f)
  /\ ~f.symcc => k = n /\ (f.used => ret = Null)

\* The invariant, frame by frame.
LEMMA ByFrames ==
  CallIInv <=>
           /\ stack \in Seq(FrameSet) /\ Len(stack) \in 1 .. MaxDepth
           /\ g_function_arguments \in Expressions /\ g_return_value \in Expressions
           /\ \A k \in 1 .. Len(stack) : FrameOK(stack[k], k, Len(stack), g_return_value)
<1>1. stack \in Seq(FrameSet) => \A k \in 1 .. Len(stack) : stack[k] \in FrameSet
  OBVIOUS
<1>2. stack \in Seq(FrameSet) => DOMAIN stack = 1 .. Len(stack)
  OBVIOUS
<1> QED
  BY <1>1, <1>2
     DEF CallIInv, CallTypeOK, ExpressionsExact, OpaqueRunsAlone, FrameOK, FrameSet

\* A stack that is cut back to its first n frames, of which the last gets a
\* new value.
LEMMA CutAndWork ==
  ASSUME CallIInv, NEW n \in 1 .. Len(stack), stack[n].symcc,
         NEW got \in {"computed", "result", "opaque"},
         NEW val \in Values, NEW e, e = IF val = Opaque THEN Null ELSE val,
         stack' = Works(SubSeq(stack, 1, n), got, val, e),
         g_function_arguments' \in Expressions, g_return_value' \in Expressions
  PROVE  CallIInv'
<1> DEFINE cut == SubSeq(stack, 1, n)
           new == Works(cut, got, val, e)
<1>0. /\ stack \in Seq(FrameSet) /\ Len(stack) \in 1 .. MaxDepth
      /\ \A k \in 1 .. Len(stack) : FrameOK(stack[k], k, Len(stack), g_return_value)
  BY ByFrames
<1>1. /\ cut \in Seq(FrameSet) /\ Len(cut) = n
      /\ \A k \in 1 .. n : cut[k] = stack[k]
  BY <1>0
<1>2. e \in Expressions
  BY DEF Expressions, Values
<1> HIDE DEF cut
<1> DEFINE last == [cut[n] EXCEPT !.got = got, !.val = val, !.expr = e]
<1>3. /\ last \in FrameSet /\ last.symcc = cut[n].symcc
      /\ last.val = val /\ last.expr = e
  <2>1. cut[n] \in FrameSet
    BY <1>1
  <2>2. got \in {"computed", "parameter", "result", "opaque", "callback"}
    OBVIOUS
  <2> QED
    BY <1>2, <2>1, <2>2 DEF FrameSet
<1>4. /\ new \in Seq(FrameSet) /\ Len(new) = n
      /\ new[n] = last
      /\ \A k \in 1 .. n - 1 : new[k] = cut[k]
  <2>1. new = [cut EXCEPT ![n] = last]
    BY <1>1 DEF Works
  <2> HIDE DEF last, new
  <2> QED
    BY <1>1, <1>3, <2>1
<1>5. new[n].symcc /\ Exact(new[n]) /\ new[n] \in FrameSet
  <2> HIDE DEF last, new
  <2>1. cut[n].symcc
    BY <1>1
  <2> QED
    BY <1>3, <1>4, <2>1 DEF Exact
<1>6. stack' = new
  BY DEF cut
<1> HIDE DEF new
<1>7. \A k \in 1 .. n - 1 : /\ k \in 1 .. Len(stack) /\ k # Len(stack)
                            /\ new[k] = stack[k]
  BY <1>0, <1>1, <1>4
<1>8. \A k \in 1 .. n : FrameOK(new[k], k, n, g_return_value')
  <2>1. FrameOK(new[n], n, n, g_return_value')
    BY <1>5 DEF FrameOK
  <2>2. \A k \in 1 .. n - 1 : FrameOK(new[k], k, n, g_return_value')
    BY <1>0, <1>7 DEF FrameOK
  <2> QED
    BY <2>1, <2>2
<1>9. n \in 1 .. MaxDepth
  BY <1>0, DepthAssumption
<1> QED
  BY <1>4, <1>6, <1>8, <1>9 DEF CallIInv, CallTypeOK, ExpressionsExact, OpaqueRunsAlone, FrameOK, FrameSet

\* A stack that is cut back to an instrumented function which goes on.
LEMMA Cut ==
  ASSUME CallIInv, NEW n \in 1 .. Len(stack), stack[n].symcc,
         stack' = SubSeq(stack, 1, n),
         g_function_arguments' \in Expressions, g_return_value' \in Expressions
  PROVE  CallIInv'
<1>0. /\ stack \in Seq(FrameSet) /\ Len(stack) \in 1 .. MaxDepth
      /\ \A k \in 1 .. Len(stack) : FrameOK(stack[k], k, Len(stack), g_return_value)
  BY ByFrames
<1>1. /\ stack' \in Seq(FrameSet) /\ Len(stack') = n
      /\ \A k \in 1 .. n : stack'[k] = stack[k]
  BY <1>0
<1>2. \A k \in 1 .. n : FrameOK(stack'[k], k, n, g_return_value')
  <2>1. FrameOK(stack'[n], n, n, g_return_value')
    BY <1>0, <1>1 DEF FrameOK
  <2>2. \A k \in 1 .. n - 1 : k \in 1 .. Len(stack) /\ k # Len(stack)
    BY <1>0
  <2>3. \A k \in 1 .. n - 1 : FrameOK(stack'[k], k, n, g_return_value')
    BY <1>0, <1>1, <2>2 DEF FrameOK
  <2> QED
    BY <2>1, <2>3
<1>3. n \in 1 .. MaxDepth
  BY <1>0, DepthAssumption
<1> QED
  BY <1>1, <1>2, <1>3 DEF CallIInv, CallTypeOK, ExpressionsExact, OpaqueRunsAlone, FrameOK, FrameSet

\* A call pushes a frame with the caller's value and expression.
LEMMA CallInv ==
  ASSUME CallIInv, NEW symcc \in BOOLEAN, NEW used \in BOOLEAN, Call(symcc, used)
  PROVE  CallIInv'
<1> DEFINE n == Len(stack)
           f == Frame(symcc, used, "parameter", Top.val, IF symcc THEN Top.expr ELSE Null)
<1>0. /\ stack \in Seq(FrameSet) /\ n \in 1 .. MaxDepth
      /\ \A k \in 1 .. n : FrameOK(stack[k], k, n, g_return_value)
      /\ g_return_value \in Expressions
  BY ByFrames
<1>1. /\ n < MaxDepth /\ Top.symcc /\ g_function_arguments' = Top.expr
      /\ g_return_value' = IF used THEN Null ELSE g_return_value
      /\ stack' = Append(stack, f)
  BY DEF Call, Enter
<1>2. Top = stack[n] /\ Top \in FrameSet /\ Exact(Top)
  BY <1>0, <1>1 DEF Top, FrameOK
<1>3. f \in FrameSet /\ (symcc => Exact(f)) /\ f.symcc = symcc /\ f.used = used
  BY <1>2 DEF Frame, FrameSet, Exact, Expressions
<1>4. Top.expr \in Expressions /\ g_return_value' \in Expressions
  BY <1>0, <1>1, <1>2 DEF FrameSet, Expressions
<1> HIDE DEF f
<1>5. /\ stack' \in Seq(FrameSet) /\ Len(stack') = n + 1
      /\ stack'[n + 1] = f
      /\ \A k \in 1 .. n : stack'[k] = stack[k]
  BY <1>0, <1>1, <1>3
<1>6. \A k \in 1 .. n : stack[k].symcc
  BY <1>0, <1>1, <1>2 DEF FrameOK
<1>7. \A k \in 1 .. n + 1 : FrameOK(stack'[k], k, n + 1, g_return_value')
  <2>1. FrameOK(stack'[n + 1], n + 1, n + 1, g_return_value')
    BY <1>1, <1>3, <1>5 DEF FrameOK
  <2>2. \A k \in 1 .. n : FrameOK(stack'[k], k, n + 1, g_return_value')
    BY <1>0, <1>5, <1>6 DEF FrameOK
  <2>3. \A k \in 1 .. n + 1 : k \in 1 .. n \/ k = n + 1
    BY <1>0
  <2> QED
    BY <2>1, <2>2, <2>3
<1>8. n + 1 \in 1 .. MaxDepth
  BY <1>0, <1>1, DepthAssumption
<1> QED
  BY <1>1, <1>4, <1>5, <1>7, <1>8
     DEF CallIInv, CallTypeOK, ExpressionsExact, OpaqueRunsAlone, FrameOK, FrameSet

\* A return hands exactly the expression of the result to an instrumented
\* caller that uses it.
LEMMA ReturnInv ==
  ASSUME CallIInv, Len(stack) > 1, UNCHANGED g_function_arguments,
         NEW val \in Values, NEW ret \in Expressions, ReturnPoint(val, ret),
         Top.used => ret = IF val = Opaque THEN Null ELSE val
  PROVE  CallIInv'
<1> DEFINE n == Len(stack) - 1
<1>0. /\ stack \in Seq(FrameSet) /\ Len(stack) \in 1 .. MaxDepth
      /\ \A k \in 1 .. Len(stack) : FrameOK(stack[k], k, Len(stack), g_return_value)
      /\ g_function_arguments' \in Expressions
  BY ByFrames
<1>1. n \in 1 .. Len(stack) /\ n # Len(stack) /\ Caller = stack[n] /\ Below = SubSeq(stack, 1, n)
  BY <1>0 DEF Caller, Below
<1>2. stack[n].symcc
  BY <1>0, <1>1 DEF FrameOK, FrameSet
<1> HIDE DEF n
<1>3. CASE Top.used
  <2> DEFINE got == IF Top.symcc THEN "result" ELSE "opaque"
  <2>1. stack' = Works(SubSeq(stack, 1, n), got, val, ret) /\ g_return_value' = Null
    BY <1>1, <1>2, <1>3 DEF ReturnPoint
  <2>2. got \in {"computed", "result", "opaque"} /\ g_return_value' \in Expressions
    BY <2>1 DEF Expressions
  <2> HIDE DEF got
  <2> QED
    BY <1>0, <1>1, <1>2, <1>3, <2>1, <2>2, CutAndWork
<1>4. CASE ~Top.used
  <2>1. stack' = SubSeq(stack, 1, n) /\ g_return_value' = ret
    BY <1>1, <1>4 DEF ReturnPoint
  <2> QED
    BY <1>0, <1>1, <1>2, <2>1, Cut
<1> QED
  BY <1>3, <1>4

\* The inductive step: one case per action.
LEMMA CallNextInv == CallIInv /\ [CallNext]_callVars => CallIInv'
<1> SUFFICES ASSUME CallIInv, [CallNext]_callVars PROVE CallIInv'
  OBVIOUS
<1> DEFINE m == Len(stack)
<1>0. /\ stack \in Seq(FrameSet) /\ m \in 1 .. MaxDepth
      /\ g_function_arguments \in Expressions /\ g_return_value \in Expressions
      /\ \A k \in 1 .. m : FrameOK(stack[k], k, m, g_return_value)
  BY ByFrames
<1>1. Top = stack[m] /\ Top \in FrameSet /\ FrameOK(Top, m, m, g_return_value)
  BY <1>0 DEF Top, FrameOK
<1>2. ASSUME NEW v \in Values, ComputeValue(v) PROVE CallIInv'
  <2> DEFINE e == IF v = Opaque THEN Null ELSE v
  <2>1. stack = SubSeq(stack, 1, m) /\ m \in 1 .. Len(stack)
    BY <1>0
  <2>2. stack[m].symcc /\ stack' = Works(SubSeq(stack, 1, m), "computed", v, e)
    BY <1>1, <1>2, <2>1 DEF ComputeValue
  <2>3. g_function_arguments' \in Expressions /\ g_return_value' \in Expressions
    BY <1>0, <1>2 DEF ComputeValue
  <2> HIDE DEF m, e
  <2> QED
    BY <2>1, <2>2, <2>3, CutAndWork DEF e
<1>3. ASSUME NEW symcc \in BOOLEAN, NEW used \in BOOLEAN, Call(symcc, used) PROVE CallIInv'
  BY <1>3, CallInv
<1>4. CASE Return
  <2>1. /\ Top.val \in Values /\ Top.expr \in Expressions /\ Exact(Top)
    BY <1>1, <1>4 DEF Return, FrameOK, FrameSet
  <2> QED
    BY <1>4, <2>1, ReturnInv DEF Return, Exact
<1>5. CASE ReturnVoid
  <2> DEFINE n == Len(stack) - 1
  <2>1. n \in 1 .. Len(stack) /\ n # Len(stack) /\ stack' = SubSeq(stack, 1, n)
    BY <1>0, <1>5 DEF ReturnVoid, Below
  <2>2. stack[n].symcc
    BY <1>0, <2>1 DEF FrameOK, FrameSet
  <2>3. g_function_arguments' \in Expressions /\ g_return_value' \in Expressions
    BY <1>0, <1>5 DEF ReturnVoid
  <2> HIDE DEF n
  <2> QED
    BY <2>1, <2>2, <2>3, Cut
<1>6. CASE ReturnOpaque
  <2>1. ~Top.symcc /\ ReturnPoint(Opaque, g_return_value) /\ Len(stack) > 1
    BY <1>6 DEF ReturnOpaque
  <2>2. Top.used => g_return_value = Null
    BY <1>1, <2>1 DEF FrameOK
  <2>3. Opaque \in Values
    BY DEF Values
  <2> QED
    BY <1>0, <1>6, <2>1, <2>2, <2>3, ReturnInv DEF ReturnOpaque
<1>7. ASSUME NEW k \in 1 .. MaxDepth, Unwind(k) PROVE CallIInv'
  <2>1. k \in 1 .. Len(stack) /\ stack[k].symcc /\ stack' = SubSeq(stack, 1, k)
    BY <1>0, <1>7 DEF Unwind
  <2>2. g_function_arguments' \in Expressions /\ g_return_value' \in Expressions
    BY <1>0, <1>7 DEF Unwind
  <2> QED
    BY <2>1, <2>2, Cut
<1>8. CASE UNCHANGED callVars
  BY <1>8 DEF callVars, CallIInv, CallTypeOK, ExpressionsExact, OpaqueRunsAlone, Exact
<1> QED
  BY <1>2, <1>3, <1>4, <1>5, <1>6, <1>7, <1>8 DEF CallNext

\* The inductive invariant holds throughout.
LEMMA CallInvariant == CallSpec => []CallIInv
<1>1. CallInit => CallIInv
  <2> SUFFICES ASSUME CallInit PROVE CallIInv
    OBVIOUS
  <2> DEFINE f == Frame(TRUE, FALSE, "computed", Opaque, Null)
  <2>1. f \in FrameSet /\ f.symcc /\ Exact(f)
    BY DEF Frame, FrameSet, Values, Expressions, Exact
  <2>2. stack = <<f>>
    BY DEF CallInit
  <2> HIDE DEF f
  <2>3. stack \in Seq(FrameSet) /\ Len(stack) = 1 /\ stack[1] = f
    BY <2>1, <2>2
  <2>4. \A k \in 1 .. Len(stack) : FrameOK(stack[k], k, Len(stack), g_return_value)
    BY <2>1, <2>3 DEF FrameOK
  <2>5. Len(stack) \in 1 .. MaxDepth
    BY <2>3, DepthAssumption
  <2>6. g_function_arguments \in Expressions /\ g_return_value \in Expressions
    BY DEF CallInit, Expressions
  <2> QED
    BY <2>3, <2>4, <2>5, <2>6, ByFrames
<1> QED
  BY <1>1, CallNextInv, PTL DEF CallSpec

\* The stack of frames stays within its depth and the global slots hold an
\* expression or null.
THEOREM SlotsKeepTypes == CallSpec => []CallTypeOK
BY CallInvariant, PTL DEF CallIInv

\* Every instrumented function has exactly the expression of the value it
\* works on, whatever mix of instrumented and uninstrumented functions was
\* called before, and however deep the stack.
THEOREM CallsAreExact == CallSpec => []ExpressionsExact
BY CallInvariant, PTL DEF CallIInv

-----------------------------------------------------------------------------
(***************************************************************************)
(* Concreteness checks: no dependence on the input is lost, and no run-time *)
(* function gets a null expression.                                        *)
(***************************************************************************)
\* Instructions that the first phase has dealt with.
Visited(i) == phase = "visit" => i < pc

\* What the first phase leaves behind: expressions and run-time calls are
\* exactly where the final set of expressions demands them.
Noted ==
  /\ prog \in Programs
  /\ phase = "visit" => pc \in Body
  /\ Params \subseteq symbolicExpressions /\ symbolicExpressions \cap Consts = {}
  /\ \A i \in Body : i \in symbolicExpressions <=> Visited(i) /\ HasExpression(i)
  /\ DOMAIN expressionUses =
       {i \in Body : Visited(i) /\ Range(Inputs(i)) \cap symbolicExpressions # {}}
  /\ \A i \in DOMAIN expressionUses : expressionUses[i] = Inputs(i)

\* The second.
NodesErased ==
  erased = IF phase \in {"visit", "finalize"} THEN {}
           ELSE {i \in Phis : {prog[i].x, prog[i].y} \cap symbolicExpressions = {}}

\* The third.
Planned ==
  phase \in {"run", "loop"} =>
    \A i \in DOMAIN expressionUses :
      \A k \in DOMAIN expressionUses[i] : plan[i][k] = Supply(i, k)

\* What the callers provide.
ArgumentsTracked ==
  /\ \A v \in Params : expr[v] = "sym" <=> tainted[v]
  /\ \A v \in Consts : ~tainted[v]

\* No run-time function is called outside of the loop.
CallsInLoop == phase # "loop" => call = NoCall

\* The inductive invariant.
IInv == /\ TypeOK /\ Noted /\ NodesErased /\ Planned /\ ArgumentsTracked /\ CallsInLoop
        /\ TracksInput /\ ArgumentsExact

-----------------------------------------------------------------------------
(***************************************************************************)
(* Programs                                                                *)
(***************************************************************************)
\* The inputs of a computation: at most two, all computed before it.
LEMMA InputsOK ==
  ASSUME prog \in Programs, NEW i \in Body
  PROVE  /\ DOMAIN Inputs(i) \subseteq 1 .. 2
         /\ \A k \in DOMAIN Inputs(i) : Inputs(i)[k] \in Available(prog, i)
         /\ Range(Inputs(i)) \subseteq Available(prog, i)
         /\ prog[i].kind \in {"binary", "branch", "select", "phi"}
         /\ prog[i].kind = "phi" => Inputs(i) = <<>>
<1>1. CASE prog[i].kind = "binary"
  <2>1. Inputs(i) = <<prog[i].x, prog[i].y>>
    BY <1>1 DEF Inputs
  <2>2. prog[i].x \in Available(prog, i) /\ prog[i].y \in Available(prog, i)
    BY <1>1, ProgramsAssumption
  <2> QED
    BY <1>1, <2>1, <2>2 DEF Range
<1>2. CASE prog[i].kind = "branch"
  <2>1. Inputs(i) = <<prog[i].x>>
    BY <1>2 DEF Inputs
  <2>2. prog[i].x \in Available(prog, i)
    BY <1>2, ProgramsAssumption
  <2> QED
    BY <1>2, <2>1, <2>2 DEF Range
<1>3. CASE prog[i].kind = "select"
  <2>1. Inputs(i) = <<prog[i].c>>
    BY <1>3 DEF Inputs
  <2>2. prog[i].c \in Available(prog, i)
    BY <1>3, ProgramsAssumption
  <2> QED
    BY <1>3, <2>1, <2>2 DEF Range
<1>4. CASE prog[i].kind = "phi"
  <2>1. Inputs(i) = <<>>
    BY <1>4 DEF Inputs
  <2> QED
    BY <1>4, <2>1 DEF Range
<1> QED
  BY <1>1, <1>2, <1>3, <1>4, ProgramsAssumption

\* What is available to an instruction is a value other than its own, and
\* not computed later.
LEMMA AvailableOK ==
  ASSUME NEW q, NEW i \in Body, NEW v \in Available(q, i)
  PROVE  v \in Value /\ v # i /\ (v \in Body => v < i /\ q[v].kind # "branch")
<1>1. i \in Nat
  BY BodyAssumption DEF Body
<1> QED
  BY <1>1, ValueAssumption DEF Available, Value, Body

\* The operands that may become the result of a select or a binary operation.
LEMMA OperandsOK ==
  ASSUME prog \in Programs, NEW i \in Body, prog[i].kind \in {"binary", "select"}
  PROVE  prog[i].x \in Available(prog, i) /\ prog[i].y \in Available(prog, i)
BY ProgramsAssumption

\* A visit does not change what is known of instructions before it.
LEMMA EarlierKept ==
  ASSUME prog \in Programs, NEW S, NEW i \in Body, NEW j \in Body, i <= j
  PROVE  /\ Range(Inputs(i)) \cap (S \cup {j}) = Range(Inputs(i)) \cap S
         /\ prog[i].kind = "select" => {prog[i].x, prog[i].y} \cap (S \cup {j})
                                       = {prog[i].x, prog[i].y} \cap S
<1>1. i \in Nat /\ j \in Nat
  BY BodyAssumption DEF Body
<1>2. \A v \in Available(prog, i) : v # j
  <2> SUFFICES ASSUME NEW v \in Available(prog, i), v = j PROVE FALSE
    OBVIOUS
  <2>1. v < i
    BY AvailableOK
  <2> QED
    BY <1>1, <2>1
<1>3. Range(Inputs(i)) \subseteq Available(prog, i)
  BY InputsOK
<1>4. prog[i].kind = "select" => {prog[i].x, prog[i].y} \subseteq Available(prog, i)
  BY OperandsOK
<1> QED
  BY <1>2, <1>3, <1>4

-----------------------------------------------------------------------------
(***************************************************************************)
(* Compile time                                                            *)
(***************************************************************************)
\* Nothing is claimed of calls when there is none.
LEMMA NoCallExact == call = NoCall => ArgumentsExact
BY DEF NoCall, ArgumentsExact

\* A visit: the expressions of what was visited before stay as they are.
LEMMA VisitInv ==
  ASSUME IInv, Visit
  PROVE  IInv'
<1>0. TypeOK /\ Noted /\ NodesErased /\ ArgumentsTracked /\ CallsInLoop
  BY DEF IInv
<1> DEFINE S == symbolicExpressions
<1>1. /\ phase = "visit" /\ buildRuntimeCall(pc)
      /\ symbolicExpressions' = IF HasExpression(pc) THEN S \cup {pc} ELSE S
      /\ UNCHANGED <<prog, erased, plan, expr, tainted, call>>
  BY DEF Visit
<1>2. \/ pc + 1 = End /\ phase' = "finalize" /\ pc' = First
      \/ pc + 1 # End /\ phase' = "visit" /\ pc' = pc + 1
  BY <1>1 DEF Visit
<1>3. /\ pc \in Body /\ prog \in Programs /\ pc \in Nat /\ First \in Nat /\ Last \in Nat /\ First <= pc
      /\ pc <= Last /\ Body \subseteq Nat /\ End = Last + 1
  BY <1>0, <1>1, BodyAssumption DEF Noted, Body, End
<1>4. \A i \in Body : Visited(i)' <=> i <= pc
  <2> SUFFICES ASSUME NEW i \in Body PROVE Visited(i)' <=> i <= pc
    OBVIOUS
  <2>1. i \in Nat /\ First <= i /\ i <= Last
    BY <1>3 DEF Body
  <2> QED
    BY <1>2, <1>3, <2>1 DEF Visited
<1>5. \A i \in Body : Visited(i) <=> i < pc
  BY <1>1 DEF Visited
<1>6. \A i \in Body : Inputs(i)' = Inputs(i)
  BY <1>1 DEF Inputs
<1>7. ASSUME NEW i \in Body, i <= pc
      PROVE  /\ Range(Inputs(i)) \cap symbolicExpressions' = Range(Inputs(i)) \cap S
             /\ prog[i].kind = "select" => {prog[i].x, prog[i].y} \cap symbolicExpressions'
                                           = {prog[i].x, prog[i].y} \cap S
  BY <1>1, <1>3, <1>7, EarlierKept
<1>8. ASSUME NEW i \in Body, i <= pc
      PROVE  HasExpression(i)' <=> HasExpression(i)
  <2>1. prog[i].kind \in {"binary", "branch", "select", "phi"} /\ prog' = prog
    BY <1>1, <1>3, InputsOK
  <2>2. Range(Inputs(i))' = Range(Inputs(i))
    BY <1>6 DEF Range
  <2>3. CASE prog[i].kind = "binary"
    BY <1>7, <1>8, <2>1, <2>2, <2>3 DEF HasExpression
  <2>4. CASE prog[i].kind = "select"
    BY <1>7, <1>8, <2>1, <2>4 DEF HasExpression
  <2>5. CASE prog[i].kind \in {"branch", "phi"}
    BY <2>1, <2>5 DEF HasExpression
  <2> QED
    BY <2>1, <2>3, <2>4, <2>5
<1>9. Params \subseteq symbolicExpressions' /\ symbolicExpressions' \cap Consts = {}
      /\ symbolicExpressions' \subseteq Value
  BY <1>0, <1>1, <1>3, ValueAssumption DEF Noted, Value, TypeOK
<1>10. ASSUME NEW i \in Body
       PROVE  i \in symbolicExpressions' <=> Visited(i)' /\ HasExpression(i)'
  <2>0. i \in Nat /\ (i \in S <=> i < pc /\ HasExpression(i)) /\ (Visited(i)' <=> i <= pc)
    BY <1>0, <1>3, <1>4, <1>5 DEF Noted
  <2>1. CASE i <= pc
    <3>1. CASE i = pc
      BY <1>1, <1>3, <1>8, <2>0, <2>1, <3>1
    <3>2. CASE i # pc
      BY <1>1, <1>3, <1>8, <2>0, <2>1, <3>2
    <3> QED
      BY <3>1, <3>2
  <2>2. CASE ~(i <= pc)
    BY <1>1, <1>3, <2>0, <2>2
  <2> QED
    BY <2>1, <2>2
<1>11. /\ DOMAIN expressionUses' =
            {i \in Body : Visited(i)' /\ Range(Inputs(i)') \cap symbolicExpressions' # {}}
       /\ \A i \in DOMAIN expressionUses' : expressionUses'[i] = Inputs(i)
  <2> DEFINE D == DOMAIN expressionUses
             Used(i) == Range(Inputs(i)) \cap S # {}
  <2>1. /\ D = {i \in Body : i < pc /\ Used(i)}
        /\ \A i \in D : expressionUses[i] = Inputs(i)
    BY <1>0, <1>5 DEF Noted
  <2>2. expressionUses' = IF ~Used(pc) THEN expressionUses
                          ELSE [j \in D \cup {pc} |-> IF j = pc THEN Inputs(pc) ELSE expressionUses[j]]
    BY <1>1 DEF buildRuntimeCall
  <2>3. ASSUME NEW i \in Body
        PROVE  Visited(i)' /\ Range(Inputs(i)') \cap symbolicExpressions' # {} <=> i <= pc /\ Used(i)
    BY <1>4, <1>6, <1>7
  <2> HIDE DEF Used
  <2>4. DOMAIN expressionUses' = {i \in Body : i <= pc /\ Used(i)}
    <3>1. CASE Used(pc)
      <4>1. DOMAIN expressionUses' = D \cup {pc}
        BY <2>2, <3>1
      <4>2. \A i \in Body : i <= pc <=> i < pc \/ i = pc
        BY <1>3
      <4> HIDE DEF D
      <4> QED
        BY <1>3, <2>1, <3>1, <4>1, <4>2
    <3>2. CASE ~Used(pc)
      <4>1. \A i \in Body : i <= pc <=> i < pc \/ i = pc
        BY <1>3
      <4> QED
        BY <1>3, <2>1, <2>2, <3>2, <4>1
    <3> QED
      BY <3>1, <3>2
  <2>5. \A i \in DOMAIN expressionUses' : expressionUses'[i] = Inputs(i)
    BY <2>1, <2>2
  <2> QED
    BY <2>3, <2>4, <2>5
<1>12. Noted'
  <2>1. phase' = "visit" => pc' \in Body
    BY <1>2, <1>3 DEF Body
  <2>2. \A i \in Body : Range(Inputs(i))' = Range(Inputs(i)')
    BY DEF Range
  <2>3. DOMAIN expressionUses' \subseteq Body
    BY <1>11
  <2> QED
    BY <1>1, <1>3, <1>6, <1>9, <1>10, <1>11, <2>1, <2>2, <2>3 DEF Noted
<1>13. TypeOK'
  <2>1. pc' \in Body \cup {End}
    BY <1>2, <1>3 DEF Body
  <2>2. DOMAIN expressionUses' \subseteq Body
    BY <1>11
  <2>3. Phis' = Phis
    BY <1>1 DEF Phis
  <2> QED
    BY <1>0, <1>1, <1>2, <1>9, <2>1, <2>2, <2>3 DEF TypeOK
<1>14. NodesErased' /\ Planned' /\ ArgumentsTracked' /\ CallsInLoop' /\ TracksInput' /\ ArgumentsExact'
  <2>1. call' = NoCall
    BY <1>0, <1>1 DEF CallsInLoop
  <2>2. NodesErased' /\ Planned' /\ ArgumentsTracked' /\ CallsInLoop' /\ TracksInput'
    BY <1>0, <1>1, <1>2, <2>1 DEF NodesErased, Planned, ArgumentsTracked, CallsInLoop, TracksInput, NoCall
  <2>3. ArgumentsExact'
    BY <2>1 DEF NoCall, ArgumentsExact
  <2> QED
    BY <2>2, <2>3
<1> QED
  BY <1>12, <1>13, <1>14 DEF IInv

\* Once every instruction was visited the phases leave the notes alone.
LEMMA NotedKept ==
  ASSUME Noted, phase # "visit", phase' # "visit",
         UNCHANGED <<prog, symbolicExpressions, expressionUses>>
  PROVE  Noted'
<1>1. \A i \in Body : /\ Inputs(i)' = Inputs(i) /\ (HasExpression(i)' <=> HasExpression(i))
                      /\ Range(Inputs(i))' = Range(Inputs(i)) /\ Visited(i)' /\ Visited(i)
  BY DEF Inputs, HasExpression, Range, Visited
<1> QED
  BY <1>1 DEF Noted

\* The second and the third phase.
LEMMA PhasesInv ==
  ASSUME IInv, finalizePHINodes \/ shortCircuitExpressionUses
  PROVE  IInv'
<1>0. TypeOK /\ Noted /\ NodesErased /\ ArgumentsTracked /\ CallsInLoop
  BY DEF IInv
<1>1. /\ phase \in {"finalize", "shortcircuit"} /\ phase' \in {"shortcircuit", "run"}
      /\ UNCHANGED <<prog, symbolicExpressions, expressionUses, pc, expr, tainted, call>>
  BY DEF finalizePHINodes, shortCircuitExpressionUses
<1>2. Noted' /\ Phis' = Phis
  BY <1>0, <1>1, NotedKept DEF Phis
<1>3. NodesErased'
  <2>1. CASE finalizePHINodes
    BY <1>1, <1>2, <2>1 DEF finalizePHINodes, NodesErased
  <2>2. CASE shortCircuitExpressionUses
    BY <1>0, <1>1, <1>2, <2>2 DEF shortCircuitExpressionUses, NodesErased
  <2> QED
    BY <2>1, <2>2
<1>4. TypeOK'
  BY <1>0, <1>1, <1>2, <1>3 DEF TypeOK, NodesErased
<1>5. Planned'
  <2>1. CASE finalizePHINodes
    BY <2>1 DEF finalizePHINodes, Planned
  <2>2. CASE shortCircuitExpressionUses
    <3>1. /\ plan' = [i \in DOMAIN expressionUses |->
                       [k \in DOMAIN expressionUses[i] |-> Supply(i, k)]]
          /\ erased' = erased
      BY <2>2 DEF shortCircuitExpressionUses
    <3>2. \A i, k : Supply(i, k)' = Supply(i, k)
      BY <1>1, <3>1 DEF Supply, Unknown
    <3> QED
      BY <1>1, <3>1, <3>2 DEF Planned
  <2> QED
    BY <2>1, <2>2
<1>6. ArgumentsTracked' /\ CallsInLoop' /\ TracksInput' /\ ArgumentsExact'
  <2>1. call' = NoCall
    BY <1>0, <1>1 DEF CallsInLoop
  <2> QED
    BY <1>0, <1>1, <2>1 DEF ArgumentsTracked, CallsInLoop, TracksInput, ArgumentsExact, NoCall
<1> QED
  BY <1>2, <1>3, <1>4, <1>5, <1>6 DEF IInv

\* The compiled code does not change at run time.
LEMMA CompiledKept ==
  ASSUME Noted, NodesErased, Planned, UNCHANGED compiled,
         phase \in {"run", "loop"}, phase' \in {"run", "loop"}
  PROVE  /\ Noted' /\ NodesErased' /\ Planned' /\ Phis' = Phis
         /\ UNCHANGED <<prog, symbolicExpressions, expressionUses, erased, plan>>
<1>1. UNCHANGED <<prog, symbolicExpressions, expressionUses, erased, plan>> /\ Phis' = Phis
  BY DEF compiled, Phis
<1>2. Noted'
  BY <1>1, NotedKept
<1>3. NodesErased'
  BY <1>1 DEF NodesErased
<1>4. Planned'
  <2>1. \A i, k : Supply(i, k)' = Supply(i, k)
    BY <1>1 DEF Supply, Unknown
  <2> QED
    BY <1>1, <2>1 DEF Planned
<1> QED
  BY <1>1, <1>2, <1>3, <1>4

-----------------------------------------------------------------------------
(***************************************************************************)
(* Run time                                                                *)
(***************************************************************************)
\* Every set of numbers has a least one, because the order is well-founded.
LEMMA LeastIn ==
  ASSUME NEW R, IsWellFoundedOn(R, Nat), \A x, y \in Nat : x < y => <<x, y>> \in R,
         NEW T \in SUBSET Nat, T # {}
  PROVE  \E n \in T : \A m \in T : n <= m
<1>0. T \subseteq Nat
  OBVIOUS
<1>1. PICK n \in T : \A m \in T : ~(<<m, n>> \in R)
  BY ONLY WFMin, IsWellFoundedOn(R, Nat), <1>0, T # {}, Zenon
<1>2. \A m \in T : ~(m < n)
  BY <1>0, <1>1, Zenon
<1>3. \A m \in T : n <= m
  BY <1>0, <1>2
<1> QED
  BY <1>3

\* The order of the natural numbers is well-founded.
LEMMA LeastNumber ==
  ASSUME NEW T \in SUBSET Nat, T # {}
  PROVE  \E n \in T : \A m \in T : n <= m
<1>1. \A x, y \in Nat : x < y => <<x, y>> \in OpToRel(<, Nat)
  BY DEF OpToRel
<1> QED
  BY <1>1, NatLessThanWellFounded, LeastIn

\* What the code finds for a value.
LEMMA FindOK ==
  ASSUME TypeOK, NEW v \in Value
  PROVE  Find(v) \in {"sym", "null"} /\ (v \notin symbolicExpressions => Find(v) = "null")
BY DEF TypeOK, Find

\* The loop's body starts after its PHI nodes.
LEMMA BodyStarts ==
  ASSUME NEW n, n = CHOOSE k \in Body \cup {End} :
                      k \notin Phis /\ \A m \in (Body \cup {End}) \ Phis : k <= m
  PROVE  n \in Body \cup {End} /\ n \notin Phis /\ \A i \in Body : i < n => i \in Phis
<1> DEFINE T == (Body \cup {End}) \ Phis
<1>1. T \in SUBSET Nat /\ End \in T /\ Body \cup {End} \subseteq Nat
  BY BodyAssumption DEF Body, End, Phis
<1>2. \E k \in T : \A m \in T : k <= m
  BY <1>1, LeastNumber
<1>3. n \in T /\ \A m \in T : n <= m
  BY <1>2
<1>4. ASSUME NEW i \in Body, i < n PROVE i \in Phis
  <2>1. i \in Nat /\ n \in Nat
    BY <1>1, <1>3
  <2>2. ~(n <= i)
    BY <1>4, <2>1
  <2> QED
    BY <1>3, <2>2
<1> QED
  BY <1>3, <1>4

\* PHI nodes take the expressions of their inputs, and with them whether
\* they depend on the input; the erased ones never do.
LEMMA EnterInv ==
  ASSUME IInv, NEW input, EnterBody(input), UNCHANGED compiled, call' = NoCall,
         phase \in {"run", "loop"}, phase' = "loop",
         \A i \in Phis : input[i] \in Value /\ (Find(input[i]) = "sym" <=> tainted[input[i]]),
         \A i \in erased : input[i] \notin symbolicExpressions
  PROVE  IInv'
<1>0. TypeOK /\ Noted /\ NodesErased /\ Planned /\ ArgumentsTracked
  BY DEF IInv
<1>1. /\ Noted' /\ NodesErased' /\ Planned' /\ Phis' = Phis
      /\ UNCHANGED <<prog, symbolicExpressions, expressionUses, erased, plan>>
  BY <1>0, CompiledKept
<1>2. /\ expr' = [v \in Value |-> IF v \in Phis \ erased THEN Find(input[v]) ELSE expr[v]]
      /\ tainted' = [v \in Value |-> IF v \in Phis THEN tainted[input[v]] ELSE tainted[v]]
  BY DEF EnterBody
<1>3. /\ pc' \in Body \cup {End} /\ \A i \in Body : i < pc' => i \in Phis
  BY BodyStarts DEF EnterBody
<1>4. \A i \in Phis : Find(input[i]) \in {"sym", "null"}
  BY <1>0, FindOK
<1>5. expr' \in [Value -> {"sym", "null"}] /\ tainted' \in [Value -> BOOLEAN]
  BY <1>0, <1>2, <1>4 DEF TypeOK
<1>6. TypeOK'
  BY <1>0, <1>1, <1>3, <1>5 DEF TypeOK
<1>7. Phis \subseteq Body /\ Body \subseteq Value /\ (Params \cup Consts) \cap Body = {}
  BY ValueAssumption DEF Phis, Value
<1>8. ArgumentsTracked'
  <2>1. \A v \in Params \cup Consts : expr'[v] = expr[v] /\ tainted'[v] = tainted[v]
    BY <1>2, <1>7 DEF Value
  <2> QED
    BY <1>0, <2>1 DEF ArgumentsTracked
<1>9. TracksInput'
  <2> SUFFICES ASSUME NEW v \in Params \cup Consts \cup Phis
               PROVE  Find(v)' = "sym" <=> tainted'[v]
    <3>1. \A i \in Body : i < pc' => i \in Phis
      BY <1>3
    <3> QED
      BY <1>1, <3>1 DEF TracksInput
  <2>1. CASE v \in Phis \ erased
    <3>1. v \in symbolicExpressions
      BY <1>0, <1>7, <2>1 DEF Noted, HasExpression, Phis, Visited
    <3>2. Find(v)' = expr'[v]
      BY <1>1, <2>1, <3>1 DEF Find
    <3>3. expr'[v] = Find(input[v]) /\ tainted'[v] = tainted[input[v]]
      BY <1>2, <1>7, <2>1
    <3> QED
      BY <2>1, <3>2, <3>3
  <2>2. CASE v \in erased
    <3>1. v \in Phis
      BY <1>0, <2>2 DEF TypeOK
    <3>2. Find(v)' = "null"
      BY <1>1, <2>2 DEF Find
    <3>3. Find(input[v]) = "null"
      BY <2>2 DEF Find
    <3>4. tainted'[v] = tainted[input[v]]
      BY <1>2, <1>7, <3>1
    <3> QED
      BY <3>1, <3>2, <3>3, <3>4
  <2>3. CASE v \in Params
    <3>1. Find(v)' = expr'[v]
      BY <1>0, <1>1, <1>7, <2>3 DEF Find, Noted, TypeOK
    <3> QED
      BY <1>8, <2>3, <3>1 DEF ArgumentsTracked
  <2>4. CASE v \in Consts
    <3>1. Find(v)' = "null"
      BY <1>0, <1>1, <2>4 DEF Find, Noted
    <3> QED
      BY <1>8, <2>4, <3>1 DEF ArgumentsTracked
  <2> QED
    BY <2>1, <2>2, <2>3, <2>4
<1>10. ArgumentsExact' /\ CallsInLoop'
  BY DEF ArgumentsExact, CallsInLoop, NoCall
<1> QED
  BY <1>1, <1>6, <1>8, <1>9, <1>10 DEF IInv

\* The loop is entered.
LEMMA FirstEntryInv ==
  ASSUME IInv, FirstEntry
  PROVE  IInv'
<1> DEFINE input == [i \in Phis |-> prog[i].x]
<1>0. TypeOK /\ Noted /\ NodesErased /\ ArgumentsTracked
  BY DEF IInv
<1>1. phase = "run" /\ EnterBody(input) /\ phase' = "loop" /\ call' = NoCall /\ UNCHANGED compiled
  BY DEF FirstEntry
<1>2. ASSUME NEW i \in Phis
      PROVE  input[i] \in Value /\ (Find(input[i]) = "sym" <=> tainted[input[i]])
  <2>1. i \in Body /\ prog \in Programs /\ prog[i].kind = "phi"
    BY <1>0 DEF Noted, Phis
  <2>2. input[i] \in Params \cup Consts
    BY <2>1, ProgramsAssumption
  <2>3. input[i] \in Value /\ input[i] \notin erased
    BY <1>0, <2>2, ValueAssumption DEF Value, TypeOK, Phis
  <2> HIDE DEF input
  <2>4. CASE input[i] \in Params
    BY <1>0, <2>3, <2>4 DEF Noted, Find, ArgumentsTracked
  <2>5. CASE input[i] \in Consts
    BY <1>0, <2>3, <2>5 DEF Noted, Find, ArgumentsTracked
  <2> QED
    BY <2>2, <2>3, <2>4, <2>5
<1>3. \A i \in erased : input[i] \notin symbolicExpressions
  BY <1>0, <1>1 DEF NodesErased
<1> HIDE DEF input
<1> QED
  BY <1>1, <1>2, <1>3, EnterInv

\* And again: the values of the iteration that ends go into the next.
LEMMA BackEdgeInv ==
  ASSUME IInv, BackEdge
  PROVE  IInv'
<1> DEFINE input == [i \in Phis |-> prog[i].y]
<1>0. TypeOK /\ Noted /\ NodesErased /\ TracksInput
  BY DEF IInv
<1>1. /\ phase = "loop" /\ pc = End /\ EnterBody(input) /\ call' = NoCall /\ phase' = "loop"
      /\ UNCHANGED compiled
  BY DEF BackEdge
<1>2. ASSUME NEW i \in Phis
      PROVE  input[i] \in Value /\ (Find(input[i]) = "sym" <=> tainted[input[i]])
  <2>1. i \in Body /\ prog \in Programs /\ prog[i].kind = "phi"
    BY <1>0 DEF Noted, Phis
  <2>2. input[i] \in Available(prog, End)
    BY <2>1, ProgramsAssumption
  <2> HIDE DEF input
  <2>3. input[i] \in Value
    BY <2>2 DEF Available, Value
  <2> QED
    BY <1>0, <1>1, <2>2, <2>3 DEF TracksInput, Available
<1>3. \A i \in erased : input[i] \notin symbolicExpressions
  BY <1>0, <1>1 DEF NodesErased
<1> HIDE DEF input
<1> QED
  BY <1>1, <1>2, <1>3, EnterInv

\* The values that an instruction uses are tracked when it is reached.
LEMMA UsesTracked ==
  ASSUME IInv, phase = "loop", pc \in Body, NEW v \in Available(prog, pc)
  PROVE  v \in Value /\ v # pc /\ (Find(v) = "sym" <=> tainted[v]) /\ Find(v) \in {"sym", "null"}
<1>1. v \in Value /\ v # pc
  BY AvailableOK
<1>2. Find(v) = "sym" <=> tainted[v]
  BY <1>1 DEF IInv, TracksInput, Available
<1> QED
  BY <1>1, <1>2, FindOK DEF IInv

\* A single operand that may be symbolic is kept as it is; the computation is
\* not skipped only if it is symbolic.
LEMMA KeptIsSymbolic ==
  ASSUME IInv, NEW i \in DOMAIN expressionUses, ~allConcrete(i),
         NEW k \in DOMAIN expressionUses[i], k \in Unknown(i), Cardinality(Unknown(i)) = 1
  PROVE  Find(expressionUses[i][k]) # "null"
<1>1. Unknown(i) \subseteq 1 .. 2
  <2>1. i \in Body /\ prog \in Programs /\ expressionUses[i] = Inputs(i)
    BY DEF IInv, Noted
  <2>2. DOMAIN Inputs(i) \subseteq 1 .. 2
    BY <2>1, InputsOK
  <2> QED
    BY <2>1, <2>2 DEF Unknown
<1>2. IsFiniteSet(Unknown(i))
  <2>0. 1 \in Int /\ 2 \in Int
    OBVIOUS
  <2>1. IsFiniteSet(1 .. 2)
    BY <2>0, FS_Interval
  <2>2. Unknown(i) \in SUBSET (1 .. 2)
    BY <1>1
  <2> QED
    BY <2>1, <2>2, FS_Subset
<1>3. PICK x : Unknown(i) = {x}
  BY <1>2, FS_Singleton
<1>4. PICK j \in DOMAIN expressionUses[i] : Find(expressionUses[i][j]) # "null"
  BY DEF allConcrete, Range
<1>5. j \in Unknown(i)
  BY <1>4 DEF Unknown, Find
<1> QED
  BY <1>3, <1>4, <1>5

\* A computation is skipped exactly if no operand depends on the input, and
\* gets the right arguments otherwise.
LEMMA ComputeOK ==
  ASSUME IInv, phase = "loop", pc \in Body, Compute(pc), prog' = prog,
         \A v \in Value : v # pc => tainted'[v] = tainted[v]
  PROVE  ArgumentsExact' /\ (call'.inst = pc <=> \E v \in Range(Inputs(pc)) : tainted[v])
<1>0. Noted /\ Planned /\ TypeOK
  BY DEF IInv
<1>1. /\ prog \in Programs /\ pc # 0
      /\ pc \in DOMAIN expressionUses <=> Range(Inputs(pc)) \cap symbolicExpressions # {}
      /\ pc \in DOMAIN expressionUses => expressionUses[pc] = Inputs(pc)
  BY <1>0, BodyAssumption DEF Noted, Visited, Body
<1>2. \A v \in Range(Inputs(pc)) : /\ v \in Value /\ v # pc /\ (Find(v) = "sym" <=> tainted[v])
                                   /\ Find(v) \in {"sym", "null"}
  BY <1>1, InputsOK, UsesTracked
<1>3. CASE pc \notin DOMAIN expressionUses \/ allConcrete(pc)
  <2>1. call' = NoCall
    BY <1>3 DEF Compute
  <2>2. \A v \in Range(Inputs(pc)) : Find(v) = "null"
    <3>1. CASE pc \notin DOMAIN expressionUses
      BY <1>1, <3>1 DEF Find
    <3>2. CASE pc \in DOMAIN expressionUses /\ allConcrete(pc)
      BY <1>1, <3>2 DEF allConcrete
    <3> QED
      BY <1>3, <3>1, <3>2
  <2>3. ~\E v \in Range(Inputs(pc)) : tainted[v]
    BY <1>2, <2>2
  <2>4. ArgumentsExact' /\ call'.inst # pc
    BY <1>1, <2>1 DEF ArgumentsExact, NoCall
  <2> QED
    BY <2>3, <2>4
<1>4. CASE pc \in DOMAIN expressionUses /\ ~allConcrete(pc)
  <2>1. call' = [inst |-> pc, args |-> [k \in DOMAIN Inputs(pc) |-> Argument(pc, k)]]
    BY <1>1, <1>4 DEF Compute
  <2>2. \E v \in Range(Inputs(pc)) : tainted[v]
    BY <1>1, <1>2, <1>4 DEF allConcrete
  <2>3. ASSUME NEW k \in DOMAIN Inputs(pc)
        PROVE  Argument(pc, k) = IF tainted'[Inputs(pc)[k]] THEN "sym" ELSE "lit"
    <3> DEFINE v == Inputs(pc)[k]
               found == Find(v)
    <3>0. v \in Range(Inputs(pc)) /\ expressionUses[pc] = Inputs(pc)
      BY <1>1, <1>4 DEF Range
    <3>1. /\ v \in Value /\ (found = "sym" <=> tainted'[v]) /\ found \in {"sym", "null"}
      BY <1>2, <3>0
    <3>2. /\ plan[pc][k] = Supply(pc, k)
          /\ Argument(pc, k) = CASE plan[pc][k] = "create" -> "lit"
                                 [] plan[pc][k] = "keep"   -> found
                                 [] plan[pc][k] = "check"  -> IF found = "null" THEN "lit" ELSE found
      BY <1>0, <1>4, <3>0 DEF Planned, Argument
    <3>3. CASE k \notin Unknown(pc)
      <4>1. found = "null"
        BY <3>0, <3>3 DEF Unknown, Find
      <4>2. plan[pc][k] = "create"
        BY <3>2, <3>3 DEF Supply
      <4> QED
        BY <3>1, <3>2, <4>1, <4>2
    <3>4. CASE k \in Unknown(pc) /\ Cardinality(Unknown(pc)) = 1
      <4>1. found # "null"
        BY <1>4, <3>0, <3>4, KeptIsSymbolic
      <4>2. plan[pc][k] = "keep"
        BY <3>2, <3>4 DEF Supply
      <4> QED
        BY <3>1, <3>2, <4>1, <4>2
    <3>5. CASE k \in Unknown(pc) /\ Cardinality(Unknown(pc)) # 1
      <4>1. plan[pc][k] = "check"
        BY <3>2, <3>5 DEF Supply
      <4> QED
        BY <3>1, <3>2, <4>1
    <3> QED
      BY <3>3, <3>4, <3>5
  <2>4. call'.inst = pc
    BY <2>1
  <2>5. ArgumentsExact'
    <3>1. DOMAIN call'.args = DOMAIN Inputs(pc) /\ \A k \in DOMAIN Inputs(pc) : call'.args[k] = Argument(pc, k)
      BY <2>1
    <3>2. Inputs(call.inst)' = Inputs(pc)
      BY <2>4 DEF Inputs
    <3> QED
      BY <2>3, <3>1, <3>2 DEF ArgumentsExact
  <2> QED
    BY <2>2, <2>4, <2>5
<1> QED
  BY <1>3, <1>4

\* Before the instruction that is next, all that it leaves alone is tracked
\* after it as before.
LEMMA StepTracked ==
  ASSUME IInv, phase = "loop", phase' = "loop", pc \in Body, pc' = pc + 1, UNCHANGED compiled,
         pc \notin Phis, \A v \in Value : v # pc => tainted'[v] = tainted[v] /\ expr'[v] = expr[v],
         \A v \in Value : v = pc /\ prog[pc].kind # "branch" => (Find(v)' = "sym" <=> tainted'[v]),
         expr' \in [Value -> {"sym", "null"}], tainted' \in [Value -> BOOLEAN], ArgumentsExact'
  PROVE  IInv'
<1>0. TypeOK /\ Noted /\ NodesErased /\ Planned /\ ArgumentsTracked /\ TracksInput
  BY DEF IInv
<1>1. /\ Noted' /\ NodesErased' /\ Planned' /\ Phis' = Phis
      /\ UNCHANGED <<prog, symbolicExpressions, expressionUses, erased, plan>>
  BY <1>0, CompiledKept
<1>2. pc' \in Body \cup {End} /\ pc \in Nat /\ Body \subseteq Nat
  BY BodyAssumption DEF Body, End
<1>3. TypeOK'
  BY <1>0, <1>1, <1>2 DEF TypeOK
<1>4. ArgumentsTracked'
  <2>1. \A v \in Params \cup Consts : v # pc /\ v \in Value
    BY ValueAssumption DEF Value
  <2> QED
    BY <1>0, <2>1 DEF ArgumentsTracked
<1>5. TracksInput'
  <2> SUFFICES ASSUME NEW v \in Value,
                      v \in Params \cup Consts \cup Phis \cup {i \in Body : i < pc' /\ prog[i].kind # "branch"}
               PROVE  Find(v)' = "sym" <=> tainted'[v]
    BY <1>1 DEF TracksInput
  <2>1. CASE v = pc
    <3>1. prog[pc].kind # "branch"
      BY <2>1, ValueAssumption
    <3> QED
      BY <2>1, <3>1
  <2>2. CASE v # pc
    <3>1. v \in Params \cup Consts \cup Phis \cup {i \in Body : i < pc /\ prog[i].kind # "branch"}
      BY <1>2, <2>2
    <3>2. Find(v)' = Find(v)
      BY <1>1, <2>2 DEF Find
    <3> QED
      BY <1>0, <2>2, <3>1, <3>2 DEF TracksInput
  <2> QED
    BY <2>1, <2>2
<1> QED
  BY <1>1, <1>3, <1>4, <1>5 DEF IInv, CallsInLoop

\* A binary operation has an expression exactly if an operand has.
LEMMA BinaryInv ==
  ASSUME IInv, Binary
  PROVE  IInv'
<1>0. TypeOK /\ Noted
  BY DEF IInv
<1>1. /\ phase = "loop" /\ pc # End /\ prog[pc].kind = "binary" /\ Compute(pc)
      /\ expr' = [expr EXCEPT ![pc] = IF call'.inst = pc THEN "sym" ELSE "null"]
      /\ tainted' = [tainted EXCEPT ![pc] = tainted[prog[pc].x] \/ tainted[prog[pc].y]]
      /\ pc' = pc + 1 /\ phase' = "loop" /\ UNCHANGED compiled
  BY DEF Binary
<1>2. pc \in Body /\ pc \in Value /\ prog \in Programs /\ pc \notin Phis
  BY <1>0, <1>1 DEF TypeOK, Value, Noted, Phis
<1>3. prog' = prog /\ symbolicExpressions' = symbolicExpressions /\ erased' = erased
  BY <1>1 DEF compiled
<1>4. /\ \A v \in Value : v # pc => tainted'[v] = tainted[v] /\ expr'[v] = expr[v]
      /\ expr' \in [Value -> {"sym", "null"}] /\ tainted' \in [Value -> BOOLEAN]
      /\ tainted'[pc] <=> tainted[prog[pc].x] \/ tainted[prog[pc].y]
      /\ expr'[pc] = IF call'.inst = pc THEN "sym" ELSE "null"
  BY <1>0, <1>1, <1>2 DEF TypeOK
<1>5. Inputs(pc) = <<prog[pc].x, prog[pc].y>>
  BY <1>1 DEF Inputs
<1>6. Range(Inputs(pc)) = {prog[pc].x, prog[pc].y}
  BY <1>5 DEF Range
<1>7. ArgumentsExact' /\ (call'.inst = pc <=> tainted'[pc])
  <2>1. ArgumentsExact' /\ (call'.inst = pc <=> \E v \in Range(Inputs(pc)) : tainted[v])
    BY <1>1, <1>2, <1>3, <1>4, ComputeOK
  <2> QED
    BY <1>4, <1>6, <2>1
<1>8. tainted'[pc] => pc \in symbolicExpressions
  <2> SUFFICES ASSUME tainted'[pc] PROVE pc \in symbolicExpressions
    OBVIOUS
  <2>1. PICK v \in Range(Inputs(pc)) : tainted[v]
    BY <1>4, <1>6
  <2>2. v \in Available(prog, pc)
    BY <1>2, InputsOK
  <2>3. Find(v) = "sym"
    BY <1>1, <1>2, <2>1, <2>2, UsesTracked
  <2>4. v \in symbolicExpressions
    BY <2>3 DEF Find
  <2> QED
    BY <1>0, <1>1, <1>2, <2>1, <2>4 DEF Noted, HasExpression, Visited
<1>9. ASSUME NEW v \in Value, v = pc
      PROVE  Find(v)' = "sym" <=> tainted'[v]
  <2>1. v \notin erased
    BY <1>0, <1>2, <1>9 DEF TypeOK
  <2>2. Find(v)' = IF v \in symbolicExpressions THEN expr'[v] ELSE "null"
    BY <1>3, <2>1 DEF Find
  <2> QED
    BY <1>4, <1>7, <1>8, <1>9, <2>2
<1> QED
  BY <1>1, <1>2, <1>4, <1>7, <1>9, StepTracked

\* A select forwards the expression of the operand that it chooses.
LEMMA SelectInv ==
  ASSUME IInv, Select
  PROVE  IInv'
<1>0. TypeOK /\ Noted
  BY DEF IInv
<1>1. /\ phase = "loop" /\ pc # End /\ prog[pc].kind = "select" /\ Compute(pc)
      /\ pc' = pc + 1 /\ phase' = "loop" /\ UNCHANGED compiled
  BY DEF Select
<1>2. PICK chosen \in {prog[pc].x, prog[pc].y} :
        /\ expr' = [expr EXCEPT ![pc] = Find(chosen)]
        /\ tainted' = [tainted EXCEPT ![pc] = tainted[chosen]]
  BY DEF Select
<1>3. pc \in Body /\ pc \in Value /\ prog \in Programs /\ pc \notin Phis
  BY <1>0, <1>1 DEF TypeOK, Value, Noted, Phis
<1>4. prog' = prog /\ symbolicExpressions' = symbolicExpressions /\ erased' = erased
  BY <1>1 DEF compiled
<1>5. chosen \in Available(prog, pc)
  BY <1>1, <1>3, OperandsOK
<1>6. chosen \in Value /\ (Find(chosen) = "sym" <=> tainted[chosen]) /\ Find(chosen) \in {"sym", "null"}
  BY <1>1, <1>3, <1>5, UsesTracked
<1>7. /\ \A v \in Value : v # pc => tainted'[v] = tainted[v] /\ expr'[v] = expr[v]
      /\ expr' \in [Value -> {"sym", "null"}] /\ tainted' \in [Value -> BOOLEAN]
      /\ tainted'[pc] <=> tainted[chosen]
      /\ expr'[pc] = Find(chosen)
  BY <1>0, <1>2, <1>3, <1>6 DEF TypeOK
<1>8. ArgumentsExact'
  BY <1>1, <1>3, <1>4, <1>7, ComputeOK
<1>9. pc \notin symbolicExpressions => Find(chosen) = "null"
  <2>1. pc \notin symbolicExpressions => chosen \notin symbolicExpressions
    BY <1>0, <1>1, <1>3 DEF Noted, HasExpression, Visited
  <2> QED
    BY <2>1 DEF Find
<1>10. ASSUME NEW v \in Value, v = pc
       PROVE  Find(v)' = "sym" <=> tainted'[v]
  <2>1. v \notin erased
    BY <1>0, <1>3, <1>10 DEF TypeOK
  <2>2. Find(v)' = IF v \in symbolicExpressions THEN expr'[v] ELSE "null"
    BY <1>4, <2>1 DEF Find
  <2> QED
    BY <1>6, <1>7, <1>9, <1>10, <2>2
<1> QED
  BY <1>1, <1>3, <1>7, <1>8, <1>10, StepTracked

\* A branch.
LEMMA BranchInv ==
  ASSUME IInv, Branch
  PROVE  IInv'
<1>0. TypeOK /\ Noted
  BY DEF IInv
<1>1. /\ phase = "loop" /\ pc # End /\ prog[pc].kind = "branch" /\ Compute(pc)
      /\ pc' = pc + 1 /\ phase' = "loop" /\ UNCHANGED compiled
      /\ expr' = expr /\ tainted' = tainted
  BY DEF Branch
<1>2. pc \in Body /\ pc \notin Phis /\ prog' = prog
  BY <1>0, <1>1 DEF TypeOK, Phis, compiled
<1>3. ArgumentsExact'
  BY <1>1, <1>2, ComputeOK
<1>4. expr' \in [Value -> {"sym", "null"}] /\ tainted' \in [Value -> BOOLEAN]
  BY <1>0, <1>1 DEF TypeOK
<1> QED
  BY <1>1, <1>2, <1>3, <1>4, StepTracked

\* The next call of the function.
LEMMA CallAgainInv ==
  ASSUME IInv, CallAgain
  PROVE  IInv'
<1>0. TypeOK /\ Noted /\ NodesErased /\ Planned /\ ArgumentsTracked
  BY DEF IInv
<1>1. /\ phase = "loop" /\ phase' = "run" /\ call' = NoCall /\ UNCHANGED compiled /\ pc' = pc
      /\ tainted' \in [Value -> BOOLEAN] /\ \A v \in Value \ Params : tainted'[v] = tainted[v]
      /\ expr' = [v \in Value |-> IF v \notin Params THEN expr[v]
                                  ELSE IF tainted'[v] THEN "sym" ELSE "null"]
  BY DEF CallAgain
<1>2. /\ Noted' /\ NodesErased' /\ Planned' /\ Phis' = Phis
      /\ UNCHANGED <<prog, symbolicExpressions, expressionUses, erased, plan>>
  BY <1>0, <1>1, CompiledKept
<1>3. TypeOK'
  <2>1. expr' \in [Value -> {"sym", "null"}]
    BY <1>0, <1>1 DEF TypeOK
  <2> QED
    BY <1>0, <1>1, <1>2, <2>1 DEF TypeOK
<1>4. ArgumentsTracked'
  BY <1>0, <1>1, ValueAssumption DEF ArgumentsTracked, Value
<1>5. CallsInLoop' /\ TracksInput' /\ ArgumentsExact'
  BY <1>1 DEF CallsInLoop, TracksInput, ArgumentsExact, NoCall
<1> QED
  BY <1>2, <1>3, <1>4, <1>5 DEF IInv

-----------------------------------------------------------------------------
(***************************************************************************)
(* The theorems                                                            *)
(***************************************************************************)
\* The invariant holds at the start.
LEMMA InitInv == Init => IInv
<1> SUFFICES ASSUME Init PROVE IInv
  OBVIOUS
<1>0. First \in Body /\ \A i \in Body : ~(i < First)
  BY BodyAssumption DEF Body
<1>1. TypeOK
  <2>1. tainted \in [Value -> BOOLEAN] /\ expr = [v \in Value |-> IF tainted[v] THEN "sym" ELSE "null"]
    BY DEF Init
  <2>2. expr \in [Value -> {"sym", "null"}]
    BY <2>1
  <2>3. DOMAIN expressionUses = {}
    BY DEF Init
  <2> QED
    BY <1>0, <2>1, <2>2, <2>3 DEF Init, TypeOK, Value
<1>2. Noted
  <2>1. \A i \in Body : i \notin Params /\ ~Visited(i)
    BY <1>0, ValueAssumption DEF Init, Visited
  <2>2. DOMAIN expressionUses = {}
    BY DEF Init
  <2> QED
    BY <1>0, <2>1, <2>2, ValueAssumption DEF Init, Noted
<1>3. NodesErased /\ Planned /\ CallsInLoop /\ TracksInput
  BY DEF Init, NodesErased, Planned, CallsInLoop, TracksInput
<1>4. ArgumentsTracked
  BY ValueAssumption DEF Init, ArgumentsTracked, Value
<1>5. ArgumentsExact
  BY NoCallExact DEF Init
<1> QED
  BY <1>1, <1>2, <1>3, <1>4, <1>5 DEF IInv

\* No step breaks it.
LEMMA NextInv == IInv /\ [Next]_vars => IInv'
<1> SUFFICES ASSUME IInv, [Next]_vars PROVE IInv'
  OBVIOUS
<1>1. CASE Next
  BY <1>1, VisitInv, PhasesInv, FirstEntryInv, BackEdgeInv, BinaryInv, SelectInv, BranchInv,
     CallAgainInv DEF Next
<1>2. CASE UNCHANGED vars
  <2>1. UNCHANGED <<prog, phase, symbolicExpressions, expressionUses, erased, plan,
                    pc, expr, tainted, call>>
    BY <1>2 DEF vars
  <2>2. /\ \A i : Inputs(i)' = Inputs(i) /\ Range(Inputs(i))' = Range(Inputs(i))
        /\ \A i : Visited(i)' <=> Visited(i)
        /\ \A i : HasExpression(i)' = HasExpression(i)
        /\ \A i, k : Supply(i, k)' = Supply(i, k)
        /\ \A v : Find(v)' = Find(v)
        /\ Phis' = Phis
    BY <2>1 DEF Inputs, Range, Visited, HasExpression, Supply, Unknown, Find, Phis
  <2>3. TypeOK' /\ Noted'
    BY <2>1, <2>2 DEF IInv, TypeOK, Noted
  <2>4. NodesErased' /\ Planned' /\ ArgumentsTracked' /\ CallsInLoop' /\ TracksInput'
    BY <2>1, <2>2 DEF IInv, NodesErased, Planned, ArgumentsTracked, CallsInLoop, TracksInput
  <2>5. ArgumentsExact'
    <3>1. Inputs(call.inst)' = Inputs(call.inst)
      BY <2>1 DEF Inputs
    <3> QED
      BY <2>1, <3>1 DEF IInv, ArgumentsExact
  <2> QED
    BY <2>3, <2>4, <2>5 DEF IInv
<1> QED
  BY <1>1, <1>2

\* The compile-time maps and the run-time state have their types.
THEOREM PassTypes == Spec => []TypeOK
<1>1. IInv => TypeOK
  BY DEF IInv
<1> QED
  BY InitInv, NextInv, <1>1, PTL DEF Spec

\* In every function, however long its loop, a value has an expression at run
\* time exactly if it depends on symbolic input.
THEOREM NoDependenceLost == Spec => []TracksInput
<1>1. IInv => TracksInput
  BY DEF IInv
<1> QED
  BY InitInv, NextInv, <1>1, PTL DEF Spec

\* No function of the run-time library gets a null expression, or an
\* expression that was created for a symbolic operand.
THEOREM NoNullArgument == Spec => []ArgumentsExact
<1>1. IInv => ArgumentsExact
  BY DEF IInv
<1> QED
  BY InitInv, NextInv, <1>1, PTL DEF Spec
=============================================================================
