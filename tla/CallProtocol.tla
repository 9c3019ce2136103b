---------------------------- MODULE CallProtocol ----------------------------
(***************************************************************************)
(* How expressions cross function calls: the code that the compiler pass   *)
(* inserts at calls, function entries and returns (compiler/Symbolizer.cpp) *)
(* and the global slots of runtime/RuntimeCommon.cpp through which caller  *)
(* and callee, which may or may not be instrumented, exchange expressions. *)
(*                                                                         *)
(* A value is a symbolic value of the program or Opaque, a value that was  *)
(* made by uninstrumented code and has no expression; the right expression *)
(* of a symbolic value is the value itself.  A frame holds the value its   *)
(* function currently works on, with the expression the inserted code has  *)
(* for it.                                                                 *)
(***************************************************************************)
EXTENDS Integers, Sequences

CONSTANTS
  Symbolic,     \* values that depend on the input
  Opaque,       \* a value without expression
  Null,         \* the null expression
  MaxDepth      \* bound: the depth of the call stack

ASSUME OpaqueAssumption == Opaque \notin Symbolic /\ Null \notin Symbolic
ASSUME DepthAssumption == MaxDepth \in Nat \ {0}

VARIABLES
  stack,                \* the frames of the program, the innermost last
  g_function_arguments, \* the expression of the (one) parameter
  g_return_value        \* the expression of the return value

callVars == <<stack, g_function_arguments, g_return_value>>

-----------------------------------------------------------------------------
Values == Symbolic \cup {Opaque}

\* used: whether the caller uses the result; symcc: whether the function is
\* instrumented; got: how it came by the value it works on.
Frame(symcc, used, got, val, expr) ==
  [symcc |-> symcc, used |-> used, got |-> got, val |-> val, expr |-> expr]

Top       == stack[Len(stack)]
Below     == SubSeq(stack, 1, Len(stack) - 1)
Caller    == stack[Len(stack) - 1]
Enter(f)  == stack' = Append(stack, f)

\* The innermost function goes on with another value.
Works(frames, got, val, expr) ==
  [frames EXCEPT ![Len(frames)] =
     [@ EXCEPT !.got = got, !.val = val, !.expr = expr]]

\* The function computes or reads a symbolic value (or a constant).
ComputeValue(v) ==
  /\ Top.symcc
  /\ stack' = Works(stack, "computed", v, IF v = Opaque THEN Null ELSE v)
  /\ UNCHANGED <<g_function_arguments, g_return_value>>

\* Mutant: the argument is passed instead of its expression.
CallPassesValue(symcc, used) ==
  /\ Len(stack) < MaxDepth
  /\ Top.symcc
  /\ g_function_arguments' = Top.val
  /\ g_return_value' = IF used THEN Null ELSE g_return_value
  /\ Enter(Frame(symcc, used, "parameter", Top.val,
                 IF symcc THEN g_function_arguments' ELSE Null))

\* handleFunctionCall: the parameter's expression is set, and the return
\* expression is cleared if the result is used.  The entry block of an
\* instrumented callee fetches the parameter's expression
\* (symbolizeFunctionArguments).
Call(symcc, used) ==
  /\ Len(stack) < MaxDepth
  /\ Top.symcc
  /\ g_function_arguments' = Top.expr
  /\ g_return_value' = IF used THEN Null ELSE g_return_value
  /\ Enter(Frame(symcc, used, "parameter", Top.val,
                 IF symcc THEN g_function_arguments' ELSE Null))

\* Code at the return point: the return expression is fetched, and cleared,
\* if the result is used.
ReturnPoint(val, ret) ==
  IF Caller.symcc /\ Top.used
    THEN /\ stack' = Works(Below, IF Top.symcc THEN "result" ELSE "opaque", val, ret)
         /\ g_return_value' = Null
    ELSE /\ stack' = Below
         /\ g_return_value' = ret

\* Mutant: a null expression is not stored.
ReturnSymbolicOnly ==
  /\ Len(stack) > 1
  /\ Top.symcc
  /\ ReturnPoint(Top.val, IF Top.expr = Null THEN g_return_value ELSE Top.expr)
  /\ UNCHANGED g_function_arguments

\* visitReturnInst: the expression is set even if it is null.
Return ==
  /\ Len(stack) > 1
  /\ Top.symcc
  /\ ReturnPoint(Top.val, Top.expr)
  /\ UNCHANGED g_function_arguments

\* A function without a result sets nothing.
ReturnVoid ==
  /\ Len(stack) > 1
  /\ Top.symcc /\ ~Top.used
  /\ stack' = Below
  /\ UNCHANGED <<g_function_arguments, g_return_value>>

\* Uninstrumented code knows nothing of the protocol.
ReturnOpaque ==
  /\ Len(stack) > 1
  /\ ~Top.symcc
  /\ ReturnPoint(Opaque, g_return_value)
  /\ UNCHANGED g_function_arguments



\* An exception unwinds to some instrumented caller, which goes on at its
\* landing pad and does not fetch a result (visitInvokeInst).
Unwind(k) ==
  /\ k \in 1 .. Len(stack) - 1
  /\ stack[k].symcc
  /\ stack' = SubSeq(stack, 1, k)
  /\ UNCHANGED <<g_function_arguments, g_return_value>>

\* Uninstrumented code calls an instrumented function (qsort's comparison,
\* a signal handler): nothing is set.
Callback(used) ==
  /\ Len(stack) < MaxDepth
  /\ ~Top.symcc
  /\ Enter(Frame(TRUE, used, "callback", Opaque, g_function_arguments))
  /\ UNCHANGED <<g_function_arguments, g_return_value>>

-----------------------------------------------------------------------------
\* main does not fetch expressions for its parameters.
CallInit ==
  /\ stack = <<Frame(TRUE, FALSE, "computed", Opaque, Null)>>
  /\ g_function_arguments = Null
  /\ g_return_value = Null

CallNext ==
  \/ \E v \in Values : ComputeValue(v)
  \/ \E symcc, used \in BOOLEAN : Call(symcc, used)
  \/ Return
  \/ ReturnVoid
  \/ ReturnOpaque
  \/ \E k \in 1 .. MaxDepth : Unwind(k)

CallSpec == CallInit /\ [][CallNext]_callVars

\* Uninstrumented code may also call back.
CallbackSpec == CallInit /\ [][CallNext \/ \E used \in BOOLEAN : Callback(used)]_callVars

-----------------------------------------------------------------------------
(***************************************************************************)
(* Properties                                                              *)
(***************************************************************************)
Expressions == Symbolic \cup {Null}

\* Types of the call stack and of the global slots.
CallTypeOK ==
  /\ stack \in Seq([symcc : BOOLEAN, used : BOOLEAN,
                    got   : {"computed", "parameter", "result", "opaque", "callback"},
                    val   : Values, expr : Expressions])
  /\ Len(stack) \in 1 .. MaxDepth
  /\ g_function_arguments \in Expressions
  /\ g_return_value \in Expressions

Exact(f) == f.expr = IF f.val = Opaque THEN Null ELSE f.val

\* Every instrumented function has, for the value it works on, exactly that
\* value's expression: neither a stale one left in the global slots by an
\* earlier call, nor none where there should be one, whatever mix of
\* instrumented and uninstrumented functions is on the stack and however
\* they return.
ExpressionsExact == \A k \in DOMAIN stack : stack[k].symcc => Exact(stack[k])

\* "We'll have to treat the result as an opaque concrete value": the result
\* of an uninstrumented function never has an expression.
OpaqueIsConcrete == \A k \in DOMAIN stack : stack[k].got = "opaque" => stack[k].expr = Null
=============================================================================
