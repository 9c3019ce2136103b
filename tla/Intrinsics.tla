----------------------------- MODULE Intrinsics -----------------------------
(***************************************************************************)
(* A program that computes with integers, addresses and floating-point     *)
(* numbers, calls LLVM's arithmetic intrinsics and keeps a structure       *)
(* {iN, i1} in a register, instrumented by compiler/Symbolizer.cpp.  Every *)
(* instruction computes a value (LLVM's semantics, external) and an        *)
(* expression (the builders of BitVectors and Instructions, applied to     *)
(* operands whose expressions are exact); the module asks whether the two  *)
(* agree.                                                                  *)
(***************************************************************************)
EXTENDS Instructions

CONSTANTS
  Scalar,        \* the intrinsics with an integer result that the program uses
  Overflow,      \* the arithmetic with overflow that it uses: <<op, is_signed>>
  Inserted,      \* what it inserts: <<member, is it a compile-time constant?>>
  Seconds,       \* the types of the second member of its concrete structures
  Narrow,        \* the values of indices narrower than a pointer
  Predicates     \* the floating-point comparisons it uses

VARIABLES
  struct,  \* the members of the structure
  agg,     \* its expression
  out      \* the last scalar result: instruction, value, expression

vars == <<struct, agg, out>>

Member  == [0 .. 1 -> Ints \cup Booleans]
Structs == {m \in Member : m[0] \in Ints /\ m[1] \in Booleans}
Nothing == [op |-> "none", val |-> Bool(FALSE), expr |-> Bool(FALSE)]

-----------------------------------------------------------------------------
(***************************************************************************)
(* LLVM                                                                    *)
(***************************************************************************)
Clamp(lo, hi, v) == IF v < lo THEN lo ELSE IF v > hi THEN hi ELSE v

ClampSigned(v)   == BV(Bits, Clamp(-Pow2[Bits - 1], Pow2[Bits - 1] - 1, v))
ClampUnsigned(v) == BV(Bits, Clamp(0, Pow2[Bits] - 1, v))

\* The value of an instruction or a call.  A shift by Bits or more is poison;
\* rotations are funnel shifts of a number with itself.
Evaluate(op, a, b) ==
  LET s == SignedValue(a) t == SignedValue(b) IN
  CASE op = "sadd_sat" -> ClampSigned(s + t)
    [] op = "ssub_sat" -> ClampSigned(s - t)
    [] op = "uadd_sat" -> ClampUnsigned(a.v + b.v)
    [] op = "usub_sat" -> ClampUnsigned(a.v - b.v)
    [] op = "sshl_sat" -> ClampSigned(s * Pow2[b.v])
    [] op = "ushl_sat" -> ClampUnsigned(a.v * Pow2[b.v])
    [] op = "abs"      -> BV(Bits, IF s < 0 THEN -s ELSE s)
    [] op = "rotl"     -> BV(Bits, (a.v * (Pow2[Bits] + 1) * Pow2[b.v % Bits]) \div Pow2[Bits])
    [] op = "rotr"     -> BV(Bits, (a.v * (Pow2[Bits] + 1)) \div Pow2[b.v % Bits])
    [] op = "ntohl"    -> FromNetwork(a)
    [] op = "ptrtoint" -> a

Defined(op, b) == op \in {"sshl_sat", "ushl_sat"} => b.v < Bits

\* The structure that llvm.*.with.overflow returns.
WithOverflow(op, is_signed, a, b) ==
  LET x == IF is_signed THEN SignedValue(a) ELSE a.v
      y == IF is_signed THEN SignedValue(b) ELSE b.v
      r == CASE op = "add" -> x + y [] op = "sub" -> x - y [] op = "mul" -> x * y
      fits == IF is_signed THEN r \in -Pow2[Bits - 1] .. Pow2[Bits - 1] - 1
                           ELSE r \in 0 .. Pow2[Bits] - 1 IN
  [i \in 0 .. 1 |-> IF i = 0 THEN BV(Bits, r) ELSE Bool(~fits)]

\* The layout of {iN, i1}: the size of the structure, and where its members
\* are and how many bytes they take.
StructBytes   == 2 * (Bits \div ByteBits)
StoreSize(i)  == IF i = 0 THEN Bits \div ByteBits ELSE 1
ElementOffset(i) == IF i = 0 THEN 0 ELSE Bits \div ByteBits

-----------------------------------------------------------------------------
(***************************************************************************)
(* The instrumentation                                                     *)
(***************************************************************************)
\* The outcomes of an oversized shift; it makes no difference below WordBits.
Wraps == IF Bits < WordBits THEN {FALSE} ELSE BOOLEAN

\* The run-time calls that handleIntrinsicCall makes.
BuildScalar(op, a, b, wraps) ==
  CASE op = "sadd_sat" -> _sym_build_sadd_sat(a, b, wraps)
    [] op = "ssub_sat" -> _sym_build_ssub_sat(a, b, wraps)
    [] op = "uadd_sat" -> _sym_build_uadd_sat(a, b, wraps)
    [] op = "usub_sat" -> _sym_build_usub_sat(a, b)
    [] op = "sshl_sat" -> _sym_build_sshl_sat(a, b, wraps)
    [] op = "ushl_sat" -> _sym_build_ushl_sat(a, b, wraps)
    [] op = "abs"      -> _sym_build_abs(a)
    [] op = "rotl"     -> _sym_build_funnel_shift_left(a, a, b)
    [] op = "rotr"     -> _sym_build_funnel_shift_right(a, a, b)
    [] op = "ntohl"    -> ntohl(a)
    [] op = "ptrtoint" -> visitPtrToIntInst(a)

BuildOverflow(op, is_signed, a, b) ==
  CASE op = "add" -> _sym_build_add_overflow(a, b, is_signed, LittleEndian)
    [] op = "sub" -> _sym_build_sub_overflow(a, b, is_signed, LittleEndian)
    [] op = "mul" -> _sym_build_mul_overflow(a, b, is_signed, LittleEndian)

\* The member of a structure as a bit vector of whole bytes, and back: only
\* Booleans are converted, and not if they are constants.
convertExprForTypeToBitVectorExpr(x, constant) ==
  IF IsBoolean(x) /\ ~constant THEN ZExt(_sym_build_bool_to_bit(x), ByteBits - 1) ELSE x

convertBitVectorExprForType(type, x) ==
  IF type = "i1" THEN _sym_build_bit_to_bool(Extract(x, 0, 0)) ELSE x

\* The program is about to execute another instruction; what the last one
\* yielded has been used.
Ready == out = Nothing

UseResult ==
  /\ ~Ready
  /\ out' = Nothing
  /\ UNCHANGED <<struct, agg>>

CallScalar(op, a, b) ==
  /\ Ready
  /\ Defined(op, b)
  /\ \E wraps \in Wraps :
       out' = [op |-> op, val |-> Evaluate(op, a, b),
               expr |-> BuildScalar(op, a, b, wraps)]
  /\ UNCHANGED <<struct, agg>>

\* An instruction of Instructions: its value and its expression.
Compute(op, val, expr) ==
  /\ Ready
  /\ out' = [op |-> op, val |-> val, expr |-> expr]
  /\ UNCHANGED <<struct, agg>>

Convert ==
  \/ \E x \in Ints, bits \in {1, ByteBits} :
       Compute("trunc", Truncated(x, bits), visitTruncInst(x, bits))
  \/ \E opcode \in {"sext", "zext"}, x \in Booleans \cup Values(ByteBits) :
       Compute(opcode, Extended(opcode, x, Bits), visitCastInst(opcode, x, Bits))

\* &p[i].member[j], where a structure has a member at offset 1 that is an
\* array of elements of two bytes, and &p->member[j].
Indices  == {ElementStep(3, i, FALSE) : i \in Ints}
              \cup {ElementStep(3, BV(ByteBits, i), c) : i \in Narrow, c \in BOOLEAN}
Elements == {ElementStep(2, BV(Bits, i), FALSE) : i \in {0, 1, Pow2[Bits] - 1}}
              \cup {ElementStep(2, BV(ByteBits, i), TRUE) : i \in Narrow}

GetElementPtr ==
  \E p \in Ints, s \in Indices, t \in Elements, o \in 0 .. 1 :
    LET path == <<s, MemberStep(o), t>> IN
    Compute("getelementptr", ElementAddress(p, path), visitGetElementPtrInst(p, path))

Compare ==
  \E pred \in Predicates, a, b \in Floats :
    Compute("fcmp", FloatCompare(pred, a, b), visitCmpInst(pred, a, b))

\* A member of a structure of an integer and a byte or a Boolean, in either
\* order, that was a concrete value until it got an expression.
ByteFirst == [offset |-> <<0, StructBytes \div 2>>, size |-> <<1, Bits \div ByteBits>>,
              bytes |-> StructBytes]
ByteLast  == [offset |-> <<0, Bits \div ByteBits>>, size |-> <<Bits \div ByteBits, 1>>,
              bytes |-> StructBytes]

ConcreteStruct ==
  \E x \in Ints, type \in Seconds, layout \in {ByteFirst, ByteLast}, i \in 1 .. 2 :
  \E y \in IF type = "i1" THEN Booleans ELSE Values(ByteBits) :
    LET members == IF layout = ByteLast THEN <<x, y>> ELSE <<y, x>>
        types   == IF layout = ByteLast THEN <<"iN", type>> ELSE <<type, "iN">> IN
    Compute("extractvalue", members[i],
            convertBitVectorExprForType(types[i],
              _sym_build_extract(createValueExpression(members, layout),
                                 layout.offset[i], layout.size[i], LittleEndian)))

CallOverflow(op, is_signed, a, b) ==
  /\ Ready
  /\ struct' = WithOverflow(op, is_signed, a, b)
  /\ agg' = BuildOverflow(op, is_signed, a, b)
  /\ UNCHANGED out

visitInsertValueInst(i, x, constant) ==
  /\ Ready
  /\ struct' = [struct EXCEPT ![i] = x]
  /\ agg' = _sym_build_insert(agg, convertExprForTypeToBitVectorExpr(x, constant),
                              ElementOffset(i), LittleEndian)
  /\ UNCHANGED out

visitExtractValueInst(i) ==
  /\ Ready
  /\ out' = [op |-> "extractvalue", val |-> struct[i],
             expr |-> convertBitVectorExprForType(IF i = 1 THEN "i1" ELSE "iN",
                        _sym_build_extract(agg, ElementOffset(i), StoreSize(i),
                                           LittleEndian))]
  /\ UNCHANGED <<struct, agg>>

\* An undef structure, whose expression is all zeros.
Init ==
  /\ struct = [i \in 0 .. 1 |-> IF i = 0 THEN BV(Bits, 0) ELSE Bool(FALSE)]
  /\ agg = _sym_build_zero_bytes(StructBytes)
  /\ out = Nothing

Next ==
  \/ \E op \in Scalar, a \in Ints, b \in Ints : CallScalar(op, a, b)
  \/ \E f \in Overflow, a \in Ints, b \in Ints : CallOverflow(f[1], f[2], a, b)
  \/ \E m \in Inserted : \E x \in IF m[1] = 0 THEN Ints ELSE Booleans :
       visitInsertValueInst(m[1], x, m[2])
  \/ \E i \in 0 .. 1 : visitExtractValueInst(i)
  \/ Convert \/ GetElementPtr \/ Compare \/ ConcreteStruct
  \/ UseResult

Spec == Init /\ [][Next]_vars

-----------------------------------------------------------------------------
(***************************************************************************)
(* What the instrumentation handles exactly: on a little-endian target,    *)
(* integers whose bytes can be swapped; all intrinsics but ushl_sat and    *)
(* rotations, and for integers of WordBits bits those that need no integer *)
(* limit; signed arithmetic with overflow; structures of integers that are *)
(* concrete, and any insertion but that of a constant Boolean; narrow      *)
(* indices that are not negative; the comparisons but "ordered and not     *)
(* equal" and the unordered relations.                                     *)
(***************************************************************************)
SoundScalar == {"usub_sat", "abs", "ntohl", "ptrtoint"}
                 \cup (IF Bits < WordBits
                         THEN {"sadd_sat", "ssub_sat", "uadd_sat", "sshl_sat"} ELSE {})
SoundOverflow == {"add", "sub", "mul"} \X {TRUE}
SoundInserted == {<<0, TRUE>>, <<0, FALSE>>, <<1, FALSE>>}
SoundSeconds  == {"i8"}
NonNegative == 0 .. Pow2[ByteBits - 1] - 1
SoundPredicates == {TRUE} \X {"gt", "ge", "lt", "le", "eq"} \cup BOOLEAN \X {"any"}

SoundTarget  == LittleEndian /\ Bits % (2 * ByteBits) = 0
SoundProgram == /\ Scalar \subseteq SoundScalar /\ Overflow \subseteq SoundOverflow
                /\ Inserted \subseteq SoundInserted /\ Seconds \subseteq SoundSeconds
                /\ Narrow \subseteq NonNegative /\ Predicates \subseteq SoundPredicates

\* Sorts and widths: the expression of the structure is a bit vector of all of
\* its bytes, padding included, and that of a result is a Boolean or has the
\* width of the result; no builder fails an assertion or gets an operand of
\* the wrong sort.
TypeOK ==
  /\ struct \in Structs
  /\ agg.w = StructBytes * ByteBits /\ agg.v \in 0 .. Pow2[agg.w] - 1
  /\ out.val \in Ints \cup Values(ByteBits) \cup Booleans
  /\ out.expr.w = out.val.w

\* The expression of an intrinsic, a conversion, an address or a comparison
\* evaluates to what the instruction computes, for all operands.
ScalarsExact == out.op # "extractvalue" => out.expr = out.val

\* Whatever sequence of overflow arithmetic and insertions built a structure,
\* or if it was a concrete value, the expression extracted for a member
\* evaluates to that member.
MembersExact == out.op = "extractvalue" => out.expr = out.val
=============================================================================
