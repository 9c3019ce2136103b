---------------------------- MODULE Instructions ----------------------------
(***************************************************************************)
(* The expressions that compiler/Symbolizer.cpp builds for conversions,    *)
(* address computations, comparisons of floating-point numbers and         *)
(* structures in registers, each beside LLVM's semantics (external).       *)
(* Pointers have the width of the integers.                                *)
(***************************************************************************)
EXTENDS BitVectors, Sequences

CONSTANTS
  Bits,          \* the width of the integers and of pointers (ptrBits)
  LittleEndian   \* dataLayout.isLittleEndian()

ASSUME WidthAssumption  == Bits \in Nat \ {0} /\ Bits % ByteBits = 0
ASSUME TargetAssumption == LittleEndian \in BOOLEAN

Values(w) == {BV(w, v) : v \in 0 .. Pow2[w] - 1}
Ints      == Values(Bits)
Booleans  == {Bool(TRUE), Bool(FALSE)}

-----------------------------------------------------------------------------
(***************************************************************************)
(* Conversions                                                             *)
(***************************************************************************)
\* A truncation to one bit yields a Boolean.
visitTruncInst(x, bits) ==
  LET narrow == Extract(x, bits - 1, 0) IN
  IF bits = 1 THEN _sym_build_bit_to_bool(narrow) ELSE narrow

\* sext and zext; Booleans become bit vectors first.
visitCastInst(opcode, x, bits) ==
  LET bit == IF IsBoolean(x) THEN _sym_build_bool_to_bit(x) ELSE x IN
  IF opcode = "sext" THEN SExt(bit, bits - bit.w) ELSE ZExt(bit, bits - bit.w)

\* inttoptr and ptrtoint keep the expression; other widths than that of a
\* pointer are not handled.
visitPtrToIntInst(x) == x

\* LLVM: the type of Booleans is i1.
Truncated(x, bits) == IF bits = 1 THEN Bool(x.v % 2 = 1) ELSE BV(bits, x.v)

Extended(opcode, x, bits) ==
  LET signed == IF IsBoolean(x) THEN -x.v ELSE SignedValue(x) IN
  BV(bits, IF opcode = "sext" THEN signed ELSE x.v)

\* The wrapper of ntohl, and what the function does on this machine.
ntohl(x) == IF LittleEndian THEN _sym_build_bswap(x) ELSE x

FromNetwork(x) ==
  LET n == x.w \div ByteBits
      byte(k) == (x.v \div Pow2[k * ByteBits]) % Pow2[ByteBits]
      Value[k \in 0 .. n] == IF k = 0 THEN 0
                             ELSE Value[k - 1] + byte(k - 1) * Pow2[(n - k) * ByteBits] IN
  IF LittleEndian THEN BV(x.w, Value[n]) ELSE x

-----------------------------------------------------------------------------
(***************************************************************************)
(* getelementptr.  A step of the path selects a member of a structure, at  *)
(* an offset, or an element of an array, of a size and with an index that  *)
(* may be a constant.                                                      *)
(***************************************************************************)
MemberStep(offset) == [struct |-> TRUE, offset |-> offset, index |-> BV(1, 0), constant |-> TRUE]
ElementStep(size, index, constant) ==
  [struct |-> FALSE, offset |-> size, index |-> index, constant |-> constant]

\* LLVM: indices are signed.
ElementAddress(pointer, path) ==
  LET Contribution(s) == IF s.struct THEN s.offset ELSE SignedValue(s.index) * s.offset
      Address[k \in 0 .. Len(path)] ==
        IF k = 0 THEN pointer.v ELSE Address[k - 1] + Contribution(path[k]) IN
  BV(Bits, Address[Len(path)])

IsZero(s) == s.constant /\ (IF s.struct THEN s.offset = 0 ELSE s.index.v = 0)

\* Nothing is computed if all indices are zero, and for constant zeros among
\* the indices of arrays; narrow indices are zero-extended.
visitGetElementPtrInst(pointer, path) ==
  LET Index(s) == IF s.index.w # Bits THEN ZExt(s.index, Bits - s.index.w) ELSE s.index
      Contribution(s) == IF s.struct THEN BV(Bits, s.offset)
                                     ELSE Mul(Index(s), BV(Bits, s.offset))
      Address[k \in 0 .. Len(path)] ==
        IF k = 0 THEN pointer
        ELSE IF ~path[k].struct /\ IsZero(path[k]) THEN Address[k - 1]
        ELSE Add(Contribution(path[k]), Address[k - 1]) IN
  IF \A k \in DOMAIN path : IsZero(path[k]) THEN pointer ELSE Address[Len(path)]

-----------------------------------------------------------------------------
(***************************************************************************)
(* Floating-point comparisons, with the builders of the simple backend.    *)
(* All that matters of a number is its order and whether it is one.        *)
(***************************************************************************)
Floats == [nan : {FALSE}, v : 0 .. 2] \cup [nan : {TRUE}, v : {0}]

_sym_build_float_unordered(a, b) == a.nan \/ b.nan

\* What the predicates that end in a relation have in common; Z3's ordered
\* comparisons are false for what is not a number.
Related(rel, a, b) ==
  CASE rel = "gt" -> a.v > b.v [] rel = "ge" -> a.v >= b.v
    [] rel = "lt" -> a.v < b.v [] rel = "le" -> a.v <= b.v
    [] rel = "eq" -> a.v = b.v [] rel = "ne" -> a.v # b.v

OrderedAnd(rel, a, b) == ~_sym_build_float_unordered(a, b) /\ Related(rel, a, b)

\* "not equal" is built as the negation of "equal".
_sym_build_float_ordered(rel, a, b) ==
  IF rel = "ne" THEN ~OrderedAnd("eq", a, b) ELSE OrderedAnd(rel, a, b)

\* The disjunction is given three operands and told that there are two.
_sym_build_float_unordered_or(rel, a, b) ==
  LET checks == <<a.nan, b.nan, _sym_build_float_ordered(rel, a, b)>> IN
  \E k \in 1 .. 2 : checks[k]

\* A predicate: <<is it ordered?, the relation or "any">>.
visitCmpInst(pred, a, b) ==
  IF pred[2] = "any" THEN Bool(_sym_build_float_unordered(a, b) # pred[1])
  ELSE IF pred[1] THEN Bool(_sym_build_float_ordered(pred[2], a, b))
  ELSE Bool(_sym_build_float_unordered_or(pred[2], a, b))

FloatCompare(pred, a, b) ==
  LET unordered == a.nan \/ b.nan IN
  CASE pred[2] = "any" -> Bool(unordered # pred[1])
    [] OTHER -> Bool(IF unordered THEN ~pred[1] ELSE Related(pred[2], a, b))

-----------------------------------------------------------------------------
(***************************************************************************)
(* Structures in registers: the value as one bit vector.  A layout is a    *)
(* sequence of members, each with its offset and its size in bytes, and    *)
(* the size of the whole.                                                  *)
(***************************************************************************)
\* Padding, and the members in the order their bytes have in memory; a member
\* of type i1 is a Boolean.
createValueExpression(members, layout) ==
  LET n == Len(members)
      Element(i) == IF LittleEndian /\ layout.size[i] > 1
                      THEN _sym_build_bswap(members[i]) ELSE members[i]
      Padded(end, next, x) ==
        IF next > end THEN Concat(x, _sym_build_zero_bytes(next - end)) ELSE x
      End(i) == layout.offset[i] + layout.size[i]
      Upto[i \in 1 .. n] ==
        IF i = 1 THEN Element(1)
                 ELSE Concat(Padded(End(i - 1), layout.offset[i], Upto[i - 1]), Element(i)) IN
  Padded(End(n), layout.bytes, Upto[n])
=============================================================================
