----------------------------- MODULE BitVectors -----------------------------
(***************************************************************************)
(* What the expressions of the run-time library evaluate to.  A bit vector *)
(* has a width w > 0 and a value v in 0 .. 2^w - 1; a symbolic Boolean is  *)
(* of a sort of its own, as in the simple backend, and has w = 0.          *)
(*                                                                         *)
(* The first part is the solver's theory of bit vectors (external); the    *)
(* second part are the builders of runtime/RuntimeCommon.cpp that assemble *)
(* expressions for LLVM's intrinsics and for aggregates.  A byte has       *)
(* ByteBits bits (8 in the code) and the integers the builders compute     *)
(* with have WordBits bits (uint64_t).                                     *)
(***************************************************************************)
EXTENDS Integers

CONSTANTS ByteBits, WordBits

ASSUME BitsAssumption == ByteBits \in Nat \ {0, 1} /\ WordBits \in Nat \ {0}

-----------------------------------------------------------------------------
(***************************************************************************)
(* The theory of bit vectors                                               *)
(***************************************************************************)
\* 2^n, as a recursive function: the provers have no theory of powers.
Pow2[n \in Nat] == IF n = 0 THEN 1 ELSE 2 * Pow2[n - 1]

BV(w, v) == [w |-> w, v |-> v % Pow2[w]]
Bool(p)  == [w |-> 0, v |-> IF p THEN 1 ELSE 0]

IsBitVector(x) == x.w > 0
IsBoolean(x)   == x.w = 0

\* The result of a failed assertion or of a call the solver rejects, such as
\* one with an operand of the wrong sort.
Malformed == [w |-> -1, v |-> 0]

SignedValue(x) == IF x.v >= Pow2[x.w - 1] THEN x.v - Pow2[x.w] ELSE x.v

Add(x, y) == BV(x.w, x.v + y.v)
Sub(x, y) == BV(x.w, x.v - y.v)
Mul(x, y) == BV(x.w, x.v * y.v)
Shl(x, y) == BV(x.w, x.v * Pow2[y.v])
LShr(x, y) == BV(x.w, x.v \div Pow2[y.v])
AShr(x, y) == BV(x.w, SignedValue(x) \div Pow2[y.v])
URem(x, y) == BV(x.w, x.v % y.v)
SExt(x, n) == BV(x.w + n, SignedValue(x))
ZExt(x, n) == IF IsBitVector(x) THEN BV(x.w + n, x.v) ELSE Malformed
Ite(c, x, y) == IF ~IsBoolean(c) THEN Malformed ELSE IF c.v = 1 THEN x ELSE y
Equal(x, y)  == IF x.w # y.w THEN Malformed ELSE Bool(x = y)

\* The bits hi down to lo.
Extract(x, hi, lo) ==
  IF hi < lo \/ lo < 0 \/ hi >= x.w
    THEN Malformed
    ELSE BV(hi - lo + 1, x.v \div Pow2[lo])

Concat(x, y) ==
  IF IsBitVector(x) /\ IsBitVector(y) THEN BV(x.w + y.w, x.v * Pow2[y.w] + y.v)
                                      ELSE Malformed

-----------------------------------------------------------------------------
(***************************************************************************)
(* Integer limits.  (uint64_t)(1) << bits is undefined when bits is the    *)
(* width of the type: the processor takes the count modulo that width, the *)
(* compiler may fold the shift to zero.                                    *)
(***************************************************************************)
OneShifted(bits, wraps) ==
  IF bits < WordBits THEN Pow2[bits]
  ELSE IF wraps THEN Pow2[bits % WordBits] ELSE 0

Mask(bits, wraps) == (OneShifted(bits, wraps) - 1) % Pow2[WordBits]

buildMinSignedInt(bits) == BV(bits, Pow2[bits - 1])
buildMaxSignedInt(bits, wraps) == BV(bits, Mask(bits, wraps) \div 2)
buildMaxUnsignedInt(bits, wraps) == BV(bits, Mask(bits, wraps))

-----------------------------------------------------------------------------
(***************************************************************************)
(* Aggregates: the expression of a structure lists its bytes in the order  *)
(* they have in memory, the first one in the most significant position.    *)
(***************************************************************************)
\* The byte at an offset of an aggregate.
ByteAt(x, offset) ==
  Extract(x, x.w - offset * ByteBits - 1, x.w - (offset + 1) * ByteBits)

_sym_build_extract(x, offset, length, little_endian) ==
  LET Reversed[i \in 1 .. length] ==
        IF i = 1 THEN ByteAt(x, offset)
                 ELSE Concat(ByteAt(x, offset + i - 1), Reversed[i - 1]) IN
  IF ~IsBitVector(x) \/ x.w % ByteBits # 0 THEN Malformed
  ELSE IF little_endian THEN Reversed[length]
  ELSE Extract(x, x.w - offset * ByteBits - 1,
                  x.w - (offset + length) * ByteBits)

_sym_build_bswap(x) ==
  IF ~IsBitVector(x) \/ x.w % (2 * ByteBits) # 0
    THEN Malformed
    ELSE _sym_build_extract(x, 0, x.w \div ByteBits, TRUE)

_sym_build_zero_bytes(length) == BV(length * ByteBits, 0)

\* Mutant: the inserted bytes keep the order they have in the register.
InsertUnswapped(target, x, offset, little_endian) ==
  LET length == x.w \div ByteBits
      after  == target.w \div ByteBits - offset - length
      front  == IF offset = 0
                  THEN x
                  ELSE Concat(_sym_build_extract(target, 0, offset, FALSE), x) IN
  IF after = 0
    THEN front
    ELSE Concat(front, _sym_build_extract(target, offset + length, after, FALSE))

_sym_build_insert(target, x, offset, little_endian) ==
  LET length == x.w \div ByteBits
      after  == target.w \div ByteBits - offset - length
      piece  == IF little_endian /\ x.w > ByteBits THEN _sym_build_bswap(x) ELSE x
      front  == IF offset = 0
                  THEN piece
                  ELSE Concat(_sym_build_extract(target, 0, offset, FALSE), piece) IN
  IF ~IsBitVector(x) \/ x.w % ByteBits # 0 THEN Malformed
  ELSE IF after = 0 THEN front
  ELSE Concat(front, _sym_build_extract(target, offset + length, after, FALSE))

_sym_build_bit_to_bool(x) == IF IsBitVector(x) THEN Bool(x.v # 0) ELSE Malformed
_sym_build_bool_to_bit(x) == Ite(x, BV(1, 1), BV(1, 0))

\* Mutant: the structure is one byte short.
OverflowResultPacked(x, overflow, little_endian) ==
  LET result == IF little_endian THEN _sym_build_bswap(x) ELSE x
      byte   == ZExt(_sym_build_bool_to_bit(overflow), ByteBits - 1) IN
  Concat(result, byte)

\* The {iN, i1} structure that arithmetic with overflow returns.
buildOverflowResult(x, overflow, little_endian) ==
  LET result == IF little_endian THEN _sym_build_bswap(x) ELSE x
      byte   == ZExt(_sym_build_bool_to_bit(overflow), ByteBits - 1)
      zeros  == _sym_build_zero_bytes(x.w \div ByteBits - 1) IN
  IF x.w % ByteBits # 0 THEN Malformed
  ELSE IF x.w = ByteBits THEN Concat(result, byte)
  ELSE Concat(result, IF little_endian THEN Concat(byte, zeros)
                                       ELSE Concat(zeros, byte))

-----------------------------------------------------------------------------
(***************************************************************************)
(* Saturating arithmetic, arithmetic with overflow, funnel shifts, abs     *)
(***************************************************************************)
\* The common shape of sadd_sat and ssub_sat: wide is the exact result.
SaturateSigned(wide, narrow, wraps) ==
  LET min == buildMinSignedInt(narrow.w)
      max == buildMaxSignedInt(narrow.w, wraps) IN
  Ite(Bool(SignedValue(wide) <= SignedValue(SExt(min, 1))), min,
      Ite(Bool(SignedValue(wide) >= SignedValue(SExt(max, 1))), max, narrow))

_sym_build_sadd_sat(a, b, wraps) ==
  SaturateSigned(Add(SExt(a, 1), SExt(b, 1)), Add(a, b), wraps)

_sym_build_ssub_sat(a, b, wraps) ==
  SaturateSigned(Sub(SExt(a, 1), SExt(b, 1)), Sub(a, b), wraps)

\* Mutant: the sign bit is taken for the carry.
UaddSatSignBit(a, b, wraps) ==
  LET wide == Add(ZExt(a, 1), ZExt(b, 1)) IN
  Ite(_sym_build_bit_to_bool(Extract(wide, a.w - 1, a.w - 1)),
      buildMaxUnsignedInt(a.w, wraps), Add(a, b))

_sym_build_uadd_sat(a, b, wraps) ==
  LET wide == Add(ZExt(a, 1), ZExt(b, 1)) IN
  Ite(_sym_build_bit_to_bool(Extract(wide, a.w, a.w)),
      buildMaxUnsignedInt(a.w, wraps), Add(a, b))

_sym_build_usub_sat(a, b) == Ite(Bool(a.v >= b.v), Sub(a, b), BV(a.w, 0))

_sym_build_shift_left_overflow(a, b) == Bool(AShr(Shl(a, b), b) # a)

_sym_build_sshl_sat(a, b, wraps) ==
  Ite(_sym_build_shift_left_overflow(a, b),
      Ite(_sym_build_bit_to_bool(Extract(a, a.w - 1, a.w - 1)),
          buildMinSignedInt(a.w), buildMaxSignedInt(a.w, wraps)),
      Shl(a, b))

_sym_build_ushl_sat(a, b, wraps) ==
  Ite(_sym_build_shift_left_overflow(a, b),
      buildMaxUnsignedInt(a.w, wraps), Shl(a, b))

\* The overflow flag: the exact result needs another bit.  The unsigned
\* builders compare that bit, a bit vector, with a Boolean.
AddOverflows(a, b, is_signed) ==
  IF is_signed
    THEN Bool(Add(SExt(a, 1), SExt(b, 1)) # SExt(Add(a, b), 1))
    ELSE Equal(Extract(Add(ZExt(a, 1), ZExt(b, 1)), a.w, a.w), Bool(TRUE))

SubOverflows(a, b, is_signed) ==
  IF is_signed
    THEN Bool(Sub(SExt(a, 1), SExt(b, 1)) # SExt(Sub(a, b), 1))
    ELSE Equal(Extract(Sub(ZExt(a, 1), ZExt(b, 1)), a.w, a.w), Bool(TRUE))

MulOverflows(a, b, is_signed) ==
  IF is_signed
    THEN Bool(Mul(SExt(a, a.w), SExt(b, a.w)) # SExt(Mul(a, b), a.w))
    ELSE Equal(Extract(Mul(ZExt(a, a.w), ZExt(b, a.w)), 2 * a.w - 1, 2 * a.w - 1), Bool(TRUE))

_sym_build_add_overflow(a, b, is_signed, little_endian) ==
  buildOverflowResult(Add(a, b), AddOverflows(a, b, is_signed), little_endian)

_sym_build_sub_overflow(a, b, is_signed, little_endian) ==
  buildOverflowResult(Sub(a, b), SubOverflows(a, b, is_signed), little_endian)

_sym_build_mul_overflow(a, b, is_signed, little_endian) ==
  buildOverflowResult(Mul(a, b), MulOverflows(a, b, is_signed), little_endian)

_sym_build_funnel_shift_left(a, b, c) ==
  Extract(Shl(Concat(a, b), URem(c, BV(c.w, c.w))), 0, c.w)

_sym_build_funnel_shift_right(a, b, c) ==
  Extract(LShr(Concat(a, b), URem(c, BV(c.w, c.w))), 0, c.w)

_sym_build_abs(x) == Ite(Bool(SignedValue(x) >= 0), x, Sub(BV(x.w, 0), x))
=============================================================================
