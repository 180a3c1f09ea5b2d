----------------------------- MODULE FixedPoint -----------------------------
(***************************************************************************)
(* The fixed-point nodes of zolotone/components (basics.py, UQ.py, Q.py)   *)
(* as far as the floating-point encoders and the converters use them.      *)
(*                                                                         *)
(* A node is a bit vector with the descriptor it is typed with: "int"      *)
(* integer bits, "frac" fraction bits and the unsigned "raw" payload.  A Q *)
(* node reads the same payload in two's complement.  A type is the pair    *)
(* <<int, frac>>.  Every operator masks its result to the type it is given *)
(* (_impl_constructor), so a value that does not fit is cut, as in the     *)
(* code.                                                                   *)
(***************************************************************************)
EXTENDS Integers

Larger(a, b)  == IF a > b THEN a ELSE b
Smaller(a, b) == IF a < b THEN a ELSE b

total_bits(x) == x.int + x.frac
dtype(x)      == <<x.int, x.frac>>
Bit           == <<1, 0>>

\* _impl_constructor: the payload is masked to the width of the output type.
Node(out, v) == [int |-> out[1], frac |-> out[2], raw |-> v % 2^(out[1] + out[2])]

\* The payload of a node fits its type.
IsNode(n) == n \in [int: Nat, frac: Nat, raw: Nat] /\ n.raw < 2^total_bits(n)

\* int.bit_length: the position of the leading bit, looked for in the range of
\* the usual numbers first.
BitLength(v) ==
  IF v = 0 THEN 0
  ELSE CHOOSE k \in 1 .. (IF v < 2^30 THEN 30 ELSE v) : v \div 2^(k - 1) = 1

\* Constants are as narrow as their value allows.
UQ_from_int(v) == Node(<<Larger(1, BitLength(v)), 0>>, v)
Q_from_int(v) ==
  Node(<<Larger(2, 1 + BitLength(IF v < 0 THEN -v - 1 ELSE v)), 0>>, v)

-----------------------------------------------------------------------------
(* basics.py.  A shift by the width or more clears every bit; the test of  *)
(* the width comes first because 2^n would not be a machine integer.       *)

\* A comparison yields one bit.
TruthBit(b, out) == Node(out, IF b THEN 1 ELSE 0)
basic_less(x, y, out)          == TruthBit(x.raw < y.raw, out)
basic_less_or_equal(x, y, out) == TruthBit(x.raw <= y.raw, out)
basic_equal(x, y, out)         == TruthBit(x.raw = y.raw, out)

basic_mux_2_1(sel, in0, in1, out) ==
  Node(out, IF sel.raw = 1 THEN in1.raw ELSE in0.raw)
basic_add(x, y, out)    == Node(out, x.raw + y.raw)
basic_sub(x, y, out)    == Node(out, x.raw - y.raw)
basic_mul(x, y, out)    == Node(out, x.raw * y.raw)
basic_max(x, y, out)    == Node(out, Larger(x.raw, y.raw))
basic_min(x, y, out)    == Node(out, Smaller(x.raw, y.raw))
basic_identity(x, out)  == Node(out, x.raw)
basic_invert(x, out)    == Node(out, (2^total_bits(x) - 1) - x.raw)
basic_or_reduce(x, out) == Node(out, IF x.raw > 0 THEN 1 ELSE 0)
basic_and_reduce(x, out) ==
  Node(out, IF x.raw = 2^total_bits(x) - 1 THEN 1 ELSE 0)
basic_select(x, start, end, out) ==
  Node(out, (x.raw \div 2^end) % 2^(start - end + 1))
basic_lshift(x, amount, out) ==
  LET width == out[1] + out[2] IN
  Node(out, IF amount.raw >= width THEN 0
            ELSE (x.raw % 2^(width - amount.raw)) * 2^amount.raw)
basic_rshift(x, amount, out) ==
  Node(out, IF amount.raw >= total_bits(x) THEN 0 ELSE x.raw \div 2^amount.raw)

\* basic_and, basic_or and basic_xor, used on single bits.
bit_and(x, y) == Node(Bit, x.raw * y.raw)
bit_or(x, y)  == Node(Bit, Larger(x.raw, y.raw))
bit_xor(x, y) == Node(Bit, x.raw + y.raw)
bit_neg(x)    == basic_invert(x, Bit)

-----------------------------------------------------------------------------
(* UQ.py *)

\* uq_aligner with int_aggr=None and frac_aggr=max: the fractions are made
\* equally long, the integer parts keep their width.
uq_align(x, frac) ==
  IF frac > x.frac
  THEN basic_lshift(x, UQ_from_int(frac - x.frac), <<x.int, frac>>)
  ELSE x

uq_fraction(x, y) == Larger(x.frac, y.frac)

uq_add(x, y) ==
  LET frac == uq_fraction(x, y) IN
  basic_add(uq_align(x, frac), uq_align(y, frac), <<Larger(x.int, y.int) + 1, frac>>)

uq_sub(x, y) ==
  LET frac == uq_fraction(x, y) IN
  basic_sub(uq_align(x, frac), uq_align(y, frac), <<Larger(x.int, y.int) + 1, frac>>)

uq_mul(x, y) == basic_mul(x, y, <<x.int + y.int, x.frac + y.frac>>)

uq_max(x, y) ==
  LET frac == uq_fraction(x, y) IN
  basic_max(uq_align(x, frac), uq_align(y, frac), <<Larger(x.int, y.int), frac>>)

uq_min(x, y) ==
  LET frac == uq_fraction(x, y) IN
  basic_min(uq_align(x, frac), uq_align(y, frac), <<Larger(x.int, y.int), frac>>)

uq_lt(x, y) == basic_less(uq_align(x, uq_fraction(x, y)), uq_align(y, uq_fraction(x, y)), Bit)
uq_le(x, y) ==
  basic_less_or_equal(uq_align(x, uq_fraction(x, y)), uq_align(y, uq_fraction(x, y)), Bit)
uq_gt(x, y) == uq_lt(y, x)
uq_ge(x, y) == uq_le(y, x)
uq_eq(x, y) == basic_equal(uq_align(x, uq_fraction(x, y)), uq_align(y, uq_fraction(x, y)), Bit)

uq_is_zero(x) == basic_invert(basic_or_reduce(x, Bit), Bit)
uq_to_q(x)    == basic_identity(x, <<x.int + 1, x.frac>>)

uq_fraction_to_integer(x) == basic_identity(x, <<x.frac, 0>>)
uq_integer_to_fraction(x) == basic_identity(x, <<0, x.int>>)

uq_resize(x, int, frac) ==
  IF frac > x.frac THEN basic_lshift(x, UQ_from_int(frac - x.frac), <<int, frac>>)
  ELSE IF frac < x.frac
       THEN basic_rshift(x, UQ_from_int(x.frac - frac), <<int, frac>>)
       ELSE basic_identity(x, <<int, frac>>)

uq_zero_extend(x, n)  == basic_identity(x, <<x.int + n, x.frac>>)
uq_truncate_msb(x)    == basic_identity(x, <<x.int - 1, x.frac>>)

uq_select(x, start, end) ==
  LET frac == IF x.frac > 0
              THEN Larger(0, Smaller(start, x.frac - 1) - end + 1) ELSE 0
  IN basic_select(x, start, end, <<(start - end + 1) - frac, frac>>)

uq_lshift(x, amount) == basic_lshift(x, amount, dtype(x))
uq_rshift(x, amount) == basic_rshift(x, amount, dtype(x))

\* The bits shifted out are jammed into the low bit.  The mask (1 << amount) - 1
\* is all ones once the shift reaches the width, so nothing shifted out is lost.
uq_rshift_jam(x, amount) ==
  LET lost == IF amount.raw >= total_bits(x) THEN x.raw ELSE x.raw % 2^amount.raw
      kept == uq_rshift(x, amount)
  IN IF lost > 0 /\ kept.raw % 2 = 0
     THEN [kept EXCEPT !.raw = @ + 1] ELSE kept

-----------------------------------------------------------------------------
(* Q.py *)

q_sign_bit(x) == LET top == total_bits(x) - 1 IN basic_select(x, top, top, Bit)

q_sign_extend(x, n) ==
  Node(<<x.int + n, x.frac>>,
       x.raw + q_sign_bit(x).raw * (2^n - 1) * 2^total_bits(x))

\* q_aligner with int_aggr = max + 1 and frac_aggr = max, one operand at a time.
q_align(x, int, frac) ==
  LET shifted == IF frac > x.frac
                 THEN basic_lshift(x, UQ_from_int(frac - x.frac), <<x.int, frac>>)
                 ELSE x
  IN q_sign_extend(shifted, int - x.int)

q_add(x, y) ==
  LET int  == Larger(x.int, y.int) + 1
      frac == Larger(x.frac, y.frac)
  IN basic_add(q_align(x, int, frac), q_align(y, int, frac), <<int, frac>>)

q_sub(x, y) ==
  LET int  == Larger(x.int, y.int) + 1
      frac == Larger(x.frac, y.frac)
  IN basic_sub(q_align(x, int, frac), q_align(y, int, frac), <<int, frac>>)

q_mul(x, y) ==
  basic_mul(q_sign_extend(x, total_bits(y)), q_sign_extend(y, total_bits(x)),
            <<x.int + y.int, x.frac + y.frac>>)

\* The least number has no negative: its negation is all ones.
q_neg(x) ==
  IF x.raw = 2^(total_bits(x) - 1)
  THEN Node(dtype(x), 2^total_bits(x) - 1)
  ELSE basic_add(basic_invert(x, dtype(x)), UQ_from_int(1), dtype(x))

\* A comparison is decided by the sign bits when they differ, and by the aligned
\* payloads when they agree.
q_widest(x, y, z) == q_align(z, Larger(x.int, y.int), Larger(x.frac, y.frac))
q_compare(x, y, same, negative_first) ==
  IF q_sign_bit(x) = q_sign_bit(y) THEN same
  ELSE IF q_sign_bit(x).raw = 1 THEN negative_first ELSE basic_invert(negative_first, Bit)

q_lt(x, y) == q_compare(x, y, basic_less(q_widest(x, y, x), q_widest(x, y, y), Bit),
                        Node(Bit, 1))
q_le(x, y) == q_compare(x, y, basic_less_or_equal(q_widest(x, y, x), q_widest(x, y, y), Bit),
                        Node(Bit, 1))
q_gt(x, y) == q_lt(y, x)
q_ge(x, y) == q_le(y, x)
q_eq(x, y) == basic_equal(q_widest(x, y, x), q_widest(x, y, y), Bit)
q_ne(x, y) == basic_invert(q_eq(x, y), Bit)

q_resize(x, int, frac) ==
  LET wide == q_sign_extend(x, int - x.int) IN
  IF frac = x.frac THEN wide
  ELSE basic_lshift(wide, UQ_from_int(frac - x.frac), <<int, frac>>)

q_truncate_msb(x) == basic_identity(x, <<x.int - 1, x.frac>>)

q_add_sign(x, s) == basic_mux_2_1(s, x, q_neg(x), dtype(x))
q_abs(x)         == q_add_sign(x, q_sign_bit(x))
q_is_zero(x)     == basic_invert(basic_or_reduce(x, Bit), Bit)
q_to_uq(x)       == basic_identity(x, <<x.int - 1, x.frac>>)

\* Q._scaled_integer: the payload read in two's complement.
scaled_integer(x) ==
  IF x.raw >= 2^(total_bits(x) - 1) THEN x.raw - 2^total_bits(x) ELSE x.raw
=============================================================================
