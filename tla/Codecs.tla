-------------------------------- MODULE Codecs --------------------------------
(***************************************************************************)
(* The Primitives that decode and encode floating-point codes: those every *)
(* encoder is composed of (zolotone/components/rounding_routines.py and    *)
(* common.py), and the decode and encodings Primitives of each format.     *)
(* Each operator returns what its Primitive returns; a pair stands for the *)
(* Tuple of two nodes.                                                     *)
(***************************************************************************)
EXTENDS Formats

-----------------------------------------------------------------------------
(* Normalization and rounding.                                             *)

\* One counter bit is added per position from the top until the first 1.
lzc(x) == Node(<<BitLength(total_bits(x)), 0>>, total_bits(x) - BitLength(x.raw))

\* The significand becomes 1.xxx and the exponent follows.  The sign of the
\* shift selects between the two directions of both multiplexers.
normalize_to_1_xxx(m, e) ==
  LET frac      == Larger(m.int - 1, 0) + m.frac
      shift     == q_add(q_sub(uq_to_q(lzc(m)), uq_to_q(UQ_from_int(m.int))),
                         Q_from_int(1))
      sign      == q_sign_bit(shift)
      magnitude == q_abs(shift)
      amount    == q_to_uq(magnitude)
      resized   == uq_resize(m, Larger(1, m.int), frac)
      right_e   == q_add(e, magnitude)
  IN << basic_mux_2_1(sign, uq_lshift(resized, amount),
                      uq_rshift_jam(resized, amount), <<1, frac>>),
        basic_mux_2_1(sign, q_sub(e, magnitude), right_e, dtype(right_e)) >>

\* A biased exponent of zero or less is subnormal: the significand moves right
\* by 1 - e places, jammed, and the stored exponent becomes 0.
shift_if_subnormal(m, e, extra_bits) ==
  LET is_subnormal == bit_or(q_is_zero(e), q_sign_bit(e))
      magnitude    == q_to_uq(q_abs(e))
      shifted_e    == basic_mux_2_1(is_subnormal, magnitude, Node(Bit, 0),
                                    dtype(magnitude))
      shift        == uq_add(Node(Bit, 1), magnitude)
      amount       == basic_mux_2_1(is_subnormal, Node(Bit, 0), shift, dtype(shift))
      widened      == basic_lshift(m, UQ_from_int(extra_bits),
                                   <<m.int, m.frac + extra_bits>>)
  IN <<uq_rshift_jam(widened, amount), shifted_e>>

drop_implicit_bit(x) == uq_select(x, x.frac - 1, 0)

\* Guard, round and sticky bits decide the increment.
uq_RNE_IEEE(m, bits_to_cut) ==
  LET target_bits == total_bits(m) - bits_to_cut
      target_int  == Smaller(m.int, target_bits)
      target_frac == Larger(target_bits - target_int, 0)
      no          == Node(Bit, 0)
      at(k)       == uq_select(m, k, k)
      guard       == IF bits_to_cut >= 1 THEN at(bits_to_cut - 1) ELSE no
      round_bit   == IF bits_to_cut >= 2 THEN at(bits_to_cut - 2) ELSE no
      sticky      == IF bits_to_cut > 2
                     THEN basic_or_reduce(uq_select(m, bits_to_cut - 3, 0), Bit)
                     ELSE no
      tail        == bit_or(bit_or(round_bit, sticky), at(bits_to_cut))
      increment   == bit_and(guard, tail)
      truncated   == uq_resize(m, target_int, target_frac)
      overflow    == bit_and(basic_and_reduce(truncated, Bit), increment)
  IN <<basic_add(truncated, increment, <<target_int, target_frac>>), overflow>>

\* The carry of the rounding goes into the exponent; a subnormal that becomes
\* normal has a zero mantissa.
round_mantissa(m, e, target_bits) ==
  LET rne           == uq_RNE_IEEE(m, Larger(total_bits(m) - target_bits, 0))
      incremented_e == uq_add(e, rne[2])
      became_normal == bit_and(uq_is_zero(e), basic_or_reduce(incremented_e, Bit))
  IN << basic_mux_2_1(became_normal, rne[1], Node(dtype(rne[1]), 0), dtype(rne[1])),
        incremented_e >>

(* common.py: what the converters feed the encoders with. *)

add_implicit_bit(x) == Node(<<1, x.frac>>, 2^x.frac + x.raw)

effective_significand(X) ==
  LET fraction == uq_integer_to_fraction(X.mantissa) IN
  IF X.is_norm THEN add_implicit_bit(fraction)
               ELSE uq_resize(fraction, 1, X.mantissa.int)

\* Bug: the stored exponent of a subnormal is taken for its exponent.
StoredExponent(X) == X.exponent

effective_exponent(X) ==
  IF X.is_sub THEN Node(dtype(X.exponent), 1) ELSE X.exponent

-----------------------------------------------------------------------------
(* Decoding yields the fields and the class bits of a format.              *)

or_reduce(x)  == basic_or_reduce(x, Bit).raw = 1
and_reduce(x) == basic_and_reduce(x, Bit).raw = 1

\* The three extractors of a decode Primitive: sign, exponent and mantissa.
Fields(f, c) ==
  [ sign     |-> c.sign,
    exponent |-> Node(<<f.exponent_bits, 0>>, c.exponent),
    mantissa |-> Node(<<f.mantissa_bits, 0>>, c.mantissa) ]

\* The decoded tuple: the fields and the class bits of a format.
Decoded(fields, norm, sub, zero, inf, nan) ==
  [ sign |-> fields.sign, exponent |-> fields.exponent, mantissa |-> fields.mantissa,
    is_norm |-> norm, is_sub |-> sub, is_zero |-> zero, is_inf |-> inf, is_nan |-> nan ]

with_infinities_decode(f, c) ==
  LET x    == Fields(f, c)
      ones == and_reduce(x.exponent)
      some == or_reduce(x.exponent)
      m    == or_reduce(x.mantissa)
  IN Decoded(x, some /\ ~ ones, ~ some /\ m, ~ some /\ ~ m, ones /\ ~ m, ones /\ m)

fp16_decode(c) == with_infinities_decode(Float16, c)
bf16_decode(c) == with_infinities_decode(BFloat16, c)
fp32_decode(c) == with_infinities_decode(Float32, c)
e5m2_decode(c) == with_infinities_decode(E5M2, c)

e4m3_decode(f, c) ==
  LET x    == Fields(f, c)
      some == or_reduce(x.exponent)
      m    == or_reduce(x.mantissa)
      nan  == and_reduce(x.exponent) /\ and_reduce(x.mantissa)
  IN Decoded(x, some /\ ~ nan, ~ some /\ m, ~ some /\ ~ m, FALSE, nan)

e4m3fn_decode(c) == e4m3_decode(E4M3FN, c)
ue4m3_decode(c)  == e4m3_decode(UE4M3, c)

\* Bug: the sign is left out of the class bits of the zero fields.
SignIgnored(c) ==
  LET x    == Fields(E5M2FNUZ, c)
      some == or_reduce(x.exponent)
      m    == or_reduce(x.mantissa)
  IN Decoded(x, some, ~ some /\ m, ~ some /\ ~ m, FALSE, ~ some /\ ~ m)

e5m2fnuz_decode(c) ==
  LET x    == Fields(E5M2FNUZ, c)
      some == or_reduce(x.exponent)
      m    == or_reduce(x.mantissa)
      none == ~ some /\ ~ m
  IN Decoded(x, some, ~ some /\ m, c.sign = 0 /\ none, FALSE, c.sign = 1 /\ none)

e2m1_decode(c) ==
  LET x    == Fields(E2M1, c)
      some == or_reduce(x.exponent)
      m    == or_reduce(x.mantissa)
  IN Decoded(x, some, ~ some /\ m, ~ some /\ ~ m, FALSE, FALSE)

-----------------------------------------------------------------------------
(* encodings turns the rounded exponent and mantissa into the final        *)
(* fields, a pair of the mantissa and the exponent.                        *)

\* The exponent cut to the given code and to the width of the field.
clamped_exponent(f, e, top) ==
  basic_identity(uq_min(e, UQ_from_int(top)), <<f.exponent_bits, 0>>)

\* An exponent of all ones is an infinity: the mantissa is cleared.
inf_encodings(f, m, e) ==
  LET final_e == clamped_exponent(f, e, 2^f.exponent_bits - 1)
      final_m == basic_mux_2_1(basic_and_reduce(final_e, Bit), m, Node(Bit, 0), dtype(m))
  IN <<uq_fraction_to_integer(final_m), final_e>>

fp16_encodings(m, e) == inf_encodings(Float16, m, e)
bf16_encodings(m, e) == inf_encodings(BFloat16, m, e)
fp32_encodings(m, e) == inf_encodings(Float32, m, e)
e5m2_encodings(m, e) == inf_encodings(E5M2, m, e)

\* Beyond the greatest exponent the mantissa is the greatest one.
saturated(f, m, overflow) ==
  LET final_m == uq_fraction_to_integer(m) IN
  basic_mux_2_1(overflow, final_m, UQ_from_int(f.max_finite_mantissa), dtype(final_m))

saturate_encodings(f, m, e) ==
  << saturated(f, m, uq_gt(e, UQ_from_int(f.max_finite_code))),
     clamped_exponent(f, e, f.max_finite_code) >>

e5m2fnuz_encodings(m, e) == saturate_encodings(E5M2FNUZ, m, e)
e2m1_encodings(m, e)     == saturate_encodings(E2M1, m, e)

\* The code of the NaN saturates as well.
e4m3_encodings(f, m, e) ==
  LET top      == UQ_from_int(f.max_finite_code)
      final_e  == clamped_exponent(f, e, f.max_finite_code)
      reserved == bit_and(uq_eq(final_e, top), basic_and_reduce(m, Bit))
  IN <<saturated(f, m, bit_or(uq_gt(e, top), reserved)), final_e>>

\* Bug: only the exponent is looked at, so the code of the NaN can come out.
ReservedCodeKept(m, e) == saturate_encodings(E4M3FN, m, e)
e4m3fn_encodings(m, e) == e4m3_encodings(E4M3FN, m, e)
ue4m3_encodings(m, e)  == e4m3_encodings(UE4M3, m, e)

-----------------------------------------------------------------------------
(* What an encoder returns once its fields are final: an exact zero is the *)
(* positive one, everything else is packed.                                *)

packed_unless(zero, sign, final) ==
  IF zero THEN Zero ELSE Code(sign, final[2].raw, final[1].raw)

fp16_encoded(s, m, e, exact_zero)   == packed_unless(exact_zero, s, fp16_encodings(m, e))
bf16_encoded(s, m, e, exact_zero)   == packed_unless(exact_zero, s, bf16_encodings(m, e))
fp32_encoded(s, m, e, exact_zero)   == packed_unless(exact_zero, s, fp32_encodings(m, e))
e5m2_encoded(s, m, e, exact_zero)   == packed_unless(exact_zero, s, e5m2_encodings(m, e))
e4m3fn_encoded(s, m, e, exact_zero) == packed_unless(exact_zero, s, e4m3fn_encodings(m, e))
e2m1_encoded(s, m, e, exact_zero)   == packed_unless(exact_zero, s, e2m1_encodings(m, e))

\* The format without a sign is not given one.
ue4m3_encoded(m, e, exact_zero) == packed_unless(exact_zero, 0, ue4m3_encodings(m, e))

\* What rounded to zero would be the NaN if it kept its sign.
e5m2fnuz_encoded(s, m, e, exact_zero) ==
  LET final        == e5m2fnuz_encodings(m, e)
      rounded_zero == uq_is_zero(final[2]).raw = 1 /\ uq_is_zero(final[1]).raw = 1
  IN packed_unless(exact_zero \/ rounded_zero, s, final)
===============================================================================
