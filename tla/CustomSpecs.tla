----------------------------- MODULE CustomSpecs -----------------------------
(***************************************************************************)
(* zolotone/spec/custom_specs: what the verifier assumes of a floating-    *)
(* point value.  `fresh' gives the assumptions on an input, `encode' those *)
(* on the fields that stand for a real number; both are evaluated here on  *)
(* the fields of a code, with the class bits k of the value.               *)
(***************************************************************************)
EXTENDS Formats

Classes(k) == {n \in {"is_norm", "is_sub", "is_zero", "is_inf", "is_nan"} : k[n]}

\* _assume_exclusive_classification
exclusive_classification(k) == \E n \in Classes(k) : Classes(k) = {n}

\* The ranges of the fields.
in_range(f, c) ==
  /\ c.exponent \in 0 .. (2^f.exponent_bits - 1)
  /\ c.mantissa \in 0 .. (2^f.mantissa_bits - 1)

with_infinities_fresh(f, c, k) ==
  LET top == 2^f.exponent_bits - 1 IN
  /\ c.sign \in {0, 1} /\ in_range(f, c) /\ exclusive_classification(k)
  /\ k.is_norm => c.exponent \in 1 .. (top - 1)
  /\ k.is_sub \/ k.is_zero => c.exponent = 0
  /\ k.is_zero \/ k.is_inf => c.mantissa = 0
  /\ k.is_inf \/ k.is_nan => c.exponent = top
  /\ k.is_sub \/ k.is_nan => c.mantissa >= 1

fp16_fresh(c, k) == with_infinities_fresh(Float16, c, k)
bf16_fresh(c, k) == with_infinities_fresh(BFloat16, c, k)
fp32_fresh(c, k) == with_infinities_fresh(Float32, c, k)
e5m2_fresh(c, k) == with_infinities_fresh(E5M2, c, k)

\* Subnormal and zero codes look alike in the other formats.
small_fresh(c, k) ==
  /\ k.is_sub => c.exponent = 0 /\ c.mantissa >= 1
  /\ k.is_zero => c.exponent = 0 /\ c.mantissa = 0

e4m3_fresh(f, c, k) ==
  /\ in_range(f, c) /\ exclusive_classification(k) /\ small_fresh(c, k)
  /\ k.is_norm => /\ c.exponent >= 1
                  /\ c.exponent < f.max_finite_code \/ c.mantissa <= f.max_finite_mantissa
  /\ k.is_nan => c.exponent = 15 /\ c.mantissa = 7

e4m3fn_fresh(c, k) == c.sign \in {0, 1} /\ e4m3_fresh(E4M3FN, c, k)
ue4m3_fresh(c, k)  == e4m3_fresh(UE4M3, c, k)

e5m2fnuz_fresh(c, k) ==
  /\ c.sign \in {0, 1} /\ in_range(E5M2FNUZ, c)
  /\ exclusive_classification(k) /\ small_fresh(c, k)
  /\ k.is_norm => c.exponent >= 1
  /\ k.is_zero => c.sign = 0
  /\ k.is_nan => c = Code(1, 0, 0)

e2m1_fresh(c, k) ==
  /\ c.sign \in {0, 1} /\ in_range(E2M1, c)
  /\ exclusive_classification(k) /\ small_fresh(c, k)
  /\ k.is_norm => c.exponent >= 1

-----------------------------------------------------------------------------
(* encode: the classes of a real number are intervals of its magnitude v.  *)

zero_boundary(f)   == Mag(1, -f.exponent_bias - f.mantissa_bits)
smallest_normal(f) == Mag(1, 1 - f.exponent_bias)
greatest(f)        == Magnitude(f, Largest(f, 0))

EncodedClass(f, v) ==
  LET zero == ~ Less(zero_boundary(f), v)
      sub  == Less(zero_boundary(f), v) /\ Less(v, smallest_normal(f))
      over == Less(greatest(f), v)
  IN [is_zero |-> zero, is_sub |-> sub, over |-> over, is_norm |-> ~ zero /\ ~ sub]

\* normal_magnitude and subnormal_magnitude
normal_magnitude(f, c) ==
  Mag(2^f.mantissa_bits + c.mantissa, c.exponent - f.exponent_bias - f.mantissa_bits)
subnormal_magnitude(f, c) == Mag(c.mantissa, 1 - f.exponent_bias - f.mantissa_bits)

\* sign = If(value < zero, one, zero)
encoded_sign(s, v) == IF v.m > 0 THEN s ELSE 0

with_infinities_encode(f, c, s, v) ==
  LET k   == EncodedClass(f, v)
      top == 2^f.exponent_bits - 1
  IN /\ c.sign = encoded_sign(s, v) /\ in_range(f, c)
     /\ k.is_norm /\ ~ k.over => /\ c.exponent \in 1 .. (top - 1)
                                 /\ Same(v, normal_magnitude(f, c))
     /\ k.is_sub => /\ c.exponent = 0 /\ c.mantissa >= 1
                    /\ Same(v, subnormal_magnitude(f, c))
     /\ k.is_zero => c.exponent = 0 /\ c.mantissa = 0
     /\ k.over => c.exponent = top /\ c.mantissa = 0

fp16_encode(c, s, v) == with_infinities_encode(Float16, c, s, v)
bf16_encode(c, s, v) == with_infinities_encode(BFloat16, c, s, v)
fp32_encode(c, s, v) == with_infinities_encode(Float32, c, s, v)
e5m2_encode(c, s, v) == with_infinities_encode(E5M2, c, s, v)

\* The finite formats do not ask the exponent of a subnormal to be zero.
saturating_encode(f, c, v) ==
  LET k == EncodedClass(f, v) IN
  /\ in_range(f, c)
  /\ k.is_zero => c.exponent = 0 /\ c.mantissa = 0
  /\ k.is_sub => c.mantissa >= 1 /\ Same(v, subnormal_magnitude(f, c))
  /\ k.is_norm /\ k.over => /\ c.exponent = f.max_finite_code
                            /\ c.mantissa = f.max_finite_mantissa
  /\ k.is_norm /\ ~ k.over => Same(v, normal_magnitude(f, c))

e4m3fn_encode(c, s, v) ==
  c.sign = encoded_sign(s, v) /\ saturating_encode(E4M3FN, c, v)
e2m1_encode(c, s, v) ==
  c.sign = encoded_sign(s, v) /\ saturating_encode(E2M1, c, v)
ue4m3_encode(c, s, v) == saturating_encode(UE4M3, c, v)

\* What rounds to zero is unsigned.
e5m2fnuz_encode(c, s, v) ==
  /\ c.sign = IF EncodedClass(E5M2FNUZ, v).is_zero THEN 0 ELSE encoded_sign(s, v)
  /\ saturating_encode(E5M2FNUZ, c, v)

\* xxx_encode_spec: encode on the number m * 2^(e - bias) an encoder is given.
given_value(f, e, m) == Mag(m.raw, scaled_integer(e) - f.exponent_bias - m.frac)

fp16_encode_spec(c, s, e, m)     == fp16_encode(c, s, given_value(Float16, e, m))
bf16_encode_spec(c, s, e, m)     == bf16_encode(c, s, given_value(BFloat16, e, m))
fp32_encode_spec(c, s, e, m)     == fp32_encode(c, s, given_value(Float32, e, m))
e5m2_encode_spec(c, s, e, m)     == e5m2_encode(c, s, given_value(E5M2, e, m))
e4m3fn_encode_spec(c, s, e, m)   == e4m3fn_encode(c, s, given_value(E4M3FN, e, m))
ue4m3_encode_spec(c, e, m)       == ue4m3_encode(c, 0, given_value(UE4M3, e, m))
e5m2fnuz_encode_spec(c, s, e, m) == e5m2fnuz_encode(c, s, given_value(E5M2FNUZ, e, m))
e2m1_encode_spec(c, s, e, m)     == e2m1_encode(c, s, given_value(E2M1, e, m))

-----------------------------------------------------------------------------
(* pack: the value that fields stand for, [class bits, magnitude].         *)

Packed(f, c, norm, sub, zero, inf, nan) ==
  [ is_norm |-> norm, is_sub |-> sub, is_zero |-> zero, is_inf |-> inf, is_nan |-> nan,
    value |-> IF norm THEN normal_magnitude(f, c)
              ELSE IF sub THEN subnormal_magnitude(f, c) ELSE Mag(0, 0) ]

with_infinities_pack(f, c) ==
  LET top == 2^f.exponent_bits - 1 IN
  Packed(f, c, c.exponent # 0 /\ c.exponent # top,
         c.exponent = 0 /\ c.mantissa # 0, c.exponent = 0 /\ c.mantissa = 0,
         c.exponent = top /\ c.mantissa = 0, c.exponent = top /\ c.mantissa # 0)

fp16_pack_spec(c) == with_infinities_pack(Float16, c)
bf16_pack_spec(c) == with_infinities_pack(BFloat16, c)
fp32_pack_spec(c) == with_infinities_pack(Float32, c)
e5m2_pack_spec(c) == with_infinities_pack(E5M2, c)

e4m3_pack(f, c) ==
  LET nan == c.exponent = 15 /\ c.mantissa = 7 IN
  Packed(f, c, c.exponent # 0 /\ ~ nan, c.exponent = 0 /\ c.mantissa # 0,
         c.exponent = 0 /\ c.mantissa = 0, FALSE, nan)

e4m3fn_pack_spec(c) == e4m3_pack(E4M3FN, c)
ue4m3_pack_spec(c)  == e4m3_pack(UE4M3, c)

e5m2fnuz_pack_spec(c) ==
  LET empty == c.exponent = 0 /\ c.mantissa = 0 IN
  Packed(E5M2FNUZ, c, c.exponent # 0, c.exponent = 0 /\ c.mantissa # 0,
         c.sign = 0 /\ empty, FALSE, c.sign = 1 /\ empty)

e2m1_pack_spec(c) ==
  Packed(E2M1, c, c.exponent # 0, c.exponent = 0 /\ c.mantissa # 0,
         c.exponent = 0 /\ c.mantissa = 0, FALSE, FALSE)

-----------------------------------------------------------------------------
(* The special values a spec can name, the properties by which it          *)
(* recognizes them, and what an equivalence check compares of a value      *)
(* whose class is known.                                                   *)

\* `nan' names the NaN of that payload.
with_infinities_specials(f, payload) ==
  [ nan |-> Code(0, 2^f.exponent_bits - 1, payload), inf |-> Infinity(f, 0),
    ninf |-> Infinity(f, 1), zero |-> Zero, nzero |-> nZero ]

fp16_specials     == with_infinities_specials(Float16, 1)
bf16_specials     == with_infinities_specials(BFloat16, 1)
fp32_specials     == with_infinities_specials(Float32, 1)
e5m2_specials     == with_infinities_specials(E5M2, 2)
e4m3fn_specials   == [nan |-> Code(0, 15, 7), zero |-> Zero, nzero |-> nZero]
ue4m3_specials    == [nan |-> Code(0, 15, 7), zero |-> Zero]
e5m2fnuz_specials == [nan |-> Code(1, 0, 0), zero |-> Zero]
e2m1_specials     == [zero |-> Zero, nzero |-> nZero]

\* is_ninf, is_pinf, is_nzero and is_pzero; a format without a sign of zero has
\* one zero.
signed_kind(c, k) ==
  IF k.is_nan THEN "nan"
  ELSE IF k.is_inf THEN (IF c.sign = 1 THEN "ninf" ELSE "inf")
       ELSE IF k.is_zero THEN (IF c.sign = 1 THEN "nzero" ELSE "zero") ELSE "number"
unsigned_kind(k) ==
  IF k.is_nan THEN "nan" ELSE IF k.is_zero THEN "zero" ELSE "number"

fp16_kind(c, k)     == signed_kind(c, k)
bf16_kind(c, k)     == signed_kind(c, k)
fp32_kind(c, k)     == signed_kind(c, k)
e5m2_kind(c, k)     == signed_kind(c, k)
e4m3fn_kind(c, k)   == signed_kind(c, k)
ue4m3_kind(c, k)    == unsigned_kind(k)
e5m2fnuz_kind(c, k) == unsigned_kind(k)
e2m1_kind(c, k)     == signed_kind(c, k)

\* The real value of a number, the sign of the classes that have one, nothing of
\* the others.
observed(v, c, k, signed) ==
  IF k.is_norm \/ k.is_sub THEN <<c.sign, v.m, v.e>>
  ELSE IF Classes(k) \subseteq signed THEN <<c.sign>> ELSE <<>>

fp16_observables(v, c, k)     == observed(v, c, k, {"is_zero", "is_inf"})
bf16_observables(v, c, k)     == observed(v, c, k, {"is_zero", "is_inf"})
fp32_observables(v, c, k)     == observed(v, c, k, {"is_zero", "is_inf"})
e5m2_observables(v, c, k)     == observed(v, c, k, {"is_zero", "is_inf"})
e4m3fn_observables(v, c, k)   == observed(v, c, k, {"is_zero"})
ue4m3_observables(v, c, k)    == observed(v, c, k, {})
e5m2fnuz_observables(v, c, k) == observed(v, c, k, {})
e2m1_observables(v, c, k)     == observed(v, c, k, {"is_zero"})

-----------------------------------------------------------------------------
(* to_spec_value: the spec value a constant code becomes in a proof.  A    *)
(* special one is replaced by the value its spec names.                    *)

SpecValue(c, norm, sub, zero, inf, nan) ==
  [ sign |-> c.sign, exponent |-> c.exponent, mantissa |-> c.mantissa,
    is_norm |-> norm, is_sub |-> sub, is_zero |-> zero, is_inf |-> inf, is_nan |-> nan ]

ZeroValue(c)      == SpecValue(c, FALSE, FALSE, TRUE, FALSE, FALSE)
InfinityValue(c)  == SpecValue(c, FALSE, FALSE, FALSE, TRUE, FALSE)
NaNValue(c)       == SpecValue(c, FALSE, FALSE, FALSE, FALSE, TRUE)
NumberValue(f, c) == SpecValue(c, is_norm(f, c), is_sub(f, c), FALSE, FALSE, FALSE)

with_infinities_value(f, named, c) ==
  IF is_inf(f, c) THEN InfinityValue(IF c.sign = 1 THEN named.ninf ELSE named.inf)
  ELSE IF is_nan(f, c) THEN NaNValue(named.nan)
       ELSE IF is_zero(f, c) THEN ZeroValue(IF c.sign = 1 THEN named.nzero ELSE named.zero)
            ELSE NumberValue(f, c)

fp16_to_spec_value(c) == with_infinities_value(Float16, fp16_specials, c)
bf16_to_spec_value(c) == with_infinities_value(BFloat16, bf16_specials, c)
fp32_to_spec_value(c) == with_infinities_value(Float32, fp32_specials, c)
e5m2_to_spec_value(c) == with_infinities_value(E5M2, e5m2_specials, c)

e4m3fn_to_spec_value(c) ==
  IF is_nan(E4M3FN, c) THEN NaNValue(e4m3fn_specials.nan)
  ELSE IF is_zero(E4M3FN, c)
       THEN ZeroValue(IF c.sign = 1 THEN e4m3fn_specials.nzero ELSE e4m3fn_specials.zero)
       ELSE NumberValue(E4M3FN, c)

ue4m3_to_spec_value(c) ==
  IF is_nan(UE4M3, c) THEN NaNValue(ue4m3_specials.nan)
  ELSE IF is_zero(UE4M3, c) THEN ZeroValue(ue4m3_specials.zero) ELSE NumberValue(UE4M3, c)

e5m2fnuz_to_spec_value(c) ==
  IF is_nan(E5M2FNUZ, c) THEN NaNValue(e5m2fnuz_specials.nan)
  ELSE IF is_zero(E5M2FNUZ, c) THEN ZeroValue(e5m2fnuz_specials.zero)
       ELSE NumberValue(E5M2FNUZ, c)

e2m1_to_spec_value(c) ==
  IF is_zero(E2M1, c)
  THEN ZeroValue(IF c.sign = 1 THEN e2m1_specials.nzero ELSE e2m1_specials.zero)
  ELSE NumberValue(E2M1, c)

-----------------------------------------------------------------------------
(* xxx_decode_spec: what a proof takes a decode Primitive to return for a  *)
(* spec value, and the tuple the Primitive returns, node by node.          *)

flag(b) == IF b THEN 1 ELSE 0

decode_all(v) ==
  << v.sign, v.exponent, v.mantissa, flag(v.is_norm), flag(v.is_sub), flag(v.is_zero),
     flag(v.is_inf), flag(v.is_nan) >>
decode_finite(v) ==
  << v.sign, v.exponent, v.mantissa, flag(v.is_norm), flag(v.is_sub), flag(v.is_zero),
     flag(v.is_nan) >>

fp16_decode_spec(v)     == decode_all(v)
bf16_decode_spec(v)     == decode_all(v)
fp32_decode_spec(v)     == decode_all(v)
e5m2_decode_spec(v)     == decode_all(v)
e4m3fn_decode_spec(v)   == decode_finite(v)
e5m2fnuz_decode_spec(v) == decode_finite(v)
ue4m3_decode_spec(v) ==
  << v.exponent, v.mantissa, flag(v.is_norm), flag(v.is_sub), flag(v.is_zero), flag(v.is_nan) >>
e2m1_decode_spec(v) ==
  << v.sign, v.exponent, v.mantissa, flag(v.is_norm), flag(v.is_sub), flag(v.is_zero) >>

\* The value of a node is the integer it holds.
DecodedAll(d) ==
  << d.sign, d.exponent.raw, d.mantissa.raw, flag(d.is_norm), flag(d.is_sub),
     flag(d.is_zero), flag(d.is_inf), flag(d.is_nan) >>
DecodedFinite(d) ==
  << d.sign, d.exponent.raw, d.mantissa.raw, flag(d.is_norm), flag(d.is_sub),
     flag(d.is_zero), flag(d.is_nan) >>

DecodedFP16(d)     == DecodedAll(d)
DecodedBF16(d)     == DecodedAll(d)
DecodedFP32(d)     == DecodedAll(d)
DecodedE5M2(d)     == DecodedAll(d)
DecodedE4M3FN(d)   == DecodedFinite(d)
DecodedE5M2FNUZ(d) == DecodedFinite(d)
DecodedUE4M3(d) ==
  << d.exponent.raw, d.mantissa.raw, flag(d.is_norm), flag(d.is_sub), flag(d.is_zero),
     flag(d.is_nan) >>
DecodedE2M1(d) ==
  << d.sign, d.exponent.raw, d.mantissa.raw, flag(d.is_norm), flag(d.is_sub), flag(d.is_zero) >>
===============================================================================
