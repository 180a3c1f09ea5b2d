------------------------------ MODULE Converter ------------------------------
(***************************************************************************)
(* The converters of examples/converters between Float32 and the narrower  *)
(* formats, and the encode Composites they are built on.  A Composite is   *)
(* evaluated Primitive by Primitive along its data flow: one action per    *)
(* Primitive, each reading the nodes the earlier ones produced.            *)
(*                                                                         *)
(*   design  the conversion, [from |-> format, to |-> format]; an encoder  *)
(*           used directly has from = "encoder"                            *)
(*   stage   the Primitive that comes next                                 *)
(*   x       the code converted; X its decoded tuple                       *)
(*   s, e, m the sign and the nodes of the encoder's data path             *)
(*   given   s, e, m as the encoder was given them                         *)
(*   result  the code at the end of the data path                          *)
(*   origin  the code a chain of two conversions started from              *)
(***************************************************************************)
EXTENDS Codecs, CustomSpecs

Narrow == {"Float16", "BFloat16", "E5M2", "E5M2FNUZ", "E4M3FN", "UE4M3", "E2M1"}

CONSTANTS Inputs,       \* the codes of each format that are converted
          Significands, \* the nodes each encoder is given directly as m
          Exponents     \* and as e

ASSUME InputsAssumption ==
  \A f \in DOMAIN Inputs : f \in DOMAIN FormatOf /\ Inputs[f] \subseteq Codes(FormatOf[f])
ASSUME EncoderAssumption ==
  /\ DOMAIN Significands \subseteq DOMAIN FormatOf
  /\ \A f \in DOMAIN Significands : \A n \in Significands[f] :
       IsNode(n) /\ total_bits(n) > 0
  /\ \A n \in Exponents : IsNode(n) /\ n.frac = 0 /\ n.int >= 2
\* The designs that call an encoder give it at least as many bits as the mantissa
\* of its format has; nothing in an encoder checks it.
ASSUME WidthAssumption ==
  \A f \in DOMAIN Significands : \A n \in Significands[f] :
    Larger(n.int - 1, 0) + n.frac + 1 >= FormatOf[f].mantissa_bits

VARIABLES design, stage, x, X, s, e, m, given, exact_zero, result, origin
vars == <<design, stage, x, X, s, e, m, given, exact_zero, result, origin>>

To   == FormatOf[design.to]
From == FormatOf[design.from]
None == Code(0, 0, 0)
Converting == design.from # "encoder"

DecodeOf(f, c) ==
  CASE f = "Float16"  -> fp16_decode(c)   [] f = "BFloat16" -> bf16_decode(c)
    [] f = "Float32"  -> fp32_decode(c)   [] f = "E5M2"     -> e5m2_decode(c)
    [] f = "E4M3FN"   -> e4m3fn_decode(c) [] f = "UE4M3"    -> ue4m3_decode(c)
    [] f = "E5M2FNUZ" -> e5m2fnuz_decode(c) [] f = "E2M1"   -> e2m1_decode(c)

EncodedOf(f, sign, rm, re, zero) ==
  CASE f = "Float16"  -> fp16_encoded(sign, rm, re, zero)
    [] f = "BFloat16" -> bf16_encoded(sign, rm, re, zero)
    [] f = "Float32"  -> fp32_encoded(sign, rm, re, zero)
    [] f = "E5M2"     -> e5m2_encoded(sign, rm, re, zero)
    [] f = "E4M3FN"   -> e4m3fn_encoded(sign, rm, re, zero)
    [] f = "UE4M3"    -> ue4m3_encoded(rm, re, zero)
    [] f = "E5M2FNUZ" -> e5m2fnuz_encoded(sign, rm, re, zero)
    [] f = "E2M1"     -> e2m1_encoded(sign, rm, re, zero)

-----------------------------------------------------------------------------
(* The multiplexers a converter puts after the encoder.  The last one of   *)
(* the code wins, so it comes first here.                                  *)

nan_else(f, d, r)      == IF d.is_nan THEN f.NaN ELSE r
inf_else(f, d, r)      == IF d.is_inf THEN Infinity(f, d.sign) ELSE r
max_else(f, d, r)      == IF d.is_inf THEN Largest(f, d.sign) ELSE r
negative_zero(d, r)    == IF d.is_zero /\ d.sign = 1 THEN nZero ELSE r
all_specials(f, d, r)  == nan_else(f, d, inf_else(f, d, negative_zero(d, r)))

fp32_to_fp16(d, r)     == all_specials(Float16, d, r)
fp32_to_bf16(d, r)     == all_specials(BFloat16, d, r)
fp32_to_e5m2(d, r)     == all_specials(E5M2, d, r)
fp32_to_e4m3fn(d, r)   == nan_else(E4M3FN, d, max_else(E4M3FN, d, negative_zero(d, r)))
fp32_to_e5m2fnuz(d, r) == nan_else(E5M2FNUZ, d, max_else(E5M2FNUZ, d, r))
fp32_to_ue4m3(d, r)    ==
  IF d.is_nan THEN UE4M3.NaN
  ELSE IF d.is_inf THEN Largest(UE4M3, 0)
       ELSE IF d.is_zero THEN Zero ELSE r
fp32_to_e2m1(d, r) ==
  IF d.is_nan THEN Largest(E2M1, 0) ELSE max_else(E2M1, d, negative_zero(d, r))

fp16_to_fp32(d, r)     == all_specials(Float32, d, r)
bf16_to_fp32(d, r)     == all_specials(Float32, d, r)
e5m2_to_fp32(d, r)     == all_specials(Float32, d, r)
e4m3fn_to_fp32(d, r)   == nan_else(Float32, d, negative_zero(d, r))
e5m2fnuz_to_fp32(d, r) == nan_else(Float32, d, r)
ue4m3_to_fp32(d, r)    == nan_else(Float32, d, r)
e2m1_to_fp32(d, r)     == negative_zero(d, r)

SpecialsOf(d, r) ==
  CASE design.to = "Float16"    -> fp32_to_fp16(d, r)
    [] design.to = "BFloat16"   -> fp32_to_bf16(d, r)
    [] design.to = "E5M2"       -> fp32_to_e5m2(d, r)
    [] design.to = "E4M3FN"     -> fp32_to_e4m3fn(d, r)
    [] design.to = "E5M2FNUZ"   -> fp32_to_e5m2fnuz(d, r)
    [] design.to = "UE4M3"      -> fp32_to_ue4m3(d, r)
    [] design.to = "E2M1"       -> fp32_to_e2m1(d, r)
    [] design.from = "Float16"  -> fp16_to_fp32(d, r)
    [] design.from = "BFloat16" -> bf16_to_fp32(d, r)
    [] design.from = "E5M2"     -> e5m2_to_fp32(d, r)
    [] design.from = "E4M3FN"   -> e4m3fn_to_fp32(d, r)
    [] design.from = "E5M2FNUZ" -> e5m2fnuz_to_fp32(d, r)
    [] design.from = "UE4M3"    -> ue4m3_to_fp32(d, r)
    [] design.from = "E2M1"     -> e2m1_to_fp32(d, r)

-----------------------------------------------------------------------------
NoNode  == Node(Bit, 0)
Nothing == [s |-> 0, e |-> NoNode, m |-> NoNode]

\* A converter on one of its inputs, or an encoder on nodes.
InitConverter ==
  /\ design \in [from: {"Float32"}, to: Narrow] \cup [from: Narrow, to: {"Float32"}]
  /\ design.from \in DOMAIN Inputs
  /\ x \in Inputs[design.from]
  /\ origin = [format |-> design.from, code |-> x]
  /\ stage = "decode" /\ s = 0 /\ e = NoNode /\ m = NoNode /\ given = Nothing

InitEncoder ==
  /\ design \in [from: {"encoder"}, to: DOMAIN Significands]
  /\ s \in FormatOf[design.to].signs
  /\ e \in Exponents
  /\ m \in Significands[design.to]
  /\ given = [s |-> s, e |-> e, m |-> m]
  /\ x = None /\ origin = [format |-> "encoder", code |-> None] /\ stage = "normalize"

Init ==
  /\ InitConverter \/ InitEncoder
  /\ X = Decoded(Fields(E2M1, None), FALSE, FALSE, FALSE, FALSE, FALSE)
  /\ exact_zero = FALSE /\ result = None

\* xxx_decode.  UE4M3 has no sign: the encoder gets a constant 0 for it.
Decode ==
  /\ stage = "decode"
  /\ X' = DecodeOf(design.from, x)
  /\ stage' = "rebase"
  /\ UNCHANGED <<design, x, s, e, m, given, exact_zero, result, origin>>

\* The converter's own nodes: the significand as wide as the wider of the two
\* mantissas, the exponent with the bias of the target.
Rebase ==
  /\ stage = "rebase"
  /\ s' = X.sign
  /\ m' = uq_resize(effective_significand(X), 1,
                    Larger(From.mantissa_bits, To.mantissa_bits))
  /\ e' = q_add(uq_to_q(effective_exponent(X)),
                Q_from_int(To.exponent_bias - From.exponent_bias))
  /\ given' = [s |-> s', e |-> e', m |-> m']
  /\ stage' = "normalize"
  /\ UNCHANGED <<design, x, X, exact_zero, result, origin>>

Normalize ==
  /\ stage = "normalize"
  /\ exact_zero' = (uq_is_zero(m).raw = 1)
  /\ LET both == normalize_to_1_xxx(m, e) IN m' = both[1] /\ e' = both[2]
  /\ stage' = "shift"
  /\ UNCHANGED <<design, x, X, s, given, result, origin>>

Shift ==
  /\ stage = "shift"
  /\ LET both == shift_if_subnormal(m, e, 3) IN m' = both[1] /\ e' = both[2]
  /\ stage' = "round"
  /\ UNCHANGED <<design, x, X, s, given, exact_zero, result, origin>>

Round ==
  /\ stage = "round"
  /\ LET both == round_mantissa(drop_implicit_bit(m), e, To.mantissa_bits) IN m' = both[1] /\ e' = both[2]
  /\ stage' = "encode"
  /\ UNCHANGED <<design, x, X, s, given, exact_zero, result, origin>>

\* The final fields, packed, and the multiplexer of the exact zero.
Encode ==
  /\ stage = "encode"
  /\ result' = EncodedOf(design.to, s, m, e, exact_zero)
  /\ stage' = IF Converting THEN "specials" ELSE "done"
  /\ UNCHANGED <<design, x, X, s, e, m, given, exact_zero, origin>>

Specials ==
  /\ stage = "specials"
  /\ result' = SpecialsOf(X, result)
  /\ stage' = "done"
  /\ UNCHANGED <<design, x, X, s, e, m, given, exact_zero, origin>>

\* The result of a widening is converted back.
Return ==
  /\ stage = "done"
  /\ design.to = "Float32" /\ Converting
  /\ design' = [from |-> "Float32", to |-> design.from]
  /\ x' = result
  /\ stage' = "decode"
  /\ UNCHANGED <<X, s, e, m, given, exact_zero, result, origin>>

Next ==
  Decode \/ Rebase \/ Normalize \/ Shift \/ Round \/ Encode \/ Specials \/ Return

Spec == Init /\ [][Next]_vars

-----------------------------------------------------------------------------
(* What the documentation says of the results.                             *)

\* The rules for special values of examples/converters/README.md.
DocumentedSpecial(f, from, c) ==
  IF is_nan(from, c)
  THEN IF "NaN" \in DOMAIN f THEN f.NaN ELSE Largest(f, 0)
  ELSE IF is_inf(from, c)
       THEN IF f.signs = {0} THEN Largest(f, 0)
            ELSE IF f.inf = {} THEN Largest(f, c.sign) ELSE Infinity(f, c.sign)
       ELSE IF c.sign = 1 /\ f.signed_zero THEN nZero ELSE Zero

IsSpecial(f, c) == is_nan(f, c) \/ is_inf(f, c) \/ is_zero(f, c)

\* The magnitude an encoder is given: m * 2^(e - bias).
GivenMagnitude == Mag(given.m.raw, scaled_integer(given.e) - To.exponent_bias - given.m.frac)

Finite == ~ Converting \/ ~ IsSpecial(From, x)
Value  == IF Converting THEN Magnitude(From, x) ELSE GivenMagnitude
Sign   == IF Converting THEN x.sign ELSE given.s

\* Converters and encoders give the documented result: finite values are rounded
\* to nearest, ties to even, with the documented overflow, underflow and signs of
\* zero (docs/operators.md, the docstrings of the encoders); special values follow
\* the README of the converters.  Double rounding, a lost sticky bit, a carry into
\* the exponent or a multiplexer in the wrong order would break it.
SpecialsAsDocumented ==
  stage = "done" /\ ~ Finite => result = DocumentedSpecial(To, From, x)
NumbersAsDocumented ==
  stage = "done" /\ Finite => result = RoundToNearestEven(To, Sign, Value)
AsDocumented == SpecialsAsDocumented /\ NumbersAsDocumented

\* "Widening to FP32 is exact" and narrowing keeps what fits: a code converted to
\* Float32 and back is the same code, a NaN the canonical one.
RoundTrip ==
  stage = "done" /\ design.from = "Float32" /\ origin.format \in Narrow =>
    result = IF is_nan(To, origin.code) THEN To.NaN ELSE origin.code

FreshOf(f, c, k) ==
  CASE f = "Float16"  -> fp16_fresh(c, k)   [] f = "BFloat16" -> bf16_fresh(c, k)
    [] f = "Float32"  -> fp32_fresh(c, k)   [] f = "E5M2"     -> e5m2_fresh(c, k)
    [] f = "E4M3FN"   -> e4m3fn_fresh(c, k) [] f = "UE4M3"    -> ue4m3_fresh(c, k)
    [] f = "E5M2FNUZ" -> e5m2fnuz_fresh(c, k) [] f = "E2M1"   -> e2m1_fresh(c, k)

EncodeSpecOf(f, c, g) ==
  CASE f = "Float16"  -> fp16_encode_spec(c, g.s, g.e, g.m)
    [] f = "BFloat16" -> bf16_encode_spec(c, g.s, g.e, g.m)
    [] f = "Float32"  -> fp32_encode_spec(c, g.s, g.e, g.m)
    [] f = "E5M2"     -> e5m2_encode_spec(c, g.s, g.e, g.m)
    [] f = "E4M3FN"   -> e4m3fn_encode_spec(c, g.s, g.e, g.m)
    [] f = "UE4M3"    -> ue4m3_encode_spec(c, g.e, g.m)
    [] f = "E5M2FNUZ" -> e5m2fnuz_encode_spec(c, g.s, g.e, g.m)
    [] f = "E2M1"     -> e2m1_encode_spec(c, g.s, g.e, g.m)

ValueOf(f, c) ==
  CASE f = "Float16"  -> fp16_to_spec_value(c)   [] f = "BFloat16" -> bf16_to_spec_value(c)
    [] f = "Float32"  -> fp32_to_spec_value(c)   [] f = "E5M2"     -> e5m2_to_spec_value(c)
    [] f = "E4M3FN"   -> e4m3fn_to_spec_value(c) [] f = "UE4M3"    -> ue4m3_to_spec_value(c)
    [] f = "E5M2FNUZ" -> e5m2fnuz_to_spec_value(c) [] f = "E2M1"   -> e2m1_to_spec_value(c)

DecodeSpecOf(f, v) ==
  CASE f = "Float16"  -> fp16_decode_spec(v)   [] f = "BFloat16" -> bf16_decode_spec(v)
    [] f = "Float32"  -> fp32_decode_spec(v)   [] f = "E5M2"     -> e5m2_decode_spec(v)
    [] f = "E4M3FN"   -> e4m3fn_decode_spec(v) [] f = "UE4M3"    -> ue4m3_decode_spec(v)
    [] f = "E5M2FNUZ" -> e5m2fnuz_decode_spec(v) [] f = "E2M1"   -> e2m1_decode_spec(v)

DecodedTupleOf(f, d) ==
  CASE f = "Float16"  -> DecodedFP16(d)   [] f = "BFloat16" -> DecodedBF16(d)
    [] f = "Float32"  -> DecodedFP32(d)   [] f = "E5M2"     -> DecodedE5M2(d)
    [] f = "E4M3FN"   -> DecodedE4M3FN(d) [] f = "UE4M3"    -> DecodedUE4M3(d)
    [] f = "E5M2FNUZ" -> DecodedE5M2FNUZ(d) [] f = "E2M1"   -> DecodedE2M1(d)

PackOf(f, c) ==
  CASE f = "Float16"  -> fp16_pack_spec(c)   [] f = "BFloat16" -> bf16_pack_spec(c)
    [] f = "Float32"  -> fp32_pack_spec(c)   [] f = "E5M2"     -> e5m2_pack_spec(c)
    [] f = "E4M3FN"   -> e4m3fn_pack_spec(c) [] f = "UE4M3"    -> ue4m3_pack_spec(c)
    [] f = "E5M2FNUZ" -> e5m2fnuz_pack_spec(c) [] f = "E2M1"   -> e2m1_pack_spec(c)

NamedSpecials(f) ==
  CASE f = "Float16"  -> fp16_specials   [] f = "BFloat16" -> bf16_specials
    [] f = "Float32"  -> fp32_specials   [] f = "E5M2"     -> e5m2_specials
    [] f = "E4M3FN"   -> e4m3fn_specials [] f = "UE4M3"    -> ue4m3_specials
    [] f = "E5M2FNUZ" -> e5m2fnuz_specials [] f = "E2M1"   -> e2m1_specials

KindOf(f, c, k) ==
  CASE f = "Float16"  -> fp16_kind(c, k)   [] f = "BFloat16" -> bf16_kind(c, k)
    [] f = "Float32"  -> fp32_kind(c, k)   [] f = "E5M2"     -> e5m2_kind(c, k)
    [] f = "E4M3FN"   -> e4m3fn_kind(c, k) [] f = "UE4M3"    -> ue4m3_kind(c, k)
    [] f = "E5M2FNUZ" -> e5m2fnuz_kind(c, k) [] f = "E2M1"   -> e2m1_kind(c, k)

ObservablesOf(f, v, c, k) ==
  CASE f = "Float16"  -> fp16_observables(v, c, k)   [] f = "BFloat16" -> bf16_observables(v, c, k)
    [] f = "Float32"  -> fp32_observables(v, c, k)   [] f = "E5M2"     -> e5m2_observables(v, c, k)
    [] f = "E4M3FN"   -> e4m3fn_observables(v, c, k) [] f = "UE4M3"    -> ue4m3_observables(v, c, k)
    [] f = "E5M2FNUZ" -> e5m2fnuz_observables(v, c, k) [] f = "E2M1"   -> e2m1_observables(v, c, k)

\* The class bits of k are the classes the type decides for c.
ClassesAsTyped(f, c, k) ==
  /\ k.is_norm = is_norm(f, c) /\ k.is_sub = is_sub(f, c) /\ k.is_zero = is_zero(f, c)
  /\ k.is_inf = is_inf(f, c) /\ k.is_nan = is_nan(f, c)

\* The special value a spec names for c is a value fresh() admits, in the class of
\* c, and an equivalence check cannot tell it from c.
NamedAs(f, c, k) ==
  LET kind == KindOf(f, c, k) IN
  kind # "number" =>
    /\ kind \in DOMAIN NamedSpecials(f)
    /\ LET special == NamedSpecials(f)[kind] IN
       /\ FreshOf(f, special, k)
       /\ ClassesAsTyped(FormatOf[f], special, k)
       /\ ObservablesOf(f, Mag(0, 0), special, k) = ObservablesOf(f, Mag(0, 0), c, k)

\* The verifier reasons about an input through the assumptions of fresh(): every
\* code must satisfy them with the class bits the decoder computes and the type
\* predicates agree on, or the proof would say nothing about that code.  Packing
\* the fields of the code must give the specs the same class and value again, a
\* special code must be one of those the specs can name, and decoding a constant
\* must give what the decode spec says of the value the constant stands for in a
\* proof, except that every NaN stands there for the one the spec names.
InputsCovered ==
  stage = "rebase" =>
    /\ FreshOf(design.from, x, X)
    /\ ClassesAsTyped(From, x, X)
    /\ ClassesAsTyped(From, x, PackOf(design.from, x))
    /\ X.is_norm \/ X.is_sub => PackOf(design.from, x).value = Magnitude(From, x)
    /\ NamedAs(design.from, x, X)
    /\ X.is_nan \/ DecodedTupleOf(design.from, X)
                     = DecodeSpecOf(design.from, ValueOf(design.from, x))

\* The verifier reasons about a result through the assumptions of encode(): the
\* fields an encoder yields satisfy its encode_spec, for the values that leaves
\* unrounded (numbers of the format) and those it rounds itself (zero, overflow).
SpecHonoured ==
  stage = "done" /\ Finite =>
    \/ ~ Representable(To, Value) /\ ~ Overflows(To, Value) /\ Less(zero_boundary(To), Value)
    \/ EncodeSpecOf(design.to, result, given)
=============================================================================
