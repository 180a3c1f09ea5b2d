------------------------------ MODULE Arithmetic ------------------------------
(***************************************************************************)
(* The arithmetic designs of examples/arithmetic: adders and multipliers   *)
(* of BFloat16 and Float32 codes, those of scaled E2M1 codes, and a        *)
(* rectifier.  A design decodes its operands, computes on their            *)
(* significands and exponents, gives an encoder of Converter the sign, the *)
(* exponent and the significand of the result, and puts multiplexers for   *)
(* the special values after it.                                            *)
(*                                                                         *)
(*   op      the design; "none" leaves the module to the converters        *)
(*   args    the operands, codes                                           *)
(*   decoded their decoded tuples                                          *)
(*   terms   the two terms of an addition: sign, exponent and significand  *)
(*   phase   what comes next; "encode" until the encoder has finished      *)
(*   output  the code at the end of the design                             *)
(***************************************************************************)
EXTENDS Converter, Sequences

Pair(f)   == <<f, f>>
Scaled    == <<"UE4M3", "UE4M3", "E2M1", "E2M1">>
OperandTypes ==
  [ bf16_add |-> Pair("BFloat16"), bf16_mult |-> Pair("BFloat16"), bf16_relu |-> <<"BFloat16">>,
    fp32_add |-> Pair("Float32"),  fp32_mult |-> Pair("Float32"),
    ue4m3x2_e2m1x2_add_fp32 |-> Scaled, ue4m3x2_e2m1x2_mult_fp32 |-> Scaled ]
Adders      == {"bf16_add", "fp32_add", "ue4m3x2_e2m1x2_add_fp32"}
Multipliers == {"bf16_mult", "fp32_mult", "ue4m3x2_e2m1x2_mult_fp32"}

\* The type a design returns.
ReturnType(o) == IF o \in {"bf16_add", "bf16_mult", "bf16_relu"} THEN "BFloat16" ELSE "Float32"

CONSTANT Operands   \* the operands of each design

ASSUME OperandsAssumption ==
  \A o \in DOMAIN Operands :
    /\ o \in DOMAIN OperandTypes
    /\ \A c \in Operands[o] :
         /\ DOMAIN c = DOMAIN OperandTypes[o]
         /\ \A i \in DOMAIN c : c[i] \in Codes(FormatOf[OperandTypes[o][i]])

VARIABLES op, args, decoded, terms, phase, output
arithmetic == <<op, args, decoded, terms, phase, output>>

-----------------------------------------------------------------------------
(* The terms of a sum.                                                     *)

\* Three extra bits let the jammed shift keep what decides the rounding.
float_term(f, d) ==
  [ s |-> d.sign, e |-> effective_exponent(d),
    m |-> uq_resize(effective_significand(d), 1, f.mantissa_bits + 3) ]

\* UQ2.20 has room for every bit of a product aligned with the other one.
scaled_term(scale, d) ==
  [ s |-> d.sign, e |-> uq_add(effective_exponent(scale), effective_exponent(d)),
    m |-> uq_resize(uq_mul(effective_significand(scale), effective_significand(d)), 2, 20) ]

TermsOf(o, d) ==
  IF o = "ue4m3x2_e2m1x2_add_fp32"
  THEN <<scaled_term(d[1], d[3]), scaled_term(d[2], d[4])>>
  ELSE <<float_term(To, d[1]), float_term(To, d[2])>>

\* Both terms are moved to the greater exponent.
common_exponent(t) == uq_max(t[1].e, t[2].e)

\* Bug: the bits shifted out are lost.
AlignedWithoutSticky(o, t, i) ==
  [ s |-> t[i].s, e |-> common_exponent(t),
    m |-> uq_rshift(t[i].m, uq_sub(common_exponent(t), t[i].e)) ]

aligned(o, t, i) ==
  LET amount == uq_sub(common_exponent(t), t[i].e) IN
  [ s |-> t[i].s, e |-> common_exponent(t),
    m |-> IF o = "ue4m3x2_e2m1x2_add_fp32" THEN uq_rshift(t[i].m, amount)
                                           ELSE uq_rshift_jam(t[i].m, amount) ]

signed_term(t) == q_add_sign(uq_to_q(t.m), Node(Bit, t.s))
signed_sum(t)  == q_add(signed_term(t[1]), signed_term(t[2]))

\* A scaled sum is biased by the biases of both its factors.
sum_exponent(o, t) ==
  IF o = "ue4m3x2_e2m1x2_add_fp32"
  THEN uq_to_q(uq_add(t[1].e, UQ_from_int(Float32.exponent_bias - UE4M3.exponent_bias
                                            - E2M1.exponent_bias)))
  ELSE uq_to_q(t[1].e)

SumOf(o, t) ==
  [ s |-> q_sign_bit(signed_sum(t)).raw, e |-> sum_exponent(o, t),
    m |-> q_to_uq(q_abs(signed_sum(t))) ]

-----------------------------------------------------------------------------
(* The exact products.                                                     *)

xor(a, b) == (a + b) % 2

float_product(f, a, b) ==
  [ s |-> xor(a.sign, b.sign),
    e |-> q_sub(q_add(uq_to_q(effective_exponent(a)), uq_to_q(effective_exponent(b))),
                Q_from_int(f.exponent_bias)),
    m |-> uq_mul(effective_significand(a), effective_significand(b)) ]

scaled_product(a0, a1, b0, b1) ==
  LET sum == uq_add(uq_add(effective_exponent(a0), effective_exponent(a1)),
                    uq_add(effective_exponent(b0), effective_exponent(b1)))
  IN [ s |-> xor(b0.sign, b1.sign),
       e |-> q_add(uq_to_q(sum),
                   Q_from_int(Float32.exponent_bias - 2 * UE4M3.exponent_bias
                                - 2 * E2M1.exponent_bias)),
       m |-> uq_resize(uq_mul(uq_mul(effective_significand(a0), effective_significand(a1)),
                              uq_mul(effective_significand(b0), effective_significand(b1))),
                       4, Float32.mantissa_bits) ]

ProductOf(o, d) ==
  IF o = "ue4m3x2_e2m1x2_mult_fp32" THEN scaled_product(d[1], d[2], d[3], d[4])
                                    ELSE float_product(To, d[1], d[2])

-----------------------------------------------------------------------------
(* The multiplexers after the encoder.                                     *)

infinite(d, sign) == d.is_inf /\ d.sign = sign

add_specials(f, a, b, r) ==
  IF \/ infinite(a, 1) /\ infinite(b, 0)
     \/ infinite(a, 0) /\ infinite(b, 1)
     \/ a.is_nan \/ b.is_nan
  THEN f.NaN
  ELSE IF infinite(a, 1) \/ infinite(b, 1) THEN Infinity(f, 1)
  ELSE IF infinite(a, 0) \/ infinite(b, 0) THEN Infinity(f, 0)
  ELSE IF a.is_zero /\ b.is_zero /\ a.sign = 1 /\ b.sign = 1 THEN nZero ELSE r

bf16_add(a, b, r) == add_specials(BFloat16, a, b, r)
fp32_add(a, b, r) == add_specials(Float32, a, b, r)

mult_specials(f, a, b, r) ==
  IF (a.is_inf /\ b.is_zero) \/ (b.is_inf /\ a.is_zero) \/ a.is_nan \/ b.is_nan THEN f.NaN
  ELSE IF a.is_inf \/ b.is_inf THEN Infinity(f, xor(a.sign, b.sign))
  ELSE IF (a.is_zero \/ b.is_zero) /\ xor(a.sign, b.sign) = 1 THEN nZero ELSE r

bf16_mult(a, b, r) == mult_specials(BFloat16, a, b, r)
fp32_mult(a, b, r) == mult_specials(Float32, a, b, r)

ue4m3x2_e2m1x2_add_fp32(scale0, scale1, x0, x1, r) ==
  IF scale0.is_nan \/ scale1.is_nan THEN Float32.NaN
  ELSE IF /\ scale0.is_zero \/ x0.is_zero
          /\ scale1.is_zero \/ x1.is_zero
          /\ x0.sign = 1 /\ x1.sign = 1
       THEN nZero ELSE r

ue4m3x2_e2m1x2_mult_fp32(a0, a1, b0, b1, r) ==
  IF a0.is_nan \/ a1.is_nan THEN Float32.NaN
  ELSE IF a0.is_zero \/ a1.is_zero \/ b0.is_zero \/ b1.is_zero
       THEN IF xor(b0.sign, b1.sign) = 1 THEN nZero ELSE Zero
       ELSE r

bf16_relu(d, c) ==
  IF d.is_nan THEN BFloat16.NaN ELSE IF d.sign = 1 THEN Zero ELSE c

Selected(o, d, c, r) ==
  CASE o = "bf16_add"  -> bf16_add(d[1], d[2], r)
    [] o = "fp32_add"  -> fp32_add(d[1], d[2], r)
    [] o = "bf16_mult" -> bf16_mult(d[1], d[2], r)
    [] o = "fp32_mult" -> fp32_mult(d[1], d[2], r)
    [] o = "bf16_relu" -> bf16_relu(d[1], c[1])
    [] o = "ue4m3x2_e2m1x2_add_fp32"  -> ue4m3x2_e2m1x2_add_fp32(d[1], d[2], d[3], d[4], r)
    [] o = "ue4m3x2_e2m1x2_mult_fp32" -> ue4m3x2_e2m1x2_mult_fp32(d[1], d[2], d[3], d[4], r)

-----------------------------------------------------------------------------
\* A converter or an encoder of its own.
InitConversion == Init /\ op = "none" /\ args = <<>> /\ phase = "off"

\* A design on operands; its encoder has been given nothing yet.
InitDesign ==
  /\ op \in DOMAIN Operands /\ args \in Operands[op] /\ phase = "decode"
  /\ design = [from |-> "encoder", to |-> ReturnType(op)] /\ stage = "idle"
  /\ s = 0 /\ e = NoNode /\ m = NoNode /\ given = Nothing
  /\ x = None /\ X = Decoded(Fields(E2M1, None), FALSE, FALSE, FALSE, FALSE, FALSE)
  /\ exact_zero = FALSE /\ result = None /\ origin = [format |-> "encoder", code |-> None]

InitArithmetic ==
  /\ InitConversion \/ InitDesign
  /\ decoded = <<>> /\ terms = <<>> /\ output = None

DecodeOperands ==
  /\ phase = "decode"
  /\ decoded' = [i \in DOMAIN args |-> DecodeOf(OperandTypes[op][i], args[i])]
  /\ phase' = IF op \in Adders THEN "terms" ELSE IF op \in Multipliers THEN "multiply" ELSE "select"
  /\ UNCHANGED <<op, args, terms, output, vars>>

FormTerms ==
  /\ phase = "terms"
  /\ terms' = TermsOf(op, decoded)
  /\ phase' = "align"
  /\ UNCHANGED <<op, args, decoded, output, vars>>

AlignTerms ==
  /\ phase = "align"
  /\ terms' = <<aligned(op, terms, 1), aligned(op, terms, 2)>>
  /\ phase' = "add"
  /\ UNCHANGED <<op, args, decoded, output, vars>>

\* The encoder is called.
CallEncoder(number) ==
  /\ s' = number.s /\ e' = number.e /\ m' = number.m
  /\ given' = number /\ stage' = "normalize" /\ phase' = "encode"
  /\ UNCHANGED <<design, x, X, exact_zero, result, origin, op, args, decoded, terms, output>>

AddTerms ==
  /\ phase = "add"
  /\ CallEncoder(SumOf(op, terms))

Multiply ==
  /\ phase = "multiply"
  /\ CallEncoder(ProductOf(op, decoded))

\* The encoder, or a conversion, goes on.
Proceed == Next /\ UNCHANGED arithmetic

Select ==
  /\ phase = "select" \/ (phase = "encode" /\ stage = "done")
  /\ output' = Selected(op, decoded, args, result)
  /\ phase' = "done"
  /\ UNCHANGED <<op, args, decoded, terms, vars>>

NextArithmetic ==
  DecodeOperands \/ FormTerms \/ AlignTerms \/ AddTerms \/ Multiply \/ Proceed \/ Select

SpecArithmetic == InitArithmetic /\ [][NextArithmetic]_<<vars, arithmetic>>

-----------------------------------------------------------------------------
(* The specifications the designs carry, on numbers: sign and magnitude.   *)

Number(f, c) == [s |-> c.sign, v |-> Magnitude(f, c)]
Times(a, b)  == [s |-> xor(a.s, b.s), v |-> Mag(a.v.m * b.v.m, a.v.e + b.v.e)]

\* A number in units of 2^low, and what a number of these units is.
InUnits(a, low) == (IF a.s = 1 THEN -a.v.m ELSE a.v.m) * 2^(a.v.e - low)
OfUnits(n, low) == [s |-> IF n < 0 THEN 1 ELSE 0, v |-> Mag(IF n < 0 THEN -n ELSE n, low)]
Plus(a, b) ==
  LET low == Smaller(a.v.e, b.v.e) IN OfUnits(InUnits(a, low) + InUnits(b, low), low)

\* encode(value): the number rounded, by the rule of the encoders.
Encoded(f, n) == RoundToNearestEven(f, n.s, n.v)

infinity_of(f, c, sign) == is_inf(f, c) /\ c.sign = sign

spec_add(f, a, b) ==
  IF \/ is_nan(f, a) \/ is_nan(f, b)
     \/ infinity_of(f, a, 0) /\ infinity_of(f, b, 1)
     \/ infinity_of(f, a, 1) /\ infinity_of(f, b, 0)
  THEN f.NaN
  ELSE IF infinity_of(f, a, 1) \/ infinity_of(f, b, 1) THEN Infinity(f, 1)
  ELSE IF infinity_of(f, a, 0) \/ infinity_of(f, b, 0) THEN Infinity(f, 0)
  ELSE IF a = nZero /\ b = nZero THEN nZero
  ELSE Encoded(f, Plus(Number(f, a), Number(f, b)))

spec_bf16_add(a, b) == spec_add(BFloat16, a, b)
spec_fp32_add(a, b) == spec_add(Float32, a, b)

spec_mult(f, a, b) ==
  IF \/ is_nan(f, a) \/ is_nan(f, b)
     \/ is_inf(f, a) /\ is_zero(f, b)
     \/ is_inf(f, b) /\ is_zero(f, a)
  THEN f.NaN
  ELSE IF is_inf(f, a) \/ is_inf(f, b) THEN Infinity(f, IF a.sign # b.sign THEN 1 ELSE 0)
  ELSE IF (is_zero(f, a) \/ is_zero(f, b)) /\ a.sign # b.sign THEN nZero
  ELSE Encoded(f, Times(Number(f, a), Number(f, b)))

spec_bf16_mult(a, b) == spec_mult(BFloat16, a, b)
spec_fp32_mult(a, b) == spec_mult(Float32, a, b)

spec_ue4m3x2_e2m1x2_add_fp32(scale0, scale1, x0, x1) ==
  IF is_nan(UE4M3, scale0) \/ is_nan(UE4M3, scale1) THEN Float32.NaN
  ELSE IF /\ is_zero(UE4M3, scale0) \/ is_zero(E2M1, x0)
          /\ is_zero(UE4M3, scale1) \/ is_zero(E2M1, x1)
          /\ x0.sign = 1 /\ x1.sign = 1
  THEN nZero
  ELSE Encoded(Float32, Plus(Times(Number(UE4M3, scale0), Number(E2M1, x0)),
                             Times(Number(UE4M3, scale1), Number(E2M1, x1))))

spec_ue4m3x2_e2m1x2_mult_fp32(a0, a1, b0, b1) ==
  IF is_nan(UE4M3, a0) \/ is_nan(UE4M3, a1) THEN Float32.NaN
  ELSE IF /\ is_zero(UE4M3, a0) \/ is_zero(UE4M3, a1) \/ is_zero(E2M1, b0) \/ is_zero(E2M1, b1)
          /\ b0.sign # b1.sign
  THEN nZero
  ELSE Encoded(Float32, Times(Times(Number(UE4M3, a0), Number(UE4M3, a1)),
                              Times(Number(E2M1, b0), Number(E2M1, b1))))

spec_bf16_relu(c) ==
  IF is_nan(BFloat16, c) THEN BFloat16.NaN ELSE IF c.sign = 1 THEN Zero ELSE c

SpecifiedBy(o, c) ==
  CASE o = "bf16_add"  -> spec_bf16_add(c[1], c[2])
    [] o = "fp32_add"  -> spec_fp32_add(c[1], c[2])
    [] o = "bf16_mult" -> spec_bf16_mult(c[1], c[2])
    [] o = "fp32_mult" -> spec_fp32_mult(c[1], c[2])
    [] o = "bf16_relu" -> spec_bf16_relu(c[1])
    [] o = "ue4m3x2_e2m1x2_add_fp32"  -> spec_ue4m3x2_e2m1x2_add_fp32(c[1], c[2], c[3], c[4])
    [] o = "ue4m3x2_e2m1x2_mult_fp32" -> spec_ue4m3x2_e2m1x2_mult_fp32(c[1], c[2], c[3], c[4])

\* An arithmetic design returns what the specification it carries says: the exact
\* sum or product, rounded once, to nearest, ties to even; for special operands the
\* special value its cases name.  Bits lost by the alignment, a subnormal taken for
\* a normal number or a case in the wrong order would break it.
ArithmeticAsSpecified == phase = "done" => output = SpecifiedBy(op, args)

\* Every design on codes, converter, encoder or arithmetic, returns what is specified.
DesignsAsSpecified == AsDocumented /\ ArithmeticAsSpecified
=============================================================================
