----------------------------- MODULE MCConverter -----------------------------
(***************************************************************************)
(* The inputs of the converter run: every code of the formats of up to 8   *)
(* bits; of the 16-bit formats and of Float32 the codes whose mantissas    *)
(* are all zeros or ones but for a few bits, where rounding decides.       *)
(***************************************************************************)
EXTENDS Arithmetic

\* Mantissas of mb bits: the upper `top' bits are free, the rest is one of the
\* patterns around a tie (below, on and above the half way point).
Mantissas(mb, top) ==
  LET low == mb - top IN
  {h * 2^low + t : h \in 0 .. (2^top - 1),
                   t \in {0, 1, 2^(low - 1) - 1, 2^(low - 1), 2^(low - 1) + 1, 2^low - 1}}

\* Around the exponents at which a target overflows or becomes subnormal.
Exponents32 ==
  {0, 1, 2, 126, 127, 128, 253, 254, 255}
    \cup 109 .. 114 \cup 116 .. 122 \cup 129 .. 130 \cup 134 .. 136 \cup 141 .. 143
    \cup 101 .. 104

Sampled(eb, mb, exponents) ==
  [sign: {0, 1}, exponent: exponents,
   mantissa: {0, 1, 2^(mb - 1) - 1, 2^(mb - 1), 2^mb - 2, 2^mb - 1}]

MCInputs ==
  [ E2M1 |-> Codes(E2M1), E4M3FN |-> Codes(E4M3FN), UE4M3 |-> Codes(UE4M3),
    E5M2 |-> Codes(E5M2), E5M2FNUZ |-> Codes(E5M2FNUZ),
    Float16 |-> Sampled(5, 10, 0 .. 31),
    BFloat16 |-> Sampled(8, 7, 0 .. 255),
    Float32 |->
      [sign: {0, 1}, exponent: Exponents32, mantissa: Mantissas(23, 3)]
        \cup [sign: {0, 1}, exponent: {0, 112, 113, 126, 142, 254}, mantissa: Mantissas(23, 4)] ]

\* Encoders used directly, as the arithmetic designs do, with a significand that
\* is not normalized and wide enough for the three extra bits of the shift.
MCSignificands ==
  [ E4M3FN |-> {Node(<<2, 4>>, v) : v \in 0 .. 63},
    E2M1   |-> {Node(<<0, 3>>, v) : v \in 0 .. 7} ]
MCExponents == {Node(<<6, 0>>, v % 64) : v \in -14 .. 18}

\* Operands of the adders: exponents at most 20 apart, which is beyond every place
\* a bit is kept at, next to the subnormal numbers and next to infinity; a zero
\* only meets operands of the first kind, so that exact sums are machine integers.
\* Operands of the multipliers: products that are subnormal, normal and too large.
BFloat16s(exponents, mantissas) ==
  [sign: {0, 1}, exponent: exponents, mantissa: mantissas]
Pairs(S) == {<<a, b>> : a \in S, b \in S}

Scales == {Zero, Code(0, 0, 1), Code(0, 1, 3), Code(0, 15, 6), Code(0, 15, 7)}
Factors == {Zero, nZero, Code(0, 0, 1), Code(1, 1, 0), Code(0, 3, 1), Code(1, 3, 1)}
ScaledPairs == {<<a, b, c, d>> : a \in Scales, b \in Scales, c \in Factors, d \in Factors}

MCOperands ==
  [ bf16_add  |-> Pairs(BFloat16s({0, 1, 2, 9, 10, 20}, {0, 1, 64, 127}))
                    \cup Pairs(BFloat16s({244, 253, 254, 255}, {0, 1, 127}))
                    \cup Pairs(BFloat16s({0, 255}, {0, 1})),
    bf16_mult |-> Pairs(BFloat16s({0, 1, 62, 127, 190, 254, 255}, {0, 1, 53, 127})),
    bf16_relu |-> {<<c>> : c \in BFloat16s({0, 1, 254, 255}, {0, 1, 127})},
    ue4m3x2_e2m1x2_add_fp32  |-> ScaledPairs,
    ue4m3x2_e2m1x2_mult_fp32 |-> ScaledPairs ]
=============================================================================
