------------------------------- MODULE Formats -------------------------------
(***************************************************************************)
(* The floating-point types of zolotone/types.  A format is a record of    *)
(* the ClassVars of its class together with its special codes; a code is   *)
(* the record of its sign, exponent and mantissa fields, never the packed  *)
(* integer.  The sets nan and inf are the codes is_nan and is_inf accept.  *)
(***************************************************************************)
EXTENDS FixedPoint

Code(s, e, m) == [sign |-> s, exponent |-> e, mantissa |-> m]

\* What Float16, BFloat16, Float32 and E5M2 have in common: the exponent of
\* all ones stands for infinity and, with a nonzero mantissa, for NaN.
WithInfinities(eb, mb, bias) ==
  LET top == 2^eb - 1 IN
  [ exponent_bits |-> eb, mantissa_bits |-> mb, exponent_bias |-> bias,
    signs |-> {0, 1}, signed_zero |-> TRUE,
    inf |-> [sign: {0, 1}, exponent: {top}, mantissa: {0}],
    nan |-> [sign: {0, 1}, exponent: {top}, mantissa: 1 .. (2^mb - 1)],
    NaN |-> Code(0, top, 2^(mb - 1)),
    max_finite_code |-> top - 1, max_finite_mantissa |-> 2^mb - 1 ]

Float16  == WithInfinities(5, 10, 15)
BFloat16 == WithInfinities(8, 7, 127)
Float32  == WithInfinities(8, 23, 127)
E5M2     == WithInfinities(5, 2, 15)

E4M3FN ==
  [ exponent_bits |-> 4, mantissa_bits |-> 3, exponent_bias |-> 7,
    signs |-> {0, 1}, signed_zero |-> TRUE,
    inf |-> {}, nan |-> [sign: {0, 1}, exponent: {15}, mantissa: {7}],
    NaN |-> Code(0, 15, 7), max_finite_code |-> 15, max_finite_mantissa |-> 6 ]

UE4M3 == [E4M3FN EXCEPT !.signs = {0}, !.signed_zero = FALSE,
                        !.nan = [sign: {0}, exponent: {15}, mantissa: {7}]]

\* 0x80, which would be the negative zero, is the only NaN.
E5M2FNUZ ==
  [ exponent_bits |-> 5, mantissa_bits |-> 2, exponent_bias |-> 16,
    signs |-> {0, 1}, signed_zero |-> FALSE,
    inf |-> {}, nan |-> {Code(1, 0, 0)},
    NaN |-> Code(1, 0, 0), max_finite_code |-> 31, max_finite_mantissa |-> 3 ]

\* The type has neither infinities nor NaN().
E2M1 ==
  [ exponent_bits |-> 2, mantissa_bits |-> 1, exponent_bias |-> 1,
    signs |-> {0, 1}, signed_zero |-> TRUE, inf |-> {}, nan |-> {},
    max_finite_code |-> 3, max_finite_mantissa |-> 1 ]

FormatOf ==
  [ Float16 |-> Float16, BFloat16 |-> BFloat16, Float32 |-> Float32, E5M2 |-> E5M2,
    E4M3FN |-> E4M3FN, UE4M3 |-> UE4M3, E5M2FNUZ |-> E5M2FNUZ, E2M1 |-> E2M1 ]

Codes(f) == [ sign: f.signs, exponent: 0 .. (2^f.exponent_bits - 1),
              mantissa: 0 .. (2^f.mantissa_bits - 1) ]

Zero       == Code(0, 0, 0)
nZero      == Code(1, 0, 0)
Largest(f, s)  == Code(s, f.max_finite_code, f.max_finite_mantissa)
Infinity(f, s) == Code(s, 2^f.exponent_bits - 1, 0)

\* The predicates of a type, each after the ones its code refers to.
is_nan(f, c)  == c \in f.nan
is_inf(f, c)  == c \in f.inf
is_zero(f, c) == ~ is_nan(f, c) /\ c.exponent = 0 /\ c.mantissa = 0
is_sub(f, c)  ==
  ~ (is_nan(f, c) \/ is_inf(f, c) \/ is_zero(f, c)) /\ c.exponent = 0
is_norm(f, c) ==
  ~ (is_nan(f, c) \/ is_inf(f, c) \/ is_zero(f, c) \/ is_sub(f, c))

-----------------------------------------------------------------------------
(* Magnitudes: [m |-> m, e |-> e] is m * 2^e.                              *)

Mag(m, e) == [m |-> m, e |-> e]

\* to_python: the magnitude of a finite code.
Magnitude(f, c) ==
  LET ulp(e) == e - f.exponent_bias - f.mantissa_bits IN
  IF c.exponent = 0
  THEN Mag(c.mantissa, ulp(1))
  ELSE Mag(2^f.mantissa_bits + c.mantissa, ulp(c.exponent))

\* The position of the leading bit, for a nonzero magnitude.
Log2(v) == BitLength(v.m) - 1 + v.e

\* Numbers with the same leading bit are compared with their bits aligned.
Aligned(v, w) == v.m * 2^Larger(0, BitLength(w.m) - BitLength(v.m))

Less(v, w) ==
  \/ v.m = 0 /\ w.m > 0
  \/ /\ v.m > 0 /\ w.m > 0
     /\ \/ Log2(v) < Log2(w)
        \/ Log2(v) = Log2(w) /\ Aligned(v, w) < Aligned(w, v)

Same(v, w) == ~ Less(v, w) /\ ~ Less(w, v)

-----------------------------------------------------------------------------
(* The reference: round to nearest, ties to even, computed on the number.  *)

HalfEven(n, d) ==
  LET half == 2^(d - 1)
      rest == n % 2^d
  IN n \div 2^d + (IF rest > half \/ (rest = half /\ (n \div 2^d) % 2 = 1) THEN 1 ELSE 0)

\* The number of units of the last place, Mag(1, q), nearest to v.
Units(v, q) ==
  IF v.e >= q THEN v.m * 2^(v.e - q)
  ELSE IF q - v.e > BitLength(v.m) + 1 THEN 0 ELSE HalfEven(v.m, q - v.e)

\* A magnitude beyond every finite number of f, whatever the rounding.
Enormous(f, v) == Log2(v) > f.max_finite_code - f.exponent_bias

\* The finite fields nearest to v, in a format without an upper limit.
Nearest(f, v) ==
  LET least == 1 - f.exponent_bias - f.mantissa_bits
      q     == Larger(least, Log2(v) - f.mantissa_bits)
      n     == Units(v, q)
      carry == IF n = 2^(f.mantissa_bits + 1) THEN 1 ELSE 0
  IN [ exponent |-> IF n < 2^f.mantissa_bits THEN 0 ELSE q - least + 1 + carry,
       mantissa |-> n % 2^f.mantissa_bits ]

Overflows(f, v) ==
  v.m > 0 /\ (Enormous(f, v) \/ LET r == Nearest(f, v) IN
     \/ r.exponent > f.max_finite_code
     \/ r.exponent = f.max_finite_code /\ r.mantissa > f.max_finite_mantissa)

\* The code for the number with sign s and magnitude v: overflow gives an
\* infinity where there is one, otherwise the greatest finite number; an exact
\* zero is +0; what only rounds to zero keeps its sign in a format that has -0.
RoundToNearestEven(f, s, v) ==
  LET sign == IF f.signs = {0} THEN 0 ELSE s IN
  IF v.m = 0 THEN Zero
  ELSE IF Overflows(f, v)
       THEN IF f.inf # {} THEN Infinity(f, sign) ELSE Largest(f, sign)
       ELSE LET r == Nearest(f, v) IN
            IF r.exponent = 0 /\ r.mantissa = 0 /\ ~ f.signed_zero
            THEN Zero ELSE Code(sign, r.exponent, r.mantissa)

\* v is a number of the format.
Representable(f, v) ==
  v.m = 0 \/ ( /\ ~ Overflows(f, v)
               /\ Same(Magnitude(f, RoundToNearestEven(f, 0, v)), v) )
=============================================================================
