--------------------------- MODULE Arithmetic_proofs ---------------------------
(***************************************************************************)
(* What is proved of the arithmetic designs.  ArithmeticInv says how far a *)
(* design has come: it decodes its operands, forms and aligns its terms,   *)
(* and then its encoder runs with the invariants of Converter_proofs, on   *)
(* the number the design has given it.  Most of the module is about that   *)
(* number: it is one an encoder takes, and rounds to the same code as the  *)
(* exact sum or product of the operands.                                   *)
(***************************************************************************)
EXTENDS Arithmetic, Converter_proofs

-----------------------------------------------------------------------------
(* Rounding a sum of which bits have been jammed.                          *)

\* A jammed number has the place of the number, if two bits more than are kept remain.
LEMMA JamOrdinal ==
  ASSUME NEW mb \in Nat, NEW bias \in Nat, NEW n \in Nat, NEW d \in Nat, NEW k \in Int,
         Jam(n, d) >= 2^(mb + 2)
  PROVE  Ordinal(mb, bias, Mag(Jam(n, d), k)) = Ordinal(mb, bias, Mag(n, k - d))
<1> DEFINE J == Jam(n, d)
           D == 2^d
           z == n \div D
           w == n % D
           l == BitLength(J)
<1>1. D \in Nat /\ D > 0 /\ 2^(mb + 2) \in Nat /\ 2^(mb + 2) > 0
  BY PowerPositive
<1>2. z \in Nat /\ w \in 0 .. (D - 1) /\ n = D * z + w
  BY <1>1, Divided
<1>3. J = z + (IF w > 0 /\ z % 2 = 0 THEN 1 ELSE 0)
  BY DEF Jam
<1>4. J \in Nat /\ J >= 2^(mb + 2) /\ J > 0 /\ (J = z \/ (J = z + 1 /\ z % 2 = 0))
  BY <1>1, <1>2, <1>3
<1> HIDE DEF D, z, w, J
<1>5. l \in Nat /\ l >= 1 /\ 2^(l - 1) <= J /\ J < 2^l
  BY <1>4, BitLengthOf
<1> HIDE DEF l
<1>6. l >= mb + 3
  <2>1. ASSUME l <= mb + 2 PROVE FALSE
    <3>1. 2^l <= 2^(mb + 2) /\ 2^l \in Nat
      BY <1>5, <2>1, PowerMonotone, PowerPositive
    <3>2. QED BY <1>1, <1>4, <1>5, <3>1
  <2>2. QED BY <1>5, <2>1
<1>7. 2^(l - 1) <= z /\ z < 2^l
  <2>1. l - 1 \in Nat /\ l - 1 >= 1 /\ (l - 1) - 1 \in Nat
    BY <1>5, <1>6
  <2>2. 2^(l - 1) = 2 * 2^((l - 1) - 1) /\ 2^((l - 1) - 1) \in Nat /\ 2^l \in Nat
    BY <1>5, <2>1, PowersOf, PowerPositive
  <2>3. QED BY <1>2, <1>4, <1>5, <2>2
<1>8. BitLength(n) = l + d /\ n > 0
  <2>1. 2^(l - 1) \in Nat /\ 2^(l - 1) > 0 /\ 2^l \in Nat /\ l - 1 \in Nat /\ l + d \in Nat
    BY <1>5, PowerPositive
  <2>2. 2^(l + d) = 2^l * D /\ 2^((l - 1) + d) = 2^(l - 1) * D
    BY <2>1, <1>5, PowerSum DEF D
  <2>3. D * z >= 2^(l - 1) * D /\ D * z + D <= 2^l * D /\ 2^(l - 1) * D > 0
    <3>1. z + 1 <= 2^l
      BY <1>2, <1>7, <2>1
    <3>2. D * z >= D * 2^(l - 1) /\ D * (z + 1) <= D * 2^l /\ D * 2^(l - 1) > 0
      BY <1>1, <1>2, <1>7, <2>1, <3>1
    <3>3. D * (z + 1) = D * z + D
      BY <1>1, <1>2
    <3>4. QED BY <1>1, <1>2, <2>1, <3>2, <3>3
  <2>4. (l + d) - 1 = (l - 1) + d /\ l + d >= 1
    BY <1>5
  <2>5. 2^((l + d) - 1) <= n /\ n < 2^(l + d) /\ n > 0
    BY <1>1, <1>2, <2>1, <2>2, <2>3, <2>4
  <2>6. QED BY <2>1, <2>4, <2>5, BitLengthIs
<1> DEFINE p == Places(mb, bias, Mag(J, k))
           q == p + 1 - bias - mb
<1>9. Log2(Mag(J, k)) = l - 1 + k /\ Log2(Mag(n, k - d)) = l - 1 + k
  <2>1. Mag(J, k).m = J /\ Mag(J, k).e = k /\ Mag(n, k - d).m = n /\ Mag(n, k - d).e = k - d
    BY DEF Mag
  <2>2. QED BY <1>5, <1>8, <2>1 DEF Log2, l
<1>10. Places(mb, bias, Mag(n, k - d)) = p
  BY <1>9 DEF Places
<1>11. p \in Nat /\ p >= l - 2 + k + bias
  BY <1>5, <1>9 DEF Places, Larger
<1> HIDE DEF p
<1>12. q \in Int /\ k - q <= -2
  BY <1>5, <1>6, <1>11
<1> HIDE DEF q
<1>13. Units(Mag(J, k), q) = Rounded(J, k - q) /\ Units(Mag(n, k - d), q) = Rounded(n, (k - d) - q)
  <2>1. k - d \in Int
    OBVIOUS
  <2>2. QED BY <1>4, <1>8, <1>12, <2>1, UnitsOf
<1> DEFINE c == -(k - q)
<1>14. c \in Nat /\ c >= 2 /\ -((k - d) - q) = d + c /\ ~ (k - q >= 0) /\ ~ ((k - d) - q >= 0)
  BY <1>12
<1>15. Rounded(J, k - q) = HalfEven(J, c) /\ Rounded(n, (k - d) - q) = HalfEven(n, d + c)
  BY <1>14 DEF Rounded
<1> HIDE DEF c
<1>16. HalfEven(J, c) = HalfEven(n, d + c)
  BY <1>14, JamRounds DEF J
<1>17. Units(Mag(J, k), q) = Units(Mag(n, k - d), q)
  BY <1>13, <1>15, <1>16
<1>18. Ordinal(mb, bias, Mag(J, k)) = p * 2^mb + Units(Mag(J, k), q)
  BY DEF Ordinal, p, q
<1>19. Ordinal(mb, bias, Mag(n, k - d)) = p * 2^mb + Units(Mag(n, k - d), q)
  BY <1>10 DEF Ordinal, q
<1>20. QED BY <1>17, <1>18, <1>19 DEF J

\* Signs, as factors.
Factor(sign) == IF sign = 1 THEN -1 ELSE 1

\* Jamming commutes with adding an even number in the place it is jammed to.
LEMMA JamOfSum ==
  ASSUME NEW a \in Nat, NEW b \in Nat, NEW d \in Nat, NEW t \in {-1, 1},
         NEW n \in Nat, n = (2 * a) * 2^d + t * b
  PROVE  Jam(n, d) = 2 * a + t * Jam(b, d)
<1> DEFINE D == 2^d
           z == b \div D
           w == b % D
<1>1. D \in Nat /\ D > 0
  BY PowerPositive
<1>2. z \in Nat /\ w \in 0 .. (D - 1) /\ b = D * z + w
  BY <1>1, Divided
<1>3. Jam(b, d) = z + (IF w > 0 /\ z % 2 = 0 THEN 1 ELSE 0)
  BY DEF Jam
<1> HIDE DEF D, z, w
<1>4. (2 * a) * D = D * (2 * a) /\ D * (2 * a) \in Int /\ D * z \in Int
  BY <1>1, <1>2
<1>5. CASE t = 1
  <2>1. n = D * (2 * a + z) + w /\ 2 * a + z \in Int
    <3>1. D * (2 * a + z) = D * (2 * a) + D * z
      BY <1>1, <1>2
    <3>2. QED BY <1>2, <1>4, <1>5, <3>1 DEF D
  <2>2. n \div D = 2 * a + z /\ n % D = w
    <3>1. 0 <= w /\ w < D /\ w \in Int
      BY <1>1, <1>2
    <3>2. QED BY <1>1, <2>1, <3>1, DivisionOf
  <2>3. Jam(n, d) = (2 * a + z) + (IF w > 0 /\ (2 * a + z) % 2 = 0 THEN 1 ELSE 0)
    BY <2>2 DEF Jam, D
  <2>4. (2 * a + z) % 2 = z % 2
    BY <1>2
  <2>5. QED BY <1>2, <1>3, <1>5, <2>3, <2>4
<1>6. CASE t = -1 /\ w = 0
  <2> DEFINE u == 2 * a - z
  <2>1. n = D * u + w /\ u \in Int /\ w \in Int /\ 0 <= w /\ w < D
    <3>1. D * u = D * (2 * a) - D * z
      BY <1>1, <1>2
    <3>2. QED BY <1>1, <1>2, <1>4, <1>6, <3>1 DEF D
  <2> HIDE DEF u
  <2>2. n \div D = u /\ n % D = w
    BY <1>1, <2>1, DivisionOf
  <2>3. Jam(n, d) = u
    BY <1>6, <2>1, <2>2 DEF Jam, D
  <2>4. QED BY <1>2, <1>3, <1>6, <2>3 DEF u
<1>7. CASE t = -1 /\ w > 0
  <2> DEFINE u == 2 * a - z - 1
             v == D - w
  <2>1. n = D * u + v /\ u \in Int /\ v \in Int /\ 0 < v /\ v < D
    <3>1. D * u = D * (2 * a) - D * z - D
      BY <1>1, <1>2
    <3>2. QED BY <1>1, <1>2, <1>4, <1>7, <3>1 DEF D
  <2> HIDE DEF u, v
  <2>2. n \div D = u /\ n % D = v
    BY <1>1, <2>1, DivisionOf
  <2>3. Jam(n, d) = u + (IF v > 0 /\ u % 2 = 0 THEN 1 ELSE 0)
    BY <2>2 DEF Jam, D
  <2>4. u % 2 = 0 <=> ~ (z % 2 = 0)
    BY <1>2, <2>1 DEF u
  <2>5. Jam(n, d) = 2 * a - z - 1 + (IF z % 2 = 0 THEN 0 ELSE 1)
    BY <2>1, <2>3, <2>4 DEF u
  <2>6. QED BY <1>2, <1>3, <1>7, <2>5
<1>8. QED BY <1>2, <1>5, <1>6, <1>7

\* Jammed and exact sum of r1 and r2 moved down by d places.
JammedTotal(r1, r2, d, t) == 8 * r1 + t * Jam(8 * r2, d)
ExactTotal(r1, r2, d, t)  == r1 * 2^d + t * r2

\* A sum is zero, or negative, when the other is, and rounds to the same place.
SameTotal(mb, bias, n, j, d) ==
  /\ n = 0 <=> j = 0
  /\ n < 0 <=> j < 0
  /\ n # 0 => \A k \in Int : Ordinal(mb, bias, Mag(Absolute(j), k - 3))
                              = Ordinal(mb, bias, Mag(Absolute(n), k - d))

\* Three extra bits and a sticky bit are enough: jammed, a sum rounds as it would exactly.
LEMMA JammedSum ==
  ASSUME NEW mb \in Nat, mb >= 1, NEW bias \in Nat, NEW r1 \in Nat, NEW r2 \in Nat,
         r2 < 2^(mb + 1), NEW d \in Nat, d >= 4 => r1 >= 2^mb, NEW t \in {-1, 1}
  PROVE  SameTotal(mb, bias, ExactTotal(r1, r2, d, t), JammedTotal(r1, r2, d, t), d)
<1> DEFINE D == 2^d
           n == ExactTotal(r1, r2, d, t)
           j == JammedTotal(r1, r2, d, t)
<1>1. D \in Nat /\ D > 0 /\ 2^mb \in Nat /\ 2^mb > 0 /\ 2^3 = 8
  BY PowerPositive, PowersOf
<1>2. n = r1 * D + t * r2 /\ j = 8 * r1 + t * Jam(8 * r2, d) /\ n \in Int
  BY <1>1 DEF ExactTotal, JammedTotal
<1>3. Jam(8 * r2, d) \in Nat
  <2>1. \A b \in Nat : b \div D \in Int /\ b \div D >= 0
    BY <1>1, Divided
  <2>2. 8 * r2 \in Nat
    OBVIOUS
  <2>3. QED BY <2>1, <2>2 DEF Jam, D
<1> HIDE DEF n, j
<1>4. j \in Int
  BY <1>2, <1>3
<1>5. CASE d <= 3
  <2> DEFINE c == 3 - d
             C == 2^c
  <2>1. c \in Nat /\ C \in Nat /\ C > 0 /\ c + d = 3
    BY <1>5, PowerPositive
  <2>2. C * D = 8
    <3>1. 2^(c + d) = C * D
      BY <2>1, PowerSum DEF D
    <3>2. 2^3 = 8
      OBVIOUS
    <3>3. QED BY <2>1, <3>1, <3>2
  <2>3. Jam(8 * r2, d) = r2 * C
    <3>1. 8 * r2 = (r2 * C) * D /\ r2 * C \in Nat
      BY <1>1, <2>1, <2>2
    <3>2. Jam((r2 * C) * 2^d, d) = r2 * C
      BY <3>1, JamExact
    <3>3. QED BY <3>1, <3>2 DEF D
  <2> HIDE DEF c, C, D
  <2>4. j = n * C
    <3>1. 8 * r1 = (r1 * D) * C
      BY <1>1, <2>1, <2>2
    <3>2. t * (r2 * C) = (t * r2) * C
      BY <2>1
    <3>3. QED BY <1>1, <1>2, <2>1, <2>3, <3>1, <3>2
  <2>5. (n = 0 <=> j = 0) /\ (n < 0 <=> j < 0) /\ Absolute(j) = Absolute(n) * C
        /\ Absolute(n) \in Nat /\ (n # 0 => Absolute(n) > 0)
    BY <1>2, <2>1, <2>4 DEF Absolute
  <2>6. ASSUME n # 0, NEW k \in Int
        PROVE  Ordinal(mb, bias, Mag(Absolute(j), k - 3)) = Ordinal(mb, bias, Mag(Absolute(n), k - d))
    <3> DEFINE a == Absolute(n)
               g == k - d
    <3>1. a \in Nat /\ a > 0 /\ g \in Int /\ k - 3 = g - c
      BY <2>1, <2>5, <2>6
    <3> HIDE DEF a, g
    <3>2. Ordinal(mb, bias, Mag(a * 2^c, g - c)) = Ordinal(mb, bias, Mag(a, g))
      BY <2>1, <3>1, OrdinalScaled
    <3>3. QED BY <2>5, <3>1, <3>2 DEF a, g, C
  <2>7. QED BY <2>5, <2>6 DEF SameTotal, n, j
<1>6. CASE d >= 4
  <2> DEFINE n8 == 8 * n
             U == 2^(mb + 2)
  <2>1. 16 * r2 < 4 * 2^mb * 8 /\ D >= 16 /\ r1 >= 2^mb
    <3>1. 2^(mb + 1) = 2 * 2^mb
      BY PowersOf
    <3>2. 2^4 <= D /\ 2^4 = 16
      <4>1. 4 \in Nat /\ 4 >= 1 /\ 4 - 1 = 3
        OBVIOUS
      <4>2. 2^4 = 2 * 2^(4 - 1)
        BY <4>1, PowersOf
      <4>3. 2^4 <= 2^d
        BY <1>6, <4>1, PowerMonotone
      <4>4. QED BY <1>1, <4>1, <4>2, <4>3
    <3>3. QED BY <1>1, <1>6, <3>1, <3>2
  <2>2. r1 * D >= 2^mb * D /\ r2 < 2 * 2^mb /\ 2^mb * D >= 2^mb * 16
    BY <1>1, <2>1
  <2>3. n > 0
    BY <1>1, <1>2, <2>2
  <2>4. Jam(n8, d) = j
    <3> DEFINE a == 4 * r1
               b == 8 * r2
    <3>1. a \in Nat /\ b \in Nat /\ n8 \in Nat /\ n8 = (2 * a) * D + t * b /\ j = 2 * a + t * Jam(b, d)
      <4>1. (2 * a) * D = 8 * (r1 * D) /\ t * b = 8 * (t * r2)
        BY <1>1
      <4>2. QED BY <1>1, <1>2, <2>3, <4>1
    <3> HIDE DEF a, b, n8, D
    <3>2. n8 = (2 * a) * 2^d + t * b
      BY <3>1 DEF D
    <3>3. Jam(n8, d) = 2 * a + t * Jam(b, d)
      BY <3>1, <3>2, JamOfSum
    <3>4. QED BY <3>1, <3>3
  <2>5. U \in Nat /\ U = 4 * 2^mb
    <3>1. mb + 2 - 1 = mb + 1 /\ mb + 1 - 1 = mb
      OBVIOUS
    <3>2. QED BY <1>1, <3>1, PowersOf
  <2>6. Jam(8 * r2, d) <= 2^mb
    <3> DEFINE b == 8 * r2
               z == b \div D
    <3>1. z \in Int /\ z >= 0 /\ b - D * z >= 0 /\ b \in Nat
      BY <1>1, Divided
    <3>2. b < 16 * 2^mb
      BY <1>1, <2>2
    <3>3. z < 2^mb
      <4>1. ASSUME z >= 2^mb PROVE FALSE
        <5>1. D * z >= D * 2^mb /\ D * 2^mb >= 16 * 2^mb
          BY <1>1, <2>1, <3>1, <4>1
        <5>2. QED BY <1>1, <3>1, <3>2, <5>1
      <4>2. QED BY <1>1, <3>1, <4>1
    <3>4. Jam(b, d) <= z + 1
      BY <3>1 DEF Jam
    <3>5. QED BY <1>1, <1>3, <3>1, <3>3, <3>4
  <2>7. j >= U
    BY <1>1, <1>2, <1>3, <2>1, <2>5, <2>6
  <2>8. (n = 0 <=> j = 0) /\ (n < 0 <=> j < 0) /\ Absolute(j) = j /\ Absolute(n) = n /\ n \in Nat
    BY <1>1, <1>2, <1>4, <2>3, <2>5, <2>7 DEF Absolute
  <2>9. ASSUME NEW k \in Int
        PROVE  Ordinal(mb, bias, Mag(j, k - 3)) = Ordinal(mb, bias, Mag(n, k - d))
    <3> DEFINE g == k - 3
               h == k - d
    <3>1. g \in Int /\ h \in Int /\ g - d = h - 3 /\ n8 \in Nat /\ n8 = n * 2^3
      BY <1>1, <2>8
    <3>2. Jam(n8, d) >= 2^(mb + 2)
      BY <2>4, <2>7
    <3> HIDE DEF g, h, n8
    <3>3. Ordinal(mb, bias, Mag(Jam(n8, d), g)) = Ordinal(mb, bias, Mag(n8, g - d))
      BY <3>1, <3>2, JamOrdinal
    <3>4. Ordinal(mb, bias, Mag(n * 2^3, h - 3)) = Ordinal(mb, bias, Mag(n, h))
      <4>1. \A c \in Nat : Ordinal(mb, bias, Mag(n * 2^c, h - c)) = Ordinal(mb, bias, Mag(n, h))
        BY <2>3, <2>8, <3>1, OrdinalScaled
      <4>2. QED BY <4>1
    <3>5. QED BY <2>4, <3>1, <3>3, <3>4 DEF g, h
  <2>10. QED BY <2>8, <2>9 DEF SameTotal, n, j
<1>7. QED BY <1>5, <1>6

\* What rounds to the same place rounds to the same code.
LEMMA SameRounding ==
  ASSUME NEW f, NEW mb \in Nat, mb = f.mantissa_bits, NEW bias \in Nat, bias = f.exponent_bias,
         f.max_finite_code \in Nat, NEW sign,
         NEW a \in Nat, a > 0, NEW k \in Int, NEW b \in Nat, b > 0, NEW l \in Int,
         Ordinal(mb, bias, Mag(a, k)) = Ordinal(mb, bias, Mag(b, l))
  PROVE  RoundToNearestEven(f, sign, Mag(a, k)) = RoundToNearestEven(f, sign, Mag(b, l))
<1> DEFINE u == Nearest(f, Mag(a, k))
           v == Nearest(f, Mag(b, l))
           B == 2^mb
<1>1. B \in Nat /\ B > 0
  BY PowerPositive
<1>2. /\ Ordinal(mb, bias, Mag(a, k)) = u.exponent * B + u.mantissa
      /\ u.exponent \in Nat /\ u.mantissa \in 0 .. (B - 1)
  BY NearestIs
<1>3. /\ Ordinal(mb, bias, Mag(b, l)) = v.exponent * B + v.mantissa
      /\ v.exponent \in Nat /\ v.mantissa \in 0 .. (B - 1)
  BY NearestIs
<1>5. RoundToNearestEven(f, sign, Mag(a, k))
        = Finished(f, IF f.signs = {0} THEN 0 ELSE sign, u.exponent, u.mantissa)
  BY RoundedAs
<1>6. RoundToNearestEven(f, sign, Mag(b, l))
        = Finished(f, IF f.signs = {0} THEN 0 ELSE sign, v.exponent, v.mantissa)
  BY RoundedAs
<1> DEFINE ue == u.exponent
           um == u.mantissa
           ve == v.exponent
           vm == v.mantissa
<1>7. ue \in Nat /\ ve \in Nat /\ um \in 0 .. (B - 1) /\ vm \in 0 .. (B - 1)
      /\ B * ue + um = B * ve + vm
  <2>1. u.exponent * B + u.mantissa = v.exponent * B + v.mantissa
    BY <1>2, <1>3
  <2>2. ue \in Nat /\ ve \in Nat /\ um \in 0 .. (B - 1) /\ vm \in 0 .. (B - 1)
        /\ ue * B + um = ve * B + vm
    BY <1>2, <1>3, <2>1
  <2> HIDE DEF ue, um, ve, vm, B
  <2>3. B * ue = ue * B /\ B * ve = ve * B
    BY <1>1, <2>2
  <2>4. QED BY <2>2, <2>3
<1> HIDE DEF ue, um, ve, vm, B
<1>8. (B * ue + um) \div B = ue /\ (B * ue + um) % B = um
      /\ (B * ve + vm) \div B = ve /\ (B * ve + vm) % B = vm
  BY <1>1, <1>7, DivisionUnique
<1>9. ue = ve /\ um = vm
  BY <1>7, <1>8
<1>10. QED BY <1>5, <1>6, <1>9 DEF ue, um, ve, vm

\* The code that n * 2^k rounds to.
Rounding(f, n, k) == RoundToNearestEven(f, IF n < 0 THEN 1 ELSE 0, Mag(Absolute(n), k))

\* What is needed of a format to round to it.
Rounds(f, mb, bias) ==
  /\ mb \in Nat /\ mb = f.mantissa_bits /\ bias \in Nat /\ bias = f.exponent_bias
  /\ f.max_finite_code \in Nat

LEMMA AlikeOf ==
  ASSUME NEW f, NEW mb, NEW bias, Rounds(f, mb, bias), NEW n \in Int, NEW j \in Int, NEW k \in Int, NEW l \in Int,
         n = 0 <=> j = 0, n < 0 <=> j < 0,
         n # 0 => Ordinal(mb, bias, Mag(Absolute(j), l)) = Ordinal(mb, bias, Mag(Absolute(n), k))
  PROVE  Rounding(f, j, l) = Rounding(f, n, k)
<1>1. CASE n = 0
  <2>1. Absolute(n) = 0 /\ Absolute(j) = 0
    BY <1>1 DEF Absolute
  <2>2. QED BY <2>1 DEF Rounding, RoundToNearestEven, Mag
<1>2. CASE n # 0
  <2> DEFINE a == Absolute(n)
             b == Absolute(j)
             sign == IF n < 0 THEN 1 ELSE 0
  <2>1. a \in Nat /\ a > 0 /\ b \in Nat /\ b > 0
    BY <1>2 DEF Absolute
  <2>2. Ordinal(mb, bias, Mag(b, l)) = Ordinal(mb, bias, Mag(a, k))
    BY <1>2
  <2>3. sign = IF j < 0 THEN 1 ELSE 0
    OBVIOUS
  <2> HIDE DEF a, b, sign
  <2>4. RoundToNearestEven(f, sign, Mag(b, l)) = RoundToNearestEven(f, sign, Mag(a, k))
    BY <2>1, <2>2, SameRounding DEF Rounds
  <2>5. QED BY <2>3, <2>4 DEF Rounding, a, b, sign
<1>3. QED BY <1>1, <1>2

\* A number is rounded the same however it is scaled.
LEMMA AlikeScaled ==
  ASSUME NEW f, NEW mb, NEW bias, Rounds(f, mb, bias), NEW n \in Int, NEW k \in Int, NEW j \in Nat
  PROVE  Rounding(f, n * 2^j, k - j) = Rounding(f, n, k)
<1> DEFINE P == 2^j
           l == k - j
           a == Absolute(n)
<1>1. P \in Nat /\ P > 0 /\ l \in Int
  BY PowerPositive
<1> HIDE DEF P
<1>2. n * P \in Int /\ (n = 0 <=> n * P = 0) /\ (n < 0 <=> n * P < 0) /\ Absolute(n * P) = a * P
      /\ a \in Nat /\ (n # 0 => a > 0)
  BY <1>1 DEF Absolute
<1> HIDE DEF a
<1>3. n # 0 => Ordinal(mb, bias, Mag(a * 2^j, k - j)) = Ordinal(mb, bias, Mag(a, k))
  BY <1>2, OrdinalScaled DEF Rounds
<1> DEFINE u == n * P
<1>4. u \in Int /\ (n = 0 <=> u = 0) /\ (n < 0 <=> u < 0)
      /\ (n # 0 => Ordinal(mb, bias, Mag(Absolute(u), l)) = Ordinal(mb, bias, Mag(Absolute(n), k)))
  BY <1>2, <1>3 DEF P, a
<1> HIDE DEF u, l
<1>5. Rounding(f, u, l) = Rounding(f, n, k)
  BY <1>1, <1>4, AlikeOf
<1>6. QED BY <1>5 DEF u, l, P

\* The jammed and the exact sum of two numbers round to the same code.
SumsAlike(f, r1, r2, d, t1, t2, k) ==
  Rounding(f, t1 * (8 * r1) + t2 * Jam(8 * r2, d), k - 3)
    = Rounding(f, (t1 * r1) * 2^d + t2 * r2, k - d)

\* They do when the first one has the greater exponent.
LEMMA AlikeSum ==
  ASSUME NEW f, NEW mb, NEW bias, Rounds(f, mb, bias), mb >= 1,
         NEW r1 \in Nat, NEW r2 \in Nat, r2 < 2^(mb + 1), NEW d \in Nat, d >= 4 => r1 >= 2^mb,
         NEW t1 \in {-1, 1}, NEW t2 \in {-1, 1}, NEW k \in Int
  PROVE  SumsAlike(f, r1, r2, d, t1, t2, k)
<1> DEFINE t == t1 * t2
           n == ExactTotal(r1, r2, d, t)
           j == JammedTotal(r1, r2, d, t)
           D == 2^d
           y == Jam(8 * r2, d)
<1>1. t \in {-1, 1} /\ D \in Nat /\ y \in Nat /\ mb \in Nat /\ bias \in Nat
  <2>1. 8 * r2 \in Nat /\ 2 \in Nat /\ 2 >= 2
    OBVIOUS
  <2>2. \A b \in Nat : Jam(b, d) \in Nat
    BY <2>1, JamRounds
  <2>3. QED BY <2>1, <2>2, PowerPositive DEF Rounds
<1> HIDE DEF t
<1>2. SameTotal(mb, bias, n, j, d)
  BY <1>1, JammedSum
<1>3. n = r1 * D + t * r2 /\ j = 8 * r1 + t * y /\ n \in Int /\ j \in Int
  BY <1>1 DEF ExactTotal, JammedTotal
<1> HIDE DEF n, j, D, y
<1> DEFINE u == t1 * (8 * r1) + t2 * y
           v == (t1 * r1) * D + t2 * r2
<1>4. /\ u \in Int /\ v \in Int /\ (v = 0 <=> u = 0) /\ (v < 0 <=> u < 0)
      /\ Absolute(u) = Absolute(j) /\ Absolute(v) = Absolute(n) /\ (v = 0 <=> n = 0)
  <2>1. CASE t1 = 1
    <3>1. t = t2 /\ u = j /\ v = n
      BY <1>1, <1>3, <2>1 DEF t
    <3>2. QED BY <1>2, <1>3, <3>1 DEF SameTotal
  <2>2. CASE t1 = -1
    <3>1. t = -t2
      BY <2>2 DEF t
    <3>2. u = -j /\ v = -n
      <4>1. t2 = -t /\ t2 * y = -(t * y) /\ t2 * r2 = -(t * r2)
        BY <1>1, <3>1
      <4>2. (t1 * r1) * D = -(r1 * D)
        BY <1>1, <2>2
      <4>3. QED BY <1>1, <1>3, <2>2, <4>1, <4>2
    <3>3. QED BY <1>2, <1>3, <3>2 DEF SameTotal, Absolute
  <2>3. QED BY <2>1, <2>2
<1> HIDE DEF u, v
<1>5. v # 0 => Ordinal(mb, bias, Mag(Absolute(u), k - 3)) = Ordinal(mb, bias, Mag(Absolute(v), k - d))
  BY <1>2, <1>4 DEF SameTotal
<1> DEFINE g == k - 3
           h == k - d
<1>6. g \in Int /\ h \in Int
  OBVIOUS
<1> HIDE DEF g, h
<1>7. v # 0 => Ordinal(mb, bias, Mag(Absolute(u), g)) = Ordinal(mb, bias, Mag(Absolute(v), h))
  BY <1>5 DEF g, h
<1>8. Rounding(f, u, g) = Rounding(f, v, h)
  BY <1>4, <1>6, <1>7, AlikeOf
<1>9. QED BY <1>8 DEF SumsAlike, u, v, g, h, D, y

\* A term of a sum, as it is unpacked: its significand r, its exponent E, and F, the
\* exponent its code stands for.  A zero has the exponent 0.
Unpacked(mb, r, E, F) ==
  /\ r \in Nat /\ r < 2^(mb + 1) /\ E \in Nat /\ F \in Nat /\ F >= 1
  /\ E > 1 => r >= 2^mb
  /\ IF r = 0 THEN E = 0 ELSE F = E

\* The sum an adder computes.
ComputedSum(s1, r1, E1, s2, r2, E2) ==
  Factor(s1) * Jam(8 * r1, Larger(E1, E2) - E1) + Factor(s2) * Jam(8 * r2, Larger(E1, E2) - E2)

\* A sum that leaves both terms where they are.
LEMMA JamNothing ==
  \A r \in Nat : Jam(r, 0) = r
<1>1. ASSUME NEW r \in Nat PROVE Jam(r, 0) = r
  <2>1. 2^0 = 1 /\ r * 1 = r /\ 0 \in Nat
    BY PowersOf
  <2>2. Jam(r * 2^0, 0) = r
    BY <2>1, JamExact
  <2>3. QED BY <2>1, <2>2
<1>2. QED BY <1>1

LEMMA JamZero ==
  \A d \in Nat : Jam(0, d) = 0
<1>1. ASSUME NEW d \in Nat PROVE Jam(0, d) = 0
  <2>1. 0 * 2^d = 0 /\ 0 \in Nat
    BY PowerPositive
  <2>2. Jam(0 * 2^d, d) = 0
    BY <2>1, JamExact
  <2>3. QED BY <2>1, <2>2
<1>2. QED BY <1>1

\* Plus, in integers.
LEMMA PlusIs ==
  ASSUME NEW s1 \in {0, 1}, NEW r1 \in Nat, NEW k1 \in Int, NEW s2 \in {0, 1}, NEW r2 \in Nat, NEW k2 \in Int, NEW f
  PROVE  Encoded(f, Plus([s |-> s1, v |-> Mag(r1, k1)], [s |-> s2, v |-> Mag(r2, k2)]))
           = Rounding(f, (Factor(s1) * r1) * 2^(k1 - Smaller(k1, k2))
                           + (Factor(s2) * r2) * 2^(k2 - Smaller(k1, k2)), Smaller(k1, k2))
<1> DEFINE low == Smaller(k1, k2)
           a == [s |-> s1, v |-> Mag(r1, k1)]
           b == [s |-> s2, v |-> Mag(r2, k2)]
           n == (Factor(s1) * r1) * 2^(k1 - low) + (Factor(s2) * r2) * 2^(k2 - low)
<1>1. a.s = s1 /\ a.v.m = r1 /\ a.v.e = k1 /\ b.s = s2 /\ b.v.m = r2 /\ b.v.e = k2
  BY DEF Mag
<1>2. (IF s1 = 1 THEN -r1 ELSE r1) = Factor(s1) * r1 /\ (IF s2 = 1 THEN -r2 ELSE r2) = Factor(s2) * r2
  BY DEF Factor
<1> HIDE DEF a, b, low
<1>3. InUnits(a, low) = (Factor(s1) * r1) * 2^(k1 - low) /\ InUnits(b, low) = (Factor(s2) * r2) * 2^(k2 - low)
  BY <1>1, <1>2 DEF InUnits
<1>4. Plus(a, b) = OfUnits(n, low)
  BY <1>1, <1>3 DEF Plus, low
<1> HIDE DEF n
<1>5. Encoded(f, OfUnits(n, low)) = Rounding(f, n, low)
  BY DEF Encoded, OfUnits, Rounding, Absolute
<1>6. QED BY <1>4, <1>5 DEF a, b, n, low

\* The number a term stands for.
TermNumber(sign, r, F, c) == [s |-> sign, v |-> Mag(r, F + c)]

\* The sum of two numbers, the first one with an exponent at least as great.
LEMMA OrderedSum ==
  ASSUME NEW f, NEW mb, NEW bias, Rounds(f, mb, bias), mb >= 1, NEW c \in Int,
         NEW s1 \in {0, 1}, NEW r1, NEW E1, NEW F1, Unpacked(mb, r1, E1, F1),
         NEW s2 \in {0, 1}, NEW r2, NEW E2, NEW F2, Unpacked(mb, r2, E2, F2),
         E1 >= E2, NEW low, low = Smaller(F1, F2)
  PROVE  Rounding(f, Factor(s1) * Jam(8 * r1, E1 - E1) + Factor(s2) * Jam(8 * r2, E1 - E2), E1 + c - 3)
           = Rounding(f, (Factor(s1) * r1) * 2^(F1 - low) + (Factor(s2) * r2) * 2^(F2 - low), low + c)
<1> DEFINE t1 == Factor(s1)
           t2 == Factor(s2)
           d  == E1 - E2
           k  == E1 + c
           y  == Jam(8 * r2, d)
           n  == (t1 * r1) * 2^(F1 - low) + (t2 * r2) * 2^(F2 - low)
           u  == t1 * (8 * r1) + t2 * y
<1>1. /\ t1 \in {-1, 1} /\ t2 \in {-1, 1} /\ d \in Nat /\ k \in Int /\ mb \in Nat
      /\ r1 \in Nat /\ r2 \in Nat /\ E1 \in Nat /\ E2 \in Nat /\ F1 \in Nat /\ F2 \in Nat
  BY DEF Factor, Unpacked, Rounds
<1>2. Jam(8 * r1, E1 - E1) = 8 * r1
  <2>1. 8 * r1 \in Nat /\ E1 - E1 = 0
    BY <1>1
  <2>2. QED BY <2>1, JamNothing
<1>p. k - 3 = E1 + c - 3
  BY <1>1
<1> HIDE DEF t1, t2
<1>3. CASE r1 > 0 /\ r2 > 0
  <2>1. F1 = E1 /\ F2 = E2 /\ low = E2 /\ (d >= 4 => r1 >= 2^mb) /\ r2 < 2^(mb + 1)
    BY <1>1, <1>3 DEF Unpacked, Smaller
  <2>2. Rounding(f, u, k - 3) = Rounding(f, (t1 * r1) * 2^d + t2 * r2, k - d)
    <3>1. d \in Nat /\ k \in Int /\ r1 \in Nat /\ r2 \in Nat
      BY <1>1
    <3>2. t1 \in {-1, 1} /\ t2 \in {-1, 1}
      BY <1>1
    <3>3. r2 < 2^(mb + 1) /\ (d >= 4 => r1 >= 2^mb)
      BY <2>1
    <3> HIDE DEF d, k
    <3>4. SumsAlike(f, r1, r2, d, t1, t2, k)
      BY <3>1, <3>2, <3>3, AlikeSum
    <3>5. QED BY <3>4 DEF SumsAlike
  <2>3. F1 - low = d /\ F2 - low = 0 /\ low + c = k - d /\ 2^0 = 1 /\ (t2 * r2) * 1 = t2 * r2
    BY <1>1, <2>1, PowersOf
  <2>4. n = (t1 * r1) * 2^d + t2 * r2
    BY <2>3
  <2>5. QED BY <1>2, <1>p, <2>2, <2>3, <2>4 DEF t1, t2
<1>4. CASE r1 = 0
  <2>1. E1 = 0 /\ E2 = 0
    BY <1>1, <1>4 DEF Unpacked
  <2>2. d = 0 /\ y = 8 * r2 /\ u = t2 * (8 * r2)
    <3>1. 8 * r2 \in Nat /\ d = 0
      BY <1>1, <2>1
    <3>2. y = 8 * r2
      BY <3>1, JamNothing
    <3>3. QED BY <1>1, <1>4, <3>1, <3>2
  <2>3. r2 = 0
    BY <2>1 DEF Unpacked
  <2>4. u = 0 /\ n = 0
    <3>1. 2^(F1 - low) \in Nat /\ 2^(F2 - low) \in Nat
      <4>1. F1 - low \in Nat /\ F2 - low \in Nat
        BY <1>1 DEF Smaller
      <4>2. QED BY <4>1, PowerPositive
    <3>2. QED BY <1>1, <1>4, <2>2, <2>3, <3>1
  <2>5. \A i, j : Rounding(f, 0, i) = Rounding(f, 0, j)
    BY DEF Rounding, RoundToNearestEven, Mag, Absolute
  <2>6. QED BY <1>2, <2>4, <2>5 DEF t1, t2
<1>5. CASE r1 > 0 /\ r2 = 0
  <2>1. F1 = E1 /\ E2 = 0 /\ F1 - low \in Nat /\ F2 - low \in Nat /\ low \in Nat
    BY <1>1, <1>5 DEF Unpacked, Smaller
  <2>2. y = 0
    BY <1>1, <1>5, JamZero
  <2> DEFINE a == t1 * r1
             i == F1 - low
             g == E1 + c
  <2>3. a \in Int /\ i \in Nat /\ g \in Int /\ u = a * 8 /\ n = a * 2^i
    <3>1. 2^(F2 - low) \in Nat /\ 2^(F1 - low) \in Nat
      BY <2>1, PowerPositive
    <3>2. (t2 * r2) * 2^(F2 - low) = 0 /\ t2 * y = 0
      BY <1>1, <1>5, <2>2, <3>1
    <3>3. QED BY <1>1, <1>5, <2>1, <2>2, <3>1, <3>2
  <2>4. g - i = low + c
    BY <1>1, <2>1
  <2> HIDE DEF a, i, g, u, n
  <2>5. Rounding(f, a * 2^i, g - i) = Rounding(f, a, g)
    BY <2>3, AlikeScaled
  <2>6. \A j \in Nat : Rounding(f, a * 2^j, g - j) = Rounding(f, a, g)
    BY <2>3, AlikeScaled
  <2>7. Rounding(f, a * 8, g - 3) = Rounding(f, a, g)
    <3>1. Rounding(f, a * 2^3, g - 3) = Rounding(f, a, g)
      BY <2>6
    <3>2. 2^3 = 8
      BY PowersOf
    <3>3. QED BY <3>1, <3>2
  <2>8. Rounding(f, u, g - 3) = Rounding(f, n, low + c)
    BY <2>3, <2>4, <2>5, <2>7
  <2>9. g - 3 = E1 + c - 3
    BY <1>1 DEF g
  <2>10. QED BY <1>2, <2>8, <2>9 DEF u, n, g, t1, t2
<1>6. QED BY <1>1, <1>3, <1>4, <1>5

\* What an adder computes rounds to the code of the exact sum.
LEMMA RoundedSum ==
  ASSUME NEW f, NEW mb, NEW bias, Rounds(f, mb, bias), mb >= 1, NEW c \in Int,
         NEW s1 \in {0, 1}, NEW r1, NEW E1, NEW F1, Unpacked(mb, r1, E1, F1),
         NEW s2 \in {0, 1}, NEW r2, NEW E2, NEW F2, Unpacked(mb, r2, E2, F2)
  PROVE  Rounding(f, ComputedSum(s1, r1, E1, s2, r2, E2), Larger(E1, E2) + c - 3)
           = Encoded(f, Plus(TermNumber(s1, r1, F1, c), TermNumber(s2, r2, F2, c)))
<1> DEFINE low == Smaller(F1, F2)
           k1  == F1 + c
           k2  == F2 + c
           n1  == (Factor(s1) * r1) * 2^(F1 - low)
           n2  == (Factor(s2) * r2) * 2^(F2 - low)
<1>1. /\ r1 \in Nat /\ r2 \in Nat /\ E1 \in Nat /\ E2 \in Nat /\ F1 \in Nat /\ F2 \in Nat
      /\ Factor(s1) \in {-1, 1} /\ Factor(s2) \in {-1, 1}
  BY DEF Unpacked, Factor
<1>2. /\ k1 \in Int /\ k2 \in Int /\ Smaller(k1, k2) = low + c /\ k1 - (low + c) = F1 - low
      /\ k2 - (low + c) = F2 - low /\ low = Smaller(F2, F1)
      /\ F1 - low \in Nat /\ F2 - low \in Nat /\ low \in Nat
  BY <1>1 DEF Smaller
<1>3. n1 \in Int /\ n2 \in Int
  <2>1. 2^(F1 - low) \in Nat /\ 2^(F2 - low) \in Nat
    BY <1>2, PowerPositive
  <2>2. QED BY <1>1, <2>1
<1> HIDE DEF low, k1, k2
<1>4. Encoded(f, Plus(TermNumber(s1, r1, F1, c), TermNumber(s2, r2, F2, c))) = Rounding(f, n1 + n2, low + c)
  <2>1. Encoded(f, Plus([s |-> s1, v |-> Mag(r1, k1)], [s |-> s2, v |-> Mag(r2, k2)]))
           = Rounding(f, (Factor(s1) * r1) * 2^(k1 - Smaller(k1, k2))
                           + (Factor(s2) * r2) * 2^(k2 - Smaller(k1, k2)), Smaller(k1, k2))
    <3>1. r1 \in Nat /\ r2 \in Nat /\ k1 \in Int /\ k2 \in Int
      BY <1>1, <1>2
    <3>2. QED BY ONLY <3>1, PlusIs, s1 \in {0, 1}, s2 \in {0, 1}
  <2>2. QED BY <1>2, <2>1 DEF TermNumber, k1, k2
<1> DEFINE j1 == Factor(s1) * Jam(8 * r1, Larger(E1, E2) - E1)
           j2 == Factor(s2) * Jam(8 * r2, Larger(E1, E2) - E2)
<1>5. j1 \in Int /\ j2 \in Int
  <2>1. /\ Larger(E1, E2) - E1 \in Nat /\ Larger(E1, E2) - E2 \in Nat
        /\ 8 * r1 \in Nat /\ 8 * r2 \in Nat /\ 2 \in Nat /\ 2 >= 2
    BY <1>1 DEF Larger
  <2>2. \A b, d \in Nat : Jam(b, d) \in Nat
    BY <2>1, JamRounds
  <2>3. Jam(8 * r1, Larger(E1, E2) - E1) \in Nat /\ Jam(8 * r2, Larger(E1, E2) - E2) \in Nat
    BY <2>1, <2>2
  <2>4. QED BY <1>1, <2>3
<1>6. CASE E1 >= E2
  <2>1. Larger(E1, E2) = E1
    BY <1>1, <1>6 DEF Larger
  <2>2. Rounding(f, j1 + j2, E1 + c - 3) = Rounding(f, n1 + n2, low + c)
    BY <1>6, <2>1, OrderedSum DEF low
  <2>3. QED BY <1>4, <2>1, <2>2 DEF ComputedSum
<1>7. CASE E2 >= E1
  <2>1. Larger(E1, E2) = E2
    BY <1>1, <1>7 DEF Larger
  <2>2. Rounding(f, j2 + j1, E2 + c - 3) = Rounding(f, n2 + n1, low + c)
    BY <1>2, <1>7, <2>1, OrderedSum DEF low
  <2>3. j2 + j1 = j1 + j2 /\ n2 + n1 = n1 + n2
    BY <1>3, <1>5
  <2>4. QED BY <1>4, <2>1, <2>2, <2>3 DEF ComputedSum
<1>8. QED BY <1>1, <1>6, <1>7

-----------------------------------------------------------------------------
(* What the nodes of an operand hold.                                      *)

\* What the operand nodes of a design are, whatever the code.
OperandNodes(f, d) ==
  /\ Typed(effective_significand(d), 1, f.mantissa_bits)
  /\ IsNode(effective_exponent(d)) /\ effective_exponent(d).frac = 0
  /\ d.sign \in {0, 1}

LEMMA OperandTyped ==
  ASSUME NEW name \in DOMAIN FormatOf, NEW c \in Codes(FormatOf[name])
  PROVE  OperandNodes(FormatOf[name], DecodeOf(name, c))
<1> DEFINE f  == FormatOf[name]
           k  == DecodeOf(name, c)
           mb == f.mantissa_bits
           fraction == uq_integer_to_fraction(k.mantissa)
<1>1. k.exponent = Fields(f, c).exponent /\ k.mantissa = Fields(f, c).mantissa /\ k.sign = c.sign
  BY DecodedFields
<1>2. FormatTyped(f) /\ mb \in Nat /\ f.exponent_bits \in Nat /\ f.signs \in {{0}, {0, 1}} /\ c \in Codes(f)
  <2>1. FormatTyped(f)
    BY FormatFields
  <2>2. QED BY <2>1 DEF FormatTyped
<1> HIDE DEF f, k
<1>3. /\ IsNode(k.exponent) /\ k.exponent.frac = 0 /\ k.exponent.int \in Nat
      /\ IsNode(k.mantissa) /\ k.mantissa.int = mb /\ k.sign \in {0, 1}
  BY <1>1, <1>2, FieldsOfCode
<1>4. Typed(fraction, 0, mb)
  BY <1>2, <1>3, BasicTyped DEF uq_integer_to_fraction
<1>5. Typed(effective_significand(k), 1, mb)
  <2>1. CASE k.is_norm
    <3>1. effective_significand(k) = Node(<<1, fraction.frac>>, 2^fraction.frac + fraction.raw)
      BY <2>1 DEF effective_significand, add_implicit_bit
    <3> DEFINE v == 2^fraction.frac + fraction.raw
    <3>2. fraction.frac = mb /\ v \in Int
      BY <1>4, NodeFields, PowerPositive DEF Typed
    <3> HIDE DEF v, fraction
    <3>3. Typed(Node(<<1, mb>>, v), 1, mb)
      BY <1>2, <3>2, NodeTyped
    <3>4. QED BY <3>1, <3>2, <3>3 DEF v
  <2>2. CASE ~ k.is_norm
    <3>1. effective_significand(k) = uq_resize(fraction, 1, mb)
      BY <1>3, <2>2 DEF effective_significand
    <3>2. IsNode(fraction)
      BY <1>4 DEF Typed
    <3> HIDE DEF fraction
    <3>3. QED BY <1>2, <3>1, <3>2, FixedTyped
  <2>3. QED BY <2>1, <2>2
<1>6. IsNode(effective_exponent(k)) /\ effective_exponent(k).frac = 0
  <2>1. Typed(Node(<<k.exponent.int, 0>>, 1), k.exponent.int, 0)
    BY <1>3, NodeTyped
  <2>2. Node(dtype(k.exponent), 1) = Node(<<k.exponent.int, 0>>, 1)
    BY <1>3 DEF dtype
  <2>3. QED BY <1>3, <2>1, <2>2 DEF effective_exponent, Typed
<1>7. QED BY <1>3, <1>5, <1>6 DEF OperandNodes, f, k

\* What they hold for a number or a zero.
OperandOf(f, c, d) ==
  /\ effective_significand(d).raw = Significand(f, c)
  /\ effective_exponent(d).raw \in Nat
  /\ Unpacked(f.mantissa_bits, Significand(f, c), effective_exponent(d).raw, ExponentOf(c))
  /\ effective_exponent(d).raw <= 2^f.exponent_bits - 1
  /\ d.sign = c.sign /\ (d.is_zero <=> Significand(f, c) = 0)

LEMMA OperandHolds ==
  ASSUME NEW name \in DOMAIN FormatOf, NEW c \in Codes(FormatOf[name]),
         ~ is_nan(FormatOf[name], c), ~ is_inf(FormatOf[name], c)
  PROVE  OperandOf(FormatOf[name], c, DecodeOf(name, c))
<1> DEFINE f  == FormatOf[name]
           k  == DecodeOf(name, c)
           mb == f.mantissa_bits
           r  == Significand(f, c)
<1>1. ClassesAsTyped(f, c, k) /\ k.exponent = Fields(f, c).exponent /\ k.mantissa = Fields(f, c).mantissa
      /\ k.sign = c.sign
  BY DecodedFields
<1>2. FormatTyped(f) /\ mb \in Nat \ {0} /\ f.exponent_bits \in Nat \ {0}
      /\ r \in Nat /\ r < 2^(mb + 1) /\ ExponentOf(c) \in Nat
  BY FormatFields, MagnitudeOf
<1>3. c \in Codes(f) /\ ~ is_nan(f, c) /\ ~ is_inf(f, c)
  OBVIOUS
<1>4. ~ IsSpecial(f, c) => /\ effective_significand(k).raw = r
                           /\ effective_exponent(k).raw = ExponentOf(c)
  BY Effective
<1>5. ~ IsSpecial(f, c) <=> ~ is_zero(f, c)
  BY <1>3 DEF IsSpecial
<1> HIDE DEF f, k
<1>6. /\ IsNode(k.exponent) /\ k.exponent.raw = c.exponent
      /\ k.exponent.int = f.exponent_bits /\ k.exponent.frac = 0
      /\ IsNode(k.mantissa) /\ k.mantissa.raw = c.mantissa
      /\ k.mantissa.int = mb /\ k.mantissa.frac = 0
      /\ c.mantissa \in 0 .. (2^mb - 1) /\ c.exponent \in 0 .. (2^f.exponent_bits - 1)
  BY <1>1, <1>2, <1>3, FieldsOfCode
<1>7. 2^mb \in Nat /\ 2^mb > 0 /\ 2^f.exponent_bits \in Nat /\ 2^f.exponent_bits > 1
      /\ c.mantissa \in Nat /\ c.exponent \in Nat /\ c.exponent <= 2^f.exponent_bits - 1
  <2>1. 2^mb \in Nat /\ 2^mb > 0 /\ 2^f.exponent_bits \in Nat /\ f.exponent_bits < 2^f.exponent_bits
    BY <1>2, PowerPositive, LessThanPower
  <2> DEFINE M == 2^mb
             N == 2^f.exponent_bits
  <2>2. M \in Nat /\ N \in Nat /\ c.mantissa \in 0 .. (M - 1) /\ c.exponent \in 0 .. (N - 1) /\ f.exponent_bits < N
    BY <1>6, <2>1
  <2> HIDE DEF M, N
  <2>3. c.mantissa \in Nat /\ c.exponent \in Nat /\ c.exponent <= N - 1 /\ N > 1
    BY <1>2, <2>2
  <2>4. QED BY <2>1, <2>3 DEF M, N
<1>8. is_zero(f, c) <=> r = 0
  <2> DEFINE M == 2^mb
  <2>1. M \in Nat /\ M > 0 /\ r = IF c.exponent = 0 THEN c.mantissa ELSE M + c.mantissa
    BY <1>7 DEF Significand
  <2> HIDE DEF M, r
  <2>2. QED BY <1>3, <1>7, <2>1 DEF is_zero
<1>9. k.is_zero <=> r = 0
  BY <1>1, <1>8 DEF ClassesAsTyped
<1>10. CASE r = 0
  <2>1. c.exponent = 0 /\ c.mantissa = 0
    BY <1>8, <1>10 DEF is_zero
  <2>2. ~ k.is_norm /\ ~ k.is_sub
    BY <1>1, <1>8, <1>10 DEF ClassesAsTyped, is_norm, is_sub
  <2>3. effective_exponent(k).raw = 0 /\ ExponentOf(c) = 1
    BY <1>6, <2>1, <2>2 DEF effective_exponent, ExponentOf
  <2> DEFINE fraction == uq_integer_to_fraction(k.mantissa)
  <2>4. IsNode(fraction) /\ fraction.raw = 0
    <3>1. 2^(0 + mb) \in Nat /\ 2^(0 + mb) > 0
      BY <1>2, PowerPositive
    <3>2. fraction = Node(<<0, mb>>, 0)
      BY <1>6, <2>1 DEF uq_integer_to_fraction, basic_identity
    <3>3. 0 \in Nat /\ 0 < 2^(0 + mb) /\ mb \in Nat
      BY <1>2, <3>1
    <3>4. Typed(Node(<<0, mb>>, 0), 0, mb) /\ Node(<<0, mb>>, 0).raw = 0
      BY <3>3, MaskedFits
    <3>5. QED BY <3>2, <3>4 DEF Typed
  <2>5. effective_significand(k) = uq_resize(fraction, 1, mb)
    BY <1>6, <2>2 DEF effective_significand
  <2> HIDE DEF fraction
  <2>6. effective_significand(k).raw = r
    BY <1>2, <1>10, <2>4, <2>5, ResizeZero
  <2>7. Unpacked(mb, r, 0, 1)
    BY <1>2, <1>10 DEF Unpacked
  <2> HIDE DEF r, mb
  <2>8. QED BY <1>1, <1>7, <1>9, <2>3, <2>6, <2>7 DEF OperandOf, f, k, r, mb
<1>11. CASE r # 0
  <2> DEFINE q == ExponentOf(c)
  <2>1. effective_significand(k).raw = r /\ effective_exponent(k).raw = q
    BY <1>4, <1>5, <1>8, <1>11
  <2>2. q \in Nat /\ q >= 1 /\ q <= 2^f.exponent_bits - 1
    BY <1>7 DEF ExponentOf
  <2>3. q > 1 => r >= 2^mb
    BY <1>7 DEF ExponentOf, Significand
  <2> HIDE DEF q
  <2>4. Unpacked(mb, r, q, q)
    BY <1>2, <1>11, <2>2, <2>3 DEF Unpacked
  <2> HIDE DEF r, mb
  <2>5. QED BY <1>1, <1>9, <1>11, <2>1, <2>2, <2>4 DEF OperandOf, f, k, r, mb, q
<1>12. QED BY <1>10, <1>11

-----------------------------------------------------------------------------
(* The bits of a node, read as an integer, and exact operations on them.   *)

\* The same bits, read as an integer.
Integral(x0) == [int |-> x0.int + x0.frac, frac |-> 0, raw |-> x0.raw]

LEMMA IntegralNode ==
  ASSUME NEW i \in Nat, NEW f \in Nat, NEW v \in Int
  PROVE  Integral(Node(<<i, f>>, v)) = Node(<<i + f, 0>>, v)
<1>1. (i + f) + 0 = i + f
  OBVIOUS
<1>2. QED BY <1>1 DEF Integral, Node

LEMMA IntegralFields ==
  ASSUME NEW x0, IsNode(x0)
  PROVE  /\ IsNode(Integral(x0)) /\ Integral(x0).frac = 0 /\ Integral(x0).int = total_bits(x0)
         /\ Integral(x0).raw = x0.raw /\ total_bits(Integral(x0)) = total_bits(x0)
<1>1. /\ x0.int \in Nat /\ x0.frac \in Nat /\ x0.raw \in Nat /\ total_bits(x0) = x0.int + x0.frac
      /\ x0.raw < 2^total_bits(x0)
  BY NodeFields
<1>2. (x0.int + x0.frac) + 0 = x0.int + x0.frac /\ x0.int + x0.frac \in Nat
  BY <1>1
<1>3. total_bits(Integral(x0)) = total_bits(x0)
  BY <1>1, <1>2 DEF Integral, total_bits
<1>4. Integral(x0) \in [int: Nat, frac: Nat, raw: Nat]
  BY <1>1, <1>2 DEF Integral
<1>5. QED BY <1>1, <1>3, <1>4 DEF Integral, IsNode

\* The operations that look at the bits only.
LEMMA IntegralSign ==
  ASSUME NEW x0, IsNode(x0)
  PROVE  /\ q_sign_bit(x0) = q_sign_bit(Integral(x0))
         /\ Integral(q_neg(x0)) = q_neg(Integral(x0))
         /\ \A b : Integral(q_add_sign(x0, b)) = q_add_sign(Integral(x0), b)
         /\ Integral(q_abs(x0)) = q_abs(Integral(x0))
<1> DEFINE n == Integral(x0)
           i == x0.int
           f == x0.frac
           w == i + f
<1>1. /\ i \in Nat /\ f \in Nat /\ x0.raw \in Nat /\ total_bits(x0) = w /\ w \in Nat /\ w + 0 = w
      /\ 2^w \in Nat
  BY NodeFields
<1>2. n.int = w /\ n.frac = 0 /\ n.raw = x0.raw /\ total_bits(n) = w
  BY <1>1, IntegralFields
<1> HIDE DEF n
<1>3. q_sign_bit(x0) = q_sign_bit(n)
  BY <1>1, <1>2 DEF q_sign_bit, basic_select
<1>4. basic_invert(x0, <<i, f>>).raw = basic_invert(n, <<w, 0>>).raw
      /\ basic_invert(x0, <<i, f>>).raw \in Int
  <2>1. /\ basic_invert(x0, <<i, f>>) = Node(<<i, f>>, (2^w - 1) - x0.raw)
        /\ basic_invert(n, <<w, 0>>) = Node(<<w, 0>>, (2^w - 1) - x0.raw)
    BY <1>1, <1>2 DEF basic_invert
  <2> DEFINE v == (2^w - 1) - x0.raw
  <2>2. v \in Int
    BY <1>1
  <2> HIDE DEF v
  <2>3. Integral(Node(<<i, f>>, v)) = Node(<<w, 0>>, v) /\ Typed(Node(<<i, f>>, v), i, f)
    BY <1>1, <2>2, IntegralNode, NodeTyped
  <2>4. Integral(Node(<<i, f>>, v)).raw = Node(<<i, f>>, v).raw /\ Node(<<i, f>>, v).raw \in Nat
    BY <2>3, NodeFields DEF Integral, Typed
  <2>5. QED BY <2>1, <2>3, <2>4 DEF v
<1>5. Integral(q_neg(x0)) = q_neg(n)
  <2> DEFINE v == IF x0.raw = 2^(w - 1) THEN 2^w - 1
                  ELSE basic_invert(x0, <<i, f>>).raw + UQ_from_int(1).raw
  <2>1. q_neg(x0) = Node(<<i, f>>, v) /\ q_neg(n) = Node(<<w, 0>>, v)
    BY <1>1, <1>2, <1>4 DEF q_neg, basic_add, dtype
  <2>2. v \in Int
    BY <1>1, <1>4, ConstantRaw
  <2> HIDE DEF v
  <2>3. Integral(Node(<<i, f>>, v)) = Node(<<w, 0>>, v)
    BY <1>1, <2>2, IntegralNode
  <2>4. QED BY <2>1, <2>3
<1>6. ASSUME NEW b PROVE Integral(q_add_sign(x0, b)) = q_add_sign(n, b)
  <2> DEFINE v == IF b.raw = 1 THEN q_neg(x0).raw ELSE x0.raw
  <2>1. q_neg(n).raw = q_neg(x0).raw
    BY <1>5 DEF Integral
  <2>2. q_neg(x0).raw \in Int
    <3> DEFINE u == IF x0.raw = 2^(w - 1) THEN 2^w - 1
                    ELSE basic_invert(x0, <<i, f>>).raw + UQ_from_int(1).raw
    <3>1. q_neg(x0) = Node(<<i, f>>, u)
      BY <1>1 DEF q_neg, basic_add, dtype
    <3>2. u \in Int
      BY <1>1, <1>4, ConstantRaw
    <3> HIDE DEF u
    <3>3. Typed(Node(<<i, f>>, u), i, f)
      BY <1>1, <3>2, NodeTyped
    <3>4. QED BY <3>1, <3>3, NodeFields DEF Typed
  <2>3. v \in Int
    BY <1>1, <2>2
  <2>4. q_add_sign(x0, b) = Node(<<i, f>>, v) /\ q_add_sign(n, b) = Node(<<w, 0>>, v)
    BY <1>1, <1>2, <2>1 DEF q_add_sign, basic_mux_2_1, dtype
  <2> HIDE DEF v
  <2>5. Integral(Node(<<i, f>>, v)) = Node(<<w, 0>>, v)
    BY <1>1, <2>3, IntegralNode
  <2>6. QED BY <2>4, <2>5
<1>7. Integral(q_abs(x0)) = q_abs(n)
  BY <1>3, <1>6 DEF q_abs
<1>8. QED BY <1>3, <1>5, <1>6, <1>7 DEF n

LEMMA IntegralMoves ==
  ASSUME NEW x0, IsNode(x0)
  PROVE  /\ Integral(uq_to_q(x0)) = uq_to_q(Integral(x0))
         /\ x0.int >= 1 => Integral(q_to_uq(x0)) = q_to_uq(Integral(x0))
<1> DEFINE i == x0.int
           f == x0.frac
           v == x0.raw
<1>1. i \in Nat /\ f \in Nat /\ v \in Int /\ total_bits(x0) = i + f
  BY NodeFields
<1>2. Integral(x0).int = i + f /\ Integral(x0).frac = 0 /\ Integral(x0).raw = v
  BY DEF Integral
<1>3. uq_to_q(x0) = Node(<<i + 1, f>>, v) /\ uq_to_q(Integral(x0)) = Node(<<i + f + 1, 0>>, v)
  BY <1>2 DEF uq_to_q, basic_identity
<1>4. q_to_uq(x0) = Node(<<i - 1, f>>, v) /\ q_to_uq(Integral(x0)) = Node(<<(i + f) - 1, 0>>, v)
  BY <1>2 DEF q_to_uq, basic_identity
<1> HIDE DEF i, f, v
<1>5. i + 1 \in Nat /\ (i + 1) + f = i + f + 1
  BY <1>1
<1>6. Integral(Node(<<i + 1, f>>, v)) = Node(<<(i + 1) + f, 0>>, v)
  BY <1>1, <1>5, IntegralNode
<1>7. ASSUME i >= 1 PROVE Integral(q_to_uq(x0)) = q_to_uq(Integral(x0))
  <2> DEFINE j == i - 1
  <2>1. j \in Nat /\ j + f = (i + f) - 1
    BY <1>1, <1>7
  <2> HIDE DEF j
  <2>2. Integral(Node(<<j, f>>, v)) = Node(<<j + f, 0>>, v)
    BY <1>1, <2>1, IntegralNode
  <2>3. QED BY <1>4, <2>1, <2>2 DEF j
<1>8. QED BY <1>3, <1>5, <1>6, <1>7 DEF i

LEMMA IntegralSum ==
  ASSUME NEW i \in Nat, i >= 1, NEW f \in Nat, NEW x0, Typed(x0, i, f), NEW y, Typed(y, i, f)
  PROVE  Integral(q_add(x0, y)) = q_add(Integral(x0), Integral(y))
<1> DEFINE w == i + f
           a == q_sign_bit(x0).raw
           b == q_sign_bit(y).raw
           va == x0.raw + a * (2^1 - 1) * 2^w
           vb == y.raw + b * (2^1 - 1) * 2^w
<1>1. /\ IsNode(x0) /\ IsNode(y) /\ x0.int = i /\ x0.frac = f /\ y.int = i /\ y.frac = f
      /\ x0.raw \in Int /\ y.raw \in Int /\ total_bits(x0) = w /\ total_bits(y) = w
      /\ w \in Nat /\ w >= 1 /\ 2^w \in Int /\ 2^1 \in Int
  BY NodeFields, PowerPositive DEF Typed
<1>2. /\ Integral(x0).int = w /\ Integral(x0).frac = 0 /\ Integral(x0).raw = x0.raw
      /\ Integral(y).int = w /\ Integral(y).frac = 0 /\ Integral(y).raw = y.raw
      /\ total_bits(Integral(x0)) = w /\ total_bits(Integral(y)) = w
  BY <1>1, IntegralFields
<1>3. q_sign_bit(Integral(x0)).raw = a /\ q_sign_bit(Integral(y)).raw = b /\ a \in Int /\ b \in Int
  <2>1. q_sign_bit(x0) = q_sign_bit(Integral(x0)) /\ q_sign_bit(y) = q_sign_bit(Integral(y))
    BY <1>1, IntegralSign
  <2>2. Typed(q_sign_bit(x0), 1, 0) /\ Typed(q_sign_bit(y), 1, 0)
    BY <1>1, FixedTyped
  <2>3. QED BY <2>1, <2>2, NodeFields DEF Typed
<1>4. va \in Int /\ vb \in Int
  BY <1>1, <1>3
<1>5. Larger(i, i) = i /\ Larger(f, f) = f /\ Larger(w, w) = w /\ Larger(0, 0) = 0 /\ (i + 1) - i = 1
      /\ (w + 1) - w = 1 /\ (i + 1) + f = w + 1 /\ i + 1 \in Nat
  BY <1>1 DEF Larger
<1>6. q_align(x0, i + 1, f) = Node(<<i + 1, f>>, va) /\ q_align(y, i + 1, f) = Node(<<i + 1, f>>, vb)
  BY <1>1, <1>5 DEF q_align, q_sign_extend
<1>7. /\ q_align(Integral(x0), w + 1, 0) = Node(<<w + 1, 0>>, va)
      /\ q_align(Integral(y), w + 1, 0) = Node(<<w + 1, 0>>, vb)
  BY <1>2, <1>3, <1>5 DEF q_align, q_sign_extend
<1> DEFINE j == i + 1
<1> HIDE DEF va, vb, j, w
<1>8. Integral(Node(<<j, f>>, va)) = Node(<<j + f, 0>>, va) /\ Integral(Node(<<j, f>>, vb)) = Node(<<j + f, 0>>, vb)
  BY <1>4, <1>5, IntegralNode DEF j
<1> DEFINE ra == Node(<<j, f>>, va).raw
           rb == Node(<<j, f>>, vb).raw
<1>9. Node(<<w + 1, 0>>, va).raw = ra /\ Node(<<w + 1, 0>>, vb).raw = rb /\ ra \in Int /\ rb \in Int
  <2>1. Typed(Node(<<j, f>>, va), j, f) /\ Typed(Node(<<j, f>>, vb), j, f)
    BY <1>4, <1>5, NodeTyped DEF j
  <2>2. ra \in Nat /\ rb \in Nat
    BY <2>1, NodeFields DEF Typed
  <2>3. QED BY <1>5, <1>8, <2>2 DEF Integral, j
<1>10. q_add(x0, y) = Node(<<j, f>>, ra + rb)
  BY <1>1, <1>5, <1>6 DEF q_add, basic_add, j
<1>11. q_add(Integral(x0), Integral(y)) = Node(<<w + 1, 0>>, ra + rb)
  BY <1>2, <1>5, <1>7, <1>9 DEF q_add, basic_add
<1> HIDE DEF ra, rb
<1> DEFINE v == ra + rb
<1>12. v \in Int
  BY <1>9
<1> HIDE DEF v
<1>13. Integral(Node(<<j, f>>, v)) = Node(<<j + f, 0>>, v)
  BY <1>5, <1>12, IntegralNode DEF j
<1>14. QED BY <1>5, <1>10, <1>11, <1>13 DEF v, j

\* A number that is not negative gets the sign of a bit.
LEMMA SignedHolds ==
  ASSUME NEW x0, NEW i, NEW v, Holds(x0, i, v), v >= 0, NEW sign \in {0, 1}
  PROVE  Holds(q_add_sign(x0, Node(Bit, sign)), i, Factor(sign) * v)
<1> DEFINE h == 2^(i - 1)
           p == 2^i
<1>1. /\ x0.int = i /\ x0.frac = 0 /\ i \in Nat /\ i >= 1 /\ v \in Nat /\ v < h
      /\ total_bits(x0) = i /\ IsNode(x0) /\ x0.raw = v
  BY NodeFields DEF Holds, Typed
<1>2. p = 2 * h /\ h \in Nat /\ h > 0 /\ i + 0 = i
  BY <1>1, PowersOf, PowerPositive
<1>3. Node(Bit, sign).raw = sign
  BY BitOf
<1>4. q_add_sign(x0, Node(Bit, sign)) = Node(<<i, 0>>, IF sign = 1 THEN q_neg(x0).raw ELSE x0.raw)
  BY <1>1, <1>3 DEF q_add_sign, basic_mux_2_1, dtype
<1>5. CASE sign = 0
  <2>1. Holds(Node(<<i, 0>>, x0.raw), i, v)
    BY CopyHolds
  <2>2. Factor(sign) * v = v
    BY <1>1, <1>5 DEF Factor
  <2>3. QED BY <1>4, <1>5, <2>1, <2>2
<1>6. CASE sign = 1
  <2> DEFINE w == -v
             u == (p - 1) - v
  <2>1. w \in Int /\ -h <= w /\ w < h /\ w = Factor(sign) * v
    BY <1>1, <1>2, <1>6 DEF Factor
  <2>2. u \in Nat /\ u < 2^(i + 0) /\ u + 1 = w + 1 * p
    BY <1>1, <1>2
  <2>3. basic_invert(x0, <<i, 0>>) = Node(<<i, 0>>, u)
    BY <1>1 DEF basic_invert
  <2>4. x0.raw # h
    BY <1>1, <1>2
  <2>5. UQ_from_int(1).raw = 1
    BY ConstantRaw
  <2>6. q_neg(x0) = Node(<<i, 0>>, basic_invert(x0, <<i, 0>>).raw + 1)
    BY <1>1, <2>4, <2>5 DEF q_neg, basic_add, dtype
  <2> HIDE DEF u, w
  <2>7. Node(<<i, 0>>, u).raw = u
    BY <1>1, <2>2, MaskedFits
  <2>8. q_neg(x0) = Node(<<i, 0>>, w + 1 * 2^i)
    BY <2>2, <2>3, <2>6, <2>7
  <2>9. Holds(Node(<<i, 0>>, w + 1 * 2^i), i, w)
    <3>1. -2^(i - 1) <= w /\ w < 2^(i - 1) /\ 1 \in Int
      BY <2>1
    <3>2. QED BY <1>1, <2>1, <3>1, HoldsNode
  <2>10. Holds(q_neg(x0), i, w)
    BY <2>8, <2>9
  <2>11. Holds(Node(<<i, 0>>, q_neg(x0).raw), i, w)
    BY <2>10, CopyHolds
  <2>12. QED BY <1>4, <1>6, <2>1, <2>11
<1>7. QED BY <1>5, <1>6

\* The sum of two signed significands: its sign and its magnitude.
SignedSum(m1, s1, m2, s2) ==
  q_add(q_add_sign(uq_to_q(m1), Node(Bit, s1)), q_add_sign(uq_to_q(m2), Node(Bit, s2)))

TotalOf(m1, s1, m2, s2) == Factor(s1) * m1.raw + Factor(s2) * m2.raw

\* Its sign bit and its magnitude, for significands of i integer and f fraction bits.
SumHeld(m1, s1, m2, s2, i, f) ==
  /\ q_sign_bit(SignedSum(m1, s1, m2, s2)).raw = IF TotalOf(m1, s1, m2, s2) < 0 THEN 1 ELSE 0
  /\ Typed(q_to_uq(q_abs(SignedSum(m1, s1, m2, s2))), i + 1, f)
  /\ q_to_uq(q_abs(SignedSum(m1, s1, m2, s2))).raw = Absolute(TotalOf(m1, s1, m2, s2))

\* Adding signed significands loses nothing.
LEMMA SumExact ==
  ASSUME NEW i \in Nat, NEW f \in Nat, NEW m1, Typed(m1, i, f), NEW m2, Typed(m2, i, f),
         NEW s1 \in {0, 1}, NEW s2 \in {0, 1}
  PROVE  SumHeld(m1, s1, m2, s2, i, f)
<1> DEFINE w  == i + f
           n  == TotalOf(m1, s1, m2, s2)
           r1 == m1.raw
           r2 == m2.raw
           v1 == Factor(s1) * r1
           v2 == Factor(s2) * r2
           x1 == q_add_sign(uq_to_q(m1), Node(Bit, s1))
           x2 == q_add_sign(uq_to_q(m2), Node(Bit, s2))
           y  == q_add(x1, x2)
           h  == 2^w
<1>1. /\ IsNode(m1) /\ IsNode(m2) /\ m1.int = i /\ m1.frac = f /\ m2.int = i /\ m2.frac = f
      /\ r1 \in Nat /\ r2 \in Nat /\ r1 < h /\ r2 < h /\ h \in Nat /\ w \in Nat
      /\ total_bits(m1) = w /\ total_bits(m2) = w
  BY NodeFields DEF Typed
<1>2. Holds(uq_to_q(Integral(m1)), w + 1, r1) /\ Holds(uq_to_q(Integral(m2)), w + 1, r2)
  <2>1. /\ IsNode(Integral(m1)) /\ Integral(m1).frac = 0 /\ Integral(m1).int = w /\ Integral(m1).raw = r1
        /\ IsNode(Integral(m2)) /\ Integral(m2).frac = 0 /\ Integral(m2).int = w /\ Integral(m2).raw = r2
    BY <1>1, IntegralFields
  <2> DEFINE n1 == Integral(m1)
             n2 == Integral(m2)
  <2> HIDE DEF n1, n2
  <2>2. Holds(uq_to_q(n1), n1.int + 1, n1.raw) /\ Holds(uq_to_q(n2), n2.int + 1, n2.raw)
    BY <2>1, ToSigned DEF n1, n2
  <2>3. QED BY <2>1, <2>2 DEF n1, n2
<1>3. Typed(uq_to_q(m1), i + 1, f) /\ Typed(uq_to_q(m2), i + 1, f)
  BY <1>1, FixedTyped
<1>4. Typed(x1, i + 1, f) /\ Typed(x2, i + 1, f)
  <2>1. ASSUME NEW z, Typed(z, i + 1, f), NEW b PROVE Typed(q_add_sign(z, b), i + 1, f)
    <3>1. IsNode(z) /\ z.int = i + 1 /\ z.frac = f /\ z.int \in Nat /\ z.int >= 1
      BY <2>1 DEF Typed
    <3>2. IsNode(q_neg(z))
      BY <3>1, SignedTyped DEF Typed
    <3>3. QED BY <3>1, <3>2, MuxTyped DEF q_add_sign
  <2>2. QED BY <1>3, <2>1
<1>5. /\ Integral(x1) = q_add_sign(uq_to_q(Integral(m1)), Node(Bit, s1))
      /\ Integral(x2) = q_add_sign(uq_to_q(Integral(m2)), Node(Bit, s2))
  BY <1>1, <1>3, IntegralSign, IntegralMoves DEF Typed
<1>6. Holds(Integral(x1), w + 1, v1) /\ Holds(Integral(x2), w + 1, v2)
  <2>1. r1 >= 0 /\ r2 >= 0
    BY <1>1
  <2> HIDE DEF r1, r2, w
  <2>2. QED BY <1>2, <1>5, <2>1, SignedHolds
<1> HIDE DEF x1, x2
<1>7. Typed(y, (i + 1) + 1, f) /\ Integral(y) = q_add(Integral(x1), Integral(x2))
  <2> DEFINE j == i + 1
  <2>1. j \in Nat /\ j >= 1 /\ Typed(x1, j, f) /\ Typed(x2, j, f) /\ Larger(j, j) = j /\ Larger(f, f) = f
    BY <1>4 DEF Larger
  <2> HIDE DEF j
  <2>2. Integral(y) = q_add(Integral(x1), Integral(x2))
    BY <2>1, IntegralSum
  <2>3. Typed(y, j + 1, f)
    <3>1. IsNode(x1) /\ x1.int = j /\ x1.frac = f /\ IsNode(x2) /\ x2.int = j /\ x2.frac = f
      BY <2>1 DEF Typed
    <3>2. Typed(q_add(x1, x2), Larger(x1.int, x2.int) + 1, Larger(x1.frac, x2.frac))
      BY <2>1, <3>1, SignedTyped
    <3>3. QED BY <2>1, <3>1, <3>2
  <2>4. QED BY <2>2, <2>3 DEF j
<1>8. /\ v1 \in Int /\ v2 \in Int /\ n = v1 + v2 /\ n \in Int
      /\ -h < v1 /\ v1 < h /\ -h < v2 /\ v2 < h
  <2>1. v1 \in {r1, -r1} /\ v2 \in {r2, -r2} /\ n = v1 + v2
    BY <1>1 DEF Factor, TotalOf
  <2> HIDE DEF v1, v2, n, r1, r2
  <2>2. QED BY <1>1, <2>1
<1> HIDE DEF v1, v2, y, n
<1>9. Holds(Integral(y), (w + 1) + 1, n)
  <2>1. Holds(q_add(Integral(x1), Integral(x2)), Larger(w + 1, w + 1) + 1, v1 + v2)
    BY <1>6, AddHolds
  <2>2. Larger(w + 1, w + 1) = w + 1
    BY <1>1 DEF Larger
  <2>3. QED BY <1>7, <1>8, <2>1, <2>2
<1>10. IsNode(y) /\ y.int = i + 2 /\ y.frac = f /\ y.int >= 1
  BY <1>7 DEF Typed
<1>11. q_sign_bit(y) = Node(Bit, IF n < 0 THEN 1 ELSE 0)
  BY <1>9, <1>10, IntegralSign, SignBit
<1>12. q_sign_bit(y).raw = IF n < 0 THEN 1 ELSE 0
  BY <1>11, BitOf
<1> DEFINE W == (w + 1) + 1
<1>13. -2^(W - 1) < n
  <2>1. 2^(w + 1) = 2 * h /\ W - 1 = w + 1
    BY <1>1, PowerStep
  <2>2. QED BY <1>1, <1>8, <2>1
<1> HIDE DEF W
<1>14. Holds(q_abs(Integral(y)), W, Absolute(n))
  BY <1>9, <1>13, AbsHolds DEF W
<1>15. Integral(q_abs(y)) = q_abs(Integral(y)) /\ Typed(q_abs(y), i + 2, f)
  BY <1>10, IntegralSign, SignedTyped
<1>16. /\ Integral(q_to_uq(q_abs(y))) = q_to_uq(Integral(q_abs(y)))
       /\ Typed(q_to_uq(q_abs(y)), i + 1, f)
  <2>1. IsNode(q_abs(y)) /\ q_abs(y).int = i + 2 /\ q_abs(y).frac = f /\ q_abs(y).int >= 1
        /\ (i + 2) - 1 = i + 1
    BY <1>15 DEF Typed
  <2>2. QED BY <2>1, IntegralMoves, FixedTyped
<1>17. Absolute(n) >= 0
  BY <1>8 DEF Absolute
<1>18. q_to_uq(q_abs(Integral(y))).raw = Absolute(n)
  BY <1>14, <1>17, ToUnsigned
<1>19. q_to_uq(q_abs(y)).raw = Absolute(n)
  BY <1>15, <1>16, <1>18 DEF Integral
<1>20. QED BY <1>12, <1>16, <1>19 DEF SumHeld, SignedSum, y, x1, x2, n

\* Unsigned integers: the greater one, and a difference that is not negative.
LEMMA UnsignedMax ==
  ASSUME NEW a, IsNode(a), a.frac = 0, NEW b, IsNode(b), b.frac = 0
  PROVE  IsNode(uq_max(a, b)) /\ uq_max(a, b).frac = 0 /\ uq_max(a, b).raw = Larger(a.raw, b.raw)
<1> DEFINE i == Larger(a.int, b.int)
           v == Larger(a.raw, b.raw)
<1>1. /\ a.int \in Nat /\ b.int \in Nat /\ a.raw \in Nat /\ b.raw \in Nat
      /\ a.raw < 2^a.int /\ b.raw < 2^b.int
  <2>1. a.int + a.frac = a.int /\ b.int + b.frac = b.int
    BY NodeFields
  <2>2. QED BY <2>1, NodeFields
<1>2. i \in Nat /\ a.int <= i /\ b.int <= i /\ i + 0 = i
  BY <1>1 DEF Larger
<1>3. 2^a.int <= 2^i /\ 2^b.int <= 2^i /\ 2^a.int \in Nat /\ 2^b.int \in Nat /\ 2^i \in Nat
  <2> HIDE DEF i
  <2>1. QED BY <1>1, <1>2, PowerMonotone, PowerPositive
<1>4. v \in Nat /\ v < 2^(i + 0)
  BY <1>1, <1>2, <1>3 DEF Larger
<1>5. uq_max(a, b) = Node(<<i, 0>>, v)
  <2>1. uq_fraction(a, b) = 0
    BY DEF uq_fraction, Larger
  <2>2. uq_align(a, 0) = a /\ uq_align(b, 0) = b
    BY DEF uq_align
  <2>3. QED BY <2>1, <2>2 DEF uq_max, basic_max
<1> HIDE DEF i, v
<1>6. Typed(Node(<<i, 0>>, v), i, 0) /\ Node(<<i, 0>>, v).raw = v
  BY <1>2, <1>4, MaskedFits
<1>7. QED BY <1>5, <1>6 DEF Typed, v

LEMMA UnsignedDifference ==
  ASSUME NEW a, IsNode(a), a.frac = 0, NEW b, IsNode(b), b.frac = 0, b.raw <= a.raw
  PROVE  IsNode(uq_sub(a, b)) /\ uq_sub(a, b).frac = 0 /\ uq_sub(a, b).raw = a.raw - b.raw
<1> DEFINE i == Larger(a.int, b.int)
           w == i + 1
           v == a.raw - b.raw
<1>1. /\ a.int \in Nat /\ b.int \in Nat /\ a.raw \in Nat /\ b.raw \in Nat
      /\ a.raw < 2^a.int
  <2>1. a.int + a.frac = a.int /\ b.int + b.frac = b.int
    BY NodeFields
  <2>2. QED BY <2>1, NodeFields
<1>2. w \in Nat /\ a.int <= w /\ w + 0 = w
  BY <1>1 DEF Larger
<1>3. 2^a.int <= 2^w /\ 2^a.int \in Nat /\ 2^w \in Nat
  <2> HIDE DEF w
  <2>1. QED BY <1>1, <1>2, PowerMonotone, PowerPositive
<1>4. v \in Nat /\ v < 2^(w + 0)
  BY <1>1, <1>2, <1>3
<1>5. uq_sub(a, b) = Node(<<w, 0>>, v)
  <2>1. uq_fraction(a, b) = 0
    BY DEF uq_fraction, Larger
  <2>2. uq_align(a, 0) = a /\ uq_align(b, 0) = b
    BY DEF uq_align
  <2>3. QED BY <2>1, <2>2 DEF uq_sub, basic_sub
<1> HIDE DEF w, v
<1>6. Typed(Node(<<w, 0>>, v), w, 0) /\ Node(<<w, 0>>, v).raw = v
  BY <1>2, <1>4, MaskedFits
<1>7. QED BY <1>5, <1>6 DEF Typed, v

\* A product has the bits of both factors.
LEMMA ProductExact ==
  ASSUME NEW a, IsNode(a), NEW b, IsNode(b)
  PROVE  Typed(uq_mul(a, b), a.int + b.int, a.frac + b.frac) /\ uq_mul(a, b).raw = a.raw * b.raw
<1> DEFINE i == a.int + b.int
           f == a.frac + b.frac
           v == a.raw * b.raw
           A == 2^total_bits(a)
           B == 2^total_bits(b)
<1>1. /\ a.int \in Nat /\ a.frac \in Nat /\ a.raw \in Nat /\ a.raw < A /\ total_bits(a) = a.int + a.frac
      /\ b.int \in Nat /\ b.frac \in Nat /\ b.raw \in Nat /\ b.raw < B /\ total_bits(b) = b.int + b.frac
      /\ A \in Nat /\ B \in Nat /\ total_bits(a) \in Nat /\ total_bits(b) \in Nat
  BY NodeFields
<1>2. i \in Nat /\ f \in Nat /\ i + f = total_bits(a) + total_bits(b)
  BY <1>1
<1>3. 2^(i + f) = A * B
  BY <1>1, <1>2, PowerSum
<1>4. v \in Nat /\ v < A * B
  <2> DEFINE p == a.raw
             q == b.raw
  <2>1. p \in Nat /\ q \in Nat /\ p < A /\ q < B /\ A \in Nat /\ B \in Nat
    BY <1>1
  <2> HIDE DEF p, q, A, B
  <2>2. p * q \in Nat /\ p * q <= A * q /\ A * q < A * B
    BY <2>1
  <2>3. QED BY <2>1, <2>2 DEF p, q
<1>5. uq_mul(a, b) = Node(<<i, f>>, v)
  BY DEF uq_mul, basic_mul
<1> HIDE DEF i, f, v, A, B
<1>6. v < 2^(i + f)
  BY <1>3, <1>4
<1>7. Typed(Node(<<i, f>>, v), i, f) /\ Node(<<i, f>>, v).raw = v
  BY <1>2, <1>4, <1>6, MaskedFits
<1>8. QED BY <1>5, <1>7 DEF i, f, v

\* The bits of a node moved right whose low bits are zeros.
LEMMA RightShift ==
  ASSUME NEW x0, IsNode(x0), NEW k, IsNode(k), NEW y \in Nat, x0.raw = y * 2^k.raw
  PROVE  Typed(uq_rshift(x0, k), x0.int, x0.frac) /\ uq_rshift(x0, k).raw = y
<1> DEFINE r == x0.raw
           a == k.raw
           t == total_bits(x0)
           A == 2^a
           T == 2^t
<1>1. /\ r \in Nat /\ a \in Nat /\ t \in Nat /\ r < T /\ T \in Nat /\ x0.int \in Nat
      /\ x0.frac \in Nat /\ t = x0.int + x0.frac /\ A \in Nat /\ A > 0
  BY NodeFields, PowerPositive
<1>2. r = A * y + 0
  <2> HIDE DEF A, r
  <2>1. y * A = A * y /\ A * y \in Int
    BY <1>1
  <2>2. r = y * A
    BY DEF A, r
  <2>3. QED BY <2>1, <2>2
<1>3. r \div A = y
  <2> HIDE DEF A, r
  <2>1. QED BY <1>1, <1>2, DivisionOf
<1>4. a >= t => y = 0
  <2>1. SUFFICES ASSUME a >= t PROVE y = 0
    OBVIOUS
  <2>2. T <= A
    BY <1>1, <2>1, PowerMonotone
  <2> HIDE DEF A, T, r, a, t
  <2>3. A * y < A
    BY <1>1, <1>2, <2>2
  <2>4. y >= 1 => A * y >= A
    BY <1>1
  <2>5. QED BY <1>1, <2>3, <2>4
<1>5. uq_rshift(x0, k) = Node(<<x0.int, x0.frac>>, y)
  BY <1>3, <1>4 DEF uq_rshift, basic_rshift, dtype
<1>6. y < 2^(x0.int + x0.frac)
  <2>1. y <= A * y
    <3> HIDE DEF A
    <3>1. QED BY <1>1
  <2>2. A * y = r
    <3> HIDE DEF A, r
    <3>1. A * y \in Int
      BY <1>1
    <3>2. QED BY <1>2, <3>1
  <2>3. QED BY <1>1, <2>1, <2>2
<1>7. Typed(Node(<<x0.int, x0.frac>>, y), x0.int, x0.frac) /\ Node(<<x0.int, x0.frac>>, y).raw = y
  BY <1>1, <1>6, MaskedFits
<1>8. QED BY <1>5, <1>7

-----------------------------------------------------------------------------
(* What a float addition gives its encoder.                                *)

\* What an encoder of f takes, and the code it makes of it.
Ready(f, g) ==
  /\ g.s \in {0, 1}
  /\ IsNode(g.m) /\ total_bits(g.m) # 0 /\ FractionBits(g.m) + 1 >= f.mantissa_bits
  /\ IsNode(g.e) /\ g.e.frac = 0 /\ g.e.int >= 1 /\ scaled_integer(g.e) \in Int
GivenCode(f, g) ==
  RoundToNearestEven(f, g.s, Mag(g.m.raw, scaled_integer(g.e) - f.exponent_bias - g.m.frac))

\* A significand with three more bits.
LEMMA FloatTerm ==
  ASSUME NEW f, NEW mb \in Nat, mb = f.mantissa_bits, NEW d, OperandNodes(f, d)
  PROVE  /\ float_term(f, d).s = d.sign /\ float_term(f, d).e = effective_exponent(d)
         /\ Typed(float_term(f, d).m, 1, mb + 3)
         /\ float_term(f, d).m.raw = 8 * effective_significand(d).raw
<1> DEFINE n == effective_significand(d)
           r == n.raw
           w == mb + 3
<1>1. IsNode(n) /\ n.int = 1 /\ n.frac = mb
  BY DEF OperandNodes, Typed
<1>2. r \in Nat /\ r < 2^(1 + mb)
  BY <1>1, NodeFields
<1>3. 2^(1 + w) = 2^(1 + mb) * 8 /\ 2^(1 + mb) \in Nat
  <2>1. (1 + mb) + 3 = 1 + w /\ 1 + mb \in Nat /\ 2^3 = 8
    BY PowersOf
  <2>2. 2^((1 + mb) + 3) = 2^(1 + mb) * 2^3
    BY <2>1, PowerSum
  <2>3. QED BY <2>1, <2>2, PowerPositive
<1>4. w - mb = 3 /\ 2^3 = 8 /\ w \in Nat /\ mb <= w
  BY PowersOf
<1>5. r * 2^(w - mb) < 2^(1 + w) /\ r * 2^(w - mb) = 8 * r
  <2> DEFINE P == 2^(1 + mb)
  <2>1. r * 8 < P * 8 /\ r * 8 = 8 * r
    BY <1>2, <1>3
  <2>2. QED BY <1>3, <1>4, <2>1
<1> HIDE DEF n, w
<1>6. n.frac <= w /\ n.raw * 2^(w - n.frac) < 2^(1 + w)
  BY <1>1, <1>4, <1>5
<1>7. Typed(uq_resize(n, 1, w), 1, w) /\ uq_resize(n, 1, w).raw = n.raw * 2^(w - n.frac)
  BY <1>1, <1>4, <1>6, ResizeUp
<1>8. uq_resize(n, 1, w).raw = 8 * n.raw
  BY <1>1, <1>5, <1>7
<1>9. QED BY <1>7, <1>8 DEF float_term, n, w

\* A term moved to the greater exponent, jammed.
AlignedTo(u, t, e1, e2, w) ==
  /\ u.s = t.s /\ u.e = uq_max(e1, e2) /\ Typed(u.m, 1, w)
  /\ u.m.raw = Jam(t.m.raw, Larger(e1.raw, e2.raw) - t.e.raw)

LEMMA AlignedFloat ==
  ASSUME NEW o, o # "ue4m3x2_e2m1x2_add_fp32", NEW t1, NEW t2, NEW w \in Nat,
         Typed(t1.m, 1, w), IsNode(t1.e), t1.e.frac = 0,
         Typed(t2.m, 1, w), IsNode(t2.e), t2.e.frac = 0
  PROVE  \A i \in {1, 2} : AlignedTo(aligned(o, <<t1, t2>>, i), <<t1, t2>>[i], t1.e, t2.e, w)
<1> DEFINE t   == <<t1, t2>>
           top == uq_max(t1.e, t2.e)
<1>1. IsNode(top) /\ top.frac = 0 /\ top.raw = Larger(t1.e.raw, t2.e.raw)
      /\ t1.e.raw \in Nat /\ t2.e.raw \in Nat
  BY UnsignedMax, NodeFields
<1> HIDE DEF top
<1>2. t[1] = t1 /\ t[2] = t2
  OBVIOUS
<1>3. common_exponent(t) = top
  BY <1>2 DEF common_exponent, top
<1>4. ASSUME NEW i \in {1, 2}
      PROVE  /\ aligned(o, t, i).s = t[i].s /\ aligned(o, t, i).e = top
             /\ Typed(aligned(o, t, i).m, 1, w)
             /\ aligned(o, t, i).m.raw = Jam(t[i].m.raw, Larger(t1.e.raw, t2.e.raw) - t[i].e.raw)
  <2> DEFINE a == uq_sub(top, t[i].e)
             n == t[i].m
  <2>1. IsNode(t[i].e) /\ t[i].e.frac = 0 /\ Typed(n, 1, w) /\ t[i].e.raw <= top.raw
    BY <1>1, <1>2 DEF Larger
  <2>2. IsNode(a) /\ a.raw = top.raw - t[i].e.raw
    BY <1>1, <2>1, UnsignedDifference
  <2>3. aligned(o, t, i) = [s |-> t[i].s, e |-> top, m |-> uq_rshift_jam(n, a)]
    BY <1>3 DEF aligned
  <2> HIDE DEF a, n, t
  <2>4. IsNode(n) /\ total_bits(n) # 0 /\ a.raw \in Nat /\ n.int = 1 /\ n.frac = w
    BY <2>1, <2>2, NodeFields DEF Typed
  <2>5. Typed(uq_rshift_jam(n, a), 1, w)
    BY <2>2, <2>4, JamTyped
  <2>6. uq_rshift_jam(n, a).raw = Jam(n.raw, a.raw)
    BY <2>4, RightJam
  <2>7. QED BY <1>1, <2>2, <2>3, <2>5, <2>6 DEF n
<1>5. QED BY <1>4 DEF t, top, AlignedTo

\* The terms of a float addition, aligned.
FloatTermsOf(o, f, d1, d2) ==
  <<aligned(o, <<float_term(f, d1), float_term(f, d2)>>, 1),
    aligned(o, <<float_term(f, d1), float_term(f, d2)>>, 2)>>

\* What the encoder of a float addition is given.
LEMMA FloatSumGiven ==
  ASSUME NEW o, o # "ue4m3x2_e2m1x2_add_fp32", NEW f, NEW mb \in Nat, mb = f.mantissa_bits,
         NEW d1, OperandNodes(f, d1), NEW d2, OperandNodes(f, d2),
         NEW g, g = SumOf(o, FloatTermsOf(o, f, d1, d2)),
         NEW E1, E1 = effective_exponent(d1).raw, NEW E2, E2 = effective_exponent(d2).raw,
         NEW n, n = ComputedSum(d1.sign, effective_significand(d1).raw, E1,
                                d2.sign, effective_significand(d2).raw, E2)
  PROVE  /\ Ready(f, g) /\ g.s = (IF n < 0 THEN 1 ELSE 0) /\ g.m.raw = Absolute(n) /\ g.m.frac = mb + 3
         /\ scaled_integer(g.e) = Larger(E1, E2)
<1> DEFINE t1 == float_term(f, d1)
           t2 == float_term(f, d2)
           u1 == aligned(o, <<t1, t2>>, 1)
           u2 == aligned(o, <<t1, t2>>, 2)
           u  == <<u1, u2>>
           w  == mb + 3
           top == uq_max(t1.e, t2.e)
           r1 == effective_significand(d1).raw
           r2 == effective_significand(d2).raw
<1>1. /\ t1.s = d1.sign /\ t1.e = effective_exponent(d1) /\ Typed(t1.m, 1, w) /\ t1.m.raw = 8 * r1
      /\ t2.s = d2.sign /\ t2.e = effective_exponent(d2) /\ Typed(t2.m, 1, w) /\ t2.m.raw = 8 * r2
  BY FloatTerm
<1>2. /\ IsNode(t1.e) /\ t1.e.frac = 0 /\ IsNode(t2.e) /\ t2.e.frac = 0 /\ w \in Nat
      /\ d1.sign \in {0, 1} /\ d2.sign \in {0, 1} /\ t1.e.raw = E1 /\ t2.e.raw = E2
  BY <1>1 DEF OperandNodes
<1>3. g = SumOf(o, u)
  BY DEF FloatTermsOf
<1> HIDE DEF t1, t2, w, r1, r2
<1>4. /\ u1.s = t1.s /\ u1.e = top /\ Typed(u1.m, 1, w) /\ u1.m.raw = Jam(t1.m.raw, Larger(E1, E2) - E1)
      /\ u2.s = t2.s /\ u2.e = top /\ Typed(u2.m, 1, w) /\ u2.m.raw = Jam(t2.m.raw, Larger(E1, E2) - E2)
  <2>1. 1 \in {1, 2} /\ 2 \in {1, 2} /\ <<t1, t2>>[1] = t1 /\ <<t1, t2>>[2] = t2
    OBVIOUS
  <2>2. \A i \in {1, 2} : AlignedTo(aligned(o, <<t1, t2>>, i), <<t1, t2>>[i], t1.e, t2.e, w)
    BY <1>1, <1>2, AlignedFloat
  <2>3. AlignedTo(u1, t1, t1.e, t2.e, w) /\ AlignedTo(u2, t2, t1.e, t2.e, w)
    BY <2>1, <2>2
  <2>4. QED BY <1>2, <2>3 DEF AlignedTo
<1> HIDE DEF u1, u2
<1>5. n = TotalOf(u1.m, d1.sign, u2.m, d2.sign)
  BY <1>1, <1>4 DEF ComputedSum, TotalOf, r1, r2
<1>6. u[1] = u1 /\ u[2] = u2
  OBVIOUS
<1> HIDE DEF u
<1>7. /\ g.s = q_sign_bit(SignedSum(u1.m, d1.sign, u2.m, d2.sign)).raw
      /\ g.m = q_to_uq(q_abs(SignedSum(u1.m, d1.sign, u2.m, d2.sign)))
      /\ g.e = uq_to_q(top)
  BY <1>1, <1>3, <1>4, <1>6 DEF SumOf, signed_sum, signed_term, SignedSum, sum_exponent
<1>8. g.s = (IF n < 0 THEN 1 ELSE 0) /\ Typed(g.m, 2, w) /\ g.m.raw = Absolute(n)
  <2> DEFINE one == 1
             two == 2
  <2>1. two = one + 1 /\ one \in Nat /\ Typed(u1.m, one, w) /\ Typed(u2.m, one, w)
    BY <1>4
  <2> HIDE DEF one, two
  <2> DEFINE a  == u1.m
             b  == u2.m
             s1 == d1.sign
             s2 == d2.sign
  <2>2. Typed(a, one, w) /\ Typed(b, one, w) /\ s1 \in {0, 1} /\ s2 \in {0, 1} /\ n = TotalOf(a, s1, b, s2)
        /\ w \in Nat
    BY <1>2, <1>5, <2>1
  <2>3. /\ g.s = q_sign_bit(SignedSum(a, s1, b, s2)).raw
        /\ g.m = q_to_uq(q_abs(SignedSum(a, s1, b, s2)))
    BY <1>7
  <2> HIDE DEF a, b, s1, s2
  <2>4. SumHeld(a, s1, b, s2, one, w)
    BY <2>1, <2>2, SumExact
  <2>5. QED BY <2>1, <2>2, <2>3, <2>4 DEF SumHeld, two
<1>9. IsNode(top) /\ top.frac = 0 /\ top.raw = Larger(E1, E2) /\ top.int \in Nat
  BY <1>2, UnsignedMax, NodeFields
<1> HIDE DEF top
<1>10. Holds(uq_to_q(top), top.int + 1, top.raw)
  BY <1>9, ToSigned
<1>11. scaled_integer(g.e) = top.raw /\ IsNode(g.e) /\ g.e.frac = 0 /\ g.e.int >= 1
       /\ scaled_integer(g.e) \in Int
  BY <1>7, <1>9, <1>10, ScaledHolds DEF Holds, Typed
<1>12. IsNode(g.m) /\ g.m.int = 2 /\ g.m.frac = w /\ total_bits(g.m) # 0 /\ FractionBits(g.m) + 1 >= mb
  <2>1. IsNode(g.m) /\ g.m.int = 2 /\ g.m.frac = w
    BY <1>8 DEF Typed
  <2>2. total_bits(g.m) = 2 + w /\ FractionBits(g.m) = 1 + w
    BY <2>1 DEF total_bits, FractionBits, Larger
  <2>3. QED BY <1>2, <2>1, <2>2 DEF w
<1>13. g.s \in {0, 1}
  BY <1>8
<1>14. QED BY <1>8, <1>9, <1>11, <1>12, <1>13 DEF Ready, w

\* What is needed of a format of the library.
LEMMA FormatRounds ==
  ASSUME NEW name \in DOMAIN FormatOf
  PROVE  LET f == FormatOf[name] IN
         Rounds(f, f.mantissa_bits, f.exponent_bias) /\ f.mantissa_bits >= 1
<1>1. FormatTyped(FormatOf[name]) /\ FormatOf[name].exponent_bias \in Nat
  BY FormatFields, BiasNat
<1>2. QED BY <1>1 DEF FormatTyped, Rounds

\* The number of a code, in terms of its significand.
LEMMA NumberIs ==
  ASSUME NEW name \in DOMAIN FormatOf, NEW c \in Codes(FormatOf[name]), NEW z \in Int,
         z = -(FormatOf[name].exponent_bias + FormatOf[name].mantissa_bits)
  PROVE  Number(FormatOf[name], c) = TermNumber(c.sign, Significand(FormatOf[name], c), ExponentOf(c), z)
<1> DEFINE f == FormatOf[name]
           q == ExponentOf(c)
           b == f.exponent_bias
           w == f.mantissa_bits
<1>1. /\ Magnitude(f, c) = Mag(Significand(f, c), q - b - w)
      /\ q \in Nat /\ b \in Nat /\ w \in Nat
  BY MagnitudeOf
<1>2. q - b - w = q + z
  <2>1. z = -(b + w)
    OBVIOUS
  <2> HIDE DEF q, b, w
  <2>2. QED BY <1>1, <2>1
<1>3. QED BY <1>1, <1>2 DEF Number, TermNumber

\* An adder of two codes rounds once, and to the code of the exact sum: with three
\* extra bits and a sticky one, what the alignment of uq_rshift_jam drops never
\* decides the rounding, whatever the exponents, subnormal operands included.
THEOREM FloatSumRounded ==
  ASSUME NEW o, o # "ue4m3x2_e2m1x2_add_fp32", NEW name \in DOMAIN FormatOf,
         NEW c1 \in Codes(FormatOf[name]), ~ is_nan(FormatOf[name], c1), ~ is_inf(FormatOf[name], c1),
         NEW c2 \in Codes(FormatOf[name]), ~ is_nan(FormatOf[name], c2), ~ is_inf(FormatOf[name], c2)
  PROVE  GivenCode(FormatOf[name], SumOf(o, FloatTermsOf(o, FormatOf[name], DecodeOf(name, c1), DecodeOf(name, c2))))
           = Encoded(FormatOf[name], Plus(Number(FormatOf[name], c1), Number(FormatOf[name], c2)))
<1> DEFINE f  == FormatOf[name]
           d1 == DecodeOf(name, c1)
           d2 == DecodeOf(name, c2)
           g  == SumOf(o, FloatTermsOf(o, f, d1, d2))
           E1 == effective_exponent(d1).raw
           E2 == effective_exponent(d2).raw
           r1 == Significand(f, c1)
           r2 == Significand(f, c2)
           F1 == ExponentOf(c1)
           F2 == ExponentOf(c2)
           mb == f.mantissa_bits
           b  == f.exponent_bias
           z  == -(b + mb)
           n  == ComputedSum(d1.sign, effective_significand(d1).raw, E1,
                             d2.sign, effective_significand(d2).raw, E2)
           l  == Larger(E1, E2)
<1>1. OperandNodes(f, d1) /\ OperandNodes(f, d2) /\ OperandOf(f, c1, d1) /\ OperandOf(f, c2, d2)
  BY OperandTyped, OperandHolds
<1>2. Rounds(f, mb, b) /\ mb >= 1 /\ mb \in Nat /\ b \in Nat /\ z \in Int
  <2>1. Rounds(f, mb, b) /\ mb >= 1
    BY FormatRounds
  <2>2. QED BY <2>1 DEF Rounds
<1>3. /\ Number(f, c1) = TermNumber(c1.sign, r1, F1, z)
      /\ Number(f, c2) = TermNumber(c2.sign, r2, F2, z)
  BY <1>2, NumberIs
<1> HIDE DEF f, d1, d2, mb, b, F1, F2, r1, r2
<1>4. /\ Unpacked(mb, r1, E1, F1) /\ effective_significand(d1).raw = r1 /\ d1.sign = c1.sign
      /\ Unpacked(mb, r2, E2, F2) /\ effective_significand(d2).raw = r2 /\ d2.sign = c2.sign
      /\ E1 \in Nat /\ E2 \in Nat
  BY <1>1 DEF OperandOf, mb, r1, r2, F1, F2
<1>5. c1.sign \in {0, 1} /\ c2.sign \in {0, 1}
  BY <1>1, <1>4 DEF OperandNodes
<1> HIDE DEF E1, E2, z
<1>6. n = ComputedSum(c1.sign, r1, E1, c2.sign, r2, E2)
  BY <1>4
<1> HIDE DEF n, g
<1>7. /\ g.s = (IF n < 0 THEN 1 ELSE 0) /\ g.m.raw = Absolute(n) /\ g.m.frac = mb + 3
      /\ scaled_integer(g.e) = l
  BY <1>1, <1>2, FloatSumGiven DEF g, n, E1, E2, mb
<1>8. l \in Nat
  BY <1>4 DEF Larger
<1>9. l - b - (mb + 3) = l + z - 3
  <2> HIDE DEF l
  <2>1. QED BY <1>2, <1>8 DEF z
<1>10. GivenCode(f, g) = Rounding(f, n, l + z - 3)
  <2>1. GivenCode(f, g) = RoundToNearestEven(f, g.s, Mag(g.m.raw, scaled_integer(g.e) - b - g.m.frac))
    BY DEF GivenCode, b
  <2>2. QED BY <1>7, <1>9, <2>1 DEF Rounding
<1>11. Rounding(f, ComputedSum(c1.sign, r1, E1, c2.sign, r2, E2), Larger(E1, E2) + z - 3)
         = Encoded(f, Plus(TermNumber(c1.sign, r1, F1, z), TermNumber(c2.sign, r2, F2, z)))
  BY <1>2, <1>4, <1>5, RoundedSum
<1>12. QED BY <1>3, <1>6, <1>10, <1>11 DEF f, d1, d2, g

-----------------------------------------------------------------------------
(* What a float multiplication gives its encoder.                          *)

\* Two numbers with the same significand and exponent, or both zero, are the same.
LEMMA ZeroOrSame ==
  ASSUME NEW f, NEW sign, NEW p, NEW k, NEW l, p # 0 => k = l
  PROVE  RoundToNearestEven(f, sign, Mag(p, k)) = RoundToNearestEven(f, sign, Mag(p, l))
<1>1. CASE p = 0
  BY <1>1 DEF RoundToNearestEven, Mag
<1>2. CASE p # 0
  BY <1>2
<1>3. QED BY <1>1, <1>2

\* q * 2^l is p * 2^k with j more bits.
ScaledBy(p, k, q, l, j) == q = p * 2^j /\ l = k - j

\* Scaling a significand does not change the rounding.
LEMMA ScaledSame ==
  ASSUME NEW f, NEW mb, NEW bias, Rounds(f, mb, bias), NEW sign, NEW p \in Nat, NEW j \in Nat,
         NEW k \in Int, NEW q, NEW l, ScaledBy(p, k, q, l, j)
  PROVE  RoundToNearestEven(f, sign, Mag(q, l)) = RoundToNearestEven(f, sign, Mag(p, k))
<1> DEFINE P == 2^j
<1>1. P \in Nat /\ P > 0 /\ l \in Int
  BY PowerPositive DEF ScaledBy
<1>2. q = p * P
  BY DEF ScaledBy
<1>3. CASE p = 0
  <2>1. q = 0
    BY <1>1, <1>2, <1>3
  <2>2. QED BY <1>3, <2>1 DEF RoundToNearestEven, Mag
<1>4. CASE p # 0
  <2>1. q \in Nat /\ q > 0 /\ p > 0
    <3> HIDE DEF P
    <3>1. QED BY <1>1, <1>2, <1>4
  <2>2. Ordinal(mb, bias, Mag(p * 2^j, k - j)) = Ordinal(mb, bias, Mag(p, k))
    BY <2>1, OrdinalScaled DEF Rounds
  <2>3. Ordinal(mb, bias, Mag(q, l)) = Ordinal(mb, bias, Mag(p, k))
    BY <2>2 DEF ScaledBy
  <2>4. QED BY <1>1, <2>1, <2>3, SameRounding DEF Rounds
<1>5. QED BY <1>3, <1>4

LEMMA SignXor ==
  \A a, b \in {0, 1} : /\ xor(a, b) \in {0, 1} /\ xor(0, a) = a /\ xor(a, b) = xor(b, a)
                       /\ (xor(a, b) = 1 <=> a # b)
BY DEF xor

\* What the encoder of a float multiplication is given.
LEMMA FloatProductGiven ==
  ASSUME NEW f, NEW mb \in Nat, mb = f.mantissa_bits, NEW bias \in Int, bias = f.exponent_bias,
         NEW d1, OperandNodes(f, d1), NEW d2, OperandNodes(f, d2), NEW g, g = float_product(f, d1, d2)
  PROVE  /\ Ready(f, g) /\ g.s = xor(d1.sign, d2.sign)
         /\ g.m.raw = effective_significand(d1).raw * effective_significand(d2).raw
         /\ g.m.frac = mb + mb
         /\ scaled_integer(g.e) = effective_exponent(d1).raw + effective_exponent(d2).raw - bias
<1> DEFINE n1 == effective_significand(d1)
           n2 == effective_significand(d2)
           e1 == effective_exponent(d1)
           e2 == effective_exponent(d2)
           z  == Q_from_int(bias)
<1>1. /\ Typed(n1, 1, mb) /\ Typed(n2, 1, mb) /\ IsNode(e1) /\ e1.frac = 0 /\ IsNode(e2) /\ e2.frac = 0
      /\ d1.sign \in {0, 1} /\ d2.sign \in {0, 1} /\ e1.raw \in Nat /\ e2.raw \in Nat
  BY NodeFields DEF OperandNodes
<1>2. g = [s |-> xor(d1.sign, d2.sign), e |-> q_sub(q_add(uq_to_q(e1), uq_to_q(e2)), z), m |-> uq_mul(n1, n2)]
  BY DEF float_product
<1> HIDE DEF n1, n2, e1, e2, z
<1>3. Typed(g.m, 2, mb + mb) /\ g.m.raw = n1.raw * n2.raw
  <2>1. IsNode(n1) /\ n1.int = 1 /\ n1.frac = mb /\ IsNode(n2) /\ n2.int = 1 /\ n2.frac = mb /\ 1 + 1 = 2
    BY <1>1 DEF Typed
  <2>2. Typed(uq_mul(n1, n2), n1.int + n2.int, n1.frac + n2.frac) /\ uq_mul(n1, n2).raw = n1.raw * n2.raw
    BY <2>1, ProductExact
  <2>3. g.m = uq_mul(n1, n2) /\ n1.int + n2.int = 2 /\ n1.frac + n2.frac = mb + mb
    BY <1>2, <2>1
  <2>4. QED BY <2>2, <2>3
<1>4. PICK i \in Nat : Holds(z, i, bias)
  <2>1. \E i \in Nat : i >= 2 /\ Holds(z, i, bias)
    BY ConstantHolds DEF z
  <2>2. QED BY <2>1
<1>5. Holds(uq_to_q(e1), e1.int + 1, e1.raw) /\ Holds(uq_to_q(e2), e2.int + 1, e2.raw)
  BY <1>1, ToSigned
<1> DEFINE a == uq_to_q(e1)
           b == uq_to_q(e2)
           j == Larger(e1.int + 1, e2.int + 1) + 1
           v == e1.raw + e2.raw
<1>6. Holds(q_add(a, b), j, v)
  BY <1>5, AddHolds
<1> HIDE DEF j, v
<1>7. Holds(q_sub(q_add(a, b), z), Larger(j, i) + 1, v - bias)
  BY <1>4, <1>6, AddHolds
<1>8. g.e = q_sub(q_add(a, b), z)
  BY <1>2
<1> DEFINE l == Larger(j, i) + 1
           w == v - bias
<1>9. Holds(g.e, l, w)
  BY <1>7, <1>8
<1> HIDE DEF l, w
<1>10. IsNode(g.e) /\ g.e.frac = 0 /\ g.e.int >= 1 /\ scaled_integer(g.e) = w /\ w \in Int
  BY <1>9, ScaledHolds DEF Holds, Typed
<1>11. IsNode(g.m) /\ g.m.int = 2 /\ g.m.frac = mb + mb /\ total_bits(g.m) # 0 /\ FractionBits(g.m) + 1 >= mb
  <2>1. IsNode(g.m) /\ g.m.int = 2 /\ g.m.frac = mb + mb
    BY <1>3 DEF Typed
  <2>2. total_bits(g.m) = 2 + (mb + mb) /\ FractionBits(g.m) = 1 + (mb + mb)
    BY <2>1 DEF total_bits, FractionBits, Larger
  <2>3. QED BY <2>1, <2>2
<1>12. g.s = xor(d1.sign, d2.sign) /\ g.s \in {0, 1}
  BY <1>1, <1>2, SignXor
<1>13. w = e1.raw + e2.raw - bias
  BY <1>1 DEF w, v
<1>14. QED BY <1>3, <1>10, <1>11, <1>12, <1>13 DEF Ready, n1, n2, e1, e2

\* A multiplier of two codes rounds once, and to the code of the exact product: the
\* significand and the exponent given to the encoder are exact for every pair of
\* numbers, subnormal ones included.
THEOREM FloatProductRounded ==
  ASSUME NEW name \in DOMAIN FormatOf,
         NEW c1 \in Codes(FormatOf[name]), ~ is_nan(FormatOf[name], c1), ~ is_inf(FormatOf[name], c1),
         NEW c2 \in Codes(FormatOf[name]), ~ is_nan(FormatOf[name], c2), ~ is_inf(FormatOf[name], c2)
  PROVE  GivenCode(FormatOf[name], float_product(FormatOf[name], DecodeOf(name, c1), DecodeOf(name, c2)))
           = Encoded(FormatOf[name], Times(Number(FormatOf[name], c1), Number(FormatOf[name], c2)))
<1> DEFINE f  == FormatOf[name]
           d1 == DecodeOf(name, c1)
           d2 == DecodeOf(name, c2)
           g  == float_product(f, d1, d2)
           E1 == effective_exponent(d1).raw
           E2 == effective_exponent(d2).raw
           r1 == Significand(f, c1)
           r2 == Significand(f, c2)
           F1 == ExponentOf(c1)
           F2 == ExponentOf(c2)
           mb == f.mantissa_bits
           b  == f.exponent_bias
           z  == -(b + mb)
           p  == r1 * r2
<1>1. OperandNodes(f, d1) /\ OperandNodes(f, d2) /\ OperandOf(f, c1, d1) /\ OperandOf(f, c2, d2)
  BY OperandTyped, OperandHolds
<1>2. mb \in Nat /\ b \in Nat /\ z \in Int
  BY FormatRounds DEF Rounds
<1>3. /\ Number(f, c1) = TermNumber(c1.sign, r1, F1, z)
      /\ Number(f, c2) = TermNumber(c2.sign, r2, F2, z)
  BY <1>2, NumberIs
<1> HIDE DEF f, d1, d2, mb, b, F1, F2, r1, r2, g, E1, E2
<1>4. /\ Unpacked(mb, r1, E1, F1) /\ effective_significand(d1).raw = r1 /\ d1.sign = c1.sign
      /\ Unpacked(mb, r2, E2, F2) /\ effective_significand(d2).raw = r2 /\ d2.sign = c2.sign
  BY <1>1 DEF OperandOf, mb, r1, r2, F1, F2, E1, E2
<1>5. /\ g.s = xor(d1.sign, d2.sign) /\ g.m.raw = effective_significand(d1).raw * effective_significand(d2).raw
      /\ g.m.frac = mb + mb
      /\ scaled_integer(g.e) = effective_exponent(d1).raw + effective_exponent(d2).raw - b
  BY <1>1, <1>2, FloatProductGiven DEF mb, b, g
<1> DEFINE sign == xor(c1.sign, c2.sign)
           k == (E1 + E2 - b) - b - (mb + mb)
           l == (F1 + z) + (F2 + z)
<1>6. GivenCode(f, g) = RoundToNearestEven(f, sign, Mag(p, k))
  BY <1>4, <1>5 DEF GivenCode, b, E1, E2
<1>7. Encoded(f, Times(Number(f, c1), Number(f, c2))) = RoundToNearestEven(f, sign, Mag(p, l))
  BY <1>3 DEF Encoded, Times, TermNumber, Mag
<1>8. r1 \in Nat /\ r2 \in Nat /\ E1 \in Nat /\ E2 \in Nat /\ F1 \in Nat /\ F2 \in Nat
      /\ (r1 # 0 => F1 = E1) /\ (r2 # 0 => F2 = E2)
  BY <1>4 DEF Unpacked
<1>9. p # 0 => k = l
  <2>1. SUFFICES ASSUME p # 0 PROVE k = l
    OBVIOUS
  <2>2. r1 # 0 /\ r2 # 0
    BY <1>8, <2>1
  <2>3. F1 = E1 /\ F2 = E2
    BY <1>8, <2>2
  <2>4. k = E1 + E2 + (z + z)
    <3>1. QED BY <1>2, <1>8
  <2>5. QED BY <1>2, <1>8, <2>3, <2>4
<1> HIDE DEF sign, k, l, p
<1>10. RoundToNearestEven(f, sign, Mag(p, k)) = RoundToNearestEven(f, sign, Mag(p, l))
  BY <1>9, ZeroOrSame
<1>11. QED BY <1>6, <1>7, <1>10 DEF f, d1, d2, g

-----------------------------------------------------------------------------
(* What the scaled multiplication gives its encoder.                       *)

\* The formats of the scaled designs.
LEMMA ScaledFormats ==
  /\ Float32.mantissa_bits = 23 /\ Float32.exponent_bias = 127
  /\ UE4M3.mantissa_bits = 3 /\ UE4M3.exponent_bias = 7 /\ UE4M3.exponent_bits = 4 /\ UE4M3.signs = {0}
  /\ E2M1.mantissa_bits = 1 /\ E2M1.exponent_bias = 1 /\ E2M1.exponent_bits = 2
  /\ FormatOf["Float32"] = Float32 /\ FormatOf["UE4M3"] = UE4M3 /\ FormatOf["E2M1"] = E2M1
  /\ {"Float32", "UE4M3", "E2M1"} \subseteq DOMAIN FormatOf
<1>1. Float32.mantissa_bits = 23 /\ Float32.exponent_bias = 127
  BY DEF Float32, WithInfinities
<1>2. /\ UE4M3.mantissa_bits = 3 /\ UE4M3.exponent_bias = 7 /\ UE4M3.exponent_bits = 4
      /\ UE4M3.signs = {0}
  BY DEF UE4M3, E4M3FN
<1>3. E2M1.mantissa_bits = 1 /\ E2M1.exponent_bias = 1 /\ E2M1.exponent_bits = 2
  BY DEF E2M1
<1>4. QED BY <1>1, <1>2, <1>3 DEF FormatOf

\* A product of significands, made longer by j bits.
Lengthens(n1, n2, i, w, j) == i = n1.int + n2.int /\ w = n1.frac + n2.frac + j

LEMMA LongerProduct ==
  ASSUME NEW n1, NEW n2, IsNode(n1), IsNode(n2), NEW i \in Nat, NEW w \in Nat, NEW j \in Nat,
         Lengthens(n1, n2, i, w, j)
  PROVE  Typed(uq_resize(uq_mul(n1, n2), i, w), i, w)
         /\ uq_resize(uq_mul(n1, n2), i, w).raw = (n1.raw * n2.raw) * 2^j
<1> DEFINE x0 == uq_mul(n1, n2)
           f  == n1.frac + n2.frac
           r  == x0.raw
<1>1. Typed(x0, i, f) /\ r = n1.raw * n2.raw
  BY ProductExact DEF Lengthens
<1>2. n1.frac \in Nat /\ n2.frac \in Nat /\ f \in Nat /\ w = f + j /\ w - f = j /\ f <= w
  BY NodeFields DEF Lengthens
<1> HIDE DEF f, x0
<1>3. r \in Nat /\ r < 2^(i + f)
  BY <1>1, NodeFields DEF Typed
<1>4. 2^(i + w) = 2^(i + f) * 2^j /\ 2^(i + f) \in Nat /\ 2^j \in Nat /\ 2^j > 0
  <2> DEFINE a == i + f
  <2>1. a \in Nat /\ a + j = i + w
    BY <1>2
  <2> HIDE DEF a
  <2>2. 2^(a + j) = 2^a * 2^j
    BY <2>1, PowerSum
  <2>3. QED BY <2>1, <2>2, PowerPositive DEF a
<1>5. r * 2^j < 2^(i + w)
  <2> DEFINE P == 2^(i + f)
             Q == 2^j
  <2>1. r \in Nat /\ r < P /\ P \in Nat /\ Q \in Nat /\ Q > 0
    BY <1>3, <1>4
  <2> HIDE DEF P, Q, r
  <2>2. r * Q < P * Q
    BY <2>1
  <2>3. QED BY <1>4, <2>2 DEF P, Q
<1>6. IsNode(x0) /\ x0.frac = f
  BY <1>1 DEF Typed
<1>7. x0.frac <= w /\ x0.raw * 2^(w - x0.frac) < 2^(i + w) /\ w - x0.frac = j
  BY <1>2, <1>5, <1>6
<1>8. Typed(uq_resize(x0, i, w), i, w) /\ uq_resize(x0, i, w).raw = x0.raw * 2^(w - x0.frac)
  BY <1>6, <1>7, ResizeUp
<1>9. QED BY <1>1, <1>7, <1>8 DEF x0

\* What the encoder of the scaled multiplication is given.
LEMMA ScaledProductGiven ==
  ASSUME NEW a0, OperandNodes(UE4M3, a0), NEW a1, OperandNodes(UE4M3, a1),
         NEW b0, OperandNodes(E2M1, b0), NEW b1, OperandNodes(E2M1, b1),
         NEW g, g = scaled_product(a0, a1, b0, b1)
  PROVE  /\ Ready(Float32, g) /\ g.s = xor(b0.sign, b1.sign) /\ g.m.frac = 23
         /\ g.m.raw = ((effective_significand(a0).raw * effective_significand(a1).raw)
                         * (effective_significand(b0).raw * effective_significand(b1).raw)) * 2^15
         /\ scaled_integer(g.e) = ((effective_exponent(a0).raw + effective_exponent(a1).raw)
                                     + (effective_exponent(b0).raw + effective_exponent(b1).raw)) + 111
<1> DEFINE n0 == effective_significand(a0)
           n1 == effective_significand(a1)
           h0 == effective_significand(b0)
           h1 == effective_significand(b1)
           e0 == effective_exponent(a0)
           e1 == effective_exponent(a1)
           k0 == effective_exponent(b0)
           k1 == effective_exponent(b1)
           p  == uq_mul(n0, n1)
           q  == uq_mul(h0, h1)
           x0 == uq_add(e0, e1)
           y  == uq_add(k0, k1)
           u  == uq_add(x0, y)
           z  == Q_from_int(111)
<1>1. /\ Typed(n0, 1, 3) /\ Typed(n1, 1, 3) /\ Typed(h0, 1, 1) /\ Typed(h1, 1, 1)
      /\ IsNode(e0) /\ e0.frac = 0 /\ IsNode(e1) /\ e1.frac = 0
      /\ IsNode(k0) /\ k0.frac = 0 /\ IsNode(k1) /\ k1.frac = 0
      /\ b0.sign \in {0, 1} /\ b1.sign \in {0, 1}
  BY ScaledFormats DEF OperandNodes
<1>2. g = [s |-> xor(b0.sign, b1.sign), e |-> q_add(uq_to_q(u), z), m |-> uq_resize(uq_mul(p, q), 4, 23)]
  <2>1. Float32.exponent_bias - 2 * UE4M3.exponent_bias - 2 * E2M1.exponent_bias = 111
    BY ScaledFormats
  <2>2. QED BY <2>1, ScaledFormats DEF scaled_product
<1> HIDE DEF n0, n1, h0, h1, e0, e1, k0, k1, z
<1>3. IsNode(p) /\ p.int = 2 /\ p.frac = 6 /\ p.raw = n0.raw * n1.raw
  <2>1. IsNode(n0) /\ n0.int = 1 /\ n0.frac = 3 /\ IsNode(n1) /\ n1.int = 1 /\ n1.frac = 3
    BY <1>1 DEF Typed
  <2>2. Typed(p, n0.int + n1.int, n0.frac + n1.frac) /\ p.raw = n0.raw * n1.raw
    BY <2>1, ProductExact
  <2>3. QED BY <2>1, <2>2 DEF Typed
<1>4. IsNode(q) /\ q.int = 2 /\ q.frac = 2 /\ q.raw = h0.raw * h1.raw
  <2>1. IsNode(h0) /\ h0.int = 1 /\ h0.frac = 1 /\ IsNode(h1) /\ h1.int = 1 /\ h1.frac = 1
    BY <1>1 DEF Typed
  <2>2. Typed(q, h0.int + h1.int, h0.frac + h1.frac) /\ q.raw = h0.raw * h1.raw
    BY <2>1, ProductExact
  <2>3. QED BY <2>1, <2>2 DEF Typed
<1> HIDE DEF p, q
<1>5. Typed(g.m, 4, 23) /\ g.m.raw = (p.raw * q.raw) * 2^15
  <2> DEFINE i == 4
             w == 23
             j == 15
  <2>1. i \in Nat /\ w \in Nat /\ j \in Nat /\ Lengthens(p, q, i, w, j)
    BY <1>3, <1>4 DEF Lengthens
  <2>2. g.m = uq_resize(uq_mul(p, q), i, w)
    BY <1>2
  <2> HIDE DEF i, w, j
  <2>3. Typed(uq_resize(uq_mul(p, q), i, w), i, w) /\ uq_resize(uq_mul(p, q), i, w).raw = (p.raw * q.raw) * 2^j
    BY <1>3, <1>4, <2>1, LongerProduct
  <2>4. QED BY <2>2, <2>3 DEF i, w, j
<1>6. IsNode(x0) /\ x0.frac = 0 /\ x0.raw = e0.raw + e1.raw /\ IsNode(y) /\ y.frac = 0 /\ y.raw = k0.raw + k1.raw
  BY <1>1, UnsignedSum
<1> HIDE DEF x0, y
<1>7. IsNode(u) /\ u.frac = 0 /\ u.raw = x0.raw + y.raw
  BY <1>6, UnsignedSum
<1> HIDE DEF u
<1>8. Holds(uq_to_q(u), u.int + 1, u.raw)
  BY <1>7, ToSigned
<1>9. PICK i \in Nat : Holds(z, i, 111)
  <2>1. \E i \in Nat : i >= 2 /\ Holds(z, i, 111)
    BY ConstantHolds DEF z
  <2>2. QED BY <2>1
<1>10. Holds(q_add(uq_to_q(u), z), Larger(u.int + 1, i) + 1, u.raw + 111)
  BY <1>8, <1>9, AddHolds
<1> DEFINE l == Larger(u.int + 1, i) + 1
           v == u.raw + 111
<1>11. Holds(g.e, l, v)
  BY <1>2, <1>10
<1> HIDE DEF l, v
<1>12. IsNode(g.e) /\ g.e.frac = 0 /\ g.e.int >= 1 /\ scaled_integer(g.e) = v /\ v \in Int
  BY <1>11, ScaledHolds DEF Holds, Typed
<1>13. IsNode(g.m) /\ g.m.int = 4 /\ g.m.frac = 23 /\ total_bits(g.m) # 0
       /\ FractionBits(g.m) + 1 >= Float32.mantissa_bits
  <2>1. IsNode(g.m) /\ g.m.int = 4 /\ g.m.frac = 23
    BY <1>5 DEF Typed
  <2>2. total_bits(g.m) = 27 /\ FractionBits(g.m) = 26
    BY <2>1 DEF total_bits, FractionBits, Larger
  <2>3. QED BY <2>1, <2>2, ScaledFormats
<1>14. g.s = xor(b0.sign, b1.sign) /\ g.s \in {0, 1}
  BY <1>1, <1>2, SignXor
<1>15. v = ((e0.raw + e1.raw) + (k0.raw + k1.raw)) + 111
  BY <1>6, <1>7 DEF v
<1>16. QED BY <1>3, <1>4, <1>5, <1>12, <1>13, <1>14, <1>15 DEF Ready, n0, n1, h0, h1, e0, e1, k0, k1

\* A code of a scale factor, and one of an element: what their nodes hold.
ScaleOf(c, d)   == OperandNodes(UE4M3, d) /\ OperandOf(UE4M3, c, d) /\ c.sign = 0
ElementOf(c, d) == OperandNodes(E2M1, d) /\ OperandOf(E2M1, c, d)

LEMMA ScaledOperands ==
  /\ \A c \in Codes(UE4M3) : /\ OperandNodes(UE4M3, DecodeOf("UE4M3", c))
                             /\ ~ is_nan(UE4M3, c) => ScaleOf(c, DecodeOf("UE4M3", c))
                             /\ Number(UE4M3, c) = TermNumber(c.sign, Significand(UE4M3, c), ExponentOf(c), -10)
  /\ \A c \in Codes(E2M1) : /\ ElementOf(c, DecodeOf("E2M1", c))
                            /\ Number(E2M1, c) = TermNumber(c.sign, Significand(E2M1, c), ExponentOf(c), -2)
<1>1. ASSUME NEW c \in Codes(UE4M3)
      PROVE  /\ OperandNodes(UE4M3, DecodeOf("UE4M3", c))
             /\ ~ is_nan(UE4M3, c) => ScaleOf(c, DecodeOf("UE4M3", c))
             /\ Number(UE4M3, c) = TermNumber(c.sign, Significand(UE4M3, c), ExponentOf(c), -10)
  <2> DEFINE name == "UE4M3"
             z == -10
  <2>1. name \in DOMAIN FormatOf /\ FormatOf[name] = UE4M3 /\ z \in Int
        /\ z = -(FormatOf[name].exponent_bias + FormatOf[name].mantissa_bits)
    BY ScaledFormats
  <2> HIDE DEF name, z
  <2>2. OperandNodes(UE4M3, DecodeOf(name, c))
    BY <1>1, <2>1, OperandTyped
  <2>3. ~ is_inf(UE4M3, c)
    BY DEF is_inf, UE4M3, E4M3FN
  <2>4. ASSUME ~ is_nan(UE4M3, c) PROVE OperandOf(UE4M3, c, DecodeOf(name, c))
    BY <1>1, <2>1, <2>3, <2>4, OperandHolds
  <2>5. Number(UE4M3, c) = TermNumber(c.sign, Significand(UE4M3, c), ExponentOf(c), z)
    BY <1>1, <2>1, NumberIs
  <2>6. c.sign = 0
    BY <1>1, ScaledFormats DEF Codes
  <2>7. QED BY <2>2, <2>4, <2>5, <2>6 DEF ScaleOf, name, z
<1>2. ASSUME NEW c \in Codes(E2M1)
      PROVE  /\ ElementOf(c, DecodeOf("E2M1", c))
             /\ Number(E2M1, c) = TermNumber(c.sign, Significand(E2M1, c), ExponentOf(c), -2)
  <2> DEFINE name == "E2M1"
             z == -2
  <2>1. name \in DOMAIN FormatOf /\ FormatOf[name] = E2M1 /\ z \in Int
        /\ z = -(FormatOf[name].exponent_bias + FormatOf[name].mantissa_bits)
    BY ScaledFormats
  <2> HIDE DEF name, z
  <2>2. OperandNodes(E2M1, DecodeOf(name, c))
    BY <1>2, <2>1, OperandTyped
  <2>3. ~ is_inf(E2M1, c) /\ ~ is_nan(E2M1, c)
    BY DEF is_inf, is_nan, E2M1
  <2>4. OperandOf(E2M1, c, DecodeOf(name, c))
    BY <1>2, <2>1, <2>3, OperandHolds
  <2>5. Number(E2M1, c) = TermNumber(c.sign, Significand(E2M1, c), ExponentOf(c), z)
    BY <1>2, <2>1, NumberIs
  <2>6. QED BY <2>2, <2>4, <2>5 DEF ElementOf, name, z
<1>3. QED BY <1>1, <1>2

\* A significand and its exponents: the one stored and the one that counts.
SameOrZero(r, E, F) == r \in Nat /\ E \in Nat /\ F \in Nat /\ (r # 0 => E = F)

LEMMA UnpackedSame ==
  ASSUME NEW mb, NEW r, NEW E, NEW F, Unpacked(mb, r, E, F)
  PROVE  SameOrZero(r, E, F)
BY DEF Unpacked, SameOrZero

LEMMA SameProduct ==
  ASSUME NEW r1, NEW E1, NEW F1, SameOrZero(r1, E1, F1), NEW r2, NEW E2, NEW F2, SameOrZero(r2, E2, F2)
  PROVE  SameOrZero(r1 * r2, E1 + E2, F1 + F2)
<1>1. r1 \in Nat /\ r2 \in Nat /\ E1 \in Nat /\ E2 \in Nat /\ F1 \in Nat /\ F2 \in Nat
      /\ (r1 # 0 => E1 = F1) /\ (r2 # 0 => E2 = F2)
  BY DEF SameOrZero
<1>2. r1 * r2 \in Nat /\ (r1 * r2 # 0 => r1 # 0 /\ r2 # 0)
  BY <1>1
<1>3. r1 * r2 # 0 => E1 + E2 = F1 + F2
  BY <1>1, <1>2
<1>4. E1 + E2 \in Nat /\ F1 + F2 \in Nat
  BY <1>1
<1> DEFINE r == r1 * r2
           E == E1 + E2
           F == F1 + F2
<1> HIDE DEF r, E, F
<1>5. SameOrZero(r, E, F)
  BY <1>2, <1>3, <1>4 DEF SameOrZero, r, E, F
<1>6. QED BY <1>5 DEF r, E, F

\* The scaled multiplication rounds once, and to the code of the product of the two
\* scaled products: UQ4.23 holds the exact significand and no exponent is lost.
THEOREM ScaledProductRounded ==
  ASSUME NEW a0 \in Codes(UE4M3), ~ is_nan(UE4M3, a0), NEW a1 \in Codes(UE4M3), ~ is_nan(UE4M3, a1),
         NEW b0 \in Codes(E2M1), NEW b1 \in Codes(E2M1)
  PROVE  GivenCode(Float32, scaled_product(DecodeOf("UE4M3", a0), DecodeOf("UE4M3", a1),
                                           DecodeOf("E2M1", b0), DecodeOf("E2M1", b1)))
           = Encoded(Float32, Times(Times(Number(UE4M3, a0), Number(UE4M3, a1)),
                                    Times(Number(E2M1, b0), Number(E2M1, b1))))
<1> DEFINE d0 == DecodeOf("UE4M3", a0)
           d1 == DecodeOf("UE4M3", a1)
           k0 == DecodeOf("E2M1", b0)
           k1 == DecodeOf("E2M1", b1)
           g  == scaled_product(d0, d1, k0, k1)
           r0 == Significand(UE4M3, a0)
           r1 == Significand(UE4M3, a1)
           t0 == Significand(E2M1, b0)
           t1 == Significand(E2M1, b1)
           E0 == effective_exponent(d0).raw
           E1 == effective_exponent(d1).raw
           G0 == effective_exponent(k0).raw
           G1 == effective_exponent(k1).raw
           F0 == ExponentOf(a0)
           F1 == ExponentOf(a1)
           H0 == ExponentOf(b0)
           H1 == ExponentOf(b1)
<1>1. ScaleOf(a0, d0) /\ ScaleOf(a1, d1) /\ ElementOf(b0, k0) /\ ElementOf(b1, k1)
  BY ScaledOperands
<1>2. /\ Number(UE4M3, a0) = TermNumber(a0.sign, r0, F0, -10)
      /\ Number(UE4M3, a1) = TermNumber(a1.sign, r1, F1, -10)
      /\ Number(E2M1, b0) = TermNumber(b0.sign, t0, H0, -2)
      /\ Number(E2M1, b1) = TermNumber(b1.sign, t1, H1, -2)
  BY ScaledOperands
<1> HIDE DEF d0, d1, k0, k1, g, r0, r1, t0, t1, F0, F1, H0, H1
<1>3. /\ a0.sign = 0 /\ a1.sign = 0 /\ k0.sign = b0.sign /\ k1.sign = b1.sign
      /\ b0.sign \in {0, 1} /\ b1.sign \in {0, 1}
      /\ effective_significand(d0).raw = r0 /\ effective_significand(d1).raw = r1
      /\ effective_significand(k0).raw = t0 /\ effective_significand(k1).raw = t1
      /\ Unpacked(UE4M3.mantissa_bits, r0, E0, F0) /\ Unpacked(UE4M3.mantissa_bits, r1, E1, F1)
      /\ Unpacked(E2M1.mantissa_bits, t0, G0, H0) /\ Unpacked(E2M1.mantissa_bits, t1, G1, H1)
  BY <1>1 DEF ScaleOf, ElementOf, OperandOf, OperandNodes, r0, r1, t0, t1, F0, F1, H0, H1
<1>4. /\ g.s = xor(k0.sign, k1.sign) /\ g.m.frac = 23
      /\ g.m.raw = ((effective_significand(d0).raw * effective_significand(d1).raw)
                      * (effective_significand(k0).raw * effective_significand(k1).raw)) * 2^15
      /\ scaled_integer(g.e) = ((effective_exponent(d0).raw + effective_exponent(d1).raw)
                                  + (effective_exponent(k0).raw + effective_exponent(k1).raw)) + 111
  BY <1>1, ScaledProductGiven DEF ScaleOf, ElementOf, g
<1> HIDE DEF E0, E1, G0, G1
<1>5. /\ SameOrZero(r0, E0, F0) /\ SameOrZero(r1, E1, F1)
      /\ SameOrZero(t0, G0, H0) /\ SameOrZero(t1, G1, H1)
  BY <1>3, UnpackedSame
<1> DEFINE p == (r0 * r1) * (t0 * t1)
           E == (E0 + E1) + (G0 + G1)
           F == (F0 + F1) + (H0 + H1)
<1>6. SameOrZero(p, E, F)
  <2>1. SameOrZero(r0 * r1, E0 + E1, F0 + F1) /\ SameOrZero(t0 * t1, G0 + G1, H0 + H1)
    BY <1>5, SameProduct
  <2>2. QED BY <2>1, SameProduct
<1> DEFINE sign == xor(b0.sign, b1.sign)
           j == 15
           q == p * 2^j
           l == (E + 111) - 127 - 23
           k == E - 24
           i == ((F0 - 10) + (F1 - 10)) + ((H0 - 2) + (H1 - 2))
<1>7. GivenCode(Float32, g) = RoundToNearestEven(Float32, sign, Mag(q, l))
  <2>1. /\ g.s = sign /\ g.m.raw = q /\ scaled_integer(g.e) = E + 111 /\ g.m.frac = 23
    BY <1>3, <1>4 DEF E0, E1, G0, G1
  <2> HIDE DEF sign, q, E
  <2>2. Float32.exponent_bias = 127
    BY ScaledFormats
  <2>3. QED BY <2>1, <2>2 DEF GivenCode
<1>8. Encoded(Float32, Times(Times(Number(UE4M3, a0), Number(UE4M3, a1)),
                             Times(Number(E2M1, b0), Number(E2M1, b1))))
        = RoundToNearestEven(Float32, sign, Mag(p, i))
  <2>1. xor(xor(a0.sign, a1.sign), xor(b0.sign, b1.sign)) = sign
    <3>1. xor(b0.sign, b1.sign) \in {0, 1} /\ xor(0, 0) = 0
      BY <1>3, SignXor
    <3>2. QED BY <1>3, <3>1, SignXor
  <2>2. F0 + (-10) = F0 - 10 /\ F1 + (-10) = F1 - 10 /\ H0 + (-2) = H0 - 2 /\ H1 + (-2) = H1 - 2
    BY <1>5 DEF SameOrZero
  <2>3. /\ Number(UE4M3, a0).s = a0.sign /\ Number(UE4M3, a0).v.m = r0 /\ Number(UE4M3, a0).v.e = F0 - 10
        /\ Number(UE4M3, a1).s = a1.sign /\ Number(UE4M3, a1).v.m = r1 /\ Number(UE4M3, a1).v.e = F1 - 10
        /\ Number(E2M1, b0).s = b0.sign /\ Number(E2M1, b0).v.m = t0 /\ Number(E2M1, b0).v.e = H0 - 2
        /\ Number(E2M1, b1).s = b1.sign /\ Number(E2M1, b1).v.m = t1 /\ Number(E2M1, b1).v.e = H1 - 2
    BY <1>2, <2>2 DEF TermNumber, Mag
  <2> DEFINE A == Times(Number(UE4M3, a0), Number(UE4M3, a1))
             B == Times(Number(E2M1, b0), Number(E2M1, b1))
  <2>4. /\ A.s = xor(a0.sign, a1.sign) /\ A.v.m = r0 * r1 /\ A.v.e = (F0 - 10) + (F1 - 10)
        /\ B.s = xor(b0.sign, b1.sign) /\ B.v.m = t0 * t1 /\ B.v.e = (H0 - 2) + (H1 - 2)
    BY <2>3 DEF Times, Mag
  <2> HIDE DEF A, B
  <2>5. Encoded(Float32, Times(A, B)) = RoundToNearestEven(Float32, xor(A.s, B.s), Mag(A.v.m * B.v.m, A.v.e + B.v.e))
    BY DEF Encoded, Times
  <2>6. QED BY <2>1, <2>4, <2>5 DEF A, B
<1>9. p \in Nat /\ E \in Int /\ j \in Nat /\ k \in Int /\ l = k - j /\ (p # 0 => k = i)
  <2>1. p \in Nat /\ E \in Nat /\ F \in Nat /\ (p # 0 => E = F)
    BY <1>6 DEF SameOrZero
  <2>2. i = F - 24
    <3>1. F0 \in Nat /\ F1 \in Nat /\ H0 \in Nat /\ H1 \in Nat
      BY <1>5 DEF SameOrZero
    <3>2. QED BY <3>1
  <2> HIDE DEF p, E, F, i
  <2>3. QED BY <2>1, <2>2
<1>10. Rounds(Float32, 23, 127)
  <2>1. Rounds(FormatOf["Float32"], FormatOf["Float32"].mantissa_bits, FormatOf["Float32"].exponent_bias)
    BY FormatRounds, ScaledFormats
  <2>2. QED BY <2>1, ScaledFormats
<1> HIDE DEF p, E, F, i, k, l, sign, j
<1>11. RoundToNearestEven(Float32, sign, Mag(q, l)) = RoundToNearestEven(Float32, sign, Mag(p, k))
  <2>1. ScaledBy(p, k, q, l, j)
    BY <1>9 DEF ScaledBy
  <2> HIDE DEF q
  <2>2. QED BY <1>9, <1>10, <2>1, ScaledSame
<1>12. RoundToNearestEven(Float32, sign, Mag(p, k)) = RoundToNearestEven(Float32, sign, Mag(p, i))
  BY <1>9, ZeroOrSame
<1>13. QED BY <1>7, <1>8, <1>11, <1>12 DEF g, d0, d1, k0, k1

-----------------------------------------------------------------------------
(* What the scaled addition gives its encoder.                             *)

LEMMA AlikeBy ==
  ASSUME NEW f, NEW mb, NEW bias, Rounds(f, mb, bias), NEW n \in Int, NEW k \in Int, NEW j \in Nat,
         NEW q, NEW l, ScaledBy(n, k, q, l, j)
  PROVE  Rounding(f, q, l) = Rounding(f, n, k)
BY AlikeScaled DEF ScaledBy

\* A scaled term: a product with 16 more bits, at the sum of the exponents.
TermHeld(t, scale, d) ==
  /\ t.s = d.sign /\ Typed(t.m, 2, 20)
  /\ t.m.raw = (effective_significand(scale).raw * effective_significand(d).raw) * 2^16
  /\ IsNode(t.e) /\ t.e.frac = 0
  /\ t.e.raw = effective_exponent(scale).raw + effective_exponent(d).raw

LEMMA ScaledTerm ==
  ASSUME NEW scale, OperandNodes(UE4M3, scale), NEW d, OperandNodes(E2M1, d)
  PROVE  TermHeld(scaled_term(scale, d), scale, d)
<1> DEFINE n0 == effective_significand(scale)
           n1 == effective_significand(d)
           e0 == effective_exponent(scale)
           e1 == effective_exponent(d)
           t  == scaled_term(scale, d)
<1>1. /\ IsNode(n0) /\ n0.int = 1 /\ n0.frac = 3 /\ IsNode(n1) /\ n1.int = 1 /\ n1.frac = 1
      /\ IsNode(e0) /\ e0.frac = 0 /\ IsNode(e1) /\ e1.frac = 0
  BY ScaledFormats DEF OperandNodes, Typed
<1>2. /\ t.s = d.sign /\ t.e = uq_add(e0, e1) /\ t.m = uq_resize(uq_mul(n0, n1), 2, 20)
  BY DEF scaled_term
<1> HIDE DEF n0, n1, e0, e1, t
<1>3. Typed(t.m, 2, 20) /\ t.m.raw = (n0.raw * n1.raw) * 2^16
  <2> DEFINE i == 2
             w == 20
             j == 16
  <2>1. i \in Nat /\ w \in Nat /\ j \in Nat /\ Lengthens(n0, n1, i, w, j)
    BY <1>1 DEF Lengthens
  <2>2. t.m = uq_resize(uq_mul(n0, n1), i, w)
    BY <1>2
  <2> HIDE DEF i, w, j
  <2>3. Typed(uq_resize(uq_mul(n0, n1), i, w), i, w) /\ uq_resize(uq_mul(n0, n1), i, w).raw = (n0.raw * n1.raw) * 2^j
    BY <1>1, <2>1, LongerProduct
  <2>4. QED BY <2>2, <2>3 DEF i, w, j
<1>4. IsNode(t.e) /\ t.e.frac = 0 /\ t.e.raw = e0.raw + e1.raw
  BY <1>1, <1>2, UnsignedSum
<1>5. QED BY <1>2, <1>3, <1>4 DEF TermHeld, n0, n1, e0, e1, t

\* What the alignment of a scaled term makes of it.
ShiftedTo(u, t, e1, e2) ==
  /\ u.s = t.s /\ u.e = uq_max(e1, e2) /\ Typed(u.m, 2, 20)
  /\ \A y \in Nat : t.m.raw = y * 2^(Larger(e1.raw, e2.raw) - t.e.raw) => u.m.raw = y

LEMMA AlignedScaled ==
  ASSUME NEW t1, NEW t2, Typed(t1.m, 2, 20), IsNode(t1.e), t1.e.frac = 0,
         Typed(t2.m, 2, 20), IsNode(t2.e), t2.e.frac = 0
  PROVE  \A i \in {1, 2} :
           ShiftedTo(aligned("ue4m3x2_e2m1x2_add_fp32", <<t1, t2>>, i), <<t1, t2>>[i], t1.e, t2.e)
<1> DEFINE t   == <<t1, t2>>
           top == uq_max(t1.e, t2.e)
           o   == "ue4m3x2_e2m1x2_add_fp32"
<1>1. IsNode(top) /\ top.frac = 0 /\ top.raw = Larger(t1.e.raw, t2.e.raw)
      /\ t1.e.raw \in Nat /\ t2.e.raw \in Nat
  BY UnsignedMax, NodeFields
<1> HIDE DEF top
<1>2. t[1] = t1 /\ t[2] = t2
  OBVIOUS
<1>3. common_exponent(t) = top
  BY <1>2 DEF common_exponent, top
<1>4. ASSUME NEW i \in {1, 2} PROVE ShiftedTo(aligned(o, t, i), t[i], t1.e, t2.e)
  <2> DEFINE a == uq_sub(top, t[i].e)
             n == t[i].m
             u == aligned(o, t, i)
  <2>1. IsNode(t[i].e) /\ t[i].e.frac = 0 /\ Typed(n, 2, 20) /\ t[i].e.raw <= top.raw
    BY <1>1, <1>2 DEF Larger
  <2>2. IsNode(a) /\ a.raw = top.raw - t[i].e.raw
    BY <1>1, <2>1, UnsignedDifference
  <2>3. u = [s |-> t[i].s, e |-> top, m |-> uq_rshift(n, a)]
    BY <1>3 DEF aligned
  <2> HIDE DEF a, n, t, u
  <2>4. IsNode(n) /\ n.int = 2 /\ n.frac = 20
    BY <2>1 DEF Typed
  <2>5. Typed(uq_rshift(n, a), 2, 20)
    <3>1. Typed(basic_rshift(n, a, <<2, 20>>), 2, 20)
      BY <2>2, <2>4, BasicTyped
    <3>2. QED BY <2>4, <3>1 DEF uq_rshift, dtype
  <2>6. ASSUME NEW y \in Nat, n.raw = y * 2^(Larger(t1.e.raw, t2.e.raw) - t[i].e.raw)
        PROVE  u.m.raw = y
    <3>1. n.raw = y * 2^a.raw
      BY <1>1, <2>2, <2>6
    <3>2. uq_rshift(n, a).raw = y
      BY <2>2, <2>4, <3>1, RightShift
    <3>3. QED BY <2>3, <3>2
  <2>7. u.s = t[i].s /\ u.e = top /\ Typed(u.m, 2, 20)
    BY <2>3, <2>5
  <2> DEFINE t0 == t[i]
  <2>8. \A y \in Nat : t0.m.raw = y * 2^(Larger(t1.e.raw, t2.e.raw) - t0.e.raw) => u.m.raw = y
    BY <2>6 DEF n
  <2> HIDE DEF t0
  <2>9. ShiftedTo(u, t0, t1.e, t2.e)
    BY <2>7, <2>8 DEF ShiftedTo, top, t0
  <2>10. QED BY <2>9 DEF u, t0
<1>5. QED BY <1>4 DEF t, o

\* The terms of the scaled addition, aligned.
ScaledTermsOf(d1, d2, d3, d4) ==
  LET t == <<scaled_term(d1, d3), scaled_term(d2, d4)>> IN
  <<aligned("ue4m3x2_e2m1x2_add_fp32", t, 1), aligned("ue4m3x2_e2m1x2_add_fp32", t, 2)>>

\* What the encoder of the scaled addition is given.
LEMMA ScaledSumGiven ==
  ASSUME NEW d1, OperandNodes(UE4M3, d1), NEW d2, OperandNodes(UE4M3, d2),
         NEW d3, OperandNodes(E2M1, d3), NEW d4, OperandNodes(E2M1, d4),
         NEW u, u = ScaledTermsOf(d1, d2, d3, d4),
         NEW g, g = SumOf("ue4m3x2_e2m1x2_add_fp32", u)
  PROVE  /\ Ready(Float32, g) /\ g.m.frac = 20
         /\ g.s = (IF TotalOf(u[1].m, d3.sign, u[2].m, d4.sign) < 0 THEN 1 ELSE 0)
         /\ g.m.raw = Absolute(TotalOf(u[1].m, d3.sign, u[2].m, d4.sign))
         /\ scaled_integer(g.e) = Larger(scaled_term(d1, d3).e.raw, scaled_term(d2, d4).e.raw) + 119
         /\ ShiftedTo(u[1], scaled_term(d1, d3), scaled_term(d1, d3).e, scaled_term(d2, d4).e)
         /\ ShiftedTo(u[2], scaled_term(d2, d4), scaled_term(d1, d3).e, scaled_term(d2, d4).e)
<1> DEFINE t1 == scaled_term(d1, d3)
           t2 == scaled_term(d2, d4)
           o  == "ue4m3x2_e2m1x2_add_fp32"
           top == uq_max(t1.e, t2.e)
           bias == UQ_from_int(119)
<1>1. TermHeld(t1, d1, d3) /\ TermHeld(t2, d2, d4)
  BY ScaledTerm
<1>2. u[1] = aligned(o, <<t1, t2>>, 1) /\ u[2] = aligned(o, <<t1, t2>>, 2)
  BY DEF ScaledTermsOf
<1>3. d3.sign \in {0, 1} /\ d4.sign \in {0, 1}
  BY DEF OperandNodes
<1> HIDE DEF t1, t2
<1>4. /\ Typed(t1.m, 2, 20) /\ IsNode(t1.e) /\ t1.e.frac = 0 /\ t1.s = d3.sign
      /\ Typed(t2.m, 2, 20) /\ IsNode(t2.e) /\ t2.e.frac = 0 /\ t2.s = d4.sign
  BY <1>1 DEF TermHeld
<1>5. ShiftedTo(u[1], t1, t1.e, t2.e) /\ ShiftedTo(u[2], t2, t1.e, t2.e)
  <2>1. 1 \in {1, 2} /\ 2 \in {1, 2} /\ <<t1, t2>>[1] = t1 /\ <<t1, t2>>[2] = t2
    OBVIOUS
  <2>2. \A i \in {1, 2} : ShiftedTo(aligned(o, <<t1, t2>>, i), <<t1, t2>>[i], t1.e, t2.e)
    BY <1>4, AlignedScaled
  <2>3. QED BY <1>2, <2>1, <2>2
<1> DEFINE u1 == u[1]
           u2 == u[2]
<1>6. /\ u1.s = d3.sign /\ u1.e = top /\ Typed(u1.m, 2, 20)
      /\ u2.s = d4.sign /\ u2.e = top /\ Typed(u2.m, 2, 20)
  BY <1>4, <1>5 DEF ShiftedTo
<1>7. /\ g.s = q_sign_bit(SignedSum(u1.m, d3.sign, u2.m, d4.sign)).raw
      /\ g.m = q_to_uq(q_abs(SignedSum(u1.m, d3.sign, u2.m, d4.sign)))
      /\ g.e = uq_to_q(uq_add(top, bias))
  <2>1. g = [s |-> q_sign_bit(signed_sum(u)).raw, e |-> sum_exponent(o, u), m |-> q_to_uq(q_abs(signed_sum(u)))]
    BY DEF SumOf
  <2>2. signed_sum(u) = SignedSum(u1.m, d3.sign, u2.m, d4.sign)
    BY <1>6 DEF signed_sum, signed_term, SignedSum
  <2>3. Float32.exponent_bias - UE4M3.exponent_bias - E2M1.exponent_bias = 119
    BY ScaledFormats
  <2>4. sum_exponent(o, u) = uq_to_q(uq_add(top, bias))
    BY <1>6, <2>3 DEF sum_exponent
  <2>5. QED BY <2>1, <2>2, <2>4
<1> HIDE DEF u1, u2
<1>8. /\ g.s = (IF TotalOf(u1.m, d3.sign, u2.m, d4.sign) < 0 THEN 1 ELSE 0)
      /\ Typed(g.m, 3, 20) /\ g.m.raw = Absolute(TotalOf(u1.m, d3.sign, u2.m, d4.sign))
  <2> DEFINE i  == 2
             f  == 20
             a  == u1.m
             b  == u2.m
             s1 == d3.sign
             s2 == d4.sign
  <2>1. i \in Nat /\ f \in Nat /\ i + 1 = 3 /\ Typed(a, i, f) /\ Typed(b, i, f) /\ s1 \in {0, 1} /\ s2 \in {0, 1}
    BY <1>3, <1>6
  <2>2. g.s = q_sign_bit(SignedSum(a, s1, b, s2)).raw /\ g.m = q_to_uq(q_abs(SignedSum(a, s1, b, s2)))
    BY <1>7
  <2> HIDE DEF i, f, a, b, s1, s2
  <2>3. SumHeld(a, s1, b, s2, i, f)
    BY <2>1, SumExact
  <2>4. /\ g.s = (IF TotalOf(a, s1, b, s2) < 0 THEN 1 ELSE 0)
        /\ Typed(g.m, 3, f) /\ g.m.raw = Absolute(TotalOf(a, s1, b, s2))
    BY <2>1, <2>2, <2>3 DEF SumHeld
  <2>5. QED BY <2>4 DEF f, a, b, s1, s2
<1>9. IsNode(top) /\ top.frac = 0 /\ top.raw = Larger(t1.e.raw, t2.e.raw)
  BY <1>4, UnsignedMax
<1>10. IsNode(bias) /\ bias.frac = 0 /\ bias.raw = 119
  BY ConstantRaw DEF Typed
<1> HIDE DEF top, bias
<1> DEFINE y == uq_add(top, bias)
<1>11. IsNode(y) /\ y.frac = 0 /\ y.raw = top.raw + bias.raw
  BY <1>9, <1>10, UnsignedSum
<1>12. g.e = uq_to_q(y)
  BY <1>7
<1> HIDE DEF y
<1>13. Holds(g.e, y.int + 1, y.raw)
  BY <1>11, <1>12, ToSigned
<1>14. scaled_integer(g.e) = y.raw /\ IsNode(g.e) /\ g.e.frac = 0 /\ g.e.int >= 1 /\ y.raw \in Int
  BY <1>13, ScaledHolds DEF Holds, Typed
<1>15. IsNode(g.m) /\ g.m.frac = 20 /\ total_bits(g.m) # 0 /\ FractionBits(g.m) + 1 >= Float32.mantissa_bits
  <2>1. IsNode(g.m) /\ g.m.int = 3 /\ g.m.frac = 20
    BY <1>8 DEF Typed
  <2>2. total_bits(g.m) = 23 /\ FractionBits(g.m) = 22
    BY <2>1 DEF total_bits, FractionBits, Larger
  <2>3. QED BY <2>1, <2>2, ScaledFormats
<1>16. g.s \in {0, 1}
  BY <1>8
<1>17. scaled_integer(g.e) = Larger(t1.e.raw, t2.e.raw) + 119
  BY <1>9, <1>10, <1>11, <1>14
<1>18. QED BY <1>5, <1>8, <1>14, <1>15, <1>16, <1>17 DEF Ready, t1, t2, u1, u2

\* The significand of a scaled number, its exponent as computed and the one that counts.
ScaledR(c, n) == Significand(UE4M3, c) * Significand(E2M1, n)
ScaledE(c, n) == effective_exponent(DecodeOf("UE4M3", c)).raw + effective_exponent(DecodeOf("E2M1", n)).raw
ScaledF(c, n) == ExponentOf(c) + ExponentOf(n)
InRange(r, E, F) == SameOrZero(r, E, F) /\ E <= 18 /\ (r # 0 => E >= 2)

\* A scaled number: what its term holds, and the number it is.
ScaledNumberIs(c, n) ==
  /\ n.sign \in {0, 1}
  /\ InRange(ScaledR(c, n), ScaledE(c, n), ScaledF(c, n))
  /\ Times(Number(UE4M3, c), Number(E2M1, n)) = TermNumber(n.sign, ScaledR(c, n), ScaledF(c, n), -12)
  /\ OperandNodes(UE4M3, DecodeOf("UE4M3", c)) /\ OperandNodes(E2M1, DecodeOf("E2M1", n))
  /\ DecodeOf("E2M1", n).sign = n.sign
  /\ LET t == scaled_term(DecodeOf("UE4M3", c), DecodeOf("E2M1", n)) IN
     t.m.raw = ScaledR(c, n) * 2^16 /\ t.e.raw = ScaledE(c, n)

LEMMA ScaledNumber ==
  ASSUME NEW c \in Codes(UE4M3), ~ is_nan(UE4M3, c), NEW n \in Codes(E2M1)
  PROVE  ScaledNumberIs(c, n)
<1> DEFINE d == DecodeOf("UE4M3", c)
           k == DecodeOf("E2M1", n)
           r == Significand(UE4M3, c)
           p == Significand(E2M1, n)
           E == effective_exponent(d).raw
           G == effective_exponent(k).raw
           F == ExponentOf(c)
           H == ExponentOf(n)
           t == scaled_term(d, k)
<1>1. ScaleOf(c, d) /\ ElementOf(n, k)
  BY ScaledOperands
<1>2. Number(UE4M3, c) = TermNumber(c.sign, r, F, -10) /\ Number(E2M1, n) = TermNumber(n.sign, p, H, -2)
  BY ScaledOperands
<1>3. OperandNodes(UE4M3, d) /\ OperandNodes(E2M1, k)
  BY <1>1 DEF ScaleOf, ElementOf
<1>4. TermHeld(t, d, k)
  BY <1>3, ScaledTerm
<1>5. ScaledR(c, n) = r * p /\ ScaledE(c, n) = E + G /\ ScaledF(c, n) = F + H
  BY DEF ScaledR, ScaledE, ScaledF
<1> HIDE DEF d, k, r, p, F, H, t
<1>6. /\ c.sign = 0 /\ k.sign = n.sign /\ n.sign \in {0, 1}
      /\ effective_significand(d).raw = r /\ effective_significand(k).raw = p
      /\ Unpacked(UE4M3.mantissa_bits, r, E, F) /\ Unpacked(E2M1.mantissa_bits, p, G, H)
      /\ E <= 2^UE4M3.exponent_bits - 1 /\ G <= 2^E2M1.exponent_bits - 1
  BY <1>1 DEF ScaleOf, ElementOf, OperandOf, OperandNodes, r, p, F, H
<1>7. t.m.raw = (r * p) * 2^16 /\ t.e.raw = E + G
  BY <1>4, <1>6 DEF TermHeld
<1> HIDE DEF E, G
<1>8. SameOrZero(r, E, F) /\ SameOrZero(p, G, H)
  BY <1>6, UnpackedSame
<1>9. SameOrZero(r * p, E + G, F + H)
  BY <1>8, SameProduct
<1>10. r \in Nat /\ p \in Nat /\ E \in Nat /\ G \in Nat /\ F \in Nat /\ H \in Nat
       /\ (r # 0 => E = F) /\ (p # 0 => G = H) /\ F >= 1 /\ H >= 1
  BY <1>6, <1>8 DEF SameOrZero, Unpacked
<1>11. E <= 15 /\ G <= 3
  <2>1. 2^UE4M3.exponent_bits = 16 /\ 2^E2M1.exponent_bits = 4
    BY PowersOf DEF UE4M3, E2M1, E4M3FN
  <2>2. QED BY <1>6, <1>10, <2>1
<1>12. E + G <= 18 /\ (r * p # 0 => E + G >= 2)
  <2>1. r * p # 0 => r # 0 /\ p # 0
    BY <1>10
  <2>2. QED BY <1>10, <1>11, <2>1
<1>13. Times(Number(UE4M3, c), Number(E2M1, n)) = TermNumber(n.sign, r * p, F + H, -12)
  <2>1. xor(c.sign, n.sign) = n.sign
    BY <1>6, SignXor
  <2>2. (F + (-10)) + (H + (-2)) = (F + H) + (-12)
    BY <1>10
  <2>3. /\ Number(UE4M3, c).s = c.sign /\ Number(UE4M3, c).v.m = r /\ Number(UE4M3, c).v.e = F + (-10)
        /\ Number(E2M1, n).s = n.sign /\ Number(E2M1, n).v.m = p /\ Number(E2M1, n).v.e = H + (-2)
    BY <1>2 DEF TermNumber, Mag
  <2>4. QED BY <2>1, <2>2, <2>3 DEF Times, TermNumber
<1> DEFINE q == r * p
           A == E + G
           B == F + H
<1> HIDE DEF q, A, B
<1>14. InRange(q, A, B)
  BY <1>9, <1>12 DEF InRange, q, A, B
<1>15. QED BY <1>3, <1>5, <1>6, <1>7, <1>13, <1>14 DEF ScaledNumberIs, q, A, B, d, k, t

\* No bit of a scaled term is shifted out: y is the term in units of 2^(L - 16).
UnitsAt(r, E, F, L, y) ==
  /\ y \in Nat /\ r * 2^16 = y * 2^(L - E) /\ y * 2^L = (r * 2^F) * 2^16

LEMMA ScaledUnits ==
  ASSUME NEW r, NEW E, NEW F, InRange(r, E, F), NEW L \in Nat, L <= 18, E <= L
  PROVE  \E y : UnitsAt(r, E, F, L, y)
<1>1. r \in Nat /\ E \in Nat /\ F \in Nat /\ (r # 0 => E = F /\ E >= 2)
  BY DEF InRange, SameOrZero
<1>2. /\ 2^16 \in Nat /\ 2^(L - E) \in Nat /\ 2^L \in Nat /\ 2^F \in Nat /\ 2^E \in Nat
  <2>1. L - E \in Nat
    BY <1>1
  <2>2. QED BY <1>1, <2>1, PowerPositive
<1>3. CASE r = 0
  <2>1. 0 * 2^16 = 0 * 2^(L - E) /\ 0 * 2^L = (0 * 2^F) * 2^16
    BY <1>2
  <2>2. UnitsAt(r, E, F, L, 0)
    BY <1>3, <2>1 DEF UnitsAt
  <2>3. QED BY <2>2
<1>4. CASE r # 0
  <2> DEFINE a == L - E
             b == 16 - a
             y == r * 2^b
  <2>1. a \in Nat /\ b \in Nat /\ b + a = 16 /\ a + E = L /\ F = E
    BY <1>1, <1>4
  <2>2. 2^b \in Nat /\ 2^a \in Nat /\ 2^16 = 2^b * 2^a /\ 2^L = 2^a * 2^E
    <3> HIDE DEF a, b
    <3>1. 2^(b + a) = 2^b * 2^a /\ 2^(a + E) = 2^a * 2^E
      BY <1>1, <2>1, PowerSum
    <3>2. QED BY <2>1, <3>1, PowerPositive
  <2>3. y \in Nat /\ r * 2^16 = y * 2^a /\ y * 2^L = (r * 2^E) * 2^16
    <3> DEFINE P == 2^b
               Q == 2^a
               R == 2^E
               S == 2^16
               T == 2^L
    <3>1. P \in Nat /\ Q \in Nat /\ R \in Nat /\ S = P * Q /\ T = Q * R
      BY <1>2, <2>2
    <3> HIDE DEF P, Q, R, S, T
    <3>2. r * P \in Nat /\ r * (P * Q) = (r * P) * Q
      BY <1>1, <3>1
    <3>3. (r * P) * (Q * R) = (r * R) * (P * Q)
      <4>1. (r * P) * (Q * R) = r * (P * (Q * R)) /\ (r * R) * (P * Q) = r * (R * (P * Q))
        BY <1>1, <3>1
      <4>2. P * (Q * R) = R * (P * Q)
        BY <3>1
      <4>3. QED BY <4>1, <4>2
    <3>4. QED BY <3>1, <3>2, <3>3 DEF P, Q, R, S, T
  <2>4. UnitsAt(r, E, F, L, y)
    BY <2>1, <2>3 DEF UnitsAt
  <2>5. QED BY <2>4
<1>5. QED BY <1>3, <1>4

\* The sum of two scaled terms in these units and their exact sum are rounded alike.
LEMMA UnitsRounded ==
  ASSUME NEW f, NEW mb, NEW bias, Rounds(f, mb, bias), NEW c \in Int, NEW L \in Nat,
         NEW s1 \in {0, 1}, NEW r1, NEW E1, NEW F1, InRange(r1, E1, F1), NEW y1, UnitsAt(r1, E1, F1, L, y1),
         NEW s2 \in {0, 1}, NEW r2, NEW E2, NEW F2, InRange(r2, E2, F2), NEW y2, UnitsAt(r2, E2, F2, L, y2)
  PROVE  Rounding(f, Factor(s1) * y1 + Factor(s2) * y2, c + L - 16)
           = Encoded(f, Plus(TermNumber(s1, r1, F1, c), TermNumber(s2, r2, F2, c)))
<1> DEFINE t1 == Factor(s1)
           t2 == Factor(s2)
           n  == t1 * y1 + t2 * y2
           N  == t1 * (r1 * 2^F1) + t2 * (r2 * 2^F2)
           q  == n * 2^L
           low == Smaller(F1, F2)
           a  == F1 - low
           b  == F2 - low
           P  == (t1 * r1) * 2^a + (t2 * r2) * 2^b
           S  == 2^16
<1>1. /\ t1 \in {-1, 1} /\ t2 \in {-1, 1} /\ r1 \in Nat /\ r2 \in Nat /\ F1 \in Nat /\ F2 \in Nat
      /\ y1 \in Nat /\ y2 \in Nat /\ y1 * 2^L = (r1 * 2^F1) * S /\ y2 * 2^L = (r2 * 2^F2) * S
  BY DEF Factor, InRange, SameOrZero, UnitsAt
<1>2. low \in Nat /\ a \in Nat /\ b \in Nat /\ a + low = F1 /\ b + low = F2
  BY <1>1 DEF Smaller
<1>3. 2^L \in Nat /\ 2^F1 \in Nat /\ 2^F2 \in Nat /\ S \in Nat /\ 2^a \in Nat /\ 2^b \in Nat /\ 2^low \in Nat
  BY <1>1, <1>2, PowerPositive
<1> HIDE DEF t1, t2, low, a, b, S
<1>4. n \in Int /\ N \in Int /\ q = N * S
  <2> DEFINE T == 2^L
             z1 == r1 * 2^F1
             z2 == r2 * 2^F2
  <2>1. T \in Nat /\ z1 \in Nat /\ z2 \in Nat /\ y1 * T = z1 * S /\ y2 * T = z2 * S
    BY <1>1, <1>3
  <2> HIDE DEF T, z1, z2
  <2>2. (t1 * y1) * T = t1 * (y1 * T) /\ (t2 * y2) * T = t2 * (y2 * T)
        /\ t1 * (z1 * S) = (t1 * z1) * S /\ t2 * (z2 * S) = (t2 * z2) * S
    BY <1>1, <1>3, <2>1
  <2>3. t1 * y1 \in Int /\ t2 * y2 \in Int /\ t1 * z1 \in Int /\ t2 * z2 \in Int
    BY <1>1, <2>1
  <2>4. (t1 * y1 + t2 * y2) * T = (t1 * z1 + t2 * z2) * S
    BY <1>3, <2>1, <2>2, <2>3
  <2>5. QED BY <2>3, <2>4 DEF T, z1, z2
<1>5. P \in Int /\ N = P * 2^low
  <2>1. 2^F1 = 2^a * 2^low /\ 2^F2 = 2^b * 2^low
    <3>1. 2^(a + low) = 2^a * 2^low /\ 2^(b + low) = 2^b * 2^low
      BY <1>2, PowerSum
    <3>2. QED BY <1>2, <3>1
  <2> DEFINE A == 2^a
             B == 2^b
             W == 2^low
  <2>2. A \in Nat /\ B \in Nat /\ W \in Nat
    BY <1>3
  <2>3. N = t1 * (r1 * (A * W)) + t2 * (r2 * (B * W))
    BY <2>1
  <2>4. P = (t1 * r1) * A + (t2 * r2) * B
    OBVIOUS
  <2> HIDE DEF A, B, W, P, N
  <2>5. t1 * (r1 * (A * W)) = ((t1 * r1) * A) * W /\ t2 * (r2 * (B * W)) = ((t2 * r2) * B) * W
    BY <1>1, <2>2
  <2>6. (t1 * r1) * A \in Int /\ (t2 * r2) * B \in Int
    BY <1>1, <2>2
  <2>7. QED BY <2>2, <2>3, <2>4, <2>5, <2>6 DEF W
<1> DEFINE k == c + L - 16
           l == c - 16
           g == low + c
           i == 16
<1>6. k \in Int /\ l \in Int /\ g \in Int /\ l = k - L /\ l = c - i /\ c = g - low /\ i \in Nat
  BY <1>2
<1> HIDE DEF n, N, P, k, l, g
<1>7. ScaledBy(n, k, q, l, L)
  BY <1>6 DEF ScaledBy
<1>8. ScaledBy(N, c, q, l, i)
  BY <1>4, <1>6 DEF ScaledBy, S
<1>9. ScaledBy(P, g, N, c, low)
  BY <1>5, <1>6 DEF ScaledBy
<1> HIDE DEF q, i
<1>10. Rounding(f, q, l) = Rounding(f, n, k)
  BY <1>4, <1>6, <1>7, AlikeBy
<1>11. Rounding(f, q, l) = Rounding(f, N, c)
  BY <1>4, <1>6, <1>8, AlikeBy
<1>12. Rounding(f, N, c) = Rounding(f, P, g)
  BY <1>2, <1>5, <1>6, <1>9, AlikeBy
<1> DEFINE k1 == F1 + c
           k2 == F2 + c
<1>13. k1 \in Int /\ k2 \in Int /\ Smaller(k1, k2) = g /\ k1 - g = a /\ k2 - g = b
  BY <1>1, <1>2 DEF Smaller, g, low, a, b
<1> HIDE DEF k1, k2
<1>14. Encoded(f, Plus([s |-> s1, v |-> Mag(r1, k1)], [s |-> s2, v |-> Mag(r2, k2)]))
         = Rounding(f, (Factor(s1) * r1) * 2^(k1 - Smaller(k1, k2))
                         + (Factor(s2) * r2) * 2^(k2 - Smaller(k1, k2)), Smaller(k1, k2))
  <2>1. r1 \in Nat /\ r2 \in Nat /\ k1 \in Int /\ k2 \in Int
    BY <1>1, <1>13
  <2>2. QED BY ONLY <2>1, PlusIs, s1 \in {0, 1}, s2 \in {0, 1}
<1>15. Encoded(f, Plus(TermNumber(s1, r1, F1, c), TermNumber(s2, r2, F2, c))) = Rounding(f, P, g)
  BY <1>13, <1>14 DEF TermNumber, k1, k2, P, t1, t2
<1>16. QED BY <1>10, <1>11, <1>12, <1>15 DEF n, k, t1, t2

\* The scaled addition rounds once, and to the code of the exact sum, although its
\* alignment is not jammed: no bit of a term of UQ2.20 is ever shifted out.
THEOREM ScaledSumRounded ==
  ASSUME NEW a0 \in Codes(UE4M3), ~ is_nan(UE4M3, a0), NEW a1 \in Codes(UE4M3), ~ is_nan(UE4M3, a1),
         NEW b0 \in Codes(E2M1), NEW b1 \in Codes(E2M1)
  PROVE  GivenCode(Float32, SumOf("ue4m3x2_e2m1x2_add_fp32",
                                  ScaledTermsOf(DecodeOf("UE4M3", a0), DecodeOf("UE4M3", a1),
                                                DecodeOf("E2M1", b0), DecodeOf("E2M1", b1))))
           = Encoded(Float32, Plus(Times(Number(UE4M3, a0), Number(E2M1, b0)),
                                   Times(Number(UE4M3, a1), Number(E2M1, b1))))
<1> DEFINE d0 == DecodeOf("UE4M3", a0)
           d1 == DecodeOf("UE4M3", a1)
           k0 == DecodeOf("E2M1", b0)
           k1 == DecodeOf("E2M1", b1)
           t0 == scaled_term(d0, k0)
           t1 == scaled_term(d1, k1)
           u  == ScaledTermsOf(d0, d1, k0, k1)
           g  == SumOf("ue4m3x2_e2m1x2_add_fp32", u)
           r0 == ScaledR(a0, b0)
           r1 == ScaledR(a1, b1)
           E0 == ScaledE(a0, b0)
           E1 == ScaledE(a1, b1)
           F0 == ScaledF(a0, b0)
           F1 == ScaledF(a1, b1)
           L  == Larger(E0, E1)
           n  == TotalOf(u[1].m, b0.sign, u[2].m, b1.sign)
           c  == -12
<1>1. ScaledNumberIs(a0, b0) /\ ScaledNumberIs(a1, b1)
  BY ScaledNumber
<1> HIDE DEF d0, d1, k0, k1, t0, t1, u, g, r0, r1, E0, E1, F0, F1
<1>2. /\ b0.sign \in {0, 1} /\ b1.sign \in {0, 1} /\ InRange(r0, E0, F0) /\ InRange(r1, E1, F1)
      /\ Times(Number(UE4M3, a0), Number(E2M1, b0)) = TermNumber(b0.sign, r0, F0, c)
      /\ Times(Number(UE4M3, a1), Number(E2M1, b1)) = TermNumber(b1.sign, r1, F1, c)
      /\ OperandNodes(UE4M3, d0) /\ OperandNodes(UE4M3, d1) /\ OperandNodes(E2M1, k0) /\ OperandNodes(E2M1, k1)
      /\ k0.sign = b0.sign /\ k1.sign = b1.sign
      /\ t0.m.raw = r0 * 2^16 /\ t0.e.raw = E0 /\ t1.m.raw = r1 * 2^16 /\ t1.e.raw = E1
  BY <1>1 DEF ScaledNumberIs, d0, d1, k0, k1, t0, t1, r0, r1, E0, E1, F0, F1
<1>3. /\ Ready(Float32, g) /\ g.m.frac = 20
      /\ g.s = (IF n < 0 THEN 1 ELSE 0) /\ g.m.raw = Absolute(n)
      /\ scaled_integer(g.e) = L + 119
      /\ ShiftedTo(u[1], t0, t0.e, t1.e) /\ ShiftedTo(u[2], t1, t0.e, t1.e)
  <2>1. u = ScaledTermsOf(d0, d1, k0, k1) /\ g = SumOf("ue4m3x2_e2m1x2_add_fp32", u)
    BY DEF u, g
  <2>2. /\ Ready(Float32, g) /\ g.m.frac = 20
        /\ g.s = (IF TotalOf(u[1].m, k0.sign, u[2].m, k1.sign) < 0 THEN 1 ELSE 0)
        /\ g.m.raw = Absolute(TotalOf(u[1].m, k0.sign, u[2].m, k1.sign))
        /\ scaled_integer(g.e) = Larger(scaled_term(d0, k0).e.raw, scaled_term(d1, k1).e.raw) + 119
        /\ ShiftedTo(u[1], scaled_term(d0, k0), scaled_term(d0, k0).e, scaled_term(d1, k1).e)
        /\ ShiftedTo(u[2], scaled_term(d1, k1), scaled_term(d0, k0).e, scaled_term(d1, k1).e)
    BY <1>2, <2>1, ScaledSumGiven
  <2>3. QED BY <1>2, <2>2 DEF t0, t1
<1>4. L \in Nat /\ L <= 18 /\ E0 <= L /\ E1 <= L /\ c \in Int
  BY <1>2 DEF InRange, SameOrZero, Larger
<1> HIDE DEF L, c
<1>5. PICK y0 : UnitsAt(r0, E0, F0, L, y0)
  <2>1. \E y : UnitsAt(r0, E0, F0, L, y)
    BY <1>2, <1>4, ScaledUnits
  <2>2. QED BY <2>1
<1>6. PICK y1 : UnitsAt(r1, E1, F1, L, y1)
  <2>1. \E y : UnitsAt(r1, E1, F1, L, y)
    BY <1>2, <1>4, ScaledUnits
  <2>2. QED BY <2>1
<1>7. u[1].m.raw = y0 /\ u[2].m.raw = y1
  BY <1>2, <1>3, <1>5, <1>6 DEF ShiftedTo, UnitsAt, L
<1>8. n = Factor(b0.sign) * y0 + Factor(b1.sign) * y1
  BY <1>7 DEF TotalOf
<1>9. Rounds(Float32, 23, 127)
  <2>1. Rounds(FormatOf["Float32"], FormatOf["Float32"].mantissa_bits, FormatOf["Float32"].exponent_bias)
    BY FormatRounds, ScaledFormats
  <2>2. QED BY <2>1, ScaledFormats
<1> DEFINE s0 == b0.sign
           s1 == b1.sign
<1> HIDE DEF n, s0, s1
<1>10. GivenCode(Float32, g) = Rounding(Float32, n, c + L - 16)
  <2>1. Float32.exponent_bias = 127
    BY ScaledFormats
  <2>2. (L + 119) - 127 - 20 = c + L - 16
    BY <1>4 DEF c
  <2>3. GivenCode(Float32, g) = RoundToNearestEven(Float32, g.s, Mag(g.m.raw, (L + 119) - 127 - 20))
    BY <1>3, <2>1 DEF GivenCode
  <2>4. QED BY <1>3, <2>2, <2>3 DEF Rounding
<1>11. Rounding(Float32, Factor(s0) * y0 + Factor(s1) * y1, c + L - 16)
         = Encoded(Float32, Plus(TermNumber(s0, r0, F0, c), TermNumber(s1, r1, F1, c)))
  <2>1. s0 \in {0, 1} /\ s1 \in {0, 1}
    BY <1>2 DEF s0, s1
  <2>2. QED BY <1>2, <1>4, <1>5, <1>6, <1>9, <2>1, UnitsRounded
<1>12. QED BY <1>2, <1>8, <1>10, <1>11 DEF s0, s1, g, u, d0, d1, k0, k1

-----------------------------------------------------------------------------
(* The multiplexers after the encoder.                                     *)

\* What a multiplexer reads of an operand is what the specification asks of its code.
Read(f, c, d) ==
  /\ d.is_nan = is_nan(f, c) /\ d.is_inf = is_inf(f, c) /\ d.is_zero = is_zero(f, c) /\ d.sign = c.sign

LEMMA OperandRead ==
  ASSUME NEW name \in DOMAIN FormatOf, NEW c \in Codes(FormatOf[name])
  PROVE  Read(FormatOf[name], c, DecodeOf(name, c))
BY DecodedFields DEF Read, ClassesAsTyped

\* A format has one negative zero.
LEMMA NegativeZero ==
  ASSUME NEW name \in {"BFloat16", "Float32"}, NEW c \in Codes(FormatOf[name])
  PROVE  /\ c.sign \in {0, 1}
         /\ is_zero(FormatOf[name], c) /\ c.sign = 1 <=> c = nZero
<1> DEFINE f == FormatOf[name]
<1>1. name \in DOMAIN FormatOf
  BY DEF FormatOf
<1>2. f = BFloat16 \/ f = Float32
  BY DEF FormatOf
<1>3. PICK eb \in Nat, mb \in Nat, bias \in Int : f = WithInfinities(eb, mb, bias) /\ eb >= 1
  <2>1. \E eb \in Nat, mb \in Nat, bias \in Int : f = WithInfinities(eb, mb, bias) /\ eb >= 1
    <3>1. BFloat16 = WithInfinities(8, 7, 127) /\ Float32 = WithInfinities(8, 23, 127)
      BY DEF BFloat16, Float32
    <3>2. 8 \in Nat /\ 7 \in Nat /\ 23 \in Nat /\ 127 \in Int /\ 8 >= 1
      OBVIOUS
    <3>3. QED BY <1>2, <3>1, <3>2
  <2>2. QED BY <2>1
<1>4. 2^eb - 1 # 0
  <2>1. 2^eb \in Nat /\ 2^eb > eb
    BY <1>3, PowerPositive, LessThanPower
  <2>2. QED BY <1>3, <2>1
<1>5. /\ f.signs = {0, 1}
      /\ f.nan = [sign: {0, 1}, exponent: {2^eb - 1}, mantissa: 1 .. (2^mb - 1)]
  <2>1. /\ WithInfinities(eb, mb, bias).signs = {0, 1}
        /\ WithInfinities(eb, mb, bias).nan = [sign: {0, 1}, exponent: {2^eb - 1}, mantissa: 1 .. (2^mb - 1)]
    BY DEF WithInfinities
  <2> HIDE DEF f
  <2>2. QED BY <1>3, <2>1
<1>6. /\ c \in [ sign: f.signs, exponent: 0 .. (2^f.exponent_bits - 1), mantissa: 0 .. (2^f.mantissa_bits - 1) ]
  BY DEF Codes
<1> HIDE DEF f
<1>7. c.sign \in {0, 1} /\ c = [sign |-> c.sign, exponent |-> c.exponent, mantissa |-> c.mantissa]
  BY <1>5, <1>6
<1>8. nZero = [sign |-> 1, exponent |-> 0, mantissa |-> 0]
  BY DEF nZero, Code
<1>9. is_zero(f, nZero)
  BY <1>4, <1>5, <1>8 DEF is_zero, is_nan
<1>10. is_zero(f, c) /\ c.sign = 1 => c = nZero
  BY <1>7, <1>8 DEF is_zero
<1>11. QED BY <1>7, <1>8, <1>9, <1>10 DEF f

LEMMA SelectedSum ==
  ASSUME NEW f, NEW c1, NEW d1, Read(f, c1, d1), c1.sign \in {0, 1},
         is_zero(f, c1) /\ c1.sign = 1 <=> c1 = nZero,
         NEW c2, NEW d2, Read(f, c2, d2), c2.sign \in {0, 1},
         is_zero(f, c2) /\ c2.sign = 1 <=> c2 = nZero,
         NEW r, ~ is_nan(f, c1) /\ ~ is_nan(f, c2) /\ ~ is_inf(f, c1) /\ ~ is_inf(f, c2)
                  => r = Encoded(f, Plus(Number(f, c1), Number(f, c2)))
  PROVE  add_specials(f, d1, d2, r) = spec_add(f, c1, c2)
<1>1. /\ \A sign : infinite(d1, sign) <=> infinity_of(f, c1, sign)
      /\ \A sign : infinite(d2, sign) <=> infinity_of(f, c2, sign)
  BY DEF infinite, infinity_of, Read
<1>2. d1.is_zero /\ d2.is_zero /\ d1.sign = 1 /\ d2.sign = 1 <=> c1 = nZero /\ c2 = nZero
  BY DEF Read
<1>3. d1.is_nan = is_nan(f, c1) /\ d2.is_nan = is_nan(f, c2)
  BY DEF Read
<1> DEFINE exact == Encoded(f, Plus(Number(f, c1), Number(f, c2)))
<1>4. CASE is_nan(f, c1) \/ is_nan(f, c2)
  BY <1>3, <1>4 DEF add_specials, spec_add
<1>5. CASE ~ is_nan(f, c1) /\ ~ is_nan(f, c2) /\ (is_inf(f, c1) \/ is_inf(f, c2))
  <2>1. \/ infinity_of(f, c1, 0) \/ infinity_of(f, c1, 1) \/ infinity_of(f, c2, 0) \/ infinity_of(f, c2, 1)
    BY <1>5 DEF infinity_of
  <2>2. QED BY <1>1, <1>3, <1>5, <2>1 DEF add_specials, spec_add
<1>6. CASE ~ is_nan(f, c1) /\ ~ is_nan(f, c2) /\ ~ is_inf(f, c1) /\ ~ is_inf(f, c2)
  <2>1. \A sign : ~ infinity_of(f, c1, sign) /\ ~ infinity_of(f, c2, sign)
    BY <1>6 DEF infinity_of
  <2>2. r = exact
    BY <1>6
  <2>3. spec_add(f, c1, c2) = IF c1 = nZero /\ c2 = nZero THEN nZero ELSE exact
    BY <1>6, <2>1 DEF spec_add
  <2>4. add_specials(f, d1, d2, r) = IF c1 = nZero /\ c2 = nZero THEN nZero ELSE r
    BY <1>1, <1>2, <1>3, <1>6, <2>1 DEF add_specials
  <2>5. QED BY <2>2, <2>3, <2>4
<1>7. QED BY <1>4, <1>5, <1>6

LEMMA SelectedProduct ==
  ASSUME NEW f, NEW c1, NEW d1, Read(f, c1, d1), c1.sign \in {0, 1},
         NEW c2, NEW d2, Read(f, c2, d2), c2.sign \in {0, 1},
         NEW r, ~ is_nan(f, c1) /\ ~ is_nan(f, c2) /\ ~ is_inf(f, c1) /\ ~ is_inf(f, c2)
                  => r = Encoded(f, Times(Number(f, c1), Number(f, c2)))
  PROVE  mult_specials(f, d1, d2, r) = spec_mult(f, c1, c2)
<1> DEFINE exact == Encoded(f, Times(Number(f, c1), Number(f, c2)))
           a == c1.sign
           b == c2.sign
<1>1. a \in {0, 1} /\ b \in {0, 1}
  OBVIOUS
<1>2. d1.sign = a /\ d2.sign = b /\ d1.is_nan = is_nan(f, c1) /\ d1.is_inf = is_inf(f, c1)
      /\ d1.is_zero = is_zero(f, c1) /\ d2.is_nan = is_nan(f, c2) /\ d2.is_inf = is_inf(f, c2)
      /\ d2.is_zero = is_zero(f, c2)
  BY DEF Read
<1> HIDE DEF a, b
<1>3. (xor(a, b) = 1 <=> a # b) /\ xor(a, b) = (IF a # b THEN 1 ELSE 0)
  BY <1>1, SignXor
<1>4. mult_specials(f, d1, d2, r) =
        IF (is_inf(f, c1) /\ is_zero(f, c2)) \/ (is_inf(f, c2) /\ is_zero(f, c1))
             \/ is_nan(f, c1) \/ is_nan(f, c2) THEN f.NaN
        ELSE IF is_inf(f, c1) \/ is_inf(f, c2) THEN Infinity(f, xor(a, b))
        ELSE IF (is_zero(f, c1) \/ is_zero(f, c2)) /\ xor(a, b) = 1 THEN nZero ELSE r
  BY <1>2 DEF mult_specials
<1>5. spec_mult(f, c1, c2) =
        IF (is_inf(f, c1) /\ is_zero(f, c2)) \/ (is_inf(f, c2) /\ is_zero(f, c1))
             \/ is_nan(f, c1) \/ is_nan(f, c2) THEN f.NaN
        ELSE IF is_inf(f, c1) \/ is_inf(f, c2) THEN Infinity(f, IF a # b THEN 1 ELSE 0)
        ELSE IF (is_zero(f, c1) \/ is_zero(f, c2)) /\ a # b THEN nZero ELSE exact
  BY DEF spec_mult, a, b
<1> HIDE DEF exact
<1>6. ~ is_nan(f, c1) /\ ~ is_nan(f, c2) /\ ~ is_inf(f, c1) /\ ~ is_inf(f, c2) => r = exact
  BY DEF exact
<1>7. QED BY <1>3, <1>4, <1>5, <1>6

\* Zero times anything is zero.
LEMMA ZeroProduct ==
  ASSUME NEW a0 \in Codes(UE4M3), ~ is_nan(UE4M3, a0), NEW a1 \in Codes(UE4M3), ~ is_nan(UE4M3, a1),
         NEW b0 \in Codes(E2M1), NEW b1 \in Codes(E2M1),
         is_zero(UE4M3, a0) \/ is_zero(UE4M3, a1) \/ is_zero(E2M1, b0) \/ is_zero(E2M1, b1)
  PROVE  Encoded(Float32, Times(Times(Number(UE4M3, a0), Number(UE4M3, a1)),
                                Times(Number(E2M1, b0), Number(E2M1, b1)))) = Zero
<1> DEFINE r0 == Significand(UE4M3, a0)
           r1 == Significand(UE4M3, a1)
           t0 == Significand(E2M1, b0)
           t1 == Significand(E2M1, b1)
<1>1. ScaleOf(a0, DecodeOf("UE4M3", a0)) /\ ScaleOf(a1, DecodeOf("UE4M3", a1))
      /\ ElementOf(b0, DecodeOf("E2M1", b0)) /\ ElementOf(b1, DecodeOf("E2M1", b1))
  BY ScaledOperands
<1>2. /\ Number(UE4M3, a0).v.m = r0 /\ Number(UE4M3, a1).v.m = r1
      /\ Number(E2M1, b0).v.m = t0 /\ Number(E2M1, b1).v.m = t1
  <2>1. \A sign, n, F, k : TermNumber(sign, n, F, k).v.m = n
    BY DEF TermNumber, Mag
  <2>2. QED BY <2>1, ScaledOperands
<1>3. /\ Read(UE4M3, a0, DecodeOf("UE4M3", a0)) /\ Read(UE4M3, a1, DecodeOf("UE4M3", a1))
      /\ Read(E2M1, b0, DecodeOf("E2M1", b0)) /\ Read(E2M1, b1, DecodeOf("E2M1", b1))
  <2>1. "UE4M3" \in DOMAIN FormatOf /\ "E2M1" \in DOMAIN FormatOf
        /\ FormatOf["UE4M3"] = UE4M3 /\ FormatOf["E2M1"] = E2M1
    BY DEF FormatOf
  <2>2. \A c \in Codes(FormatOf["UE4M3"]) : Read(FormatOf["UE4M3"], c, DecodeOf("UE4M3", c))
    BY <2>1, OperandRead
  <2>3. \A c \in Codes(FormatOf["E2M1"]) : Read(FormatOf["E2M1"], c, DecodeOf("E2M1", c))
    BY <2>1, OperandRead
  <2>4. QED BY <2>1, <2>2, <2>3
<1>4. r0 = 0 \/ r1 = 0 \/ t0 = 0 \/ t1 = 0
  BY <1>1, <1>3 DEF Read, ScaleOf, ElementOf, OperandOf
<1>5. r0 \in Nat /\ r1 \in Nat /\ t0 \in Nat /\ t1 \in Nat
  BY <1>1 DEF ScaleOf, ElementOf, OperandOf, Unpacked
<1> HIDE DEF r0, r1, t0, t1
<1>6. (r0 * r1) * (t0 * t1) = 0
  BY <1>4, <1>5
<1> DEFINE A == Times(Number(UE4M3, a0), Number(UE4M3, a1))
           B == Times(Number(E2M1, b0), Number(E2M1, b1))
<1>7. A.v.m = r0 * r1 /\ B.v.m = t0 * t1
  BY <1>2 DEF Times, Mag
<1> HIDE DEF A, B
<1>8. Times(A, B).v.m = 0
  BY <1>6, <1>7 DEF Times, Mag
<1>9. Encoded(Float32, Times(A, B)) = Zero
  BY <1>8 DEF Encoded, RoundToNearestEven
<1>10. QED BY <1>9 DEF A, B

-----------------------------------------------------------------------------
(* What each design computes of its operands.                              *)

FloatDesigns == {"bf16_add", "fp32_add", "bf16_mult", "fp32_mult"}
Operanded(o, c) ==
  DOMAIN c = DOMAIN OperandTypes[o] /\ \A i \in DOMAIN c : c[i] \in Codes(FormatOf[OperandTypes[o][i]])
Decodings(o, c) == [i \in DOMAIN c |-> DecodeOf(OperandTypes[o][i], c[i])]

\* The number a design gives its encoder.
NumberOf(o, d) ==
  IF o = "ue4m3x2_e2m1x2_add_fp32" THEN SumOf(o, ScaledTermsOf(d[1], d[2], d[3], d[4]))
  ELSE IF o = "ue4m3x2_e2m1x2_mult_fp32" THEN scaled_product(d[1], d[2], d[3], d[4])
  ELSE IF o \in Adders THEN SumOf(o, FloatTermsOf(o, FormatOf[ReturnType(o)], d[1], d[2]))
  ELSE float_product(FormatOf[ReturnType(o)], d[1], d[2])

\* A float design has two operands of the type it returns.
FloatOperands(name, c, d) ==
  /\ name \in {"BFloat16", "Float32"} /\ name \in DOMAIN FormatOf
  /\ \A i \in {1, 2} : c[i] \in Codes(FormatOf[name]) /\ d[i] = DecodeOf(name, c[i])

LEMMA FloatArgs ==
  ASSUME NEW o \in FloatDesigns, NEW c, Operanded(o, c)
  PROVE  FloatOperands(ReturnType(o), c, Decodings(o, c))
<1>1. ReturnType(o) \in {"BFloat16", "Float32"} /\ ReturnType(o) \in DOMAIN FormatOf
  BY DEF ReturnType, FormatOf
<1>2. OperandTypes[o] = Pair(ReturnType(o))
  BY DEF FloatDesigns, OperandTypes, ReturnType
<1>3. DOMAIN OperandTypes[o] = {1, 2} /\ \A i \in {1, 2} : OperandTypes[o][i] = ReturnType(o)
  BY <1>2 DEF Pair
<1>4. QED BY <1>1, <1>3 DEF FloatOperands, Operanded, Decodings

\* A scaled design has two scales and two elements.
ScaledArguments(c, d) ==
  /\ \A i \in {1, 2} : c[i] \in Codes(UE4M3) /\ d[i] = DecodeOf("UE4M3", c[i])
  /\ \A i \in {3, 4} : c[i] \in Codes(E2M1) /\ d[i] = DecodeOf("E2M1", c[i])

LEMMA ScaledArgs ==
  ASSUME NEW o \in {"ue4m3x2_e2m1x2_add_fp32", "ue4m3x2_e2m1x2_mult_fp32"}, NEW c, Operanded(o, c)
  PROVE  ScaledArguments(c, Decodings(o, c))
<1>1. OperandTypes[o] = Scaled
  BY DEF OperandTypes
<1>2. DOMAIN OperandTypes[o] = {1, 2, 3, 4}
      /\ (\A i \in {1, 2} : OperandTypes[o][i] = "UE4M3")
      /\ (\A i \in {3, 4} : OperandTypes[o][i] = "E2M1")
  BY <1>1 DEF Scaled
<1>3. FormatOf["UE4M3"] = UE4M3 /\ FormatOf["E2M1"] = E2M1
  BY DEF FormatOf
<1>4. QED BY <1>2, <1>3 DEF ScaledArguments, Operanded, Decodings

\* Every number given to an encoder is one it takes, whatever the operands.
LEMMA NumberReady ==
  ASSUME NEW o \in Adders \cup Multipliers, NEW c, Operanded(o, c)
  PROVE  Ready(FormatOf[ReturnType(o)], NumberOf(o, Decodings(o, c)))
<1> DEFINE name == ReturnType(o)
           f == FormatOf[name]
           d == Decodings(o, c)
<1>1. o \in FloatDesigns \/ o \in {"ue4m3x2_e2m1x2_add_fp32", "ue4m3x2_e2m1x2_mult_fp32"}
  BY DEF Adders, Multipliers, FloatDesigns
<1>2. CASE o \in FloatDesigns
  <2>1. FloatOperands(name, c, d)
    BY <1>2, FloatArgs
  <2> HIDE DEF name, d
  <2>2. name \in DOMAIN FormatOf /\ c[1] \in Codes(f) /\ c[2] \in Codes(f)
        /\ d[1] = DecodeOf(name, c[1]) /\ d[2] = DecodeOf(name, c[2])
    BY <2>1 DEF FloatOperands
  <2>3. OperandNodes(f, d[1]) /\ OperandNodes(f, d[2])
    BY <2>2, OperandTyped
  <2> DEFINE mb == f.mantissa_bits
             bias == f.exponent_bias
             d1 == d[1]
             d2 == d[2]
  <2>4. Rounds(f, mb, bias) /\ mb \in Nat /\ mb = f.mantissa_bits /\ bias \in Int /\ bias = f.exponent_bias
    BY <2>2, FormatRounds DEF Rounds
  <2>5. CASE o \in {"bf16_add", "fp32_add"}
    <3> DEFINE g == SumOf(o, FloatTermsOf(o, f, d1, d2))
               E1 == effective_exponent(d1).raw
               E2 == effective_exponent(d2).raw
               n == ComputedSum(d1.sign, effective_significand(d1).raw, E1,
                                d2.sign, effective_significand(d2).raw, E2)
    <3>1. o # "ue4m3x2_e2m1x2_add_fp32" /\ NumberOf(o, d) = g
      BY <2>5 DEF NumberOf, Adders, name
    <3>2. OperandNodes(f, d1) /\ OperandNodes(f, d2)
      BY <2>3
    <3> HIDE DEF f, mb, d1, d2
    <3>3. Ready(f, g)
      BY <2>4, <3>1, <3>2, FloatSumGiven
    <3>4. QED BY <3>1, <3>3 DEF f, d, name
  <2>6. CASE o \in {"bf16_mult", "fp32_mult"}
    <3> DEFINE g == float_product(f, d1, d2)
    <3>1. NumberOf(o, d) = g
      BY <2>6 DEF NumberOf, Adders, name
    <3>2. OperandNodes(f, d1) /\ OperandNodes(f, d2)
      BY <2>3
    <3> HIDE DEF f, mb, bias, d1, d2
    <3>3. Ready(f, g)
      BY <2>4, <3>2, FloatProductGiven
    <3>4. QED BY <3>1, <3>3 DEF f, d, name
  <2>7. QED BY <1>2, <2>5, <2>6 DEF FloatDesigns
<1>3. CASE o \in {"ue4m3x2_e2m1x2_add_fp32", "ue4m3x2_e2m1x2_mult_fp32"}
  <2>1. ScaledArguments(c, d) /\ f = Float32
    BY <1>3, ScaledArgs DEF ReturnType, FormatOf
  <2> HIDE DEF name, d
  <2> DEFINE d1 == d[1]
             d2 == d[2]
             d3 == d[3]
             d4 == d[4]
  <2>2. OperandNodes(UE4M3, d1) /\ OperandNodes(UE4M3, d2) /\ OperandNodes(E2M1, d3) /\ OperandNodes(E2M1, d4)
    <3>1. /\ c[1] \in Codes(UE4M3) /\ d1 = DecodeOf("UE4M3", c[1])
          /\ c[2] \in Codes(UE4M3) /\ d2 = DecodeOf("UE4M3", c[2])
          /\ c[3] \in Codes(E2M1) /\ d3 = DecodeOf("E2M1", c[3])
          /\ c[4] \in Codes(E2M1) /\ d4 = DecodeOf("E2M1", c[4])
      BY <2>1 DEF ScaledArguments
    <3>2. QED BY <3>1, ScaledOperands DEF ElementOf
  <2>3. CASE o = "ue4m3x2_e2m1x2_add_fp32"
    <3> DEFINE u == ScaledTermsOf(d1, d2, d3, d4)
               g == SumOf("ue4m3x2_e2m1x2_add_fp32", u)
    <3>1. NumberOf(o, d) = g
      BY <2>3 DEF NumberOf
    <3> HIDE DEF d1, d2, d3, d4
    <3>2. Ready(Float32, g)
      BY <2>2, ScaledSumGiven
    <3>3. QED BY <2>1, <3>1, <3>2 DEF d, name
  <2>4. CASE o = "ue4m3x2_e2m1x2_mult_fp32"
    <3> DEFINE g == scaled_product(d1, d2, d3, d4)
    <3>1. NumberOf(o, d) = g
      BY <2>4 DEF NumberOf
    <3> HIDE DEF d1, d2, d3, d4
    <3>2. Ready(Float32, g)
      BY <2>2, ScaledProductGiven
    <3>3. QED BY <2>1, <3>1, <3>2 DEF d, name
  <2>5. QED BY <1>3, <2>3, <2>4
<1>4. QED BY <1>1, <1>2, <1>3

\* What a design returns, once its encoder has rounded the number it was given.
RoundsGiven(o, c, r) ==
  o \in Adders \cup Multipliers =>
    r = GivenCode(FormatOf[ReturnType(o)], NumberOf(o, Decodings(o, c)))

\* The adders and multipliers of codes of one type.
LEMMA FloatSelected ==
  ASSUME NEW o \in FloatDesigns, NEW c, Operanded(o, c), NEW r, RoundsGiven(o, c, r)
  PROVE  Selected(o, Decodings(o, c), c, r) = SpecifiedBy(o, c)
<1> DEFINE name == ReturnType(o)
           f == FormatOf[name]
           d == Decodings(o, c)
           c1 == c[1]
           c2 == c[2]
           d1 == d[1]
           d2 == d[2]
<1>1. FloatOperands(name, c, d)
  BY FloatArgs
<1>2. r = GivenCode(f, NumberOf(o, d))
  BY DEF RoundsGiven, FloatDesigns, Adders, Multipliers
<1>3. /\ o \in {"bf16_add", "bf16_mult"} => f = BFloat16
      /\ o \in {"fp32_add", "fp32_mult"} => f = Float32
  BY DEF ReturnType, FormatOf
<1>4. /\ o \in {"bf16_add", "fp32_add"} => NumberOf(o, d) = SumOf(o, FloatTermsOf(o, f, d1, d2))
      /\ o \in {"bf16_mult", "fp32_mult"} => NumberOf(o, d) = float_product(f, d1, d2)
  BY DEF NumberOf, Adders
<1>5. /\ o = "bf16_add" => Selected(o, d, c, r) = add_specials(BFloat16, d1, d2, r)
                           /\ SpecifiedBy(o, c) = spec_add(BFloat16, c1, c2)
      /\ o = "fp32_add" => Selected(o, d, c, r) = add_specials(Float32, d1, d2, r)
                           /\ SpecifiedBy(o, c) = spec_add(Float32, c1, c2)
      /\ o = "bf16_mult" => Selected(o, d, c, r) = mult_specials(BFloat16, d1, d2, r)
                            /\ SpecifiedBy(o, c) = spec_mult(BFloat16, c1, c2)
      /\ o = "fp32_mult" => Selected(o, d, c, r) = mult_specials(Float32, d1, d2, r)
                            /\ SpecifiedBy(o, c) = spec_mult(Float32, c1, c2)
  BY DEF Selected, SpecifiedBy, bf16_add, fp32_add, bf16_mult, fp32_mult,
         spec_bf16_add, spec_fp32_add, spec_bf16_mult, spec_fp32_mult
<1> HIDE DEF name, d
<1>6. name \in {"BFloat16", "Float32"} /\ name \in DOMAIN FormatOf /\ c1 \in Codes(f) /\ c2 \in Codes(f)
      /\ d1 = DecodeOf(name, c1) /\ d2 = DecodeOf(name, c2)
  BY <1>1 DEF FloatOperands
<1> HIDE DEF c1, c2, d1, d2
<1>7. Read(f, c1, d1) /\ Read(f, c2, d2)
  BY <1>6, OperandRead
<1>8. /\ c1.sign \in {0, 1} /\ (is_zero(f, c1) /\ c1.sign = 1 <=> c1 = nZero)
      /\ c2.sign \in {0, 1} /\ (is_zero(f, c2) /\ c2.sign = 1 <=> c2 = nZero)
  BY <1>6, NegativeZero
<1>9. CASE o \in {"bf16_add", "fp32_add"}
  <2>1. ASSUME ~ is_nan(f, c1) /\ ~ is_nan(f, c2) /\ ~ is_inf(f, c1) /\ ~ is_inf(f, c2)
        PROVE  r = Encoded(f, Plus(Number(f, c1), Number(f, c2)))
    <3>1. r = GivenCode(f, SumOf(o, FloatTermsOf(o, f, DecodeOf(name, c1), DecodeOf(name, c2))))
      BY <1>2, <1>4, <1>6, <1>9
    <3>2. o # "ue4m3x2_e2m1x2_add_fp32"
      BY <1>9
    <3>3. GivenCode(f, SumOf(o, FloatTermsOf(o, f, DecodeOf(name, c1), DecodeOf(name, c2))))
            = Encoded(f, Plus(Number(f, c1), Number(f, c2)))
      BY <1>6, <2>1, <3>2, FloatSumRounded
    <3>4. QED BY <3>1, <3>3
  <2> HIDE DEF f
  <2>2. add_specials(f, d1, d2, r) = spec_add(f, c1, c2)
    BY <1>7, <1>8, <2>1, SelectedSum
  <2>3. QED BY <1>3, <1>5, <1>9, <2>2 DEF d
<1>10. CASE o \in {"bf16_mult", "fp32_mult"}
  <2>1. ASSUME ~ is_nan(f, c1) /\ ~ is_nan(f, c2) /\ ~ is_inf(f, c1) /\ ~ is_inf(f, c2)
        PROVE  r = Encoded(f, Times(Number(f, c1), Number(f, c2)))
    <3>1. r = GivenCode(f, float_product(f, DecodeOf(name, c1), DecodeOf(name, c2)))
      BY <1>2, <1>4, <1>6, <1>10
    <3>2. GivenCode(f, float_product(f, DecodeOf(name, c1), DecodeOf(name, c2)))
            = Encoded(f, Times(Number(f, c1), Number(f, c2)))
      BY <1>6, <2>1, FloatProductRounded
    <3>3. QED BY <3>1, <3>2
  <2> HIDE DEF f
  <2>2. mult_specials(f, d1, d2, r) = spec_mult(f, c1, c2)
    BY <1>7, <1>8, <2>1, SelectedProduct
  <2>3. QED BY <1>3, <1>5, <1>10, <2>2 DEF d
<1>11. QED BY <1>9, <1>10 DEF FloatDesigns

\* Those of scaled codes.
LEMMA ScaledSelected ==
  ASSUME NEW o \in {"ue4m3x2_e2m1x2_add_fp32", "ue4m3x2_e2m1x2_mult_fp32"},
         NEW c, Operanded(o, c), NEW r, RoundsGiven(o, c, r)
  PROVE  Selected(o, Decodings(o, c), c, r) = SpecifiedBy(o, c)
<1> DEFINE d == Decodings(o, c)
           a0 == c[1]
           a1 == c[2]
           b0 == c[3]
           b1 == c[4]
           d1 == d[1]
           d2 == d[2]
           d3 == d[3]
           d4 == d[4]
<1>1. ScaledArguments(c, d)
  BY ScaledArgs
<1>2. r = GivenCode(Float32, NumberOf(o, d))
  BY DEF RoundsGiven, Adders, Multipliers, ReturnType, FormatOf
<1>3. /\ o = "ue4m3x2_e2m1x2_add_fp32" =>
           /\ NumberOf(o, d) = SumOf("ue4m3x2_e2m1x2_add_fp32", ScaledTermsOf(d1, d2, d3, d4))
           /\ Selected(o, d, c, r) = ue4m3x2_e2m1x2_add_fp32(d1, d2, d3, d4, r)
           /\ SpecifiedBy(o, c) = spec_ue4m3x2_e2m1x2_add_fp32(a0, a1, b0, b1)
      /\ o = "ue4m3x2_e2m1x2_mult_fp32" =>
           /\ NumberOf(o, d) = scaled_product(d1, d2, d3, d4)
           /\ Selected(o, d, c, r) = ue4m3x2_e2m1x2_mult_fp32(d1, d2, d3, d4, r)
           /\ SpecifiedBy(o, c) = spec_ue4m3x2_e2m1x2_mult_fp32(a0, a1, b0, b1)
  BY DEF NumberOf, Selected, SpecifiedBy
<1> HIDE DEF d
<1>4. /\ a0 \in Codes(UE4M3) /\ d1 = DecodeOf("UE4M3", a0) /\ a1 \in Codes(UE4M3) /\ d2 = DecodeOf("UE4M3", a1)
      /\ b0 \in Codes(E2M1) /\ d3 = DecodeOf("E2M1", b0) /\ b1 \in Codes(E2M1) /\ d4 = DecodeOf("E2M1", b1)
  BY <1>1 DEF ScaledArguments
<1> HIDE DEF a0, a1, b0, b1, d1, d2, d3, d4
<1>5. Read(UE4M3, a0, d1) /\ Read(UE4M3, a1, d2) /\ Read(E2M1, b0, d3) /\ Read(E2M1, b1, d4)
  <2>1. "UE4M3" \in DOMAIN FormatOf /\ "E2M1" \in DOMAIN FormatOf
        /\ FormatOf["UE4M3"] = UE4M3 /\ FormatOf["E2M1"] = E2M1
    BY DEF FormatOf
  <2>2. \A k \in Codes(FormatOf["UE4M3"]) : Read(FormatOf["UE4M3"], k, DecodeOf("UE4M3", k))
    BY <2>1, OperandRead
  <2>3. \A k \in Codes(FormatOf["E2M1"]) : Read(FormatOf["E2M1"], k, DecodeOf("E2M1", k))
    BY <2>1, OperandRead
  <2>4. QED BY <1>4, <2>1, <2>2, <2>3
<1>6. CASE o = "ue4m3x2_e2m1x2_add_fp32"
  <2> DEFINE exact == Encoded(Float32, Plus(Times(Number(UE4M3, a0), Number(E2M1, b0)),
                                            Times(Number(UE4M3, a1), Number(E2M1, b1))))
  <2>1. ~ is_nan(UE4M3, a0) /\ ~ is_nan(UE4M3, a1) => r = exact
    BY <1>2, <1>3, <1>4, <1>6, ScaledSumRounded
  <2>2. spec_ue4m3x2_e2m1x2_add_fp32(a0, a1, b0, b1) =
          IF is_nan(UE4M3, a0) \/ is_nan(UE4M3, a1) THEN Float32.NaN
          ELSE IF /\ is_zero(UE4M3, a0) \/ is_zero(E2M1, b0)
                  /\ is_zero(UE4M3, a1) \/ is_zero(E2M1, b1)
                  /\ b0.sign = 1 /\ b1.sign = 1
          THEN nZero ELSE exact
    BY DEF spec_ue4m3x2_e2m1x2_add_fp32
  <2> HIDE DEF exact
  <2>3. ue4m3x2_e2m1x2_add_fp32(d1, d2, d3, d4, r) = spec_ue4m3x2_e2m1x2_add_fp32(a0, a1, b0, b1)
    BY <1>5, <2>1, <2>2 DEF ue4m3x2_e2m1x2_add_fp32, Read
  <2>4. QED BY <1>3, <1>6, <2>3 DEF d
<1>7. CASE o = "ue4m3x2_e2m1x2_mult_fp32"
  <2> DEFINE exact == Encoded(Float32, Times(Times(Number(UE4M3, a0), Number(UE4M3, a1)),
                                             Times(Number(E2M1, b0), Number(E2M1, b1))))
             zero == is_zero(UE4M3, a0) \/ is_zero(UE4M3, a1) \/ is_zero(E2M1, b0) \/ is_zero(E2M1, b1)
             good == ~ is_nan(UE4M3, a0) /\ ~ is_nan(UE4M3, a1)
  <2>1. good => r = exact
    BY <1>2, <1>3, <1>4, <1>7, ScaledProductRounded
  <2>2. good /\ zero => exact = Zero
    BY <1>4, ZeroProduct
  <2>3. spec_ue4m3x2_e2m1x2_mult_fp32(a0, a1, b0, b1) =
          IF ~ good THEN Float32.NaN ELSE IF zero /\ b0.sign # b1.sign THEN nZero ELSE exact
    BY DEF spec_ue4m3x2_e2m1x2_mult_fp32
  <2>4. xor(b0.sign, b1.sign) = 1 <=> b0.sign # b1.sign
    <3>1. b0.sign \in {0, 1} /\ b1.sign \in {0, 1}
      BY <1>4, ScaledOperands DEF ElementOf, OperandNodes, OperandOf
    <3>2. QED BY <3>1, SignXor
  <2>5. ue4m3x2_e2m1x2_mult_fp32(d1, d2, d3, d4, r) =
          IF ~ good THEN Float32.NaN
          ELSE IF zero THEN IF xor(b0.sign, b1.sign) = 1 THEN nZero ELSE Zero ELSE r
    BY <1>5 DEF ue4m3x2_e2m1x2_mult_fp32, Read
  <2> HIDE DEF exact, zero, good
  <2>6. ue4m3x2_e2m1x2_mult_fp32(d1, d2, d3, d4, r) = spec_ue4m3x2_e2m1x2_mult_fp32(a0, a1, b0, b1)
    BY <2>1, <2>2, <2>3, <2>4, <2>5
  <2>7. QED BY <1>3, <1>7, <2>6 DEF d
<1>8. QED BY <1>6, <1>7

\* Every design returns what the specification it carries says.
LEMMA SelectedRight ==
  ASSUME NEW o \in DOMAIN OperandTypes, NEW c, Operanded(o, c), NEW r, RoundsGiven(o, c, r)
  PROVE  Selected(o, Decodings(o, c), c, r) = SpecifiedBy(o, c)
<1>1. \/ o \in FloatDesigns
      \/ o \in {"ue4m3x2_e2m1x2_add_fp32", "ue4m3x2_e2m1x2_mult_fp32"}
      \/ o = "bf16_relu"
  BY DEF OperandTypes, FloatDesigns
<1>2. CASE o = "bf16_relu"
  <2> DEFINE d == Decodings(o, c)
             c1 == c[1]
             d1 == d[1]
  <2>1. OperandTypes[o] = <<"BFloat16">>
    BY <1>2 DEF OperandTypes
  <2>2. c1 \in Codes(FormatOf["BFloat16"]) /\ d1 = DecodeOf("BFloat16", c1) /\ "BFloat16" \in DOMAIN FormatOf
        /\ FormatOf["BFloat16"] = BFloat16
    BY <2>1 DEF Operanded, Decodings, FormatOf
  <2>3. Selected(o, d, c, r) = bf16_relu(d1, c1) /\ SpecifiedBy(o, c) = spec_bf16_relu(c1)
    BY <1>2 DEF Selected, SpecifiedBy
  <2> HIDE DEF c1, d1
  <2>4. Read(BFloat16, c1, d1)
    <3>1. Read(FormatOf["BFloat16"], c1, DecodeOf("BFloat16", c1))
      BY <2>2, OperandRead
    <3>2. QED BY <2>2, <3>1
  <2>5. bf16_relu(d1, c1) = spec_bf16_relu(c1)
    BY <2>4 DEF bf16_relu, spec_bf16_relu, Read
  <2>6. QED BY <2>3, <2>5
<1>3. QED BY <1>1, <1>2, FloatSelected, ScaledSelected

-----------------------------------------------------------------------------
(* The steps of a design.                                                  *)

\* The encoder of a design has been given its number.
EncoderRuns ==
  /\ stage # "idle" /\ ConverterInv /\ ValueInv
  /\ given = NumberOf(op, Decodings(op, args))

TermsFor(o, d) ==
  IF o = "ue4m3x2_e2m1x2_add_fp32"
  THEN <<scaled_term(d[1], d[3]), scaled_term(d[2], d[4])>>
  ELSE <<float_term(FormatOf[ReturnType(o)], d[1]), float_term(FormatOf[ReturnType(o)], d[2])>>
AlignedFor(o, t) == <<aligned(o, t, 1), aligned(o, t, 2)>>

\* How far a design has come, and what it has computed by then.
Underway ==
  /\ op \in DOMAIN Operands /\ args \in Operands[op]
  /\ design = [from |-> "encoder", to |-> ReturnType(op)]
  /\ phase \in {"decode", "terms", "align", "add", "multiply", "select", "encode", "done"}
  /\ phase # "decode" => decoded = Decodings(op, args)
  /\ phase \in {"terms", "align", "add"} => op \in Adders
  /\ phase = "multiply" => op \in Multipliers
  /\ phase = "select" => op \notin Adders \cup Multipliers
  /\ phase = "align" => terms = TermsFor(op, Decodings(op, args))
  /\ phase = "add" => terms = AlignedFor(op, TermsFor(op, Decodings(op, args)))
  /\ phase \notin {"encode", "done"} => stage = "idle"
  /\ phase = "encode" => stage # "idle"
  /\ phase = "done" => output = SpecifiedBy(op, args)
  /\ stage = "idle" => exact_zero \in BOOLEAN
  /\ stage # "idle" => EncoderRuns

\* The inductive invariant: a conversion, or a design on its operands.
ArithmeticInv ==
  \/ op = "none" /\ phase = "off" /\ ConverterInv /\ ValueInv
  \/ Underway

LEMMA ReturnFormat ==
  \A o : ReturnType(o) \in DOMAIN FormatOf
BY DEF ReturnType, FormatOf

LEMMA OperandsOf ==
  ASSUME NEW o \in DOMAIN Operands, NEW c \in Operands[o]
  PROVE  o \in DOMAIN OperandTypes /\ o # "none" /\ Operanded(o, c)
<1>1. o \in DOMAIN OperandTypes /\ Operanded(o, c)
  BY OperandsAssumption DEF Operanded
<1>2. o # "none"
  BY <1>1 DEF OperandTypes
<1>3. QED BY <1>1, <1>2

LEMMA InitUnderway == InitArithmetic => ArithmeticInv
<1>1. ASSUME InitConversion PROVE ArithmeticInv
  BY <1>1, InitTyping, InitValue DEF InitConversion, ArithmeticInv
<1>2. ASSUME InitDesign PROVE Underway
  BY <1>2 DEF InitDesign, Underway
<1>3. QED BY <1>1, <1>2 DEF InitArithmetic, ArithmeticInv

\* The encoder starts with the number it is given, whatever the widths of its nodes.
LEMMA EncoderEntered ==
  ASSUME NEW name \in DOMAIN FormatOf, design = [from |-> "encoder", to |-> name],
         exact_zero \in BOOLEAN, NEW g, Ready(FormatOf[name], g), CallEncoder(g)
  PROVE  ConverterInv' /\ ValueInv' /\ stage' = "normalize" /\ given' = g
<1>1. /\ s' = g.s /\ e' = g.e /\ m' = g.m /\ given' = g /\ stage' = "normalize"
      /\ UNCHANGED <<design, x, X, exact_zero, result, origin>>
  BY DEF CallEncoder
<1>2. /\ g.s \in {0, 1}
      /\ IsNode(g.m) /\ total_bits(g.m) # 0 /\ FractionBits(g.m) + 1 >= FormatOf[name].mantissa_bits
      /\ IsNode(g.e) /\ g.e.frac = 0 /\ g.e.int >= 1 /\ scaled_integer(g.e) \in Int
  BY DEF Ready
<1>3. design' \in Designs /\ ~ Converting' /\ To' = FormatOf[name]
  BY <1>1 DEF Designs, Converting, To
<1>4. ConverterInv'
  BY <1>1, <1>2, <1>3 DEF ConverterInv, Typing, ZeroKept, SpecialsAsDocumented
<1>5. GivenTyped'
  <2>1. g.m.raw \in Nat /\ g.m.frac \in Nat
    BY <1>2, NodeFields
  <2>2. QED BY <1>1, <1>2, <2>1 DEF GivenTyped
<1>6. Value' = GivenMagnitude' /\ Sign' = s'
  BY <1>1, <1>3 DEF Value, Sign
<1>7. GivenMagnitude' = Mag(g.m.raw, scaled_integer(g.e) - To'.exponent_bias - g.m.frac)
  BY <1>1 DEF GivenMagnitude
<1>8. Prepared'
  <2>1. Value'.m = m'.raw
    BY <1>1, <1>6, <1>7 DEF Mag
  <2>2. FractionBits(m)' = FractionBits(g.m) /\ scaled_integer(e)' = scaled_integer(g.e)
    BY <1>1
  <2>3. SamePlace(m.raw, scaled_integer(e) - To.exponent_bias - m.frac)'
    BY <1>1, <1>6, <1>7, <2>2 DEF SamePlace, PlaceOf
  <2>4. QED BY <1>2, <1>3, <2>1, <2>2, <2>3 DEF Prepared
<1>9. QED BY <1>1, <1>4, <1>5, <1>6, <1>8 DEF ValueInv, OnTheWay

\* An encoder used directly keeps what it was given.
LEMMA EncoderGoesOn ==
  ASSUME ConverterInv, ~ Converting, Next
  PROVE  UNCHANGED <<design, given>> /\ stage' # "idle" /\ stage # "idle"
<1>1. stage \notin {"decode", "rebase", "specials"}
  BY DEF ConverterInv, Typing
<1>2. QED BY <1>1 DEF Next, Decode, Rebase, Normalize, Shift, Round, Encode, Specials, Return

LEMMA NothingGoesOn ==
  ASSUME stage = "idle" PROVE ~ Next
BY DEF Next, Decode, Rebase, Normalize, Shift, Round, Encode, Specials, Return

\* What the encoder leaves at its end is the code of the number it was given.
LEMMA EncoderEnds ==
  ASSUME Underway, stage = "done", op \in Adders \cup Multipliers
  PROVE  RoundsGiven(op, args, result)
<1>1. ~ Converting /\ To = FormatOf[ReturnType(op)] /\ EncoderRuns
  BY DEF Underway, Converting, To
<1>2. result = RoundToNearestEven(To, Sign, Value)
  BY <1>1 DEF EncoderRuns, ValueInv, OnTheWay, Finite
<1>3. Sign = given.s /\ Value = GivenMagnitude
  BY <1>1 DEF Sign, Value
<1>4. result = GivenCode(To, given)
  BY <1>2, <1>3 DEF GivenCode, GivenMagnitude
<1>5. QED BY <1>1, <1>4 DEF EncoderRuns, RoundsGiven

\* A step that leaves the encoder alone leaves it running.
LEMMA EncoderKept ==
  ASSUME EncoderRuns, UNCHANGED <<vars, op, args>>
  PROVE  EncoderRuns'
<1>1. stage' = stage /\ given' = given /\ op' = op /\ args' = args /\ UNCHANGED vars
  BY DEF vars
<1>2. ConverterInv' /\ ValueInv'
  BY <1>1, ConverterStep, ValueStep DEF EncoderRuns
<1>3. QED BY <1>1, <1>2 DEF EncoderRuns

LEMMA ConversionStep ==
  ASSUME ArithmeticInv, phase = "off", [NextArithmetic]_<<vars, arithmetic>>
  PROVE  ArithmeticInv' /\ [Next]_vars /\ UNCHANGED arithmetic
<1>1. op = "none" /\ ConverterInv /\ ValueInv
  BY DEF ArithmeticInv, Underway
<1>2. [Next]_vars /\ UNCHANGED arithmetic
  BY DEF NextArithmetic, DecodeOperands, FormTerms, AlignTerms, AddTerms, Multiply, Proceed, Select, arithmetic
<1>3. ConverterInv' /\ ValueInv'
  BY <1>1, <1>2, ConverterStep, ValueStep
<1>4. op' = op /\ phase' = phase
  BY <1>2 DEF arithmetic
<1>5. QED BY <1>1, <1>2, <1>3, <1>4 DEF ArithmeticInv

LEMMA DesignStep ==
  ASSUME Underway, NextArithmetic
  PROVE  Underway'
<1> DEFINE d == Decodings(op, args)
<1>1. op \in DOMAIN Operands /\ args \in Operands[op] /\ op \in DOMAIN OperandTypes /\ Operanded(op, args)
      /\ To = FormatOf[ReturnType(op)] /\ ReturnType(op) \in DOMAIN FormatOf
      /\ design = [from |-> "encoder", to |-> ReturnType(op)] /\ ~ Converting
  BY OperandsOf, ReturnFormat DEF Underway, To, Converting
<1>2. CASE DecodeOperands
  <2>1. /\ phase = "decode" /\ decoded' = d /\ UNCHANGED <<op, args, terms, output, vars>>
        /\ phase' = IF op \in Adders THEN "terms" ELSE IF op \in Multipliers THEN "multiply" ELSE "select"
    BY <1>2 DEF DecodeOperands, Decodings
  <2>2. stage = "idle" /\ exact_zero \in BOOLEAN
    BY <2>1 DEF Underway
  <2>3. stage' = stage /\ design' = design /\ exact_zero' = exact_zero
    BY <2>1 DEF vars
  <2>4. QED BY <1>1, <2>1, <2>2, <2>3 DEF Underway
<1>3. CASE FormTerms
  <2>1. /\ phase = "terms" /\ phase' = "align" /\ terms' = TermsOf(op, decoded)
        /\ UNCHANGED <<op, args, decoded, output, vars>>
    BY <1>3 DEF FormTerms
  <2>2. stage = "idle" /\ exact_zero \in BOOLEAN /\ decoded = d /\ op \in Adders
    BY <2>1 DEF Underway
  <2>3. stage' = stage /\ design' = design /\ exact_zero' = exact_zero
    BY <2>1 DEF vars
  <2>4. TermsOf(op, decoded) = TermsFor(op, d)
    BY <1>1, <2>2 DEF TermsOf, TermsFor
  <2>5. QED BY <1>1, <2>1, <2>2, <2>3, <2>4 DEF Underway
<1>4. CASE AlignTerms
  <2>1. /\ phase = "align" /\ phase' = "add" /\ terms' = AlignedFor(op, terms)
        /\ UNCHANGED <<op, args, decoded, output, vars>>
    BY <1>4 DEF AlignTerms, AlignedFor
  <2>2. stage = "idle" /\ exact_zero \in BOOLEAN /\ decoded = d /\ op \in Adders /\ terms = TermsFor(op, d)
    BY <2>1 DEF Underway
  <2>3. stage' = stage /\ design' = design /\ exact_zero' = exact_zero
    BY <2>1 DEF vars
  <2>4. QED BY <1>1, <2>1, <2>2, <2>3 DEF Underway
<1>5. ASSUME NEW g, g = NumberOf(op, d), CallEncoder(g), op \in Adders \cup Multipliers,
             phase \in {"add", "multiply"}
      PROVE  Underway'
  <2>1. stage = "idle" /\ exact_zero \in BOOLEAN /\ decoded = d
    BY <1>5 DEF Underway
  <2>2. Ready(FormatOf[ReturnType(op)], g)
    BY <1>1, <1>5, NumberReady
  <2> DEFINE name == ReturnType(op)
  <2>3. name \in DOMAIN FormatOf /\ design = [from |-> "encoder", to |-> name] /\ Ready(FormatOf[name], g)
    BY <1>1, <2>2
  <2> HIDE DEF name
  <2>4. ConverterInv' /\ ValueInv' /\ stage' = "normalize" /\ given' = g
    BY <1>5, <2>1, <2>3, EncoderEntered
  <2>5. phase' = "encode" /\ UNCHANGED <<design, op, args, decoded, terms, output>>
    BY <1>5 DEF CallEncoder
  <2>6. EncoderRuns'
    BY <1>5, <2>4, <2>5 DEF EncoderRuns
  <2>7. QED BY <1>1, <2>1, <2>4, <2>5, <2>6 DEF Underway
<1>6. CASE AddTerms
  <2>1. phase = "add" /\ CallEncoder(SumOf(op, terms))
    BY <1>6 DEF AddTerms
  <2>2. op \in Adders /\ terms = AlignedFor(op, TermsFor(op, d))
    BY <2>1 DEF Underway
  <2>3. SumOf(op, terms) = NumberOf(op, d)
    <3>1. CASE op = "ue4m3x2_e2m1x2_add_fp32"
      <4>1. terms = ScaledTermsOf(d[1], d[2], d[3], d[4])
        BY <2>2, <3>1 DEF TermsFor, AlignedFor, ScaledTermsOf
      <4>2. QED BY <3>1, <4>1 DEF NumberOf
    <3>2. CASE op # "ue4m3x2_e2m1x2_add_fp32"
      <4>1. terms = FloatTermsOf(op, FormatOf[ReturnType(op)], d[1], d[2])
        BY <2>2, <3>2 DEF TermsFor, AlignedFor, FloatTermsOf
      <4>2. op # "ue4m3x2_e2m1x2_mult_fp32"
        BY <2>2 DEF Adders
      <4>3. QED BY <2>2, <3>2, <4>1, <4>2 DEF NumberOf
    <3>3. QED BY <3>1, <3>2
  <2>4. QED BY <1>5, <2>1, <2>2, <2>3
<1>7. CASE Multiply
  <2>1. phase = "multiply" /\ CallEncoder(ProductOf(op, decoded))
    BY <1>7 DEF Multiply
  <2>2. op \in Multipliers /\ decoded = d
    BY <2>1 DEF Underway
  <2>3. ProductOf(op, decoded) = NumberOf(op, d)
    BY <1>1, <2>2 DEF ProductOf, NumberOf, Multipliers, Adders
  <2>4. QED BY <1>5, <2>1, <2>2, <2>3
<1>8. CASE Proceed
  <2>1. Next /\ UNCHANGED <<op, args, decoded, terms, phase, output>>
    BY <1>8 DEF Proceed, arithmetic
  <2>2. stage # "idle" /\ EncoderRuns
    BY <2>1, NothingGoesOn DEF Underway
  <2>3. ConverterInv' /\ ValueInv' /\ UNCHANGED <<design, given>> /\ stage' # "idle"
    BY <1>1, <2>1, <2>2, ConverterStep, ValueStep, EncoderGoesOn DEF EncoderRuns
  <2>4. EncoderRuns'
    BY <2>1, <2>2, <2>3 DEF EncoderRuns
  <2>5. phase \in {"encode", "done"}
    BY <2>2 DEF Underway
  <2>6. QED BY <2>1, <2>3, <2>4, <2>5 DEF Underway
<1>9. CASE Select
  <2>1. /\ phase = "select" \/ (phase = "encode" /\ stage = "done")
        /\ output' = Selected(op, decoded, args, result) /\ phase' = "done"
        /\ UNCHANGED <<op, args, decoded, terms, vars>>
    BY <1>9 DEF Select
  <2>2. decoded = d
    BY <2>1 DEF Underway
  <2>3. RoundsGiven(op, args, result)
    <3>1. CASE phase = "select"
      BY <3>1 DEF Underway, RoundsGiven
    <3>2. CASE phase = "encode" /\ stage = "done"
      BY <3>2, EncoderEnds DEF RoundsGiven
    <3>3. QED BY <2>1, <3>1, <3>2
  <2>4. output' = SpecifiedBy(op, args)
    BY <1>1, <2>1, <2>2, <2>3, SelectedRight
  <2>5. stage' = stage /\ design' = design /\ exact_zero' = exact_zero
    BY <2>1 DEF vars
  <2>6. stage # "idle" => EncoderRuns'
    BY <2>1, EncoderKept DEF Underway
  <2>7. stage = "idle" => exact_zero \in BOOLEAN
    BY DEF Underway
  <2>8. QED BY <1>1, <2>1, <2>2, <2>4, <2>5, <2>6, <2>7 DEF Underway
<1>10. QED
  BY <1>2, <1>3, <1>4, <1>6, <1>7, <1>8, <1>9 DEF NextArithmetic

LEMMA DesignStutter ==
  ASSUME Underway, UNCHANGED <<vars, arithmetic>>
  PROVE  Underway'
<1>1. UNCHANGED <<vars, op, args, decoded, terms, phase, output>>
  BY DEF arithmetic
<1>2. stage' = stage /\ design' = design /\ exact_zero' = exact_zero
  BY <1>1 DEF vars
<1>3. stage # "idle" => EncoderRuns'
  BY <1>1, EncoderKept DEF Underway
<1>4. QED BY <1>1, <1>2, <1>3 DEF Underway

LEMMA ArithmeticStep == ArithmeticInv /\ [NextArithmetic]_<<vars, arithmetic>> => ArithmeticInv'
<1> SUFFICES ASSUME ArithmeticInv, [NextArithmetic]_<<vars, arithmetic>> PROVE ArithmeticInv'
  OBVIOUS
<1>1. CASE phase = "off"
  BY <1>1, ConversionStep
<1>2. CASE Underway
  BY <1>2, DesignStep, DesignStutter DEF ArithmeticInv
<1>3. QED BY <1>1, <1>2 DEF ArithmeticInv

-----------------------------------------------------------------------------
(* The theorems.                                                           *)

\* Every design on codes is correctly rounded and gives the special values its
\* documentation names: the converters and the encoders, whatever the codes converted
\* and the widths of the nodes encoded, and the adders, the multipliers and the
\* rectifier of examples/arithmetic, whatever their operands.  No bit that decides
\* the rounding is lost by an alignment, and the only rounding is the encoder's.
THEOREM DesignsRoundedAsSpecified == SpecArithmetic => []DesignsAsSpecified
<1>1. ArithmeticInv => DesignsAsSpecified
  <2> SUFFICES ASSUME ArithmeticInv PROVE DesignsAsSpecified
    OBVIOUS
  <2>1. phase = "done" => output = SpecifiedBy(op, args)
    BY DEF ArithmeticInv, Underway
  <2>2. stage = "done" => ConverterInv /\ ValueInv
    BY DEF ArithmeticInv, Underway, EncoderRuns
  <2>3. AsDocumented
    BY <2>2 DEF AsDocumented, NumbersAsDocumented, SpecialsAsDocumented, ConverterInv, ValueInv, OnTheWay
  <2>4. QED BY <2>1, <2>3 DEF DesignsAsSpecified, ArithmeticAsSpecified
<1>2. QED BY <1>1, InitUnderway, ArithmeticStep, PTL DEF SpecArithmetic

\* Without a design the module is the converters: what is proved of them holds in it.
THEOREM ConvertersIncluded == SpecArithmetic /\ op = "none" => Spec
<1> DEFINE Inactive == phase = "off"
<1>1. InitArithmetic /\ op = "none" => Init /\ Inactive
  BY OperandsOf DEF InitArithmetic, InitConversion, InitDesign
<1>2. ArithmeticInv /\ Inactive /\ [NextArithmetic]_<<vars, arithmetic>> => Inactive' /\ [Next]_vars
  BY ConversionStep DEF arithmetic
<1> HIDE DEF Inactive
<1>3. InitArithmetic => ArithmeticInv
  BY InitUnderway
<1>4. SpecArithmetic => []ArithmeticInv
  BY <1>3, ArithmeticStep, PTL DEF SpecArithmetic
<1>5. SpecArithmetic /\ op = "none" => []Inactive /\ [][Next]_vars
  BY <1>1, <1>2, <1>4, PTL DEF SpecArithmetic
<1>6. SpecArithmetic /\ op = "none" => Init
  BY <1>1 DEF SpecArithmetic
<1>7. QED BY <1>5, <1>6 DEF Spec
=============================================================================
