--------------------------- MODULE Converter_proofs ---------------------------
(***************************************************************************)
(* What is proved of the encoders and converters.  The data path is        *)
(* followed twice: ConverterInv is about the types of its nodes and the    *)
(* special values, ValueInv about the number on its way from the decoded   *)
(* code to the packed one.  Trip follows a code to Float32 and back.  The  *)
(* lemmas in between are about the operators: powers of two, what a node   *)
(* of a type holds, and what each Primitive does to it.                    *)
(***************************************************************************)
EXTENDS Converter, FiniteSetTheorems, FunctionTheorems, WellFoundedInduction, TLAPS

-----------------------------------------------------------------------------
(* Powers of two.                                                          *)

\* The powers of two count subsets.
LEMMA PowerOfCardinality ==
  \A n \in Nat : /\ IsFiniteSet(SUBSET (1 .. n))
                 /\ Cardinality(SUBSET (1 .. n)) = 2^n
<1>1. SUFFICES ASSUME NEW n \in Nat
               PROVE  /\ IsFiniteSet(SUBSET (1 .. n))
                      /\ Cardinality(SUBSET (1 .. n)) = 2^n
  OBVIOUS
<1>2. IsFiniteSet(1 .. n) /\ Cardinality(1 .. n) = n
  BY FS_Interval
<1>3. QED BY <1>2, FS_SUBSET

\* Induction over the naturals: a set of numbers that is not empty has a least one.
LEMMA LeastNumber ==
  ASSUME NEW S \in SUBSET Nat, S # {}
  PROVE  \E n \in S : \A k \in S : n <= k
<1> DEFINE R == OpToRel(<, Nat)
<1>1. IsWellFoundedOn(R, Nat)
  BY NatLessThanWellFounded
<1>2. \A k, n \in Nat : k < n => <<k, n>> \in R
  BY DEF OpToRel
<1> HIDE DEF R
<1>3. S \subseteq Nat
  OBVIOUS
<1>s. \E n \in S : \A k \in S : ~ (<<k, n>> \in R)
  BY <1>1, <1>3, WFMin
<1>4. PICK n \in S : \A k \in S : ~ (<<k, n>> \in R)
  BY <1>s
<1>5. ASSUME NEW k \in S PROVE n <= k
  <2>1. ~ k < n
    BY <1>2, <1>3, <1>4
  <2>2. QED BY <1>3, <2>1
<1>6. QED BY <1>5

LEMMA PowerPositive == \A n \in Nat : 2^n \in Nat /\ 2^n > 0
<1>1. SUFFICES ASSUME NEW n \in Nat PROVE 2^n \in Nat /\ 2^n > 0
  OBVIOUS
<1>2. IsFiniteSet(SUBSET (1 .. n)) /\ Cardinality(SUBSET (1 .. n)) = 2^n
  BY PowerOfCardinality
<1>3. Cardinality(SUBSET (1 .. n)) \in Nat
  BY <1>2, FS_CardinalityType
<1>4. Cardinality(SUBSET (1 .. n)) # 0
  BY <1>2, FS_EmptySet
<1>5. QED BY <1>2, <1>3, <1>4

LEMMA PowerStep == \A n \in Nat : 2^(n + 1) = 2 * 2^n
<1>1. SUFFICES ASSUME NEW n \in Nat PROVE 2^(n + 1) = 2 * 2^n
  OBVIOUS
<1> DEFINE S == SUBSET (1 .. n)
           T == {A \cup {n + 1} : A \in S}
           F == [A \in S |-> A \cup {n + 1}]
<1>2. IsFiniteSet(S) /\ Cardinality(S) = 2^n
  BY PowerOfCardinality
<1>3. IsFiniteSet(T) /\ Cardinality(T) = 2^n
  <2>1. F \in [S -> T] /\ \A t \in T : \E A \in S : F[A] = t
    OBVIOUS
  <2>2. ASSUME NEW A \in S, NEW B \in S, F[A] = F[B] PROVE A = B
    <3>1. n + 1 \notin A /\ n + 1 \notin B
      OBVIOUS
    <3>2. A = F[A] \ {n + 1} /\ B = F[B] \ {n + 1}
      BY <3>1
    <3>3. QED BY <2>2, <3>2
  <2> HIDE DEF F, S, T
  <2>3. F \in Bijection(S, T)
    BY <2>1, <2>2, Fun_IsBij
  <2>4. ExistsBijection(S, T)
    BY <2>3, Fun_ExistsBij
  <2>5. QED BY <1>2, <2>4, FS_Bijection
<1>4. SUBSET (1 .. (n + 1)) = S \cup T
  <2>1. ASSUME NEW A \in SUBSET (1 .. (n + 1)), n + 1 \in A PROVE A \in T
    <3>1. A \ {n + 1} \in S
      OBVIOUS
    <3>2. A = (A \ {n + 1}) \cup {n + 1}
      BY <2>1
    <3>3. QED BY <3>1, <3>2
  <2>2. ASSUME NEW A \in SUBSET (1 .. (n + 1)), n + 1 \notin A PROVE A \in S
    BY <2>2
  <2>3. ASSUME NEW A \in S \cup T PROVE A \in SUBSET (1 .. (n + 1))
    <3>1. (1 .. n) \subseteq 1 .. (n + 1) /\ n + 1 \in 1 .. (n + 1)
      OBVIOUS
    <3>2. QED BY <3>1
  <2>4. QED BY <2>1, <2>2, <2>3
<1>5. S \cap T = {}
  <2>1. \A A \in S : n + 1 \notin A
    OBVIOUS
  <2>2. \A A \in T : n + 1 \in A
    OBVIOUS
  <2>3. QED BY <2>1, <2>2
<1>6. Cardinality(S \cap T) = 0
  BY <1>5, FS_EmptySet
<1> HIDE DEF S, T
<1>7. Cardinality(S \cup T) = 2^n + 2^n - 0
  BY <1>2, <1>3, <1>6, FS_Union
<1>8. Cardinality(SUBSET (1 .. (n + 1))) = 2^(n + 1)
  BY PowerOfCardinality
<1>9. Cardinality(S \cup T) = 2^(n + 1)
  BY <1>4, <1>8, Zenon
<1>10. QED BY <1>7, <1>9, PowerPositive

LEMMA PowerSum == \A a, b \in Nat : 2^(a + b) = 2^a * 2^b
<1>1. SUFFICES ASSUME NEW a \in Nat,
                      NEW S, S = {b \in Nat : 2^(a + b) # 2^a * 2^b}, S # {}
               PROVE  FALSE
  <2>1. ASSUME NEW a \in Nat, NEW b \in Nat, 2^(a + b) # 2^a * 2^b PROVE FALSE
    <3> DEFINE S == {k \in Nat : 2^(a + k) # 2^a * 2^k}
    <3>1. b \in S
      BY <2>1
    <3> HIDE DEF S
    <3>2. QED BY <1>1, <3>1 DEF S
  <2>2. QED BY <2>1
<1>2. PICK b \in S : \A k \in S : b <= k
  BY <1>1, LeastNumber
<1>3. b \in Nat /\ 2^(a + b) # 2^a * 2^b
  BY <1>1
<1>4. CASE b = 0
  <2>1. 2^b = 1 /\ a + b = a /\ 2^a \in Nat
    BY <1>4, PowerPositive, 2^0 = 1
  <2>2. QED BY <1>3, <2>1
<1>5. CASE b # 0
  <2>1. PICK c \in Nat : b = c + 1
    <3>1. b - 1 \in Nat /\ b = (b - 1) + 1
      BY <1>3, <1>5
    <3>2. QED BY <3>1
  <2>2. c \notin S
    BY <1>2, <1>3, <2>1
  <2>3. 2^(a + c) = 2^a * 2^c
    BY <1>1, <2>1, <2>2
  <2>4. 2^(a + b) = 2 * 2^(a + c) /\ 2^b = 2 * 2^c
    <3>1. a + b = (a + c) + 1 /\ a + c \in Nat
      BY <1>3, <2>1
    <3>2. QED BY <2>1, <3>1, PowerStep
  <2>5. 2^a \in Nat /\ 2^c \in Nat
    BY PowerPositive
  <2>6. 2 * (2^a * 2^c) = 2^a * (2 * 2^c)
    BY <2>5
  <2>7. QED BY <1>3, <2>3, <2>4, <2>6
<1>6. QED BY <1>4, <1>5

LEMMA PowerMonotone == \A a, b \in Nat : a <= b => 2^a <= 2^b
<1>1. SUFFICES ASSUME NEW a \in Nat, NEW b \in Nat, a <= b PROVE 2^a <= 2^b
  OBVIOUS
<1>2. b - a \in Nat /\ a + (b - a) = b
  BY <1>1
<1>3. 2^b = 2^a * 2^(b - a)
  BY <1>2, PowerSum
<1>4. QED BY <1>2, <1>3, PowerPositive

LEMMA PowerLess == \A a, b \in Nat : a < b => 2 * 2^a <= 2^b
<1>1. SUFFICES ASSUME NEW a \in Nat, NEW b \in Nat, a < b PROVE 2 * 2^a <= 2^b
  OBVIOUS
<1>2. a + 1 \in Nat /\ a + 1 <= b
  BY <1>1
<1>3. QED BY <1>2, PowerMonotone, PowerStep
-----------------------------------------------------------------------------
(* Nodes and decoded codes.                                                *)

LEMMA MaskedNode ==
  ASSUME NEW i \in Nat, NEW f \in Nat, NEW v \in Int
  PROVE  /\ IsNode(Node(<<i, f>>, v))
         /\ Node(<<i, f>>, v).int = i /\ Node(<<i, f>>, v).frac = f
         /\ v \in 0 .. (2^(i + f) - 1) => Node(<<i, f>>, v).raw = v
<1>1. 2^(i + f) \in Nat /\ 2^(i + f) > 0
  BY PowerPositive
<1>2. v % 2^(i + f) \in 0 .. (2^(i + f) - 1)
  BY <1>1
<1>3. v \in 0 .. (2^(i + f) - 1) => v % 2^(i + f) = v
  BY <1>1
<1>4. Node(<<i, f>>, v) = [int |-> i, frac |-> f, raw |-> v % 2^(i + f)]
  BY DEF Node
<1>5. QED BY <1>1, <1>2, <1>3, <1>4 DEF IsNode, total_bits

\* A bit node holds the truth value it was given.
LEMMA BitOf ==
  ASSUME NEW v \in {0, 1}
  PROVE  IsNode(Node(Bit, v)) /\ Node(Bit, v).int = 1 /\ Node(Bit, v).frac = 0
         /\ Node(Bit, v).raw = v
<1>1. 2^(1 + 0) = 2 /\ v \in Int /\ 1 \in Nat /\ 0 \in Nat
  OBVIOUS
<1>2. /\ IsNode(Node(<<1, 0>>, v))
      /\ Node(<<1, 0>>, v).int = 1 /\ Node(<<1, 0>>, v).frac = 0
      /\ v \in 0 .. (2^(1 + 0) - 1) => Node(<<1, 0>>, v).raw = v
  BY <1>1, MaskedNode
<1>3. QED BY <1>1, <1>2 DEF Bit

LEMMA Reduced ==
  ASSUME NEW n, IsNode(n)
  PROVE  /\ or_reduce(n) <=> n.raw > 0
         /\ and_reduce(n) <=> n.raw = 2^(n.int + n.frac) - 1
BY BitOf DEF or_reduce, and_reduce, basic_or_reduce, basic_and_reduce, total_bits, IsNode

\* The fields of a code of f are the code's own, and the reductions of its
\* exponent and mantissa tell whether they are zeros or ones.
LEMMA FieldsOfCode ==
  ASSUME NEW f, f.exponent_bits \in Nat, f.mantissa_bits \in Nat, NEW c \in Codes(f)
  PROVE  LET x0 == Fields(f, c) IN
         /\ c.sign \in f.signs
         /\ c.exponent \in 0 .. (2^f.exponent_bits - 1)
         /\ c.mantissa \in 0 .. (2^f.mantissa_bits - 1)
         /\ c = Code(c.sign, c.exponent, c.mantissa)
         /\ x0.sign = c.sign
         /\ IsNode(x0.exponent) /\ x0.exponent.raw = c.exponent
         /\ x0.exponent.int = f.exponent_bits /\ x0.exponent.frac = 0
         /\ IsNode(x0.mantissa) /\ x0.mantissa.raw = c.mantissa
         /\ x0.mantissa.int = f.mantissa_bits /\ x0.mantissa.frac = 0
         /\ or_reduce(x0.exponent) <=> c.exponent > 0
         /\ or_reduce(x0.mantissa) <=> c.mantissa > 0
         /\ and_reduce(x0.exponent) <=> c.exponent = 2^f.exponent_bits - 1
         /\ and_reduce(x0.mantissa) <=> c.mantissa = 2^f.mantissa_bits - 1
<1>1. 2^f.exponent_bits \in Nat /\ 2^f.mantissa_bits \in Nat
  BY PowerPositive
<1>2. /\ c.sign \in f.signs
      /\ c.exponent \in 0 .. (2^f.exponent_bits - 1)
      /\ c.mantissa \in 0 .. (2^f.mantissa_bits - 1)
      /\ c = Code(c.sign, c.exponent, c.mantissa)
  BY DEF Codes, Code
<1>3. c.exponent \in Int /\ c.mantissa \in Int
  BY <1>1, <1>2
<1>4. /\ IsNode(Fields(f, c).exponent) /\ IsNode(Fields(f, c).mantissa)
      /\ Fields(f, c).exponent.int = f.exponent_bits
      /\ Fields(f, c).mantissa.int = f.mantissa_bits
      /\ Fields(f, c).exponent.frac = 0 /\ Fields(f, c).mantissa.frac = 0
      /\ Fields(f, c).exponent.raw = c.exponent
      /\ Fields(f, c).mantissa.raw = c.mantissa
      /\ Fields(f, c).sign = c.sign
  BY <1>1, <1>2, <1>3, MaskedNode DEF Fields
<1>5. f.exponent_bits + 0 = f.exponent_bits /\ f.mantissa_bits + 0 = f.mantissa_bits
  OBVIOUS
<1>6. QED BY <1>2, <1>4, <1>5, Reduced

ClassBits(k) ==
  /\ k.is_norm \in BOOLEAN /\ k.is_sub \in BOOLEAN /\ k.is_zero \in BOOLEAN
  /\ k.is_inf \in BOOLEAN /\ k.is_nan \in BOOLEAN

\* Class bits of which exactly one is set classify a value.
LEMMA OneClass ==
  ASSUME NEW norm \in BOOLEAN, NEW sub \in BOOLEAN, NEW zero \in BOOLEAN,
         NEW inf \in BOOLEAN, NEW nan \in BOOLEAN, NEW fields,
         norm \/ sub \/ zero \/ inf \/ nan,
         ~ (norm /\ sub), ~ (norm /\ zero), ~ (norm /\ inf), ~ (norm /\ nan),
         ~ (sub /\ zero), ~ (sub /\ inf), ~ (sub /\ nan),
         ~ (zero /\ inf), ~ (zero /\ nan), ~ (inf /\ nan),
         NEW k, k = Decoded(fields, norm, sub, zero, inf, nan)
  PROVE  /\ exclusive_classification(k) /\ ClassBits(k)
         /\ (k.is_norm <=> norm) /\ (k.is_sub <=> sub) /\ (k.is_zero <=> zero)
         /\ (k.is_inf <=> inf) /\ (k.is_nan <=> nan)
<1> DEFINE names == {"is_norm", "is_sub", "is_zero", "is_inf", "is_nan"}
<1>1. /\ k["is_norm"] = norm /\ k["is_sub"] = sub /\ k["is_zero"] = zero
      /\ k["is_inf"] = inf /\ k["is_nan"] = nan
  BY DEF Decoded
<1>2. \E name \in names : \A other \in names : k[other] <=> other = name
  BY <1>1
<1>3. PICK name \in names : \A other \in names : k[other] <=> other = name
  BY <1>2
<1>4. Classes(k) = {name}
  BY <1>3 DEF Classes
<1>5. QED BY <1>1, <1>4 DEF exclusive_classification, ClassBits

\* The type predicates, from the codes that are infinities and NaNs.
LEMMA ClassesDecided ==
  ASSUME NEW f, NEW c, c.exponent \in Nat, c.mantissa \in Nat, NEW k,
         ClassBits(k), k.is_inf <=> is_inf(f, c), k.is_nan <=> is_nan(f, c),
         k.is_zero <=> (~ k.is_nan /\ c.exponent = 0 /\ c.mantissa = 0),
         k.is_sub <=> (~ k.is_nan /\ ~ k.is_inf /\ ~ k.is_zero /\ c.exponent = 0),
         k.is_norm <=> (~ k.is_nan /\ ~ k.is_inf /\ ~ k.is_zero /\ ~ k.is_sub)
  PROVE  ClassesAsTyped(f, c, k)
<1>1. k.is_zero <=> is_zero(f, c)
  BY DEF is_zero
<1>2. k.is_sub <=> is_sub(f, c)
  BY <1>1 DEF is_sub
<1>3. k.is_norm <=> is_norm(f, c)
  BY <1>1, <1>2 DEF is_norm
<1>4. /\ is_zero(f, c) \in BOOLEAN /\ is_sub(f, c) \in BOOLEAN /\ is_norm(f, c) \in BOOLEAN
      /\ is_inf(f, c) \in BOOLEAN /\ is_nan(f, c) \in BOOLEAN
  BY DEF is_zero, is_sub, is_norm, is_inf, is_nan
<1>5. QED BY <1>1, <1>2, <1>3, <1>4 DEF ClassesAsTyped, ClassBits

\* Decoding a format with infinities.
LEMMA InfinitiesCovered ==
  ASSUME NEW eb \in Nat, NEW mb \in Nat, NEW bias, eb >= 2, mb >= 1,
         NEW c \in Codes(WithInfinities(eb, mb, bias))
  PROVE  LET f == WithInfinities(eb, mb, bias)
             k == with_infinities_decode(f, c)
         IN with_infinities_fresh(f, c, k) /\ ClassesAsTyped(f, c, k)
<1> DEFINE f == WithInfinities(eb, mb, bias)
           k == with_infinities_decode(f, c)
           top == 2^eb - 1
           norm == c.exponent > 0 /\ c.exponent # top
           sub  == ~ c.exponent > 0 /\ c.mantissa > 0
           zero == ~ c.exponent > 0 /\ ~ c.mantissa > 0
           inf  == c.exponent = top /\ ~ c.mantissa > 0
           nan  == c.exponent = top /\ c.mantissa > 0
<1>1. /\ f.exponent_bits = eb /\ f.mantissa_bits = mb /\ f.signs = {0, 1}
      /\ f.inf = [sign: {0, 1}, exponent: {top}, mantissa: {0}]
      /\ f.nan = [sign: {0, 1}, exponent: {top}, mantissa: 1 .. (2^mb - 1)]
  BY DEF WithInfinities
<1>2. c \in Codes(f)
  OBVIOUS
<1> HIDE DEF f
<1>3. 2^eb \in Nat /\ 2^mb \in Nat /\ 2^eb >= 4
  BY PowerPositive, PowerMonotone, 2^2 = 4
<1>4. /\ c.sign \in {0, 1} /\ c.exponent \in 0 .. top /\ c.mantissa \in 0 .. (2^mb - 1)
      /\ c = Code(c.sign, c.exponent, c.mantissa)
      /\ or_reduce(Fields(f, c).exponent) <=> c.exponent > 0
      /\ or_reduce(Fields(f, c).mantissa) <=> c.mantissa > 0
      /\ and_reduce(Fields(f, c).exponent) <=> c.exponent = top
  BY <1>1, <1>2, FieldsOfCode
<1>5. k = Decoded(Fields(f, c), norm, sub, zero, inf, nan)
  BY <1>4 DEF with_infinities_decode
<1> HIDE DEF k
<1>6. /\ exclusive_classification(k) /\ ClassBits(k)
      /\ (k.is_norm <=> norm) /\ (k.is_sub <=> sub) /\ (k.is_zero <=> zero)
      /\ (k.is_inf <=> inf) /\ (k.is_nan <=> nan)
  <2>1. /\ norm \in BOOLEAN /\ sub \in BOOLEAN /\ zero \in BOOLEAN /\ inf \in BOOLEAN /\ nan \in BOOLEAN
        /\ norm \/ sub \/ zero \/ inf \/ nan
        /\ ~ (norm /\ sub) /\ ~ (norm /\ zero) /\ ~ (norm /\ inf) /\ ~ (norm /\ nan)
        /\ ~ (sub /\ zero) /\ ~ (sub /\ inf) /\ ~ (sub /\ nan)
        /\ ~ (zero /\ inf) /\ ~ (zero /\ nan) /\ ~ (inf /\ nan)
    BY <1>3, <1>4
  <2> HIDE DEF norm, sub, zero, inf, nan
  <2>2. QED BY <2>1, <1>5, OneClass, SMTT(60)
<1>7. with_infinities_fresh(f, c, k)
  <2>2. in_range(f, c)
    BY <1>1, <1>4 DEF in_range
  <2>3. QED BY <1>1, <1>3, <1>4, <1>6, <2>2 DEF with_infinities_fresh
<1>8. (is_nan(f, c) <=> nan) /\ (is_inf(f, c) <=> inf)
  BY <1>1, <1>3, <1>4 DEF is_nan, is_inf, Code
<1>9. ClassesAsTyped(f, c, k)
  <2>1. /\ c.exponent \in Nat /\ c.mantissa \in Nat
        /\ k.is_zero <=> (~ k.is_nan /\ c.exponent = 0 /\ c.mantissa = 0)
        /\ k.is_sub <=> (~ k.is_nan /\ ~ k.is_inf /\ ~ k.is_zero /\ c.exponent = 0)
        /\ k.is_norm <=> (~ k.is_nan /\ ~ k.is_inf /\ ~ k.is_zero /\ ~ k.is_sub)
    BY <1>3, <1>4, <1>6
  <2>2. (k.is_inf <=> is_inf(f, c)) /\ (k.is_nan <=> is_nan(f, c))
    BY <1>6, <1>8
  <2>3. QED BY <2>1, <2>2, <1>6, ClassesDecided
<1>10. QED BY <1>7, <1>9 DEF f, k

\* Decoding E4M3: the code of all ones, of either sign, is the NaN.
LEMMA E4M3Covered ==
  ASSUME NEW f \in {E4M3FN, UE4M3}, NEW c \in Codes(f)
  PROVE  LET k == e4m3_decode(f, c) IN
         c.sign \in {0, 1} /\ e4m3_fresh(f, c, k) /\ ClassesAsTyped(f, c, k)
<1> DEFINE k == e4m3_decode(f, c)
           inf  == FALSE
           nan  == c.exponent = 15 /\ c.mantissa = 7
           norm == c.exponent > 0 /\ ~ nan
           sub  == ~ c.exponent > 0 /\ c.mantissa > 0
           zero == ~ c.exponent > 0 /\ ~ c.mantissa > 0
<1>1. /\ f.exponent_bits = 4 /\ f.mantissa_bits = 3 /\ f.signs \subseteq {0, 1}
      /\ f.max_finite_code = 15 /\ f.max_finite_mantissa = 6
      /\ f.inf = {} /\ f.nan = [sign: f.signs, exponent: {15}, mantissa: {7}]
  <2>1. CASE f = E4M3FN
    BY <2>1 DEF E4M3FN
  <2>2. CASE f = UE4M3
    BY <2>2 DEF UE4M3, E4M3FN
  <2>3. QED BY <2>1, <2>2
<1>2. /\ f.exponent_bits \in Nat /\ 2^f.exponent_bits = 16
      /\ f.mantissa_bits \in Nat /\ 2^f.mantissa_bits = 8
  BY <1>1
<1>3. /\ c.sign \in f.signs /\ c.exponent \in 0 .. 15 /\ c.mantissa \in 0 .. 7
      /\ c = Code(c.sign, c.exponent, c.mantissa)
      /\ or_reduce(Fields(f, c).exponent) <=> c.exponent > 0
      /\ or_reduce(Fields(f, c).mantissa) <=> c.mantissa > 0
      /\ and_reduce(Fields(f, c).exponent) <=> c.exponent = 15
      /\ and_reduce(Fields(f, c).mantissa) <=> c.mantissa = 7
  BY ONLY c \in Codes(f), <1>2, FieldsOfCode
<1>4. k = Decoded(Fields(f, c), norm, sub, zero, inf, nan)
  BY <1>3 DEF e4m3_decode
<1> HIDE DEF k
<1>5. /\ exclusive_classification(k) /\ ClassBits(k)
      /\ (k.is_norm <=> norm) /\ (k.is_sub <=> sub) /\ (k.is_zero <=> zero)
      /\ (k.is_inf <=> inf) /\ (k.is_nan <=> nan)
  <2>1. /\ norm \in BOOLEAN /\ sub \in BOOLEAN /\ zero \in BOOLEAN /\ inf \in BOOLEAN /\ nan \in BOOLEAN
        /\ norm \/ sub \/ zero \/ inf \/ nan
        /\ ~ (norm /\ sub) /\ ~ (norm /\ zero) /\ ~ (norm /\ inf) /\ ~ (norm /\ nan)
        /\ ~ (sub /\ zero) /\ ~ (sub /\ inf) /\ ~ (sub /\ nan)
        /\ ~ (zero /\ inf) /\ ~ (zero /\ nan) /\ ~ (inf /\ nan)
    BY <1>3
  <2> HIDE DEF norm, sub, zero, inf, nan
  <2>2. QED BY <2>1, <1>4, OneClass, SMTT(60)
<1>6. e4m3_fresh(f, c, k)
  <2>2. in_range(f, c)
    BY <1>1, <1>2, <1>3 DEF in_range
  <2>3. QED BY <1>1, <1>3, <1>5, <2>2 DEF e4m3_fresh, small_fresh
<1>7. (is_nan(f, c) <=> nan) /\ (is_inf(f, c) <=> inf)
  BY <1>1, <1>3 DEF is_nan, is_inf, Code
<1>8. ClassesAsTyped(f, c, k)
  <2>1. /\ c.exponent \in Nat /\ c.mantissa \in Nat
        /\ k.is_zero <=> (~ k.is_nan /\ c.exponent = 0 /\ c.mantissa = 0)
        /\ k.is_sub <=> (~ k.is_nan /\ ~ k.is_inf /\ ~ k.is_zero /\ c.exponent = 0)
        /\ k.is_norm <=> (~ k.is_nan /\ ~ k.is_inf /\ ~ k.is_zero /\ ~ k.is_sub)
    BY <1>3, <1>5
  <2>2. (k.is_inf <=> is_inf(f, c)) /\ (k.is_nan <=> is_nan(f, c))
    BY <1>5, <1>7
  <2>3. QED BY <2>1, <2>2, <1>5, ClassesDecided
<1>9. QED BY <1>1, <1>3, <1>6, <1>8 DEF k

\* Decoding E5M2FNUZ: the negative zero fields are the NaN.
LEMMA FNUZCovered ==
  ASSUME NEW c \in Codes(E5M2FNUZ)
  PROVE  e5m2fnuz_fresh(c, e5m2fnuz_decode(c)) /\ ClassesAsTyped(E5M2FNUZ, c, e5m2fnuz_decode(c))
<1> DEFINE f == E5M2FNUZ
           k == e5m2fnuz_decode(c)
           norm == c.exponent > 0
           sub  == ~ c.exponent > 0 /\ c.mantissa > 0
           zero == c.sign = 0 /\ ~ c.exponent > 0 /\ ~ c.mantissa > 0
           inf  == FALSE
           nan  == c.sign = 1 /\ ~ c.exponent > 0 /\ ~ c.mantissa > 0
<1>1. /\ f.exponent_bits = 5 /\ f.mantissa_bits = 2 /\ f.signs = {0, 1}
      /\ f.inf = {} /\ f.nan = {Code(1, 0, 0)}
  BY DEF E5M2FNUZ
<1>0. c \in Codes(f) /\ f = E5M2FNUZ
  OBVIOUS
<1> HIDE DEF f
<1>2. /\ f.exponent_bits \in Nat /\ 2^f.exponent_bits = 32
      /\ f.mantissa_bits \in Nat /\ 2^f.mantissa_bits = 4
  BY <1>1
<1>3. /\ c.sign \in f.signs /\ c.exponent \in 0 .. 31 /\ c.mantissa \in 0 .. 3
      /\ c = Code(c.sign, c.exponent, c.mantissa)
      /\ or_reduce(Fields(f, c).exponent) <=> c.exponent > 0
      /\ or_reduce(Fields(f, c).mantissa) <=> c.mantissa > 0
  BY ONLY <1>0, <1>2, FieldsOfCode
<1>4. k = Decoded(Fields(f, c), norm, sub, zero, inf, nan)
  <2>1. /\ or_reduce(Fields(f, c).exponent) = (c.exponent > 0)
        /\ or_reduce(Fields(f, c).mantissa) = (c.mantissa > 0)
    BY <1>3 DEF or_reduce
  <2>2. QED BY <1>0, <2>1 DEF e5m2fnuz_decode
<1> HIDE DEF k
<1>5. /\ exclusive_classification(k) /\ ClassBits(k)
      /\ (k.is_norm <=> norm) /\ (k.is_sub <=> sub) /\ (k.is_zero <=> zero)
      /\ (k.is_inf <=> inf) /\ (k.is_nan <=> nan)
  <2>1. /\ norm \in BOOLEAN /\ sub \in BOOLEAN /\ zero \in BOOLEAN /\ inf \in BOOLEAN /\ nan \in BOOLEAN
        /\ norm \/ sub \/ zero \/ inf \/ nan
        /\ ~ (norm /\ sub) /\ ~ (norm /\ zero) /\ ~ (norm /\ inf) /\ ~ (norm /\ nan)
        /\ ~ (sub /\ zero) /\ ~ (sub /\ inf) /\ ~ (sub /\ nan)
        /\ ~ (zero /\ inf) /\ ~ (zero /\ nan) /\ ~ (inf /\ nan)
    BY <1>1, <1>3
  <2> HIDE DEF norm, sub, zero, inf, nan
  <2>2. QED BY <2>1, <1>4, OneClass, SMTT(60)
<1>6. (is_nan(f, c) <=> nan) /\ (is_inf(f, c) <=> inf)
  BY <1>1, <1>3 DEF is_nan, is_inf, Code
<1>7. e5m2fnuz_fresh(c, k)
  <2>2. in_range(f, c)
    BY <1>1, <1>2, <1>3 DEF in_range
  <2>3. nan => c = Code(1, 0, 0)
    BY <1>1, <1>3
  <2>4. QED BY <1>1, <1>3, <1>5, <2>2, <2>3 DEF e5m2fnuz_fresh, small_fresh, f
<1>8. ClassesAsTyped(f, c, k)
  <2>1. /\ c.exponent \in Nat /\ c.mantissa \in Nat
        /\ k.is_zero <=> (~ k.is_nan /\ c.exponent = 0 /\ c.mantissa = 0)
        /\ k.is_sub <=> (~ k.is_nan /\ ~ k.is_inf /\ ~ k.is_zero /\ c.exponent = 0)
        /\ k.is_norm <=> (~ k.is_nan /\ ~ k.is_inf /\ ~ k.is_zero /\ ~ k.is_sub)
    BY <1>1, <1>3, <1>5
  <2>2. (k.is_inf <=> is_inf(f, c)) /\ (k.is_nan <=> is_nan(f, c))
    BY <1>5, <1>6
  <2>3. QED BY <2>1, <2>2, <1>5, ClassesDecided
<1>9. QED BY <1>7, <1>8 DEF f, k

\* Decoding E2M1: every code is a number.
LEMMA E2M1Covered ==
  ASSUME NEW c \in Codes(E2M1)
  PROVE  e2m1_fresh(c, e2m1_decode(c)) /\ ClassesAsTyped(E2M1, c, e2m1_decode(c))
<1> DEFINE f == E2M1
           k == e2m1_decode(c)
           norm == c.exponent > 0
           sub  == ~ c.exponent > 0 /\ c.mantissa > 0
           zero == ~ c.exponent > 0 /\ ~ c.mantissa > 0
           inf  == FALSE
           nan  == FALSE
<1>1. /\ f.exponent_bits = 2 /\ f.mantissa_bits = 1 /\ f.signs = {0, 1}
      /\ f.inf = {} /\ f.nan = {}
  BY DEF E2M1
<1>0. c \in Codes(f) /\ f = E2M1
  OBVIOUS
<1> HIDE DEF f
<1>2. /\ f.exponent_bits \in Nat /\ 2^f.exponent_bits = 4
      /\ f.mantissa_bits \in Nat /\ 2^f.mantissa_bits = 2
  BY <1>1
<1>3. /\ c.sign \in f.signs /\ c.exponent \in 0 .. 3 /\ c.mantissa \in 0 .. 1
      /\ or_reduce(Fields(f, c).exponent) <=> c.exponent > 0
      /\ or_reduce(Fields(f, c).mantissa) <=> c.mantissa > 0
  BY ONLY <1>0, <1>2, FieldsOfCode
<1>4. k = Decoded(Fields(f, c), norm, sub, zero, inf, nan)
  <2>1. /\ or_reduce(Fields(f, c).exponent) = (c.exponent > 0)
        /\ or_reduce(Fields(f, c).mantissa) = (c.mantissa > 0)
    BY <1>3 DEF or_reduce
  <2>2. QED BY <1>0, <2>1 DEF e2m1_decode
<1> HIDE DEF k
<1>5. /\ exclusive_classification(k) /\ ClassBits(k)
      /\ (k.is_norm <=> norm) /\ (k.is_sub <=> sub) /\ (k.is_zero <=> zero)
      /\ (k.is_inf <=> inf) /\ (k.is_nan <=> nan)
  <2>1. /\ norm \in BOOLEAN /\ sub \in BOOLEAN /\ zero \in BOOLEAN /\ inf \in BOOLEAN /\ nan \in BOOLEAN
        /\ norm \/ sub \/ zero \/ inf \/ nan
        /\ ~ (norm /\ sub) /\ ~ (norm /\ zero) /\ ~ (norm /\ inf) /\ ~ (norm /\ nan)
        /\ ~ (sub /\ zero) /\ ~ (sub /\ inf) /\ ~ (sub /\ nan)
        /\ ~ (zero /\ inf) /\ ~ (zero /\ nan) /\ ~ (inf /\ nan)
    BY <1>3
  <2> HIDE DEF norm, sub, zero, inf, nan
  <2>2. QED BY <2>1, <1>4, OneClass, SMTT(60)
<1>6. is_nan(f, c) = FALSE /\ is_inf(f, c) = FALSE
  BY <1>1 DEF is_nan, is_inf
<1>7. e2m1_fresh(c, k)
  <2>2. in_range(f, c)
    BY <1>1, <1>2, <1>3 DEF in_range
  <2>3. QED BY <1>1, <1>3, <1>5, <2>2 DEF e2m1_fresh, small_fresh, f
<1>8. ClassesAsTyped(f, c, k)
  <2>1. /\ c.exponent \in Nat /\ c.mantissa \in Nat
        /\ k.is_zero <=> (~ k.is_nan /\ c.exponent = 0 /\ c.mantissa = 0)
        /\ k.is_sub <=> (~ k.is_nan /\ ~ k.is_inf /\ ~ k.is_zero /\ c.exponent = 0)
        /\ k.is_norm <=> (~ k.is_nan /\ ~ k.is_inf /\ ~ k.is_zero /\ ~ k.is_sub)
    BY <1>3, <1>5
  <2>2. (k.is_inf <=> is_inf(f, c)) /\ (k.is_nan <=> is_nan(f, c))
    BY <1>5, <1>6
  <2>3. QED BY <2>1, <2>2, <1>5, ClassesDecided
<1>9. QED BY <1>7, <1>8 DEF f, k

\* A code of any format satisfies the assumptions of its fresh(), with the
\* class bits its decoder computes, on which the type predicates agree.
LEMMA DecodedAsAssumed ==
  ASSUME NEW f \in DOMAIN FormatOf, NEW c \in Codes(FormatOf[f])
  PROVE  FreshOf(f, c, DecodeOf(f, c)) /\ ClassesAsTyped(FormatOf[f], c, DecodeOf(f, c))
<1>1. f \in {"Float16", "BFloat16", "Float32", "E5M2", "E4M3FN", "UE4M3", "E5M2FNUZ", "E2M1"}
  BY DEF FormatOf
<1>2. CASE f = "Float16"
  BY <1>2, InfinitiesCovered DEF FreshOf, DecodeOf, FormatOf, Float16, fp16_decode, fp16_fresh
<1>3. CASE f = "BFloat16"
  BY <1>3, InfinitiesCovered DEF FreshOf, DecodeOf, FormatOf, BFloat16, bf16_decode, bf16_fresh
<1>4. CASE f = "Float32"
  BY <1>4, InfinitiesCovered DEF FreshOf, DecodeOf, FormatOf, Float32, fp32_decode, fp32_fresh
<1>5. CASE f = "E5M2"
  BY <1>5, InfinitiesCovered DEF FreshOf, DecodeOf, FormatOf, E5M2, e5m2_decode, e5m2_fresh
<1>6. CASE f = "E4M3FN"
  BY <1>6, E4M3Covered DEF FreshOf, DecodeOf, FormatOf, e4m3fn_decode, e4m3fn_fresh
<1>7. CASE f = "UE4M3"
  BY <1>7, E4M3Covered DEF FreshOf, DecodeOf, FormatOf, ue4m3_decode, ue4m3_fresh
<1>8. CASE f = "E5M2FNUZ"
  BY <1>8, FNUZCovered DEF FreshOf, DecodeOf, FormatOf
<1>9. CASE f = "E2M1"
  BY <1>9, E2M1Covered DEF FreshOf, DecodeOf, FormatOf
<1>10. QED BY <1>1, <1>2, <1>3, <1>4, <1>5, <1>6, <1>7, <1>8, <1>9

-----------------------------------------------------------------------------
(* Every operator yields a node of the type it is given.                   *)

Typed(n, i, f) == IsNode(n) /\ n.int = i /\ n.frac = f

LEMMA NodeFields ==
  ASSUME NEW n, IsNode(n)
  PROVE  /\ n.int \in Nat /\ n.frac \in Nat /\ n.raw \in Nat
         /\ total_bits(n) = n.int + n.frac /\ total_bits(n) \in Nat
         /\ n.raw < 2^total_bits(n) /\ 2^total_bits(n) \in Nat
BY PowerPositive DEF IsNode, total_bits

LEMMA NodeTyped ==
  ASSUME NEW i \in Nat, NEW f \in Nat, NEW v \in Int
  PROVE  Typed(Node(<<i, f>>, v), i, f)
BY MaskedNode DEF Typed

LEMMA LessThanPower == \A n \in Nat : n < 2^n
<1>1. SUFFICES ASSUME NEW n \in Nat, ~ n < 2^n PROVE FALSE
  OBVIOUS
<1> DEFINE S == {k \in Nat : ~ k < 2^k}
<1>2. S \in SUBSET Nat /\ S # {}
  BY <1>1
<1> HIDE DEF S
<1>3. \E k \in S : \A l \in S : k <= l
  BY <1>2, LeastNumber
<1>4. PICK k \in S : \A l \in S : k <= l
  BY <1>3
<1>5. k \in Nat /\ ~ k < 2^k /\ 2^k \in Nat
  BY PowerPositive DEF S
<1>6. k # 0
  <2>1. SUFFICES ASSUME k = 0 PROVE FALSE
    OBVIOUS
  <2>2. 2^k = 1
    BY <2>1
  <2>3. QED BY <1>5, <2>1, <2>2
<1>7. k - 1 \in Nat /\ k - 1 \notin S /\ k = (k - 1) + 1
  BY <1>4, <1>5, <1>6, <1>2
<1>8. k - 1 < 2^(k - 1) /\ 2^(k - 1) \in Nat
  BY <1>7, PowerPositive DEF S
<1>9. 2^k = 2 * 2^(k - 1)
  <2>1. 2^((k - 1) + 1) = 2 * 2^(k - 1)
    BY <1>7, PowerStep
  <2>2. (k - 1) + 1 = k
    BY <1>5
  <2>3. QED BY ONLY <2>1, <2>2, Zenon
<1>10. QED BY <1>5, <1>6, <1>8, <1>9

\* The bit length: the least number of bits that hold a number.
LEMMA BitLengthOf ==
  ASSUME NEW v \in Nat
  PROVE  /\ BitLength(v) \in Nat
         /\ v = 0 => BitLength(v) = 0
         /\ v > 0 => BitLength(v) >= 1 /\ 2^(BitLength(v) - 1) <= v
         /\ v < 2^BitLength(v)
<1>1. CASE v = 0
  BY <1>1, 2^0 = 1 DEF BitLength
<1>2. CASE v > 0
  <2> DEFINE S == {k \in Nat : v < 2^k}
             top == IF v < 2^30 THEN 30 ELSE v
             n == CHOOSE k \in 1 .. top : v \div 2^(k - 1) = 1
  <2>1. S \in SUBSET Nat /\ top \in S
    BY LessThanPower
  <2> HIDE DEF S, top
  <2>s. \E k \in S : \A l \in S : k <= l
    BY <2>1, LeastNumber
  <2>2. PICK k \in S : \A l \in S : k <= l
    BY <2>s
  <2>3. k \in Nat /\ v < 2^k
    BY DEF S
  <2>4. k # 0
    <3>1. SUFFICES ASSUME k = 0 PROVE FALSE
      OBVIOUS
    <3>2. 2^k = 1
      BY <3>1
    <3>3. QED BY <1>2, <2>3, <3>2
  <2>5. k - 1 \in Nat /\ k - 1 \notin S /\ k = (k - 1) + 1 /\ k <= top
    BY <2>1, <2>2, <2>3, <2>4
  <2>6. 2^(k - 1) \in Nat /\ 2^(k - 1) > 0 /\ 2^(k - 1) <= v
    BY <2>5, PowerPositive DEF S
  <2>7. v < 2 * 2^(k - 1)
    BY <2>3, <2>5, PowerStep
  <2>8. v \div 2^(k - 1) = 1
    BY <2>6, <2>7
  <2>9. \E l \in 1 .. top : v \div 2^(l - 1) = 1
    <3>1. k >= 1 /\ top \in Int
      BY <2>1, <2>3, <2>4
    <3>2. QED BY <2>3, <2>5, <2>8, <3>1
  <2>10. n \in 1 .. top /\ v \div 2^(n - 1) = 1
    BY <2>9
  <2>11. BitLength(v) = n
    <3>1. v # 0
      BY <1>2
    <3>2. QED BY <3>1, Zenon DEF BitLength, top
  <2> HIDE DEF n
  <2>12. n - 1 \in Nat /\ n \in Nat /\ n >= 1
    <3>1. top \in Int
      BY <2>1
    <3>2. QED BY <2>10, <3>1
  <2>13. 2^(n - 1) \in Nat /\ 2^(n - 1) > 0 /\ 2^n = 2 * 2^(n - 1)
    <3>1. n = (n - 1) + 1
      BY <2>12
    <3>2. 2^((n - 1) + 1) = 2 * 2^(n - 1)
      BY <2>12, PowerStep
    <3>3. QED BY <2>12, <3>1, <3>2, PowerPositive
  <2>14. 2^(n - 1) <= v /\ v < 2 * 2^(n - 1)
    BY <2>10, <2>13
  <2>15. QED BY <1>2, <2>11, <2>12, <2>13, <2>14
<1>3. QED BY <1>1, <1>2

LEMMA ConstantTyped ==
  ASSUME NEW v \in Nat
  PROVE  IsNode(UQ_from_int(v)) /\ UQ_from_int(v).int >= 1 /\ UQ_from_int(v).frac = 0
<1>1. Larger(1, BitLength(v)) \in Nat /\ Larger(1, BitLength(v)) >= 1
  BY BitLengthOf DEF Larger
<1>2. QED BY <1>1, NodeTyped DEF UQ_from_int, Typed

LEMMA SignedConstantTyped ==
  ASSUME NEW v \in Int
  PROVE  IsNode(Q_from_int(v)) /\ Q_from_int(v).int >= 2 /\ Q_from_int(v).frac = 0
<1> DEFINE w == IF v < 0 THEN -v - 1 ELSE v
<1>1. w \in Nat
  OBVIOUS
<1>2. Larger(2, 1 + BitLength(w)) \in Nat /\ Larger(2, 1 + BitLength(w)) >= 2
  BY <1>1, BitLengthOf DEF Larger
<1>3. QED BY <1>2, NodeTyped DEF Q_from_int, Typed

LEMMA LargerNat ==
  \A a, b \in Nat : /\ Larger(a, b) \in Nat /\ Larger(a, b) >= a /\ Larger(a, b) >= b
                    /\ Larger(a, b) \in {a, b}
BY DEF Larger

LEMMA BasicTyped ==
  ASSUME NEW i \in Nat, NEW f \in Nat, NEW n, IsNode(n)
  PROVE  /\ Typed(basic_identity(n, <<i, f>>), i, f)
         /\ Typed(basic_invert(n, <<i, f>>), i, f)
         /\ \A start, end \in Nat :
              end <= start => Typed(basic_select(n, start, end, <<i, f>>), i, f)
         /\ \A k : IsNode(k) =>
              /\ Typed(basic_add(n, k, <<i, f>>), i, f)
              /\ Typed(basic_sub(n, k, <<i, f>>), i, f)
              /\ Typed(basic_lshift(n, k, <<i, f>>), i, f)
              /\ Typed(basic_rshift(n, k, <<i, f>>), i, f)
              /\ \A sel : Typed(basic_mux_2_1(sel, n, k, <<i, f>>), i, f)
<1>1. n.raw \in Nat /\ 2^total_bits(n) \in Nat
  BY NodeFields
<1>2. (2^total_bits(n) - 1) - n.raw \in Int /\ n.raw \in Int
  BY <1>1
<1>3. ASSUME NEW start \in Nat, NEW end \in Nat, end <= start
      PROVE  Typed(basic_select(n, start, end, <<i, f>>), i, f)
  <2>1. start - end + 1 \in Nat
    BY <1>3
  <2>2. 2^end \in Nat \ {0} /\ 2^(start - end + 1) \in Nat \ {0}
    BY <2>1, PowerPositive
  <2>3. (n.raw \div 2^end) % 2^(start - end + 1) \in Int
    BY <1>1, <2>2
  <2>4. QED BY <2>3, NodeTyped DEF basic_select
<1>4. ASSUME NEW k, IsNode(k)
      PROVE  /\ Typed(basic_add(n, k, <<i, f>>), i, f)
             /\ Typed(basic_sub(n, k, <<i, f>>), i, f)
             /\ Typed(basic_lshift(n, k, <<i, f>>), i, f)
             /\ Typed(basic_rshift(n, k, <<i, f>>), i, f)
             /\ \A sel : Typed(basic_mux_2_1(sel, n, k, <<i, f>>), i, f)
  <2>1. k.raw \in Nat /\ 2^k.raw \in Nat \ {0}
    BY <1>4, NodeFields, PowerPositive
  <2>2. /\ n.raw + k.raw \in Int /\ n.raw - k.raw \in Int
        /\ \A sel : (IF sel.raw = 1 THEN k.raw ELSE n.raw) \in Int
    BY <1>1, <2>1
  <2>3. (IF k.raw >= i + f THEN 0 ELSE (n.raw % 2^((i + f) - k.raw)) * 2^k.raw) \in Int
    <3>1. CASE k.raw >= i + f
      BY <3>1
    <3>2. CASE ~ k.raw >= i + f
      <4>1. (i + f) - k.raw \in Nat
        BY <2>1, <3>2
      <4>2. n.raw % 2^((i + f) - k.raw) \in Int
        BY <1>1, <4>1, PowerPositive
      <4>3. QED BY <2>1, <4>2
    <3>3. QED BY <3>1, <3>2
  <2>4. (IF k.raw >= total_bits(n) THEN 0 ELSE n.raw \div 2^k.raw) \in Int
    BY <1>1, <2>1
  <2>5. QED
    BY <2>2, <2>3, <2>4, NodeTyped
    DEF basic_add, basic_sub, basic_mux_2_1, basic_lshift, basic_rshift
<1>5. QED
  BY <1>2, <1>3, <1>4, NodeTyped DEF basic_identity, basic_invert

LEMMA MuxTyped ==
  ASSUME NEW a, IsNode(a), NEW b, IsNode(b), NEW z, IsNode(z), NEW sel
  PROVE  Typed(basic_mux_2_1(sel, a, b, dtype(z)), z.int, z.frac)
<1>1. z.int \in Nat /\ z.frac \in Nat
  BY NodeFields
<1>2. QED BY <1>1, BasicTyped DEF dtype

LEMMA FixedTyped ==
  ASSUME NEW n, IsNode(n)
  PROVE  /\ \A i, f \in Nat : Typed(uq_resize(n, i, f), i, f)
         /\ Typed(uq_to_q(n), n.int + 1, n.frac)
         /\ n.int >= 1 => Typed(q_to_uq(n), n.int - 1, n.frac)
         /\ Typed(q_sign_bit(n), 1, 0) \/ total_bits(n) = 0
         /\ IsNode(lzc(n)) /\ lzc(n).frac = 0
<1>1. /\ n.int \in Nat /\ n.frac \in Nat /\ n.raw \in Nat /\ total_bits(n) = n.int + n.frac
      /\ total_bits(n) \in Nat
  BY NodeFields
<1>2. ASSUME NEW i \in Nat, NEW f \in Nat PROVE Typed(uq_resize(n, i, f), i, f)
  <2>1. CASE f > n.frac
    <3>1. f - n.frac \in Nat
      BY <1>1, <2>1
    <3>2. IsNode(UQ_from_int(f - n.frac))
      BY <3>1, ConstantTyped
    <3>3. QED BY <2>1, <3>2, BasicTyped DEF uq_resize
  <2>2. CASE f < n.frac
    <3>1. n.frac - f \in Nat
      BY <1>1, <2>2
    <3>2. IsNode(UQ_from_int(n.frac - f))
      BY <3>1, ConstantTyped
    <3>3. QED BY <1>1, <2>2, <3>2, BasicTyped DEF uq_resize
  <2>3. CASE f = n.frac
    BY <1>1, <2>3, BasicTyped DEF uq_resize
  <2>4. QED BY <1>1, <2>1, <2>2, <2>3
<1>3. Typed(uq_to_q(n), n.int + 1, n.frac)
  BY <1>1, BasicTyped DEF uq_to_q
<1>4. n.int >= 1 => Typed(q_to_uq(n), n.int - 1, n.frac)
  BY <1>1, BasicTyped DEF q_to_uq
<1>5. total_bits(n) # 0 => Typed(q_sign_bit(n), 1, 0)
  <2>1. SUFFICES ASSUME total_bits(n) # 0 PROVE Typed(q_sign_bit(n), 1, 0)
    OBVIOUS
  <2>2. total_bits(n) - 1 \in Nat
    BY <1>1, <2>1
  <2>3. QED BY <2>2, BasicTyped DEF q_sign_bit, Bit
<1>6. IsNode(lzc(n)) /\ lzc(n).frac = 0
  <2>1. BitLength(total_bits(n)) \in Nat /\ total_bits(n) - BitLength(n.raw) \in Int
    BY <1>1, BitLengthOf
  <2>2. QED BY <2>1, NodeTyped DEF lzc, Typed
<1>7. QED BY <1>2, <1>3, <1>4, <1>5, <1>6

\* The signed operators on nodes with a sign bit.
LEMMA SignedTyped ==
  ASSUME NEW n, IsNode(n), n.int >= 1, NEW k, IsNode(k), k.int >= 1
  PROVE  /\ Typed(q_add(n, k), Larger(n.int, k.int) + 1, Larger(n.frac, k.frac))
         /\ Typed(q_sub(n, k), Larger(n.int, k.int) + 1, Larger(n.frac, k.frac))
         /\ Typed(q_neg(n), n.int, n.frac) /\ Typed(q_abs(n), n.int, n.frac)
<1>1. /\ n.int \in Nat /\ n.frac \in Nat /\ n.raw \in Nat /\ total_bits(n) = n.int + n.frac
      /\ k.int \in Nat /\ k.frac \in Nat /\ k.raw \in Nat /\ total_bits(k) = k.int + k.frac
  BY NodeFields
<1> DEFINE int == Larger(n.int, k.int) + 1
           frac == Larger(n.frac, k.frac)
<1>2. /\ int \in Nat /\ frac \in Nat /\ int > n.int /\ int > k.int
      /\ frac >= n.frac /\ frac >= k.frac
  BY <1>1 DEF Larger
<1> HIDE DEF int, frac
<1>3. ASSUME NEW z, IsNode(z), z.int >= 1, int > z.int, frac >= z.frac
      PROVE  IsNode(q_align(z, int, frac))
  <2>1. z.int \in Nat /\ z.frac \in Nat
    BY <1>3, NodeFields
  <2> DEFINE w == IF frac > z.frac THEN basic_lshift(z, UQ_from_int(frac - z.frac), <<z.int, frac>>)
                  ELSE z
  <2>2. Typed(w, z.int, frac)
    <3>1. CASE frac > z.frac
      <4>1. frac - z.frac \in Nat
        BY <1>2, <2>1, <3>1
      <4>2. IsNode(UQ_from_int(frac - z.frac))
        BY <4>1, ConstantTyped
      <4>3. QED BY <1>2, <1>3, <2>1, <3>1, <4>2, BasicTyped
    <3>2. CASE ~ frac > z.frac
      BY <1>2, <1>3, <2>1, <3>2 DEF Typed
    <3>3. QED BY <3>1, <3>2
  <2> HIDE DEF w
  <2>3. Typed(q_sign_extend(w, int - z.int), int, frac)
    <3>1. /\ w.int = z.int /\ w.frac = frac /\ w.raw \in Nat /\ total_bits(w) \in Nat
          /\ total_bits(w) # 0
      BY <1>2, <1>3, <2>1, <2>2, NodeFields DEF Typed
    <3>2. q_sign_bit(w).raw \in Nat
      BY <2>2, <3>1, FixedTyped, NodeFields DEF Typed
    <3>3. int - z.int \in Nat
      BY <1>2, <1>3, <2>1
    <3>4. 2^(int - z.int) - 1 \in Int /\ 2^total_bits(w) \in Int
      BY <3>1, <3>3, PowerPositive
    <3>5. q_sign_bit(w).raw * (2^(int - z.int) - 1) * 2^total_bits(w) \in Int
      BY <3>2, <3>4
    <3>6. w.raw + q_sign_bit(w).raw * (2^(int - z.int) - 1) * 2^total_bits(w) \in Int
      BY <3>1, <3>5
    <3>7. w.int + (int - z.int) = int
      BY <1>2, <2>1, <3>1
    <3>8. QED BY <1>2, <3>1, <3>6, <3>7, NodeTyped DEF q_sign_extend
  <2>4. q_align(z, int, frac) = q_sign_extend(w, int - z.int)
    BY DEF q_align, w
  <2>5. QED BY <2>3, <2>4 DEF Typed
<1>4. Typed(q_add(n, k), int, frac) /\ Typed(q_sub(n, k), int, frac)
  <2>1. IsNode(q_align(n, int, frac)) /\ IsNode(q_align(k, int, frac))
    BY <1>2, <1>3
  <2>2. q_add(n, k) = basic_add(q_align(n, int, frac), q_align(k, int, frac), <<int, frac>>)
    BY DEF q_add, int, frac
  <2>3. q_sub(n, k) = basic_sub(q_align(n, int, frac), q_align(k, int, frac), <<int, frac>>)
    BY DEF q_sub, int, frac
  <2>4. QED BY <1>2, <2>1, <2>2, <2>3, BasicTyped
<1>5. Typed(q_neg(n), n.int, n.frac)
  <2> DEFINE inverse == basic_invert(n, <<n.int, n.frac>>)
  <2>1. IsNode(inverse)
    BY <1>1, BasicTyped DEF Typed
  <2>2. IsNode(UQ_from_int(1))
    BY ConstantTyped
  <2> HIDE DEF inverse
  <2>3. Typed(basic_add(inverse, UQ_from_int(1), <<n.int, n.frac>>), n.int, n.frac)
    BY <1>1, <2>1, <2>2, BasicTyped
  <2>4. Typed(Node(<<n.int, n.frac>>, 2^total_bits(n) - 1), n.int, n.frac)
    BY <1>1, PowerPositive, NodeTyped
  <2>5. QED BY <2>3, <2>4 DEF q_neg, dtype, inverse
<1>6. Typed(q_abs(n), n.int, n.frac)
  <2>1. IsNode(q_neg(n))
    BY <1>5 DEF Typed
  <2>2. QED BY <1>1, <2>1, BasicTyped DEF q_abs, q_add_sign, dtype
<1>7. QED BY <1>4, <1>5, <1>6 DEF int, frac

LEMMA JamTyped ==
  ASSUME NEW n, IsNode(n), total_bits(n) # 0, NEW k, IsNode(k)
  PROVE  Typed(uq_rshift_jam(n, k), n.int, n.frac)
<1>1. /\ n.int \in Nat /\ n.frac \in Nat /\ total_bits(n) = n.int + n.frac
      /\ total_bits(n) - 1 \in Nat
  BY NodeFields
<1> DEFINE kept == uq_rshift(n, k)
<1>2. Typed(kept, n.int, n.frac)
  BY <1>1, BasicTyped DEF uq_rshift, dtype
<1>3. 2^total_bits(n) = 2 * 2^(total_bits(n) - 1) /\ 2^(total_bits(n) - 1) \in Nat
  BY <1>1, PowerStep, PowerPositive
<1>4. uq_rshift_jam(n, k) = kept \/ (kept.raw % 2 = 0 /\ uq_rshift_jam(n, k) = [kept EXCEPT !.raw = @ + 1])
  BY DEF uq_rshift_jam
<1> HIDE DEF kept
<1>5. CASE kept.raw % 2 = 0 /\ uq_rshift_jam(n, k) = [kept EXCEPT !.raw = @ + 1]
  <2>1. kept \in [int: Nat, frac: Nat, raw: Nat] /\ kept.raw < 2^total_bits(n)
    BY <1>1, <1>2 DEF Typed, IsNode, total_bits
  <2>2. kept.raw + 1 < 2^total_bits(n) /\ kept.raw + 1 \in Nat
    BY <1>3, <1>5, <2>1
  <2>3. /\ uq_rshift_jam(n, k) \in [int: Nat, frac: Nat, raw: Nat]
        /\ uq_rshift_jam(n, k).int = kept.int /\ uq_rshift_jam(n, k).frac = kept.frac
        /\ uq_rshift_jam(n, k).raw = kept.raw + 1
    BY <1>5, <2>1, <2>2
  <2>4. QED BY <1>1, <1>2, <2>2, <2>3 DEF Typed, IsNode, total_bits
<1>6. QED BY <1>2, <1>4, <1>5

\* The normalized significand has one integer bit and keeps its other bits.
LEMMA NormalizeTyped ==
  ASSUME NEW n, IsNode(n), total_bits(n) # 0, NEW k, IsNode(k), k.int >= 1, k.frac = 0
  PROVE  /\ Typed(normalize_to_1_xxx(n, k)[1], 1, Larger(n.int - 1, 0) + n.frac)
         /\ IsNode(normalize_to_1_xxx(n, k)[2])
         /\ normalize_to_1_xxx(n, k)[2].int >= 2 /\ normalize_to_1_xxx(n, k)[2].frac = 0
<1> DEFINE frac      == Larger(n.int - 1, 0) + n.frac
           zeros     == uq_to_q(lzc(n))
           ints      == uq_to_q(UQ_from_int(n.int))
           shift     == q_add(q_sub(zeros, ints), Q_from_int(1))
           sign      == q_sign_bit(shift)
           magnitude == q_abs(shift)
           amount    == q_to_uq(magnitude)
           resized   == uq_resize(n, Larger(1, n.int), frac)
           right_e   == q_add(k, magnitude)
           left_e    == q_sub(k, magnitude)
<1>1. /\ n.int \in Nat /\ n.frac \in Nat /\ frac \in Nat /\ Larger(1, n.int) \in Nat \ {0}
  BY NodeFields DEF Larger
<1>u. ASSUME NEW z, IsNode(z), z.frac = 0
      PROVE  IsNode(uq_to_q(z)) /\ uq_to_q(z).int >= 1 /\ uq_to_q(z).frac = 0
  <2>1. z.int \in Nat
    BY <1>u, NodeFields
  <2>2. QED BY <1>u, <2>1, FixedTyped DEF Typed
<1>2. IsNode(zeros) /\ zeros.int >= 1 /\ zeros.frac = 0
  <2>1. IsNode(lzc(n)) /\ lzc(n).frac = 0
    BY FixedTyped
  <2>2. QED BY <1>u, <2>1
<1>3. IsNode(ints) /\ ints.int >= 1 /\ ints.frac = 0
  <2> DEFINE width == UQ_from_int(n.int)
  <2>1. IsNode(width) /\ width.frac = 0
    BY <1>1, ConstantTyped
  <2> HIDE DEF width
  <2>2. IsNode(uq_to_q(width)) /\ uq_to_q(width).int >= 1 /\ uq_to_q(width).frac = 0
    BY <1>u, <2>1
  <2>3. QED BY <2>2 DEF width
<1>4. IsNode(Q_from_int(1)) /\ Q_from_int(1).int >= 1 /\ Q_from_int(1).frac = 0
  BY SignedConstantTyped, NodeFields
<1> HIDE DEF zeros, ints
<1>5. LET d == q_sub(zeros, ints) IN IsNode(d) /\ d.int >= 1 /\ d.frac = 0
  <2>1. Typed(q_sub(zeros, ints), Larger(zeros.int, ints.int) + 1, Larger(zeros.frac, ints.frac))
    BY <1>2, <1>3, SignedTyped
  <2>2. Larger(zeros.int, ints.int) + 1 >= 1 /\ Larger(zeros.frac, ints.frac) = 0
    BY <1>2, <1>3, NodeFields DEF Larger
  <2>3. QED BY <2>1, <2>2 DEF Typed
<1>6. IsNode(shift) /\ shift.int >= 1 /\ shift.frac = 0
  <2> DEFINE d == q_sub(zeros, ints)
             one == Q_from_int(1)
  <2> HIDE DEF d, one
  <2>1. IsNode(d) /\ d.int >= 1 /\ d.frac = 0 /\ IsNode(one) /\ one.int >= 1 /\ one.frac = 0
    BY <1>4, <1>5 DEF d, one
  <2>2. Typed(q_add(d, one), Larger(d.int, one.int) + 1, Larger(d.frac, one.frac))
    BY <2>1, SignedTyped
  <2>3. Larger(d.int, one.int) + 1 >= 1 /\ Larger(d.frac, one.frac) = 0
    BY <2>1, NodeFields DEF Larger
  <2>4. QED BY <2>2, <2>3 DEF Typed, d, one
<1> HIDE DEF shift
<1>7. IsNode(magnitude) /\ magnitude.int >= 1 /\ magnitude.frac = 0
  BY <1>6, SignedTyped DEF Typed
<1> HIDE DEF magnitude
<1>8. IsNode(amount)
  BY <1>7, FixedTyped DEF Typed
<1>9. Typed(resized, Larger(1, n.int), frac)
  BY <1>1, FixedTyped
<1> HIDE DEF amount, resized, frac
<1>10. total_bits(resized) # 0 /\ IsNode(resized)
  BY <1>1, <1>9, NodeFields DEF Typed
<1>11. Typed(basic_mux_2_1(sign, uq_lshift(resized, amount), uq_rshift_jam(resized, amount), <<1, frac>>), 1, frac)
  <2>1. IsNode(uq_lshift(resized, amount))
    BY <1>8, <1>10, BasicTyped, NodeFields DEF uq_lshift, dtype, Typed
  <2>2. IsNode(uq_rshift_jam(resized, amount))
    BY <1>8, <1>10, JamTyped DEF Typed
  <2>3. QED BY <1>1, <2>1, <2>2, BasicTyped
<1>12. /\ Typed(right_e, Larger(k.int, magnitude.int) + 1, Larger(k.frac, magnitude.frac))
       /\ Typed(left_e, Larger(k.int, magnitude.int) + 1, Larger(k.frac, magnitude.frac))
       /\ Larger(k.int, magnitude.int) + 1 \in Nat /\ Larger(k.int, magnitude.int) + 1 >= 2
       /\ Larger(k.frac, magnitude.frac) = 0
  <2>1. /\ Larger(k.int, magnitude.int) + 1 \in Nat /\ Larger(k.int, magnitude.int) + 1 >= 2
        /\ Larger(k.frac, magnitude.frac) = 0
    BY <1>7, NodeFields DEF Larger
  <2>2. QED BY <1>7, <2>1, SignedTyped
<1> HIDE DEF right_e, left_e
<1>13. LET z == basic_mux_2_1(sign, left_e, right_e, dtype(right_e))
       IN IsNode(z) /\ z.int >= 2 /\ z.frac = 0
  <2>1. IsNode(left_e) /\ IsNode(right_e) /\ right_e.int >= 2 /\ right_e.frac = 0
    BY <1>12 DEF Typed
  <2>2. QED BY <2>1, MuxTyped DEF Typed
<1>14. normalize_to_1_xxx(n, k) =
         << basic_mux_2_1(sign, uq_lshift(resized, amount), uq_rshift_jam(resized, amount), <<1, frac>>),
            basic_mux_2_1(sign, left_e, right_e, dtype(right_e)) >>
  BY DEF normalize_to_1_xxx, left_e, right_e, resized, amount, frac, magnitude, shift, zeros, ints
<1>15. QED BY <1>11, <1>13, <1>14 DEF frac

\* The shifted significand has three more bits, and the exponent is unsigned.
LEMMA ShiftTyped ==
  ASSUME NEW n, IsNode(n), NEW k, IsNode(k), k.int >= 1, k.frac = 0
  PROVE  /\ Typed(shift_if_subnormal(n, k, 3)[1], n.int, n.frac + 3)
         /\ IsNode(shift_if_subnormal(n, k, 3)[2])
         /\ shift_if_subnormal(n, k, 3)[2].frac = 0
<1> DEFINE is_subnormal == bit_or(q_is_zero(k), q_sign_bit(k))
           magnitude    == q_to_uq(q_abs(k))
           no           == Node(Bit, 0)
           shifted_e    == basic_mux_2_1(is_subnormal, magnitude, no, dtype(magnitude))
           shift        == uq_add(Node(Bit, 1), magnitude)
           amount       == basic_mux_2_1(is_subnormal, no, shift, dtype(shift))
           widened      == basic_lshift(n, UQ_from_int(3), <<n.int, n.frac + 3>>)
<1>1. n.int \in Nat /\ n.frac \in Nat /\ n.frac + 3 \in Nat
  BY NodeFields
<1>2. IsNode(q_abs(k)) /\ q_abs(k).int = k.int /\ q_abs(k).frac = 0
  BY SignedTyped DEF Typed
<1>3. IsNode(magnitude) /\ magnitude.frac = 0
  BY <1>2, FixedTyped DEF Typed
<1> HIDE DEF magnitude
<1>4. IsNode(no) /\ IsNode(Node(Bit, 1)) /\ Node(Bit, 1).int = 1 /\ Node(Bit, 1).frac = 0
  BY BitOf
<1> DEFINE one == Node(Bit, 1)
<1> HIDE DEF no, one
<1>5. IsNode(shifted_e) /\ shifted_e.frac = 0
  BY <1>3, <1>4, MuxTyped DEF Typed
<1>6. IsNode(shift)
  <2>1. uq_fraction(one, magnitude) = 0 /\ Larger(one.int, magnitude.int) + 1 \in Nat
    BY <1>3, <1>4, NodeFields DEF uq_fraction, Larger, one
  <2>2. uq_align(one, 0) = one /\ uq_align(magnitude, 0) = magnitude
    BY <1>3, <1>4 DEF uq_align, one
  <2>3. shift = basic_add(one, magnitude, <<Larger(one.int, magnitude.int) + 1, 0>>)
    BY <2>1, <2>2 DEF uq_add, one
  <2>4. IsNode(one)
    BY <1>4 DEF one
  <2>5. QED BY <1>3, <2>1, <2>3, <2>4, BasicTyped DEF Typed
<1> HIDE DEF shift
<1>7. IsNode(amount)
  BY <1>4, <1>6, MuxTyped DEF Typed
<1>8. Typed(widened, n.int, n.frac + 3)
  BY <1>1, ConstantTyped, BasicTyped
<1> HIDE DEF amount, widened
<1>9. Typed(uq_rshift_jam(widened, amount), n.int, n.frac + 3)
  <2>1. IsNode(widened) /\ total_bits(widened) # 0
    BY <1>1, <1>8, NodeFields DEF Typed
  <2>2. QED BY <1>7, <1>8, <2>1, JamTyped DEF Typed
<1>10. shift_if_subnormal(n, k, 3) = <<uq_rshift_jam(widened, amount), shifted_e>>
  BY DEF shift_if_subnormal, widened, amount, shift, magnitude, no
<1>11. QED BY <1>5, <1>9, <1>10

LEMMA SelectTyped ==
  ASSUME NEW n, IsNode(n), NEW start \in Nat, NEW end \in Nat, end <= start
  PROVE  /\ IsNode(uq_select(n, start, end))
         /\ start < n.frac => Typed(uq_select(n, start, end), 0, start - end + 1)
<1> DEFINE frac == IF n.frac > 0 THEN Larger(0, Smaller(start, n.frac - 1) - end + 1) ELSE 0
<1>1. n.frac \in Nat
  BY NodeFields
<1>2. frac \in Nat /\ (start - end + 1) - frac \in Nat
  BY <1>1 DEF Larger, Smaller
<1>3. start < n.frac => frac = start - end + 1
  BY <1>1 DEF Larger, Smaller
<1>4. uq_select(n, start, end) = basic_select(n, start, end, <<(start - end + 1) - frac, frac>>)
  BY DEF uq_select
<1> HIDE DEF frac
<1>5. Typed(uq_select(n, start, end), (start - end + 1) - frac, frac)
  BY <1>2, <1>4, BasicTyped
<1>6. QED BY <1>2, <1>3, <1>5 DEF Typed

LEMMA BitTyped ==
  ASSUME NEW a, IsNode(a), NEW b, IsNode(b)
  PROVE  /\ Typed(bit_and(a, b), 1, 0) /\ Typed(bit_or(a, b), 1, 0)
         /\ Typed(basic_or_reduce(a, Bit), 1, 0) /\ Typed(basic_and_reduce(a, Bit), 1, 0)
         /\ Typed(uq_is_zero(a), 1, 0) /\ Typed(basic_equal(a, b, Bit), 1, 0)
<1>1. a.raw \in Nat /\ b.raw \in Nat
  BY NodeFields
<1>2. a.raw * b.raw \in Int /\ Larger(a.raw, b.raw) \in Int
  BY <1>1 DEF Larger
<1>3. Typed(basic_or_reduce(a, Bit), 1, 0) /\ Typed(basic_and_reduce(a, Bit), 1, 0)
      /\ Typed(basic_equal(a, b, Bit), 1, 0)
  BY NodeTyped DEF basic_or_reduce, basic_and_reduce, basic_equal, TruthBit, Bit
<1>4. Typed(uq_is_zero(a), 1, 0)
  BY <1>3, BasicTyped DEF uq_is_zero, Bit, Typed
<1>5. QED BY <1>2, <1>3, <1>4, NodeTyped DEF bit_and, bit_or, Bit

\* The rounded mantissa is no longer than the mantissa field.
LEMMA RoundTyped ==
  ASSUME NEW n, IsNode(n), n.frac >= 1, NEW k, IsNode(k), k.frac = 0, NEW bits \in Nat
  PROVE  LET both == round_mantissa(drop_implicit_bit(n), k, bits) IN
         /\ Typed(both[1], 0, Smaller(n.frac, bits))
         /\ IsNode(both[2]) /\ both[2].frac = 0
<1> DEFINE d           == drop_implicit_bit(n)
           cut         == Larger(total_bits(d) - bits, 0)
           target_bits == total_bits(d) - cut
           target_int  == Smaller(d.int, target_bits)
           target_frac == Larger(target_bits - target_int, 0)
           no          == Node(Bit, 0)
           at(j)       == uq_select(d, j, j)
           guard       == IF cut >= 1 THEN at(cut - 1) ELSE no
           round_bit   == IF cut >= 2 THEN at(cut - 2) ELSE no
           sticky      == IF cut > 2 THEN basic_or_reduce(uq_select(d, cut - 3, 0), Bit) ELSE no
           tail        == bit_or(bit_or(round_bit, sticky), at(cut))
           increment   == bit_and(guard, tail)
           truncated   == uq_resize(d, target_int, target_frac)
           overflow    == bit_and(basic_and_reduce(truncated, Bit), increment)
           rounded     == basic_add(truncated, increment, <<target_int, target_frac>>)
           next_e      == uq_add(k, overflow)
           normal      == bit_and(uq_is_zero(k), basic_or_reduce(next_e, Bit))
<1>1. n.frac \in Nat /\ n.frac - 1 \in Nat
  BY NodeFields
<1>2. Typed(d, 0, n.frac)
  <2>1. Typed(uq_select(n, n.frac - 1, 0), 0, (n.frac - 1) - 0 + 1)
    BY <1>1, SelectTyped
  <2>2. QED BY <1>1, <2>1 DEF drop_implicit_bit
<1> HIDE DEF d
<1>3. total_bits(d) = n.frac
  BY <1>1, <1>2 DEF Typed, total_bits
<1>4. /\ cut \in Nat /\ target_bits = Smaller(n.frac, bits) /\ target_int = 0
      /\ target_frac = Smaller(n.frac, bits) /\ target_frac \in Nat
  BY <1>1, <1>2, <1>3 DEF Larger, Smaller, Typed
<1>5. IsNode(no)
  BY BitOf
<1> HIDE DEF cut, target_bits, target_int, target_frac, no
<1>6. \A j \in Nat : IsNode(at(j))
  BY <1>2, SelectTyped DEF Typed
<1>7. IsNode(guard) /\ IsNode(round_bit)
  <2>1. (cut >= 1 => cut - 1 \in Nat) /\ (cut >= 2 => cut - 2 \in Nat)
    BY <1>4
  <2>2. QED BY <1>5, <1>6, <2>1
<1>8. IsNode(sticky)
  <2>1. ASSUME cut > 2 PROVE IsNode(basic_or_reduce(uq_select(d, cut - 3, 0), Bit))
    <3>1. cut - 3 \in Nat
      BY <1>4, <2>1
    <3>2. IsNode(uq_select(d, cut - 3, 0))
      BY <1>2, <3>1, SelectTyped DEF Typed
    <3>3. QED BY <3>2, BitTyped DEF Typed
  <2>2. QED BY <1>5, <2>1
<1>9. IsNode(at(cut))
  BY <1>4, <1>6
<1> HIDE DEF at, guard, round_bit, sticky
<1>10. IsNode(tail)
  <2>1. IsNode(bit_or(round_bit, sticky))
    BY <1>7, <1>8, BitTyped DEF Typed
  <2>2. QED BY <1>9, <2>1, BitTyped DEF Typed
<1> HIDE DEF tail
<1>11. IsNode(increment)
  BY <1>7, <1>10, BitTyped DEF Typed
<1>12. IsNode(truncated)
  BY <1>2, <1>4, FixedTyped DEF Typed
<1> HIDE DEF increment, truncated
<1>13. Typed(overflow, 1, 0)
  <2>1. IsNode(basic_and_reduce(truncated, Bit))
    BY <1>12, BitTyped DEF Typed
  <2>2. QED BY <1>11, <2>1, BitTyped
<1>14. Typed(rounded, 0, Smaller(n.frac, bits))
  BY <1>4, <1>11, <1>12, BasicTyped
<1> HIDE DEF overflow, rounded
<1>15. IsNode(next_e) /\ next_e.frac = 0
  <2>1. /\ uq_fraction(k, overflow) = 0 /\ Larger(k.int, overflow.int) + 1 \in Nat
        /\ IsNode(overflow)
    BY <1>13, NodeFields DEF uq_fraction, Larger, Typed
  <2>2. uq_align(k, 0) = k /\ uq_align(overflow, 0) = overflow
    BY <1>13 DEF uq_align, Typed
  <2>3. next_e = basic_add(k, overflow, <<Larger(k.int, overflow.int) + 1, 0>>)
    BY <2>1, <2>2 DEF uq_add
  <2>4. Typed(next_e, Larger(k.int, overflow.int) + 1, 0)
    BY <2>1, <2>3, BasicTyped
  <2>5. QED BY <2>4 DEF Typed
<1> HIDE DEF next_e, normal
<1>16. Typed(basic_mux_2_1(normal, rounded, Node(dtype(rounded), 0), dtype(rounded)),
             0, Smaller(n.frac, bits))
  <2>1. IsNode(rounded) /\ rounded.int \in Nat /\ rounded.frac \in Nat
    BY <1>14, NodeFields DEF Typed
  <2>2. IsNode(Node(dtype(rounded), 0))
    BY <2>1, NodeTyped DEF dtype, Typed
  <2>3. QED BY <1>14, <2>1, <2>2, MuxTyped DEF Typed
<1>17. uq_RNE_IEEE(d, cut) = <<rounded, overflow>>
  BY DEF uq_RNE_IEEE, rounded, overflow, truncated, increment, tail, sticky, round_bit, guard, at,
         no, target_frac, target_int, target_bits
<1>18. round_mantissa(d, k, bits) =
         <<basic_mux_2_1(normal, rounded, Node(dtype(rounded), 0), dtype(rounded)), next_e>>
  BY <1>17 DEF round_mantissa, cut, next_e, normal
<1>19. QED BY <1>15, <1>16, <1>18 DEF d

\* The final fields of an encoder fit the format.
FieldsFit(f, pair) ==
  /\ pair[1].raw \in 0 .. (2^f.mantissa_bits - 1)
  /\ pair[2].raw \in 0 .. (2^f.exponent_bits - 1)

LEMMA Fits ==
  ASSUME NEW f, f.mantissa_bits \in Nat, f.exponent_bits \in Nat,
         NEW i \in Nat, i <= f.mantissa_bits, NEW a, Typed(a, i, 0),
         NEW b, Typed(b, f.exponent_bits, 0)
  PROVE  FieldsFit(f, <<a, b>>)
<1>1. a.raw \in Nat /\ b.raw \in Nat /\ a.raw < 2^i /\ b.raw < 2^f.exponent_bits
  BY NodeFields DEF Typed
<1>2. 2^i \in Nat /\ 2^f.mantissa_bits \in Nat /\ 2^f.exponent_bits \in Nat /\ 2^i <= 2^f.mantissa_bits
  BY PowerPositive, PowerMonotone
<1>3. QED BY <1>1, <1>2 DEF FieldsFit

LEMMA ClampTyped ==
  ASSUME NEW f, f.exponent_bits \in Nat, NEW e0, IsNode(e0), e0.frac = 0, NEW top \in Nat
  PROVE  Typed(clamped_exponent(f, e0, top), f.exponent_bits, 0)
<1> DEFINE limit == UQ_from_int(top)
<1>1. IsNode(limit) /\ limit.frac = 0
  BY ConstantTyped
<1> HIDE DEF limit
<1>2. /\ uq_fraction(e0, limit) = 0 /\ Larger(e0.int, limit.int) \in Nat
      /\ Smaller(e0.raw, limit.raw) \in Int
  BY <1>1, NodeFields DEF uq_fraction, Larger, Smaller
<1>3. uq_align(e0, 0) = e0 /\ uq_align(limit, 0) = limit
  BY <1>1 DEF uq_align
<1>4. uq_min(e0, limit) = basic_min(e0, limit, <<Larger(e0.int, limit.int), 0>>)
  BY <1>2, <1>3 DEF uq_min
<1>5. IsNode(uq_min(e0, limit))
  BY <1>2, <1>4, NodeTyped DEF basic_min, Typed
<1>6. QED BY <1>5, BasicTyped DEF clamped_exponent, limit

LEMMA EncodingsFit ==
  ASSUME NEW f, f.mantissa_bits \in Nat, f.exponent_bits \in Nat, f.max_finite_code \in Nat,
         f.max_finite_mantissa \in Nat,
         NEW n, IsNode(n), n.frac <= f.mantissa_bits, NEW k, IsNode(k), k.frac = 0
  PROVE  /\ FieldsFit(f, inf_encodings(f, n, k))
         /\ FieldsFit(f, saturate_encodings(f, n, k))
         /\ FieldsFit(f, e4m3_encodings(f, n, k))
<1>1. n.int \in Nat /\ n.frac \in Nat
  BY NodeFields
<1>2. FieldsFit(f, inf_encodings(f, n, k))
  <2> DEFINE top     == 2^f.exponent_bits - 1
             final_e == clamped_exponent(f, k, top)
             final_m == basic_mux_2_1(basic_and_reduce(final_e, Bit), n, Node(Bit, 0), dtype(n))
  <2>1. top \in Nat
    BY PowerPositive
  <2>2. Typed(final_e, f.exponent_bits, 0)
    BY <2>1, ClampTyped
  <2>3. Typed(final_m, n.int, n.frac)
    BY BitOf, MuxTyped
  <2> HIDE DEF final_m, final_e
  <2>4. Typed(uq_fraction_to_integer(final_m), n.frac, 0)
    BY <1>1, <2>3, BasicTyped DEF uq_fraction_to_integer, Typed
  <2>5. FieldsFit(f, <<uq_fraction_to_integer(final_m), final_e>>)
    BY <1>1, <2>2, <2>4, Fits
  <2>6. QED BY <2>5 DEF inf_encodings, final_m, final_e
<1>3. ASSUME NEW overflow PROVE Typed(saturated(f, n, overflow), n.frac, 0)
  <2> DEFINE final_m == uq_fraction_to_integer(n)
             most    == UQ_from_int(f.max_finite_mantissa)
  <2>1. Typed(final_m, n.frac, 0)
    BY <1>1, BasicTyped DEF uq_fraction_to_integer
  <2>2. IsNode(most)
    BY ConstantTyped
  <2> HIDE DEF final_m, most
  <2>3. Typed(basic_mux_2_1(overflow, final_m, most, dtype(final_m)), n.frac, 0)
    BY <2>1, <2>2, MuxTyped DEF Typed
  <2>4. QED BY <2>3 DEF saturated, final_m, most
<1>4. Typed(clamped_exponent(f, k, f.max_finite_code), f.exponent_bits, 0)
  BY ClampTyped
<1>5. FieldsFit(f, saturate_encodings(f, n, k))
  BY <1>1, <1>3, <1>4, Fits DEF saturate_encodings
<1>6. FieldsFit(f, e4m3_encodings(f, n, k))
  BY <1>1, <1>3, <1>4, Fits DEF e4m3_encodings
<1>7. QED BY <1>2, <1>5, <1>6

FormatTyped(f) ==
  /\ f.mantissa_bits \in Nat \ {0} /\ f.exponent_bits \in Nat \ {0}
  /\ f.max_finite_code \in Nat /\ f.max_finite_mantissa \in Nat
  /\ f.signs \in {{0}, {0, 1}}

LEMMA FormatFields ==
  ASSUME NEW name \in DOMAIN FormatOf
  PROVE  FormatTyped(FormatOf[name])
<1>1. name \in {"Float16", "BFloat16", "Float32", "E5M2", "E4M3FN", "UE4M3", "E5M2FNUZ", "E2M1"}
  BY DEF FormatOf
<1>2. ASSUME NEW eb \in Nat \ {0}, NEW mb \in Nat \ {0}, NEW bias
      PROVE  FormatTyped(WithInfinities(eb, mb, bias))
  <2>1. 2^eb \in Nat /\ 2^mb \in Nat /\ 2^mb > 0
    BY PowerPositive
  <2>2. 2^eb >= 2
    BY 2^1 = 2, 1 <= eb, PowerMonotone
  <2>3. (2^eb - 1) - 1 \in Nat /\ 2^mb - 1 \in Nat
    BY <2>1, <2>2
  <2>4. QED BY <2>3 DEF FormatTyped, WithInfinities
<1>3. FormatTyped(Float16) /\ FormatTyped(BFloat16) /\ FormatTyped(Float32) /\ FormatTyped(E5M2)
  BY <1>2 DEF Float16, BFloat16, Float32, E5M2
<1>4. FormatTyped(E4M3FN)
  BY DEF FormatTyped, E4M3FN
<1>5. FormatTyped(UE4M3)
  BY DEF FormatTyped, UE4M3, E4M3FN
<1>6. FormatTyped(E5M2FNUZ) /\ FormatTyped(E2M1)
  BY DEF FormatTyped, E5M2FNUZ, E2M1
<1>7. QED BY <1>1, <1>3, <1>4, <1>5, <1>6 DEF FormatOf

\* The final fields of an encoder, a pair of the mantissa and the exponent.
EncodingsOf(f, rm, re) ==
  CASE f = "Float16"  -> fp16_encodings(rm, re)   [] f = "BFloat16" -> bf16_encodings(rm, re)
    [] f = "Float32"  -> fp32_encodings(rm, re)   [] f = "E5M2"     -> e5m2_encodings(rm, re)
    [] f = "E4M3FN"   -> e4m3fn_encodings(rm, re) [] f = "UE4M3"    -> ue4m3_encodings(rm, re)
    [] f = "E5M2FNUZ" -> e5m2fnuz_encodings(rm, re) [] f = "E2M1"   -> e2m1_encodings(rm, re)

LEMMA EncodedFits ==
  ASSUME NEW name \in DOMAIN FormatOf, NEW n, IsNode(n), n.frac <= FormatOf[name].mantissa_bits,
         NEW k, IsNode(k), k.frac = 0
  PROVE  FieldsFit(FormatOf[name], EncodingsOf(name, n, k))
<1> DEFINE f == FormatOf[name]
<1>1. name \in {"Float16", "BFloat16", "Float32", "E5M2", "E4M3FN", "UE4M3", "E5M2FNUZ", "E2M1"}
  BY DEF FormatOf
<1>2. /\ FieldsFit(f, inf_encodings(f, n, k)) /\ FieldsFit(f, saturate_encodings(f, n, k))
      /\ FieldsFit(f, e4m3_encodings(f, n, k))
  BY FormatFields, EncodingsFit DEF FormatTyped
<1>3. EncodingsOf(name, n, k) \in
        {inf_encodings(f, n, k), saturate_encodings(f, n, k), e4m3_encodings(f, n, k)}
  BY <1>1 DEF EncodingsOf, FormatOf, fp16_encodings, bf16_encodings, fp32_encodings,
     e5m2_encodings, e5m2fnuz_encodings, e2m1_encodings, e4m3fn_encodings, ue4m3_encodings
<1>4. QED BY <1>2, <1>3

-----------------------------------------------------------------------------
(* The inductive invariant.                                                *)

Designs ==
  [from: {"Float32"}, to: Narrow] \cup [from: Narrow, to: {"Float32"}]
    \cup [from: {"encoder"}, to: DOMAIN FormatOf]

\* The nodes of the data path, and the code at its end.
Typing ==
  /\ design \in Designs
  /\ stage \in {"decode", "rebase", "normalize", "shift", "round", "encode", "specials", "done"}
  /\ ~ Converting => stage \notin {"decode", "rebase", "specials"}
  /\ Converting => x \in Codes(From)
  /\ Converting /\ stage # "decode" => X = DecodeOf(design.from, x)
  /\ s \in {0, 1} /\ exact_zero \in BOOLEAN
  /\ stage \in {"normalize", "shift", "round", "encode"} => IsNode(m) /\ IsNode(e) /\ e.frac = 0
  /\ stage \in {"normalize", "shift"} => total_bits(m) # 0 /\ e.int >= 1
  /\ stage = "round" => m.frac >= 1
  /\ stage = "encode" => m.frac <= To.mantissa_bits
  /\ stage \in {"specials", "done"} => result \in Codes(To)

\* A zero stays one on its way through the encoder.
ZeroKept ==
  Converting /\ is_zero(From, x) =>
    /\ stage = "normalize" => m.raw = 0
    /\ stage \in {"shift", "round", "encode"} => exact_zero
    /\ stage = "specials" => result = Zero

ConverterInv == Typing /\ ZeroKept /\ SpecialsAsDocumented

LEMMA DesignFormats ==
  ASSUME design \in Designs
  PROVE  /\ design.to \in DOMAIN FormatOf
         /\ Converting => design.from \in DOMAIN FormatOf
         /\ ~ Converting => design.from = "encoder"
BY DEF Designs, Narrow, FormatOf, Converting

LEMMA InitTyping == Init => ConverterInv
<1>1. ASSUME Init, InitConverter PROVE ConverterInv
  <2>1. design \in Designs /\ Converting /\ stage = "decode" /\ x \in Inputs[design.from]
        /\ s = 0 /\ exact_zero = FALSE /\ design.from \in DOMAIN Inputs
    BY <1>1 DEF Init, InitConverter, Designs, Converting, Narrow
  <2>2. x \in Codes(From)
    BY <2>1, InputsAssumption DEF From
  <2>3. QED
    BY <2>1, <2>2 DEF ConverterInv, Typing, ZeroKept, SpecialsAsDocumented
<1>2. ASSUME Init, InitEncoder PROVE ConverterInv
  <2>1. /\ design.from = "encoder" /\ design.to \in DOMAIN Significands
        /\ design = [from |-> "encoder", to |-> design.to] 
        /\ s \in FormatOf[design.to].signs /\ e \in Exponents /\ m \in Significands[design.to]
        /\ stage = "normalize" /\ exact_zero = FALSE
    BY <1>2 DEF Init, InitEncoder
  <2>2. design \in Designs /\ design.to \in DOMAIN FormatOf /\ ~ Converting
    BY <2>1, EncoderAssumption DEF Designs, Converting
  <2>3. s \in {0, 1}
    BY <2>1, <2>2, FormatFields DEF FormatTyped
  <2>4. IsNode(m) /\ total_bits(m) # 0 /\ IsNode(e) /\ e.frac = 0 /\ e.int >= 1
    BY <2>1, EncoderAssumption, NodeFields
  <2>5. QED
    BY <2>1, <2>2, <2>3, <2>4 DEF ConverterInv, Typing, ZeroKept, SpecialsAsDocumented
<1>3. QED BY <1>1, <1>2 DEF Init

LEMMA DecodeKeeps == ConverterInv /\ Decode => ConverterInv'
<1> SUFFICES ASSUME ConverterInv, Decode PROVE ConverterInv'
  OBVIOUS
<1>1. /\ X' = DecodeOf(design.from, x) /\ stage = "decode" /\ stage' = "rebase"
      /\ UNCHANGED <<design, x, s, e, m, given, exact_zero, result, origin>>
  BY DEF Decode
<1>2. Typing'
  BY <1>1 DEF ConverterInv, Typing, Converting, From, To
<1>3. QED BY <1>1, <1>2 DEF ConverterInv, ZeroKept, SpecialsAsDocumented

\* The decoded tuple: its class bits are the types', its fields the code's.
LEMMA DecodedFields ==
  ASSUME NEW name \in DOMAIN FormatOf, NEW c \in Codes(FormatOf[name])
  PROVE  LET k == DecodeOf(name, c) IN
         /\ ClassesAsTyped(FormatOf[name], c, k)
         /\ k.sign = c.sign
         /\ k.exponent = Fields(FormatOf[name], c).exponent
         /\ k.mantissa = Fields(FormatOf[name], c).mantissa
<1>1. name \in {"Float16", "BFloat16", "Float32", "E5M2", "E4M3FN", "UE4M3", "E5M2FNUZ", "E2M1"}
  BY DEF FormatOf
<1>2. ClassesAsTyped(FormatOf[name], c, DecodeOf(name, c))
  BY DecodedAsAssumed
<1>3. CASE name \in {"Float16", "BFloat16", "Float32", "E5M2"}
  <2>1. DecodeOf(name, c) = with_infinities_decode(FormatOf[name], c)
    BY <1>3 DEF DecodeOf, FormatOf, fp16_decode, bf16_decode, fp32_decode, e5m2_decode
  <2>2. QED BY <1>2, <2>1 DEF with_infinities_decode, Decoded, Fields
<1>4. CASE name \in {"E4M3FN", "UE4M3"}
  <2>1. DecodeOf(name, c) = e4m3_decode(FormatOf[name], c)
    BY <1>4 DEF DecodeOf, FormatOf, e4m3fn_decode, ue4m3_decode
  <2>2. QED BY <1>2, <2>1 DEF e4m3_decode, Decoded, Fields
<1>5. CASE name = "E5M2FNUZ"
  <2>1. DecodeOf(name, c) = e5m2fnuz_decode(c) /\ FormatOf[name] = E5M2FNUZ
    BY <1>5 DEF DecodeOf, FormatOf
  <2>2. QED BY <1>2, <2>1 DEF e5m2fnuz_decode, Decoded, Fields
<1>6. CASE name = "E2M1"
  <2>1. DecodeOf(name, c) = e2m1_decode(c) /\ FormatOf[name] = E2M1
    BY <1>6 DEF DecodeOf, FormatOf
  <2>2. QED BY <1>2, <2>1 DEF e2m1_decode, Decoded, Fields
<1>7. QED BY <1>1, <1>3, <1>4, <1>5, <1>6

\* Resizing keeps zero.
LEMMA ResizeZero ==
  ASSUME NEW n, IsNode(n), n.raw = 0, NEW i \in Nat, NEW f \in Nat
  PROVE  uq_resize(n, i, f).raw = 0
<1>1. 2^(i + f) \in Nat /\ 2^(i + f) > 0
  BY PowerPositive
<1>2. Node(<<i, f>>, 0).raw = 0
  BY <1>1 DEF Node
<1>3. ASSUME NEW k, IsNode(k)
      PROVE  basic_lshift(n, k, <<i, f>>).raw = 0 /\ basic_rshift(n, k, <<i, f>>).raw = 0
  <2>1. k.raw \in Nat /\ 2^k.raw \in Nat /\ 2^k.raw > 0
    BY <1>3, NodeFields, PowerPositive
  <2>2. ~ k.raw >= i + f => (0 % 2^((i + f) - k.raw)) * 2^k.raw = 0
    <3>1. SUFFICES ASSUME ~ k.raw >= i + f PROVE (0 % 2^((i + f) - k.raw)) * 2^k.raw = 0
      OBVIOUS
    <3>2. (i + f) - k.raw \in Nat
      BY <2>1, <3>1
    <3>3. 0 % 2^((i + f) - k.raw) = 0
      BY <3>2, PowerPositive
    <3>4. QED BY <2>1, <3>3
  <2>3. 0 \div 2^k.raw = 0
    BY <2>1
  <2>4. QED BY <1>2, <2>2, <2>3 DEF basic_lshift, basic_rshift
<1>4. n.frac \in Nat
  BY NodeFields
<1>5. CASE f > n.frac
  <2>1. IsNode(UQ_from_int(f - n.frac))
    BY <1>4, <1>5, ConstantTyped
  <2>2. QED BY <1>3, <1>5, <2>1 DEF uq_resize
<1>6. CASE f < n.frac
  <2>1. IsNode(UQ_from_int(n.frac - f))
    BY <1>4, <1>6, ConstantTyped
  <2>2. QED BY <1>3, <1>4, <1>6, <2>1 DEF uq_resize
<1>7. CASE f = n.frac
  BY <1>2, <1>4, <1>7 DEF uq_resize, basic_identity
<1>8. QED BY <1>4, <1>5, <1>6, <1>7

LEMMA RebaseKeeps == ConverterInv /\ Rebase => ConverterInv'
<1> SUFFICES ASSUME ConverterInv, Rebase PROVE ConverterInv'
  OBVIOUS
<1> DEFINE width == Larger(From.mantissa_bits, To.mantissa_bits)
           shift == Q_from_int(To.exponent_bias - From.exponent_bias)
           fraction == uq_integer_to_fraction(X.mantissa)
<1>1. /\ stage = "rebase" /\ Converting /\ design \in Designs
      /\ design.to \in DOMAIN FormatOf /\ design.from \in DOMAIN FormatOf
      /\ x \in Codes(From) /\ X = DecodeOf(design.from, x)
  BY DesignFormats DEF Rebase, ConverterInv, Typing
<1>2. FormatTyped(From) /\ FormatTyped(To)
  BY <1>1, FormatFields DEF From, To
<1>3. /\ ClassesAsTyped(From, x, X) /\ X.sign = x.sign
      /\ X.exponent = Fields(From, x).exponent /\ X.mantissa = Fields(From, x).mantissa
  BY <1>1, DecodedFields DEF From
<1>4. /\ IsNode(X.exponent) /\ X.exponent.int = From.exponent_bits /\ X.exponent.frac = 0
      /\ IsNode(X.mantissa) /\ X.mantissa.int = From.mantissa_bits /\ X.mantissa.frac = 0
      /\ X.mantissa.raw = x.mantissa /\ x.sign \in From.signs
  BY <1>1, <1>2, <1>3, FieldsOfCode DEF FormatTyped
<1>5. width \in Nat /\ width >= 1
  BY <1>2 DEF FormatTyped, Larger
<1>6. Typed(fraction, 0, From.mantissa_bits)
  BY <1>2, <1>4, BasicTyped DEF uq_integer_to_fraction, FormatTyped
<1> HIDE DEF fraction
<1>7. IsNode(effective_significand(X))
  <2>1. Typed(add_implicit_bit(fraction), 1, From.mantissa_bits)
    <3>1. 2^fraction.frac + fraction.raw \in Int /\ fraction.frac \in Nat
      BY <1>6, NodeFields, PowerPositive DEF Typed
    <3>2. fraction.frac = From.mantissa_bits
      BY <1>6 DEF Typed
    <3>3. Typed(Node(<<1, fraction.frac>>, 2^fraction.frac + fraction.raw), 1, fraction.frac)
      BY <3>1, NodeTyped
    <3>4. Typed(add_implicit_bit(fraction), 1, fraction.frac)
      BY <3>3 DEF add_implicit_bit
    <3>5. QED BY <3>2, <3>4
  <2>2. Typed(uq_resize(fraction, 1, X.mantissa.int), 1, From.mantissa_bits)
    <3>1. IsNode(fraction) /\ X.mantissa.int \in Nat /\ X.mantissa.int = From.mantissa_bits
      BY <1>2, <1>4, <1>6 DEF Typed, FormatTyped
    <3>2. Typed(uq_resize(fraction, 1, X.mantissa.int), 1, X.mantissa.int)
      BY ONLY <3>1, FixedTyped
    <3>3. QED BY <3>1, <3>2
  <2>3. QED BY <2>1, <2>2 DEF effective_significand, Typed, fraction
<1>8. Typed(m', 1, width)
  BY <1>5, <1>7, FixedTyped DEF Rebase
<1>9. IsNode(e') /\ e'.int >= 1 /\ e'.frac = 0
  <2> DEFINE stored == effective_exponent(X)
             wide   == uq_to_q(stored)
  <2>1. IsNode(stored) /\ stored.frac = 0
    <3>1. Typed(Node(dtype(X.exponent), 1), X.exponent.int, X.exponent.frac)
      BY <1>4, NodeFields, NodeTyped DEF dtype
    <3>2. QED BY <1>4, <3>1 DEF effective_exponent, Typed
  <2> HIDE DEF stored
  <2>2. IsNode(wide) /\ wide.int >= 1 /\ wide.frac = 0
    <3>1. stored.int \in Nat
      BY <2>1, NodeFields
    <3>2. QED BY <2>1, <3>1, FixedTyped DEF Typed
  <2> HIDE DEF wide
  <2>3. IsNode(shift) /\ shift.int >= 1 /\ shift.frac = 0
    <3>1. To.exponent_bias - From.exponent_bias \in Int
      <4>1. \A name \in DOMAIN FormatOf : FormatOf[name].exponent_bias \in Int
        <5>1. Float16.exponent_bias \in Int /\ BFloat16.exponent_bias \in Int
          BY DEF Float16, BFloat16, WithInfinities
        <5>2. Float32.exponent_bias \in Int /\ E5M2.exponent_bias \in Int
          BY DEF Float32, E5M2, WithInfinities
        <5>3. E4M3FN.exponent_bias \in Int /\ UE4M3.exponent_bias \in Int
          BY DEF E4M3FN, UE4M3
        <5>4. E5M2FNUZ.exponent_bias \in Int /\ E2M1.exponent_bias \in Int
          BY DEF E5M2FNUZ, E2M1
        <5>5. QED BY <5>1, <5>2, <5>3, <5>4 DEF FormatOf
      <4>2. QED BY <1>1, <4>1 DEF To, From
    <3>2. QED BY <3>1, SignedConstantTyped, NodeFields
  <2> HIDE DEF shift
  <2>4. Typed(q_add(wide, shift), Larger(wide.int, shift.int) + 1, Larger(wide.frac, shift.frac))
    BY <2>2, <2>3, SignedTyped
  <2>5. Larger(wide.int, shift.int) + 1 >= 1 /\ Larger(wide.frac, shift.frac) = 0
    BY <2>2, <2>3, NodeFields DEF Larger
  <2>6. e' = q_add(wide, shift)
    BY DEF Rebase, wide, stored, shift
  <2>7. QED BY <2>4, <2>5, <2>6 DEF Typed
<1>10. is_zero(From, x) => m'.raw = 0
  <2>1. SUFFICES ASSUME is_zero(From, x) PROVE m'.raw = 0
    OBVIOUS
  <2>2. x.mantissa = 0 /\ ~ X.is_norm
    BY <1>3, <2>1 DEF is_zero, ClassesAsTyped, is_norm
  <2>3. fraction.raw = 0
    <3>1. 2^(0 + X.mantissa.int) \in Nat /\ 2^(0 + X.mantissa.int) > 0
      BY <1>2, <1>4, PowerPositive DEF FormatTyped
    <3>2. QED BY <1>4, <2>2, <3>1 DEF fraction, uq_integer_to_fraction, basic_identity, Node
  <2>4. effective_significand(X) = uq_resize(fraction, 1, X.mantissa.int)
    BY <2>2 DEF effective_significand, fraction
  <2>5. effective_significand(X).raw = 0
    BY <1>2, <1>4, <1>6, <2>3, <2>4, ResizeZero DEF Typed, FormatTyped
  <2>6. QED BY <1>5, <1>7, <2>5, ResizeZero DEF Rebase
<1>11. s' \in {0, 1}
  BY <1>2, <1>3, <1>4 DEF Rebase, FormatTyped
<1>12. IsNode(m') /\ total_bits(m') # 0
  BY <1>5, <1>8, NodeFields DEF Typed
<1>13. stage' = "normalize" /\ UNCHANGED <<design, x, X, exact_zero, result, origin>>
  BY DEF Rebase
<1>14. QED
  BY <1>1, <1>9, <1>10, <1>11, <1>12, <1>13
  DEF ConverterInv, Typing, ZeroKept, SpecialsAsDocumented, Converting, From, To

\* The encoder's five steps.
LEMMA NormalizeKeeps == ConverterInv /\ Normalize => ConverterInv'
<1> SUFFICES ASSUME ConverterInv, Normalize PROVE ConverterInv'
  OBVIOUS
<1>1. /\ stage = "normalize" /\ stage' = "shift"
      /\ UNCHANGED <<design, x, X, s, given, result, origin>>
      /\ m' = normalize_to_1_xxx(m, e)[1] /\ e' = normalize_to_1_xxx(m, e)[2]
      /\ exact_zero' = (uq_is_zero(m).raw = 1)
  BY DEF Normalize
<1>2. IsNode(m) /\ IsNode(e) /\ e.frac = 0 /\ total_bits(m) # 0 /\ e.int >= 1
  BY <1>1 DEF ConverterInv, Typing
<1>3. /\ Typed(m', 1, Larger(m.int - 1, 0) + m.frac)
      /\ IsNode(e') /\ e'.int >= 2 /\ e'.frac = 0
  BY <1>1, <1>2, NormalizeTyped
<1>4. IsNode(m') /\ total_bits(m') # 0 /\ e'.int >= 1
  BY <1>3, NodeFields DEF Typed
<1>5. exact_zero' \in BOOLEAN
  BY <1>1
<1>6. m.raw = 0 => exact_zero'
  <2>1. SUFFICES ASSUME m.raw = 0 PROVE uq_is_zero(m).raw = 1
    BY <1>1
  <2>2. basic_or_reduce(m, Bit) = Node(Bit, 0)
    BY <2>1 DEF basic_or_reduce
  <2>3. basic_or_reduce(m, Bit).raw = 0 /\ total_bits(basic_or_reduce(m, Bit)) = 1
    BY <2>2, BitOf DEF total_bits
  <2>4. uq_is_zero(m) = Node(Bit, 1)
    BY <2>3, 2^1 = 2 DEF uq_is_zero, basic_invert
  <2>5. QED BY <2>4, BitOf
<1>7. QED
  BY <1>1, <1>3, <1>4, <1>5, <1>6
  DEF ConverterInv, Typing, ZeroKept, SpecialsAsDocumented, Converting, From, To

LEMMA ShiftKeeps == ConverterInv /\ Shift => ConverterInv'
<1> SUFFICES ASSUME ConverterInv, Shift PROVE ConverterInv'
  OBVIOUS
<1>1. /\ stage = "shift" /\ stage' = "round"
      /\ UNCHANGED <<design, x, X, s, given, exact_zero, result, origin>>
      /\ m' = shift_if_subnormal(m, e, 3)[1] /\ e' = shift_if_subnormal(m, e, 3)[2]
  BY DEF Shift
<1>2. IsNode(m) /\ IsNode(e) /\ e.frac = 0 /\ e.int >= 1
  BY <1>1 DEF ConverterInv, Typing
<1>3. Typed(m', m.int, m.frac + 3) /\ IsNode(e') /\ e'.frac = 0
  BY <1>1, <1>2, ShiftTyped
<1>4. IsNode(m') /\ m'.frac >= 1
  BY <1>2, <1>3, NodeFields DEF Typed
<1>5. QED
  BY <1>1, <1>3, <1>4
  DEF ConverterInv, Typing, ZeroKept, SpecialsAsDocumented, Converting, From, To

LEMMA RoundKeeps == ConverterInv /\ Round => ConverterInv'
<1> SUFFICES ASSUME ConverterInv, Round PROVE ConverterInv'
  OBVIOUS
<1> DEFINE both == round_mantissa(drop_implicit_bit(m), e, To.mantissa_bits)
<1>1. /\ stage = "round" /\ stage' = "encode" /\ m' = both[1] /\ e' = both[2]
      /\ UNCHANGED <<design, x, X, s, given, exact_zero, result, origin>>
  BY DEF Round
<1>2. IsNode(m) /\ IsNode(e) /\ e.frac = 0 /\ m.frac >= 1 /\ design \in Designs
  BY <1>1 DEF ConverterInv, Typing
<1>3. To.mantissa_bits \in Nat
  BY <1>2, DesignFormats, FormatFields DEF FormatTyped, To
<1>4. Typed(both[1], 0, Smaller(m.frac, To.mantissa_bits)) /\ IsNode(both[2]) /\ both[2].frac = 0
  BY <1>2, <1>3, RoundTyped
<1> HIDE DEF both
<1>5. /\ IsNode(m') /\ IsNode(e') /\ e'.frac = 0 /\ m'.frac <= To.mantissa_bits
  BY <1>1, <1>2, <1>3, <1>4, NodeFields DEF Typed, Smaller
<1>6. QED
  BY <1>1, <1>5
  DEF ConverterInv, Typing, ZeroKept, SpecialsAsDocumented, Converting, From, To

\* What an encoder packs is a code of its format.
LEMMA PackedFits ==
  ASSUME NEW name \in DOMAIN FormatOf, NEW pair, FieldsFit(FormatOf[name], pair),
         NEW sign \in {0, 1}
  PROVE  /\ Code(IF FormatOf[name].signs = {0} THEN 0 ELSE sign, pair[2].raw, pair[1].raw)
              \in Codes(FormatOf[name])
         /\ Zero \in Codes(FormatOf[name])
<1> DEFINE f == FormatOf[name]
<1>1. FormatTyped(f)
  BY FormatFields
<1> HIDE DEF f
<1>2. /\ 2^f.mantissa_bits \in Nat /\ 2^f.mantissa_bits > 0
      /\ 2^f.exponent_bits \in Nat /\ 2^f.exponent_bits > 0
  BY <1>1, PowerPositive DEF FormatTyped
<1>3. (IF f.signs = {0} THEN 0 ELSE sign) \in f.signs /\ 0 \in f.signs
  BY <1>1 DEF FormatTyped
<1>4. FieldsFit(f, pair)
  BY DEF f
<1>5. QED BY <1>2, <1>3, <1>4 DEF Codes, Code, Zero, FieldsFit, f

\* An encoder returns the zero or its final fields, packed with the sign.
LEMMA EncodedAs ==
  ASSUME NEW name \in DOMAIN FormatOf, NEW sign, NEW n, NEW k, NEW zero \in BOOLEAN
  PROVE  /\ EncodedOf(name, sign, n, k, zero) \in
              { Zero, Code(IF FormatOf[name].signs = {0} THEN 0 ELSE sign,
                           EncodingsOf(name, n, k)[2].raw, EncodingsOf(name, n, k)[1].raw) }
         /\ zero => EncodedOf(name, sign, n, k, zero) = Zero
<1>1. name \in {"Float16", "BFloat16", "Float32", "E5M2", "E4M3FN", "UE4M3", "E5M2FNUZ", "E2M1"}
  BY DEF FormatOf
<1>2. {0, 1} # {0}
  <2>1. 1 \in {0, 1} /\ 1 \notin {0}
    OBVIOUS
  <2>2. QED BY <2>1
<1>3. CASE name = "UE4M3"
  <2>1. FormatOf[name].signs = {0}
    BY <1>3 DEF FormatOf, UE4M3, E4M3FN
  <2>2. QED BY <1>3, <2>1 DEF EncodedOf, EncodingsOf, ue4m3_encoded, packed_unless
<1>4. ASSUME name # "UE4M3"
      PROVE  (IF FormatOf[name].signs = {0} THEN 0 ELSE sign) = sign
  <2>1. FormatOf[name].signs = {0, 1}
    <3>1. CASE name \in {"Float16", "BFloat16", "Float32", "E5M2"}
      <4>1. \A eb, mb, bias : WithInfinities(eb, mb, bias).signs = {0, 1}
        BY DEF WithInfinities
      <4>2. QED BY <3>1, <4>1 DEF FormatOf, Float16, BFloat16, Float32, E5M2
    <3>2. CASE name \in {"E4M3FN", "E5M2FNUZ", "E2M1"}
      BY <3>2 DEF FormatOf, E4M3FN, E5M2FNUZ, E2M1
    <3>3. QED BY <1>1, <1>4, <3>1, <3>2
  <2>2. QED BY <1>2, <2>1
<1>5. CASE name = "E5M2FNUZ"
  BY <1>4, <1>5 DEF EncodedOf, EncodingsOf, e5m2fnuz_encoded, packed_unless
<1>6. CASE name \in {"Float16", "BFloat16", "Float32", "E5M2", "E4M3FN", "E2M1"}
  BY <1>4, <1>6 DEF EncodedOf, EncodingsOf, fp16_encoded, bf16_encoded, fp32_encoded,
                    e5m2_encoded, e4m3fn_encoded, e2m1_encoded, packed_unless
<1>7. QED BY <1>1, <1>3, <1>5, <1>6

LEMMA EncodeKeeps == ConverterInv /\ Encode => ConverterInv'
<1> SUFFICES ASSUME ConverterInv, Encode PROVE ConverterInv'
  OBVIOUS
<1> DEFINE final == EncodingsOf(design.to, m, e)
           sign  == IF To.signs = {0} THEN 0 ELSE s
           packed == Code(sign, final[2].raw, final[1].raw)
<1>1. /\ stage = "encode" /\ stage' = IF Converting THEN "specials" ELSE "done"
      /\ result' \in {Zero, packed} /\ (exact_zero => result' = Zero)
      /\ UNCHANGED <<design, x, X, s, e, m, given, exact_zero, origin>>
  <2>1. stage = "encode" /\ design.to \in DOMAIN FormatOf /\ exact_zero \in BOOLEAN
    BY DesignFormats DEF Encode, ConverterInv, Typing
  <2>2. /\ EncodedOf(design.to, s, m, e, exact_zero) \in {Zero, packed}
        /\ exact_zero => EncodedOf(design.to, s, m, e, exact_zero) = Zero
    BY <2>1, EncodedAs DEF To
  <2>3. QED BY <2>2 DEF Encode
<1>2. /\ IsNode(m) /\ IsNode(e) /\ e.frac = 0 /\ m.frac <= To.mantissa_bits /\ design \in Designs
      /\ s \in {0, 1}
  BY <1>1 DEF ConverterInv, Typing
<1>3. design.to \in DOMAIN FormatOf
  BY <1>2, DesignFormats
<1>4. FieldsFit(To, final)
  BY <1>2, <1>3, EncodedFits DEF To
<1> HIDE DEF final
<1>5. packed \in Codes(To) /\ Zero \in Codes(To)
  BY <1>2, <1>3, <1>4, PackedFits DEF To
<1> HIDE DEF packed
<1>6. result' \in Codes(To)
  BY <1>1, <1>5
<1>7. QED
  BY <1>1, <1>6
  DEF ConverterInv, Typing, ZeroKept, SpecialsAsDocumented, Finite, Converting, From, To

-----------------------------------------------------------------------------
(* Special values.                                                         *)

\* The code v is one of f, and the documented one when c is special.
SpecialOf(f, from, c, v) ==
  v \in Codes(f) /\ (IsSpecial(from, c) => v = DocumentedSpecial(f, from, c))

\* A decoded tuple tells its code's class and sign; a zero is encoded as the zero.
Source(f, from, c, d, r) ==
  /\ ClassesAsTyped(from, c, d) /\ d.sign = c.sign /\ c.sign \in {0, 1}
  /\ r \in Codes(f) /\ (is_zero(from, c) => r = Zero)

\* A format with a NaN, infinities and a negative zero.
Complete(f) ==
  /\ "NaN" \in DOMAIN f /\ f.NaN \in Codes(f) /\ f.signs = {0, 1} /\ f.inf # {} /\ f.signed_zero
  /\ \A sign \in {0, 1} : Infinity(f, sign) \in Codes(f)
  /\ nZero \in Codes(f)

LEMMA InfinitiesComplete ==
  ASSUME NEW eb \in Nat, NEW mb \in Nat, NEW bias, eb >= 1, mb >= 1
  PROVE  Complete(WithInfinities(eb, mb, bias))
<1> DEFINE f == WithInfinities(eb, mb, bias)
<1>1. mb - 1 \in Nat /\ mb = (mb - 1) + 1
  OBVIOUS
<1>2. /\ 2^eb \in Nat /\ 2^eb > 0 /\ 2^mb \in Nat /\ 2^mb > 0
      /\ 2^(mb - 1) \in Nat /\ 2^(mb - 1) > 0
  BY <1>1, PowerPositive
<1>3. 2^mb = 2 * 2^(mb - 1)
  BY <1>1, PowerStep
<1>4. /\ f.exponent_bits = eb /\ f.mantissa_bits = mb /\ f.signs = {0, 1} /\ f.signed_zero
      /\ f.NaN = Code(0, 2^eb - 1, 2^(mb - 1)) /\ "NaN" \in DOMAIN f
      /\ f.inf = [sign: {0, 1}, exponent: {2^eb - 1}, mantissa: {0}]
  BY DEF WithInfinities
<1> HIDE DEF f
<1>5. 2^(mb - 1) \in 0 .. (2^mb - 1) /\ 2^eb - 1 \in 0 .. (2^eb - 1) /\ 0 \in 0 .. (2^mb - 1)
      /\ 0 \in 0 .. (2^eb - 1)
  BY <1>2, <1>3
<1>6. f.NaN \in Codes(f) /\ nZero \in Codes(f)
      /\ \A sign \in {0, 1} : Infinity(f, sign) \in Codes(f)
  BY <1>4, <1>5 DEF Codes, Code, nZero, Infinity
<1>7. f.inf # {}
  <2>1. Code(0, 2^eb - 1, 0) \in f.inf
    BY <1>4 DEF Code
  <2>2. QED BY <2>1
<1>8. QED BY <1>4, <1>6, <1>7 DEF Complete, f

LEMMA CompleteFormats ==
  Complete(Float16) /\ Complete(BFloat16) /\ Complete(E5M2) /\ Complete(Float32)
BY InfinitiesComplete DEF Float16, BFloat16, E5M2, Float32

\* The codes the formats without infinities put in their place.
LEMMA FiniteFormats ==
  /\ "NaN" \in DOMAIN E4M3FN /\ E4M3FN.NaN \in Codes(E4M3FN) /\ E4M3FN.signs = {0, 1}
  /\ E4M3FN.inf = {} /\ E4M3FN.signed_zero /\ nZero \in Codes(E4M3FN)
  /\ \A sign \in {0, 1} : Largest(E4M3FN, sign) \in Codes(E4M3FN)
  /\ "NaN" \in DOMAIN UE4M3 /\ UE4M3.NaN \in Codes(UE4M3) /\ UE4M3.signs = {0}
  /\ UE4M3.inf = {} /\ ~ UE4M3.signed_zero /\ Zero \in Codes(UE4M3)
  /\ Largest(UE4M3, 0) \in Codes(UE4M3)
  /\ "NaN" \in DOMAIN E5M2FNUZ /\ E5M2FNUZ.NaN \in Codes(E5M2FNUZ) /\ E5M2FNUZ.signs = {0, 1}
  /\ E5M2FNUZ.inf = {} /\ ~ E5M2FNUZ.signed_zero
  /\ \A sign \in {0, 1} : Largest(E5M2FNUZ, sign) \in Codes(E5M2FNUZ)
  /\ "NaN" \notin DOMAIN E2M1 /\ E2M1.signs = {0, 1} /\ E2M1.nan = {}
  /\ E2M1.inf = {} /\ E2M1.signed_zero /\ nZero \in Codes(E2M1)
  /\ \A sign \in {0, 1} : Largest(E2M1, sign) \in Codes(E2M1)
<1>1. 2^4 = 16 /\ 2^3 = 8 /\ 2^5 = 32 /\ 2^2 = 4 /\ 2^1 = 2
  OBVIOUS
<1>2. /\ "NaN" \in DOMAIN E4M3FN /\ E4M3FN.NaN \in Codes(E4M3FN) /\ E4M3FN.signs = {0, 1}
      /\ E4M3FN.inf = {} /\ E4M3FN.signed_zero /\ nZero \in Codes(E4M3FN)
      /\ \A sign \in {0, 1} : Largest(E4M3FN, sign) \in Codes(E4M3FN)
  BY <1>1 DEF E4M3FN, Codes, Code, nZero, Largest
<1>3. /\ "NaN" \in DOMAIN UE4M3 /\ UE4M3.NaN \in Codes(UE4M3) /\ UE4M3.signs = {0}
      /\ UE4M3.inf = {} /\ ~ UE4M3.signed_zero /\ Zero \in Codes(UE4M3)
      /\ Largest(UE4M3, 0) \in Codes(UE4M3)
  BY <1>1 DEF E4M3FN, UE4M3, Codes, Code, Zero, Largest
<1>4. /\ "NaN" \in DOMAIN E5M2FNUZ /\ E5M2FNUZ.NaN \in Codes(E5M2FNUZ)
      /\ E5M2FNUZ.signs = {0, 1} /\ E5M2FNUZ.inf = {} /\ ~ E5M2FNUZ.signed_zero
      /\ \A sign \in {0, 1} : Largest(E5M2FNUZ, sign) \in Codes(E5M2FNUZ)
  BY <1>1 DEF E5M2FNUZ, Codes, Code, Largest
<1>5. /\ "NaN" \notin DOMAIN E2M1 /\ E2M1.signs = {0, 1} /\ E2M1.nan = {}
      /\ E2M1.inf = {} /\ E2M1.signed_zero /\ nZero \in Codes(E2M1)
      /\ \A sign \in {0, 1} : Largest(E2M1, sign) \in Codes(E2M1)
  BY <1>1 DEF E2M1, Codes, Code, nZero, Largest
<1>6. QED BY <1>2, <1>3, <1>4, <1>5

\* Codes without infinities, and the zeros that have no sign.
LEMMA FiniteSources ==
  /\ \A c : ~ is_inf(E4M3FN, c) /\ ~ is_inf(UE4M3, c) /\ ~ is_inf(E5M2FNUZ, c)
            /\ ~ is_inf(E2M1, c) /\ ~ is_nan(E2M1, c)
  /\ \A c \in Codes(UE4M3) : c.sign = 0
  /\ \A c \in Codes(E5M2FNUZ) : is_zero(E5M2FNUZ, c) => c.sign = 0
<1>1. \A c : ~ is_inf(E4M3FN, c) /\ ~ is_inf(UE4M3, c) /\ ~ is_inf(E5M2FNUZ, c)
             /\ ~ is_inf(E2M1, c) /\ ~ is_nan(E2M1, c)
  BY FiniteFormats DEF is_inf, is_nan
<1>2. \A c \in Codes(UE4M3) : c.sign = 0
  BY FiniteFormats DEF Codes
<1>3. ASSUME NEW c \in Codes(E5M2FNUZ), is_zero(E5M2FNUZ, c) PROVE c.sign = 0
  <2>1. c.sign \in {0, 1} /\ c = Code(c.sign, c.exponent, c.mantissa)
    BY FiniteFormats DEF Codes, Code
  <2>2. c.exponent = 0 /\ c.mantissa = 0 /\ c \notin {Code(1, 0, 0)}
    BY <1>3 DEF is_zero, is_nan, E5M2FNUZ
  <2>3. QED BY <2>1, <2>2
<1>4. QED BY <1>1, <1>2, <1>3

LEMMA AllSpecials ==
  ASSUME NEW f, Complete(f), NEW from, NEW c, NEW d, NEW r, Source(f, from, c, d, r)
  PROVE  SpecialOf(f, from, c, all_specials(f, d, r))
<1>1. f.signs # {0}
  BY DEF Complete
<1>2. QED
  BY <1>1 DEF Complete, Source, SpecialOf, all_specials, nan_else, inf_else, negative_zero,
     ClassesAsTyped, IsSpecial, DocumentedSpecial, is_zero

\* The multiplexers of each narrowing.
LEMMA NarrowSpecials ==
  ASSUME NEW from, NEW c, NEW d, NEW r
  PROVE  /\ Source(Float16, from, c, d, r) => SpecialOf(Float16, from, c, fp32_to_fp16(d, r))
         /\ Source(BFloat16, from, c, d, r) => SpecialOf(BFloat16, from, c, fp32_to_bf16(d, r))
         /\ Source(E5M2, from, c, d, r) => SpecialOf(E5M2, from, c, fp32_to_e5m2(d, r))
         /\ Source(E4M3FN, from, c, d, r) => SpecialOf(E4M3FN, from, c, fp32_to_e4m3fn(d, r))
         /\ Source(E5M2FNUZ, from, c, d, r) => SpecialOf(E5M2FNUZ, from, c, fp32_to_e5m2fnuz(d, r))
         /\ Source(UE4M3, from, c, d, r) => SpecialOf(UE4M3, from, c, fp32_to_ue4m3(d, r))
         /\ Source(E2M1, from, c, d, r) => SpecialOf(E2M1, from, c, fp32_to_e2m1(d, r))
<1>1. Source(Float16, from, c, d, r) => SpecialOf(Float16, from, c, fp32_to_fp16(d, r))
  BY CompleteFormats, AllSpecials DEF fp32_to_fp16
<1>2. Source(BFloat16, from, c, d, r) => SpecialOf(BFloat16, from, c, fp32_to_bf16(d, r))
  BY CompleteFormats, AllSpecials DEF fp32_to_bf16
<1>3. Source(E5M2, from, c, d, r) => SpecialOf(E5M2, from, c, fp32_to_e5m2(d, r))
  BY CompleteFormats, AllSpecials DEF fp32_to_e5m2
<1>4. Source(E4M3FN, from, c, d, r) => SpecialOf(E4M3FN, from, c, fp32_to_e4m3fn(d, r))
  BY FiniteFormats DEF Source, SpecialOf, fp32_to_e4m3fn, nan_else, max_else, negative_zero,
     ClassesAsTyped, IsSpecial, DocumentedSpecial, is_zero
<1>5. Source(E5M2FNUZ, from, c, d, r) => SpecialOf(E5M2FNUZ, from, c, fp32_to_e5m2fnuz(d, r))
  BY FiniteFormats DEF Source, SpecialOf, fp32_to_e5m2fnuz, nan_else, max_else,
     ClassesAsTyped, IsSpecial, DocumentedSpecial, is_zero
<1>6. Source(UE4M3, from, c, d, r) => SpecialOf(UE4M3, from, c, fp32_to_ue4m3(d, r))
  BY FiniteFormats DEF Source, SpecialOf, fp32_to_ue4m3,
     ClassesAsTyped, IsSpecial, DocumentedSpecial, is_zero
<1>7. Source(E2M1, from, c, d, r) => SpecialOf(E2M1, from, c, fp32_to_e2m1(d, r))
  BY FiniteFormats DEF Source, SpecialOf, fp32_to_e2m1, max_else, negative_zero,
     ClassesAsTyped, IsSpecial, DocumentedSpecial, is_zero
<1>8. QED BY <1>1, <1>2, <1>3, <1>4, <1>5, <1>6, <1>7

\* The multiplexers of each widening.
LEMMA WideSpecials ==
  ASSUME NEW c, NEW d, NEW r
  PROVE  /\ Source(Float32, Float16, c, d, r) => SpecialOf(Float32, Float16, c, fp16_to_fp32(d, r))
         /\ Source(Float32, BFloat16, c, d, r) => SpecialOf(Float32, BFloat16, c, bf16_to_fp32(d, r))
         /\ Source(Float32, E5M2, c, d, r) => SpecialOf(Float32, E5M2, c, e5m2_to_fp32(d, r))
         /\ Source(Float32, E4M3FN, c, d, r) => SpecialOf(Float32, E4M3FN, c, e4m3fn_to_fp32(d, r))
         /\ c \in Codes(E5M2FNUZ) /\ Source(Float32, E5M2FNUZ, c, d, r)
              => SpecialOf(Float32, E5M2FNUZ, c, e5m2fnuz_to_fp32(d, r))
         /\ c \in Codes(UE4M3) /\ Source(Float32, UE4M3, c, d, r)
              => SpecialOf(Float32, UE4M3, c, ue4m3_to_fp32(d, r))
         /\ Source(Float32, E2M1, c, d, r) => SpecialOf(Float32, E2M1, c, e2m1_to_fp32(d, r))
<1>1. Source(Float32, Float16, c, d, r) => SpecialOf(Float32, Float16, c, fp16_to_fp32(d, r))
  BY CompleteFormats, AllSpecials DEF fp16_to_fp32
<1>2. Source(Float32, BFloat16, c, d, r) => SpecialOf(Float32, BFloat16, c, bf16_to_fp32(d, r))
  BY CompleteFormats, AllSpecials DEF bf16_to_fp32
<1>3. Source(Float32, E5M2, c, d, r) => SpecialOf(Float32, E5M2, c, e5m2_to_fp32(d, r))
  BY CompleteFormats, AllSpecials DEF e5m2_to_fp32
<1>4. Source(Float32, E4M3FN, c, d, r) => SpecialOf(Float32, E4M3FN, c, e4m3fn_to_fp32(d, r))
  BY CompleteFormats, FiniteSources DEF Complete, Source, SpecialOf, e4m3fn_to_fp32, nan_else,
     negative_zero, ClassesAsTyped, IsSpecial, DocumentedSpecial, is_zero
<1>5. c \in Codes(E5M2FNUZ) /\ Source(Float32, E5M2FNUZ, c, d, r)
        => SpecialOf(Float32, E5M2FNUZ, c, e5m2fnuz_to_fp32(d, r))
  BY CompleteFormats, FiniteSources DEF Complete, Source, SpecialOf, e5m2fnuz_to_fp32, nan_else,
     ClassesAsTyped, IsSpecial, DocumentedSpecial
<1>6. c \in Codes(UE4M3) /\ Source(Float32, UE4M3, c, d, r)
        => SpecialOf(Float32, UE4M3, c, ue4m3_to_fp32(d, r))
  BY CompleteFormats, FiniteSources DEF Complete, Source, SpecialOf, ue4m3_to_fp32, nan_else,
     ClassesAsTyped, IsSpecial, DocumentedSpecial
<1>7. Source(Float32, E2M1, c, d, r) => SpecialOf(Float32, E2M1, c, e2m1_to_fp32(d, r))
  BY CompleteFormats, FiniteSources DEF Complete, Source, SpecialOf, e2m1_to_fp32,
     negative_zero, ClassesAsTyped, IsSpecial, DocumentedSpecial, is_zero
<1>8. QED BY <1>1, <1>2, <1>3, <1>4, <1>5, <1>6, <1>7

LEMMA SpecialsDocumented ==
  ASSUME design \in Designs, Converting, x \in Codes(From), NEW d, NEW r,
         Source(To, From, x, d, r)
  PROVE  SpecialOf(To, From, x, SpecialsOf(d, r))
<1>1. CASE design.from = "Float32" /\ design.to \in Narrow
  <2>1. CASE design.to = "Float16"
    <3>1. To = Float16 /\ SpecialsOf(d, r) = fp32_to_fp16(d, r)
      BY <1>1, <2>1 DEF To, FormatOf, SpecialsOf
    <3>2. QED BY <3>1, NarrowSpecials
  <2>2. CASE design.to = "BFloat16"
    <3>1. To = BFloat16 /\ SpecialsOf(d, r) = fp32_to_bf16(d, r)
      BY <1>1, <2>2 DEF To, FormatOf, SpecialsOf
    <3>2. QED BY <3>1, NarrowSpecials
  <2>3. CASE design.to = "E5M2"
    <3>1. To = E5M2 /\ SpecialsOf(d, r) = fp32_to_e5m2(d, r)
      BY <1>1, <2>3 DEF To, FormatOf, SpecialsOf
    <3>2. QED BY <3>1, NarrowSpecials
  <2>4. CASE design.to = "E4M3FN"
    <3>1. To = E4M3FN /\ SpecialsOf(d, r) = fp32_to_e4m3fn(d, r)
      BY <1>1, <2>4 DEF To, FormatOf, SpecialsOf
    <3>2. QED BY <3>1, NarrowSpecials
  <2>5. CASE design.to = "E5M2FNUZ"
    <3>1. To = E5M2FNUZ /\ SpecialsOf(d, r) = fp32_to_e5m2fnuz(d, r)
      BY <1>1, <2>5 DEF To, FormatOf, SpecialsOf
    <3>2. QED BY <3>1, NarrowSpecials
  <2>6. CASE design.to = "UE4M3"
    <3>1. To = UE4M3 /\ SpecialsOf(d, r) = fp32_to_ue4m3(d, r)
      BY <1>1, <2>6 DEF To, FormatOf, SpecialsOf
    <3>2. QED BY <3>1, NarrowSpecials
  <2>7. CASE design.to = "E2M1"
    <3>1. To = E2M1 /\ SpecialsOf(d, r) = fp32_to_e2m1(d, r)
      BY <1>1, <2>7 DEF To, FormatOf, SpecialsOf
    <3>2. QED BY <3>1, NarrowSpecials
  <2>8. QED BY <1>1, <2>1, <2>2, <2>3, <2>4, <2>5, <2>6, <2>7 DEF Narrow
<1>2. CASE design.to = "Float32" /\ design.from \in Narrow
  <2>1. To = Float32
    BY <1>2 DEF To, FormatOf
  <2>2. CASE design.from = "Float16"
    BY <1>2, <2>1, <2>2, WideSpecials DEF From, FormatOf, SpecialsOf
  <2>3. CASE design.from = "BFloat16"
    BY <1>2, <2>1, <2>3, WideSpecials DEF From, FormatOf, SpecialsOf
  <2>4. CASE design.from = "E5M2"
    BY <1>2, <2>1, <2>4, WideSpecials DEF From, FormatOf, SpecialsOf
  <2>5. CASE design.from = "E4M3FN"
    BY <1>2, <2>1, <2>5, WideSpecials DEF From, FormatOf, SpecialsOf
  <2>6. CASE design.from = "E5M2FNUZ"
    BY <1>2, <2>1, <2>6, WideSpecials DEF From, FormatOf, SpecialsOf
  <2>7. CASE design.from = "UE4M3"
    BY <1>2, <2>1, <2>7, WideSpecials DEF From, FormatOf, SpecialsOf
  <2>8. CASE design.from = "E2M1"
    BY <1>2, <2>1, <2>8, WideSpecials DEF From, FormatOf, SpecialsOf
  <2>9. QED BY <1>2, <2>2, <2>3, <2>4, <2>5, <2>6, <2>7, <2>8 DEF Narrow
<1>3. QED BY <1>1, <1>2 DEF Designs, Converting

LEMMA SpecialsKeeps == ConverterInv /\ Specials => ConverterInv'
<1> SUFFICES ASSUME ConverterInv, Specials PROVE ConverterInv'
  OBVIOUS
<1>1. /\ stage = "specials" /\ stage' = "done" /\ result' = SpecialsOf(X, result)
      /\ UNCHANGED <<design, x, X, s, e, m, given, exact_zero, origin>>
  BY DEF Specials
<1>2. /\ Converting /\ design \in Designs /\ x \in Codes(From)
      /\ X = DecodeOf(design.from, x) /\ result \in Codes(To)
      /\ is_zero(From, x) => result = Zero
  BY <1>1 DEF ConverterInv, Typing, ZeroKept
<1>3. design.from \in DOMAIN FormatOf
  BY <1>2, DesignFormats
<1>4. ClassesAsTyped(From, x, X) /\ X.sign = x.sign
  BY <1>2, <1>3, DecodedFields DEF From
<1>5. x.sign \in {0, 1}
  <2>1. x.sign \in From.signs
    BY <1>2 DEF Codes
  <2>2. QED BY <1>3, <2>1, FormatFields DEF From, FormatTyped
<1>6. Source(To, From, x, X, result)
  BY <1>2, <1>4, <1>5 DEF Source
<1>7. SpecialOf(To, From, x, result')
  BY <1>1, <1>2, <1>6, SpecialsDocumented
<1>8. QED
  BY <1>1, <1>2, <1>7
  DEF SpecialOf, ConverterInv, Typing, ZeroKept, SpecialsAsDocumented, Finite, Converting, From, To

LEMMA ReturnKeeps == ConverterInv /\ Return => ConverterInv'
<1> SUFFICES ASSUME ConverterInv, Return PROVE ConverterInv'
  OBVIOUS
<1>1. /\ stage = "done" /\ stage' = "decode" /\ design.to = "Float32" /\ Converting
      /\ design' = [from |-> "Float32", to |-> design.from] /\ x' = result
      /\ UNCHANGED <<X, s, e, m, given, exact_zero, result, origin>>
  BY DEF Return
<1>2. design \in Designs /\ result \in Codes(To) /\ s \in {0, 1} /\ exact_zero \in BOOLEAN
  BY <1>1 DEF ConverterInv, Typing
<1>3. design.from \in Narrow
  BY <1>1, <1>2 DEF Designs, Converting, Narrow
<1>4. design' \in Designs /\ design'.from = "Float32"
  BY <1>1, <1>3 DEF Designs
<1>5. From' = To
  BY <1>1, <1>4 DEF From, To
<1>6. x' \in Codes(From')
  BY <1>1, <1>2, <1>5
<1>7. QED
  BY <1>1, <1>2, <1>4, <1>6
  DEF ConverterInv, Typing, ZeroKept, SpecialsAsDocumented, Converting

-----------------------------------------------------------------------------
(* Theorems.                                                               *)

LEMMA ConverterStep == ConverterInv /\ [Next]_vars => ConverterInv'
<1> SUFFICES ASSUME ConverterInv, [Next]_vars PROVE ConverterInv'
  OBVIOUS
<1>1. CASE UNCHANGED vars
  BY <1>1
  DEF vars, ConverterInv, Typing, ZeroKept, SpecialsAsDocumented, Finite, Converting, From, To
<1>2. QED
  BY <1>1, DecodeKeeps, RebaseKeeps, NormalizeKeeps, ShiftKeeps, RoundKeeps,
     EncodeKeeps, SpecialsKeeps, ReturnKeeps
  DEF Next

\* Every step of a data path keeps the types of its nodes, and whatever nodes an
\* encoder is given, what it packs and what a converter's multiplexers select is
\* a code of the target format: no field spills into another.
THEOREM ConverterTyped == Spec => []ConverterInv
BY InitTyping, ConverterStep, PTL DEF Spec

\* A NaN, an infinity or a zero of any format is converted to the code the README
\* of the converters documents, whatever the encoder made of its fields.
THEOREM SpecialValuesAsDocumented == Spec => []SpecialsAsDocumented
<1>1. ConverterInv => SpecialsAsDocumented
  BY DEF ConverterInv
<1>2. QED BY <1>1, ConverterTyped, PTL

-----------------------------------------------------------------------------
(* What the specs see of a code: its class and value once its fields are   *)
(* packed, and the special values they have names for.                     *)

\* The two formulas for the value of a number.
LEMMA PackedMagnitude ==
  ASSUME NEW f, f.exponent_bias \in Int, f.mantissa_bits \in Nat,
         NEW c, c.exponent \in Nat, c.mantissa \in Nat
  PROVE  /\ c.exponent # 0 => normal_magnitude(f, c) = Magnitude(f, c)
         /\ c.exponent = 0 => subnormal_magnitude(f, c) = Magnitude(f, c)
BY DEF normal_magnitude, subnormal_magnitude, Magnitude, Mag

PackedAsTyped(f, c, k) ==
  ClassesAsTyped(f, c, k) /\ (k.is_norm \/ k.is_sub => k.value = Magnitude(f, c))

LEMMA TypedBits ==
  ASSUME NEW f, NEW c, NEW k, ClassesAsTyped(f, c, k)
  PROVE  ClassBits(k)
BY DEF ClassesAsTyped, ClassBits, is_norm, is_sub, is_zero, is_inf, is_nan

\* Packing in a format with infinities.
LEMMA InfinitiesPacked ==
  ASSUME NEW eb \in Nat, NEW mb \in Nat, NEW bias \in Int, eb >= 2, mb >= 1,
         NEW c \in Codes(WithInfinities(eb, mb, bias))
  PROVE  PackedAsTyped(WithInfinities(eb, mb, bias), c,
                       with_infinities_pack(WithInfinities(eb, mb, bias), c))
<1> DEFINE f == WithInfinities(eb, mb, bias)
           k == with_infinities_pack(f, c)
           top == 2^eb - 1
           norm == c.exponent # 0 /\ c.exponent # top
           sub  == c.exponent = 0 /\ c.mantissa # 0
           zero == c.exponent = 0 /\ c.mantissa = 0
           inf  == c.exponent = top /\ c.mantissa = 0
           nan  == c.exponent = top /\ c.mantissa # 0
<1>1. /\ f.exponent_bits = eb /\ f.mantissa_bits = mb /\ f.signs = {0, 1}
      /\ f.exponent_bias = bias
      /\ f.inf = [sign: {0, 1}, exponent: {top}, mantissa: {0}]
      /\ f.nan = [sign: {0, 1}, exponent: {top}, mantissa: 1 .. (2^mb - 1)]
  BY DEF WithInfinities
<1>2. c \in Codes(f)
  OBVIOUS
<1>k. k = Packed(f, c, norm, sub, zero, inf, nan)
  BY <1>1 DEF with_infinities_pack
<1> HIDE DEF f, k
<1>3. 2^eb \in Nat /\ 2^mb \in Nat /\ 2^eb >= 4
  BY PowerPositive, PowerMonotone, 2^2 = 4
<1>4. /\ c.sign \in {0, 1} /\ c.exponent \in 0 .. top /\ c.mantissa \in 0 .. (2^mb - 1)
      /\ c = Code(c.sign, c.exponent, c.mantissa)
  BY <1>1, <1>2, FieldsOfCode
<1>5. /\ norm \in BOOLEAN /\ sub \in BOOLEAN /\ zero \in BOOLEAN /\ inf \in BOOLEAN /\ nan \in BOOLEAN
  OBVIOUS
<1>6. /\ ClassBits(k)
      /\ (k.is_norm <=> norm) /\ (k.is_sub <=> sub) /\ (k.is_zero <=> zero)
      /\ (k.is_inf <=> inf) /\ (k.is_nan <=> nan)
      /\ norm => k.value = normal_magnitude(f, c)
      /\ ~ norm /\ sub => k.value = subnormal_magnitude(f, c)
  <2>1. /\ k.is_norm = norm /\ k.is_sub = sub /\ k.is_zero = zero /\ k.is_inf = inf /\ k.is_nan = nan
        /\ k.value = IF norm THEN normal_magnitude(f, c)
                     ELSE IF sub THEN subnormal_magnitude(f, c) ELSE Mag(0, 0)
    BY <1>k DEF Packed
  <2> HIDE DEF norm, sub, zero, inf, nan
  <2>2. ClassBits(k)
    BY ONLY <1>5, <2>1 DEF ClassBits
  <2>3. QED BY ONLY <2>1, <2>2
<1>7. (is_nan(f, c) <=> nan) /\ (is_inf(f, c) <=> inf)
  BY <1>1, <1>3, <1>4 DEF is_nan, is_inf, Code
<1>8. ClassesAsTyped(f, c, k)
  <2>1. /\ c.exponent \in Nat /\ c.mantissa \in Nat
        /\ k.is_zero <=> (~ k.is_nan /\ c.exponent = 0 /\ c.mantissa = 0)
        /\ k.is_sub <=> (~ k.is_nan /\ ~ k.is_inf /\ ~ k.is_zero /\ c.exponent = 0)
        /\ k.is_norm <=> (~ k.is_nan /\ ~ k.is_inf /\ ~ k.is_zero /\ ~ k.is_sub)
    BY <1>3, <1>4, <1>6
  <2>2. (k.is_inf <=> is_inf(f, c)) /\ (k.is_nan <=> is_nan(f, c))
    BY <1>6, <1>7
  <2>3. QED BY <2>1, <2>2, <1>6, ClassesDecided
<1>9. k.is_norm \/ k.is_sub => k.value = Magnitude(f, c)
  <2>1. /\ f.exponent_bias \in Int /\ f.mantissa_bits \in Nat
        /\ c.exponent \in Nat /\ c.mantissa \in Nat
    BY <1>1, <1>3, <1>4
  <2>2. /\ c.exponent # 0 => normal_magnitude(f, c) = Magnitude(f, c)
        /\ c.exponent = 0 => subnormal_magnitude(f, c) = Magnitude(f, c)
    BY <2>1, PackedMagnitude
  <2>3. QED BY <1>6, <2>2
<1>10. QED BY <1>8, <1>9 DEF PackedAsTyped, f, k

\* Packing in E4M3FN and UE4M3.
LEMMA E4M3Packed ==
  ASSUME NEW f \in {E4M3FN, UE4M3}, NEW c \in Codes(f)
  PROVE  PackedAsTyped(f, c, e4m3_pack(f, c))
<1> DEFINE k == e4m3_pack(f, c)
           nan  == c.exponent = 15 /\ c.mantissa = 7
           norm == c.exponent # 0 /\ ~ nan
           sub  == c.exponent = 0 /\ c.mantissa # 0
           zero == c.exponent = 0 /\ c.mantissa = 0
           inf  == FALSE
<1>1. /\ f.exponent_bits = 4 /\ f.mantissa_bits = 3 /\ f.signs \subseteq {0, 1}
      /\ f.exponent_bias = 7
      /\ f.inf = {} /\ f.nan = [sign: f.signs, exponent: {15}, mantissa: {7}]
  <2>1. CASE f = E4M3FN
    BY <2>1 DEF E4M3FN
  <2>2. CASE f = UE4M3
    BY <2>2 DEF UE4M3, E4M3FN
  <2>3. QED BY <2>1, <2>2
<1>2. /\ c.sign \in f.signs /\ c.exponent \in 0 .. 15 /\ c.mantissa \in 0 .. 7
      /\ c = Code(c.sign, c.exponent, c.mantissa)
  <2>1. 2^4 = 16 /\ 2^3 = 8
    OBVIOUS
  <2>2. QED BY ONLY <2>1, <1>1, c \in Codes(f) DEF Codes, Code
<1>3. k = Packed(f, c, norm, sub, zero, inf, nan)
  BY DEF e4m3_pack
<1> HIDE DEF k
<1>4. /\ norm \in BOOLEAN /\ sub \in BOOLEAN /\ zero \in BOOLEAN /\ inf \in BOOLEAN /\ nan \in BOOLEAN
  OBVIOUS
<1>5. /\ ClassBits(k)
      /\ (k.is_norm <=> norm) /\ (k.is_sub <=> sub) /\ (k.is_zero <=> zero)
      /\ (k.is_inf <=> inf) /\ (k.is_nan <=> nan)
      /\ norm => k.value = normal_magnitude(f, c)
      /\ ~ norm /\ sub => k.value = subnormal_magnitude(f, c)
  <2>1. /\ k.is_norm = norm /\ k.is_sub = sub /\ k.is_zero = zero /\ k.is_inf = inf /\ k.is_nan = nan
        /\ k.value = IF norm THEN normal_magnitude(f, c)
                     ELSE IF sub THEN subnormal_magnitude(f, c) ELSE Mag(0, 0)
    BY <1>3 DEF Packed
  <2> HIDE DEF norm, sub, zero, inf, nan
  <2>2. ClassBits(k)
    BY ONLY <1>4, <2>1 DEF ClassBits
  <2>3. QED BY ONLY <2>1, <2>2
<1>6. (is_nan(f, c) <=> nan) /\ (is_inf(f, c) <=> inf)
  BY <1>1, <1>2 DEF is_nan, is_inf, Code
<1>7. /\ c.exponent \in Nat /\ c.mantissa \in Nat
  BY <1>2
<1>8. ClassesAsTyped(f, c, k)
  <2>1. /\ k.is_zero <=> (~ k.is_nan /\ c.exponent = 0 /\ c.mantissa = 0)
        /\ k.is_sub <=> (~ k.is_nan /\ ~ k.is_inf /\ ~ k.is_zero /\ c.exponent = 0)
        /\ k.is_norm <=> (~ k.is_nan /\ ~ k.is_inf /\ ~ k.is_zero /\ ~ k.is_sub)
    BY <1>2, <1>5
  <2>2. (k.is_inf <=> is_inf(f, c)) /\ (k.is_nan <=> is_nan(f, c))
    BY <1>5, <1>6
  <2>3. QED BY <2>1, <2>2, <1>5, <1>7, ClassesDecided
<1>9. k.is_norm \/ k.is_sub => k.value = Magnitude(f, c)
  <2>1. f.exponent_bias \in Int /\ f.mantissa_bits \in Nat
    BY <1>1
  <2>2. /\ c.exponent # 0 => normal_magnitude(f, c) = Magnitude(f, c)
        /\ c.exponent = 0 => subnormal_magnitude(f, c) = Magnitude(f, c)
    BY <1>7, <2>1, PackedMagnitude
  <2>3. QED BY <1>5, <2>2
<1>10. QED BY <1>8, <1>9 DEF PackedAsTyped, k

\* Packing in E5M2FNUZ and E2M1.
LEMMA FNUZPacked ==
  ASSUME NEW c \in Codes(E5M2FNUZ)
  PROVE  PackedAsTyped(E5M2FNUZ, c, e5m2fnuz_pack_spec(c))
<1> DEFINE f == E5M2FNUZ
           k == e5m2fnuz_pack_spec(c)
           nan  == c.sign = 1 /\ c.exponent = 0 /\ c.mantissa = 0
           norm == c.exponent # 0
           sub  == c.exponent = 0 /\ c.mantissa # 0
           zero == c.sign = 0 /\ c.exponent = 0 /\ c.mantissa = 0
           inf  == FALSE
<1>1. /\ f.exponent_bits = 5 /\ f.mantissa_bits = 2 /\ f.signs = {0, 1}
      /\ f.exponent_bias = 16 /\ f.inf = {} /\ f.nan = {Code(1, 0, 0)}
  BY DEF E5M2FNUZ
<1>k. c \in Codes(f) /\ k = Packed(f, c, norm, sub, zero, inf, nan)
  BY DEF e5m2fnuz_pack_spec
<1> HIDE DEF f
<1>2. /\ c.sign \in {0, 1} /\ c.exponent \in 0 .. 31 /\ c.mantissa \in 0 .. 3
      /\ c = Code(c.sign, c.exponent, c.mantissa)
  <2>1. 2^5 = 32 /\ 2^2 = 4
    OBVIOUS
  <2>2. QED BY ONLY <2>1, <1>1, <1>k DEF Codes, Code
<1> HIDE DEF k
<1>4. /\ norm \in BOOLEAN /\ sub \in BOOLEAN /\ zero \in BOOLEAN /\ inf \in BOOLEAN /\ nan \in BOOLEAN
  OBVIOUS
<1>5. /\ ClassBits(k)
      /\ (k.is_norm <=> norm) /\ (k.is_sub <=> sub) /\ (k.is_zero <=> zero)
      /\ (k.is_inf <=> inf) /\ (k.is_nan <=> nan)
      /\ norm => k.value = normal_magnitude(f, c)
      /\ ~ norm /\ sub => k.value = subnormal_magnitude(f, c)
  <2>1. /\ k.is_norm = norm /\ k.is_sub = sub /\ k.is_zero = zero /\ k.is_inf = inf /\ k.is_nan = nan
        /\ k.value = IF norm THEN normal_magnitude(f, c)
                     ELSE IF sub THEN subnormal_magnitude(f, c) ELSE Mag(0, 0)
    BY <1>k DEF Packed
  <2> HIDE DEF norm, sub, zero, inf, nan
  <2>2. ClassBits(k)
    BY ONLY <1>4, <2>1 DEF ClassBits
  <2>3. QED BY ONLY <2>1, <2>2
<1>6. (is_nan(f, c) <=> nan) /\ (is_inf(f, c) <=> inf)
  BY <1>1, <1>2 DEF is_nan, is_inf, Code
<1>7. /\ c.exponent \in Nat /\ c.mantissa \in Nat
  BY <1>2
<1>8. ClassesAsTyped(f, c, k)
  <2>1. /\ k.is_zero <=> (~ k.is_nan /\ c.exponent = 0 /\ c.mantissa = 0)
        /\ k.is_sub <=> (~ k.is_nan /\ ~ k.is_inf /\ ~ k.is_zero /\ c.exponent = 0)
        /\ k.is_norm <=> (~ k.is_nan /\ ~ k.is_inf /\ ~ k.is_zero /\ ~ k.is_sub)
    BY <1>2, <1>5
  <2>2. (k.is_inf <=> is_inf(f, c)) /\ (k.is_nan <=> is_nan(f, c))
    BY <1>5, <1>6
  <2>3. QED BY <2>1, <2>2, <1>5, <1>7, ClassesDecided
<1>9. k.is_norm \/ k.is_sub => k.value = Magnitude(f, c)
  <2>1. f.exponent_bias \in Int /\ f.mantissa_bits \in Nat
    BY <1>1
  <2>2. /\ c.exponent # 0 => normal_magnitude(f, c) = Magnitude(f, c)
        /\ c.exponent = 0 => subnormal_magnitude(f, c) = Magnitude(f, c)
    BY <1>7, <2>1, PackedMagnitude
  <2>3. QED BY <1>5, <2>2
<1>10. QED BY <1>8, <1>9 DEF PackedAsTyped, f, k

LEMMA E2M1Packed ==
  ASSUME NEW c \in Codes(E2M1)
  PROVE  PackedAsTyped(E2M1, c, e2m1_pack_spec(c))
<1> DEFINE f == E2M1
           k == e2m1_pack_spec(c)
           norm == c.exponent # 0
           sub  == c.exponent = 0 /\ c.mantissa # 0
           zero == c.exponent = 0 /\ c.mantissa = 0
<1>1. /\ f.exponent_bits = 2 /\ f.mantissa_bits = 1 /\ f.signs = {0, 1}
      /\ f.exponent_bias = 1 /\ f.inf = {} /\ f.nan = {}
  BY DEF E2M1
<1>k. c \in Codes(f) /\ k = Packed(f, c, norm, sub, zero, FALSE, FALSE)
  BY DEF e2m1_pack_spec
<1> HIDE DEF f
<1>2. c.sign \in {0, 1} /\ c.exponent \in 0 .. 3 /\ c.mantissa \in 0 .. 1
  <2>1. 2^2 = 4 /\ 2^1 = 2
    OBVIOUS
  <2>2. QED BY ONLY <2>1, <1>1, <1>k DEF Codes
<1> HIDE DEF k
<1>4. norm \in BOOLEAN /\ sub \in BOOLEAN /\ zero \in BOOLEAN /\ FALSE \in BOOLEAN
  OBVIOUS
<1>5. /\ ClassBits(k)
      /\ (k.is_norm <=> norm) /\ (k.is_sub <=> sub) /\ (k.is_zero <=> zero)
      /\ (k.is_inf <=> FALSE) /\ (k.is_nan <=> FALSE)
      /\ norm => k.value = normal_magnitude(f, c)
      /\ ~ norm /\ sub => k.value = subnormal_magnitude(f, c)
  <2>1. /\ k.is_norm = norm /\ k.is_sub = sub /\ k.is_zero = zero /\ k.is_inf = FALSE /\ k.is_nan = FALSE
        /\ k.value = IF norm THEN normal_magnitude(f, c)
                     ELSE IF sub THEN subnormal_magnitude(f, c) ELSE Mag(0, 0)
    BY <1>k DEF Packed
  <2> HIDE DEF norm, sub, zero
  <2>2. ClassBits(k)
    BY ONLY <1>4, <2>1 DEF ClassBits
  <2>3. QED BY ONLY <2>1, <2>2
<1>6. ~ is_nan(f, c) /\ ~ is_inf(f, c)
  BY <1>1 DEF is_nan, is_inf
<1>7. /\ c.exponent \in Nat /\ c.mantissa \in Nat
  BY <1>2
<1>8. ClassesAsTyped(f, c, k)
  <2>1. /\ k.is_zero <=> (~ k.is_nan /\ c.exponent = 0 /\ c.mantissa = 0)
        /\ k.is_sub <=> (~ k.is_nan /\ ~ k.is_inf /\ ~ k.is_zero /\ c.exponent = 0)
        /\ k.is_norm <=> (~ k.is_nan /\ ~ k.is_inf /\ ~ k.is_zero /\ ~ k.is_sub)
    BY <1>2, <1>5
  <2>2. (k.is_inf <=> is_inf(f, c)) /\ (k.is_nan <=> is_nan(f, c))
    BY <1>5, <1>6
  <2>3. QED BY <2>1, <2>2, <1>5, <1>7, ClassesDecided
<1>9. k.is_norm \/ k.is_sub => k.value = Magnitude(f, c)
  <2>1. f.exponent_bias \in Int /\ f.mantissa_bits \in Nat
    BY <1>1
  <2>2. /\ c.exponent # 0 => normal_magnitude(f, c) = Magnitude(f, c)
        /\ c.exponent = 0 => subnormal_magnitude(f, c) = Magnitude(f, c)
    BY <1>7, <2>1, PackedMagnitude
  <2>3. QED BY <1>5, <2>2
<1>10. QED BY <1>8, <1>9 DEF PackedAsTyped, f, k

\* Packing the fields of a code of any format.
LEMMA PackedAsDecoded ==
  ASSUME NEW f \in DOMAIN FormatOf, NEW c \in Codes(FormatOf[f])
  PROVE  PackedAsTyped(FormatOf[f], c, PackOf(f, c))
<1>1. f \in {"Float16", "BFloat16", "Float32", "E5M2", "E4M3FN", "UE4M3", "E5M2FNUZ", "E2M1"}
  BY DEF FormatOf
<1>2. CASE f = "Float16"
  <2>1. /\ FormatOf[f] = WithInfinities(5, 10, 15)
        /\ PackOf(f, c) = with_infinities_pack(WithInfinities(5, 10, 15), c)
    BY <1>2 DEF PackOf, FormatOf, Float16, fp16_pack_spec
  <2>2. 5 \in Nat /\ 10 \in Nat /\ 15 \in Int /\ 5 >= 2 /\ 10 >= 1
    OBVIOUS
  <2>3. QED BY <2>1, <2>2, InfinitiesPacked
<1>3. CASE f = "BFloat16"
  BY <1>3, InfinitiesPacked DEF PackOf, FormatOf, BFloat16, bf16_pack_spec
<1>4. CASE f = "Float32"
  BY <1>4, InfinitiesPacked DEF PackOf, FormatOf, Float32, fp32_pack_spec
<1>5. CASE f = "E5M2"
  BY <1>5, InfinitiesPacked DEF PackOf, FormatOf, E5M2, e5m2_pack_spec
<1>6. CASE f = "E4M3FN"
  BY <1>6, E4M3Packed DEF PackOf, FormatOf, e4m3fn_pack_spec
<1>7. CASE f = "UE4M3"
  BY <1>7, E4M3Packed DEF PackOf, FormatOf, ue4m3_pack_spec
<1>8. CASE f = "E5M2FNUZ"
  BY <1>8, FNUZPacked DEF PackOf, FormatOf
<1>9. CASE f = "E2M1"
  BY <1>9, E2M1Packed DEF PackOf, FormatOf
<1>10. QED BY <1>1, <1>2, <1>3, <1>4, <1>5, <1>6, <1>7, <1>8, <1>9

\* A value of one class that is not a number shows its sign or nothing.
LEMMA ObservedSpecials ==
  ASSUME NEW v, NEW c, NEW d, NEW k, NEW signed, ClassBits(k), exclusive_classification(k),
         ~ k.is_norm, ~ k.is_sub,
         c.sign = d.sign \/ (k.is_nan /\ "is_nan" \notin signed)
                         \/ (k.is_zero /\ "is_zero" \notin signed)
  PROVE  observed(v, c, k, signed) = observed(v, d, k, signed)
<1>1. CASE c.sign = d.sign
  BY <1>1 DEF observed
<1>2. ASSUME NEW n, n \in Classes(k), n \notin signed
      PROVE  observed(v, c, k, signed) = observed(v, d, k, signed)
  BY <1>2 DEF observed
<1>3. k.is_nan => "is_nan" \in Classes(k)
  BY DEF Classes
<1>4. k.is_zero => "is_zero" \in Classes(k)
  BY DEF Classes
<1>5. QED BY <1>1, <1>2, <1>3, <1>4

\* At most one class bit is set.
LEMMA OneBit ==
  ASSUME NEW k, exclusive_classification(k)
  PROVE  /\ k.is_nan => ~ k.is_norm /\ ~ k.is_sub /\ ~ k.is_zero /\ ~ k.is_inf
         /\ k.is_inf => ~ k.is_norm /\ ~ k.is_sub /\ ~ k.is_zero
         /\ k.is_zero => ~ k.is_norm /\ ~ k.is_sub
         /\ k.is_norm => ~ k.is_sub
<1>1. PICK n \in Classes(k) : Classes(k) = {n}
  BY DEF exclusive_classification
<1>2. \A a, b \in {"is_norm", "is_sub", "is_zero", "is_inf", "is_nan"} :
        k[a] /\ k[b] => a = b
  BY <1>1 DEF Classes
<1>3. /\ "is_nan" # "is_norm" /\ "is_nan" # "is_sub" /\ "is_nan" # "is_zero" /\ "is_nan" # "is_inf"
      /\ "is_inf" # "is_norm" /\ "is_inf" # "is_sub" /\ "is_inf" # "is_zero"
      /\ "is_zero" # "is_norm" /\ "is_zero" # "is_sub" /\ "is_norm" # "is_sub"
  OBVIOUS
<1>4. QED BY <1>2, <1>3

\* The special values of a format with infinities.
LEMMA InfinitiesNamed ==
  ASSUME NEW eb \in Nat, NEW mb \in Nat, NEW bias, eb >= 2, mb >= 1,
         NEW f, f = WithInfinities(eb, mb, bias), NEW c \in Codes(f), NEW k,
         ClassBits(k), with_infinities_fresh(f, c, k),
         NEW kind, kind = signed_kind(c, k), kind # "number",
         NEW payload \in Nat, payload >= 1, payload < 2^mb,
         NEW special, special = with_infinities_specials(f, payload)[kind]
  PROVE  /\ kind \in DOMAIN with_infinities_specials(f, payload)
         /\ with_infinities_fresh(f, special, k)
         /\ ClassesAsTyped(f, special, k)
         /\ observed(Mag(0, 0), special, k, {"is_zero", "is_inf"})
              = observed(Mag(0, 0), c, k, {"is_zero", "is_inf"})
<1> DEFINE top == 2^eb - 1
<1>1. /\ f.exponent_bits = eb /\ f.mantissa_bits = mb /\ f.signs = {0, 1}
      /\ f.inf = [sign: {0, 1}, exponent: {top}, mantissa: {0}]
      /\ f.nan = [sign: {0, 1}, exponent: {top}, mantissa: 1 .. (2^mb - 1)]
  BY DEF WithInfinities
<1>2. 2^eb \in Nat /\ 2^mb \in Nat /\ 2^eb >= 4 /\ 2^mb >= 2 /\ top \in Nat /\ top >= 3
  <2>1. 2^eb \in Nat /\ 2^mb \in Nat
    BY PowerPositive
  <2>2. 2^2 <= 2^eb /\ 2^1 <= 2^mb
    BY PowerMonotone
  <2>3. QED BY <2>1, <2>2
<1>3. exclusive_classification(k) /\ c.sign \in {0, 1}
  BY DEF with_infinities_fresh
<1>4. /\ k.is_nan => ~ k.is_norm /\ ~ k.is_sub /\ ~ k.is_zero /\ ~ k.is_inf
      /\ k.is_inf => ~ k.is_norm /\ ~ k.is_sub /\ ~ k.is_zero
      /\ k.is_zero => ~ k.is_norm /\ ~ k.is_sub
  BY <1>3, OneBit
<1>5. DOMAIN with_infinities_specials(f, payload) = {"nan", "inf", "ninf", "zero", "nzero"}
  BY DEF with_infinities_specials
<1>6. ASSUME k.is_nan
      PROVE  /\ kind = "nan" /\ special = Code(0, top, payload)
  BY <1>1, <1>6 DEF signed_kind, with_infinities_specials
<1>7. ASSUME k.is_inf
      PROVE  /\ kind \in {"inf", "ninf"} /\ special = Code(c.sign, top, 0)
  BY <1>1, <1>3, <1>4, <1>7 DEF signed_kind, with_infinities_specials, Infinity
<1>8. ASSUME k.is_zero
      PROVE  /\ kind \in {"zero", "nzero"} /\ special = Code(c.sign, 0, 0)
  BY <1>3, <1>4, <1>8 DEF signed_kind, with_infinities_specials, Zero, nZero
<1>9. k.is_nan \/ k.is_inf \/ k.is_zero
  BY DEF signed_kind
<1> HIDE DEF top
<1>10. /\ special.sign \in {0, 1} /\ special.exponent \in Nat /\ special.mantissa \in Nat
       /\ k.is_nan => special.exponent = top /\ special.mantissa = payload
       /\ k.is_inf => special.exponent = top /\ special.mantissa = 0 /\ special.sign = c.sign
       /\ k.is_zero => special.exponent = 0 /\ special.mantissa = 0 /\ special.sign = c.sign
  BY <1>2, <1>3, <1>6, <1>7, <1>8, <1>9 DEF Code
<1>11. with_infinities_fresh(f, special, k)
  <2>1. in_range(f, special)
    <3>1. special.exponent \in 0 .. top /\ special.mantissa \in 0 .. (2^mb - 1)
      BY <1>2, <1>9, <1>10
    <3>2. QED BY <1>1, <1>2, <3>1 DEF in_range, top
  <2>2. QED BY <1>1, <1>3, <1>4, <1>9, <1>10, <2>1 DEF with_infinities_fresh, top
<1>12. (is_nan(f, special) <=> k.is_nan) /\ (is_inf(f, special) <=> k.is_inf)
  <2>1. k.is_nan => special \in f.nan /\ special \notin f.inf
    BY <1>1, <1>2, <1>6 DEF Code
  <2>2. k.is_inf => special \notin f.nan /\ special \in f.inf
    BY <1>1, <1>2, <1>3, <1>7 DEF Code
  <2>3. k.is_zero => special \notin f.nan /\ special \notin f.inf
    BY <1>1, <1>2, <1>3, <1>8 DEF Code
  <2>4. QED BY <1>4, <1>9, <2>1, <2>2, <2>3 DEF is_nan, is_inf
<1>13. ClassesAsTyped(f, special, k)
  <2>1. /\ k.is_zero <=> (~ k.is_nan /\ special.exponent = 0 /\ special.mantissa = 0)
        /\ k.is_sub <=> (~ k.is_nan /\ ~ k.is_inf /\ ~ k.is_zero /\ special.exponent = 0)
        /\ k.is_norm <=> (~ k.is_nan /\ ~ k.is_inf /\ ~ k.is_zero /\ ~ k.is_sub)
    BY <1>2, <1>4, <1>9, <1>10
  <2>2. QED BY <1>10, <1>12, <2>1, ClassesDecided
<1>14. observed(Mag(0, 0), special, k, {"is_zero", "is_inf"})
         = observed(Mag(0, 0), c, k, {"is_zero", "is_inf"})
  <2>1. "is_nan" \notin {"is_zero", "is_inf"}
    OBVIOUS
  <2>2. QED BY <1>3, <1>4, <1>9, <1>10, <2>1, ObservedSpecials
<1>15. kind \in DOMAIN with_infinities_specials(f, payload)
  BY <1>5, <1>6, <1>7, <1>8, <1>9
<1>16. QED BY <1>11, <1>13, <1>14, <1>15

\* The special values of the other formats: NaN and the zeros.
LEMMA SmallNamed ==
  ASSUME NEW f, f.inf = {}, NEW c, NEW k, ClassBits(k), exclusive_classification(k), ~ k.is_inf,
         k.is_nan \/ k.is_zero,
         NEW special, special.exponent \in Nat, special.mantissa \in Nat,
         k.is_nan => special \in f.nan,
         k.is_zero => special \notin f.nan /\ special.exponent = 0 /\ special.mantissa = 0,
         NEW signed,
         special.sign = c.sign \/ (k.is_nan /\ "is_nan" \notin signed)
                               \/ (k.is_zero /\ "is_zero" \notin signed)
  PROVE  /\ ClassesAsTyped(f, special, k)
         /\ observed(Mag(0, 0), special, k, signed) = observed(Mag(0, 0), c, k, signed)
<1>1. /\ k.is_nan => ~ k.is_norm /\ ~ k.is_sub /\ ~ k.is_zero
      /\ k.is_zero => ~ k.is_norm /\ ~ k.is_sub
  BY OneBit
<1>2. (is_nan(f, special) <=> k.is_nan) /\ (is_inf(f, special) <=> k.is_inf)
  BY <1>1 DEF is_nan, is_inf
<1>3. ClassesAsTyped(f, special, k)
  <2>1. /\ k.is_zero <=> (~ k.is_nan /\ special.exponent = 0 /\ special.mantissa = 0)
        /\ k.is_sub <=> (~ k.is_nan /\ ~ k.is_inf /\ ~ k.is_zero /\ special.exponent = 0)
        /\ k.is_norm <=> (~ k.is_nan /\ ~ k.is_inf /\ ~ k.is_zero /\ ~ k.is_sub)
    BY <1>1
  <2>2. QED BY <1>2, <2>1, ClassesDecided
<1>4. QED BY <1>1, <1>3, ObservedSpecials

\* The special value a spec names for a code of any format.
LEMMA SpecialsNamed ==
  ASSUME NEW f \in DOMAIN FormatOf, NEW c \in Codes(FormatOf[f]), NEW k, ClassBits(k),
         FreshOf(f, c, k), ClassesAsTyped(FormatOf[f], c, k)
  PROVE  NamedAs(f, c, k)
<1> DEFINE kind == KindOf(f, c, k)
           special == NamedSpecials(f)[kind]
<1>1. f \in {"Float16", "BFloat16", "Float32", "E5M2", "E4M3FN", "UE4M3", "E5M2FNUZ", "E2M1"}
  BY DEF FormatOf
<1>2. SUFFICES ASSUME kind # "number"
               PROVE  /\ kind \in DOMAIN NamedSpecials(f)
                      /\ FreshOf(f, special, k)
                      /\ ClassesAsTyped(FormatOf[f], special, k)
                      /\ ObservablesOf(f, Mag(0, 0), special, k) = ObservablesOf(f, Mag(0, 0), c, k)
  BY DEF NamedAs
<1> DEFINE Goal == /\ kind \in DOMAIN NamedSpecials(f)
                   /\ FreshOf(f, special, k)
                   /\ ClassesAsTyped(FormatOf[f], special, k)
                   /\ ObservablesOf(f, Mag(0, 0), special, k) = ObservablesOf(f, Mag(0, 0), c, k)
<1>3. ASSUME NEW eb \in Nat, NEW mb \in Nat, NEW bias, eb >= 2, mb >= 1,
             NEW payload \in Nat, payload >= 1, payload < 2^mb,
             FormatOf[f] = WithInfinities(eb, mb, bias),
             with_infinities_fresh(FormatOf[f], c, k),
             kind = signed_kind(c, k),
             NamedSpecials(f) = with_infinities_specials(FormatOf[f], payload),
             FreshOf(f, special, k) = with_infinities_fresh(FormatOf[f], special, k),
             ObservablesOf(f, Mag(0, 0), special, k)
               = observed(Mag(0, 0), special, k, {"is_zero", "is_inf"}),
             ObservablesOf(f, Mag(0, 0), c, k) = observed(Mag(0, 0), c, k, {"is_zero", "is_inf"})
      PROVE  Goal
  <2> DEFINE g == FormatOf[f]
             sp == special
             kd == kind
  <2>1. /\ g = WithInfinities(eb, mb, bias) /\ c \in Codes(g) /\ with_infinities_fresh(g, c, k)
        /\ kd = signed_kind(c, k) /\ kd # "number" /\ sp = with_infinities_specials(g, payload)[kd]
    BY <1>2, <1>3
  <2> HIDE DEF g, sp, kd
  <2>2. /\ kd \in DOMAIN with_infinities_specials(g, payload)
        /\ with_infinities_fresh(g, sp, k)
        /\ ClassesAsTyped(g, sp, k)
        /\ observed(Mag(0, 0), sp, k, {"is_zero", "is_inf"})
             = observed(Mag(0, 0), c, k, {"is_zero", "is_inf"})
    BY <1>3, <2>1, InfinitiesNamed
  <2>3. QED BY <1>3, <2>2 DEF g, sp, kd
<1>m. /\ \A mb \in Nat : mb >= 1 => 1 < 2^mb
      /\ 2 < 2^2
  <2>1. ASSUME NEW mb \in Nat, mb >= 1 PROVE 1 < 2^mb
    <3>1. 2^1 <= 2^mb /\ 2^mb \in Nat
      BY <2>1, PowerMonotone, PowerPositive
    <3>2. QED BY <3>1
  <2>2. 2 < 2^2
    BY 2^2 = 4
  <2>3. QED BY <2>1, <2>2
<1>4. CASE f = "Float16"
  <2>1. FormatOf[f] = WithInfinities(5, 10, 15) /\ FormatOf[f] = Float16
    BY <1>4 DEF FormatOf, Float16
  <2>2. /\ with_infinities_fresh(FormatOf[f], c, k)
        /\ kind = signed_kind(c, k)
        /\ NamedSpecials(f) = with_infinities_specials(FormatOf[f], 1)
    BY <1>4, <2>1
    DEF FreshOf, fp16_fresh, KindOf, fp16_kind, NamedSpecials, fp16_specials
  <2> HIDE DEF kind, special
  <2>3. /\ FreshOf(f, special, k) = with_infinities_fresh(FormatOf[f], special, k)
        /\ ObservablesOf(f, Mag(0, 0), special, k)
             = observed(Mag(0, 0), special, k, {"is_zero", "is_inf"})
        /\ ObservablesOf(f, Mag(0, 0), c, k) = observed(Mag(0, 0), c, k, {"is_zero", "is_inf"})
    BY <1>4, <2>1 DEF FreshOf, fp16_fresh, ObservablesOf, fp16_observables
  <2> HIDE DEF Goal
  <2>4. /\ 5 \in Nat /\ 10 \in Nat /\ 5 >= 2 /\ 10 >= 1
        /\ 1 \in Nat /\ 1 >= 1 /\ 1 < 2^10
    BY <1>m
  <2>5. Goal
    BY <1>3, <2>1, <2>2, <2>3, <2>4, ZenonT(60)
  <2>6. QED BY <2>5 DEF Goal
<1>5. CASE f = "BFloat16"
  <2>1. FormatOf[f] = WithInfinities(8, 7, 127) /\ FormatOf[f] = BFloat16
    BY <1>5 DEF FormatOf, BFloat16
  <2>2. /\ with_infinities_fresh(FormatOf[f], c, k)
        /\ kind = signed_kind(c, k)
        /\ NamedSpecials(f) = with_infinities_specials(FormatOf[f], 1)
    BY <1>5, <2>1
    DEF FreshOf, bf16_fresh, KindOf, bf16_kind, NamedSpecials, bf16_specials
  <2> HIDE DEF kind, special
  <2>3. /\ FreshOf(f, special, k) = with_infinities_fresh(FormatOf[f], special, k)
        /\ ObservablesOf(f, Mag(0, 0), special, k)
             = observed(Mag(0, 0), special, k, {"is_zero", "is_inf"})
        /\ ObservablesOf(f, Mag(0, 0), c, k) = observed(Mag(0, 0), c, k, {"is_zero", "is_inf"})
    BY <1>5, <2>1 DEF FreshOf, bf16_fresh, ObservablesOf, bf16_observables
  <2> HIDE DEF Goal
  <2>4. /\ 8 \in Nat /\ 7 \in Nat /\ 8 >= 2 /\ 7 >= 1
        /\ 1 \in Nat /\ 1 >= 1 /\ 1 < 2^7
    BY <1>m
  <2>5. Goal
    BY <1>3, <2>1, <2>2, <2>3, <2>4, ZenonT(60)
  <2>6. QED BY <2>5 DEF Goal
<1>6. CASE f = "Float32"
  <2>1. FormatOf[f] = WithInfinities(8, 23, 127) /\ FormatOf[f] = Float32
    BY <1>6 DEF FormatOf, Float32
  <2>2. /\ with_infinities_fresh(FormatOf[f], c, k)
        /\ kind = signed_kind(c, k)
        /\ NamedSpecials(f) = with_infinities_specials(FormatOf[f], 1)
    BY <1>6, <2>1
    DEF FreshOf, fp32_fresh, KindOf, fp32_kind, NamedSpecials, fp32_specials
  <2> HIDE DEF kind, special
  <2>3. /\ FreshOf(f, special, k) = with_infinities_fresh(FormatOf[f], special, k)
        /\ ObservablesOf(f, Mag(0, 0), special, k)
             = observed(Mag(0, 0), special, k, {"is_zero", "is_inf"})
        /\ ObservablesOf(f, Mag(0, 0), c, k) = observed(Mag(0, 0), c, k, {"is_zero", "is_inf"})
    BY <1>6, <2>1 DEF FreshOf, fp32_fresh, ObservablesOf, fp32_observables
  <2> HIDE DEF Goal
  <2>4. /\ 8 \in Nat /\ 23 \in Nat /\ 8 >= 2 /\ 23 >= 1
        /\ 1 \in Nat /\ 1 >= 1 /\ 1 < 2^23
    BY <1>m
  <2>5. Goal
    BY <1>3, <2>1, <2>2, <2>3, <2>4, ZenonT(60)
  <2>6. QED BY <2>5 DEF Goal
<1>7. CASE f = "E5M2"
  <2>1. FormatOf[f] = WithInfinities(5, 2, 15) /\ FormatOf[f] = E5M2
    BY <1>7 DEF FormatOf, E5M2
  <2>2. /\ with_infinities_fresh(FormatOf[f], c, k)
        /\ kind = signed_kind(c, k)
        /\ NamedSpecials(f) = with_infinities_specials(FormatOf[f], 2)
    BY <1>7, <2>1
    DEF FreshOf, e5m2_fresh, KindOf, e5m2_kind, NamedSpecials, e5m2_specials
  <2> HIDE DEF kind, special
  <2>3. /\ FreshOf(f, special, k) = with_infinities_fresh(FormatOf[f], special, k)
        /\ ObservablesOf(f, Mag(0, 0), special, k)
             = observed(Mag(0, 0), special, k, {"is_zero", "is_inf"})
        /\ ObservablesOf(f, Mag(0, 0), c, k) = observed(Mag(0, 0), c, k, {"is_zero", "is_inf"})
    BY <1>7, <2>1 DEF FreshOf, e5m2_fresh, ObservablesOf, e5m2_observables
  <2> HIDE DEF Goal
  <2>4. /\ 5 \in Nat /\ 2 \in Nat /\ 5 >= 2 /\ 2 >= 1
        /\ 2 \in Nat /\ 2 >= 1 /\ 2 < 2^2
    BY <1>m
  <2>5. Goal
    BY <1>3, <2>1, <2>2, <2>3, <2>4, ZenonT(60)
  <2>6. QED BY <2>5 DEF Goal
<1>8. CASE f = "E4M3FN"
  <2>1. /\ FormatOf[f] = E4M3FN /\ E4M3FN.inf = {} /\ E4M3FN.exponent_bits = 4
        /\ E4M3FN.mantissa_bits = 3 /\ E4M3FN.max_finite_code = 15
        /\ E4M3FN.nan = [sign: {0, 1}, exponent: {15}, mantissa: {7}]
    BY <1>8 DEF FormatOf, E4M3FN
  <2>2. c.sign \in {0, 1} /\ e4m3_fresh(E4M3FN, c, k) /\ exclusive_classification(k)
    BY <1>8 DEF FreshOf, e4m3fn_fresh, e4m3_fresh
  <2>3. ~ k.is_inf
    BY <2>1 DEF ClassesAsTyped, is_inf
  <2>4. /\ k.is_nan => ~ k.is_norm /\ ~ k.is_sub /\ ~ k.is_zero
        /\ k.is_zero => ~ k.is_norm /\ ~ k.is_sub
    BY <2>2, OneBit
  <2>5. /\ k.is_nan => kind = "nan" /\ special = Code(0, 15, 7)
        /\ k.is_zero => kind \in {"zero", "nzero"} /\ special = Code(c.sign, 0, 0)
        /\ k.is_nan \/ k.is_zero
    BY <1>2, <1>8, <2>2, <2>3, <2>4
    DEF KindOf, e4m3fn_kind, signed_kind, NamedSpecials, e4m3fn_specials, Zero, nZero
  <2>6. kind \in DOMAIN NamedSpecials(f)
    BY <1>8, <2>5 DEF NamedSpecials, e4m3fn_specials
  <2> HIDE DEF special, kind
  <2>7. /\ special.sign \in {0, 1} /\ special.exponent \in 0 .. 15 /\ special.mantissa \in 0 .. 7
        /\ k.is_nan => special \in E4M3FN.nan /\ special.exponent = 15 /\ special.mantissa = 7
        /\ k.is_zero => /\ special \notin E4M3FN.nan /\ special.sign = c.sign
                        /\ special.exponent = 0 /\ special.mantissa = 0
    BY <2>1, <2>2, <2>4, <2>5 DEF Code
  <2>8. special.exponent \in Nat /\ special.mantissa \in Nat
    BY <2>7
  <2>9. FreshOf(f, special, k)
    <3>1. in_range(E4M3FN, special)
      BY <2>1, <2>7, 2^4 = 16, 2^3 = 8 DEF in_range
    <3>2. e4m3_fresh(E4M3FN, special, k)
      BY <2>2, <2>4, <2>5, <2>7, <3>1 DEF e4m3_fresh, small_fresh
    <3>3. QED BY <1>8, <2>7, <3>2 DEF FreshOf, e4m3fn_fresh
  <2>10. /\ ClassesAsTyped(E4M3FN, special, k)
         /\ observed(Mag(0, 0), special, k, {"is_zero"}) = observed(Mag(0, 0), c, k, {"is_zero"})
    <3>1. special.sign = c.sign \/ (k.is_nan /\ "is_nan" \notin {"is_zero"})
      BY <2>5, <2>7
    <3>2. /\ E4M3FN.inf = {} /\ ClassBits(k) /\ exclusive_classification(k) /\ ~ k.is_inf
          /\ k.is_nan \/ k.is_zero
          /\ special.exponent \in Nat /\ special.mantissa \in Nat
          /\ k.is_nan => special \in E4M3FN.nan
          /\ k.is_zero => /\ special \notin E4M3FN.nan
                          /\ special.exponent = 0 /\ special.mantissa = 0
      BY <2>1, <2>2, <2>3, <2>5, <2>7, <2>8
    <3>3. QED BY ONLY <3>1, <3>2, SmallNamed
  <2>11. QED BY <1>8, <2>1, <2>6, <2>9, <2>10 DEF ObservablesOf, e4m3fn_observables, special, kind
<1>9. CASE f = "UE4M3"
  <2>1. /\ FormatOf[f] = UE4M3 /\ UE4M3.inf = {} /\ UE4M3.exponent_bits = 4
        /\ UE4M3.mantissa_bits = 3 /\ UE4M3.max_finite_code = 15
        /\ UE4M3.nan = [sign: {0}, exponent: {15}, mantissa: {7}]
    BY <1>9 DEF FormatOf, UE4M3, E4M3FN
  <2>2. e4m3_fresh(UE4M3, c, k) /\ exclusive_classification(k)
    BY <1>9 DEF FreshOf, ue4m3_fresh, e4m3_fresh
  <2>3. ~ k.is_inf
    BY <2>1 DEF ClassesAsTyped, is_inf
  <2>4. /\ k.is_nan => ~ k.is_norm /\ ~ k.is_sub /\ ~ k.is_zero
        /\ k.is_zero => ~ k.is_norm /\ ~ k.is_sub
    BY <2>2, OneBit
  <2>5. /\ k.is_nan => kind = "nan" /\ special = Code(0, 15, 7)
        /\ k.is_zero => kind = "zero" /\ special = Code(0, 0, 0)
        /\ k.is_nan \/ k.is_zero
    BY <1>2, <1>9, <2>4
    DEF KindOf, ue4m3_kind, unsigned_kind, NamedSpecials, ue4m3_specials, Zero
  <2>6. kind \in DOMAIN NamedSpecials(f)
    BY <1>9, <2>5 DEF NamedSpecials, ue4m3_specials
  <2> HIDE DEF special, kind
  <2>7. /\ special.exponent \in 0 .. 15 /\ special.mantissa \in 0 .. 7
        /\ k.is_nan => special \in UE4M3.nan /\ special.exponent = 15 /\ special.mantissa = 7
        /\ k.is_zero => /\ special \notin UE4M3.nan
                        /\ special.exponent = 0 /\ special.mantissa = 0
    BY <2>1, <2>4, <2>5 DEF Code
  <2>8. special.exponent \in Nat /\ special.mantissa \in Nat
    BY <2>7
  <2>9. FreshOf(f, special, k)
    <3>1. in_range(UE4M3, special)
      BY <2>1, <2>7, 2^4 = 16, 2^3 = 8 DEF in_range
    <3>2. e4m3_fresh(UE4M3, special, k)
      BY <2>2, <2>4, <2>5, <2>7, <3>1 DEF e4m3_fresh, small_fresh
    <3>3. QED BY <1>9, <3>2 DEF FreshOf, ue4m3_fresh
  <2>10. /\ ClassesAsTyped(UE4M3, special, k)
         /\ observed(Mag(0, 0), special, k, {}) = observed(Mag(0, 0), c, k, {})
    <3>1. (k.is_nan /\ "is_nan" \notin {}) \/ (k.is_zero /\ "is_zero" \notin {})
      BY <2>5
    <3>2. /\ UE4M3.inf = {} /\ ClassBits(k) /\ exclusive_classification(k) /\ ~ k.is_inf
          /\ k.is_nan \/ k.is_zero
          /\ special.exponent \in Nat /\ special.mantissa \in Nat
          /\ k.is_nan => special \in UE4M3.nan
          /\ k.is_zero => /\ special \notin UE4M3.nan
                          /\ special.exponent = 0 /\ special.mantissa = 0
      BY <2>1, <2>2, <2>3, <2>5, <2>7, <2>8
    <3>3. QED BY ONLY <3>1, <3>2, SmallNamed
  <2>11. QED BY <1>9, <2>1, <2>6, <2>9, <2>10 DEF ObservablesOf, ue4m3_observables, special, kind
<1>10. CASE f = "E5M2FNUZ"
  <2>1. /\ FormatOf[f] = E5M2FNUZ /\ E5M2FNUZ.inf = {} /\ E5M2FNUZ.exponent_bits = 5
        /\ E5M2FNUZ.mantissa_bits = 2 /\ E5M2FNUZ.nan = {Code(1, 0, 0)}
    BY <1>10 DEF FormatOf, E5M2FNUZ
  <2>2. e5m2fnuz_fresh(c, k) /\ exclusive_classification(k)
    BY <1>10 DEF FreshOf, e5m2fnuz_fresh
  <2>3. ~ k.is_inf
    BY <2>1 DEF ClassesAsTyped, is_inf
  <2>4. /\ k.is_nan => ~ k.is_norm /\ ~ k.is_sub /\ ~ k.is_zero
        /\ k.is_zero => ~ k.is_norm /\ ~ k.is_sub
    BY <2>2, OneBit
  <2>5. /\ k.is_nan => kind = "nan" /\ special = Code(1, 0, 0)
        /\ k.is_zero => kind = "zero" /\ special = Code(0, 0, 0)
        /\ k.is_nan \/ k.is_zero
    BY <1>2, <1>10, <2>4
    DEF KindOf, e5m2fnuz_kind, unsigned_kind, NamedSpecials, e5m2fnuz_specials, Zero
  <2>6. kind \in DOMAIN NamedSpecials(f)
    BY <1>10, <2>5 DEF NamedSpecials, e5m2fnuz_specials
  <2> HIDE DEF special, kind
  <2>7. /\ special.sign \in {0, 1} /\ special.exponent = 0 /\ special.mantissa = 0
        /\ k.is_nan => special \in E5M2FNUZ.nan /\ special = Code(1, 0, 0)
        /\ k.is_zero => special \notin E5M2FNUZ.nan /\ special.sign = 0
    BY <2>1, <2>4, <2>5 DEF Code
  <2>8. special.exponent \in Nat /\ special.mantissa \in Nat
    BY <2>7
  <2>9. FreshOf(f, special, k)
    <3>1. in_range(E5M2FNUZ, special)
      BY <2>1, <2>7, 2^5 = 32, 2^2 = 4 DEF in_range
    <3>2. e5m2fnuz_fresh(special, k)
      BY <2>2, <2>4, <2>5, <2>7, <3>1 DEF e5m2fnuz_fresh, small_fresh
    <3>3. QED BY <1>10, <3>2 DEF FreshOf
  <2>10. /\ ClassesAsTyped(E5M2FNUZ, special, k)
         /\ observed(Mag(0, 0), special, k, {}) = observed(Mag(0, 0), c, k, {})
    <3>1. (k.is_nan /\ "is_nan" \notin {}) \/ (k.is_zero /\ "is_zero" \notin {})
      BY <2>5
    <3>2. QED BY <2>1, <2>2, <2>3, <2>5, <2>7, <2>8, <3>1, SmallNamed
  <2>11. QED BY <1>10, <2>1, <2>6, <2>9, <2>10 DEF ObservablesOf, e5m2fnuz_observables, special, kind
<1>11. CASE f = "E2M1"
  <2>1. /\ FormatOf[f] = E2M1 /\ E2M1.inf = {} /\ E2M1.exponent_bits = 2
        /\ E2M1.mantissa_bits = 1 /\ E2M1.nan = {}
    BY <1>11 DEF FormatOf, E2M1
  <2>2. c.sign \in {0, 1} /\ e2m1_fresh(c, k) /\ exclusive_classification(k)
    BY <1>11 DEF FreshOf, e2m1_fresh
  <2>3. ~ k.is_inf /\ ~ k.is_nan
    BY <2>1 DEF ClassesAsTyped, is_inf, is_nan
  <2>4. k.is_zero => ~ k.is_norm /\ ~ k.is_sub
    BY <2>2, OneBit
  <2>5. k.is_zero /\ kind \in {"zero", "nzero"} /\ special = Code(c.sign, 0, 0)
    BY <1>2, <1>11, <2>2, <2>3, <2>4
    DEF KindOf, e2m1_kind, signed_kind, NamedSpecials, e2m1_specials, Zero, nZero
  <2>6. kind \in DOMAIN NamedSpecials(f)
    BY <1>11, <2>5 DEF NamedSpecials, e2m1_specials
  <2> HIDE DEF special, kind
  <2>7. special.sign = c.sign /\ special.exponent = 0 /\ special.mantissa = 0
    BY <2>5 DEF Code
  <2>8. special.exponent \in Nat /\ special.mantissa \in Nat /\ special \notin E2M1.nan
    BY <2>1, <2>7
  <2>9. FreshOf(f, special, k)
    <3>1. in_range(E2M1, special)
      BY <2>1, <2>7, 2^2 = 4, 2^1 = 2 DEF in_range
    <3>2. e2m1_fresh(special, k)
      BY <2>2, <2>4, <2>5, <2>7, <3>1 DEF e2m1_fresh, small_fresh
    <3>3. QED BY <1>11, <3>2 DEF FreshOf
  <2>10. /\ ClassesAsTyped(E2M1, special, k)
         /\ observed(Mag(0, 0), special, k, {"is_zero"}) = observed(Mag(0, 0), c, k, {"is_zero"})
    BY <2>1, <2>2, <2>3, <2>5, <2>7, <2>8, SmallNamed
  <2>11. QED BY <1>11, <2>1, <2>6, <2>9, <2>10 DEF ObservablesOf, e2m1_observables, special, kind
<1>12. QED BY <1>1, <1>4, <1>5, <1>6, <1>7, <1>8, <1>9, <1>10, <1>11

\* Of two codes that are numbers, zeros or infinities of the same class, what an
\* equivalence check compares tells them apart.
LEMMA NumbersObserved ==
  ASSUME NEW f, f.exponent_bias \in Int, f.mantissa_bits \in Nat,
         NEW c, c.exponent \in Nat, c.mantissa \in Nat, c = Code(c.sign, c.exponent, c.mantissa),
         NEW d, d.exponent \in Nat, d.mantissa \in Nat, d = Code(d.sign, d.exponent, d.mantissa),
         NEW k, NEW l, ClassesAsTyped(f, c, k), ClassesAsTyped(f, d, l),
         k.is_norm = l.is_norm, k.is_sub = l.is_sub, k.is_norm \/ k.is_sub,
         NEW signed,
         observed(Magnitude(f, c), c, k, signed) = observed(Magnitude(f, d), d, l, signed)
  PROVE  c = d
<1> DEFINE v == Magnitude(f, c)
           w == Magnitude(f, d)
<1>1. c.sign = d.sign /\ v.m = w.m /\ v.e = w.e
  <2>1. <<c.sign, v.m, v.e>> = <<d.sign, w.m, w.e>>
    BY DEF observed
  <2> HIDE DEF v, w
  <2>2. QED BY <2>1
<1>2. 2^f.mantissa_bits \in Nat
  BY PowerPositive
<1>3. (c.exponent = 0) = (d.exponent = 0)
  <2>1. /\ k.is_norm => c.exponent # 0
        /\ k.is_sub => c.exponent = 0
        /\ l.is_norm => d.exponent # 0
        /\ l.is_sub => d.exponent = 0
    BY DEF ClassesAsTyped, is_norm, is_sub, is_zero
  <2>2. QED BY <2>1
<1>4. c.exponent = d.exponent /\ c.mantissa = d.mantissa
  <2>1. CASE c.exponent = 0
    <3>1. v.m = c.mantissa /\ w.m = d.mantissa
      BY <1>3, <2>1 DEF Magnitude, Mag
    <3>2. QED BY <1>1, <1>3, <2>1, <3>1
  <2>2. CASE c.exponent # 0
    <3>1. /\ v.m = 2^f.mantissa_bits + c.mantissa /\ w.m = 2^f.mantissa_bits + d.mantissa
          /\ v.e = c.exponent - f.exponent_bias - f.mantissa_bits
          /\ w.e = d.exponent - f.exponent_bias - f.mantissa_bits
      BY <1>3, <2>2 DEF Magnitude, Mag
    <3> DEFINE p == 2^f.mantissa_bits
    <3> HIDE DEF v, w, p
    <3>2. p + c.mantissa = p + d.mantissa /\ p \in Nat
      BY <1>1, <1>2, <3>1 DEF p
    <3>3. c.exponent - f.exponent_bias - f.mantissa_bits
            = d.exponent - f.exponent_bias - f.mantissa_bits
      BY <1>1, <3>1
    <3>4. c.mantissa = d.mantissa
      BY <3>2
    <3>5. c.exponent = d.exponent
      BY <3>3
    <3>6. QED BY <3>4, <3>5
  <2>3. QED BY <2>1, <2>2
<1>5. QED BY <1>1, <1>4

LEMMA ObservedSign ==
  ASSUME NEW v, NEW c, NEW k, NEW signed, ~ k.is_norm, ~ k.is_sub, Classes(k) \subseteq signed
  PROVE  observed(v, c, k, signed) = <<c.sign>>
<1>1. \A y \in Classes(k) : y \in signed
  OBVIOUS
<1>2. QED BY <1>1, Zenon DEF observed

\* At most one infinity a sign, with an exponent no zero has.
OneInfinity(f) == \A a, b \in f.inf : a.exponent = b.exponent /\ a.exponent # 0 /\ a.mantissa = 0

\* A code is its three fields.
IsCode(c) == c = Code(c.sign, c.exponent, c.mantissa)

LEMMA SpecialsObserved ==
  ASSUME NEW f, OneInfinity(f),
         NEW c, IsCode(c),
         NEW d, IsCode(d),
         NEW k, NEW l, ClassesAsTyped(f, c, k), ClassesAsTyped(f, d, l),
         ClassBits(k), ClassBits(l),
         k.is_zero = l.is_zero, k.is_inf = l.is_inf, k.is_nan = l.is_nan,
         k.is_norm = l.is_norm, k.is_sub = l.is_sub,
         ~ k.is_norm, ~ k.is_sub, ~ k.is_nan,
         NEW signed,
         k.is_zero => c.sign = d.sign \/ "is_zero" \in signed,
         k.is_inf => "is_inf" \in signed,
         NEW v, NEW w,
         observed(v, c, k, signed) = observed(w, d, l, signed)
  PROVE  c = d
<1>0. ~ l.is_norm /\ ~ l.is_sub /\ ~ l.is_nan
  BY DEF ClassBits
<1>1. k.is_zero \/ k.is_inf
  BY DEF ClassesAsTyped, is_norm
<1>2. ~ (k.is_zero /\ k.is_inf)
  <2>1. c \in f.inf => c.exponent # 0
    BY DEF OneInfinity
  <2>2. k.is_inf => c \in f.inf
    BY DEF ClassesAsTyped, is_inf
  <2>3. k.is_zero => c.exponent = 0
    BY DEF ClassesAsTyped, is_zero
  <2>4. QED BY <2>1, <2>2, <2>3
<1>3. c.sign = d.sign
  <2>1. SUFFICES ASSUME c.sign # d.sign PROVE FALSE
    OBVIOUS
  <2>2. Classes(k) = Classes(l)
    BY DEF Classes
  <2>3. Classes(k) \subseteq signed
    BY <1>1, <1>2, <2>1 DEF Classes
  <2>4. observed(v, c, k, signed) = <<c.sign>> /\ observed(w, d, l, signed) = <<d.sign>>
    <3>1. Classes(k) \subseteq signed /\ Classes(l) \subseteq signed
      BY <2>2, <2>3
    <3>2. observed(v, c, k, signed) = <<c.sign>>
      BY <3>1, ObservedSign
    <3>3. observed(w, d, l, signed) = <<d.sign>>
      BY <1>0, <3>1, ObservedSign
    <3>4. QED BY <3>2, <3>3
  <2>5. <<c.sign>> = <<d.sign>>
    BY <2>4
  <2>6. <<c.sign>>[1] = <<d.sign>>[1]
    BY ONLY <2>5
  <2>7. QED BY ONLY <2>1, <2>6
<1>4. CASE k.is_zero
  <2>1. c.exponent = 0 /\ c.mantissa = 0 /\ d.exponent = 0 /\ d.mantissa = 0
    BY <1>4 DEF ClassesAsTyped, is_zero
  <2>2. QED BY <1>3, <2>1 DEF IsCode
<1>5. CASE k.is_inf
  <2>1. c \in f.inf /\ d \in f.inf
    BY <1>5 DEF ClassesAsTyped, is_inf
  <2>2. c.exponent = d.exponent /\ c.mantissa = 0 /\ d.mantissa = 0
    BY <2>1 DEF OneInfinity
  <2>3. QED BY <1>3, <2>2 DEF IsCode
<1>6. QED BY <1>1, <1>4, <1>5

\* What an equivalence check compares of two codes of one class tells them apart,
\* NaNs excepted: results it takes for equal are equal.
THEOREM ObservablesDecide ==
  ASSUME NEW f \in DOMAIN FormatOf, NEW c \in Codes(FormatOf[f]), NEW d \in Codes(FormatOf[f]),
         Classes(PackOf(f, c)) = Classes(PackOf(f, d)),
         ObservablesOf(f, Magnitude(FormatOf[f], c), c, PackOf(f, c))
           = ObservablesOf(f, Magnitude(FormatOf[f], d), d, PackOf(f, d)),
         ~ is_nan(FormatOf[f], c)
  PROVE  c = d
<1> DEFINE F == FormatOf[f]
           k == PackOf(f, c)
           l == PackOf(f, d)
<1>1. f \in {"Float16", "BFloat16", "Float32", "E5M2", "E4M3FN", "UE4M3", "E5M2FNUZ", "E2M1"}
  BY DEF FormatOf
<1>2. /\ ClassesAsTyped(F, c, k) /\ ClassBits(k) /\ ClassesAsTyped(F, d, l) /\ ClassBits(l)
  BY PackedAsDecoded, TypedBits DEF PackedAsTyped
<1>3. /\ F.exponent_bias \in Int /\ F.mantissa_bits \in Nat /\ F.exponent_bits \in Nat
      /\ F.exponent_bits >= 2 /\ F.signs \subseteq {0, 1}
      /\ F.inf = {} \/ F.inf = [sign: {0, 1}, exponent: {2^F.exponent_bits - 1}, mantissa: {0}]
  <2>1. CASE f = "Float16"
    <3>0. F = WithInfinities(5, 10, 15)
      BY <2>1 DEF FormatOf, Float16
    <3> HIDE DEF F
    <3>1. /\ F.exponent_bias = 15 /\ F.mantissa_bits = 10 /\ F.exponent_bits = 5
          /\ F.signs = {0, 1} /\ F.inf = [sign: {0, 1}, exponent: {2^5 - 1}, mantissa: {0}]
      BY ONLY <3>0 DEF WithInfinities
    <3>2. QED BY ONLY <3>1
  <2>2. CASE f = "BFloat16"
    <3>0. F = WithInfinities(8, 7, 127)
      BY <2>2 DEF FormatOf, BFloat16
    <3> HIDE DEF F
    <3>1. /\ F.exponent_bias = 127 /\ F.mantissa_bits = 7 /\ F.exponent_bits = 8
          /\ F.signs = {0, 1} /\ F.inf = [sign: {0, 1}, exponent: {2^8 - 1}, mantissa: {0}]
      BY ONLY <3>0 DEF WithInfinities
    <3>2. QED BY ONLY <3>1
  <2>3. CASE f = "Float32"
    <3>0. F = WithInfinities(8, 23, 127)
      BY <2>3 DEF FormatOf, Float32
    <3> HIDE DEF F
    <3>1. /\ F.exponent_bias = 127 /\ F.mantissa_bits = 23 /\ F.exponent_bits = 8
          /\ F.signs = {0, 1} /\ F.inf = [sign: {0, 1}, exponent: {2^8 - 1}, mantissa: {0}]
      BY ONLY <3>0 DEF WithInfinities
    <3>2. QED BY ONLY <3>1
  <2>4. CASE f = "E5M2"
    <3>0. F = WithInfinities(5, 2, 15)
      BY <2>4 DEF FormatOf, E5M2
    <3> HIDE DEF F
    <3>1. /\ F.exponent_bias = 15 /\ F.mantissa_bits = 2 /\ F.exponent_bits = 5
          /\ F.signs = {0, 1} /\ F.inf = [sign: {0, 1}, exponent: {2^5 - 1}, mantissa: {0}]
      BY ONLY <3>0 DEF WithInfinities
    <3>2. QED BY ONLY <3>1
  <2>5. CASE f = "E4M3FN"
    BY <2>5 DEF FormatOf, E4M3FN
  <2>6. CASE f = "UE4M3"
    <3>1. F = UE4M3
      BY <2>6 DEF FormatOf
    <3>2. UE4M3.signs = {0} /\ UE4M3.inf = {} /\ UE4M3.exponent_bits = 4 /\ UE4M3.mantissa_bits = 3
          /\ UE4M3.exponent_bias = 7
      BY DEF UE4M3, E4M3FN
    <3> HIDE DEF F
    <3>3. QED BY ONLY <3>1, <3>2
  <2>7. CASE f = "E5M2FNUZ"
    BY <2>7 DEF FormatOf, E5M2FNUZ
  <2>8. CASE f = "E2M1"
    BY <2>8 DEF FormatOf, E2M1
  <2>9. QED BY <1>1, <2>1, <2>2, <2>3, <2>4, <2>5, <2>6, <2>7, <2>8
<1>4. /\ c.exponent \in Nat /\ c.mantissa \in Nat /\ c = Code(c.sign, c.exponent, c.mantissa)
      /\ d.exponent \in Nat /\ d.mantissa \in Nat /\ d = Code(d.sign, d.exponent, d.mantissa)
      /\ c.sign \in F.signs /\ d.sign \in F.signs
  <2>1. 2^F.exponent_bits \in Nat /\ 2^F.mantissa_bits \in Nat
    BY <1>3, PowerPositive
  <2> HIDE DEF F
  <2>2. c \in Codes(F) /\ d \in Codes(F)
    BY DEF F
  <2>3. QED BY ONLY <2>1, <2>2 DEF Codes, Code
<1>5. \E signed :
        /\ ObservablesOf(f, Magnitude(F, c), c, k) = observed(Magnitude(F, c), c, k, signed)
        /\ ObservablesOf(f, Magnitude(F, d), d, l) = observed(Magnitude(F, d), d, l, signed)
        /\ "is_zero" \in signed \/ f \in {"UE4M3", "E5M2FNUZ"}
        /\ "is_inf" \in signed \/ F.inf = {}
  <2> DEFINE v == Magnitude(F, c)
             w == Magnitude(F, d)
             both == {"is_zero", "is_inf"}
             zeros == {"is_zero"}
  <2>0. "is_zero" \in both /\ "is_inf" \in both /\ "is_zero" \in zeros
    OBVIOUS
  <2>1. CASE f = "Float16"
    <3>1. ObservablesOf(f, v, c, k) = observed(v, c, k, both) /\ ObservablesOf(f, w, d, l) = observed(w, d, l, both)
      BY <2>1 DEF ObservablesOf, fp16_observables
    <3>2. QED BY <2>0, <3>1
  <2>2. CASE f = "BFloat16"
    <3>1. ObservablesOf(f, v, c, k) = observed(v, c, k, both) /\ ObservablesOf(f, w, d, l) = observed(w, d, l, both)
      BY <2>2 DEF ObservablesOf, bf16_observables
    <3>2. QED BY <2>0, <3>1
  <2>3. CASE f = "Float32"
    <3>1. ObservablesOf(f, v, c, k) = observed(v, c, k, both) /\ ObservablesOf(f, w, d, l) = observed(w, d, l, both)
      BY <2>3 DEF ObservablesOf, fp32_observables
    <3>2. QED BY <2>0, <3>1
  <2>4. CASE f = "E5M2"
    <3>1. ObservablesOf(f, v, c, k) = observed(v, c, k, both) /\ ObservablesOf(f, w, d, l) = observed(w, d, l, both)
      BY <2>4 DEF ObservablesOf, e5m2_observables
    <3>2. QED BY <2>0, <3>1
  <2>5. CASE f = "E4M3FN"
    <3>1. ObservablesOf(f, v, c, k) = observed(v, c, k, zeros) /\ ObservablesOf(f, w, d, l) = observed(w, d, l, zeros)
      BY <2>5 DEF ObservablesOf, e4m3fn_observables
    <3>2. F.inf = {}
      BY <2>5 DEF FormatOf, E4M3FN
    <3>3. QED BY <2>0, <3>1, <3>2
  <2>6. CASE f = "UE4M3"
    <3>1. ObservablesOf(f, v, c, k) = observed(v, c, k, {}) /\ ObservablesOf(f, w, d, l) = observed(w, d, l, {})
      BY <2>6 DEF ObservablesOf, ue4m3_observables
    <3>2. F.inf = {}
      BY <2>6 DEF FormatOf, UE4M3, E4M3FN
    <3>3. QED BY <2>6, <3>1, <3>2
  <2>7. CASE f = "E5M2FNUZ"
    <3>1. ObservablesOf(f, v, c, k) = observed(v, c, k, {}) /\ ObservablesOf(f, w, d, l) = observed(w, d, l, {})
      BY <2>7 DEF ObservablesOf, e5m2fnuz_observables
    <3>2. F.inf = {}
      BY <2>7 DEF FormatOf, E5M2FNUZ
    <3>3. QED BY <2>7, <3>1, <3>2
  <2>8. CASE f = "E2M1"
    <3>1. ObservablesOf(f, v, c, k) = observed(v, c, k, zeros) /\ ObservablesOf(f, w, d, l) = observed(w, d, l, zeros)
      BY <2>8 DEF ObservablesOf, e2m1_observables
    <3>2. F.inf = {}
      BY <2>8 DEF FormatOf, E2M1
    <3>3. QED BY <2>0, <3>1, <3>2
  <2>9. QED BY <1>1, <2>1, <2>2, <2>3, <2>4, <2>5, <2>6, <2>7, <2>8
<1>6. PICK signed :
        /\ ObservablesOf(f, Magnitude(F, c), c, k) = observed(Magnitude(F, c), c, k, signed)
        /\ ObservablesOf(f, Magnitude(F, d), d, l) = observed(Magnitude(F, d), d, l, signed)
        /\ "is_zero" \in signed \/ f \in {"UE4M3", "E5M2FNUZ"}
        /\ "is_inf" \in signed \/ F.inf = {}
  BY <1>5
<1>7. /\ k.is_norm = l.is_norm /\ k.is_sub = l.is_sub /\ k.is_zero = l.is_zero
      /\ k.is_inf = l.is_inf /\ k.is_nan = l.is_nan
  <2>1. Classes(k) = Classes(l)
    OBVIOUS
  <2> HIDE DEF k, l
  <2>2. \A n \in {"is_norm", "is_sub", "is_zero", "is_inf", "is_nan"} : k[n] <=> l[n]
    BY <2>1 DEF Classes
  <2>3. /\ (k.is_norm <=> l.is_norm) /\ (k.is_sub <=> l.is_sub) /\ (k.is_zero <=> l.is_zero)
        /\ (k.is_inf <=> l.is_inf) /\ (k.is_nan <=> l.is_nan)
    BY <2>2
  <2>4. QED BY <1>2, <2>3 DEF ClassBits
<1>8. observed(Magnitude(F, c), c, k, signed) = observed(Magnitude(F, d), d, l, signed)
  BY <1>6
<1>9. k.is_zero => c.sign = d.sign \/ "is_zero" \in signed
  <2>1. CASE f = "UE4M3"
    <3>1. F.signs = {0}
      BY <2>1 DEF FormatOf, UE4M3, E4M3FN
    <3>2. QED BY <1>4, <3>1
  <2>2. CASE f = "E5M2FNUZ"
    <3>1. F.nan = {Code(1, 0, 0)} /\ F.signs = {0, 1}
      BY <2>2 DEF FormatOf, E5M2FNUZ
    <3>2. ASSUME k.is_zero PROVE c.sign = 0 /\ d.sign = 0
      <4>1. /\ c.exponent = 0 /\ c.mantissa = 0 /\ c \notin F.nan
            /\ d.exponent = 0 /\ d.mantissa = 0 /\ d \notin F.nan
        BY <1>2, <1>7, <3>2 DEF ClassesAsTyped, is_zero, is_nan
      <4>2. c.sign # 1 /\ d.sign # 1
        BY <1>4, <3>1, <4>1
      <4>3. QED BY <1>4, <3>1, <4>2
    <3>3. QED BY <3>2
  <2>3. QED BY <1>6, <2>1, <2>2
<1>10. k.is_inf => "is_inf" \in signed
  BY <1>2, <1>6 DEF ClassesAsTyped, is_inf
<1>11. ~ k.is_nan
  BY <1>2 DEF ClassesAsTyped
<1> HIDE DEF F, k, l
<1>12. CASE k.is_norm \/ k.is_sub
  BY <1>2, <1>3, <1>4, <1>7, <1>8, <1>12, NumbersObserved
<1>13. CASE ~ (k.is_norm \/ k.is_sub)
  <2>1. 2^F.exponent_bits - 1 # 0
    <3>1. 2^2 <= 2^F.exponent_bits /\ 2^F.exponent_bits \in Nat
      BY <1>3, PowerMonotone, PowerPositive
    <3>2. QED BY <3>1
  <2>2. OneInfinity(F)
    <3>1. CASE F.inf = {}
      BY <3>1 DEF OneInfinity
    <3>2. CASE F.inf = [sign: {0, 1}, exponent: {2^F.exponent_bits - 1}, mantissa: {0}]
      <4>1. \A a \in F.inf : a.exponent = 2^F.exponent_bits - 1 /\ a.mantissa = 0
        BY ONLY <3>2
      <4>2. QED BY ONLY <2>1, <4>1 DEF OneInfinity
    <3>3. QED BY <1>3, <3>1, <3>2
  <2>3. ~ k.is_norm /\ ~ k.is_sub
    BY <1>13
  <2> DEFINE v == Magnitude(F, c)
             w == Magnitude(F, d)
  <2>4. observed(v, c, k, signed) = observed(w, d, l, signed)
    BY <1>8
  <2> HIDE DEF v, w
  <2>5. IsCode(c) /\ IsCode(d)
    BY <1>4 DEF IsCode
  <2>6. QED
    BY ONLY <1>2, <1>7, <1>9, <1>10, <1>11, <2>2, <2>3, <2>4, <2>5, SpecialsObserved
<1>14. QED BY <1>12, <1>13

-----------------------------------------------------------------------------
(* Constants.                                                              *)

\* The spec value v has the fields and the class of the code c.
Shows(f, c, v) ==
  /\ v.sign = c.sign /\ v.exponent = c.exponent /\ v.mantissa = c.mantissa
  /\ v.is_norm = is_norm(f, c) /\ v.is_sub = is_sub(f, c) /\ v.is_zero = is_zero(f, c)
  /\ v.is_inf = is_inf(f, c) /\ v.is_nan = is_nan(f, c)

\* A special code is shown by a code with its fields, a number by itself.
LEMMA ShownBy ==
  ASSUME NEW f, NEW c, ~ is_nan(f, c), NEW d,
         d.sign = c.sign, d.exponent = c.exponent, d.mantissa = c.mantissa
  PROVE  /\ is_inf(f, c) /\ ~ is_zero(f, c) => Shows(f, c, InfinityValue(d))
         /\ ~ is_inf(f, c) /\ is_zero(f, c) => Shows(f, c, ZeroValue(d))
         /\ ~ is_inf(f, c) /\ ~ is_zero(f, c) => Shows(f, c, NumberValue(f, c))
<1>1. /\ is_norm(f, c) \in BOOLEAN /\ is_sub(f, c) \in BOOLEAN /\ is_zero(f, c) \in BOOLEAN
      /\ is_inf(f, c) \in BOOLEAN /\ is_nan(f, c) \in BOOLEAN
  BY DEF is_norm, is_sub, is_zero, is_inf, is_nan
<1>2. is_inf(f, c) /\ ~ is_zero(f, c) => Shows(f, c, InfinityValue(d))
  <2>1. SUFFICES ASSUME is_inf(f, c), ~ is_zero(f, c) PROVE Shows(f, c, InfinityValue(d))
    OBVIOUS
  <2>2. /\ is_norm(f, c) = FALSE /\ is_sub(f, c) = FALSE /\ is_zero(f, c) = FALSE
        /\ is_inf(f, c) = TRUE /\ is_nan(f, c) = FALSE
    BY <1>1, <2>1 DEF is_norm, is_sub
  <2>3. QED BY <2>2 DEF InfinityValue, SpecValue, Shows
<1>3. ~ is_inf(f, c) /\ is_zero(f, c) => Shows(f, c, ZeroValue(d))
  <2>1. SUFFICES ASSUME ~ is_inf(f, c), is_zero(f, c) PROVE Shows(f, c, ZeroValue(d))
    OBVIOUS
  <2>2. /\ is_norm(f, c) = FALSE /\ is_sub(f, c) = FALSE /\ is_zero(f, c) = TRUE
        /\ is_inf(f, c) = FALSE /\ is_nan(f, c) = FALSE
    BY <1>1, <2>1 DEF is_norm, is_sub
  <2>3. QED BY <2>2 DEF ZeroValue, SpecValue, Shows
<1>4. ~ is_inf(f, c) /\ ~ is_zero(f, c) => Shows(f, c, NumberValue(f, c))
  <2>1. SUFFICES ASSUME ~ is_inf(f, c), ~ is_zero(f, c) PROVE Shows(f, c, NumberValue(f, c))
    OBVIOUS
  <2>2. is_zero(f, c) = FALSE /\ is_inf(f, c) = FALSE /\ is_nan(f, c) = FALSE
    BY <1>1, <2>1
  <2>3. QED BY <2>2 DEF NumberValue, SpecValue, Shows
<1>5. QED BY <1>2, <1>3, <1>4

\* A constant of a format with infinities.
LEMMA InfinitiesShown ==
  ASSUME NEW eb \in Nat, NEW mb \in Nat, NEW bias \in Int, eb >= 2, mb >= 1,
         NEW f, f = WithInfinities(eb, mb, bias), NEW c \in Codes(f), ~ is_nan(f, c), NEW payload
  PROVE  Shows(f, c, with_infinities_value(f, with_infinities_specials(f, payload), c))
<1> DEFINE top == 2^eb - 1
           named == with_infinities_specials(f, payload)
<1>1. /\ f.exponent_bits = eb /\ f.signs = {0, 1}
      /\ f.inf = [sign: {0, 1}, exponent: {top}, mantissa: {0}]
  BY DEF WithInfinities
<1>2. 2^eb \in Nat /\ 2^eb >= 4
  BY PowerPositive, PowerMonotone, 2^2 = 4
<1>3. /\ named.inf = Code(0, top, 0) /\ named.ninf = Code(1, top, 0)
      /\ named.zero = Code(0, 0, 0) /\ named.nzero = Code(1, 0, 0)
  BY <1>1 DEF with_infinities_specials, Infinity, Zero, nZero
<1>4. c.sign \in {0, 1}
  BY <1>1 DEF Codes
<1> HIDE DEF named
<1>5. CASE is_inf(f, c)
  <2> DEFINE d == IF c.sign = 1 THEN named.ninf ELSE named.inf
  <2>1. c.exponent = top /\ c.mantissa = 0
    BY <1>1, <1>5 DEF is_inf
  <2>2. ~ is_zero(f, c)
    BY <1>2, <2>1 DEF is_zero
  <2>3. d.sign = c.sign /\ d.exponent = c.exponent /\ d.mantissa = c.mantissa
    BY <1>3, <1>4, <2>1 DEF Code
  <2>4. with_infinities_value(f, named, c) = InfinityValue(d)
    BY <1>5 DEF with_infinities_value
  <2> HIDE DEF d
  <2>5. QED BY <1>5, <2>2, <2>3, <2>4, ShownBy DEF named
<1>6. CASE ~ is_inf(f, c) /\ is_zero(f, c)
  <2> DEFINE d == IF c.sign = 1 THEN named.nzero ELSE named.zero
  <2>1. c.exponent = 0 /\ c.mantissa = 0
    BY <1>6 DEF is_zero
  <2>2. d.sign = c.sign /\ d.exponent = c.exponent /\ d.mantissa = c.mantissa
    BY <1>3, <1>4, <2>1 DEF Code
  <2>3. with_infinities_value(f, named, c) = ZeroValue(d)
    BY <1>6 DEF with_infinities_value
  <2> HIDE DEF d
  <2>4. QED BY <1>6, <2>2, <2>3, ShownBy DEF named
<1>7. CASE ~ is_inf(f, c) /\ ~ is_zero(f, c)
  <2>1. with_infinities_value(f, named, c) = NumberValue(f, c)
    BY <1>7 DEF with_infinities_value
  <2>2. QED BY <1>7, <2>1, ShownBy DEF named
<1>8. QED BY <1>5, <1>6, <1>7

\* A constant of another format, whose spec names its zeros.
LEMMA FiniteShown ==
  ASSUME NEW f, f.inf = {}, NEW c, ~ is_nan(f, c), NEW zero,
         is_zero(f, c) => zero = Code(c.sign, 0, 0)
  PROVE  Shows(f, c, IF is_zero(f, c) THEN ZeroValue(zero) ELSE NumberValue(f, c))
<1>1. ~ is_inf(f, c)
  BY DEF is_inf
<1>2. CASE is_zero(f, c)
  <2>1. zero.sign = c.sign /\ zero.exponent = c.exponent /\ zero.mantissa = c.mantissa
    BY <1>2 DEF is_zero, Code
  <2>2. Shows(f, c, ZeroValue(zero))
    BY <1>1, <1>2, <2>1, ShownBy
  <2>3. QED BY <1>2, <2>2
<1>3. CASE ~ is_zero(f, c)
  <2>1. Shows(f, c, NumberValue(f, c))
    BY <1>1, <1>3, ShownBy
  <2>2. QED BY <1>3, <2>1
<1>4. QED BY <1>2, <1>3

\* A constant of any format, NaNs excepted, has its own fields and class in a proof.
LEMMA ConstantsShown ==
  ASSUME NEW f \in DOMAIN FormatOf, NEW c \in Codes(FormatOf[f]), ~ is_nan(FormatOf[f], c)
  PROVE  Shows(FormatOf[f], c, ValueOf(f, c))
<1>1. f \in {"Float16", "BFloat16", "Float32", "E5M2", "E4M3FN", "UE4M3", "E5M2FNUZ", "E2M1"}
  BY DEF FormatOf
<1>2. CASE f = "Float16"
  <2>1. FormatOf[f] = WithInfinities(5, 10, 15) /\ FormatOf[f] = Float16
    BY <1>2 DEF FormatOf, Float16
  <2>2. ValueOf(f, c)
          = with_infinities_value(FormatOf[f], with_infinities_specials(FormatOf[f], 1), c)
    BY <1>2, <2>1 DEF ValueOf, fp16_to_spec_value, fp16_specials
  <2>3. QED BY <2>1, <2>2, InfinitiesShown
<1>3. CASE f = "BFloat16"
  <2>1. FormatOf[f] = WithInfinities(8, 7, 127) /\ FormatOf[f] = BFloat16
    BY <1>3 DEF FormatOf, BFloat16
  <2>2. ValueOf(f, c)
          = with_infinities_value(FormatOf[f], with_infinities_specials(FormatOf[f], 1), c)
    BY <1>3, <2>1 DEF ValueOf, bf16_to_spec_value, bf16_specials
  <2>3. QED BY <2>1, <2>2, InfinitiesShown
<1>4. CASE f = "Float32"
  <2>1. FormatOf[f] = WithInfinities(8, 23, 127) /\ FormatOf[f] = Float32
    BY <1>4 DEF FormatOf, Float32
  <2>2. ValueOf(f, c)
          = with_infinities_value(FormatOf[f], with_infinities_specials(FormatOf[f], 1), c)
    BY <1>4, <2>1 DEF ValueOf, fp32_to_spec_value, fp32_specials
  <2>3. QED BY <2>1, <2>2, InfinitiesShown
<1>5. CASE f = "E5M2"
  <2>1. FormatOf[f] = WithInfinities(5, 2, 15) /\ FormatOf[f] = E5M2
    BY <1>5 DEF FormatOf, E5M2
  <2>2. ValueOf(f, c)
          = with_infinities_value(FormatOf[f], with_infinities_specials(FormatOf[f], 2), c)
    BY <1>5, <2>1 DEF ValueOf, e5m2_to_spec_value, e5m2_specials
  <2>3. QED BY <2>1, <2>2, InfinitiesShown
<1>6. CASE f = "E4M3FN"
  <2>1. FormatOf[f] = E4M3FN /\ E4M3FN.inf = {} /\ E4M3FN.signs = {0, 1}
    BY <1>6 DEF FormatOf, E4M3FN
  <2>2. c.sign \in {0, 1}
    BY <2>1 DEF Codes
  <2> DEFINE zero == IF c.sign = 1 THEN e4m3fn_specials.nzero ELSE e4m3fn_specials.zero
  <2>3. zero = Code(c.sign, 0, 0)
    BY <2>2 DEF e4m3fn_specials, Zero, nZero
  <2>4. ValueOf(f, c) = IF is_zero(E4M3FN, c) THEN ZeroValue(zero) ELSE NumberValue(E4M3FN, c)
    BY <1>6, <2>1 DEF ValueOf, e4m3fn_to_spec_value
  <2> HIDE DEF zero
  <2>5. QED BY <2>1, <2>3, <2>4, FiniteShown
<1>7. CASE f = "UE4M3"
  <2>1. FormatOf[f] = UE4M3 /\ UE4M3.inf = {} /\ UE4M3.signs = {0}
    BY <1>7 DEF FormatOf, UE4M3, E4M3FN
  <2>2. c.sign = 0
    BY <2>1 DEF Codes
  <2> DEFINE zero == ue4m3_specials.zero
  <2>3. zero = Code(c.sign, 0, 0)
    BY <2>2 DEF ue4m3_specials, Zero
  <2>4. ValueOf(f, c) = IF is_zero(UE4M3, c) THEN ZeroValue(zero) ELSE NumberValue(UE4M3, c)
    BY <1>7, <2>1 DEF ValueOf, ue4m3_to_spec_value
  <2> HIDE DEF zero
  <2>5. QED BY <2>1, <2>3, <2>4, FiniteShown
<1>8. CASE f = "E5M2FNUZ"
  <2>1. /\ FormatOf[f] = E5M2FNUZ /\ E5M2FNUZ.inf = {} /\ E5M2FNUZ.signs = {0, 1}
        /\ E5M2FNUZ.nan = {Code(1, 0, 0)} /\ 2^E5M2FNUZ.exponent_bits \in Nat
        /\ 2^E5M2FNUZ.mantissa_bits \in Nat
    BY <1>8 DEF FormatOf, E5M2FNUZ
  <2>2. c.sign \in {0, 1} /\ c = Code(c.sign, c.exponent, c.mantissa)
    BY <2>1 DEF Codes, Code
  <2> DEFINE zero == e5m2fnuz_specials.zero
  <2>3. is_zero(E5M2FNUZ, c) => zero = Code(c.sign, 0, 0)
    <3>1. is_zero(E5M2FNUZ, c) => c.sign = 0
      BY <2>1, <2>2 DEF is_zero, is_nan
    <3>2. QED BY <3>1 DEF e5m2fnuz_specials, Zero
  <2>4. ValueOf(f, c) = IF is_zero(E5M2FNUZ, c) THEN ZeroValue(zero) ELSE NumberValue(E5M2FNUZ, c)
    BY <1>8, <2>1 DEF ValueOf, e5m2fnuz_to_spec_value
  <2> HIDE DEF zero
  <2>5. QED BY <2>1, <2>3, <2>4, FiniteShown
<1>9. CASE f = "E2M1"
  <2>1. FormatOf[f] = E2M1 /\ E2M1.inf = {} /\ E2M1.signs = {0, 1}
    BY <1>9 DEF FormatOf, E2M1
  <2>2. c.sign \in {0, 1}
    BY <2>1 DEF Codes
  <2> DEFINE zero == IF c.sign = 1 THEN e2m1_specials.nzero ELSE e2m1_specials.zero
  <2>3. zero = Code(c.sign, 0, 0)
    BY <2>2 DEF e2m1_specials, Zero, nZero
  <2>4. ValueOf(f, c) = IF is_zero(E2M1, c) THEN ZeroValue(zero) ELSE NumberValue(E2M1, c)
    BY <1>9 DEF ValueOf, e2m1_to_spec_value
  <2> HIDE DEF zero
  <2>5. QED BY <2>1, <2>3, <2>4, FiniteShown
<1>10. QED BY <1>1, <1>2, <1>3, <1>4, <1>5, <1>6, <1>7, <1>8, <1>9

\* The nodes of the decoded fields hold the fields.
LEMMA FieldsHold ==
  ASSUME NEW f \in DOMAIN FormatOf, NEW c \in Codes(FormatOf[f])
  PROVE  /\ Fields(FormatOf[f], c).exponent.raw = c.exponent
         /\ Fields(FormatOf[f], c).mantissa.raw = c.mantissa
<1> DEFINE F == FormatOf[f]
<1>1. F.exponent_bits \in Nat /\ F.mantissa_bits \in Nat
  BY FormatFields DEF FormatTyped
<1>2. c \in Codes(F)
  OBVIOUS
<1> HIDE DEF F
<1>3. 2^F.exponent_bits \in Nat /\ 2^F.mantissa_bits \in Nat
  BY <1>1, PowerPositive
<1>4. c.exponent \in 0 .. (2^F.exponent_bits - 1) /\ c.mantissa \in 0 .. (2^F.mantissa_bits - 1)
  BY <1>2 DEF Codes
<1>5. F.exponent_bits + 0 = F.exponent_bits /\ F.mantissa_bits + 0 = F.mantissa_bits
  BY <1>1
<1>6. c.exponent % 2^F.exponent_bits = c.exponent /\ c.mantissa % 2^F.mantissa_bits = c.mantissa
  BY ONLY <1>3, <1>4
<1>7. /\ Fields(F, c).exponent.raw = c.exponent % 2^F.exponent_bits
      /\ Fields(F, c).mantissa.raw = c.mantissa % 2^F.mantissa_bits
  BY <1>5 DEF Fields, Node
<1>8. QED BY <1>6, <1>7 DEF F

\* Decoding a constant gives what the decode spec says of its spec value.
LEMMA ConstantsDecoded ==
  ASSUME NEW f \in DOMAIN FormatOf, NEW c \in Codes(FormatOf[f])
  PROVE  \/ DecodeOf(f, c).is_nan
         \/ DecodedTupleOf(f, DecodeOf(f, c)) = DecodeSpecOf(f, ValueOf(f, c))
<1> DEFINE F == FormatOf[f]
           d == DecodeOf(f, c)
           v == ValueOf(f, c)
<1>1. f \in {"Float16", "BFloat16", "Float32", "E5M2", "E4M3FN", "UE4M3", "E5M2FNUZ", "E2M1"}
  BY DEF FormatOf
<1>2. SUFFICES ASSUME ~ d.is_nan PROVE DecodedTupleOf(f, d) = DecodeSpecOf(f, v)
  OBVIOUS
<1>3. /\ ClassesAsTyped(F, c, d) /\ d.sign = c.sign
      /\ d.exponent = Fields(F, c).exponent /\ d.mantissa = Fields(F, c).mantissa
  BY DecodedFields
<1>4. ~ is_nan(F, c)
  BY <1>2, <1>3 DEF ClassesAsTyped
<1>5. Shows(F, c, v)
  BY <1>4, ConstantsShown
<1>6. d.exponent.raw = c.exponent /\ d.mantissa.raw = c.mantissa
  BY <1>3, FieldsHold
<1> HIDE DEF F, d, v
<1>7. /\ d.sign = v.sign /\ d.exponent.raw = v.exponent /\ d.mantissa.raw = v.mantissa
      /\ d.is_norm = v.is_norm /\ d.is_sub = v.is_sub /\ d.is_zero = v.is_zero
      /\ d.is_inf = v.is_inf /\ d.is_nan = v.is_nan
  BY <1>3, <1>5, <1>6 DEF Shows, ClassesAsTyped
<1>8. /\ DecodedAll(d) = decode_all(v) /\ DecodedFinite(d) = decode_finite(v)
      /\ DecodedUE4M3(d) = ue4m3_decode_spec(v) /\ DecodedE2M1(d) = e2m1_decode_spec(v)
  BY ONLY <1>7 DEF DecodedAll, decode_all, DecodedFinite, decode_finite, DecodedUE4M3,
                   ue4m3_decode_spec, DecodedE2M1, e2m1_decode_spec
<1>9. QED
  BY ONLY <1>1, <1>8
  DEF DecodedTupleOf, DecodeSpecOf, DecodedFP16, DecodedBF16, DecodedFP32, DecodedE5M2,
      DecodedE4M3FN, DecodedE5M2FNUZ, fp16_decode_spec, bf16_decode_spec, fp32_decode_spec,
      e5m2_decode_spec, e4m3fn_decode_spec, e5m2fnuz_decode_spec

\* Every code of every format, not only the ones a run converts, satisfies the
\* assumptions its spec makes of an input, with the class bits of the decoder, of
\* the packed value and of the type in agreement, and is, if special, one of the
\* special values the specs name.
THEOREM EveryInputCovered == Spec => []InputsCovered
<1>1. ConverterInv => InputsCovered
  <2>1. SUFFICES ASSUME ConverterInv, stage = "rebase"
                 PROVE  /\ FreshOf(design.from, x, X)
                        /\ ClassesAsTyped(From, x, X)
                        /\ ClassesAsTyped(From, x, PackOf(design.from, x))
                        /\ X.is_norm \/ X.is_sub => PackOf(design.from, x).value = Magnitude(From, x)
                        /\ NamedAs(design.from, x, X)
                        /\ X.is_nan \/ DecodedTupleOf(design.from, X)
                                         = DecodeSpecOf(design.from, ValueOf(design.from, x))
    BY DEF InputsCovered
  <2>2. design.from \in DOMAIN FormatOf /\ x \in Codes(From) /\ X = DecodeOf(design.from, x)
    BY <2>1, DesignFormats DEF ConverterInv, Typing
  <2>3. FreshOf(design.from, x, X) /\ ClassesAsTyped(From, x, X)
    BY <2>2, DecodedAsAssumed DEF From
  <2>4. PackedAsTyped(From, x, PackOf(design.from, x))
    BY <2>2, PackedAsDecoded DEF From
  <2>5. NamedAs(design.from, x, X)
    BY <2>2, <2>3, TypedBits, SpecialsNamed DEF From
  <2>6. X.is_norm \/ X.is_sub =>
          PackOf(design.from, x).is_norm \/ PackOf(design.from, x).is_sub
    BY <2>3, <2>4 DEF PackedAsTyped, ClassesAsTyped
  <2>7. X.is_nan \/ DecodedTupleOf(design.from, X)
                       = DecodeSpecOf(design.from, ValueOf(design.from, x))
    BY <2>2, <2>3, TypedBits, ConstantsDecoded DEF From
  <2>8. QED BY <2>3, <2>4, <2>5, <2>6, <2>7 DEF PackedAsTyped
<1>2. QED BY <1>1, ConverterTyped, PTL

-----------------------------------------------------------------------------
(* Quotients and remainders.                                               *)

\* Quotient and remainder, by what characterises them.
LEMMA Divided ==
  ASSUME NEW a \in Int, NEW p \in Nat, p > 0
  PROVE  /\ a \div p \in Int /\ a % p \in 0 .. (p - 1)
         /\ a % p = a - p * (a \div p)
         /\ a >= 0 => a \div p >= 0
<1>1. a \div p \in Int /\ a % p \in 0 .. (p - 1)
  OBVIOUS
<1>2. a % p = a - p * (a \div p)
  OBVIOUS
<1>3. a >= 0 => a \div p >= 0
  OBVIOUS
<1>4. QED BY <1>1, <1>2, <1>3

\* A number is split in one way only into a multiple of p and what is less than p.
LEMMA DivisionUnique ==
  ASSUME NEW p \in Nat, p > 0, NEW q \in Int, NEW r \in Int, 0 <= r, r < p
  PROVE  (p * q + r) \div p = q /\ (p * q + r) % p = r
<1> DEFINE a == p * q + r
           d == a \div p
           b == a % p
<1>1. a \in Int
  OBVIOUS
<1>2. d \in Int /\ b \in 0 .. (p - 1) /\ b = a - p * d
  BY <1>1, Divided
<1>3. p * q + r = p * d + b
  BY <1>2
<1> HIDE DEF a, d, b
<1>4. b \in Int /\ 0 <= b /\ b < p
  BY <1>2
<1>5. ASSUME q < d PROVE FALSE
  <2>1. p * q + p <= p * d
    <3>1. q + 1 <= d
      BY <1>2, <1>5
    <3>2. p * (q + 1) <= p * d
      BY <1>2, <3>1
    <3>3. p * (q + 1) = p * q + p
      OBVIOUS
    <3>4. QED BY <3>2, <3>3
  <2>2. p * q \in Int /\ p * d \in Int
    BY <1>2
  <2>3. QED BY <1>3, <1>4, <2>1, <2>2
<1>6. ASSUME d < q PROVE FALSE
  <2>1. p * d + p <= p * q
    <3>1. d + 1 <= q
      BY <1>2, <1>6
    <3>2. p * (d + 1) <= p * q
      BY <1>2, <3>1
    <3>3. p * (d + 1) = p * d + p
      BY <1>2
    <3>4. QED BY <3>2, <3>3
  <2>2. p * q \in Int /\ p * d \in Int
    BY <1>2
  <2>3. QED BY <1>3, <1>4, <2>1, <2>2
<1>7. d = q
  BY <1>2, <1>5, <1>6
<1>8. b = r
  BY <1>2, <1>3, <1>4, <1>7
<1>9. QED BY <1>7, <1>8 DEF a, d, b

\* The same, of a number given by its quotient and remainder.
LEMMA DivisionOf ==
  ASSUME NEW a, NEW p \in Nat, p > 0, NEW q \in Int, NEW r \in Int, 0 <= r, r < p, a = p * q + r
  PROVE  a \div p = q /\ a % p = r
BY DivisionUnique

\* A power of two is twice the one before.
LEMMA PowersOf == \A n \in Nat : n >= 1 => n - 1 \in Nat /\ 2^n = 2 * 2^(n - 1)
<1>1. SUFFICES ASSUME NEW n \in Nat, n >= 1 PROVE n - 1 \in Nat /\ 2^n = 2 * 2^(n - 1)
  OBVIOUS
<1>2. n - 1 \in Nat /\ (n - 1) + 1 = n
  BY <1>1
<1>3. 2^((n - 1) + 1) = 2 * 2^(n - 1)
  BY <1>2, PowerStep
<1>4. QED BY <1>2, <1>3

\* Masking a number that fits, or that is a multiple of the width away from one.
LEMMA MaskedValue ==
  ASSUME NEW i \in Nat, NEW f \in Nat, NEW v \in Nat, v < 2^(i + f), NEW k \in Int
  PROVE  Node(<<i, f>>, v + k * 2^(i + f)).raw = v
<1> DEFINE p == 2^(i + f)
<1>1. p \in Nat /\ p > 0
  BY PowerPositive
<1>2. Node(<<i, f>>, v + k * p).raw = (v + k * p) % p
  BY DEF Node
<1>3. v < p
  OBVIOUS
<1> HIDE DEF p
<1>4. v + k * p = p * k + v /\ p * k + v \in Int
  BY <1>1
<1>5. (p * k + v) % p = v
  BY <1>1, <1>3, DivisionUnique
<1>6. QED BY <1>2, <1>4, <1>5 DEF p

-----------------------------------------------------------------------------
(* Rounding half to even.                                                  *)

\* A number is split at any bit.
LEMMA Divides ==
  ASSUME NEW n \in Nat, NEW d \in Nat
  PROVE  \E z \in Nat, w \in Nat : w < 2^d /\ n = 2^d * z + w
<1>1. 2^d \in Nat /\ 2^d > 0
  BY PowerPositive
<1>2. n \div 2^d \in Int /\ n % 2^d \in 0 .. (2^d - 1) /\ n % 2^d = n - 2^d * (n \div 2^d) /\ n \div 2^d >= 0
  BY <1>1, Divided
<1> DEFINE z == n \div 2^d
           w == n % 2^d
           p == 2^d
<1>3. z \in Nat /\ w \in Nat /\ w < p /\ w = n - p * z /\ p \in Nat
  BY <1>1, <1>2
<1> HIDE DEF z, w, p
<1>4. n = p * z + w
  BY <1>3
<1>5. \E z0 \in Nat, w0 \in Nat : w0 < p /\ n = p * z0 + w0
  BY <1>3, <1>4
<1>6. QED BY <1>5 DEF p

\* Scaling both the number and the unit changes nothing.
LEMMA HalfEvenScaled ==
  ASSUME NEW n \in Nat, NEW d \in Nat, d >= 1, NEW k \in Nat
  PROVE  HalfEven(n * 2^k, d + k) = HalfEven(n, d)
<1>1. \E z \in Nat, w \in Nat : w < 2^d /\ n = 2^d * z + w
  BY Divides
<1>2. PICK z \in Nat, w \in Nat : w < 2^d /\ n = 2^d * z + w
  BY <1>1
<1>3. /\ 2^d \in Nat /\ 2^k \in Nat /\ 2^k > 0 /\ d - 1 \in Nat /\ 2^(d - 1) \in Nat
      /\ 2^(d + k) = 2^d * 2^k
  BY PowerPositive, PowerSum
<1>4. 2^(d + k - 1) = 2^(d - 1) * 2^k
  <2>1. d + k - 1 = (d - 1) + k
    OBVIOUS
  <2>2. 2^((d - 1) + k) = 2^(d - 1) * 2^k
    BY <1>3, PowerSum
  <2>3. QED BY <2>1, <2>2
<1>5. HalfEven(n, d) = z + (IF w > 2^(d - 1) \/ (w = 2^(d - 1) /\ z % 2 = 1) THEN 1 ELSE 0)
  <2>1. n \div 2^d = z /\ n % 2^d = w
    <3>1. 2^d > 0
      BY PowerPositive
    <3>2. QED BY <1>2, <1>3, <3>1, DivisionOf
  <2>2. QED BY <2>1 DEF HalfEven
<1> DEFINE K == 2^k
           D == 2^d
           H == 2^(d - 1)
<1> HIDE DEF K, D, H
<1>6. /\ K \in Nat /\ K > 0 /\ D \in Nat /\ H \in Nat /\ w < D /\ n = D * z + w
  BY <1>2, <1>3 DEF K, D, H
<1>7. 0 <= w * K /\ w * K < D * K /\ w * K \in Nat
  BY <1>6
<1>8. n * K = (D * K) * z + w * K
  BY <1>6
<1>9. (w * K > H * K <=> w > H) /\ (w * K = H * K <=> w = H)
  <2>1. w > H => w * K > H * K
    BY <1>6
  <2>2. w < H => w * K < H * K
    BY <1>6
  <2>3. QED BY <1>6, <2>1, <2>2
<1>10. d + k \in Nat /\ d + k >= 1
  OBVIOUS
<1>11. HalfEven(n * K, d + k)
         = z + (IF w * K > H * K \/ (w * K = H * K /\ z % 2 = 1) THEN 1 ELSE 0)
  <2>1. 2^(d + k) = D * K /\ 2^(d + k - 1) = H * K
    BY <1>3, <1>4 DEF D, H, K
  <2> DEFINE dk == d + k
             W  == w * K
             N  == n * K
  <2>2. dk \in Nat /\ dk >= 1 /\ 0 <= W /\ W < 2^dk /\ W \in Int /\ N = 2^dk * z + W
    BY <1>7, <1>8, <1>10, <2>1
  <2> HIDE DEF dk, W, N
  <2>3. HalfEven(N, dk) = z + (IF W > 2^(dk - 1) \/ (W = 2^(dk - 1) /\ z % 2 = 1) THEN 1 ELSE 0)
    <3>1. 2^dk \in Nat /\ 2^dk > 0
      BY <2>2, PowerPositive
    <3>2. N \div 2^dk = z /\ N % 2^dk = W
      BY <2>2, <3>1, DivisionOf
    <3>3. QED BY <3>2 DEF HalfEven
  <2>4. QED BY <2>1, <2>3 DEF dk, W, N
<1>12. QED BY <1>5, <1>9, <1>11 DEF K, H

\* m * 2^k rounded to an integer, half to even.
Rounded(m0, k) == IF k >= 0 THEN m0 * 2^k ELSE HalfEven(m0, -k)

\* What is less than half a unit rounds to zero.
LEMMA HalfEvenSmall ==
  ASSUME NEW n \in Nat, NEW d \in Nat, d >= 1, n < 2^(d - 1)
  PROVE  HalfEven(n, d) = 0
<1>1. d - 1 \in Nat /\ 2^(d - 1) \in Nat /\ 2^d = 2 * 2^(d - 1) /\ 2^d \in Nat /\ 2^d > 0
  BY PowersOf, PowerPositive
<1>2. n < 2^d /\ n = 2^d * 0 + n
  BY <1>1
<1>3. n \div 2^d = 0 /\ n % 2^d = n
  BY <1>1, <1>2, DivisionOf
<1>4. ~ n > 2^(d - 1) /\ n # 2^(d - 1)
  BY <1>1
<1>5. QED BY <1>3, <1>4 DEF HalfEven

\* The units nearest to a number do not depend on how long its significand is.
LEMMA UnitsOf ==
  ASSUME NEW n \in Nat, NEW k \in Int, NEW q \in Int
  PROVE  Units(Mag(n, k), q) = Rounded(n, k - q)
<1>1. Mag(n, k).m = n /\ Mag(n, k).e = k
  BY DEF Mag
<1>2. CASE k >= q
  BY <1>1, <1>2 DEF Units, Rounded
<1>3. CASE ~ k >= q
  <2>1. ~ k - q >= 0 /\ q - k = - (k - q) /\ q - k \in Nat /\ q - k >= 1
    BY <1>3
  <2>2. Rounded(n, k - q) = HalfEven(n, q - k)
    BY <2>1 DEF Rounded
  <2>3. q - k > BitLength(n) + 1 => HalfEven(n, q - k) = 0
    <3>1. SUFFICES ASSUME q - k > BitLength(n) + 1 PROVE HalfEven(n, q - k) = 0
      OBVIOUS
    <3>2. BitLength(n) \in Nat /\ n < 2^BitLength(n) /\ 2^BitLength(n) \in Nat
      BY BitLengthOf, PowerPositive
    <3> DEFINE d == q - k
    <3>3. d \in Nat /\ d >= 1 /\ d - 1 \in Nat /\ BitLength(n) <= d - 1
      BY <2>1, <3>1, <3>2
    <3>4. 2^BitLength(n) <= 2^(d - 1) /\ 2^(d - 1) \in Nat
      BY <3>2, <3>3, PowerMonotone, PowerPositive
    <3> HIDE DEF d
    <3>5. n < 2^(d - 1)
      BY <3>2, <3>4
    <3>6. HalfEven(n, d) = 0
      BY <3>3, <3>5, HalfEvenSmall
    <3>7. QED BY <3>6 DEF d
  <2>4. QED BY <1>1, <1>3, <2>2, <2>3 DEF Units
<1>4. QED BY <1>2, <1>3

\* A number rounds alike, however its significand is aligned.
LEMMA RoundedScaled ==
  ASSUME NEW n \in Nat, NEW k \in Int, NEW j \in Nat
  PROVE  Rounded(n * 2^j, k - j) = Rounded(n, k)
<1>1. 2^j \in Nat
  BY PowerPositive
<1>2. CASE k - j >= 0
  <2>1. k - j \in Nat /\ k \in Nat /\ j + (k - j) = k
    BY <1>2
  <2>2. 2^(j + (k - j)) = 2^j * 2^(k - j) /\ 2^(k - j) \in Nat
    BY <2>1, PowerSum, PowerPositive
  <2>3. n * 2^k = (n * 2^j) * 2^(k - j)
    BY <1>1, <2>1, <2>2
  <2>4. k >= 0
    BY <1>2
  <2>5. QED BY <1>2, <2>3, <2>4 DEF Rounded
<1>3. CASE k >= 0 /\ ~ k - j >= 0
  <2> DEFINE d == - (k - j)
             N == n * 2^j
             z == n * 2^k
             p == 2^d
             h == 2^(d - 1)
  <2>1. d \in Nat /\ d >= 1 /\ k \in Nat /\ k + d = j
    BY <1>3
  <2>2. 2^(k + d) = 2^k * 2^d /\ 2^k \in Nat
    BY <2>1, PowerSum, PowerPositive
  <2>3. p \in Nat /\ p > 0 /\ h \in Nat /\ h > 0
    BY <2>1, PowersOf, PowerPositive
  <2>4. N = p * z + 0 /\ z \in Nat
    <3>1. 2^j = 2^k * p
      BY <2>1, <2>2
    <3> HIDE DEF p
    <3>2. QED BY <2>2, <2>3, <3>1
  <2>5. Rounded(N, k - j) = HalfEven(N, d)
    BY <1>3 DEF Rounded
  <2> HIDE DEF d, N, z, p, h
  <2>6. N \div p = z /\ N % p = 0
    BY <2>3, <2>4, DivisionOf
  <2>7. HalfEven(N, d) = N \div p + (IF N % p > h \/ (N % p = h /\ (N \div p) % 2 = 1) THEN 1 ELSE 0)
    BY DEF HalfEven, p, h
  <2>9. HalfEven(N, d) = z
    BY <2>3, <2>4, <2>6, <2>7
  <2>8. QED BY <1>3, <2>5, <2>9 DEF Rounded, z, N
<1>4. CASE ~ k >= 0
  <2> DEFINE d == -k
  <2>1. d \in Nat /\ d >= 1 /\ d + j = - (k - j) /\ ~ k - j >= 0
    BY <1>4
  <2>2. HalfEven(n * 2^j, d + j) = HalfEven(n, d)
    BY <2>1, HalfEvenScaled
  <2>3. QED BY <1>4, <2>1, <2>2 DEF Rounded
<1>5. QED BY <1>2, <1>3, <1>4

\* A right shift whose lost bits are jammed into the low bit.
Jam(n, a) ==
  n \div 2^a + (IF n % 2^a > 0 /\ (n \div 2^a) % 2 = 0 THEN 1 ELSE 0)

\* z and w are what n leaves when the unit is 2^d.
Splits(n, d, z, w) == w < 2^d /\ n = 2^d * z + w

\* Rounding to even, by quotient and remainder.
LEMMA HalfEvenOf ==
  ASSUME NEW n, NEW d \in Nat, NEW z \in Int, NEW w \in Nat, Splits(n, d, z, w)
  PROVE  HalfEven(n, d) = z + (IF w > 2^(d - 1) \/ (w = 2^(d - 1) /\ z % 2 = 1) THEN 1 ELSE 0)
<1>1. 2^d \in Nat /\ 2^d > 0
  BY PowerPositive
<1>2. n \div 2^d = z /\ n % 2^d = w
  BY <1>1, DivisionOf DEF Splits
<1>3. QED BY <1>2 DEF HalfEven

\* A number is split at any bit, into the bits above and those below.
LEMMA SplitsAt ==
  ASSUME NEW n \in Nat, NEW d \in Nat
  PROVE  \E z \in Nat, w \in Nat : Splits(n, d, z, w)
BY Divides DEF Splits

\* Rounding what a jammed shift leaves, to two bits less at least, is rounding
\* what was shifted.
LEMMA JamRounds ==
  ASSUME NEW n \in Nat, NEW a \in Nat, NEW c \in Nat, c >= 2
  PROVE  Jam(n, a) \in Nat /\ HalfEven(Jam(n, a), c) = HalfEven(n, a + c)
<1> DEFINE A == 2^a
           C == 2^c
           h == 2^(c - 1)
           g == 2^(c - 2)
<1>1. /\ A \in Nat /\ A > 0 /\ C \in Nat /\ h \in Nat /\ g \in Nat /\ C = 2 * h /\ h = 2 * g
      /\ g > 0 /\ 2^(a + c) = A * C /\ 2^(a + c - 1) = A * h
  <2>1. c - 1 \in Nat /\ c - 2 \in Nat /\ c - 1 >= 1 /\ (c - 1) - 1 = c - 2
        /\ a + c - 1 = a + (c - 1)
    OBVIOUS
  <2>2. 2^c = 2 * 2^(c - 1) /\ 2^(c - 1) = 2 * 2^(c - 2)
    BY <2>1, PowersOf
  <2>3. 2^(a + c) = 2^a * 2^c /\ 2^(a + (c - 1)) = 2^a * 2^(c - 1)
    BY <2>1, PowerSum
  <2>4. /\ 2^a \in Nat /\ 2^a > 0 /\ 2^c \in Nat /\ 2^(c - 1) \in Nat
        /\ 2^(c - 2) \in Nat /\ 2^(c - 2) > 0
    BY <2>1, PowerPositive
  <2>5. QED BY <2>1, <2>2, <2>3, <2>4
<1>2. \E t \in Nat, rr \in Nat : Splits(n, a + c, t, rr)
  <2>1. a + c \in Nat
    OBVIOUS
  <2>2. QED BY <2>1, SplitsAt
<1>3. PICK t \in Nat, rr \in Nat : Splits(n, a + c, t, rr)
  BY <1>2
<1>4. \E u \in Nat, w \in Nat : Splits(rr, a, u, w)
  BY SplitsAt
<1>5. PICK u \in Nat, w \in Nat : Splits(rr, a, u, w)
  BY <1>4
<1>6. n = (A * C) * t + rr /\ rr < A * C /\ rr = A * u + w /\ w < A
  BY <1>1, <1>3, <1>5 DEF Splits
<1>7. HalfEven(n, a + c) = t + (IF rr > A * h \/ (rr = A * h /\ t % 2 = 1) THEN 1 ELSE 0)
  <2>1. HalfEven(n, a + c)
          = t + (IF rr > 2^(a + c - 1) \/ (rr = 2^(a + c - 1) /\ t % 2 = 1) THEN 1 ELSE 0)
    <3>1. a + c \in Nat
      OBVIOUS
    <3>2. QED BY <1>3, <3>1, HalfEvenOf
  <2>2. QED BY <1>1, <2>1
<1> DEFINE J == Jam(n, a)
           up == u + (IF w > 0 /\ u % 2 = 0 THEN 1 ELSE 0)
<1>8. J = n \div A + (IF n % A > 0 /\ (n \div A) % 2 = 0 THEN 1 ELSE 0)
  BY DEF Jam
<1>9. up < C => (J = C * t + up =>
        HalfEven(J, c) = t + (IF up > h \/ (up = h /\ t % 2 = 1) THEN 1 ELSE 0))
  <2>1. up \in Nat
    OBVIOUS
  <2> HIDE DEF up, J
  <2>2. SUFFICES ASSUME up < C, J = C * t + up
                 PROVE HalfEven(J, c) = t + (IF up > h \/ (up = h /\ t % 2 = 1) THEN 1 ELSE 0)
    OBVIOUS
  <2>3. Splits(J, c, t, up)
    BY <2>2 DEF Splits, C
  <2>4. QED BY <2>1, <2>3, HalfEvenOf DEF h
<1> HIDE DEF A, C, h, g, J
<1>10. u < C
  <2>1. ASSUME u >= C PROVE FALSE
    <3>1. A * u >= A * C
      BY <1>1, <2>1
    <3>2. QED BY <1>1, <1>6, <3>1
  <2>2. QED BY <1>1, <2>1
<1>11. n \div A = C * t + u /\ n % A = w
  <2>1. n = A * (C * t + u) + w /\ C * t + u \in Int
    BY <1>1, <1>6
  <2>2. QED BY <1>1, <1>6, <2>1, DivisionOf
<1>12. (C * t + u) % 2 = u % 2
  <2>1. u \div 2 \in Int /\ u % 2 \in 0 .. 1 /\ u = 2 * (u \div 2) + (u % 2)
    OBVIOUS
  <2> DEFINE v == u \div 2
             b == (u % 2)
  <2> HIDE DEF v, b
  <2>2. C * t + u = 2 * (h * t + v) + b /\ h * t + v \in Int /\ b \in Int /\ 0 <= b /\ b < 2
    BY <1>1, <2>1 DEF v, b
  <2>3. (C * t + u) % 2 = b
    BY <2>2, DivisionOf
  <2>4. QED BY <2>3 DEF b
<1>13. J = C * t + up
  <2>1. C * t + u \in Nat
    BY <1>1
  <2> DEFINE z == C * t + u
  <2>2. J = z + (IF w > 0 /\ u % 2 = 0 THEN 1 ELSE 0)
    BY <1>8, <1>11, <1>12
  <2>3. C * t \in Nat
    BY <1>1
  <2>4. QED BY <2>2, <2>3
<1>14. up < C /\ up \in Nat
  BY <1>1, <1>10
<1>15. (rr > A * h <=> u > h \/ (u = h /\ w > 0)) /\ (rr = A * h <=> u = h /\ w = 0)
  <2>1. ASSUME u < h PROVE rr < A * h
    <3>1. A * (u + 1) <= A * h
      BY <1>1, <2>1
    <3>2. A * (u + 1) = A * u + A
      BY <1>1
    <3>3. QED BY <1>1, <1>6, <3>1, <3>2
  <2>2. ASSUME u > h PROVE rr > A * h
    <3>1. A * (h + 1) <= A * u
      BY <1>1, <2>2
    <3>2. A * (h + 1) = A * h + A
      BY <1>1
    <3>3. QED BY <1>1, <1>6, <3>1, <3>2
  <2>3. ASSUME u = h PROVE rr = A * h + w
    BY <1>6, <2>3
  <2>4. A * h \in Nat
    BY <1>1
  <2>5. QED BY <1>1, <2>1, <2>2, <2>3, <2>4
<1>16. (up > h <=> u > h \/ (u = h /\ w > 0)) /\ (up = h <=> u = h /\ w = 0)
  <2>1. u % 2 = 0 => u # 2 * g - 1
    BY <1>1
  <2>2. (2 * g) % 2 = 0
    BY <1>1
  <2>3. h % 2 = 0
    BY <1>1, <2>2
  <2>4. QED BY <1>1, <2>1, <2>3
<1>17. HalfEven(J, c) = HalfEven(n, a + c)
  BY <1>7, <1>9, <1>13, <1>14, <1>15, <1>16
<1>18. J \in Nat
  <2>1. C * t \in Nat
    BY <1>1
  <2>2. QED BY <1>13, <1>14, <2>1
<1>19. QED BY <1>17, <1>18 DEF J

\* The bit length of a number lies between two powers of two.
LEMMA BitLengthIs ==
  ASSUME NEW v \in Nat, NEW b \in Nat, b >= 1, 2^(b - 1) <= v, v < 2^b
  PROVE  BitLength(v) = b
<1> DEFINE l == BitLength(v)
<1>1. b - 1 \in Nat /\ 2^(b - 1) \in Nat /\ 2^(b - 1) > 0 /\ 2^b \in Nat
  BY PowerPositive
<1>2. v > 0
  BY <1>1
<1>3. l \in Nat /\ l >= 1 /\ 2^(l - 1) <= v /\ v < 2^l
  BY <1>2, BitLengthOf
<1> HIDE DEF l
<1>4. l - 1 \in Nat /\ 2^(l - 1) \in Nat /\ 2^l \in Nat
  BY <1>3, PowerPositive
<1>5. ASSUME l < b PROVE FALSE
  <2>1. l <= b - 1
    BY <1>3, <1>5
  <2>2. 2^l <= 2^(b - 1)
    BY <1>1, <1>3, <2>1, PowerMonotone
  <2>3. QED BY <1>1, <1>3, <1>4, <2>2
<1>6. ASSUME b < l PROVE FALSE
  <2>1. b <= l - 1
    BY <1>3, <1>6
  <2>2. 2^b <= 2^(l - 1)
    BY <1>4, <2>1, PowerMonotone
  <2>3. QED BY <1>1, <1>3, <1>4, <2>2
<1>7. l = b
  BY <1>3, <1>5, <1>6
<1>8. QED BY <1>7 DEF l

\* A shift to the left makes a number longer by as many bits.
LEMMA BitLengthScaled ==
  ASSUME NEW v \in Nat, v > 0, NEW j \in Nat
  PROVE  v * 2^j \in Nat /\ v * 2^j > 0 /\ BitLength(v * 2^j) = BitLength(v) + j
<1> DEFINE l == BitLength(v)
<1>1. l \in Nat /\ l >= 1 /\ 2^(l - 1) <= v /\ v < 2^l
  BY BitLengthOf
<1> HIDE DEF l
<1>2. l - 1 \in Nat /\ 2^(l - 1) \in Nat /\ 2^l \in Nat /\ 2^j \in Nat /\ 2^j > 0
  BY <1>1, PowerPositive
<1>3. 2^((l - 1) + j) = 2^(l - 1) * 2^j /\ 2^(l + j) = 2^l * 2^j
  BY <1>1, <1>2, PowerSum
<1>4. (l - 1) + j = (l + j) - 1
  BY <1>1
<1> DEFINE w == v * 2^j
           b == l + j
<1>5. w \in Nat /\ w > 0
  BY <1>2
<1>6. 2^(l - 1) * 2^j <= w /\ w < 2^l * 2^j
  BY <1>1, <1>2
<1>7. b \in Nat /\ b >= 1 /\ 2^(b - 1) <= w /\ w < 2^b
  BY <1>1, <1>3, <1>4, <1>6
<1> HIDE DEF w, b
<1>8. BitLength(w) = b
  BY <1>5, <1>7, BitLengthIs
<1>9. QED BY <1>5, <1>8 DEF w, b, l

\* What rounding leaves of a number of at most b bits above the unit.
LEMMA RoundedBound ==
  ASSUME NEW n \in Nat, NEW l \in Nat, n < 2^l, NEW b \in Nat, NEW k \in Int, k <= b - l
  PROVE  Rounded(n, k) \in Nat /\ Rounded(n, k) <= 2^b
<1>1. 2^l \in Nat /\ 2^b \in Nat /\ 2^b > 0
  BY PowerPositive
<1>2. CASE k >= 0
  <2>1. k \in Nat /\ l + k \in Nat /\ l + k <= b
    BY <1>2
  <2>2. 2^k \in Nat /\ 2^k > 0 /\ 2^(l + k) = 2^l * 2^k /\ 2^(l + k) <= 2^b
    BY <2>1, PowerPositive, PowerSum, PowerMonotone
  <2>3. n * 2^k \in Nat /\ n * 2^k <= 2^l * 2^k
    BY <1>1, <2>2
  <2>4. QED BY <1>1, <1>2, <2>2, <2>3 DEF Rounded
<1>3. CASE ~ k >= 0
  <2> DEFINE d == -k
  <2>1. d \in Nat /\ d >= 1 /\ b + d \in Nat /\ l <= b + d
    BY <1>3
  <2>2. 2^d \in Nat /\ 2^d > 0 /\ 2^(b + d) = 2^b * 2^d /\ 2^l <= 2^(b + d)
    BY <2>1, PowerPositive, PowerSum, PowerMonotone
  <2>3. Rounded(n, k) = HalfEven(n, d)
    BY <1>3 DEF Rounded
  <2> HIDE DEF d
  <2>4. \E z \in Nat, w \in Nat : Splits(n, d, z, w)
    BY <2>1, SplitsAt
  <2>5. PICK z \in Nat, w \in Nat : Splits(n, d, z, w)
    BY <2>4
  <2> DEFINE D == 2^d
             B == 2^b
  <2>6. n = D * z + w /\ w < D /\ D \in Nat /\ D > 0 /\ B \in Nat /\ n < B * D
    BY <1>1, <2>2, <2>5 DEF Splits
  <2>7. HalfEven(n, d) \in {z, z + 1}
    <3>1. HalfEven(n, d) = z + (IF w > 2^(d - 1) \/ (w = 2^(d - 1) /\ z % 2 = 1) THEN 1 ELSE 0)
      BY <2>1, <2>5, HalfEvenOf
    <3>2. QED BY <3>1
  <2> HIDE DEF D, B
  <2>8. z < B
    <3>1. ASSUME z >= B PROVE FALSE
      <4>1. D * z >= D * B
        BY <2>6, <3>1
      <4>2. QED BY <2>6, <4>1
    <3>2. QED BY <2>6, <3>1
  <2>9. QED BY <2>3, <2>6, <2>7, <2>8 DEF B
<1>4. QED BY <1>2, <1>3

\* Rounding keeps the leading bit, or carries above it.
LEMMA RoundedFloor ==
  ASSUME NEW n \in Nat, NEW l \in Nat, l >= 1, 2^(l - 1) <= n, NEW b \in Nat,
         NEW k \in Int, k = b + 1 - l
  PROVE  Rounded(n, k) >= 2^b
<1>1. l - 1 \in Nat /\ 2^(l - 1) \in Nat /\ 2^b \in Nat
  BY PowerPositive
<1>2. CASE k >= 0
  <2>1. k \in Nat /\ (l - 1) + k = b
    BY <1>2
  <2>2. 2^k \in Nat /\ 2^k > 0 /\ 2^((l - 1) + k) = 2^(l - 1) * 2^k
    BY <1>1, <2>1, PowerPositive, PowerSum
  <2>3. n * 2^k >= 2^(l - 1) * 2^k
    BY <1>1, <2>2
  <2>4. QED BY <1>2, <2>1, <2>2, <2>3 DEF Rounded
<1>3. CASE ~ k >= 0
  <2> DEFINE d == -k
  <2>1. d \in Nat /\ d >= 1 /\ b + d = l - 1
    BY <1>3
  <2>2. 2^d \in Nat /\ 2^d > 0 /\ 2^(b + d) = 2^b * 2^d
    BY <2>1, PowerPositive, PowerSum
  <2>3. Rounded(n, k) = HalfEven(n, d)
    BY <1>3 DEF Rounded
  <2> HIDE DEF d
  <2>4. \E z \in Nat, w \in Nat : Splits(n, d, z, w)
    BY <2>1, SplitsAt
  <2>5. PICK z \in Nat, w \in Nat : Splits(n, d, z, w)
    BY <2>4
  <2> DEFINE D == 2^d
             B == 2^b
  <2>6. n = D * z + w /\ w < D /\ D \in Nat /\ D > 0 /\ B \in Nat /\ B * D <= n
    BY <1>1, <2>1, <2>2, <2>5 DEF Splits
  <2>7. HalfEven(n, d) \in {z, z + 1}
    <3>1. HalfEven(n, d) = z + (IF w > 2^(d - 1) \/ (w = 2^(d - 1) /\ z % 2 = 1) THEN 1 ELSE 0)
      BY <2>1, <2>5, HalfEvenOf
    <3>2. QED BY <3>1
  <2> HIDE DEF D, B
  <2>8. z >= B
    <3>1. ASSUME z < B PROVE FALSE
      <4>1. D * (z + 1) <= D * B
        BY <2>6, <3>1
      <4>2. D * (z + 1) = D * z + D
        BY <2>6
      <4>3. QED BY <2>6, <4>1, <4>2
    <3>2. QED BY <2>6, <3>1
  <2>9. QED BY <2>3, <2>6, <2>7, <2>8 DEF B
<1>4. QED BY <1>2, <1>3

-----------------------------------------------------------------------------
(* The place of a number among the numbers of a format.                    *)

\* The unit of the last place of v in a format of mb mantissa bits, counted from
\* the least one, and the place of the number nearest to v among the numbers of
\* the format: its exponent field times 2^mb plus its mantissa field.
Places(mb, bias, v) == Larger(0, Log2(v) + bias - 1)
Ordinal(mb, bias, v) ==
  Places(mb, bias, v) * 2^mb + Units(v, Places(mb, bias, v) + 1 - bias - mb)

\* What Log2, Places and Units are of n * 2^k.
Placed(mb, bias, n, k) ==
  LET p == Places(mb, bias, Mag(n, k)) IN
  /\ p \in Nat /\ Log2(Mag(n, k)) = BitLength(n) - 1 + k /\ BitLength(n) \in Nat
  /\ BitLength(n) >= 1
  /\ p >= BitLength(n) - 2 + k + bias
  /\ p = 0 \/ p = BitLength(n) - 2 + k + bias
  /\ Units(Mag(n, k), p + 1 - bias - mb) = Rounded(n, k - (p + 1 - bias - mb))

\* The unit of the last place and the number of units, of a number with n > 0.
LEMMA PlacesOf ==
  ASSUME NEW mb \in Nat, NEW bias \in Nat, NEW n \in Nat, n > 0, NEW k \in Int
  PROVE  Placed(mb, bias, n, k)
<1>1. BitLength(n) \in Nat /\ BitLength(n) >= 1
  BY BitLengthOf
<1>2. Log2(Mag(n, k)) = BitLength(n) - 1 + k
  BY DEF Log2, Mag
<1> DEFINE p == Places(mb, bias, Mag(n, k))
           a == BitLength(n) - 2 + k + bias
<1>3. p = Larger(0, BitLength(n) - 1 + k + bias - 1)
  BY <1>2 DEF Places
<1>4. a \in Int /\ BitLength(n) - 1 + k + bias - 1 = a
  BY <1>1
<1>5. p \in Nat /\ p >= a /\ (p = 0 \/ p = a)
  BY <1>3, <1>4 DEF Larger
<1> HIDE DEF p
<1>6. p + 1 - bias - mb \in Int
  BY <1>5
<1>7. Units(Mag(n, k), p + 1 - bias - mb) = Rounded(n, k - (p + 1 - bias - mb))
  <2> DEFINE q == p + 1 - bias - mb
  <2> HIDE DEF q
  <2>1. q \in Int
    BY <1>6 DEF q
  <2>2. Units(Mag(n, k), q) = Rounded(n, k - q)
    BY <2>1, UnitsOf
  <2>3. QED BY <2>2 DEF q
<1>8. QED BY <1>1, <1>2, <1>5, <1>7 DEF p, Placed

\* The fields nearest to v are quotient and remainder of its ordinal.
LEMMA NearestIs ==
  ASSUME NEW f, NEW mb \in Nat, mb = f.mantissa_bits, NEW bias \in Nat, bias = f.exponent_bias,
         NEW n \in Nat, n > 0, NEW k \in Int
  PROVE  LET v == Mag(n, k)
             r == Nearest(f, v)
         IN /\ Ordinal(mb, bias, v) = r.exponent * 2^mb + r.mantissa
            /\ r.exponent \in Nat /\ r.mantissa \in 0 .. (2^mb - 1)
            /\ r.exponent >= Log2(v) + bias /\ Log2(v) \in Int
<1> DEFINE v == Mag(n, k)
           r == Nearest(f, v)
           p == Places(mb, bias, v)
           l == BitLength(n)
           q == p + 1 - bias - mb
           N == Units(v, q)
           M == 2^mb
           carry == IF N = 2^(mb + 1) THEN 1 ELSE 0
<1>1. /\ p \in Nat /\ Log2(v) = l - 1 + k /\ l \in Nat /\ l >= 1
      /\ p >= l - 2 + k + bias /\ (p = 0 \/ p = l - 2 + k + bias)
      /\ N = Rounded(n, k - q)
  <2>1. Placed(mb, bias, n, k)
    BY PlacesOf
  <2>2. QED BY <2>1 DEF Placed
<1>2. M \in Nat /\ M > 0 /\ 2^(mb + 1) = 2 * M
  BY PowerPositive, PowerStep
<1>3. Larger(1 - bias - mb, Log2(v) - mb) = q
  <2>1. Log2(v) \in Int /\ p = Larger(0, Log2(v) + bias - 1)
    BY <1>1 DEF Places
  <2>2. QED BY <2>1 DEF Larger
<1>4. /\ r.exponent = IF N < M THEN 0 ELSE q - (1 - bias - mb) + 1 + carry
      /\ r.mantissa = N % M
  BY <1>3 DEF Nearest
<1>5. q - (1 - bias - mb) = p
  BY <1>1
<1>6. q \in Int /\ k - q \in Int /\ k - q <= (mb + 1) - l /\ (p > 0 => k - q = mb + 1 - l)
  BY <1>1
<1>7. n < 2^l /\ 2^(l - 1) <= n
  BY BitLengthOf
<1>8. N \in Nat /\ N <= 2 * M
  <2> DEFINE z == k - q
             b == mb + 1
  <2>1. z \in Int /\ z <= b - l /\ b \in Nat
    BY <1>6
  <2> HIDE DEF z, b, l
  <2>2. Rounded(n, z) \in Nat /\ Rounded(n, z) <= 2^b
    BY <1>1, <1>7, <2>1, RoundedBound
  <2>3. QED BY <1>1, <1>2, <2>2 DEF z, b
<1>9. p > 0 => N >= M
  <2> SUFFICES ASSUME p > 0 PROVE N >= M
    OBVIOUS
  <2> DEFINE z == k - q
  <2>1. z \in Int /\ z = mb + 1 - l
    BY <1>6
  <2> HIDE DEF z, l
  <2>2. Rounded(n, z) >= 2^mb
    BY <1>1, <1>7, <2>1, RoundedFloor
  <2>3. QED BY <1>1, <2>2 DEF z
<1>10. r.exponent = (IF N < M THEN 0 ELSE p + 1 + carry)
  BY <1>4, <1>5
<1>11. Ordinal(mb, bias, v) = p * M + N
  BY DEF Ordinal
<1>12. carry = IF N = 2 * M THEN 1 ELSE 0
  BY <1>2
<1>13. Log2(v) + bias <= p + 1 /\ (p = 0 => Log2(v) + bias <= 1) /\ Log2(v) \in Int
  BY <1>1
<1>a. ASSUME N < M PROVE Log2(v) + bias <= 0
  <2>1. p = 0
    BY <1>1, <1>2, <1>8, <1>9, <1>a
  <2>2. ASSUME Log2(v) + bias = 1 PROVE FALSE
    <3>1. k - q = mb + 1 - l
      BY <1>1, <2>1, <2>2
    <3> DEFINE z == k - q
    <3>2. z \in Int /\ z = mb + 1 - l
      BY <1>6, <3>1
    <3> HIDE DEF z, l
    <3>3. Rounded(n, z) >= 2^mb
      BY <1>1, <1>7, <3>2, RoundedFloor
    <3>4. N >= M
      BY <1>1, <3>3 DEF z
    <3>5. QED BY <1>2, <1>8, <1>a, <3>4
  <2>3. QED BY <1>13, <2>1, <2>2
<1> HIDE DEF v, r, p, l, q, N, M, carry
<1>14. CASE N < M
  <2>1. p = 0
    BY <1>1, <1>2, <1>8, <1>9, <1>14
  <2>2. N % M = N
    BY <1>2, <1>8, <1>14
  <2>3. Ordinal(mb, bias, v) = N /\ r.exponent = 0 /\ r.mantissa = N
    BY <1>2, <1>4, <1>8, <1>10, <1>11, <1>14, <2>1, <2>2
  <2>4. QED BY <1>2, <1>8, <1>14, <1>13, <1>a, <2>3 DEF v, r, M
<1>15. CASE N >= M /\ N # 2 * M
  <2>1. N - M \in Nat /\ N - M < M /\ N = M * 1 + (N - M)
    BY <1>2, <1>8, <1>15
  <2>2. N % M = N - M
    BY <1>2, <2>1, DivisionOf
  <2>3. r.exponent = p + 1 /\ r.mantissa = N - M
    BY <1>1, <1>2, <1>4, <1>8, <1>10, <1>12, <1>15, <2>2
  <2>4. (p + 1) * M = p * M + M
    BY <1>1, <1>2
  <2>5. p * M \in Nat
    BY <1>1, <1>2
  <2>6. Ordinal(mb, bias, v) = (p + 1) * M + (N - M)
    BY <1>2, <1>8, <1>11, <2>4, <2>5
  <2>7. QED BY <1>1, <1>2, <1>13, <2>1, <2>3, <2>6 DEF v, r, M
<1>16. CASE N = 2 * M
  <2>1. N = M * 2 + 0 /\ 0 < M
    BY <1>2, <1>16
  <2>2. N % M = 0
    BY <1>2, <2>1, DivisionOf
  <2>3. r.exponent = p + 2 /\ r.mantissa = 0
    BY <1>1, <1>2, <1>4, <1>8, <1>10, <1>12, <1>16, <2>2
  <2>4. (p + 2) * M = p * M + 2 * M
    BY <1>1, <1>2
  <2>5. p * M \in Nat
    BY <1>1, <1>2
  <2>6. Ordinal(mb, bias, v) = (p + 2) * M + 0
    BY <1>2, <1>8, <1>11, <1>16, <2>4, <2>5
  <2>7. QED BY <1>1, <1>2, <1>13, <2>3, <2>6 DEF v, r, M
<1>17. QED BY <1>2, <1>8, <1>14, <1>15, <1>16 DEF v, r, M

\* The ordinal depends on the number, not on how it is written.
LEMMA OrdinalScaled ==
  ASSUME NEW mb \in Nat, NEW bias \in Nat, NEW n \in Nat, n > 0, NEW k \in Int, NEW j \in Nat
  PROVE  Ordinal(mb, bias, Mag(n * 2^j, k - j)) = Ordinal(mb, bias, Mag(n, k))
<1> DEFINE w == n * 2^j
           i == k - j
           v == Mag(n, k)
           u == Mag(w, i)
           q == Places(mb, bias, v) + 1 - bias - mb
<1>1. w \in Nat /\ w > 0 /\ BitLength(w) = BitLength(n) + j
  BY BitLengthScaled
<1>2. i \in Int
  OBVIOUS
<1> HIDE DEF w, i
<1>3. /\ Log2(u) = BitLength(w) - 1 + i /\ BitLength(n) \in Nat /\ Places(mb, bias, v) \in Nat
      /\ Places(mb, bias, u) \in Nat
      /\ Log2(v) = BitLength(n) - 1 + k
      /\ Units(v, q) = Rounded(n, k - q)
      /\ Units(u, Places(mb, bias, u) + 1 - bias - mb) = Rounded(w, i - (Places(mb, bias, u) + 1 - bias - mb))
  <2>1. Placed(mb, bias, n, k) /\ Placed(mb, bias, w, i)
    BY <1>1, <1>2, PlacesOf
  <2>2. QED BY <2>1 DEF Placed
<1>4. Log2(u) = Log2(v)
  BY <1>1, <1>3 DEF i
<1>5. Places(mb, bias, u) = Places(mb, bias, v)
  BY <1>4 DEF Places
<1>6. Units(u, q) = Rounded(w, i - q)
  BY <1>3, <1>5
<1>7. q \in Int
  BY <1>3
<1>8. Rounded(w, i - q) = Rounded(n, k - q)
  <2> DEFINE kk == k - q
  <2>1. kk \in Int /\ i - q = kk - j
    BY <1>7 DEF i
  <2> HIDE DEF kk
  <2>2. Rounded(n * 2^j, kk - j) = Rounded(n, kk)
    BY <2>1, RoundedScaled
  <2>3. QED BY <2>1, <2>2 DEF w, kk
<1>9. Units(u, q) = Units(v, q)
  BY <1>3, <1>6, <1>8
<1>10. Ordinal(mb, bias, u) = Ordinal(mb, bias, v)
  BY <1>5, <1>9 DEF Ordinal
<1>11. QED BY <1>10 DEF w, i

\* A number rounds to a number.
LEMMA HalfEvenInt ==
  ASSUME NEW n \in Nat, NEW c \in Nat
  PROVE  HalfEven(n, c) \in Nat
<1>1. \E z \in Nat, w \in Nat : Splits(n, c, z, w)
  BY SplitsAt
<1>2. PICK z \in Nat, w \in Nat : Splits(n, c, z, w)
  BY <1>1
<1>3. HalfEven(n, c) = z + (IF w > 2^(c - 1) \/ (w = 2^(c - 1) /\ z % 2 = 1) THEN 1 ELSE 0)
  BY <1>2, HalfEvenOf
<1>4. QED BY <1>3

\* Rounding commutes with adding an even number of units.
LEMMA HalfEvenAbove ==
  ASSUME NEW n \in Nat, NEW c \in Nat, NEW y \in Int
  PROVE  HalfEven(2^c * (2 * y) + n, c) = 2 * y + HalfEven(n, c)
<1>1. \E z \in Nat, w \in Nat : Splits(n, c, z, w)
  BY SplitsAt
<1>2. PICK z \in Nat, w \in Nat : Splits(n, c, z, w)
  BY <1>1
<1> DEFINE N  == 2^c * (2 * y) + n
           zz == 2 * y + z
           C  == 2^c
<1>3. C \in Nat /\ n = C * z + w /\ w < C /\ N = C * (2 * y) + n
  BY <1>2, PowerPositive DEF Splits
<1> HIDE DEF N, C
<1>4. N = C * zz + w /\ zz \in Int
  BY <1>3
<1>5. zz % 2 = z % 2
  <2>1. z \div 2 \in Int /\ z % 2 \in 0 .. 1 /\ z = 2 * (z \div 2) + (z % 2)
    OBVIOUS
  <2> DEFINE v == z \div 2
             b == (z % 2)
  <2> HIDE DEF v, b
  <2>2. zz = 2 * (y + v) + b /\ y + v \in Int /\ b \in Int /\ 0 <= b /\ b < 2
    BY <2>1 DEF v, b
  <2> HIDE DEF zz
  <2>3. zz % 2 = b
    BY <2>2, DivisionOf
  <2>4. QED BY <2>3 DEF b
<1> HIDE DEF zz
<1>6. Splits(N, c, zz, w)
  BY <1>3, <1>4 DEF Splits, C
<1>7. HalfEven(N, c) = zz + (IF w > 2^(c - 1) \/ (w = 2^(c - 1) /\ zz % 2 = 1) THEN 1 ELSE 0)
  BY <1>4, <1>6, HalfEvenOf
<1>8. HalfEven(n, c) = z + (IF w > 2^(c - 1) \/ (w = 2^(c - 1) /\ z % 2 = 1) THEN 1 ELSE 0)
  BY <1>2, HalfEvenOf
<1>9. HalfEven(N, c) = 2 * y + HalfEven(n, c)
  BY <1>5, <1>7, <1>8 DEF zz
<1>10. QED BY <1>9 DEF N

\* The significand once it is widened by three bits and, in a subnormal, shifted.
Shifted(r, k) == IF k >= 1 THEN 8 * r ELSE Jam(8 * r, 1 - k)

\* A number written with a leading one and F fraction bits is rounded by rounding
\* what the shift of a subnormal leaves, its implicit bit dropped.
LEMMA NormalOrdinal ==
  ASSUME NEW mb \in Nat, mb >= 1, NEW bias \in Nat, NEW F \in Nat, F + 1 >= mb,
         NEW r \in Nat, 2^F <= r, r < 2^(F + 1), NEW e0 \in Int
  PROVE  /\ Shifted(r, e0) \in Nat /\ Shifted(r, e0) < 2^(F + 4)
         /\ Ordinal(mb, bias, Mag(r, e0 - bias - F))
              = Larger(e0, 0) * 2^mb + HalfEven(Shifted(r, e0) % 2^(F + 3), F + 3 - mb)
<1> DEFINE c == F + 3 - mb
           k == e0 - bias - F
           v == Mag(r, k)
           p == Places(mb, bias, v)
           M == 2^mb
           G == 2^(F + 3)
           S == Shifted(r, e0)
           u == 8 * r
<1>1. c \in Nat /\ c >= 2 /\ k \in Int /\ F + 3 \in Nat
  OBVIOUS
<1>2. /\ 2^F \in Nat /\ 2^F > 0 /\ 2^(F + 1) = 2 * 2^F /\ G = 8 * 2^F /\ 2^(F + 4) = 2 * G
  <2>1. F + 1 \in Nat /\ F + 2 \in Nat /\ (F + 1) + 1 = F + 2 /\ (F + 2) + 1 = F + 3
        /\ (F + 3) + 1 = F + 4
    OBVIOUS
  <2>2. 2^(F + 1) = 2 * 2^F /\ 2^((F + 1) + 1) = 2 * 2^(F + 1)
        /\ 2^((F + 2) + 1) = 2 * 2^(F + 2) /\ 2^((F + 3) + 1) = 2 * 2^(F + 3)
    BY <1>1, <2>1, PowerStep
  <2>3. 2^F \in Nat /\ 2^F > 0
    BY PowerPositive
  <2>4. QED BY <2>1, <2>2, <2>3
<1>3. BitLength(r) = F + 1
  <2>1. F + 1 \in Nat /\ F + 1 >= 1 /\ (F + 1) - 1 = F
    OBVIOUS
  <2> DEFINE b == F + 1
  <2>2. b \in Nat /\ b >= 1 /\ 2^(b - 1) <= r /\ r < 2^b
    BY <2>1
  <2> HIDE DEF b
  <2>3. BitLength(r) = b
    BY <2>2, BitLengthIs
  <2>4. QED BY <2>3 DEF b
<1>4. r > 0
  BY <1>2
<1>5. /\ p \in Nat /\ Log2(v) = e0 - bias
      /\ Units(v, p + 1 - bias - mb) = Rounded(r, k - (p + 1 - bias - mb))
  <2>1. Placed(mb, bias, r, k)
    BY <1>1, <1>4, PlacesOf
  <2>2. QED BY <1>3, <2>1 DEF Placed
<1>6. p = Larger(0, e0 - 1)
  <2>1. e0 - bias + bias - 1 = e0 - 1
    OBVIOUS
  <2>2. QED BY <1>5, <2>1 DEF Places
<1>7. Ordinal(mb, bias, v) = p * M + Rounded(r, k - (p + 1 - bias - mb))
  BY <1>5 DEF Ordinal
<1>8. M \in Nat /\ M > 0 /\ G = 2^c * M /\ 2^c \in Nat
  <2>1. c + mb = F + 3
    OBVIOUS
  <2>2. 2^(c + mb) = 2^c * 2^mb
    BY <1>1, PowerSum
  <2>3. QED BY <1>1, <2>1, <2>2, PowerPositive
<1>9. mb - 1 \in Nat /\ M = 2 * 2^(mb - 1) /\ 2^(mb - 1) \in Nat
  BY PowersOf, PowerPositive
<1>10. ASSUME NEW j \in Int PROVE Rounded(r, j) = Rounded(u, j - 3)
  <2>1. 3 \in Nat /\ 2^3 = 8
    OBVIOUS
  <2>2. Rounded(r * 2^3, j - 3) = Rounded(r, j)
    BY <1>10, <2>1, RoundedScaled
  <2>3. r * 2^3 = u
    BY <2>1
  <2>4. QED BY <2>2, <2>3
<1>11. CASE e0 >= 1
  <2>1. p = e0 - 1 /\ Larger(e0, 0) = e0 /\ S = u
    BY <1>6, <1>11 DEF Larger, Shifted
  <2>2. k - (p + 1 - bias - mb) = mb - F /\ mb - F - 3 = -c /\ mb - F \in Int
    BY <2>1
  <2>3. Rounded(r, mb - F) = HalfEven(u, c)
    <3>1. Rounded(r, mb - F) = Rounded(u, -c)
      BY <1>10, <2>2
    <3>2. ~ -c >= 0 /\ - (-c) = c
      BY <1>1
    <3>3. QED BY <3>1, <3>2 DEF Rounded
  <2>4. Ordinal(mb, bias, v) = (e0 - 1) * M + HalfEven(u, c)
    BY <1>7, <2>1, <2>2, <2>3
  <2> DEFINE D == u - G
  <2>5. D \in Nat /\ D < G /\ u = G * 1 + D /\ G \in Nat /\ G > 0
    BY <1>2
  <2> HIDE DEF D, G
  <2>6. u % G = D
    BY <2>5, DivisionOf
  <2>7. HalfEven(u, c) = M + HalfEven(D, c)
    <3> DEFINE y == 2^(mb - 1)
               C == 2^c
    <3>1. u = C * (2 * y) + D
      <4>1. u = G + D /\ G = C * M /\ M = 2 * y
        BY <1>8, <1>9, <2>5
      <4>2. QED BY <4>1
    <3>2. HalfEven(2^c * (2 * y) + D, c) = 2 * y + HalfEven(D, c)
      BY <1>1, <1>9, <2>5, HalfEvenAbove
    <3>3. QED BY <1>9, <3>1, <3>2
  <2>8. HalfEven(D, c) \in Int
    BY <1>1, <2>5, HalfEvenInt
  <2>9. Ordinal(mb, bias, v) = e0 * M + HalfEven(D, c)
    <3>1. (e0 - 1) * M = e0 * M - M /\ e0 * M \in Int
      BY <1>8
    <3>2. QED BY <1>8, <2>4, <2>7, <2>8, <3>1
  <2>10. S \in Nat /\ S < 2 * G
    BY <2>1, <2>5
  <2>11. QED BY <1>2, <2>1, <2>6, <2>9, <2>10 DEF G
<1>12. CASE ~ e0 >= 1
  <2> DEFINE a == 1 - e0
  <2>1. p = 0 /\ Larger(e0, 0) = 0 /\ S = Jam(u, a) /\ a \in Nat /\ a >= 1
    BY <1>6, <1>12 DEF Larger, Shifted
  <2>2. k - (p + 1 - bias - mb) = e0 - 1 + mb - F /\ e0 - 1 + mb - F - 3 = - (a + c)
        /\ e0 - 1 + mb - F \in Int
    BY <2>1
  <2>3. Rounded(r, e0 - 1 + mb - F) = HalfEven(u, a + c)
    <3>1. Rounded(r, e0 - 1 + mb - F) = Rounded(u, - (a + c))
      BY <1>10, <2>2
    <3>2. ~ - (a + c) >= 0 /\ - (- (a + c)) = a + c
      BY <1>1, <2>1
    <3>3. QED BY <3>1, <3>2 DEF Rounded
  <2>4. u \in Nat /\ u < 2 * G /\ G \in Nat /\ G > 0
    BY <1>2
  <2> HIDE DEF a, c, u
  <2>5. S \in Nat /\ HalfEven(S, c) = HalfEven(u, a + c)
    BY <1>1, <2>1, <2>4, JamRounds
  <2>6. Ordinal(mb, bias, v) = HalfEven(S, c)
    <3>1. p * M = 0
      BY <1>8, <2>1
    <3>2. HalfEven(S, c) \in Int
      BY <1>1, <2>5, HalfEvenInt
    <3>3. QED BY <1>7, <2>2, <2>3, <2>5, <3>1, <3>2
  <2>7. S < G
    <3> DEFINE A == 2^a
               z == u \div A
               w == (u % A)
    <3>1. A \in Nat /\ A >= 2
      <4>1. 2^1 = 2 /\ 1 <= a
        BY <2>1, SMTT(30)
      <4>2. 1 \in Nat /\ a \in Nat
        BY <2>1
      <4>3. A \in Nat /\ 2^1 <= A
        BY <4>1, <4>2, PowerPositive, PowerMonotone
      <4>4. QED BY <4>1, <4>3
    <3>2. S = z + (IF w > 0 /\ z % 2 = 0 THEN 1 ELSE 0)
      BY <2>1 DEF Jam
    <3> HIDE DEF A
    <3>3. z \in Int /\ z >= 0 /\ w \in 0 .. (A - 1) /\ w = u - A * z
      BY <2>4, <3>1, Divided
    <3> HIDE DEF z, w
    <3>4. 2 * z <= A * z
      BY <3>1, <3>3
    <3>5. 2 * z <= u
      <4>1. A * z \in Int
        BY <3>1, <3>3
      <4>2. QED BY <2>4, <3>3, <3>4, <4>1
    <3>6. z < G
      BY <2>4, <3>3, <3>5
    <3>7. G % 2 = 0
      BY <1>2
    <3>8. z % 2 = 0 => z # G - 1
      BY <2>4, <3>3, <3>7
    <3>9. QED BY <2>4, <3>2, <3>3, <3>6, <3>8
  <2> HIDE DEF G
  <2>8. S % G = S
    BY <2>4, <2>5, <2>7
  <2>9. 0 * M = 0 /\ HalfEven(S, c) = 0 + HalfEven(S, c)
    <3>1. HalfEven(S, c) \in Int
      BY <1>1, <2>5, HalfEvenInt
    <3>2. QED BY <1>8, <3>1
  <2>10. QED BY <1>2, <2>1, <2>4, <2>5, <2>6, <2>7, <2>8, <2>9 DEF G, c
<1>13. QED BY <1>11, <1>12

-----------------------------------------------------------------------------
(* The numbers nodes hold.                                                 *)

\* x is a Q node of i integer bits that holds v.
Holds(x0, i, v) ==
  /\ Typed(x0, i, 0) /\ i \in Nat /\ i >= 1
  /\ v \in Int /\ -2^(i - 1) <= v /\ v < 2^(i - 1)
  /\ x0.raw = IF v < 0 THEN v + 2^i ELSE v

\* A node of i bits holds every number of i bits, whatever the bits cut off.
LEMMA HoldsNode ==
  ASSUME NEW i \in Nat, i >= 1, NEW v \in Int, -2^(i - 1) <= v, v < 2^(i - 1), NEW k \in Int
  PROVE  Holds(Node(<<i, 0>>, v + k * 2^i), i, v)
<1> DEFINE p == 2^i
           h == 2^(i - 1)
<1>1. p = 2 * h /\ h \in Nat /\ h > 0 /\ i - 1 \in Nat /\ i + 0 = i /\ 0 \in Nat
  BY PowersOf, PowerPositive
<1>2. Typed(Node(<<i, 0>>, v + k * p), i, 0)
  <2>1. v + k * p \in Int
    BY <1>1
  <2>2. QED BY <1>1, <2>1, NodeTyped
<1>3. CASE v >= 0
  <2>1. v \in Nat /\ v < 2^(i + 0)
    BY <1>1, <1>3
  <2>2. Node(<<i, 0>>, v + k * 2^(i + 0)).raw = v
    BY <1>1, <2>1, MaskedValue
  <2>3. QED BY <1>1, <1>2, <1>3, <2>2 DEF Holds
<1>4. CASE v < 0
  <2> DEFINE u == v + p
             j == k - 1
  <2>1. u \in Nat /\ u < p /\ j \in Int
    BY <1>1, <1>4
  <2>2. u < 2^(i + 0)
    BY <1>1, <2>1
  <2>3. v + k * p = u + j * p
    BY <1>1
  <2> HIDE DEF u, j
  <2>4. Node(<<i, 0>>, u + j * 2^(i + 0)).raw = u
    BY <1>1, <2>1, <2>2, MaskedValue
  <2>5. Node(<<i, 0>>, v + k * p).raw = u
    BY <1>1, <2>3, <2>4
  <2>6. QED BY <1>1, <1>2, <1>4, <2>5 DEF Holds, u
<1>5. QED BY <1>3, <1>4

\* What a signed node holds is what the code reads out of it.
LEMMA ScaledHolds ==
  ASSUME NEW x0
  PROVE  /\ \A i, v : Holds(x0, i, v) => scaled_integer(x0) = v
         /\ IsNode(x0) /\ x0.int >= 1 /\ x0.frac = 0 => Holds(x0, x0.int, scaled_integer(x0))
<1>1. ASSUME NEW i, NEW v, Holds(x0, i, v) PROVE scaled_integer(x0) = v
  <2>1. total_bits(x0) = i /\ i \in Nat /\ i >= 1 /\ v \in Int
    BY <1>1, NodeFields DEF Holds, Typed
  <2>2. 2^i = 2 * 2^(i - 1) /\ i - 1 \in Nat /\ 2^(i - 1) \in Nat
    BY <2>1, PowersOf, PowerPositive
  <2> DEFINE h == 2^(i - 1)
  <2>3. /\ scaled_integer(x0) = IF x0.raw >= h THEN x0.raw - 2 * h ELSE x0.raw
        /\ x0.raw = IF v < 0 THEN v + 2 * h ELSE v
        /\ -h <= v /\ v < h /\ h \in Nat
    BY <1>1, <2>1, <2>2 DEF scaled_integer, Holds
  <2> HIDE DEF h
  <2>4. QED BY <2>1, <2>3
<1>2. ASSUME IsNode(x0), x0.int >= 1, x0.frac = 0 PROVE Holds(x0, x0.int, scaled_integer(x0))
  <2> DEFINE i == x0.int
             h == 2^(i - 1)
             v == scaled_integer(x0)
  <2>1. /\ i \in Nat /\ i >= 1 /\ x0.raw \in Nat /\ total_bits(x0) = i /\ x0.raw < 2^i
        /\ Typed(x0, i, 0)
    BY <1>2, NodeFields DEF Typed
  <2>2. 2^i = 2 * h /\ h \in Nat
    BY <2>1, PowersOf, PowerPositive
  <2>3. v = IF x0.raw >= h THEN x0.raw - 2 * h ELSE x0.raw
    BY <2>1, <2>2 DEF scaled_integer
  <2> HIDE DEF i, v, h
  <2>4. v \in Int /\ -h <= v /\ v < h /\ x0.raw = IF v < 0 THEN v + 2 * h ELSE v
    BY <2>1, <2>2, <2>3
  <2>5. Holds(x0, i, v)
    BY <2>1, <2>2, <2>4 DEF Holds, h
  <2>6. QED BY <2>5 DEF i, v
<1>3. QED BY <1>1, <1>2

\* The sign bit of a node tells whether its number is negative.
LEMMA SignBit ==
  ASSUME NEW x0, NEW i, NEW v, Holds(x0, i, v)
  PROVE  q_sign_bit(x0) = Node(Bit, IF v < 0 THEN 1 ELSE 0)
<1> DEFINE h == 2^(i - 1)
<1>1. /\ total_bits(x0) = i /\ i \in Nat /\ i >= 1 /\ v \in Int
      /\ x0.raw = IF v < 0 THEN v + 2^i ELSE v
      /\ -h <= v /\ v < h
  BY NodeFields DEF Holds, Typed
<1>2. 2^i = 2 * h /\ h \in Nat /\ h > 0 /\ i - 1 \in Nat
  BY <1>1, PowersOf, PowerPositive
<1>3. q_sign_bit(x0) = Node(Bit, (x0.raw \div h) % 2^((i - 1) - (i - 1) + 1))
  BY <1>1 DEF q_sign_bit, basic_select
<1>4. (i - 1) - (i - 1) + 1 = 1 /\ 2^1 = 2
  BY <1>1
<1> HIDE DEF h
<1>5. x0.raw \div h = IF v < 0 THEN 1 ELSE 0
  <2>1. CASE v < 0
    <3>1. x0.raw = h * 1 + (v + h) /\ 0 <= v + h /\ v + h < h /\ v + h \in Int
      BY <1>1, <1>2, <2>1
    <3> DEFINE w == v + h
               r == x0.raw
    <3>2. w \in Int /\ 0 <= w /\ w < h /\ r = h * 1 + w
      BY <3>1
    <3> HIDE DEF w, r
    <3>3. r \div h = 1
      BY <1>2, <3>2, DivisionOf
    <3>4. QED BY <2>1, <3>3 DEF r
  <2>2. CASE ~ v < 0
    <3> DEFINE r == x0.raw
    <3>1. r = h * 0 + v /\ 0 <= v /\ v < h
      BY <1>1, <1>2, <2>2
    <3> HIDE DEF r
    <3>2. r \div h = 0
      BY <1>1, <1>2, <3>1, DivisionOf
    <3>3. QED BY <2>2, <3>2 DEF r
  <2>3. QED BY <2>1, <2>2
<1>6. (IF v < 0 THEN 1 ELSE 0) % 2 = IF v < 0 THEN 1 ELSE 0
  OBVIOUS
<1>7. QED BY <1>3, <1>4, <1>5, <1>6

\* A longer node holds what a shorter one does.
LEMMA WiderHolds ==
  ASSUME NEW i \in Nat, i >= 1, NEW j \in Nat, i <= j, NEW v \in Int, -2^(i - 1) <= v, v < 2^(i - 1)
  PROVE  -2^(j - 1) <= v /\ v < 2^(j - 1)
<1>1. i - 1 \in Nat /\ j - 1 \in Nat /\ i - 1 <= j - 1
  OBVIOUS
<1>2. 2^(i - 1) <= 2^(j - 1) /\ 2^(i - 1) \in Nat /\ 2^(j - 1) \in Nat
  BY <1>1, PowerMonotone, PowerPositive
<1>3. QED BY <1>2

\* Extending the sign keeps the number.
LEMMA ExtendHolds ==
  ASSUME NEW x0, NEW i, NEW v, Holds(x0, i, v), NEW n \in Nat
  PROVE  Holds(q_sign_extend(x0, n), i + n, v)
<1>1. /\ total_bits(x0) = i /\ x0.int = i /\ x0.frac = 0 /\ i \in Nat /\ i >= 1 /\ v \in Int
      /\ x0.raw = IF v < 0 THEN v + 2^i ELSE v
      /\ -2^(i - 1) <= v /\ v < 2^(i - 1)
  BY NodeFields DEF Holds, Typed
<1> DEFINE b == IF v < 0 THEN 1 ELSE 0
           w == x0.raw + b * (2^n - 1) * 2^i
           j == i + n
<1>2. q_sign_bit(x0).raw = b
  BY SignBit, BitOf
<1>3. q_sign_extend(x0, n) = Node(<<j, 0>>, w)
  BY <1>1, <1>2 DEF q_sign_extend
<1>4. 2^j = 2^i * 2^n /\ 2^i \in Nat /\ 2^n \in Nat
  BY <1>1, PowerSum, PowerPositive
<1>5. j \in Nat /\ j >= 1 /\ i <= j
  BY <1>1
<1>6. w = v + b * 2^j
  <2>1. CASE v < 0
    <3> DEFINE P == 2^i
               Q == 2^n
    <3>1. w = v + P + 1 * (Q - 1) * P /\ P \in Nat /\ Q \in Nat
      BY <1>1, <1>4, <2>1
    <3>2. 2^j = P * Q /\ b = 1
      BY <1>4, <2>1
    <3> HIDE DEF P, Q, w
    <3>3. 1 * (Q - 1) * P = P * Q - P
      BY <3>1
    <3>4. QED BY <1>1, <3>1, <3>2, <3>3
  <2>2. CASE ~ v < 0
    <3>1. b = 0 /\ w = v + 0 * (2^n - 1) * 2^i
      BY <1>1, <2>2
    <3>2. 0 * (2^n - 1) * 2^i = 0 /\ 0 * 2^j = 0
      BY <1>4
    <3>3. QED BY <1>1, <3>1, <3>2
  <2>3. QED BY <2>1, <2>2
<1>7. b \in Int
  OBVIOUS
<1> HIDE DEF j, b, w
<1>8. -2^(j - 1) <= v /\ v < 2^(j - 1)
  BY <1>1, <1>5, WiderHolds
<1>9. Holds(Node(<<j, 0>>, v + b * 2^j), j, v)
  BY <1>1, <1>5, <1>7, <1>8, HoldsNode
<1>10. QED BY <1>3, <1>6, <1>9 DEF j

\* Aligning to a wider type keeps the number.
LEMMA AlignHolds ==
  ASSUME NEW x0, NEW i, NEW v, Holds(x0, i, v), NEW j \in Nat, i <= j
  PROVE  Holds(q_align(x0, j, 0), j, v)
<1>1. x0.int = i /\ x0.frac = 0 /\ i \in Nat
  BY DEF Holds, Typed
<1> DEFINE n == j - i
<1>2. n \in Nat /\ i + n = j
  BY <1>1
<1>3. q_align(x0, j, 0) = q_sign_extend(x0, n)
  BY <1>1 DEF q_align
<1> HIDE DEF n
<1>4. Holds(q_sign_extend(x0, n), i + n, v)
  BY <1>2, ExtendHolds
<1>5. QED BY <1>2, <1>3, <1>4

\* Sums and differences get one bit more, and never overflow.
LEMMA AddHolds ==
  ASSUME NEW x0, NEW i, NEW a, Holds(x0, i, a), NEW y, NEW j, NEW b, Holds(y, j, b)
  PROVE  /\ Holds(q_add(x0, y), Larger(i, j) + 1, a + b)
         /\ Holds(q_sub(x0, y), Larger(i, j) + 1, a - b)
<1> DEFINE l == Larger(i, j)
           w == l + 1
           p == 2^w
           h == 2^l
<1>1. /\ x0.int = i /\ x0.frac = 0 /\ i \in Nat /\ i >= 1 /\ a \in Int /\ -2^(i - 1) <= a /\ a < 2^(i - 1)
      /\ y.int = j /\ y.frac = 0 /\ j \in Nat /\ j >= 1 /\ b \in Int /\ -2^(j - 1) <= b /\ b < 2^(j - 1)
  BY DEF Holds, Typed
<1>2. l \in Nat /\ l >= 1 /\ l >= i /\ l >= j
  BY <1>1, LargerNat
<1>3. w \in Nat /\ w >= 1 /\ i <= w /\ j <= w /\ w - 1 = l
  BY <1>1, <1>2
<1>4. Holds(q_align(x0, w, 0), w, a) /\ Holds(q_align(y, w, 0), w, b)
  BY <1>3, AlignHolds
<1> DEFINE r == q_align(x0, w, 0).raw
           t == q_align(y, w, 0).raw
           ka == IF a < 0 THEN 1 ELSE 0
           kb == IF b < 0 THEN 1 ELSE 0
<1>5. r = a + ka * p /\ t = b + kb * p
  <2>1. p \in Int
    BY <1>3, PowerPositive
  <2>2. r = (IF a < 0 THEN a + p ELSE a) /\ t = (IF b < 0 THEN b + p ELSE b)
    BY <1>4 DEF Holds
  <2>3. QED BY <1>1, <2>1, <2>2
<1>6. Larger(x0.frac, y.frac) = 0
  BY <1>1 DEF Larger
<1>7. q_add(x0, y) = Node(<<w, 0>>, r + t) /\ q_sub(x0, y) = Node(<<w, 0>>, r - t)
  BY <1>1, <1>6 DEF q_add, q_sub, basic_add, basic_sub
<1>8. p = 2 * h /\ h \in Nat /\ -2^(w - 1) <= a + b /\ a + b < 2^(w - 1)
      /\ -2^(w - 1) <= a - b /\ a - b < 2^(w - 1)
  <2>1. -2^(l - 1) <= a /\ a < 2^(l - 1) /\ -2^(l - 1) <= b /\ b < 2^(l - 1)
    <3> HIDE DEF l
    <3>1. QED BY <1>1, <1>2, WiderHolds
  <2>2. h = 2 * 2^(l - 1) /\ 2^(l - 1) \in Nat /\ h \in Nat /\ p = 2 * h
    BY <1>2, PowersOf, PowerPositive, PowerStep
  <2>3. QED BY <1>1, <1>3, <2>1, <2>2
<1> DEFINE kp == ka + kb
           km == ka - kb
<1>9. r + t = a + b + kp * p /\ r - t = a - b + km * p
  <2>1. p \in Int /\ ka \in Int /\ kb \in Int
    BY <1>3, PowerPositive
  <2> HIDE DEF p, ka, kb, r, t
  <2>2. (ka + kb) * p = ka * p + kb * p /\ (ka - kb) * p = ka * p - kb * p
    BY <2>1
  <2>3. ka * p \in Int /\ kb * p \in Int
    BY <2>1
  <2>4. QED BY <1>1, <1>5, <2>2, <2>3
<1>10. kp \in Int /\ km \in Int /\ a + b \in Int /\ a - b \in Int
  BY <1>1
<1> DEFINE u == a + b
           v == a - b
<1> HIDE DEF w, kp, km, u, v
<1>11. Holds(Node(<<w, 0>>, u + kp * 2^w), w, u)
  BY <1>3, <1>8, <1>10, HoldsNode DEF u
<1>12. Holds(Node(<<w, 0>>, v + km * 2^w), w, v)
  BY <1>3, <1>8, <1>10, HoldsNode DEF v
<1>13. QED BY <1>7, <1>9, <1>11, <1>12 DEF w, u, v

\* A node of an unsigned type keeps a number that fits it.
LEMMA MaskedFits ==
  ASSUME NEW i \in Nat, NEW f \in Nat, NEW v \in Nat, v < 2^(i + f)
  PROVE  Typed(Node(<<i, f>>, v), i, f) /\ Node(<<i, f>>, v).raw = v
<1>1. 2^(i + f) \in Nat
  BY PowerPositive
<1>2. v \in 0 .. (2^(i + f) - 1)
  BY <1>1
<1>3. QED BY <1>2, MaskedNode, NodeTyped

\* A constant is the number it is made of, in as few bits as hold it.
LEMMA ConstantRaw ==
  ASSUME NEW v \in Nat
  PROVE  UQ_from_int(v).raw = v /\ Typed(UQ_from_int(v), Larger(1, BitLength(v)), 0)
<1> DEFINE i == Larger(1, BitLength(v))
<1>1. BitLength(v) \in Nat /\ i \in Nat /\ BitLength(v) <= i /\ v < 2^BitLength(v)
  BY BitLengthOf DEF Larger
<1>2. 2^BitLength(v) <= 2^i /\ 2^BitLength(v) \in Nat /\ 2^i \in Nat
  BY <1>1, PowerMonotone, PowerPositive
<1>3. i + 0 = i /\ v < 2^i
  BY <1>1, <1>2
<1> HIDE DEF i
<1>4. v < 2^(i + 0)
  BY <1>3
<1>5. Typed(Node(<<i, 0>>, v), i, 0) /\ Node(<<i, 0>>, v).raw = v
  BY <1>1, <1>4, MaskedFits
<1>6. QED BY <1>5 DEF UQ_from_int, i

\* A signed constant is the number it is made of.
LEMMA ConstantHolds ==
  ASSUME NEW v \in Int
  PROVE  \E i \in Nat : i >= 2 /\ Holds(Q_from_int(v), i, v)
<1> DEFINE w == IF v < 0 THEN -v - 1 ELSE v
           l == BitLength(w)
           i == Larger(2, 1 + l)
<1>1. w \in Nat /\ l \in Nat /\ w < 2^l
  BY BitLengthOf
<1>2. i \in Nat /\ i >= 2 /\ l <= i - 1 /\ i - 1 \in Nat
  BY <1>1 DEF Larger
<1>3. 2^l <= 2^(i - 1) /\ 2^l \in Nat /\ 2^(i - 1) \in Nat /\ 2^i \in Nat
  BY <1>1, <1>2, PowerMonotone, PowerPositive
<1>4. -2^(i - 1) <= v /\ v < 2^(i - 1)
  BY <1>1, <1>3
<1>5. Q_from_int(v) = Node(<<i, 0>>, v)
  BY DEF Q_from_int
<1> HIDE DEF i
<1>6. v + 0 * 2^i = v /\ i >= 1 /\ 0 \in Int
  BY <1>2, <1>3
<1>7. Holds(Node(<<i, 0>>, v + 0 * 2^i), i, v)
  BY <1>2, <1>4, <1>6, HoldsNode
<1>8. Holds(Q_from_int(v), i, v)
  BY <1>5, <1>6, <1>7
<1>9. QED BY <1>2, <1>8

\* An unsigned integer gets a bit for its sign.
LEMMA ToSigned ==
  ASSUME NEW x0, IsNode(x0), x0.frac = 0
  PROVE  Holds(uq_to_q(x0), x0.int + 1, x0.raw)
<1> DEFINE i == x0.int + 1
           v == x0.raw
<1>1. x0.int \in Nat /\ v \in Nat /\ v < 2^x0.int /\ i \in Nat /\ i >= 1 /\ i - 1 = x0.int
      /\ 2^x0.int \in Nat
  <2>1. x0.int + 0 = x0.int
    BY NodeFields
  <2>2. QED BY <2>1, NodeFields
<1>2. -2^(i - 1) <= v /\ v < 2^(i - 1) /\ v \in Int
  BY <1>1
<1>3. uq_to_q(x0) = Node(<<i, 0>>, v)
  BY DEF uq_to_q, basic_identity
<1>4. 2^i \in Nat
  BY <1>1, PowerPositive
<1>5. v + 0 * 2^i = v /\ 0 \in Int
  BY <1>1, <1>4
<1> HIDE DEF i, v
<1>6. Holds(Node(<<i, 0>>, v + 0 * 2^i), i, v)
  BY <1>1, <1>2, <1>5, HoldsNode
<1>7. Holds(uq_to_q(x0), i, v)
  BY <1>3, <1>5, <1>6
<1>8. QED BY <1>7 DEF i, v

\* A signed number that is not negative loses the bit of its sign.
LEMMA ToUnsigned ==
  ASSUME NEW x0, NEW i, NEW v, Holds(x0, i, v), v >= 0
  PROVE  Typed(q_to_uq(x0), i - 1, 0) /\ q_to_uq(x0).raw = v
<1>1. /\ x0.int = i /\ x0.frac = 0 /\ i \in Nat /\ i >= 1 /\ v \in Int /\ v < 2^(i - 1)
      /\ x0.raw = v
  BY DEF Holds, Typed
<1> DEFINE j == i - 1
<1>2. j \in Nat /\ v \in Nat /\ j + 0 = j /\ v < 2^j
  BY <1>1
<1>3. q_to_uq(x0) = Node(<<j, 0>>, v)
  BY <1>1 DEF q_to_uq, basic_identity
<1> HIDE DEF j
<1>4. v < 2^(j + 0)
  BY <1>2
<1>5. Typed(Node(<<j, 0>>, v), j, 0) /\ Node(<<j, 0>>, v).raw = v
  BY <1>2, <1>4, MaskedFits
<1>6. QED BY <1>3, <1>5 DEF j

\* The absolute value.
Absolute(v) == IF v < 0 THEN -v ELSE v

\* q_abs is the absolute value of every number but the least one.
LEMMA AbsHolds ==
  ASSUME NEW x0, NEW i, NEW v, Holds(x0, i, v), -2^(i - 1) < v
  PROVE  Holds(q_abs(x0), i, Absolute(v))
<1> DEFINE h == 2^(i - 1)
           p == 2^i
<1>1. /\ x0.int = i /\ x0.frac = 0 /\ i \in Nat /\ i >= 1 /\ v \in Int /\ v < h /\ -h < v
      /\ total_bits(x0) = i /\ IsNode(x0)
      /\ x0.raw = IF v < 0 THEN v + p ELSE v
  BY NodeFields DEF Holds, Typed
<1>2. p = 2 * h /\ h \in Nat /\ h > 0 /\ i + 0 = i
  BY <1>1, PowersOf, PowerPositive
<1>3. q_sign_bit(x0).raw = IF v < 0 THEN 1 ELSE 0
  BY SignBit, BitOf
<1>4. q_abs(x0) = Node(<<i, 0>>, IF v < 0 THEN q_neg(x0).raw ELSE x0.raw)
  BY <1>1, <1>3 DEF q_abs, q_add_sign, basic_mux_2_1, dtype
<1>5. CASE v >= 0
  <2>1. q_abs(x0) = Node(<<i, 0>>, v) /\ v + 0 * p = v /\ 0 \in Int /\ -h <= v
    BY <1>1, <1>2, <1>4, <1>5
  <2>2. Holds(Node(<<i, 0>>, v + 0 * 2^i), i, v)
    BY <1>1, <2>1, HoldsNode
  <2>3. Holds(q_abs(x0), i, v)
    BY <2>1, <2>2
  <2>4. Absolute(v) = v
    BY <1>1, <1>5 DEF Absolute
  <2>5. QED BY <2>3, <2>4
<1>6. CASE v < 0
  <2>1. x0.raw = v + p /\ x0.raw # h
    BY <1>1, <1>2, <1>6
  <2>2. q_neg(x0) = Node(<<i, 0>>, basic_invert(x0, <<i, 0>>).raw + UQ_from_int(1).raw)
    BY <1>1, <2>1 DEF q_neg, basic_add, dtype
  <2>3. UQ_from_int(1).raw = 1
    BY ConstantRaw
  <2>4. basic_invert(x0, <<i, 0>>).raw = -v - 1
    <3> DEFINE u == -v - 1
    <3>1. basic_invert(x0, <<i, 0>>) = Node(<<i, 0>>, u)
      <4>1. (2^i - 1) - x0.raw = u
        BY <1>1, <1>2, <2>1
      <4>2. QED BY <1>1, <4>1 DEF basic_invert
    <3>2. u \in Nat /\ u < 2^(i + 0)
      BY <1>1, <1>2, <1>6
    <3> HIDE DEF u
    <3>3. Node(<<i, 0>>, u).raw = u
      BY <1>1, <3>2, MaskedFits
    <3>4. QED BY <3>1, <3>3 DEF u
  <2> DEFINE w == -v
  <2>5. w \in Nat /\ w < 2^(i + 0) /\ w < h /\ -h <= w /\ w + 0 * 2^i = w /\ w \in Int
    BY <1>1, <1>2, <1>6
  <2>6. q_neg(x0) = Node(<<i, 0>>, w)
    <3>1. -v - 1 + 1 = w
      BY <1>1
    <3>2. QED BY <2>2, <2>3, <2>4, <3>1
  <2> HIDE DEF w
  <2>7. q_neg(x0).raw = w
    BY <1>1, <2>5, <2>6, MaskedFits
  <2>8. q_abs(x0) = Node(<<i, 0>>, w)
    BY <1>4, <1>6, <2>7
  <2>9. Holds(Node(<<i, 0>>, w + 0 * 2^i), i, w)
    <3>1. -2^(i - 1) <= w /\ w < 2^(i - 1) /\ w \in Int /\ 0 \in Int
      BY <2>5
    <3>2. QED BY <1>1, <3>1, HoldsNode
  <2>10. Holds(q_abs(x0), i, w)
    BY <2>5, <2>8, <2>9
  <2>11. QED BY <1>6, <2>10 DEF w, Absolute
<1>7. QED BY <1>1, <1>5, <1>6

\* A left shift that loses nothing.
LEMMA LeftShift ==
  ASSUME NEW x0, x0.raw \in Nat, NEW k, k.raw \in Nat, NEW i \in Nat, NEW f \in Nat,
         x0.raw * 2^k.raw < 2^(i + f)
  PROVE  /\ Typed(basic_lshift(x0, k, <<i, f>>), i, f)
         /\ basic_lshift(x0, k, <<i, f>>).raw = x0.raw * 2^k.raw
<1> DEFINE r == x0.raw
           a == k.raw
           w == i + f
           v == r * 2^a
<1>1. r \in Nat /\ a \in Nat /\ w \in Nat /\ 2^a \in Nat /\ 2^a > 0 /\ 2^w \in Nat /\ v \in Nat
  <2>1. 2^a \in Nat /\ 2^a > 0
    BY PowerPositive
  <2>2. QED BY <2>1, PowerPositive
<1>2. basic_lshift(x0, k, <<i, f>>)
        = Node(<<i, f>>, IF a >= w THEN 0 ELSE (r % 2^(w - a)) * 2^a)
  BY DEF basic_lshift
<1>3. CASE a >= w
  <2>1. 2^w <= 2^a
    BY <1>1, <1>3, PowerMonotone
  <2>2. v < 2^w
    OBVIOUS
  <2> HIDE DEF w
  <2>3. r = 0
    <3>1. ASSUME r >= 1 PROVE FALSE
      <4> DEFINE A == 2^a
      <4>1. A \in Nat /\ r >= 1 /\ r \in Nat
        BY <1>1, <3>1
      <4> HIDE DEF A, r
      <4>2. A <= r * A
        BY <4>1
      <4>3. QED BY <1>1, <2>1, <2>2, <4>2 DEF A, r
    <3>2. QED BY <1>1, <3>1
  <2>4. v = 0
    BY <1>1, <2>3
  <2>5. QED BY <1>1, <1>2, <1>3, <2>2, <2>4, MaskedFits DEF w
<1>4. CASE ~ a >= w
  <2> DEFINE b == w - a
  <2>1. b \in Nat /\ b + a = w
    BY <1>1, <1>4
  <2>2. 2^b \in Nat /\ 2^w = 2^b * 2^a
    BY <1>1, <2>1, PowerSum, PowerPositive
  <2>3. v < 2^w
    OBVIOUS
  <2>4. r < 2^b
    <3> DEFINE A == 2^a
               B == 2^b
    <3>1. A \in Nat /\ A > 0 /\ B \in Nat /\ r \in Nat /\ r * A < B * A
      BY <1>1, <2>2, <2>3
    <3> HIDE DEF A, B, r
    <3>2. ASSUME r >= B PROVE FALSE
      <4>1. r * A >= B * A
        BY <3>1, <3>2
      <4>2. r * A \in Int /\ B * A \in Int
        BY <3>1
      <4>3. QED BY <3>1, <4>1, <4>2
    <3>3. r < B
      BY <3>1, <3>2
    <3>4. QED BY <3>3 DEF B
  <2>5. r % 2^b = r
    BY <1>1, <2>2, <2>4
  <2>6. basic_lshift(x0, k, <<i, f>>) = Node(<<i, f>>, v)
    BY <1>2, <1>4, <2>5
  <2> HIDE DEF v
  <2>7. Typed(Node(<<i, f>>, v), i, f) /\ Node(<<i, f>>, v).raw = v
    BY <1>1, <2>3, MaskedFits
  <2>8. QED BY <2>6, <2>7 DEF v
<1>5. QED BY <1>3, <1>4

\* Widening the fraction of a node keeps its number.
LEMMA ResizeUp ==
  ASSUME NEW x0, IsNode(x0), NEW i \in Nat, NEW f \in Nat, x0.frac <= f,
         x0.raw * 2^(f - x0.frac) < 2^(i + f)
  PROVE  Typed(uq_resize(x0, i, f), i, f) /\ uq_resize(x0, i, f).raw = x0.raw * 2^(f - x0.frac)
<1>1. x0.frac \in Nat /\ x0.raw \in Nat
  BY NodeFields
<1>2. CASE f > x0.frac
  <2> DEFINE d == f - x0.frac
             k == UQ_from_int(d)
  <2>1. d \in Nat
    BY <1>1, <1>2
  <2>2. k.raw = d
    BY <2>1, ConstantRaw
  <2>3. uq_resize(x0, i, f) = basic_lshift(x0, k, <<i, f>>)
    BY <1>2 DEF uq_resize
  <2>4. x0.raw * 2^d < 2^(i + f)
    OBVIOUS
  <2> HIDE DEF k, d
  <2>5. k.raw \in Nat /\ x0.raw * 2^k.raw < 2^(i + f)
    BY <2>1, <2>2, <2>4
  <2>6. /\ Typed(basic_lshift(x0, k, <<i, f>>), i, f)
        /\ basic_lshift(x0, k, <<i, f>>).raw = x0.raw * 2^k.raw
    BY <1>1, <2>5, LeftShift
  <2>7. QED BY <2>2, <2>3, <2>6 DEF d
<1>3. CASE f = x0.frac
  <2> DEFINE d == f - x0.frac
             v == x0.raw * 2^d
  <2>1. d = 0 /\ v < 2^(i + f)
    BY <1>1, <1>3
  <2> HIDE DEF d
  <2>5. 2^d = 1
    BY <2>1
  <2>6. v = x0.raw
    BY <1>1, <2>5
  <2>2. uq_resize(x0, i, f) = Node(<<i, f>>, x0.raw) /\ x0.raw < 2^(i + f)
    BY <1>3, <2>1, <2>6 DEF uq_resize, basic_identity
  <2>3. Typed(Node(<<i, f>>, x0.raw), i, f) /\ Node(<<i, f>>, x0.raw).raw = x0.raw
    BY <1>1, <2>2, MaskedFits
  <2>7. x0.raw * 2^(f - x0.frac) = x0.raw
    BY ONLY <2>6 DEF d
  <2>4. QED BY ONLY <2>2, <2>3, <2>7
<1>4. f > x0.frac \/ f = x0.frac
  BY <1>1
<1>5. QED BY ONLY <1>2, <1>3, <1>4

\* A jammed right shift, of any amount.
LEMMA RightJam ==
  ASSUME NEW x0, IsNode(x0), total_bits(x0) # 0, NEW k, k.raw \in Nat
  PROVE  uq_rshift_jam(x0, k).raw = Jam(x0.raw, k.raw)
<1> DEFINE r == x0.raw
           a == k.raw
           t == total_bits(x0)
           kept == uq_rshift(x0, k)
           A == 2^a
<1>1. /\ r \in Nat /\ a \in Nat /\ t \in Nat /\ r < 2^t /\ 2^t \in Nat /\ x0.int \in Nat
      /\ x0.frac \in Nat /\ t = x0.int + x0.frac /\ A \in Nat /\ A > 0
  BY NodeFields, PowerPositive
<1>2. r \div A \in Nat /\ r \div A <= r
  <2> HIDE DEF r, A
  <2>1. r \div A \in Int /\ r \div A >= 0 /\ r % A \in 0 .. (A - 1) /\ r % A = r - A * (r \div A)
    BY <1>1, Divided
  <2> DEFINE d == r \div A
  <2> HIDE DEF d
  <2>2. d \in Nat /\ d <= A * d /\ A * d <= r /\ A * d \in Int
    BY <1>1, <2>1 DEF d
  <2>3. QED BY <1>1, <2>2 DEF d
<1>3. a >= t => r \div A = 0 /\ r % A = r
  <2>1. SUFFICES ASSUME a >= t PROVE r \div A = 0 /\ r % A = r
    OBVIOUS
  <2>2. 2^t <= A
    BY <1>1, <2>1, PowerMonotone
  <2>3. r < A
    BY <1>1, <2>2
  <2> HIDE DEF r, A
  <2>4. QED BY <1>1, <2>3
<1>4. kept.raw = r \div A
  <2>1. kept = Node(<<x0.int, x0.frac>>, IF a >= t THEN 0 ELSE r \div A)
    BY DEF uq_rshift, basic_rshift, dtype
  <2>2. kept = Node(<<x0.int, x0.frac>>, r \div A)
    BY <1>3, <2>1
  <2> DEFINE v == r \div A
  <2>3. v \in Nat /\ v < 2^(x0.int + x0.frac)
    BY <1>1, <1>2
  <2> HIDE DEF v
  <2>4. Node(<<x0.int, x0.frac>>, v).raw = v
    BY <1>1, <2>3, MaskedFits
  <2>5. QED BY <2>2, <2>4 DEF v
<1> DEFINE lost == IF a >= t THEN r ELSE r % A
           z == r \div A
<1>5. lost = r % A
  BY <1>3
<1>6. uq_rshift_jam(x0, k) = IF lost > 0 /\ kept.raw % 2 = 0
                             THEN [kept EXCEPT !.raw = @ + 1] ELSE kept
  BY DEF uq_rshift_jam
<1>7. "raw" \in DOMAIN kept
  BY DEF uq_rshift, basic_rshift, Node
<1> HIDE DEF kept, lost
<1>8. uq_rshift_jam(x0, k).raw = kept.raw + (IF lost > 0 /\ kept.raw % 2 = 0 THEN 1 ELSE 0)
  <2>1. CASE lost > 0 /\ kept.raw % 2 = 0
    BY <1>6, <1>7, <2>1
  <2>2. CASE ~ (lost > 0 /\ kept.raw % 2 = 0)
    <3>1. uq_rshift_jam(x0, k) = kept
      BY <1>6, <2>2
    <3>2. kept.raw \in Int
      BY <1>2, <1>4
    <3>3. QED BY <2>2, <3>1, <3>2
  <2>3. QED BY <2>1, <2>2
<1>9. QED BY <1>4, <1>5, <1>8 DEF Jam

\* A shift that loses nothing jams nothing.
LEMMA JamExact ==
  ASSUME NEW y \in Nat, NEW a \in Nat
  PROVE  Jam(y * 2^a, a) = y
<1> DEFINE A == 2^a
           r == y * A
<1>1. A \in Nat /\ A > 0
  BY PowerPositive
<1>2. r = A * y + 0
  BY <1>1
<1> HIDE DEF A, r
<1>3. r \div A = y /\ r % A = 0
  BY <1>1, <1>2, DivisionOf
<1>4. Jam(r, a) = y
  BY <1>3 DEF Jam, A
<1>5. QED BY <1>4 DEF r, A

\* The leading zeros of a node.
LEMMA ZerosCounted ==
  ASSUME NEW n, IsNode(n), n.raw > 0
  PROVE  /\ BitLength(n.raw) \in Nat /\ BitLength(n.raw) >= 1
         /\ BitLength(n.raw) <= n.int + n.frac
         /\ IsNode(lzc(n)) /\ lzc(n).frac = 0
         /\ lzc(n).raw = n.int + n.frac - BitLength(n.raw)
<1> DEFINE t == n.int + n.frac
           l == BitLength(n.raw)
           b == BitLength(t)
           v == t - l
<1>1. /\ total_bits(n) = t /\ t \in Nat /\ n.raw \in Nat /\ n.raw < 2^t /\ 2^t \in Nat
      /\ n.int \in Nat /\ n.frac \in Nat
  BY NodeFields
<1>2. l \in Nat /\ l >= 1 /\ 2^(l - 1) <= n.raw /\ l - 1 \in Nat
  BY <1>1, BitLengthOf
<1>3. l <= t
  <2>1. ASSUME t <= l - 1 PROVE FALSE
    <3>1. 2^t <= 2^(l - 1) /\ 2^(l - 1) \in Nat
      BY <1>1, <1>2, <2>1, PowerMonotone, PowerPositive
    <3>2. QED BY <1>1, <1>2, <3>1
  <2>2. QED BY <1>1, <1>2, <2>1
<1>4. b \in Nat /\ t < 2^b /\ 2^b \in Nat
  <2> HIDE DEF t
  <2>1. QED BY <1>1, BitLengthOf, PowerPositive
<1>5. v \in Nat /\ v < 2^b /\ b + 0 = b
  BY <1>1, <1>2, <1>3, <1>4
<1>6. lzc(n) = Node(<<b, 0>>, v)
  BY <1>1 DEF lzc
<1> HIDE DEF v, b
<1>7. v < 2^(b + 0)
  BY <1>5
<1>8. Typed(Node(<<b, 0>>, v), b, 0) /\ Node(<<b, 0>>, v).raw = v
  BY <1>4, <1>5, <1>7, MaskedFits
<1>9. IsNode(lzc(n)) /\ lzc(n).frac = 0 /\ lzc(n).raw = v
  BY ONLY <1>6, <1>8 DEF Typed
<1>10. lzc(n).raw = t - l
  BY ONLY <1>9 DEF v
<1>11. lzc(n).raw = n.int + n.frac - BitLength(n.raw)
  BY <1>1, <1>2, <1>10
<1>12. QED BY <1>2, <1>3, <1>9, <1>11

-----------------------------------------------------------------------------
(* Normalization.                                                          *)

\* The same bits in the same type are the same number.
LEMMA CopyHolds ==
  ASSUME NEW x0, NEW i, NEW v, Holds(x0, i, v)
  PROVE  Holds(Node(<<i, 0>>, x0.raw), i, v)
<1>1. /\ i \in Nat /\ i >= 1 /\ v \in Int /\ -2^(i - 1) <= v /\ v < 2^(i - 1)
      /\ x0.raw = IF v < 0 THEN v + 2^i ELSE v
  BY DEF Holds
<1> DEFINE b == IF v < 0 THEN 1 ELSE 0
           r == x0.raw
<1>2. b \in Int /\ r = v + b * 2^i
  <2>1. 2^i \in Nat
    BY <1>1, PowerPositive
  <2>2. QED BY <1>1, <2>1
<1> HIDE DEF b, r
<1>3. Holds(Node(<<i, 0>>, v + b * 2^i), i, v)
  BY <1>1, <1>2, HoldsNode
<1>4. QED BY <1>2, <1>3 DEF r

\* The fraction bits of a normalized node, and the places its number moves.
FractionBits(n) == Larger(n.int - 1, 0) + n.frac
LeadingZeros(n) == FractionBits(n) + 1 - BitLength(n.raw)

\* The number of x, with something to spare below.
HoldsAbove(x0, v) == \E i \in Nat : Holds(x0, i, v) /\ -2^(i - 1) < v

\* The shift of the normalization: what it is, and the node that holds it.
LEMMA ShiftHolds ==
  ASSUME NEW n, IsNode(n), n.raw > 0
  PROVE  HoldsAbove(q_add(q_sub(uq_to_q(lzc(n)), uq_to_q(UQ_from_int(n.int))), Q_from_int(1)),
                    n.frac + 1 - BitLength(n.raw))
<1> DEFINE zeros == uq_to_q(lzc(n))
           width == UQ_from_int(n.int)
           ints  == uq_to_q(width)
           l     == BitLength(n.raw)
           one   == Q_from_int(1)
           diff  == q_sub(zeros, ints)
           d     == n.frac + 1 - l
           d1    == (n.int + n.frac - l) - n.int
<1>1. /\ l \in Nat /\ n.int \in Nat /\ n.frac \in Nat /\ IsNode(lzc(n)) /\ lzc(n).frac = 0
      /\ lzc(n).raw = n.int + n.frac - l /\ lzc(n).int \in Nat
  BY ZerosCounted, NodeFields
<1>2. Holds(zeros, lzc(n).int + 1, n.int + n.frac - l)
  <2>1. Holds(uq_to_q(lzc(n)), lzc(n).int + 1, lzc(n).raw)
    BY <1>1, ToSigned
  <2>2. QED BY <1>1, <2>1
<1>3. IsNode(width) /\ width.frac = 0 /\ width.raw = n.int
  BY <1>1, ConstantRaw, ConstantTyped
<1> HIDE DEF width
<1>4. Holds(ints, width.int + 1, n.int)
  <2>1. Holds(uq_to_q(width), width.int + 1, width.raw)
    BY <1>3, ToSigned
  <2>2. QED BY <1>3, <2>1
<1> HIDE DEF zeros, ints
<1>5. PICK j : Holds(diff, j, d1)
  <2> DEFINE a == n.int + n.frac - l
             i1 == lzc(n).int + 1
             i2 == width.int + 1
             b == n.int
  <2>1. Holds(zeros, i1, a) /\ Holds(ints, i2, b)
    BY <1>2, <1>4
  <2> HIDE DEF a, i1, i2, b
  <2>2. Holds(q_sub(zeros, ints), Larger(i1, i2) + 1, a - b)
    BY <2>1, AddHolds
  <2>3. \E w : Holds(q_sub(zeros, ints), w, a - b)
    BY <2>2
  <2>4. QED BY <2>3 DEF a, b
<1>6. PICK i \in Nat : i >= 2 /\ Holds(one, i, 1)
  <2>1. \E w \in Nat : w >= 2 /\ Holds(Q_from_int(1), w, 1)
    BY ConstantHolds
  <2>2. QED BY <2>1
<1> DEFINE w == Larger(j, i) + 1
<1> HIDE DEF diff, one, d1, w
<1>7. Holds(q_add(diff, one), w, d1 + 1)
  BY <1>5, <1>6, AddHolds DEF w
<1>8. d1 + 1 = d
  BY <1>1 DEF d1
<1>9. /\ j \in Nat /\ j >= 1 /\ -2^(j - 1) <= d1 /\ d1 \in Int
      /\ w \in Nat /\ j <= w
  <2>1. j \in Nat /\ j >= 1 /\ -2^(j - 1) <= d1 /\ d1 \in Int
    BY <1>5 DEF Holds
  <2>2. w \in Nat /\ j <= w
    <3>1. Larger(j, i) \in Nat /\ Larger(j, i) >= j
      BY <1>6, <2>1, LargerNat
    <3>2. QED BY <2>1, <3>1 DEF w
  <2>3. QED BY <2>1, <2>2
<1>10. -2^(w - 1) < d
  <2>1. j - 1 \in Nat /\ w - 1 \in Nat /\ j - 1 <= w - 1
    BY <1>9
  <2>2. 2^(j - 1) <= 2^(w - 1) /\ 2^(j - 1) \in Nat /\ 2^(w - 1) \in Nat
    BY <2>1, PowerMonotone, PowerPositive
  <2>3. QED BY <1>8, <1>9, <2>2
<1>11. HoldsAbove(q_add(diff, one), d)
  BY <1>7, <1>8, <1>9, <1>10 DEF HoldsAbove
<1>12. QED BY <1>11 DEF diff, one, zeros, ints, width

\* The normalized significand is the number moved to the leading place.
LEMMA NormalizedRange ==
  ASSUME NEW n, IsNode(n), n.raw > 0
  PROVE  LET F == FractionBits(n)
             z == LeadingZeros(n)
         IN /\ F \in Nat /\ z \in Nat /\ n.raw * 2^z \in Nat
            /\ 2^F <= n.raw * 2^z /\ n.raw * 2^z < 2^(F + 1)
<1> DEFINE F == FractionBits(n)
           z == LeadingZeros(n)
           l == BitLength(n.raw)
           r == n.raw
<1>1. l \in Nat /\ l >= 1 /\ l <= n.int + n.frac /\ n.int \in Nat /\ n.frac \in Nat /\ r \in Nat
  BY ZerosCounted, NodeFields
<1>2. F \in Nat /\ z \in Nat /\ l + z = F + 1 /\ (l - 1) + z = F /\ l - 1 \in Nat
  BY <1>1 DEF FractionBits, LeadingZeros, Larger
<1>3. 2^(l - 1) <= r /\ r < 2^l
  BY <1>1, BitLengthOf
<1> HIDE DEF F, z, l, r
<1>4. 2^((l - 1) + z) = 2^(l - 1) * 2^z /\ 2^(l + z) = 2^l * 2^z
  BY <1>1, <1>2, PowerSum
<1>5. 2^z \in Nat /\ 2^z > 0 /\ 2^l \in Nat /\ 2^(l - 1) \in Nat
  BY <1>1, <1>2, PowerPositive
<1>6. r * 2^z \in Nat /\ 2^(l - 1) * 2^z <= r * 2^z /\ r * 2^z < 2^l * 2^z
  BY <1>1, <1>3, <1>5
<1>7. r * 2^z \in Nat /\ 2^F <= r * 2^z /\ r * 2^z < 2^(F + 1)
  BY <1>2, <1>4, <1>6
<1>8. QED BY <1>2, <1>7 DEF F, z, r

\* Normalization: the significand has its leading one in front of the point, and
\* the exponent follows.
LEMMA NormalizeValue ==
  ASSUME NEW n, IsNode(n), n.raw > 0, NEW k, NEW i, NEW v, Holds(k, i, v)
  PROVE  LET both == normalize_to_1_xxx(n, k) IN
         /\ Typed(both[1], 1, FractionBits(n))
         /\ both[1].raw = n.raw * 2^LeadingZeros(n)
         /\ HoldsAbove(both[2], v - (n.frac + 1 - BitLength(n.raw)))
<1> DEFINE frac      == FractionBits(n)
           ones      == Larger(1, n.int)
           shift     == q_add(q_sub(uq_to_q(lzc(n)), uq_to_q(UQ_from_int(n.int))), Q_from_int(1))
           sign      == q_sign_bit(shift)
           magnitude == q_abs(shift)
           amount    == q_to_uq(magnitude)
           resized   == uq_resize(n, ones, frac)
           right_e   == q_add(k, magnitude)
           left_e    == q_sub(k, magnitude)
           d         == n.frac + 1 - BitLength(n.raw)
           z         == LeadingZeros(n)
           c         == Larger(n.int - 1, 0)
           r         == n.raw
           kept      == r * 2^z
<1>1. normalize_to_1_xxx(n, k) =
         << basic_mux_2_1(sign, uq_lshift(resized, amount), uq_rshift_jam(resized, amount), <<1, frac>>),
            basic_mux_2_1(sign, left_e, right_e, dtype(right_e)) >>
  BY DEF normalize_to_1_xxx, FractionBits
<1>2. /\ BitLength(n.raw) \in Nat /\ n.int \in Nat /\ n.frac \in Nat /\ r \in Nat
      /\ BitLength(n.raw) <= n.int + n.frac /\ r < 2^(n.int + n.frac)
  BY ZerosCounted, NodeFields
<1>3. /\ frac \in Nat /\ z \in Nat /\ kept \in Nat /\ 2^frac <= kept /\ kept < 2^(frac + 1)
  BY NormalizedRange
<1>4. /\ c \in Nat /\ ones \in Nat /\ ones >= 1 /\ d \in Int /\ c + d = z /\ frac = c + n.frac
      /\ n.int + n.frac + c <= ones + frac /\ frac + 1 <= ones + frac /\ n.frac <= frac
  BY <1>2 DEF Larger, FractionBits, LeadingZeros
<1>5. HoldsAbove(shift, d)
  BY ShiftHolds
<1>6. PICK w \in Nat : Holds(shift, w, d) /\ -2^(w - 1) < d
  BY <1>5 DEF HoldsAbove
<1>7. sign.raw = IF d < 0 THEN 1 ELSE 0
  <2>1. sign = Node(Bit, IF d < 0 THEN 1 ELSE 0)
    <3> HIDE DEF shift, d
    <3>1. QED BY <1>6, SignBit
  <2>2. QED BY <2>1, BitOf
<1> HIDE DEF shift, d
<1>8. Holds(magnitude, w, Absolute(d))
  BY <1>6, AbsHolds
<1> HIDE DEF magnitude
<1>9. amount.raw = Absolute(d) /\ Absolute(d) \in Nat
  <2>1. Absolute(d) \in Nat
    BY <1>4 DEF Absolute
  <2>2. QED BY <1>8, <2>1, ToUnsigned
<1>10. Typed(resized, ones, frac) /\ resized.raw = r * 2^c
  <2>1. frac - n.frac = c
    BY <1>2, <1>4
  <2>2. r * 2^c < 2^(ones + frac)
    <3>1. 2^(n.int + n.frac + c) = 2^(n.int + n.frac) * 2^c
      <4> DEFINE t == n.int + n.frac
      <4>1. t \in Nat /\ c \in Nat
        BY <1>2, <1>4
      <4> HIDE DEF t, c
      <4>2. 2^(t + c) = 2^t * 2^c
        BY <4>1, PowerSum
      <4>3. QED BY <4>2 DEF t
    <3>2. 2^(n.int + n.frac + c) <= 2^(ones + frac)
      BY <1>2, <1>3, <1>4, PowerMonotone
    <3>3. 2^c \in Nat /\ 2^c > 0 /\ 2^(n.int + n.frac) \in Nat /\ 2^(ones + frac) \in Nat
      BY <1>2, <1>3, <1>4, PowerPositive
    <3> DEFINE T == 2^(n.int + n.frac)
               C == 2^c
    <3>4. T \in Nat /\ C \in Nat /\ C > 0 /\ r < T /\ r \in Nat /\ T * C <= 2^(ones + frac)
      BY <1>2, <3>1, <3>2, <3>3
    <3> HIDE DEF T, C, r
    <3>5. r * C < T * C /\ r * C \in Int /\ T * C \in Int
      BY <3>4
    <3>6. r * C < 2^(ones + frac)
      BY <3>3, <3>4, <3>5
    <3>7. QED BY <3>6 DEF C
  <2> HIDE DEF frac, ones, c
  <2>3. n.raw * 2^(frac - n.frac) < 2^(ones + frac)
    BY <2>1, <2>2
  <2>4. /\ Typed(uq_resize(n, ones, frac), ones, frac)
        /\ uq_resize(n, ones, frac).raw = n.raw * 2^(frac - n.frac)
    BY <1>3, <1>4, <2>3, ResizeUp
  <2>5. QED BY <2>1, <2>4
<1>11. /\ IsNode(resized) /\ resized.int = ones /\ resized.frac = frac /\ total_bits(resized) # 0
       /\ resized.raw \in Nat
  BY <1>3, <1>4, <1>10, NodeFields DEF Typed
<1> HIDE DEF amount, resized, right_e, left_e, sign, ones, frac, c, r, z
<1>12. d >= 0 => uq_lshift(resized, amount).raw = kept
  <2>1. SUFFICES ASSUME d >= 0 PROVE uq_lshift(resized, amount).raw = kept
    OBVIOUS
  <2>2. amount.raw = d /\ d \in Nat
    BY <1>4, <1>9, <2>1 DEF Absolute
  <2>3. resized.raw * 2^d = kept
    <3>1. 2^(c + d) = 2^c * 2^d /\ 2^c \in Nat /\ 2^d \in Nat
      BY <1>4, <2>2, PowerSum, PowerPositive
    <3>2. r \in Nat /\ resized.raw = r * 2^c /\ 2^z = 2^c * 2^d
      BY <1>2, <1>4, <1>10, <3>1
    <3>3. QED BY <3>1, <3>2
  <2>4. kept < 2^(ones + frac)
    <3>1. 2^(frac + 1) <= 2^(ones + frac) /\ 2^(frac + 1) \in Nat /\ 2^(ones + frac) \in Nat
      BY <1>3, <1>4, PowerMonotone, PowerPositive
    <3>2. QED BY <1>3, <3>1
  <2> HIDE DEF kept
  <2>5. uq_lshift(resized, amount) = basic_lshift(resized, amount, <<ones, frac>>)
    BY <1>11 DEF uq_lshift, dtype
  <2>6. amount.raw \in Nat /\ resized.raw * 2^amount.raw < 2^(ones + frac)
    BY <2>2, <2>3, <2>4
  <2>7. basic_lshift(resized, amount, <<ones, frac>>).raw = resized.raw * 2^amount.raw
    <3>1. resized.raw \in Nat /\ ones \in Nat /\ frac \in Nat
      BY <1>3, <1>4, <1>11
    <3>2. QED BY <2>6, <3>1, LeftShift, ZenonT(60)
  <2>8. QED BY <2>2, <2>3, <2>5, <2>7
<1>13. d < 0 => uq_rshift_jam(resized, amount).raw = kept
  <2>1. SUFFICES ASSUME d < 0 PROVE uq_rshift_jam(resized, amount).raw = kept
    OBVIOUS
  <2> DEFINE a == -d
  <2>2. amount.raw = a /\ a \in Nat
    BY <1>4, <1>9, <2>1 DEF Absolute
  <2>3. resized.raw = kept * 2^a
    <3>1. z + a = c
      BY <1>4
    <3>2. 2^(z + a) = 2^z * 2^a /\ 2^z \in Nat /\ 2^a \in Nat
      BY <1>3, <2>2, PowerSum, PowerPositive
    <3>3. r \in Nat /\ resized.raw = r * (2^z * 2^a)
      BY <1>2, <1>10, <3>1, <3>2
    <3>4. QED BY <3>2, <3>3
  <2> HIDE DEF a, kept
  <2>4. uq_rshift_jam(resized, amount).raw = Jam(resized.raw, amount.raw)
    BY <1>11, <2>2, RightJam
  <2>5. Jam(kept * 2^a, a) = kept
    BY <1>3, <2>2, JamExact
  <2>6. QED BY <2>2, <2>3, <2>4, <2>5
<1> DEFINE first == basic_mux_2_1(sign, uq_lshift(resized, amount), uq_rshift_jam(resized, amount), <<1, frac>>)
           second == basic_mux_2_1(sign, left_e, right_e, dtype(right_e))
<1>14. Typed(first, 1, frac) /\ first.raw = kept
  <2>1. IF sign.raw = 1 THEN uq_rshift_jam(resized, amount).raw = kept
                        ELSE uq_lshift(resized, amount).raw = kept
    BY <1>4, <1>7, <1>12, <1>13
  <2>2. first = Node(<<1, frac>>, kept)
    BY <2>1 DEF basic_mux_2_1
  <2>3. kept < 2^(1 + frac)
    <3>1. frac + 1 = 1 + frac
      BY <1>3
    <3>2. QED BY <1>3, <3>1
  <2> HIDE DEF kept, first
  <2>4. Typed(Node(<<1, frac>>, kept), 1, frac) /\ Node(<<1, frac>>, kept).raw = kept
    BY <1>3, <2>3, MaskedFits
  <2>5. QED BY <2>2, <2>4
<1>15. HoldsAbove(second, v - d)
  <2> DEFINE j == Larger(i, w) + 1
             u == Absolute(d)
  <2>1. Holds(right_e, j, v + u) /\ Holds(left_e, j, v - u)
    <3> HIDE DEF u
    <3>1. QED BY <1>8, AddHolds DEF right_e, left_e, u
  <2>2. dtype(right_e) = <<j, 0>>
    BY <2>1 DEF Holds, Typed, dtype
  <2>3. v \in Int /\ -2^(i - 1) <= v /\ i \in Nat /\ i >= 1
    BY DEF Holds
  <2>4. j \in Nat /\ j - 1 >= i /\ j - 1 >= w /\ j - 1 \in Nat /\ w >= 1
    <3>1. Larger(i, w) \in Nat /\ Larger(i, w) >= i /\ Larger(i, w) >= w
      BY <1>6, <2>3, LargerNat
    <3>2. w >= 1
      BY <1>6 DEF Holds
    <3>3. QED BY <3>1, <3>2
  <2> DEFINE chosen == IF sign.raw = 1 THEN right_e ELSE left_e
  <2>5. second = Node(<<j, 0>>, chosen.raw)
    BY <2>2 DEF basic_mux_2_1
  <2>6. Holds(chosen, j, v - d)
    <3>1. CASE d < 0
      <4>1. chosen = right_e /\ v + u = v - d
        BY <1>4, <1>7, <2>3, <3>1 DEF Absolute
      <4>2. QED BY <2>1, <4>1
    <3>2. CASE ~ d < 0
      <4>1. chosen = left_e /\ v - u = v - d
        BY <1>4, <1>7, <2>3, <3>2 DEF Absolute
      <4>2. QED BY <2>1, <4>1
    <3>3. QED BY <3>1, <3>2
  <2> HIDE DEF chosen, second, j
  <2>7. Holds(second, j, v - d)
    BY <2>5, <2>6, CopyHolds
  <2>8. -2^(j - 1) < v - d
    <3>1. i - 1 \in Nat /\ w - 1 \in Nat /\ i - 1 < j - 1 /\ w - 1 < j - 1
      BY <1>6, <2>3, <2>4
    <3>2. 2 * 2^(i - 1) <= 2^(j - 1) /\ 2 * 2^(w - 1) <= 2^(j - 1)
      BY <2>4, <3>1, PowerLess
    <3>3. 2^(i - 1) \in Nat /\ 2^(w - 1) \in Nat /\ 2^(j - 1) \in Nat
      BY <2>4, <3>1, PowerPositive
    <3>4. d < 2^(w - 1) /\ d \in Int
      BY <1>6 DEF Holds
    <3>5. QED BY <2>3, <3>2, <3>3, <3>4
  <2>9. QED BY <2>4, <2>7, <2>8 DEF HoldsAbove
<1>16. QED BY <1>1, <1>14, <1>15 DEF frac, d, r, z

-----------------------------------------------------------------------------
(* Subnormals.                                                             *)

\* One unit is added to an exponent, or a bit.
LEMMA UnsignedSum ==
  ASSUME NEW a, IsNode(a), a.frac = 0, NEW b, IsNode(b), b.frac = 0
  PROVE  IsNode(uq_add(a, b)) /\ uq_add(a, b).frac = 0 /\ uq_add(a, b).raw = a.raw + b.raw
<1> DEFINE i == Larger(a.int, b.int)
           w == i + 1
           v == a.raw + b.raw
<1>1. /\ a.int \in Nat /\ b.int \in Nat /\ a.raw \in Nat /\ b.raw \in Nat
      /\ a.raw < 2^a.int /\ b.raw < 2^b.int
  <2>1. a.int + a.frac = a.int /\ b.int + b.frac = b.int
    BY NodeFields
  <2>2. QED BY <2>1, NodeFields
<1>2. i \in Nat /\ w \in Nat /\ a.int <= i /\ b.int <= i
  BY <1>1 DEF Larger
<1>3. /\ 2^a.int <= 2^i /\ 2^b.int <= 2^i /\ 2^w = 2 * 2^i
      /\ 2^a.int \in Nat /\ 2^b.int \in Nat /\ 2^i \in Nat
  <2> HIDE DEF i
  <2>1. QED BY <1>1, <1>2, PowerMonotone, PowerStep, PowerPositive
<1>4. v \in Nat /\ v < 2^w
  BY <1>1, <1>3
<1>5. uq_add(a, b) = Node(<<w, 0>>, v)
  <2>1. uq_fraction(a, b) = 0
    BY DEF uq_fraction, Larger
  <2>2. uq_align(a, 0) = a /\ uq_align(b, 0) = b
    BY DEF uq_align
  <2>3. QED BY <2>1, <2>2 DEF uq_add, basic_add
<1> HIDE DEF w, v
<1>6. v < 2^(w + 0)
  BY <1>2, <1>4
<1>7. Typed(Node(<<w, 0>>, v), w, 0) /\ Node(<<w, 0>>, v).raw = v
  BY <1>2, <1>4, <1>6, MaskedFits
<1>8. QED BY <1>5, <1>7 DEF Typed, v

\* A multiplexer of the type of one of its inputs lets the selected one through
\* when it fits.
LEMMA MuxValue ==
  ASSUME NEW a, IsNode(a), NEW b, IsNode(b), NEW z, IsNode(z), NEW sel,
         a.raw < 2^total_bits(z), b.raw < 2^total_bits(z)
  PROVE  basic_mux_2_1(sel, a, b, dtype(z)).raw = IF sel.raw = 1 THEN b.raw ELSE a.raw
<1> DEFINE v == IF sel.raw = 1 THEN b.raw ELSE a.raw
           i == z.int
           f == z.frac
<1>1. v \in Nat /\ v < 2^(i + f) /\ i \in Nat /\ f \in Nat
  BY NodeFields
<1>2. basic_mux_2_1(sel, a, b, dtype(z)) = Node(<<i, f>>, v)
  BY DEF basic_mux_2_1, dtype
<1> HIDE DEF v, i, f
<1>3. QED BY <1>1, <1>2, MaskedFits DEF v

\* The test for an exponent of zero or less.
LEMMA SubnormalBit ==
  ASSUME NEW k, NEW i, NEW v, Holds(k, i, v)
  PROVE  bit_or(q_is_zero(k), q_sign_bit(k)).raw = IF v <= 0 THEN 1 ELSE 0
<1>1. /\ IsNode(k) /\ k.raw \in Nat /\ v \in Int /\ i \in Nat /\ i >= 1
      /\ k.raw = (IF v < 0 THEN v + 2^i ELSE v)
  BY NodeFields DEF Holds, Typed
<1>2. -2^(i - 1) <= v /\ 2^i = 2 * 2^(i - 1) /\ 2^(i - 1) \in Nat /\ 2^(i - 1) > 0
  BY <1>1, PowersOf, PowerPositive DEF Holds
<1>3. (k.raw > 0) <=> (v # 0)
  <2> DEFINE h == 2^(i - 1)
             p == 2^i
  <2>1. p = 2 * h /\ h > 0 /\ h \in Nat /\ -h <= v /\ k.raw = (IF v < 0 THEN v + p ELSE v)
    BY <1>1, <1>2
  <2> HIDE DEF h, p
  <2>2. QED BY <1>1, <2>1
<1>4. q_sign_bit(k) = Node(Bit, IF v < 0 THEN 1 ELSE 0)
  BY SignBit
<1>5. q_sign_bit(k).raw = IF v < 0 THEN 1 ELSE 0
  BY <1>4, BitOf
<1>6. q_is_zero(k).raw = IF v = 0 THEN 1 ELSE 0
  <2>1. basic_or_reduce(k, Bit) = Node(Bit, IF v # 0 THEN 1 ELSE 0)
    BY <1>3 DEF basic_or_reduce
  <2> DEFINE b == IF v # 0 THEN 1 ELSE 0
             d == basic_or_reduce(k, Bit)
  <2>2. b \in {0, 1} /\ d = Node(Bit, b)
    BY <2>1
  <2> HIDE DEF b, d
  <2>3. d.raw = b /\ d.int = 1 /\ d.frac = 0
    BY <2>2, BitOf
  <2>4. 2^total_bits(d) = 2
    BY <2>3 DEF total_bits
  <2>5. q_is_zero(k) = Node(Bit, (2^total_bits(d) - 1) - d.raw)
    BY DEF q_is_zero, basic_invert, d
  <2>6. q_is_zero(k) = Node(Bit, 1 - b)
    BY <2>2, <2>3, <2>4, <2>5
  <2>7. 1 - b \in {0, 1} /\ 1 - b = (IF v = 0 THEN 1 ELSE 0)
    BY DEF b
  <2>8. QED BY <2>6, <2>7, BitOf
<1>7. Larger(q_is_zero(k).raw, q_sign_bit(k).raw) = IF v <= 0 THEN 1 ELSE 0
  BY <1>1, <1>5, <1>6 DEF Larger
<1> DEFINE t == IF v <= 0 THEN 1 ELSE 0
<1>8. bit_or(q_is_zero(k), q_sign_bit(k)) = Node(Bit, t) /\ t \in {0, 1}
  BY <1>7 DEF bit_or
<1> HIDE DEF t
<1>9. bit_or(q_is_zero(k), q_sign_bit(k)).raw = t
  BY <1>8, BitOf
<1>10. QED BY <1>9 DEF t

\* The shift of a subnormal: three more bits, and what is shifted out is jammed.
LEMMA ShiftValue ==
  ASSUME NEW n, NEW F \in Nat, Typed(n, 1, F), NEW k, NEW v, HoldsAbove(k, v)
  PROVE  LET both == shift_if_subnormal(n, k, 3) IN
         /\ Typed(both[1], 1, F + 3) /\ both[1].raw = Shifted(n.raw, v)
         /\ IsNode(both[2]) /\ both[2].frac = 0 /\ both[2].raw = Larger(v, 0)
<1> DEFINE is_subnormal == bit_or(q_is_zero(k), q_sign_bit(k))
           magnitude    == q_to_uq(q_abs(k))
           no           == Node(Bit, 0)
           one          == Node(Bit, 1)
           shifted_e    == basic_mux_2_1(is_subnormal, magnitude, no, dtype(magnitude))
           shift        == uq_add(one, magnitude)
           amount       == basic_mux_2_1(is_subnormal, no, shift, dtype(shift))
           G            == F + 3
           widened      == basic_lshift(n, UQ_from_int(3), <<1, G>>)
           r            == n.raw
           u            == Absolute(v)
<1>1. PICK i \in Nat : Holds(k, i, v) /\ -2^(i - 1) < v
  BY DEF HoldsAbove
<1>2. /\ IsNode(n) /\ n.int = 1 /\ n.frac = F /\ r \in Nat /\ r < 2^(F + 1) /\ G \in Nat
  BY NodeFields DEF Typed
<1>3. IsNode(k) /\ k.int >= 1 /\ k.frac = 0 /\ v \in Int
  BY <1>1 DEF Holds, Typed
<1>4. shift_if_subnormal(n, k, 3) = <<uq_rshift_jam(widened, amount), shifted_e>>
  BY <1>2 DEF shift_if_subnormal
<1>5. /\ Typed(shift_if_subnormal(n, k, 3)[1], 1, G)
      /\ IsNode(shift_if_subnormal(n, k, 3)[2]) /\ shift_if_subnormal(n, k, 3)[2].frac = 0
  BY <1>2, <1>3, ShiftTyped
<1>6. is_subnormal.raw = IF v <= 0 THEN 1 ELSE 0
  BY <1>1, SubnormalBit
<1>7. IsNode(magnitude) /\ magnitude.frac = 0 /\ magnitude.raw = u /\ u \in Nat
  <2>1. Holds(q_abs(k), i, u)
    BY <1>1, AbsHolds
  <2>2. u \in Nat
    BY <1>3 DEF Absolute
  <2> HIDE DEF u
  <2>3. QED BY <2>1, <2>2, ToUnsigned DEF Typed
<1>8. IsNode(no) /\ no.raw = 0 /\ IsNode(one) /\ one.frac = 0 /\ one.raw = 1
  BY BitOf
<1> HIDE DEF is_subnormal, magnitude, no, one
<1>9. IsNode(shift) /\ shift.frac = 0 /\ shift.raw = 1 + u
  BY <1>7, <1>8, UnsignedSum
<1> HIDE DEF shift
<1>10. amount.raw = IF v <= 0 THEN 1 + u ELSE 0
  <2>1. shift.raw < 2^total_bits(shift) /\ no.raw < 2^total_bits(shift)
    BY <1>8, <1>9, NodeFields, PowerPositive
  <2>2. QED BY <1>6, <1>8, <1>9, <2>1, MuxValue
<1>11. shifted_e.raw = IF v <= 0 THEN 0 ELSE u
  <2>1. magnitude.raw < 2^total_bits(magnitude) /\ no.raw < 2^total_bits(magnitude)
    BY <1>7, <1>8, NodeFields, PowerPositive
  <2>2. QED BY <1>6, <1>7, <1>8, <2>1, MuxValue
<1>12. shifted_e.raw = Larger(v, 0)
  BY <1>3, <1>11 DEF Larger, Absolute
<1>13. Typed(widened, 1, G) /\ widened.raw = 8 * r
  <2> DEFINE c == UQ_from_int(3)
             one0 == 1
  <2>1. c.raw = 3 /\ c.raw \in Nat
    BY ConstantRaw
  <2> HIDE DEF c
  <2>2. 2^(1 + G) = 8 * 2^(F + 1)
    <3>1. 2^(3 + (F + 1)) = 2^3 * 2^(F + 1)
      <4> DEFINE t == F + 1
      <4>1. t \in Nat /\ 3 \in Nat
        OBVIOUS
      <4> HIDE DEF t
      <4>2. QED BY <4>1, PowerSum DEF t
    <3>2. 2^3 = 8 /\ 1 + G = 3 + (F + 1)
      OBVIOUS
    <3>3. QED BY <3>1, <3>2
  <2>3. r * 2^c.raw = 8 * r
    <3>1. 2^3 = 8
      OBVIOUS
    <3>2. QED BY <1>2, <2>1, <3>1
  <2>4. r * 2^c.raw < 2^(1 + G)
    <3>1. 2^(F + 1) \in Nat
      BY PowerPositive
    <3>2. QED BY <1>2, <2>2, <2>3, <3>1
  <2> HIDE DEF G
  <2>5. 1 \in Nat
    OBVIOUS
  <2>6. Typed(basic_lshift(n, c, <<1, G>>), 1, G) /\ basic_lshift(n, c, <<1, G>>).raw = r * 2^c.raw
    <3>1. n.raw = r /\ n.raw \in Nat /\ c.raw \in Nat /\ G \in Nat /\ n.raw * 2^c.raw < 2^(1 + G)
      BY <1>2, <2>1, <2>4
    <3>2. QED BY <2>5, <3>1, LeftShift, ZenonT(60)
  <2>7. QED BY <2>3, <2>6 DEF c
<1> HIDE DEF widened, amount, shifted_e
<1>14. uq_rshift_jam(widened, amount).raw = Jam(8 * r, amount.raw)
  <2>1. IsNode(widened) /\ total_bits(widened) # 0
    BY <1>13 DEF Typed, total_bits
  <2>2. amount.raw \in Nat
    BY <1>7, <1>10
  <2>3. QED BY <1>13, <2>1, <2>2, RightJam
<1>15. Jam(8 * r, amount.raw) = Shifted(r, v)
  <2>1. CASE v <= 0
    <3>1. amount.raw = 1 - v /\ ~ (v >= 1)
      BY <1>3, <1>10, <2>1 DEF Absolute
    <3>2. QED BY <3>1 DEF Shifted
  <2>2. CASE v >= 1
    <3>1. amount.raw = 0
      BY <1>3, <1>10, <2>2
    <3> DEFINE y == 8 * r
    <3>2. y \in Nat /\ y * 2^0 = y /\ 0 \in Nat
      BY <1>2
    <3> HIDE DEF y
    <3>3. Jam(y, 0) = y
      BY <3>2, JamExact
    <3>4. QED BY <2>2, <3>1, <3>3 DEF Shifted, y
  <2>3. QED BY <1>3, <2>1, <2>2
<1>16. QED BY <1>4, <1>5, <1>12, <1>14, <1>15

-----------------------------------------------------------------------------
(* Rounding.                                                               *)

\* Some consecutive bits of a fraction.
LEMMA SelectValue ==
  ASSUME NEW d, NEW G \in Nat, Typed(d, 0, G),
         NEW start \in Nat, NEW end \in Nat, end <= start, start < G
  PROVE  /\ IsNode(uq_select(d, start, end))
         /\ uq_select(d, start, end).raw = (d.raw \div 2^end) % 2^(start - end + 1)
<1> DEFINE w == start - end + 1
           q == d.raw \div 2^end
           v == q % 2^w
<1>1. IsNode(d) /\ d.int = 0 /\ d.frac = G /\ d.raw \in Nat /\ w \in Nat
  BY NodeFields DEF Typed
<1>2. (IF d.frac > 0 THEN Larger(0, Smaller(start, d.frac - 1) - end + 1) ELSE 0) = w
  BY <1>1 DEF Larger, Smaller
<1>3. uq_select(d, start, end) = Node(<<0, w>>, v)
  <2>1. uq_select(d, start, end) = basic_select(d, start, end, <<w - w, w>>)
    BY <1>2 DEF uq_select
  <2>2. w - w = 0
    BY <1>1
  <2>3. QED BY <2>1, <2>2 DEF basic_select
<1>4. q \in Int
  <2>1. 2^end \in Nat /\ 2^end > 0
    BY PowerPositive
  <2> DEFINE a == d.raw
             p == 2^end
  <2> HIDE DEF a, p
  <2>2. a \in Int /\ p \in Nat /\ p > 0
    BY <1>1, <2>1 DEF a, p
  <2>3. a \div p \in Int
    BY <2>2, Divided
  <2>4. QED BY <2>3 DEF a, p
<1> HIDE DEF w, q
<1>5. v \in 0 .. (2^w - 1) /\ 2^w \in Nat
  <2>1. 2^w \in Nat /\ 2^w > 0
    BY <1>1, PowerPositive
  <2> DEFINE p == 2^w
  <2> HIDE DEF p
  <2>2. q % p \in 0 .. (p - 1)
    BY <1>4, <2>1, Divided DEF p
  <2>3. QED BY <2>1, <2>2 DEF p
<1> HIDE DEF v
<1>6. v \in Nat /\ v < 2^w /\ 0 + w = w
  BY <1>1, <1>5
<1>7. v < 2^(0 + w)
  BY <1>6
<1>8. Typed(Node(<<0, w>>, v), 0, w) /\ Node(<<0, w>>, v).raw = v
  BY <1>1, <1>6, <1>7, MaskedFits
<1>9. QED BY <1>3, <1>8 DEF Typed, v, w, q

\* Dropping the implicit bit keeps the fraction.
LEMMA DropValue ==
  ASSUME NEW n, NEW G \in Nat, G >= 1, Typed(n, 1, G)
  PROVE  /\ Typed(drop_implicit_bit(n), 0, G) /\ drop_implicit_bit(n).raw = n.raw % 2^G
         /\ n.raw % 2^G \in Nat /\ n.raw % 2^G < 2^G
<1> DEFINE v == n.raw % 2^G
<1>1. IsNode(n) /\ n.int = 1 /\ n.frac = G /\ n.raw \in Nat
  BY NodeFields DEF Typed
<1>2. v \in Nat /\ v < 2^G
  <2> DEFINE p == 2^G
             a == n.raw
  <2>1. p \in Nat /\ p > 0 /\ a \in Int
    BY <1>1, PowerPositive
  <2> HIDE DEF p, a
  <2>2. a % p \in 0 .. (p - 1)
    BY <2>1, Divided
  <2>3. a % p \in Nat /\ a % p < p
    BY <2>1, <2>2
  <2>4. QED BY <2>3 DEF p, a
<1>3. drop_implicit_bit(n) = Node(<<0, G>>, v)
  <2>1. (IF n.frac > 0 THEN Larger(0, Smaller(G - 1, n.frac - 1) - 0 + 1) ELSE 0) = G
    BY <1>1 DEF Larger, Smaller
  <2>2. drop_implicit_bit(n) = basic_select(n, G - 1, 0, <<((G - 1) - 0 + 1) - G, G>>)
    BY <1>1, <2>1 DEF drop_implicit_bit, uq_select
  <2>3. ((G - 1) - 0 + 1) - G = 0 /\ (G - 1) - 0 + 1 = G /\ 2^0 = 1
    OBVIOUS
  <2>4. n.raw \div 1 = n.raw
    BY <1>1
  <2>5. basic_select(n, G - 1, 0, <<0, G>>) = Node(<<0, G>>, (n.raw \div 2^0) % 2^((G - 1) - 0 + 1))
    BY DEF basic_select
  <2>6. QED BY <2>2, <2>3, <2>4, <2>5
<1> HIDE DEF v
<1>4. 0 + G = G /\ v < 2^(0 + G)
  BY <1>2
<1>5. Typed(Node(<<0, G>>, v), 0, G) /\ Node(<<0, G>>, v).raw = v
  BY <1>2, <1>4, MaskedFits
<1>6. QED BY <1>2, <1>3, <1>5 DEF v

\* Bits.
LEMMA BitValue ==
  ASSUME NEW a, IsNode(a), NEW b, IsNode(b)
  PROVE  /\ basic_or_reduce(a, Bit).raw = IF a.raw > 0 THEN 1 ELSE 0
         /\ basic_and_reduce(a, Bit).raw = IF a.raw = 2^total_bits(a) - 1 THEN 1 ELSE 0
         /\ uq_is_zero(a).raw = IF a.raw = 0 THEN 1 ELSE 0
         /\ a.raw \in {0, 1} /\ b.raw \in {0, 1} =>
              /\ bit_and(a, b).raw = a.raw * b.raw
              /\ bit_or(a, b).raw = Larger(a.raw, b.raw)
<1>1. basic_or_reduce(a, Bit).raw = IF a.raw > 0 THEN 1 ELSE 0
  <2> DEFINE v == IF a.raw > 0 THEN 1 ELSE 0
  <2>1. v \in {0, 1} /\ basic_or_reduce(a, Bit) = Node(Bit, v)
    BY DEF basic_or_reduce
  <2> HIDE DEF v
  <2>2. Node(Bit, v).raw = v
    BY <2>1, BitOf
  <2>3. QED BY <2>1, <2>2 DEF v
<1>2. basic_and_reduce(a, Bit).raw = IF a.raw = 2^total_bits(a) - 1 THEN 1 ELSE 0
  <2> DEFINE v == IF a.raw = 2^total_bits(a) - 1 THEN 1 ELSE 0
  <2>1. v \in {0, 1} /\ basic_and_reduce(a, Bit) = Node(Bit, v)
    BY DEF basic_and_reduce
  <2> HIDE DEF v
  <2>2. Node(Bit, v).raw = v
    BY <2>1, BitOf
  <2>3. QED BY <2>1, <2>2 DEF v
<1>3. uq_is_zero(a).raw = IF a.raw = 0 THEN 1 ELSE 0
  <2> DEFINE d == basic_or_reduce(a, Bit)
             v == IF a.raw > 0 THEN 1 ELSE 0
             z == IF a.raw = 0 THEN 1 ELSE 0
  <2>1. d = Node(Bit, v) /\ v \in {0, 1} /\ 1 - v = z /\ z \in {0, 1}
    BY NodeFields DEF basic_or_reduce
  <2> HIDE DEF d, v, z
  <2>2. d.raw = v /\ d.int = 1 /\ d.frac = 0
    BY <2>1, BitOf
  <2>3. 2^total_bits(d) = 2
    BY <2>2 DEF total_bits
  <2>4. uq_is_zero(a) = Node(Bit, (2^total_bits(d) - 1) - d.raw)
    BY DEF uq_is_zero, basic_invert, d
  <2>5. uq_is_zero(a) = Node(Bit, z)
    BY <2>1, <2>2, <2>3, <2>4
  <2>6. QED BY <2>1, <2>5, BitOf DEF z
<1>4. ASSUME a.raw \in {0, 1}, b.raw \in {0, 1}
      PROVE  bit_and(a, b).raw = a.raw * b.raw /\ bit_or(a, b).raw = Larger(a.raw, b.raw)
  <2> DEFINE v == a.raw * b.raw
             l == Larger(a.raw, b.raw)
  <2>1. /\ v \in {0, 1} /\ l \in {0, 1} /\ bit_and(a, b) = Node(Bit, v)
        /\ bit_or(a, b) = Node(Bit, l)
    BY <1>4 DEF bit_and, bit_or, Larger
  <2> HIDE DEF v, l
  <2>2. Node(Bit, v).raw = v /\ Node(Bit, l).raw = l
    BY <2>1, BitOf
  <2>3. QED BY <2>1, <2>2 DEF v, l
<1>5. QED BY <1>1, <1>2, <1>3, <1>4

\* The last bit kept of n is that of t, and guard, round and sticky bits are g, b, rest.
CutAt(n, c, t, g, b, rest) ==
  /\ n \div 2^c = t /\ n \div 2^(c - 1) = 2 * t + g /\ n \div 2^(c - 2) = 4 * t + 2 * g + b
  /\ n % 2^(c - 2) = rest
  /\ HalfEven(n, c) = t + (IF g = 1 /\ (b = 1 \/ rest > 0 \/ t % 2 = 1) THEN 1 ELSE 0)

\* The bits of n at the end of what is kept: the last one kept, guard, round and sticky.
LEMMA Cut ==
  ASSUME NEW n \in Nat, NEW c \in Nat, c >= 2
  PROVE  \E t \in Nat, g \in {0, 1}, b \in {0, 1}, rest \in Nat :
           rest < 2^(c - 2) /\ CutAt(n, c, t, g, b, rest)
<1> DEFINE C == 2^c
           h == 2^(c - 1)
           q == 2^(c - 2)
<1>1. C = 2 * h /\ h = 2 * q /\ q \in Nat /\ q > 0 /\ h \in Nat /\ C \in Nat
  <2>1. c - 1 \in Nat /\ c - 2 \in Nat /\ c - 1 >= 1 /\ (c - 1) - 1 = c - 2
    OBVIOUS
  <2>2. 2^c = 2 * 2^(c - 1) /\ 2^(c - 1) = 2 * 2^(c - 2)
    BY <2>1, PowersOf
  <2>3. 2^(c - 2) \in Nat /\ 2^(c - 2) > 0
    BY <2>1, PowerPositive
  <2>4. QED BY <2>2, <2>3
<1>2. \E t \in Nat, w \in Nat : Splits(n, c, t, w)
  BY SplitsAt
<1>3. PICK t \in Nat, w \in Nat : Splits(n, c, t, w)
  BY <1>2
<1> DEFINE g  == IF w >= h THEN 1 ELSE 0
           w1 == w - g * h
           b  == IF w1 >= q THEN 1 ELSE 0
           rest == w1 - b * q
<1>4. n = C * t + w /\ w < C
  BY <1>3 DEF Splits
<1>5. HalfEven(n, c) = t + (IF w > h \/ (w = h /\ t % 2 = 1) THEN 1 ELSE 0)
  BY <1>3, HalfEvenOf
<1> HIDE DEF C, h, q
<1>6. g \in {0, 1} /\ w = g * h + w1 /\ w1 \in Nat /\ w1 < h
  BY <1>1, <1>4
<1> HIDE DEF g, w1
<1>7. b \in {0, 1} /\ w1 = b * q + rest /\ rest \in Nat /\ rest < q
  BY <1>1, <1>6
<1> HIDE DEF b, rest
<1>8. g = 0 \/ g = 1
  BY <1>6
<1>9. b = 0 \/ b = 1
  BY <1>7
<1>10. n = h * (2 * t + g) + w1
  <2>1. CASE g = 0
    BY <1>1, <1>4, <1>6, <2>1
  <2>2. CASE g = 1
    BY <1>1, <1>4, <1>6, <2>2
  <2>3. QED BY <1>8, <2>1, <2>2
<1>11. n = q * (4 * t + 2 * g + b) + rest
  <2> DEFINE y == 2 * t + g
  <2>1. y \in Nat /\ n = h * y + w1 /\ 4 * t + 2 * g + b = 2 * y + b
    BY <1>6, <1>7, <1>10
  <2> HIDE DEF y
  <2>2. n = q * (2 * y + b) + rest
    <3>1. CASE b = 0
      BY <1>1, <1>7, <2>1, <3>1
    <3>2. CASE b = 1
      BY <1>1, <1>7, <2>1, <3>2
    <3>3. QED BY <1>9, <3>1, <3>2
  <2>3. QED BY <2>1, <2>2
<1>12. n \div C = t
  BY <1>1, <1>4, DivisionOf
<1>13. n \div h = 2 * t + g
  <2> DEFINE y == 2 * t + g
  <2>1. y \in Int /\ n = h * y + w1
    BY <1>6, <1>10
  <2> HIDE DEF y
  <2>2. n \div h = y
    BY <1>1, <1>6, <2>1, DivisionOf
  <2>3. QED BY <2>2 DEF y
<1>14. n \div q = 4 * t + 2 * g + b /\ n % q = rest
  <2> DEFINE y == 4 * t + 2 * g + b
  <2>1. y \in Int /\ n = q * y + rest
    BY <1>6, <1>7, <1>11
  <2> HIDE DEF y
  <2>2. q \in Nat /\ q > 0 /\ rest \in Int /\ 0 <= rest /\ rest < q
    BY <1>1, <1>7
  <2>3. n \div q = y /\ n % q = rest
    BY ONLY <2>1, <2>2, DivisionOf
  <2>4. QED BY <2>3 DEF y
<1>15. (w > h \/ (w = h /\ t % 2 = 1)) <=> (g = 1 /\ (b = 1 \/ rest > 0 \/ t % 2 = 1))
  <2> DEFINE o == (t % 2 = 1)
  <2> HIDE DEF o
  <2>1. CASE g = 0
    BY <1>1, <1>6, <2>1
  <2>2. CASE g = 1 /\ b = 1
    BY <1>1, <1>6, <1>7, <2>2
  <2>3. CASE g = 1 /\ b = 0
    <3>1. w = h + rest
      BY <1>1, <1>6, <1>7, <2>3
    <3>2. (w > h <=> rest > 0) /\ (w = h <=> rest = 0)
      BY <1>1, <1>7, <3>1
    <3>3. QED BY <2>3, <3>2, <1>7
  <2>4. QED BY <1>8, <1>9, <2>1, <2>2, <2>3
<1>16. CutAt(n, c, t, g, b, rest)
  <2>1. HalfEven(n, c) = t + (IF g = 1 /\ (b = 1 \/ rest > 0 \/ t % 2 = 1) THEN 1 ELSE 0)
    BY <1>5, <1>15
  <2>2. QED BY <1>12, <1>13, <1>14, <2>1 DEF CutAt, C, h, q
<1>17. rest < 2^(c - 2)
  BY <1>7 DEF q
<1>18. QED BY <1>3, <1>6, <1>7, <1>16, <1>17

\* One bit, and the low bits, of a fraction.
LEMMA BitAt ==
  ASSUME NEW d, NEW G \in Nat, Typed(d, 0, G), NEW j \in Nat, j < G
  PROVE  IsNode(uq_select(d, j, j)) /\ uq_select(d, j, j).raw = (d.raw \div 2^j) % 2
<1>1. IsNode(uq_select(d, j, j)) /\ uq_select(d, j, j).raw = (d.raw \div 2^j) % 2^(j - j + 1)
  <2>1. j <= j
    OBVIOUS
  <2>2. QED BY <2>1, SelectValue
<1>2. j - j + 1 = 1 /\ 2^1 = 2
  OBVIOUS
<1>3. QED BY <1>1, <1>2

\* The bits below a bit of a fraction.
LEMMA LowBits ==
  ASSUME NEW d, NEW G \in Nat, Typed(d, 0, G), NEW j \in Nat, j < G
  PROVE  IsNode(uq_select(d, j, 0)) /\ uq_select(d, j, 0).raw = d.raw % 2^(j + 1)
<1>1. IsNode(uq_select(d, j, 0)) /\ uq_select(d, j, 0).raw = (d.raw \div 2^0) % 2^(j - 0 + 1)
  <2>1. 0 \in Nat /\ 0 <= j
    OBVIOUS
  <2>2. QED BY <2>1, SelectValue
<1>2. d.raw \in Nat
  BY NodeFields DEF Typed
<1>3. j - 0 + 1 = j + 1 /\ 2^0 = 1 /\ d.raw \div 1 = d.raw
  BY <1>2
<1>4. QED BY <1>1, <1>3

\* Rounding a fraction: the mantissa and the carry together are the number of
\* units it is rounded to.
LEMMA RNEValue ==
  ASSUME NEW d, NEW mb \in Nat, mb >= 1, NEW c \in Nat, c >= 2, Typed(d, 0, mb + c)
  PROVE  LET both == uq_RNE_IEEE(d, c) IN
         /\ Typed(both[1], 0, mb)
         /\ IsNode(both[2]) /\ both[2].frac = 0 /\ both[2].raw \in {0, 1}
         /\ both[2].raw * 2^mb + both[1].raw = HalfEven(d.raw, c)
<1> DEFINE target_bits == total_bits(d) - c
           target_int  == Smaller(d.int, target_bits)
           target_frac == Larger(target_bits - target_int, 0)
           no          == Node(Bit, 0)
           at(j)       == uq_select(d, j, j)
           guard       == at(c - 1)
           round_bit   == at(c - 2)
           sticky      == IF c > 2 THEN basic_or_reduce(uq_select(d, c - 3, 0), Bit) ELSE no
           either      == bit_or(round_bit, sticky)
           last        == at(c)
           tail        == bit_or(either, last)
           increment   == bit_and(guard, tail)
           truncated   == uq_resize(d, 0, mb)
           full        == basic_and_reduce(truncated, Bit)
           overflow    == bit_and(full, increment)
           rounded     == basic_add(truncated, increment, <<0, mb>>)
           G           == mb + c
           D           == d.raw
           M           == 2^mb
<1>1. IsNode(d) /\ d.int = 0 /\ d.frac = G /\ D \in Nat /\ G \in Nat /\ total_bits(d) = G
      /\ D < 2^G
  BY NodeFields DEF Typed
<1>2. uq_RNE_IEEE(d, c) = <<rounded, overflow>>
  <2>1. target_bits = mb /\ target_int = 0 /\ target_frac = mb
    BY <1>1 DEF Smaller, Larger
  <2>2. c >= 1 /\ c >= 2
    OBVIOUS
  <2>3. uq_RNE_IEEE(d, c) =
          << basic_add(uq_resize(d, target_int, target_frac), increment, <<target_int, target_frac>>),
             bit_and(basic_and_reduce(uq_resize(d, target_int, target_frac), Bit), increment) >>
    BY <2>2 DEF uq_RNE_IEEE
  <2> HIDE DEF increment, target_int, target_frac, target_bits
  <2>4. QED BY <2>1, <2>3
<1>3. PICK t \in Nat, g \in {0, 1}, b \in {0, 1}, rest \in Nat :
           rest < 2^(c - 2) /\ CutAt(D, c, t, g, b, rest)
  <2>1. \E t \in Nat, g \in {0, 1}, b \in {0, 1}, rest \in Nat : rest < 2^(c - 2) /\ CutAt(D, c, t, g, b, rest)
    <3> HIDE DEF D
    <3>1. QED BY <1>1, Cut
  <2>2. QED BY <2>1
<1>4. c \in Nat /\ c - 1 \in Nat /\ c - 2 \in Nat /\ c < G /\ c - 1 < G /\ c - 2 < G
  BY <1>1
<1> HIDE DEF G
<1>5. \A j \in Nat : j < G => IsNode(at(j)) /\ at(j).raw = (D \div 2^j) % 2
  <2>1. SUFFICES ASSUME NEW j \in Nat, j < G PROVE IsNode(at(j)) /\ at(j).raw = (D \div 2^j) % 2
    OBVIOUS
  <2>2. Typed(d, 0, G)
    BY <1>1 DEF Typed
  <2>3. IsNode(uq_select(d, j, j)) /\ uq_select(d, j, j).raw = (d.raw \div 2^j) % 2
    BY ONLY <1>1, <2>1, <2>2, BitAt
  <2>4. QED BY <2>3
<1>6. /\ IsNode(guard) /\ guard.raw = g
      /\ IsNode(round_bit) /\ round_bit.raw = b
      /\ IsNode(last) /\ last.raw = t % 2
  <2>1. /\ D \div 2^c = t /\ D \div 2^(c - 1) = 2 * t + g /\ D \div 2^(c - 2) = 4 * t + 2 * g + b
    BY <1>3 DEF CutAt
  <2>2. (2 * t + g) % 2 = g /\ (4 * t + 2 * g + b) % 2 = b
    BY <1>3
  <2>3. /\ at(c - 1).raw = (D \div 2^(c - 1)) % 2 /\ at(c - 2).raw = (D \div 2^(c - 2)) % 2
        /\ at(c).raw = (D \div 2^c) % 2 /\ IsNode(at(c - 1)) /\ IsNode(at(c - 2)) /\ IsNode(at(c))
    <3> HIDE DEF at, D
    <3>1. QED BY <1>4, <1>5
  <2> HIDE DEF at, D
  <2>4. QED BY <2>1, <2>2, <2>3
<1>7. IsNode(sticky) /\ sticky.raw = IF rest > 0 THEN 1 ELSE 0
  <2>1. CASE c = 2
    <3>1. rest = 0
      <4>1. c - 2 = 0 /\ 2^0 = 1
        BY <2>1
      <4>2. 2^(c - 2) = 1
        BY <4>1
      <4>3. QED BY <1>3, <4>2
    <3>2. sticky = no
      BY <2>1
    <3>3. QED BY <3>1, <3>2, BitOf
  <2>2. CASE c > 2
    <3> DEFINE low == uq_select(d, c - 3, 0)
    <3>1. IsNode(low) /\ low.raw = d.raw % 2^(c - 3 + 1)
      <4> DEFINE j == c - 3
      <4>1. j \in Nat /\ j < G /\ Typed(d, 0, G)
        BY <1>1, <1>4, <2>2 DEF Typed
      <4> HIDE DEF j
      <4>2. IsNode(uq_select(d, j, 0)) /\ uq_select(d, j, 0).raw = d.raw % 2^(j + 1)
        BY ONLY <1>1, <4>1, LowBits
      <4>3. QED BY <4>2 DEF j
    <3>2. c - 3 + 1 = c - 2
      OBVIOUS
    <3>3. low.raw = rest
      <4>1. low.raw = D % 2^(c - 2)
        BY <3>1, <3>2
      <4>2. QED BY <1>3, <4>1 DEF CutAt
    <3> HIDE DEF low
    <3>4. sticky = basic_or_reduce(low, Bit)
      BY <2>2 DEF low
    <3>5. IsNode(basic_or_reduce(low, Bit)) /\ basic_or_reduce(low, Bit).raw = IF low.raw > 0 THEN 1 ELSE 0
      BY <3>1, BitTyped, BitValue DEF Typed
    <3>6. QED BY <3>3, <3>4, <3>5
  <2>3. QED BY <2>1, <2>2
<1>8. t % 2 \in {0, 1}
  OBVIOUS
<1> HIDE DEF guard, round_bit, last, sticky
<1>9. /\ IsNode(increment)
      /\ increment.raw = IF g = 1 /\ (b = 1 \/ rest > 0 \/ t % 2 = 1) THEN 1 ELSE 0
  <2>1. IsNode(either) /\ either.raw = Larger(b, IF rest > 0 THEN 1 ELSE 0)
    BY <1>3, <1>6, <1>7, BitTyped, BitValue DEF Typed
  <2>2. either.raw \in {0, 1} /\ (either.raw = 1 <=> (b = 1 \/ rest > 0))
    BY <1>3, <2>1 DEF Larger
  <2> HIDE DEF either
  <2> DEFINE o == (t % 2)
  <2>3. o \in {0, 1} /\ last.raw = o
    BY <1>6, <1>8
  <2> HIDE DEF o
  <2>4. IsNode(tail) /\ tail.raw = Larger(either.raw, o)
    BY <1>6, <2>1, <2>2, <2>3, BitTyped, BitValue DEF Typed
  <2>5. tail.raw \in {0, 1} /\ (tail.raw = 1 <=> (b = 1 \/ rest > 0 \/ o = 1))
    BY <2>2, <2>3, <2>4 DEF Larger
  <2> HIDE DEF tail
  <2>6. IsNode(increment) /\ increment.raw = g * tail.raw
    BY <1>3, <1>6, <2>4, <2>5, BitTyped, BitValue DEF Typed
  <2> HIDE DEF increment
  <2>7. increment.raw = IF g = 1 /\ tail.raw = 1 THEN 1 ELSE 0
    BY <1>3, <2>5, <2>6
  <2>8. QED BY <2>5, <2>6, <2>7 DEF o
<1> HIDE DEF increment
<1> DEFINE inc == increment.raw
<1>10. inc \in {0, 1} /\ HalfEven(D, c) = t + inc
  BY <1>3, <1>9 DEF CutAt
<1> HIDE DEF inc
<1>11. M \in Nat /\ M > 0 /\ t < M
  <2>1. M \in Nat /\ M > 0 /\ 2^c \in Nat /\ 2^c > 0
    BY PowerPositive
  <2>2. 2^G = M * 2^c
    BY PowerSum DEF G
  <2>3. D \div 2^c = t
    BY <1>3 DEF CutAt
  <2> DEFINE C == 2^c
             z == D \div C
             w == (D % C)
  <2>4. C \in Nat /\ C > 0 /\ z = t /\ D < M * C
    BY <1>1, <2>1, <2>2, <2>3
  <2> HIDE DEF C, D
  <2>5. z \in Int /\ w \in 0 .. (C - 1) /\ w = D - C * z
    BY <1>1, <2>4, Divided
  <2> HIDE DEF z, w
  <2>6. C * t <= D /\ M \in Nat /\ t \in Nat
    BY <1>1, <1>3, <2>1, <2>4, <2>5
  <2> HIDE DEF M
  <2>7. t < M
    <3>1. ASSUME M <= t PROVE FALSE
      <4>1. M * C <= C * t
        BY <2>4, <2>6, <3>1
      <4>2. M * C \in Nat
        BY <2>4, <2>6
      <4>3. QED BY <1>1, <2>4, <2>6, <4>1, <4>2
    <3>2. QED BY <2>6, <3>1
  <2>8. QED BY <2>1, <2>7
<1>12. Typed(truncated, 0, mb) /\ truncated.raw = t
  <2>1. UQ_from_int(c).raw = c
    BY ConstantRaw
  <2>2. d.frac - mb = c /\ mb < d.frac
    BY <1>1 DEF G
  <2>3. ~ (mb > d.frac)
    BY <1>1, <2>2
  <2>4. truncated = basic_rshift(d, UQ_from_int(c), <<0, mb>>)
    BY <2>2, <2>3 DEF uq_resize
  <2>5. ~ (c >= total_bits(d))
    BY <1>1, <1>4
  <2>6. truncated = Node(<<0, mb>>, D \div 2^c)
    BY <2>1, <2>4, <2>5 DEF basic_rshift
  <2>7. truncated = Node(<<0, mb>>, t)
    BY <1>3, <2>6 DEF CutAt
  <2>8. 0 + mb = mb /\ t < 2^(0 + mb) /\ 0 \in Nat
    BY <1>11
  <2> HIDE DEF truncated
  <2>9. QED BY <2>7, <2>8, MaskedFits
<1> HIDE DEF truncated
<1>13. IsNode(full) /\ full.raw = IF t = M - 1 THEN 1 ELSE 0
  <2>1. IsNode(truncated) /\ total_bits(truncated) = mb
    BY <1>12 DEF Typed, total_bits
  <2>2. /\ IsNode(full)
        /\ full.raw = IF truncated.raw = 2^total_bits(truncated) - 1 THEN 1 ELSE 0
    BY <2>1, BitTyped, BitValue DEF Typed
  <2>3. 2^total_bits(truncated) = M
    BY <2>1
  <2> HIDE DEF M, full
  <2>4. QED BY <1>12, <2>2, <2>3
<1> HIDE DEF full
<1>14. /\ IsNode(overflow) /\ overflow.frac = 0
       /\ overflow.raw = IF t = M - 1 /\ inc = 1 THEN 1 ELSE 0
  <2>1. IsNode(increment) /\ increment.raw = inc
    BY <1>9 DEF inc
  <2>2. IsNode(overflow) /\ overflow.frac = 0 /\ overflow.raw = full.raw * inc
    BY <1>10, <1>13, <2>1, BitTyped, BitValue DEF Typed
  <2>3. QED BY <1>10, <1>13, <2>2
<1> HIDE DEF overflow
<1> DEFINE ov == overflow.raw
<1>15. Typed(rounded, 0, mb) /\ rounded.raw = t + inc - ov * M
  <2> DEFINE v == t + inc - ov * M
  <2>1. v \in Nat /\ v < M /\ ov \in Int
    <3>1. CASE ov = 1
      <4>1. t = M - 1 /\ inc = 1
        BY <1>14, <3>1
      <4>2. v = 0
        BY <1>11, <3>1, <4>1
      <4>3. QED BY <1>11, <3>1, <4>2
    <3>2. CASE ov = 0
      <4>1. v = t + inc
        BY <1>10, <1>11, <3>2
      <4>2. ~ (t = M - 1 /\ inc = 1)
        BY <1>14, <3>2
      <4>3. QED BY <1>10, <1>11, <3>2, <4>1, <4>2
    <3>3. QED BY <1>14, <3>1, <3>2
  <2>2. rounded = Node(<<0, mb>>, t + inc)
    BY <1>12 DEF basic_add, inc
  <2>3. t + inc = v + ov * M
    BY <1>10, <1>11, <2>1
  <2> HIDE DEF v, rounded, ov
  <2>4. 0 + mb = mb /\ 0 \in Nat /\ v < 2^(0 + mb)
    BY <2>1
  <2>5. Node(<<0, mb>>, v + ov * 2^(0 + mb)).raw = v
    BY <2>1, <2>4, MaskedValue
  <2>6. Typed(Node(<<0, mb>>, t + inc), 0, mb)
    <3>1. t + inc \in Int
      BY <1>10
    <3>2. QED BY <2>4, <3>1, NodeTyped
  <2>7. rounded.raw = v
    BY <2>2, <2>3, <2>4, <2>5
  <2>8. QED BY <2>2, <2>6, <2>7 DEF v
<1>16. ov * M + rounded.raw = t + inc
  <2>1. ov \in {0, 1}
    BY <1>14
  <2>2. QED BY <1>10, <1>11, <1>15, <2>1
<1>17. ov \in {0, 1}
  BY <1>14
<1> HIDE DEF rounded
<1>18. QED BY <1>2, <1>10, <1>14, <1>15, <1>16, <1>17

\* The rounded mantissa and the exponent it carries into.
LEMMA RoundValue ==
  ASSUME NEW n, NEW mb \in Nat, mb >= 1, NEW G \in Nat, mb + 2 <= G, Typed(n, 1, G),
         NEW k, IsNode(k), k.frac = 0
  PROVE  LET both == round_mantissa(drop_implicit_bit(n), k, mb) IN
         /\ Typed(both[1], 0, mb)
         /\ IsNode(both[2]) /\ both[2].frac = 0
         /\ both[2].raw * 2^mb + both[1].raw = k.raw * 2^mb + HalfEven(n.raw % 2^G, G - mb)
<1> DEFINE d        == drop_implicit_bit(n)
           c        == G - mb
           rne      == uq_RNE_IEEE(d, c)
           rounded  == rne[1]
           overflow == rne[2]
           next_e   == uq_add(k, overflow)
           zero_e   == uq_is_zero(k)
           some_e   == basic_or_reduce(next_e, Bit)
           normal   == bit_and(zero_e, some_e)
           none     == Node(dtype(rounded), 0)
           final    == basic_mux_2_1(normal, rounded, none, dtype(rounded))
           M        == 2^mb
<1>1. Typed(d, 0, G) /\ d.raw = n.raw % 2^G /\ d.raw \in Nat /\ d.raw < 2^G
  <2>1. G >= 1
    OBVIOUS
  <2>2. QED BY <2>1, DropValue
<1>2. c \in Nat /\ c >= 2 /\ mb + c = G /\ Larger(total_bits(d) - mb, 0) = c
  <2>1. total_bits(d) = G
    BY <1>1 DEF Typed, total_bits
  <2> HIDE DEF d
  <2>2. QED BY <2>1 DEF Larger
<1>3. round_mantissa(d, k, mb) = <<final, next_e>>
  BY <1>2 DEF round_mantissa
<1> HIDE DEF d, c
<1>4. /\ Typed(rounded, 0, mb)
      /\ IsNode(overflow) /\ overflow.frac = 0 /\ overflow.raw \in {0, 1}
      /\ overflow.raw * M + rounded.raw = HalfEven(d.raw, c)
  <2>1. Typed(d, 0, mb + c)
    BY <1>1, <1>2
  <2>2. mb \in Nat /\ c \in Nat /\ c >= 2
    BY <1>2
  <2>3. QED BY <2>1, <2>2, RNEValue, ZenonT(60)
<1> HIDE DEF rounded, overflow, rne
<1>5. IsNode(next_e) /\ next_e.frac = 0 /\ next_e.raw = k.raw + overflow.raw
  BY <1>4, UnsignedSum
<1>6. k.raw \in Nat /\ M \in Nat /\ M > 0 /\ rounded.raw \in Nat /\ rounded.raw < M
      /\ IsNode(rounded) /\ total_bits(rounded) = mb
  <2>1. IsNode(rounded) /\ total_bits(rounded) = mb
    BY <1>4 DEF Typed, total_bits
  <2>2. 2^total_bits(rounded) = M
    BY <2>1
  <2>3. rounded.raw \in Nat /\ rounded.raw < 2^total_bits(rounded)
    BY <2>1, NodeFields
  <2>4. k.raw \in Nat /\ M \in Nat /\ M > 0
    BY NodeFields, PowerPositive
  <2> HIDE DEF M
  <2>5. QED BY <2>1, <2>2, <2>3, <2>4
<1>7. normal.raw = IF k.raw = 0 /\ overflow.raw = 1 THEN 1 ELSE 0
  <2>1. IsNode(zero_e) /\ zero_e.raw = IF k.raw = 0 THEN 1 ELSE 0
    BY BitTyped, BitValue DEF Typed
  <2>2. IsNode(some_e) /\ some_e.raw = IF next_e.raw > 0 THEN 1 ELSE 0
    BY <1>5, BitTyped, BitValue DEF Typed
  <2> HIDE DEF zero_e, some_e
  <2>3. normal.raw = zero_e.raw * some_e.raw
    BY <2>1, <2>2, BitValue
  <2>4. QED BY <1>4, <1>5, <1>6, <2>1, <2>2, <2>3
<1>8. normal.raw = 1 => rounded.raw = 0
  <2>1. SUFFICES ASSUME normal.raw = 1 PROVE rounded.raw = 0
    OBVIOUS
  <2>2. overflow.raw = 1
    BY <1>7, <2>1
  <2>3. HalfEven(d.raw, c) <= M
    <3>1. d.raw \in Nat /\ d.raw < 2^(mb + c)
      <4>1. 2^G = 2^(mb + c)
        BY <1>2
      <4>2. QED BY <1>1, <4>1
    <3>2. Rounded(d.raw, -c) <= 2^mb
      <4> DEFINE a == d.raw
                 l == mb + c
                 j == -c
      <4>1. a \in Nat /\ l \in Nat /\ a < 2^l /\ j \in Int /\ j <= mb - l
        BY <1>2, <3>1
      <4> HIDE DEF a, l, j
      <4>2. Rounded(a, j) <= 2^mb
        BY <4>1, RoundedBound
      <4>3. QED BY <4>2 DEF a, j
    <3>3. Rounded(d.raw, -c) = HalfEven(d.raw, c)
      <4>1. ~ (-c >= 0) /\ -(-c) = c
        BY <1>2
      <4>2. QED BY <4>1 DEF Rounded
    <3>4. QED BY <3>2, <3>3
  <2> DEFINE h == HalfEven(d.raw, c)
  <2>4. h <= M /\ 1 * M + rounded.raw = h
    BY <1>4, <2>2, <2>3
  <2> HIDE DEF h, M
  <2>5. QED BY <1>6, <2>4
<1> HIDE DEF normal, next_e
<1>9. Typed(final, 0, mb) /\ final.raw = rounded.raw
  <2>1. IsNode(none) /\ none.raw = 0
    <3>1. none = Node(<<0, mb>>, 0)
      BY <1>4 DEF dtype, Typed
    <3>2. 0 \in Nat /\ 0 < 2^(0 + mb)
      BY <1>6
    <3>3. QED BY <3>1, <3>2, MaskedFits DEF Typed
  <2>2. Typed(final, rounded.int, rounded.frac)
    BY <1>6, <2>1, MuxTyped
  <2>3. rounded.raw < 2^total_bits(rounded) /\ none.raw < 2^total_bits(rounded)
    BY <1>6, <2>1, NodeFields, PowerPositive
  <2> HIDE DEF none
  <2>4. final.raw = IF normal.raw = 1 THEN none.raw ELSE rounded.raw
    BY <1>6, <2>1, <2>3, MuxValue
  <2>5. QED BY <1>4, <1>8, <2>1, <2>2, <2>4 DEF Typed
<1> HIDE DEF final
<1>10. next_e.raw * M + final.raw = k.raw * M + HalfEven(d.raw, c)
  <2> DEFINE h == HalfEven(d.raw, c)
             o == overflow.raw
  <2>1. o \in {0, 1} /\ o * M + rounded.raw = h /\ next_e.raw = k.raw + o /\ k.raw \in Nat
        /\ M \in Nat /\ final.raw = rounded.raw /\ rounded.raw \in Nat
    BY <1>4, <1>5, <1>6, <1>9
  <2> HIDE DEF h, o, M
  <2>2. (k.raw + o) * M = k.raw * M + o * M
    BY <2>1
  <2>3. k.raw * M \in Int /\ o * M \in Int
    BY <2>1
  <2>4. QED BY <2>1, <2>2, <2>3 DEF h
<1>11. HalfEven(d.raw, c) = HalfEven(n.raw % 2^G, G - mb)
  BY <1>1 DEF c
<1>12. QED BY <1>3, <1>5, <1>9, <1>10, <1>11 DEF d, M

-----------------------------------------------------------------------------
(* The final fields.                                                       *)

\* Comparisons of unsigned integers.
LEMMA Compared ==
  ASSUME NEW a, IsNode(a), a.frac = 0, NEW b, IsNode(b), b.frac = 0
  PROVE  /\ IsNode(uq_gt(a, b)) /\ uq_gt(a, b).raw = IF a.raw > b.raw THEN 1 ELSE 0
         /\ IsNode(uq_eq(a, b)) /\ uq_eq(a, b).raw = IF a.raw = b.raw THEN 1 ELSE 0
<1>1. uq_fraction(a, b) = 0 /\ uq_fraction(b, a) = 0
  BY DEF uq_fraction, Larger
<1>2. uq_align(a, 0) = a /\ uq_align(b, 0) = b
  BY DEF uq_align
<1>3. uq_gt(a, b) = basic_less(b, a, Bit) /\ uq_eq(a, b) = basic_equal(a, b, Bit)
  BY <1>1, <1>2 DEF uq_gt, uq_lt, uq_eq
<1> DEFINE v == IF b.raw < a.raw THEN 1 ELSE 0
           w == IF a.raw = b.raw THEN 1 ELSE 0
<1>4. v \in {0, 1} /\ w \in {0, 1} /\ v = IF a.raw > b.raw THEN 1 ELSE 0
  BY NodeFields
<1>5. uq_gt(a, b) = Node(Bit, v) /\ uq_eq(a, b) = Node(Bit, w)
  BY <1>3 DEF basic_less, basic_equal, TruthBit
<1> HIDE DEF v, w
<1>6. /\ IsNode(Node(Bit, v)) /\ Node(Bit, v).raw = v
      /\ IsNode(Node(Bit, w)) /\ Node(Bit, w).raw = w
  BY <1>4, BitOf
<1>7. QED BY <1>4, <1>5, <1>6 DEF w

\* An exponent is cut at the greatest code.
LEMMA ClampValue ==
  ASSUME NEW f, f.exponent_bits \in Nat, NEW k, IsNode(k), k.frac = 0,
         NEW top \in Nat, top < 2^f.exponent_bits
  PROVE  clamped_exponent(f, k, top).raw = Smaller(k.raw, top)
<1> DEFINE limit == UQ_from_int(top)
           eb    == f.exponent_bits
           i     == Larger(k.int, limit.int)
           v     == Smaller(k.raw, top)
<1>1. IsNode(limit) /\ limit.frac = 0 /\ limit.raw = top
  BY ConstantTyped, ConstantRaw
<1> HIDE DEF limit
<1>2. k.raw \in Nat /\ k.raw < 2^k.int /\ k.int \in Nat /\ limit.int \in Nat /\ k.int <= i /\ i \in Nat
  <2>1. k.int + 0 = k.int /\ total_bits(k) = k.int
    BY NodeFields
  <2>2. k.raw \in Nat /\ k.raw < 2^k.int /\ k.int \in Nat /\ limit.int \in Nat
    BY <1>1, <2>1, NodeFields
  <2>3. QED BY <2>2 DEF Larger
<1>3. v \in Nat /\ v <= k.raw /\ v <= top
  BY <1>2 DEF Smaller
<1>4. uq_min(k, limit) = Node(<<i, 0>>, v)
  <2>1. uq_fraction(k, limit) = 0 /\ uq_align(k, 0) = k /\ uq_align(limit, 0) = limit
    BY <1>1 DEF uq_fraction, uq_align, Larger
  <2>2. uq_min(k, limit) = basic_min(k, limit, <<i, 0>>)
    BY <2>1 DEF uq_min
  <2>3. QED BY <1>1, <2>2 DEF basic_min
<1> HIDE DEF i, v
<1>5. v < 2^(i + 0) /\ v < 2^(eb + 0) /\ eb \in Nat /\ 0 \in Nat
  <2>1. 2^k.int <= 2^i /\ 2^k.int \in Nat /\ 2^i \in Nat /\ 2^eb \in Nat
    BY <1>2, PowerMonotone, PowerPositive
  <2>2. v < 2^i /\ v < 2^eb
    BY <1>2, <1>3, <2>1
  <2>3. i + 0 = i /\ eb + 0 = eb
    BY <1>2
  <2> HIDE DEF eb
  <2>4. QED BY <2>2, <2>3 DEF eb
<1>6. uq_min(k, limit).raw = v
  BY <1>2, <1>3, <1>4, <1>5, MaskedFits
<1>7. clamped_exponent(f, k, top) = Node(<<eb, 0>>, v)
  BY <1>6 DEF clamped_exponent, basic_identity, limit
<1> HIDE DEF eb
<1>8. QED BY <1>3, <1>5, <1>7, MaskedFits DEF v

\* Read as an integer, a mantissa is the same number.
LEMMA MantissaValue ==
  ASSUME NEW n, NEW mb \in Nat, Typed(n, 0, mb)
  PROVE  /\ Typed(uq_fraction_to_integer(n), mb, 0) /\ uq_fraction_to_integer(n).raw = n.raw
         /\ n.raw \in Nat /\ n.raw < 2^mb /\ IsNode(n) /\ total_bits(n) = mb
<1>1. IsNode(n) /\ n.int = 0 /\ n.frac = mb /\ n.raw \in Nat
  BY NodeFields DEF Typed
<1>2. total_bits(n) = mb /\ mb + 0 = mb
  BY <1>1 DEF total_bits
<1>3. n.raw < 2^mb
  BY <1>1, <1>2, NodeFields
<1>4. uq_fraction_to_integer(n) = Node(<<mb, 0>>, n.raw)
  BY <1>1 DEF uq_fraction_to_integer, basic_identity
<1> DEFINE v == n.raw
<1> HIDE DEF v
<1>5. v \in Nat /\ v < 2^(mb + 0) /\ 0 \in Nat
  BY <1>1, <1>2, <1>3 DEF v
<1>6. Typed(Node(<<mb, 0>>, v), mb, 0) /\ Node(<<mb, 0>>, v).raw = v
  BY <1>5, MaskedFits
<1>7. QED BY <1>1, <1>2, <1>3, <1>4, <1>6 DEF v

\* A mantissa becomes the greatest one on overflow, and stays what it is otherwise.
LEMMA SaturatedValue ==
  ASSUME NEW f, f.mantissa_bits \in Nat, NEW n, Typed(n, 0, f.mantissa_bits),
         f.max_finite_mantissa \in Nat, f.max_finite_mantissa < 2^f.mantissa_bits, NEW overflow
  PROVE  saturated(f, n, overflow).raw = IF overflow.raw = 1 THEN f.max_finite_mantissa ELSE n.raw
<1> DEFINE final_m == uq_fraction_to_integer(n)
           most    == UQ_from_int(f.max_finite_mantissa)
           mb      == f.mantissa_bits
<1>1. Typed(final_m, mb, 0) /\ final_m.raw = n.raw /\ n.raw < 2^mb
  BY MantissaValue
<1>2. IsNode(most) /\ most.raw = f.max_finite_mantissa
  BY ConstantTyped, ConstantRaw
<1> HIDE DEF final_m, most
<1>3. IsNode(final_m) /\ total_bits(final_m) = mb
  BY <1>1 DEF Typed, total_bits
<1>4. 2^total_bits(final_m) = 2^mb
  BY <1>3
<1>5. final_m.raw < 2^total_bits(final_m) /\ most.raw < 2^total_bits(final_m)
  BY <1>1, <1>2, <1>4
<1>6. basic_mux_2_1(overflow, final_m, most, dtype(final_m)).raw
        = IF overflow.raw = 1 THEN most.raw ELSE final_m.raw
  BY <1>2, <1>3, <1>5, MuxValue
<1>7. QED BY <1>1, <1>2, <1>6 DEF saturated, final_m, most

\* What a format gives for the rounded fields E and M: the rule for overflow, the
\* rule for what rounded to zero, and the number.
TooLarge(f, E, M) ==
  E > f.max_finite_code \/ (E = f.max_finite_code /\ M > f.max_finite_mantissa)
Finished(f, sign, E, M) ==
  IF TooLarge(f, E, M)
  THEN IF f.inf # {} THEN Infinity(f, sign) ELSE Largest(f, sign)
  ELSE IF E = 0 /\ M = 0 /\ ~ f.signed_zero THEN Zero ELSE Code(sign, E, M)

\* The reference, by the fields nearest to the number.
LEMMA RoundedAs ==
  ASSUME NEW f, NEW mb \in Nat, mb = f.mantissa_bits, NEW bias \in Nat, bias = f.exponent_bias,
         f.max_finite_code \in Nat, NEW n \in Nat, n > 0, NEW k \in Int, NEW sign
  PROVE  LET r == Nearest(f, Mag(n, k)) IN
         RoundToNearestEven(f, sign, Mag(n, k))
           = Finished(f, IF f.signs = {0} THEN 0 ELSE sign, r.exponent, r.mantissa)
<1> DEFINE v == Mag(n, k)
           r == Nearest(f, v)
           sg == IF f.signs = {0} THEN 0 ELSE sign
<1>1. v.m > 0 /\ v.m # 0
  BY DEF Mag
<1>2. r.exponent \in Nat /\ r.exponent >= Log2(v) + bias /\ Log2(v) \in Int
  BY NearestIs
<1>3. RoundToNearestEven(f, sign, v) =
        IF Overflows(f, v)
        THEN IF f.inf # {} THEN Infinity(f, sg) ELSE Largest(f, sg)
        ELSE IF r.exponent = 0 /\ r.mantissa = 0 /\ ~ f.signed_zero
             THEN Zero ELSE Code(sg, r.exponent, r.mantissa)
  BY <1>1 DEF RoundToNearestEven
<1>4. Overflows(f, v) <=> (Enormous(f, v) \/ TooLarge(f, r.exponent, r.mantissa))
  BY <1>1 DEF Overflows, TooLarge
<1> HIDE DEF v, r, sg
<1>5. Enormous(f, v) => TooLarge(f, r.exponent, r.mantissa)
  <2>1. SUFFICES ASSUME Log2(v) > f.max_finite_code - bias PROVE r.exponent > f.max_finite_code
    BY DEF Enormous, TooLarge
  <2>2. QED BY <1>2, <2>1
<1>6. RoundToNearestEven(f, sign, v) = Finished(f, sg, r.exponent, r.mantissa)
  BY <1>3, <1>4, <1>5 DEF Finished
<1>7. QED BY <1>6 DEF v, r, sg

\* A format whose exponent of all ones is the infinity.
LEMMA InfEncoded ==
  ASSUME NEW f, f.mantissa_bits \in Nat, f.exponent_bits \in Nat \ {0},
         NEW n, Typed(n, 0, f.mantissa_bits), NEW k, IsNode(k), k.frac = 0, NEW sign,
         f.max_finite_code = 2^f.exponent_bits - 2,
         f.max_finite_mantissa = 2^f.mantissa_bits - 1, f.inf # {}, f.signed_zero = TRUE
  PROVE  LET pair == inf_encodings(f, n, k) IN
         Code(sign, pair[2].raw, pair[1].raw) = Finished(f, sign, k.raw, n.raw)
<1> DEFINE eb      == f.exponent_bits
           mb      == f.mantissa_bits
           top     == 2^eb - 1
           final_e == clamped_exponent(f, k, top)
           all     == basic_and_reduce(final_e, Bit)
           no      == Node(Bit, 0)
           final_m == basic_mux_2_1(all, n, no, dtype(n))
           out     == uq_fraction_to_integer(final_m)
<1>1. 2^eb \in Nat /\ 2^eb >= 2 /\ top \in Nat /\ top < 2^eb /\ 2^mb \in Nat
  <2>1. 2^1 = 2 /\ 1 <= eb /\ eb \in Nat /\ 1 \in Nat
    OBVIOUS
  <2>2. 2^1 <= 2^eb /\ 2^eb \in Nat /\ 2^mb \in Nat
    <3> HIDE DEF eb
    <3>1. QED BY <2>1, PowerMonotone, PowerPositive
  <2> DEFINE p == 2^eb
  <2>3. 2 <= p /\ p \in Nat
    BY <2>1, <2>2
  <2> HIDE DEF p
  <2>4. p - 1 \in Nat /\ p - 1 < p
    BY <2>3
  <2>5. QED BY <2>2, <2>3, <2>4 DEF p
<1>2. final_e.raw = Smaller(k.raw, top) /\ IsNode(final_e) /\ total_bits(final_e) = eb
  <2>1. Typed(final_e, eb, 0)
    BY <1>1, ClampTyped
  <2> HIDE DEF top
  <2>2. final_e.raw = Smaller(k.raw, top)
    BY <1>1, ClampValue
  <2> HIDE DEF final_e
  <2>3. QED BY <2>1, <2>2 DEF Typed, total_bits
<1>3. k.raw \in Nat /\ n.raw \in Nat /\ n.raw < 2^mb /\ IsNode(n) /\ total_bits(n) = mb
  BY NodeFields, MantissaValue
<1> HIDE DEF final_e
<1>4. all.raw = IF k.raw >= top THEN 1 ELSE 0
  <2>1. all.raw = IF final_e.raw = 2^total_bits(final_e) - 1 THEN 1 ELSE 0
    BY <1>2, BitValue
  <2>2. 2^total_bits(final_e) = 2^eb
    BY <1>2
  <2>3. all.raw = IF final_e.raw = top THEN 1 ELSE 0
    BY <2>1, <2>2
  <2> HIDE DEF top, all
  <2>4. QED BY <1>1, <1>2, <1>3, <2>3 DEF Smaller
<1> HIDE DEF all
<1>5. final_m.raw = (IF k.raw >= top THEN 0 ELSE n.raw) /\ Typed(final_m, 0, mb)
  <2>1. IsNode(no) /\ no.raw = 0
    BY BitOf
  <2>2. no.raw < 2^total_bits(n) /\ n.raw < 2^total_bits(n)
    BY <1>3, <2>1, NodeFields, PowerPositive
  <2> HIDE DEF no
  <2>3. final_m.raw = IF all.raw = 1 THEN no.raw ELSE n.raw
    BY <1>3, <2>1, <2>2, MuxValue
  <2>4. Typed(final_m, n.int, n.frac)
    BY <1>3, <2>1, MuxTyped
  <2> HIDE DEF final_m, top
  <2>5. QED BY <1>4, <2>1, <2>3, <2>4 DEF Typed
<1> HIDE DEF final_m
<1>6. out.raw = IF k.raw >= top THEN 0 ELSE n.raw
  BY <1>5, MantissaValue
<1>7. inf_encodings(f, n, k) = <<out, final_e>>
  BY DEF inf_encodings, out, final_m, final_e, all, no
<1> HIDE DEF out
<1> DEFINE p == 2^eb
           M == 2^mb
<1>8. /\ f.max_finite_code = p - 2 /\ top = p - 1 /\ f.max_finite_mantissa = M - 1 /\ p \in Nat
      /\ p >= 2 /\ M \in Nat /\ n.raw < M
  BY <1>1, <1>3
<1>9. Infinity(f, sign) = Code(sign, p - 1, 0)
  BY DEF Infinity
<1> HIDE DEF p, M, top
<1>10. CASE k.raw >= top
  <2>1. TooLarge(f, k.raw, n.raw)
    BY <1>3, <1>8, <1>10 DEF TooLarge
  <2>2. final_e.raw = p - 1 /\ out.raw = 0
    BY <1>2, <1>3, <1>6, <1>8, <1>10 DEF Smaller
  <2>3. QED BY <1>7, <1>9, <2>1, <2>2 DEF Finished
<1>11. CASE k.raw < top
  <2>1. ~ TooLarge(f, k.raw, n.raw)
    BY <1>3, <1>8, <1>11 DEF TooLarge
  <2>2. final_e.raw = k.raw /\ out.raw = n.raw
    BY <1>2, <1>3, <1>6, <1>8, <1>11 DEF Smaller
  <2>3. QED BY <1>7, <2>1, <2>2 DEF Finished
<1>12. QED BY <1>3, <1>8, <1>10, <1>11

\* A format that saturates at its greatest exponent.
Saturating(f) ==
  /\ f.mantissa_bits \in Nat /\ f.exponent_bits \in Nat /\ f.inf = {}
  /\ f.max_finite_code = 2^f.exponent_bits - 1
  /\ f.max_finite_mantissa = 2^f.mantissa_bits - 1

\* A format without infinities whose last code is a number.
LEMMA SaturateEncoded ==
  ASSUME NEW f, Saturating(f),
         NEW n, Typed(n, 0, f.mantissa_bits), NEW k, IsNode(k), k.frac = 0, NEW sign
  PROVE  LET pair == saturate_encodings(f, n, k) IN
         /\ pair[2].raw = Smaller(k.raw, f.max_finite_code)
         /\ Code(sign, pair[2].raw, pair[1].raw)
              = IF TooLarge(f, k.raw, n.raw) THEN Largest(f, sign) ELSE Code(sign, k.raw, n.raw)
<1> DEFINE eb      == f.exponent_bits
           mb      == f.mantissa_bits
           top     == f.max_finite_code
           most    == f.max_finite_mantissa
           final_e == clamped_exponent(f, k, top)
           limit   == UQ_from_int(top)
           over    == uq_gt(k, limit)
           out     == saturated(f, n, over)
<1>1. 2^eb \in Nat /\ top \in Nat /\ top < 2^eb /\ 2^mb \in Nat /\ most \in Nat /\ most < 2^mb
      /\ most = 2^mb - 1
  BY PowerPositive DEF Saturating
<1>2. k.raw \in Nat /\ n.raw \in Nat /\ n.raw < 2^mb /\ mb \in Nat /\ eb \in Nat
  BY NodeFields, MantissaValue DEF Saturating
<1>3. final_e.raw = Smaller(k.raw, top)
  BY <1>1, <1>2, ClampValue
<1>4. over.raw = IF k.raw > top THEN 1 ELSE 0
  <2>1. IsNode(limit) /\ limit.frac = 0 /\ limit.raw = top
    BY <1>1, ConstantTyped, ConstantRaw
  <2> HIDE DEF limit
  <2>2. QED BY <2>1, Compared
<1> HIDE DEF over
<1>5. out.raw = IF k.raw > top THEN most ELSE n.raw
  BY <1>1, <1>2, <1>4, SaturatedValue
<1>6. saturate_encodings(f, n, k) = <<out, final_e>>
  BY DEF saturate_encodings, over
<1>7. Largest(f, sign) = Code(sign, top, most)
  BY DEF Largest
<1> HIDE DEF out, final_e
<1>8. TooLarge(f, k.raw, n.raw) <=> k.raw > top
  <2>1. ~ (n.raw > most)
    <3> DEFINE M == 2^mb
    <3>1. n.raw < M /\ most = M - 1 /\ M \in Nat
      BY <1>1, <1>2
    <3> HIDE DEF M
    <3>2. QED BY <1>2, <3>1
  <2>2. QED BY <2>1 DEF TooLarge
<1>9. CASE k.raw > top
  <2>1. final_e.raw = top /\ out.raw = most
    BY <1>1, <1>2, <1>3, <1>5, <1>9 DEF Smaller
  <2>2. QED BY <1>3, <1>6, <1>7, <1>8, <1>9, <2>1
<1>10. CASE ~ (k.raw > top)
  <2>1. final_e.raw = k.raw /\ out.raw = n.raw
    BY <1>1, <1>2, <1>3, <1>5, <1>10 DEF Smaller
  <2>2. QED BY <1>3, <1>6, <1>8, <1>10, <2>1
<1>11. QED BY <1>9, <1>10

\* A format that saturates, and whose last code is the NaN.
LEMMA E4M3Encoded ==
  ASSUME NEW f, f.mantissa_bits = 3, f.exponent_bits = 4, f.max_finite_code = 15,
         f.max_finite_mantissa = 6, f.inf = {},
         NEW n, Typed(n, 0, 3), NEW k, IsNode(k), k.frac = 0, NEW sign
  PROVE  LET pair == e4m3_encodings(f, n, k) IN
         Code(sign, pair[2].raw, pair[1].raw)
           = IF TooLarge(f, k.raw, n.raw) THEN Largest(f, sign) ELSE Code(sign, k.raw, n.raw)
<1> DEFINE final_e  == clamped_exponent(f, k, f.max_finite_code)
           top      == UQ_from_int(f.max_finite_code)
           beyond   == uq_gt(k, top)
           same     == uq_eq(final_e, top)
           ones     == basic_and_reduce(n, Bit)
           reserved == bit_and(same, ones)
           over     == bit_or(beyond, reserved)
           out      == saturated(f, n, over)
<1>1. 2^4 = 16 /\ 2^3 = 8
  OBVIOUS
<1>2. k.raw \in Nat /\ n.raw \in Nat /\ n.raw < 8 /\ IsNode(n) /\ total_bits(n) = 3
  <2>1. Typed(n, 0, 3) /\ 3 \in Nat /\ IsNode(k)
    OBVIOUS
  <2>2. n.raw \in Nat /\ n.raw < 2^3 /\ IsNode(n) /\ total_bits(n) = 3
    BY ONLY <2>1, MantissaValue
  <2>3. QED BY <1>1, <2>2, NodeFields
<1>3. final_e.raw = Smaller(k.raw, 15) /\ IsNode(final_e) /\ final_e.frac = 0
  <2>1. /\ f.exponent_bits \in Nat /\ 15 \in Nat /\ 15 < 2^f.exponent_bits
        /\ IsNode(k) /\ k.frac = 0
    BY <1>1
  <2>2. clamped_exponent(f, k, 15).raw = Smaller(k.raw, 15)
    BY ONLY <2>1, ClampValue
  <2>3. Typed(clamped_exponent(f, k, 15), f.exponent_bits, 0)
    BY <2>1, ClampTyped
  <2>4. QED BY <2>2, <2>3 DEF Typed
<1>4. IsNode(top) /\ top.frac = 0 /\ top.raw = 15
  BY ConstantTyped, ConstantRaw
<1> HIDE DEF top, final_e
<1>5. IsNode(beyond) /\ beyond.raw = IF k.raw > 15 THEN 1 ELSE 0
  BY <1>4, Compared
<1>6. IsNode(same) /\ same.raw = IF final_e.raw = 15 THEN 1 ELSE 0
  BY <1>3, <1>4, Compared
<1>7. IsNode(ones) /\ ones.raw = IF n.raw = 7 THEN 1 ELSE 0
  <2>1. IsNode(ones) /\ ones.raw = IF n.raw = 2^total_bits(n) - 1 THEN 1 ELSE 0
    BY <1>2, BitTyped, BitValue DEF Typed
  <2>2. 2^total_bits(n) = 8
    BY <1>1, <1>2
  <2> HIDE DEF ones
  <2>3. QED BY <2>1, <2>2
<1> HIDE DEF beyond, same, ones
<1>8. IsNode(reserved) /\ reserved.raw = same.raw * ones.raw
  <2>1. same.raw \in {0, 1} /\ ones.raw \in {0, 1}
    BY <1>6, <1>7
  <2>2. IsNode(reserved)
    BY <1>6, <1>7, BitTyped DEF Typed
  <2>3. reserved.raw = same.raw * ones.raw
    BY ONLY <1>6, <1>7, <2>1, BitValue DEF reserved
  <2>4. QED BY <2>2, <2>3
<1>9. reserved.raw = IF k.raw >= 15 /\ n.raw = 7 THEN 1 ELSE 0
  BY <1>2, <1>3, <1>6, <1>7, <1>8 DEF Smaller
<1> HIDE DEF reserved
<1>10. over.raw = Larger(beyond.raw, reserved.raw)
  BY <1>5, <1>8, <1>9, BitValue
<1>11. over.raw = IF k.raw > 15 \/ (k.raw = 15 /\ n.raw = 7) THEN 1 ELSE 0
  BY <1>2, <1>5, <1>9, <1>10 DEF Larger
<1> HIDE DEF over
<1>12. TooLarge(f, k.raw, n.raw) <=> (k.raw > 15 \/ (k.raw = 15 /\ n.raw = 7))
  BY <1>2 DEF TooLarge
<1>13. out.raw = IF over.raw = 1 THEN 6 ELSE n.raw
  <2>1. /\ f.mantissa_bits \in Nat /\ f.max_finite_mantissa \in Nat
        /\ f.max_finite_mantissa < 2^f.mantissa_bits /\ Typed(n, 0, f.mantissa_bits)
        /\ f.max_finite_mantissa = 6
    BY <1>1
  <2>2. out.raw = IF over.raw = 1 THEN f.max_finite_mantissa ELSE n.raw
    BY ONLY <2>1, SaturatedValue DEF out
  <2>3. QED BY <2>1, <2>2
<1>14. e4m3_encodings(f, n, k) = <<out, final_e>>
  BY DEF e4m3_encodings, over, reserved, beyond, same, ones, top, final_e
<1>15. Largest(f, sign) = Code(sign, 15, 6)
  BY DEF Largest
<1> HIDE DEF out
<1>16. CASE k.raw > 15 \/ (k.raw = 15 /\ n.raw = 7)
  <2>1. final_e.raw = 15 /\ out.raw = 6
    BY <1>2, <1>3, <1>11, <1>13, <1>16 DEF Smaller
  <2>2. QED BY <1>12, <1>14, <1>15, <1>16, <2>1
<1>17. CASE ~ (k.raw > 15 \/ (k.raw = 15 /\ n.raw = 7))
  <2>1. final_e.raw = k.raw /\ out.raw = n.raw
    BY <1>2, <1>3, <1>11, <1>13, <1>17 DEF Smaller
  <2>2. QED BY <1>12, <1>14, <1>17, <2>1
<1>18. QED BY <1>16, <1>17

\* What an encoder returns for the rounded fields of a number that is not zero.
LEMMA InfinitiesEncoded ==
  ASSUME NEW eb \in Nat \ {0}, NEW mb \in Nat \ {0}, NEW bias, NEW n, Typed(n, 0, mb),
         NEW k, IsNode(k), k.frac = 0, NEW sign
  PROVE  LET f    == WithInfinities(eb, mb, bias)
             pair == inf_encodings(f, n, k)
         IN Code(sign, pair[2].raw, pair[1].raw) = Finished(f, sign, k.raw, n.raw)
<1> DEFINE f   == WithInfinities(eb, mb, bias)
           top == 2^eb - 1
<1>1. /\ f.mantissa_bits = mb /\ f.exponent_bits = eb /\ f.max_finite_code = top - 1
      /\ f.max_finite_mantissa = 2^mb - 1 /\ f.signed_zero = TRUE
      /\ f.inf = [sign: {0, 1}, exponent: {top}, mantissa: {0}]
  BY DEF WithInfinities
<1>2. [sign |-> 0, exponent |-> top, mantissa |-> 0] \in f.inf
  <2> HIDE DEF top, f
  <2>1. QED BY <1>1
<1>3. f.inf # {}
  BY <1>2
<1>4. f.max_finite_code = 2^f.exponent_bits - 2
  <2>1. 2^eb \in Nat
    BY PowerPositive
  <2>2. (2^eb - 1) - 1 = 2^eb - 2
    BY <2>1
  <2>3. QED BY <1>1, <2>2
<1> HIDE DEF f
<1>5. /\ f.mantissa_bits \in Nat /\ f.exponent_bits \in Nat \ {0} /\ Typed(n, 0, f.mantissa_bits)
      /\ f.max_finite_mantissa = 2^f.mantissa_bits - 1 /\ f.signed_zero = TRUE
  BY <1>1
<1>6. QED BY <1>3, <1>4, <1>5, InfEncoded DEF f

\* Every format encodes rounded fields by the rules of Finished.
LEMMA EncodedValue ==
  ASSUME NEW name \in DOMAIN FormatOf, NEW n, Typed(n, 0, FormatOf[name].mantissa_bits),
         NEW k, IsNode(k), k.frac = 0, NEW sign
  PROVE  EncodedOf(name, sign, n, k, FALSE)
           = Finished(FormatOf[name], IF FormatOf[name].signs = {0} THEN 0 ELSE sign, k.raw, n.raw)
<1>1. name \in {"Float16", "BFloat16", "Float32", "E5M2", "E4M3FN", "UE4M3", "E5M2FNUZ", "E2M1"}
  BY DEF FormatOf
<1>2. {0, 1} # {0}
  <2>1. 1 \in {0, 1} /\ 1 \notin {0}
    OBVIOUS
  <2>2. QED BY <2>1
<1>3. n.raw \in Nat /\ k.raw \in Nat
  BY NodeFields DEF Typed
<1>4. CASE name \in {"Float16", "BFloat16", "Float32", "E5M2"}
  <2>1. \E eb \in Nat \ {0}, mb \in Nat \ {0}, bias \in Nat : FormatOf[name] = WithInfinities(eb, mb, bias)
    <3>1. \/ FormatOf[name] = WithInfinities(5, 10, 15) \/ FormatOf[name] = WithInfinities(8, 7, 127)
          \/ FormatOf[name] = WithInfinities(8, 23, 127) \/ FormatOf[name] = WithInfinities(5, 2, 15)
      <4>1. /\ name = "Float16" => FormatOf[name] = Float16
            /\ name = "BFloat16" => FormatOf[name] = BFloat16
            /\ name = "Float32" => FormatOf[name] = Float32
            /\ name = "E5M2" => FormatOf[name] = E5M2
        BY DEF FormatOf
      <4>2. QED BY <1>4, <4>1 DEF Float16, BFloat16, Float32, E5M2
    <3>2. QED BY <3>1
  <2>2. PICK eb \in Nat \ {0}, mb \in Nat \ {0}, bias \in Nat : FormatOf[name] = WithInfinities(eb, mb, bias)
    BY <2>1
  <2> DEFINE f == FormatOf[name]
             pair == inf_encodings(f, n, k)
  <2>3. f.mantissa_bits = mb /\ f.signs = {0, 1}
    BY <2>2 DEF WithInfinities
  <2>4. EncodedOf(name, sign, n, k, FALSE) = Code(sign, pair[2].raw, pair[1].raw)
    <3>1. CASE name = "Float16"
      BY <3>1 DEF EncodedOf, fp16_encoded, packed_unless, fp16_encodings, FormatOf
    <3>2. CASE name = "BFloat16"
      BY <3>2 DEF EncodedOf, bf16_encoded, packed_unless, bf16_encodings, FormatOf
    <3>3. CASE name = "Float32"
      BY <3>3 DEF EncodedOf, fp32_encoded, packed_unless, fp32_encodings, FormatOf
    <3>4. CASE name = "E5M2"
      BY <3>4 DEF EncodedOf, e5m2_encoded, packed_unless, e5m2_encodings, FormatOf
    <3>5. QED BY <1>4, <3>1, <3>2, <3>3, <3>4
  <2>5. Typed(n, 0, mb)
    BY <2>3
  <2>6. Code(sign, pair[2].raw, pair[1].raw) = Finished(f, sign, k.raw, n.raw)
    BY <2>2, <2>5, InfinitiesEncoded
  <2>7. (IF f.signs = {0} THEN 0 ELSE sign) = sign
    BY <1>2, <2>3
  <2> HIDE DEF f, pair
  <2>8. EncodedOf(name, sign, n, k, FALSE)
          = Finished(f, IF f.signs = {0} THEN 0 ELSE sign, k.raw, n.raw)
    BY <2>4, <2>6, <2>7
  <2>9. QED BY <2>8 DEF f
<1>5. CASE name \in {"E4M3FN", "UE4M3"}
  <2> DEFINE f == FormatOf[name]
             sg == IF f.signs = {0} THEN 0 ELSE sign
             pair == e4m3_encodings(f, n, k)
  <2>1. /\ f.mantissa_bits = 3 /\ f.exponent_bits = 4 /\ f.max_finite_code = 15
        /\ f.max_finite_mantissa = 6 /\ f.inf = {}
        /\ name = "E4M3FN" => f = E4M3FN /\ f.signs = {0, 1} /\ f.signed_zero = TRUE
        /\ name = "UE4M3" => f = UE4M3 /\ f.signs = {0} /\ f.signed_zero = FALSE
    <3>1. (name = "E4M3FN" => f = E4M3FN) /\ (name = "UE4M3" => f = UE4M3)
      BY DEF FormatOf
    <3>2. /\ E4M3FN.mantissa_bits = 3 /\ E4M3FN.exponent_bits = 4 /\ E4M3FN.max_finite_code = 15
          /\ E4M3FN.max_finite_mantissa = 6 /\ E4M3FN.inf = {} /\ E4M3FN.signs = {0, 1}
          /\ E4M3FN.signed_zero = TRUE
      BY DEF E4M3FN
    <3>3. /\ UE4M3.mantissa_bits = 3 /\ UE4M3.exponent_bits = 4 /\ UE4M3.max_finite_code = 15
          /\ UE4M3.max_finite_mantissa = 6 /\ UE4M3.inf = {} /\ UE4M3.signs = {0}
          /\ UE4M3.signed_zero = FALSE
      BY DEF E4M3FN, UE4M3
    <3> HIDE DEF f
    <3>4. QED BY <1>5, <3>1, <3>2, <3>3
  <2>2. EncodedOf(name, sign, n, k, FALSE) = Code(sg, pair[2].raw, pair[1].raw)
    <3>1. CASE name = "E4M3FN"
      <4>1. sg = sign /\ f = E4M3FN
        BY <1>2, <2>1, <3>1
      <4>2. EncodedOf(name, sign, n, k, FALSE) = e4m3fn_encoded(sign, n, k, FALSE)
        BY <3>1 DEF EncodedOf
      <4>3. QED BY <4>1, <4>2 DEF e4m3fn_encoded, packed_unless, e4m3fn_encodings
    <3>2. CASE name = "UE4M3"
      <4>1. sg = 0 /\ f = UE4M3
        BY <2>1, <3>2
      <4>2. EncodedOf(name, sign, n, k, FALSE) = ue4m3_encoded(n, k, FALSE)
        BY <3>2 DEF EncodedOf
      <4>3. QED BY <4>1, <4>2 DEF ue4m3_encoded, packed_unless, ue4m3_encodings
    <3>3. QED BY <1>5, <3>1, <3>2
  <2>3. Typed(n, 0, 3)
    BY <2>1
  <2> HIDE DEF f, sg
  <2>4. Code(sg, pair[2].raw, pair[1].raw)
          = IF TooLarge(f, k.raw, n.raw) THEN Largest(f, sg) ELSE Code(sg, k.raw, n.raw)
    <3>1. IsNode(k) /\ k.frac = 0
      OBVIOUS
    <3>2. /\ f.mantissa_bits = 3 /\ f.exponent_bits = 4 /\ f.max_finite_code = 15
          /\ f.max_finite_mantissa = 6 /\ f.inf = {}
      BY <2>1
    <3>3. QED BY ONLY <2>3, <3>1, <3>2, E4M3Encoded
  <2>5. k.raw = 0 /\ n.raw = 0 /\ ~ f.signed_zero => Code(sg, k.raw, n.raw) = Zero
    <3>1. SUFFICES ASSUME k.raw = 0, n.raw = 0, ~ f.signed_zero PROVE Code(sg, k.raw, n.raw) = Zero
      OBVIOUS
    <3>2. f.signs = {0}
      BY <1>5, <2>1, <3>1
    <3>3. sg = 0
      BY <3>2 DEF sg
    <3>4. QED BY <3>1, <3>3 DEF Zero
  <2> HIDE DEF pair
  <2>6. EncodedOf(name, sign, n, k, FALSE) = Finished(f, sg, k.raw, n.raw)
    <3>1. f.inf = {}
      BY <2>1
    <3>2. CASE TooLarge(f, k.raw, n.raw)
      BY <2>2, <2>4, <3>1, <3>2 DEF Finished
    <3>3. CASE ~ TooLarge(f, k.raw, n.raw)
      BY <2>2, <2>4, <2>5, <3>3 DEF Finished
    <3>4. QED BY <3>2, <3>3
  <2>7. QED BY <2>6 DEF f, sg
<1>6. CASE name \in {"E5M2FNUZ", "E2M1"}
  <2> DEFINE f == FormatOf[name]
             pair == saturate_encodings(f, n, k)
             mb == f.mantissa_bits
             eb == f.exponent_bits
             rounded_zero == uq_is_zero(pair[2]).raw = 1 /\ uq_is_zero(pair[1]).raw = 1
             plain == IF TooLarge(f, k.raw, n.raw) THEN Largest(f, sign) ELSE Code(sign, k.raw, n.raw)
  <2>1. /\ mb \in Nat /\ eb \in Nat /\ f.inf = {} /\ f.signs = {0, 1}
        /\ f.max_finite_code = 2^eb - 1 /\ f.max_finite_mantissa = 2^mb - 1
        /\ f.max_finite_code \in Nat /\ f.max_finite_code > 0 /\ f.max_finite_mantissa \in Nat
        /\ name = "E2M1" => f = E2M1 /\ f.signed_zero = TRUE
        /\ name = "E5M2FNUZ" => f = E5M2FNUZ /\ f.signed_zero = FALSE
    <3>1. CASE name = "E2M1"
      <4>1. f = E2M1
        BY <3>1 DEF FormatOf
      <4>2. /\ E2M1.mantissa_bits = 1 /\ E2M1.exponent_bits = 2 /\ E2M1.inf = {}
            /\ E2M1.signs = {0, 1} /\ E2M1.max_finite_code = 3 /\ E2M1.max_finite_mantissa = 1
            /\ E2M1.signed_zero = TRUE
        BY DEF E2M1
      <4>3. 2^2 = 4 /\ 2^1 = 2
        OBVIOUS
      <4> HIDE DEF f
      <4>4. 2^f.exponent_bits = 4 /\ 2^f.mantissa_bits = 2
        BY <4>1, <4>2, <4>3
      <4>5. QED BY <3>1, <4>1, <4>2, <4>4
    <3>2. CASE name = "E5M2FNUZ"
      <4>1. f = E5M2FNUZ
        BY <3>2 DEF FormatOf
      <4>2. /\ E5M2FNUZ.mantissa_bits = 2 /\ E5M2FNUZ.exponent_bits = 5 /\ E5M2FNUZ.inf = {}
            /\ E5M2FNUZ.signs = {0, 1} /\ E5M2FNUZ.max_finite_code = 31
            /\ E5M2FNUZ.max_finite_mantissa = 3 /\ E5M2FNUZ.signed_zero = FALSE
        BY DEF E5M2FNUZ
      <4>3. 2^5 = 32 /\ 2^2 = 4
        OBVIOUS
      <4> HIDE DEF f
      <4>4. 2^f.exponent_bits = 32 /\ 2^f.mantissa_bits = 4
        BY <4>1, <4>2, <4>3
      <4>5. QED BY <3>2, <4>1, <4>2, <4>4
    <3>3. QED BY <1>6, <3>1, <3>2
  <2>2. EncodedOf(name, sign, n, k, FALSE)
          = IF name = "E5M2FNUZ" /\ rounded_zero THEN Zero ELSE Code(sign, pair[2].raw, pair[1].raw)
    <3>1. CASE name = "E2M1"
      <4>1. f = E2M1 /\ EncodedOf(name, sign, n, k, FALSE) = e2m1_encoded(sign, n, k, FALSE)
        BY <3>1 DEF EncodedOf, FormatOf
      <4>2. QED BY <3>1, <4>1 DEF e2m1_encoded, packed_unless, e2m1_encodings
    <3>2. CASE name = "E5M2FNUZ"
      <4>1. f = E5M2FNUZ /\ EncodedOf(name, sign, n, k, FALSE) = e5m2fnuz_encoded(sign, n, k, FALSE)
        BY <3>2 DEF EncodedOf, FormatOf
      <4>2. QED BY <3>2, <4>1 DEF e5m2fnuz_encoded, packed_unless, e5m2fnuz_encodings
    <3>3. QED BY <1>6, <3>1, <3>2
  <2>3. (IF f.signs = {0} THEN 0 ELSE sign) = sign
    BY <1>2, <2>1
  <2>4. /\ pair[2].raw = Smaller(k.raw, f.max_finite_code)
        /\ Code(sign, pair[2].raw, pair[1].raw) = plain
    <3>1. Saturating(f) /\ Typed(n, 0, f.mantissa_bits) /\ IsNode(k) /\ k.frac = 0
      BY <2>1 DEF Saturating
    <3> HIDE DEF f
    <3>2. QED BY ONLY <3>1, SaturateEncoded DEF plain, pair
  <2>5. IsNode(pair[1]) /\ IsNode(pair[2])
    <3>1. IsNode(n) /\ n.frac = mb /\ n.int = 0
      BY DEF Typed
    <3>2. Typed(clamped_exponent(f, k, f.max_finite_code), f.exponent_bits, 0)
      BY <2>1, ClampTyped
    <3>3. IsNode(saturated(f, n, uq_gt(k, UQ_from_int(f.max_finite_code))))
      <4> DEFINE final_m == uq_fraction_to_integer(n)
                 most    == UQ_from_int(f.max_finite_mantissa)
                 over    == uq_gt(k, UQ_from_int(f.max_finite_code))
      <4>1. IsNode(final_m)
        BY <2>1, MantissaValue DEF Typed
      <4>2. IsNode(most)
        BY <2>1, ConstantTyped
      <4> HIDE DEF final_m, most, over
      <4>3. IsNode(basic_mux_2_1(over, final_m, most, dtype(final_m)))
        BY <4>1, <4>2, MuxTyped DEF Typed
      <4>4. QED BY <4>3 DEF saturated, final_m, most, over
    <3>4. QED BY <3>2, <3>3 DEF saturate_encodings, Typed
  <2>6. rounded_zero <=> pair[2].raw = 0 /\ pair[1].raw = 0
    <3> HIDE DEF pair
    <3>1. QED BY <2>5, BitValue
  <2>7. pair[2].raw = plain.exponent /\ pair[1].raw = plain.mantissa
    <3> DEFINE c == Code(sign, pair[2].raw, pair[1].raw)
    <3>1. c.exponent = pair[2].raw /\ c.mantissa = pair[1].raw
      BY DEF Code
    <3>2. c = plain
      BY <2>4
    <3> HIDE DEF c, plain
    <3>3. QED BY <3>1, <3>2
  <2>8. rounded_zero <=> ~ TooLarge(f, k.raw, n.raw) /\ k.raw = 0 /\ n.raw = 0
    <3> HIDE DEF pair, f, rounded_zero
    <3>1. CASE TooLarge(f, k.raw, n.raw)
      <4>1. plain.exponent = f.max_finite_code
        BY <3>1 DEF Largest, Code
      <4>2. QED BY <2>1, <2>6, <2>7, <3>1, <4>1
    <3>2. CASE ~ TooLarge(f, k.raw, n.raw)
      <4>1. plain.exponent = k.raw /\ plain.mantissa = n.raw
        BY <3>2 DEF Code
      <4>2. QED BY <2>6, <2>7, <3>2, <4>1
    <3>3. QED BY <3>1, <3>2
  <2> HIDE DEF rounded_zero, pair
  <2>9. EncodedOf(name, sign, n, k, FALSE) = Finished(f, sign, k.raw, n.raw)
    <3>1. CASE TooLarge(f, k.raw, n.raw)
      BY <2>1, <2>2, <2>4, <2>8, <3>1 DEF Finished
    <3>2. CASE ~ TooLarge(f, k.raw, n.raw)
      <4>1. (~ f.signed_zero) <=> (name = "E5M2FNUZ")
        BY <1>6, <2>1
      <4> HIDE DEF f
      <4>2. Finished(f, sign, k.raw, n.raw) = IF k.raw = 0 /\ n.raw = 0 /\ ~ f.signed_zero
                                              THEN Zero ELSE Code(sign, k.raw, n.raw)
        BY <3>2 DEF Finished
      <4>3. plain = Code(sign, k.raw, n.raw)
        BY <3>2
      <4>4. EncodedOf(name, sign, n, k, FALSE)
              = IF name = "E5M2FNUZ" /\ k.raw = 0 /\ n.raw = 0 THEN Zero ELSE plain
        BY <2>2, <2>4, <2>8, <3>2
      <4> HIDE DEF plain
      <4>5. CASE k.raw = 0 /\ n.raw = 0
        BY <4>1, <4>2, <4>3, <4>4, <4>5
      <4>6. CASE ~ (k.raw = 0 /\ n.raw = 0)
        BY <4>1, <4>2, <4>3, <4>4, <4>6
      <4>7. QED BY <4>5, <4>6
    <3>3. QED BY <3>1, <3>2
  <2>10. QED BY <2>3, <2>9
<1>7. QED BY <1>1, <1>4, <1>5, <1>6

-----------------------------------------------------------------------------
(* What the encoder is given.                                              *)

\* The bias of a format is a number.
LEMMA BiasNat ==
  ASSUME NEW name \in DOMAIN FormatOf
  PROVE  FormatOf[name].exponent_bias \in Nat
<1>1. name \in {"Float16", "BFloat16", "Float32", "E5M2", "E4M3FN", "UE4M3", "E5M2FNUZ", "E2M1"}
  BY DEF FormatOf
<1>2. /\ Float16.exponent_bias \in Nat /\ BFloat16.exponent_bias \in Nat
      /\ Float32.exponent_bias \in Nat /\ E5M2.exponent_bias \in Nat
  BY DEF Float16, BFloat16, Float32, E5M2, WithInfinities
<1>3. E4M3FN.exponent_bias \in Nat /\ UE4M3.exponent_bias \in Nat
  BY DEF E4M3FN, UE4M3
<1>4. E5M2FNUZ.exponent_bias \in Nat /\ E2M1.exponent_bias \in Nat
  BY DEF E5M2FNUZ, E2M1
<1>5. QED BY <1>1, <1>2, <1>3, <1>4 DEF FormatOf

\* The significand of a code with its implicit bit, and the exponent that counts.
Significand(f, c) == IF c.exponent = 0 THEN c.mantissa ELSE 2^f.mantissa_bits + c.mantissa
ExponentOf(c)     == IF c.exponent = 0 THEN 1 ELSE c.exponent

\* The magnitude of a code is its significand, at the place of its exponent.
LEMMA MagnitudeOf ==
  ASSUME NEW name \in DOMAIN FormatOf, NEW c \in Codes(FormatOf[name])
  PROVE  LET f == FormatOf[name] IN
         /\ Magnitude(f, c) = Mag(Significand(f, c), ExponentOf(c) - f.exponent_bias - f.mantissa_bits)
         /\ Significand(f, c) \in Nat /\ Significand(f, c) < 2^(f.mantissa_bits + 1)
         /\ ExponentOf(c) \in Nat /\ f.mantissa_bits \in Nat \ {0} /\ f.exponent_bits \in Nat \ {0}
         /\ f.exponent_bias \in Nat
<1> DEFINE f  == FormatOf[name]
           mb == f.mantissa_bits
<1>1. FormatTyped(f) /\ f.exponent_bias \in Nat
  BY FormatFields, BiasNat
<1> HIDE DEF f
<1>2. mb \in Nat \ {0} /\ f.exponent_bits \in Nat \ {0}
  BY <1>1 DEF FormatTyped
<1>3. /\ c.exponent \in 0 .. (2^f.exponent_bits - 1) /\ c.mantissa \in 0 .. (2^mb - 1)
      /\ 2^f.exponent_bits \in Nat /\ 2^mb \in Nat /\ 2^(mb + 1) = 2 * 2^mb
  <2>1. c \in Codes(f)
    BY DEF f
  <2>2. QED BY <1>2, <2>1, PowerPositive, PowerStep DEF Codes
<1>4. Significand(f, c) \in Nat /\ Significand(f, c) < 2^(mb + 1) /\ ExponentOf(c) \in Nat
  <2> DEFINE M == 2^mb
             N == 2^(mb + 1)
  <2>1. M \in Nat /\ N = 2 * M /\ c.mantissa \in 0 .. (M - 1) /\ c.exponent \in Nat
    BY <1>3
  <2>2. Significand(f, c) = IF c.exponent = 0 THEN c.mantissa ELSE M + c.mantissa
    BY DEF Significand
  <2> HIDE DEF M, N
  <2>3. Significand(f, c) \in Nat /\ Significand(f, c) < N /\ ExponentOf(c) \in Nat
    BY <2>1, <2>2 DEF ExponentOf
  <2>4. QED BY <2>3 DEF N
<1>5. Magnitude(f, c) = Mag(Significand(f, c), ExponentOf(c) - f.exponent_bias - mb)
  BY DEF Magnitude, Significand, ExponentOf
<1>6. QED BY <1>1, <1>2, <1>4, <1>5 DEF f

\* The significand and exponent a converter takes from a decoded number.
LEMMA Effective ==
  ASSUME NEW name \in DOMAIN FormatOf, NEW c \in Codes(FormatOf[name]),
         ~ IsSpecial(FormatOf[name], c)
  PROVE  LET f == FormatOf[name]
             k == DecodeOf(name, c)
         IN /\ Typed(effective_significand(k), 1, f.mantissa_bits)
            /\ effective_significand(k).raw = Significand(f, c)
            /\ IsNode(effective_exponent(k)) /\ effective_exponent(k).frac = 0
            /\ effective_exponent(k).raw = ExponentOf(c)
<1> DEFINE f  == FormatOf[name]
           k  == DecodeOf(name, c)
           mb == f.mantissa_bits
           fraction == uq_integer_to_fraction(k.mantissa)
<1>1. /\ ClassesAsTyped(f, c, k) /\ k.exponent = Fields(f, c).exponent
      /\ k.mantissa = Fields(f, c).mantissa
  BY DecodedFields
<1>2. FormatTyped(f) /\ mb \in Nat \ {0} /\ f.exponent_bits \in Nat \ {0}
      /\ Significand(f, c) \in Nat /\ Significand(f, c) < 2^(mb + 1)
  BY FormatFields, MagnitudeOf
<1>3. c \in Codes(f) /\ ~ IsSpecial(f, c)
  OBVIOUS
<1> HIDE DEF f, k
<1>4. /\ IsNode(k.exponent) /\ k.exponent.raw = c.exponent
      /\ k.exponent.int = f.exponent_bits /\ k.exponent.frac = 0
      /\ IsNode(k.mantissa) /\ k.mantissa.raw = c.mantissa
      /\ k.mantissa.int = mb /\ k.mantissa.frac = 0
      /\ c.mantissa \in 0 .. (2^mb - 1) /\ c.exponent \in 0 .. (2^f.exponent_bits - 1)
  BY <1>1, <1>2, <1>3, FieldsOfCode
<1>5. k.is_norm = (c.exponent # 0) /\ k.is_sub = (c.exponent = 0)
  <2>1. is_sub(f, c) = (c.exponent = 0) /\ is_norm(f, c) = (c.exponent # 0)
    BY <1>3 DEF IsSpecial, is_sub, is_norm
  <2>2. QED BY <1>1, <2>1 DEF ClassesAsTyped
<1>6. 2^mb \in Nat /\ 2^mb > 0 /\ 2^(mb + 1) = 2 * 2^mb /\ c.mantissa \in Nat /\ c.mantissa < 2^mb
      /\ c.exponent \in Nat
  <2>1. 2^mb \in Nat /\ 2^mb > 0 /\ 2^(mb + 1) = 2 * 2^mb
    BY <1>2, PowerPositive, PowerStep
  <2> DEFINE M == 2^mb
  <2>2. M \in Nat /\ c.mantissa \in 0 .. (M - 1)
    BY <1>4, <2>1
  <2> HIDE DEF M
  <2>3. c.mantissa \in Nat /\ c.mantissa < M
    BY <2>2
  <2>4. QED BY <1>4, <2>1, <2>3 DEF M
<1>7. Typed(fraction, 0, mb) /\ fraction.raw = c.mantissa
  <2>1. fraction = Node(<<0, mb>>, c.mantissa)
    BY <1>4 DEF uq_integer_to_fraction, basic_identity
  <2> DEFINE v == c.mantissa
             n == mb
  <2>2. v \in Nat /\ n \in Nat /\ 0 \in Nat /\ 0 + n = n /\ v < 2^n
    BY <1>2, <1>6
  <2>3. fraction = Node(<<0, n>>, v)
    BY <2>1
  <2> HIDE DEF v, n, fraction
  <2>4. v < 2^(0 + n)
    BY <2>2
  <2>5. Typed(Node(<<0, n>>, v), 0, n) /\ Node(<<0, n>>, v).raw = v
    BY <2>2, <2>4, MaskedFits
  <2>6. Typed(fraction, 0, n) /\ fraction.raw = v
    BY <2>3, <2>5
  <2>7. QED BY <2>6 DEF v, n
<1> HIDE DEF fraction
<1>8. effective_significand(k) = Node(<<1, mb>>, Significand(f, c))
  <2>1. CASE c.exponent # 0
    <3>1. effective_significand(k) = add_implicit_bit(fraction)
      BY <1>5, <2>1 DEF effective_significand, fraction
    <3>2. fraction.frac = mb
      BY <1>7 DEF Typed
    <3>3. QED BY <1>7, <2>1, <3>1, <3>2 DEF add_implicit_bit, Significand
  <2>2. CASE c.exponent = 0
    <3>1. effective_significand(k) = uq_resize(fraction, 1, mb)
      BY <1>4, <1>5, <2>2 DEF effective_significand, fraction
    <3>2. fraction.frac = mb /\ ~ (mb > fraction.frac) /\ ~ (mb < fraction.frac)
      BY <1>2, <1>7 DEF Typed
    <3>3. uq_resize(fraction, 1, mb) = basic_identity(fraction, <<1, mb>>)
      BY <3>2 DEF uq_resize
    <3>4. QED BY <1>7, <2>2, <3>1, <3>3 DEF basic_identity, Significand
  <2>3. QED BY <2>1, <2>2
<1>9. Typed(effective_significand(k), 1, mb) /\ effective_significand(k).raw = Significand(f, c)
  <2> DEFINE v == Significand(f, c)
             n == mb
  <2>1. v \in Nat /\ n \in Nat /\ 1 \in Nat /\ n + 1 = 1 + n /\ v < 2^(n + 1)
    BY <1>2
  <2>2. effective_significand(k) = Node(<<1, n>>, v)
    BY <1>8
  <2> HIDE DEF v, n
  <2>3. v < 2^(1 + n)
    BY <2>1
  <2>4. Typed(Node(<<1, n>>, v), 1, n) /\ Node(<<1, n>>, v).raw = v
    BY <2>1, <2>3, MaskedFits
  <2>5. Typed(effective_significand(k), 1, n) /\ effective_significand(k).raw = v
    BY <2>2, <2>4
  <2>6. QED BY <2>5 DEF v, n
<1>10. IsNode(effective_exponent(k)) /\ effective_exponent(k).frac = 0
       /\ effective_exponent(k).raw = ExponentOf(c)
  <2>1. CASE c.exponent # 0
    <3>1. effective_exponent(k) = k.exponent
      BY <1>5, <2>1 DEF effective_exponent
    <3>2. QED BY <1>4, <2>1, <3>1 DEF ExponentOf
  <2>2. CASE c.exponent = 0
    <3> DEFINE eb == f.exponent_bits
    <3>1. effective_exponent(k) = Node(<<eb, 0>>, 1)
      BY <1>4, <1>5, <2>2 DEF effective_exponent, dtype
    <3>2. eb \in Nat /\ eb >= 1 /\ eb + 0 = eb
      BY <1>2
    <3> HIDE DEF eb
    <3>3. 1 < 2^(eb + 0)
      <4>1. eb < 2^eb
        BY <3>2, LessThanPower
      <4>2. 2^eb \in Nat
        BY <3>2, PowerPositive
      <4>3. QED BY <3>2, <4>1, <4>2
    <3>4. 1 \in Nat /\ 0 \in Nat
      OBVIOUS
    <3>5. Typed(Node(<<eb, 0>>, 1), eb, 0) /\ Node(<<eb, 0>>, 1).raw = 1
      BY <3>2, <3>3, <3>4, MaskedFits
    <3>6. QED BY <2>2, <3>1, <3>5 DEF Typed, ExponentOf
  <2>3. QED BY <2>1, <2>2
<1>11. QED BY <1>9, <1>10 DEF f, k

-----------------------------------------------------------------------------
(* The number on its way through the encoder.                              *)

\* n * 2^k has the place of the number converted among the numbers of the target.
PlaceOf(v)    == Ordinal(To.mantissa_bits, To.exponent_bias, v)
SamePlace(n, k) == PlaceOf(Mag(n, k)) = PlaceOf(Value)

\* What the encoder starts from: a zero, or a significand at the right place.
Prepared ==
  /\ m.raw = 0 <=> Value.m = 0
  /\ FractionBits(m) + 1 >= To.mantissa_bits
  /\ m.raw > 0 => SamePlace(m.raw, scaled_integer(e) - To.exponent_bias - m.frac)

\* The significand is 1.xxx, at least as wide as the mantissa, at the right place.
Normalized ==
  /\ m.int = 1 /\ m.frac + 1 >= To.mantissa_bits
  /\ 2^m.frac <= m.raw /\ m.raw < 2^(m.frac + 1)
  /\ HoldsAbove(e, scaled_integer(e))
  /\ SamePlace(m.raw, scaled_integer(e) - To.exponent_bias - m.frac)

\* What the bits cut off round to is the place of the number.
Staged ==
  /\ m.int = 1 /\ To.mantissa_bits + 2 <= m.frac
  /\ e.raw * 2^To.mantissa_bits + HalfEven(m.raw % 2^m.frac, m.frac - To.mantissa_bits)
       = PlaceOf(Value)

\* Exponent and mantissa, as one number, are the place of the number.
RoundedOff ==
  /\ m.int = 0 /\ m.frac = To.mantissa_bits
  /\ e.raw * 2^To.mantissa_bits + m.raw = PlaceOf(Value)

\* An encoder is given nodes.
GivenTyped ==
  ~ Converting => given.m.raw \in Nat /\ given.m.frac \in Nat /\ scaled_integer(given.e) \in Int

\* What each Primitive leaves to the next one.
OnTheWay ==
  /\ stage \in {"normalize", "shift", "round", "encode"} => s = Sign
  /\ stage = "normalize" => Prepared
  /\ stage \in {"shift", "round", "encode"} => (exact_zero <=> Value.m = 0)
  /\ stage = "shift" /\ ~ exact_zero => Normalized
  /\ stage = "round" /\ ~ exact_zero => Staged
  /\ stage = "encode" /\ ~ exact_zero => RoundedOff
  /\ stage \in {"specials", "done"} => result = RoundToNearestEven(To, Sign, Value)

\* The inductive invariant of the conversion of numbers.
ValueInv == GivenTyped /\ (Finite => OnTheWay)

\* The number converted, and the format it is converted to.
LEMMA ConvertedNumber ==
  ASSUME ConverterInv, GivenTyped
  PROVE  /\ \E n \in Nat, k \in Int : Value = Mag(n, k)
         /\ design.to \in DOMAIN FormatOf /\ FormatTyped(To)
         /\ To.mantissa_bits \in Nat /\ To.mantissa_bits >= 1 /\ To.exponent_bias \in Nat
         /\ Converting => design.from \in DOMAIN FormatOf /\ x \in Codes(From)
<1>1. design \in Designs /\ (Converting => x \in Codes(From))
  BY DEF ConverterInv, Typing
<1>2. design.to \in DOMAIN FormatOf /\ (Converting => design.from \in DOMAIN FormatOf)
  BY <1>1, DesignFormats
<1>3. FormatTyped(To) /\ To.mantissa_bits \in Nat /\ To.mantissa_bits >= 1 /\ To.exponent_bias \in Nat
  <2>1. FormatTyped(To) /\ To.exponent_bias \in Nat
    BY <1>2, FormatFields, BiasNat DEF To
  <2>2. QED BY <2>1 DEF FormatTyped
<1>4. ASSUME Converting PROVE \E n \in Nat, k \in Int : Value = Mag(n, k)
  <2> DEFINE n == Significand(From, x)
             k == ExponentOf(x) - From.exponent_bias - From.mantissa_bits
  <2>1. Magnitude(From, x) = Mag(n, k) /\ n \in Nat /\ k \in Int
    BY <1>1, <1>2, <1>4, MagnitudeOf DEF From
  <2>2. Value = Mag(n, k)
    BY <1>4, <2>1 DEF Value
  <2> HIDE DEF n, k
  <2>3. QED BY <2>1, <2>2
<1>5. ASSUME ~ Converting PROVE \E n \in Nat, k \in Int : Value = Mag(n, k)
  <2> DEFINE n == given.m.raw
             k == scaled_integer(given.e) - To.exponent_bias - given.m.frac
  <2>1. n \in Nat /\ k \in Int
    BY <1>3, <1>5 DEF GivenTyped
  <2>2. Value = Mag(n, k)
    BY <1>5 DEF Value, GivenMagnitude
  <2> HIDE DEF n, k
  <2>3. QED BY <2>1, <2>2
<1>6. QED BY <1>1, <1>2, <1>3, <1>4, <1>5

\* What a step leaves alone.
LEMMA SameNumber ==
  ASSUME UNCHANGED <<design, x, given>>
  PROVE  /\ Value' = Value /\ Sign' = Sign /\ Finite' = Finite /\ To' = To
         /\ GivenTyped' = GivenTyped /\ Converting' = Converting
         /\ \A v : PlaceOf(v)' = PlaceOf(v)
BY DEF Value, Sign, Finite, To, From, Converting, GivenMagnitude, GivenTyped, PlaceOf

\* An encoder starts with the number it is given.
LEMMA InitValue == Init => ValueInv
<1>1. ASSUME Init, InitConverter PROVE ValueInv
  <2>1. Converting /\ stage = "decode"
    BY <1>1 DEF InitConverter, Converting, Narrow
  <2>2. QED BY <2>1 DEF ValueInv, GivenTyped, OnTheWay
<1>2. ASSUME Init, InitEncoder PROVE ValueInv
  <2>1. /\ design.from = "encoder" /\ design.to \in DOMAIN Significands
        /\ e \in Exponents /\ m \in Significands[design.to] /\ given = [s |-> s, e |-> e, m |-> m]
        /\ stage = "normalize"
    BY <1>2 DEF InitEncoder
  <2>2. /\ IsNode(m) /\ IsNode(e) /\ e.frac = 0 /\ e.int >= 1
        /\ FractionBits(m) + 1 >= To.mantissa_bits /\ ~ Converting
    <3>1. IsNode(m) /\ IsNode(e) /\ e.frac = 0 /\ e.int >= 2 /\ ~ Converting
      BY <2>1, EncoderAssumption DEF Converting
    <3>2. Larger(m.int - 1, 0) + m.frac + 1 >= To.mantissa_bits
      BY <2>1, WidthAssumption DEF To
    <3>3. m.int \in Nat /\ m.frac \in Nat /\ e.int \in Nat
      BY <3>1, NodeFields
    <3>4. Larger(m.int - 1, 0) \in Nat
      BY <3>3 DEF Larger
    <3>5. FractionBits(m) + 1 >= To.mantissa_bits
      BY <3>2, <3>3, <3>4 DEF FractionBits
    <3>6. e.int >= 1
      BY <3>1, <3>3
    <3>7. QED BY <3>1, <3>5, <3>6
  <2>3. Holds(e, e.int, scaled_integer(e))
    BY <2>2, ScaledHolds
  <2>4. GivenTyped
    <3>1. given.m = m /\ given.e = e
      BY <2>1
    <3>2. scaled_integer(e) \in Int /\ m.raw \in Nat /\ m.frac \in Nat
      BY <2>2, <2>3, NodeFields DEF Holds
    <3>3. QED BY <3>1, <3>2 DEF GivenTyped
  <2>5. Value = Mag(m.raw, scaled_integer(e) - To.exponent_bias - m.frac) /\ s = Sign
    BY <2>1, <2>2 DEF Value, GivenMagnitude, Sign
  <2>6. Value.m = m.raw
    BY <2>5 DEF Mag
  <2>7. Prepared
    BY <2>2, <2>5, <2>6 DEF Prepared, SamePlace
  <2>8. QED BY <2>1, <2>4, <2>5, <2>7 DEF ValueInv, OnTheWay
<1>3. QED BY <1>1, <1>2 DEF Init

\* Decoding leaves the number alone.
LEMMA DecodeValue == ValueInv /\ Decode => ValueInv'
<1> SUFFICES ASSUME ValueInv, Decode PROVE ValueInv'
  OBVIOUS
<1>1. stage' = "rebase" /\ UNCHANGED <<design, x, given>>
  BY DEF Decode
<1>2. GivenTyped'
  BY <1>1, SameNumber DEF ValueInv
<1>3. QED BY <1>1, <1>2 DEF ValueInv, OnTheWay

\* A converter gives the encoder the number of the code.
LEMMA RebaseValue == ConverterInv /\ ValueInv /\ Rebase => ValueInv'
<1> SUFFICES ASSUME ConverterInv, ValueInv, Rebase PROVE ValueInv'
  OBVIOUS
<1> DEFINE mb    == From.mantissa_bits
           bits  == To.mantissa_bits
           width == Larger(mb, bits)
           shift == To.exponent_bias - From.exponent_bias
           n     == effective_significand(X)
           k     == effective_exponent(X)
           r     == Significand(From, x)
           q     == ExponentOf(x)
           j     == width - mb
           z     == q - From.exponent_bias - mb
<1>1. /\ stage = "rebase" /\ stage' = "normalize" /\ UNCHANGED <<design, x, X>>
      /\ s' = X.sign /\ m' = uq_resize(n, 1, width) /\ e' = q_add(uq_to_q(k), Q_from_int(shift))
  BY DEF Rebase
<1>2. Converting /\ design \in Designs /\ x \in Codes(From) /\ X = DecodeOf(design.from, x)
  BY <1>1 DEF ConverterInv, Typing
<1>3. /\ design.from \in DOMAIN FormatOf /\ design.to \in DOMAIN FormatOf
      /\ bits \in Nat /\ bits >= 1 /\ To.exponent_bias \in Nat
  BY <1>2, ConvertedNumber DEF ValueInv
<1>4. /\ Converting' = Converting /\ Finite' = Finite /\ To' = To /\ From' = From
  BY <1>1 DEF Converting, Finite, To, From
<1>5. /\ Value = Magnitude(From, x) /\ Value' = Value /\ Sign' = x.sign
  BY <1>1, <1>2, <1>4 DEF Value, Sign
<1>6. GivenTyped'
  BY <1>2, <1>4 DEF GivenTyped
<1>7. SUFFICES ASSUME Finite PROVE s' = x.sign /\ Prepared'
  BY <1>1, <1>4, <1>5, <1>6 DEF ValueInv, OnTheWay
<1>8. ~ IsSpecial(From, x)
  BY <1>2, <1>7 DEF Finite
<1>9. /\ Value = Mag(r, z) /\ r \in Nat /\ r < 2^(mb + 1) /\ q \in Nat /\ mb \in Nat /\ mb >= 1
      /\ From.exponent_bias \in Nat
  BY <1>2, <1>3, <1>5, MagnitudeOf DEF From
<1>10. /\ Typed(n, 1, mb) /\ n.raw = r /\ IsNode(k) /\ k.frac = 0 /\ k.raw = q
  BY <1>2, <1>3, <1>8, Effective DEF From
<1>11. s' = x.sign
  BY <1>1, <1>2, <1>3, DecodedFields DEF From
<1> HIDE DEF n, k, r, q
<1>12. /\ width \in Nat /\ width >= mb /\ width >= bits /\ j \in Nat /\ shift \in Int /\ z \in Int
       /\ mb + 1 + j = 1 + width
  BY <1>3, <1>9 DEF Larger
<1> HIDE DEF mb, bits, width, j
<1>13. /\ Typed(m', 1, width) /\ m'.raw = r * 2^j
  <2>1. r * 2^j < 2^(1 + width)
    <3>1. 2^(mb + 1 + j) = 2^(mb + 1) * 2^j
      <4> DEFINE t == mb + 1
      <4>1. t \in Nat
        BY <1>9
      <4> HIDE DEF t
      <4>2. 2^(t + j) = 2^t * 2^j
        BY <1>12, <4>1, PowerSum
      <4>3. t + j = mb + 1 + j
        BY <1>9, <1>12 DEF t
      <4>4. QED BY <4>2, <4>3 DEF t
    <3>2. 2^(1 + width) = 2^(mb + 1) * 2^j
      BY <1>12, <3>1
    <3> DEFINE P == 2^(mb + 1)
               J == 2^j
    <3>3. P \in Nat /\ J \in Nat /\ J > 0 /\ r < P /\ r \in Nat
      BY <1>9, <1>12, PowerPositive
    <3> HIDE DEF P, J
    <3>4. r * J < P * J
      BY <3>3
    <3>5. QED BY <3>2, <3>4 DEF P, J
  <2>2. IsNode(n) /\ n.frac = mb /\ n.frac <= width /\ width - n.frac = j
    BY <1>10, <1>12 DEF Typed, j
  <2>3. n.raw * 2^(width - n.frac) < 2^(1 + width) /\ 1 \in Nat
    BY <1>10, <2>1, <2>2
  <2>4. /\ Typed(uq_resize(n, 1, width), 1, width)
        /\ uq_resize(n, 1, width).raw = n.raw * 2^(width - n.frac)
    BY <1>12, <2>2, <2>3, ResizeUp
  <2>5. uq_resize(n, 1, width).raw = r * 2^j
    BY <1>10, <2>2, <2>4
  <2>6. QED BY <1>1, <2>4, <2>5
<1>14. scaled_integer(e') = q + shift
  <2>1. Holds(uq_to_q(k), k.int + 1, q)
    BY <1>10, ToSigned
  <2> DEFINE b == shift
  <2>2. b \in Int /\ e' = q_add(uq_to_q(k), Q_from_int(b))
    BY <1>1, <1>12
  <2> HIDE DEF b
  <2>3. \E i \in Nat : i >= 2 /\ Holds(Q_from_int(b), i, b)
    BY <2>2, ConstantHolds
  <2>4. PICK i \in Nat : i >= 2 /\ Holds(Q_from_int(b), i, b)
    BY <2>3
  <2>5. Holds(e', Larger(k.int + 1, i) + 1, q + b)
    BY <2>1, <2>2, <2>4, AddHolds
  <2>6. scaled_integer(e') = q + b
    BY <2>5, ScaledHolds
  <2>7. QED BY <2>6 DEF b
<1>15. m'.int = 1 /\ m'.frac = width /\ m'.raw \in Nat
  BY <1>13, NodeFields DEF Typed
<1>16. FractionBits(m') + 1 >= bits
  <2>1. FractionBits(m') = width
    BY <1>12, <1>15 DEF FractionBits, Larger
  <2>2. QED BY <1>3, <1>12, <2>1 DEF bits
<1>17. m'.raw = 0 <=> r = 0
  <2> DEFINE J == 2^j
  <2>1. J \in Nat /\ J > 0 /\ m'.raw = r * J
    BY <1>12, <1>13, PowerPositive
  <2> HIDE DEF J
  <2>2. QED BY <1>9, <2>1
<1>18. Value.m = r
  BY <1>9 DEF Mag
<1>19. ASSUME r > 0
       PROVE  PlaceOf(Mag(m'.raw, scaled_integer(e') - To.exponent_bias - m'.frac)) = PlaceOf(Value)
  <2>1. scaled_integer(e') - To.exponent_bias - m'.frac = z - j
    BY <1>3, <1>9, <1>12, <1>14, <1>15 DEF j
  <2> DEFINE y == z
             u == z - j
  <2> HIDE DEF z
  <2>2. Ordinal(bits, To.exponent_bias, Mag(r * 2^j, y - j)) = Ordinal(bits, To.exponent_bias, Mag(r, y))
    <3>1. bits \in Nat /\ To.exponent_bias \in Nat /\ r \in Nat /\ r > 0 /\ y \in Int /\ j \in Nat
      BY <1>3, <1>9, <1>12, <1>19 DEF bits
    <3> HIDE DEF y
    <3>2. QED BY ONLY <3>1, OrdinalScaled
  <2>3. QED BY <1>9, <1>13, <2>1, <2>2 DEF PlaceOf, bits
<1>20. m'.raw > 0 => r > 0
  BY <1>9, <1>15, <1>17
<1>21. Prepared'
  <2>1. /\ m'.raw = 0 <=> Value'.m = 0
        /\ FractionBits(m') + 1 >= To'.mantissa_bits
    BY <1>4, <1>5, <1>16, <1>17, <1>18 DEF bits
  <2>2. m'.raw > 0 =>
          PlaceOf(Mag(m'.raw, scaled_integer(e') - To.exponent_bias - m'.frac)) = PlaceOf(Value)
    BY <1>19, <1>20
  <2>3. m'.raw > 0 =>
          SamePlace(m.raw, scaled_integer(e) - To.exponent_bias - m.frac)'
    BY <1>4, <1>5, <2>2 DEF SamePlace, PlaceOf
  <2>4. FractionBits(m)' = FractionBits(m')
    BY DEF FractionBits
  <2>5. QED BY <2>1, <2>3, <2>4 DEF Prepared
<1>22. QED BY <1>11, <1>21

\* The zero is caught, and every other significand moves to 1.xxx.
LEMMA NormalizeValueKeeps == ConverterInv /\ ValueInv /\ Normalize => ValueInv'
<1> SUFFICES ASSUME ConverterInv, ValueInv, Normalize PROVE ValueInv'
  OBVIOUS
<1> DEFINE both == normalize_to_1_xxx(m, e)
           F == FractionBits(m)
           j == LeadingZeros(m)
           b == BitLength(m.raw)
           v == scaled_integer(e)
           bits == To.mantissa_bits
           bias == To.exponent_bias
<1>1. /\ stage = "normalize" /\ stage' = "shift" /\ UNCHANGED <<design, x, given, s>>
      /\ m' = both[1] /\ e' = both[2] /\ exact_zero' = (uq_is_zero(m).raw = 1)
  BY DEF Normalize
<1>2. IsNode(m) /\ IsNode(e) /\ e.frac = 0 /\ e.int >= 1
  BY <1>1 DEF ConverterInv, Typing
<1>3. /\ Value' = Value /\ Sign' = Sign /\ Finite' = Finite /\ To' = To /\ GivenTyped'
      /\ \A w : PlaceOf(w)' = PlaceOf(w)
  BY <1>1, SameNumber DEF ValueInv
<1>4. SUFFICES ASSUME Finite
               PROVE  s' = Sign /\ (exact_zero' <=> Value.m = 0) /\ (~ exact_zero' => Normalized')
  BY <1>1, <1>3 DEF ValueInv, OnTheWay
<1>5. s = Sign /\ Prepared
  BY <1>1, <1>4 DEF ValueInv, OnTheWay
<1>6. exact_zero' <=> m.raw = 0
  <2>1. uq_is_zero(m).raw = IF m.raw = 0 THEN 1 ELSE 0
    BY <1>2, BitValue
  <2>2. uq_is_zero(m).raw = 1 <=> m.raw = 0
    BY ONLY <2>1
  <2>3. exact_zero' <=> uq_is_zero(m).raw = 1
    BY <1>1
  <2>4. QED BY <2>2, <2>3
<1>7. exact_zero' <=> Value.m = 0
  BY <1>5, <1>6 DEF Prepared
<1>8. ASSUME m.raw > 0 PROVE Normalized'
  <2>1. Holds(e, e.int, v) /\ v \in Int
    BY <1>2, ScaledHolds DEF Holds
  <2>2. /\ Typed(m', 1, F) /\ m'.raw = m.raw * 2^j
        /\ HoldsAbove(e', v - (m.frac + 1 - b))
    BY <1>1, <1>2, <1>8, <2>1, NormalizeValue
  <2>3. /\ F \in Nat /\ j \in Nat /\ 2^F <= m.raw * 2^j /\ m.raw * 2^j < 2^(F + 1)
    BY <1>2, <1>8, NormalizedRange
  <2>4. b \in Nat /\ m.frac \in Nat /\ m.raw \in Nat
    BY <1>2, <1>8, NodeFields, ZerosCounted
  <2>5. j = F + 1 - b
    BY DEF LeadingZeros
  <2> HIDE DEF v, b
  <2>6. bits \in Nat /\ bits >= 1 /\ bias \in Nat
    BY ConvertedNumber DEF ValueInv
  <2>7. m'.int = 1 /\ m'.frac = F
    BY <2>2 DEF Typed
  <2>8. m'.frac + 1 >= bits
    BY <1>5, <2>7 DEF Prepared
  <2>9. scaled_integer(e') = v - (m.frac + 1 - b)
    BY <2>2, ScaledHolds DEF HoldsAbove
  <2>10. HoldsAbove(e', scaled_integer(e'))
    BY <2>2, <2>9
  <2> DEFINE k == v - bias - m.frac
  <2>11. k \in Int /\ scaled_integer(e') - bias - m'.frac = k - j
    BY <2>1, <2>3, <2>4, <2>5, <2>6, <2>7, <2>9
  <2>12. PlaceOf(Mag(m.raw, k)) = PlaceOf(Value)
    BY <1>5, <1>8 DEF Prepared, SamePlace, v
  <2> HIDE DEF k
  <2>13. PlaceOf(Mag(m'.raw, k - j)) = PlaceOf(Mag(m.raw, k))
    <3> DEFINE r == m.raw
               z == j
    <3>1. bits \in Nat /\ bias \in Nat /\ r \in Nat /\ r > 0 /\ k \in Int /\ z \in Nat
      BY <1>8, <2>3, <2>4, <2>6, <2>11
    <3> HIDE DEF r, z, bits, bias
    <3>2. Ordinal(bits, bias, Mag(r * 2^z, k - z)) = Ordinal(bits, bias, Mag(r, k))
      BY ONLY <3>1, OrdinalScaled
    <3>3. QED BY <2>2, <3>2 DEF PlaceOf, bits, bias, r, z
  <2>14. PlaceOf(Mag(m'.raw, scaled_integer(e') - To.exponent_bias - m'.frac)) = PlaceOf(Value)
    BY <2>11, <2>12, <2>13
  <2>15. SamePlace(m.raw, scaled_integer(e) - To.exponent_bias - m.frac)'
    BY <1>3, <2>14 DEF SamePlace, PlaceOf
  <2> HIDE DEF F, j
  <2>16. 2^m'.frac <= m'.raw /\ m'.raw < 2^(m'.frac + 1)
    BY <2>2, <2>3, <2>7
  <2>17. HoldsAbove(e, scaled_integer(e))'
    BY <2>10 DEF HoldsAbove, Holds
  <2>18. QED BY <1>3, <2>7, <2>8, <2>15, <2>16, <2>17 DEF Normalized
<1>9. m.raw \in Nat
  BY <1>2, NodeFields
<1>10. QED BY <1>1, <1>5, <1>6, <1>7, <1>8, <1>9

\* Guard, round and sticky bits of a subnormal are those of the number.
LEMMA ShiftValueKeeps == ConverterInv /\ ValueInv /\ Shift => ValueInv'
<1> SUFFICES ASSUME ConverterInv, ValueInv, Shift PROVE ValueInv'
  OBVIOUS
<1> DEFINE both == shift_if_subnormal(m, e, 3)
           F == m.frac
           r == m.raw
           v == scaled_integer(e)
           bits == To.mantissa_bits
           bias == To.exponent_bias
<1>1. /\ stage = "shift" /\ stage' = "round" /\ UNCHANGED <<design, x, given, s, exact_zero>>
      /\ m' = both[1] /\ e' = both[2]
  BY DEF Shift
<1>2. IsNode(m)
  BY <1>1 DEF ConverterInv, Typing
<1>3. /\ Value' = Value /\ Sign' = Sign /\ Finite' = Finite /\ To' = To /\ GivenTyped'
      /\ \A w : PlaceOf(w)' = PlaceOf(w)
  BY <1>1, SameNumber DEF ValueInv
<1>4. SUFFICES ASSUME Finite, ~ exact_zero PROVE Staged'
  BY <1>1, <1>3 DEF ValueInv, OnTheWay
<1>5. Normalized
  BY <1>1, <1>4 DEF ValueInv, OnTheWay
<1>6. F \in Nat /\ r \in Nat /\ Typed(m, 1, F)
  BY <1>2, <1>5, NodeFields DEF Typed, Normalized
<1>7. HoldsAbove(e, v) /\ v \in Int
  BY <1>5 DEF Normalized, HoldsAbove, Holds
<1>8. /\ Typed(m', 1, F + 3) /\ m'.raw = Shifted(r, v)
      /\ IsNode(e') /\ e'.frac = 0 /\ e'.raw = Larger(v, 0)
  BY <1>1, <1>6, <1>7, ShiftValue
<1>9. bits \in Nat /\ bits >= 1 /\ bias \in Nat
  BY ConvertedNumber DEF ValueInv
<1>10. F + 1 >= bits /\ 2^F <= r /\ r < 2^(F + 1) /\ PlaceOf(Mag(r, v - bias - F)) = PlaceOf(Value)
  BY <1>5 DEF Normalized, SamePlace
<1> HIDE DEF F, r, v, bits, bias
<1>11. Ordinal(bits, bias, Mag(r, v - bias - F))
         = Larger(v, 0) * 2^bits + HalfEven(Shifted(r, v) % 2^(F + 3), F + 3 - bits)
  <2>1. /\ bits \in Nat /\ bits >= 1 /\ bias \in Nat /\ F \in Nat /\ F + 1 >= bits
        /\ r \in Nat /\ 2^F <= r /\ r < 2^(F + 1) /\ v \in Int
    BY <1>6, <1>7, <1>9, <1>10
  <2>2. QED BY ONLY <2>1, NormalOrdinal
<1>12. m'.int = 1 /\ m'.frac = F + 3 /\ bits + 2 <= m'.frac
  BY <1>6, <1>8, <1>9, <1>10 DEF Typed
<1>13. e'.raw * 2^bits + HalfEven(m'.raw % 2^m'.frac, m'.frac - bits) = PlaceOf(Value)
  <2>1. Ordinal(bits, bias, Mag(r, v - bias - F)) = PlaceOf(Value)
    BY <1>10 DEF PlaceOf, bits, bias
  <2>2. m'.raw % 2^m'.frac = Shifted(r, v) % 2^(F + 3) /\ m'.frac - bits = F + 3 - bits
    <3>1. m'.frac = F + 3 /\ F \in Nat /\ bits \in Nat /\ m'.raw = Shifted(r, v)
      BY <1>6, <1>8, <1>9, <1>12
    <3>2. QED BY ONLY <3>1
  <2>3. QED BY ONLY <1>8, <1>11, <2>1, <2>2
<1>14. QED BY <1>3, <1>12, <1>13 DEF Staged, bits

\* The rounded fields are the place of the number.
LEMMA RoundValueKeeps == ConverterInv /\ ValueInv /\ Round => ValueInv'
<1> SUFFICES ASSUME ConverterInv, ValueInv, Round PROVE ValueInv'
  OBVIOUS
<1> DEFINE bits == To.mantissa_bits
           G == m.frac
           both == round_mantissa(drop_implicit_bit(m), e, bits)
<1>1. /\ stage = "round" /\ stage' = "encode" /\ UNCHANGED <<design, x, given, s, exact_zero>>
      /\ m' = both[1] /\ e' = both[2]
  BY DEF Round
<1>2. IsNode(m) /\ IsNode(e) /\ e.frac = 0
  BY <1>1 DEF ConverterInv, Typing
<1>3. /\ Value' = Value /\ Sign' = Sign /\ Finite' = Finite /\ To' = To /\ GivenTyped'
      /\ \A w : PlaceOf(w)' = PlaceOf(w)
  BY <1>1, SameNumber DEF ValueInv
<1>4. SUFFICES ASSUME Finite, ~ exact_zero PROVE RoundedOff'
  BY <1>1, <1>3 DEF ValueInv, OnTheWay
<1>5. Staged
  BY <1>1, <1>4 DEF ValueInv, OnTheWay
<1>6. bits \in Nat /\ bits >= 1
  BY ConvertedNumber DEF ValueInv
<1>7. G \in Nat /\ bits + 2 <= G /\ Typed(m, 1, G)
  BY <1>2, <1>5, NodeFields DEF Typed, Staged
<1>8. /\ Typed(both[1], 0, bits) /\ IsNode(both[2]) /\ both[2].frac = 0
      /\ both[2].raw * 2^bits + both[1].raw = e.raw * 2^bits + HalfEven(m.raw % 2^G, G - bits)
  <2> HIDE DEF bits, G
  <2>1. /\ bits \in Nat /\ bits >= 1 /\ G \in Nat /\ bits + 2 <= G /\ Typed(m, 1, G)
        /\ IsNode(e) /\ e.frac = 0
    BY <1>2, <1>6, <1>7
  <2>2. QED BY ONLY <2>1, RoundValue DEF both
<1>9. e.raw * 2^bits + HalfEven(m.raw % 2^G, G - bits) = PlaceOf(Value)
  BY <1>5 DEF Staged
<1>10. e'.raw * 2^bits + m'.raw = PlaceOf(Value) /\ Typed(m', 0, bits)
  BY <1>1, <1>8, <1>9
<1> HIDE DEF both
<1>11. QED BY <1>3, <1>10 DEF RoundedOff, Typed, bits

\* The place of a number determines the code an encoder returns.
LEMMA EncodeValueKeeps == ConverterInv /\ ValueInv /\ Encode => ValueInv'
<1> SUFFICES ASSUME ConverterInv, ValueInv, Encode PROVE ValueInv'
  OBVIOUS
<1> DEFINE bits == To.mantissa_bits
           bias == To.exponent_bias
           sg   == IF To.signs = {0} THEN 0 ELSE s
<1>1. /\ stage = "encode" /\ stage' \in {"specials", "done"}
      /\ UNCHANGED <<design, x, given, s, e, m, exact_zero>>
      /\ result' = EncodedOf(design.to, s, m, e, exact_zero)
  BY DEF Encode
<1>2. IsNode(m) /\ IsNode(e) /\ e.frac = 0 /\ exact_zero \in BOOLEAN
  BY <1>1 DEF ConverterInv, Typing
<1>3. /\ Value' = Value /\ Sign' = Sign /\ Finite' = Finite /\ To' = To /\ GivenTyped'
      /\ \A w : PlaceOf(w)' = PlaceOf(w)
  BY <1>1, SameNumber DEF ValueInv
<1>4. SUFFICES ASSUME Finite PROVE result' = RoundToNearestEven(To, Sign, Value)
  BY <1>1, <1>3 DEF ValueInv, OnTheWay
<1>5. s = Sign /\ (exact_zero <=> Value.m = 0) /\ (~ exact_zero => RoundedOff)
  BY <1>1, <1>4 DEF ValueInv, OnTheWay
<1>6. /\ design.to \in DOMAIN FormatOf /\ FormatTyped(To) /\ bits \in Nat /\ bits >= 1 /\ bias \in Nat
      /\ \E n \in Nat, k \in Int : Value = Mag(n, k)
  BY ConvertedNumber DEF ValueInv
<1>7. CASE exact_zero
  <2>1. result' = Zero
    BY <1>1, <1>2, <1>6, <1>7, EncodedAs
  <2>2. QED BY <1>5, <1>7, <2>1 DEF RoundToNearestEven
<1>8. CASE ~ exact_zero
  <2>1. PICK n \in Nat, k \in Int : Value = Mag(n, k)
    BY <1>6
  <2> DEFINE r == Nearest(To, Mag(n, k))
             P == 2^bits
  <2>2. n > 0
    BY <1>5, <1>8, <2>1 DEF Mag
  <2>3. /\ Ordinal(bits, bias, Mag(n, k)) = r.exponent * P + r.mantissa
        /\ r.exponent \in Nat /\ r.mantissa \in 0 .. (P - 1)
    BY <1>6, <2>2, NearestIs
  <2>4. RoundToNearestEven(To, s, Mag(n, k)) = Finished(To, sg, r.exponent, r.mantissa)
    <3>1. To.max_finite_code \in Nat
      BY <1>6 DEF FormatTyped
    <3>2. QED BY <1>6, <2>2, <3>1, RoundedAs
  <2>5. Typed(m, 0, bits) /\ e.raw * P + m.raw = PlaceOf(Value)
    BY <1>2, <1>5, <1>8 DEF RoundedOff, Typed
  <2>6. m.raw \in Nat /\ m.raw < P /\ e.raw \in Nat /\ P \in Nat /\ P > 0
    BY <1>2, <1>6, <2>5, MantissaValue, NodeFields, PowerPositive
  <2>7. e.raw * P + m.raw = r.exponent * P + r.mantissa
    BY <2>1, <2>3, <2>5 DEF PlaceOf
  <2>8. e.raw = r.exponent /\ m.raw = r.mantissa
    <3> DEFINE a == e.raw
               c == m.raw
               E == r.exponent
               M == r.mantissa
    <3>1. /\ a \in Int /\ c \in Int /\ 0 <= c /\ c < P /\ E \in Int /\ M \in Int /\ 0 <= M /\ M < P
          /\ P \in Nat /\ P > 0
      BY <2>3, <2>6
    <3>2. a * P + c = E * P + M
      BY <2>7
    <3> HIDE DEF a, c, E, M, P
    <3>3. P * a + c = P * E + M
      BY <3>1, <3>2
    <3>4. (P * a + c) \div P = a /\ (P * a + c) % P = c
      BY ONLY <3>1, DivisionUnique
    <3>5. (P * E + M) \div P = E /\ (P * E + M) % P = M
      BY ONLY <3>1, DivisionUnique
    <3>6. a = E /\ c = M
      BY ONLY <3>3, <3>4, <3>5
    <3>7. QED BY <3>6 DEF a, c, E, M
  <2>9. EncodedOf(design.to, s, m, e, FALSE) = Finished(To, sg, e.raw, m.raw)
    BY <1>2, <1>6, <2>5, EncodedValue DEF To
  <2>10. exact_zero = FALSE
    BY <1>2, <1>8
  <2>11. QED BY <1>1, <1>5, <2>1, <2>4, <2>8, <2>9, <2>10
<1>9. QED BY <1>7, <1>8

\* What is neither a zero nor an infinity nor a NaN passes every multiplexer.
LEMMA SpecialsPass ==
  ASSUME design \in Designs, Converting, NEW d, NEW r,
         d.is_nan = FALSE, d.is_inf = FALSE, d.is_zero = FALSE
  PROVE  SpecialsOf(d, r) = r
<1>1. \A f : /\ nan_else(f, d, r) = r /\ inf_else(f, d, r) = r /\ max_else(f, d, r) = r
             /\ negative_zero(d, r) = r /\ all_specials(f, d, r) = r
  BY DEF nan_else, inf_else, max_else, negative_zero, all_specials
<1>2. /\ fp32_to_fp16(d, r) = r /\ fp32_to_bf16(d, r) = r /\ fp32_to_e5m2(d, r) = r
      /\ fp16_to_fp32(d, r) = r /\ bf16_to_fp32(d, r) = r /\ e5m2_to_fp32(d, r) = r
  BY <1>1 DEF fp32_to_fp16, fp32_to_bf16, fp32_to_e5m2, fp16_to_fp32, bf16_to_fp32, e5m2_to_fp32
<1>3. /\ fp32_to_e4m3fn(d, r) = r /\ fp32_to_e5m2fnuz(d, r) = r /\ e4m3fn_to_fp32(d, r) = r
      /\ e5m2fnuz_to_fp32(d, r) = r /\ ue4m3_to_fp32(d, r) = r /\ e2m1_to_fp32(d, r) = r
  BY <1>1 DEF fp32_to_e4m3fn, fp32_to_e5m2fnuz, e4m3fn_to_fp32, e5m2fnuz_to_fp32, ue4m3_to_fp32,
     e2m1_to_fp32
<1>4. fp32_to_ue4m3(d, r) = r /\ fp32_to_e2m1(d, r) = r
  BY <1>1 DEF fp32_to_ue4m3, fp32_to_e2m1
<1>5. \/ design.to \in {"Float16", "BFloat16", "E5M2", "E4M3FN", "E5M2FNUZ", "UE4M3", "E2M1"}
      \/ /\ design.to = "Float32"
         /\ design.from \in {"Float16", "BFloat16", "E5M2", "E4M3FN", "E5M2FNUZ", "UE4M3", "E2M1"}
  BY DEF Designs, Narrow, Converting
<1>6. QED BY <1>2, <1>3, <1>4, <1>5 DEF SpecialsOf

\* The multiplexers for special values pass what an encoder made of a number.
LEMMA SpecialsValueKeeps == ConverterInv /\ ValueInv /\ Specials => ValueInv'
<1> SUFFICES ASSUME ConverterInv, ValueInv, Specials PROVE ValueInv'
  OBVIOUS
<1>1. /\ stage = "specials" /\ stage' = "done" /\ UNCHANGED <<design, x, given>>
      /\ result' = SpecialsOf(X, result)
  BY DEF Specials
<1>2. /\ Converting /\ design \in Designs /\ x \in Codes(From) /\ X = DecodeOf(design.from, x)
  BY <1>1 DEF ConverterInv, Typing
<1>3. /\ Value' = Value /\ Sign' = Sign /\ Finite' = Finite /\ To' = To /\ GivenTyped'
  BY <1>1, SameNumber DEF ValueInv
<1>4. SUFFICES ASSUME Finite PROVE result' = RoundToNearestEven(To, Sign, Value)
  BY <1>1, <1>3 DEF ValueInv, OnTheWay
<1>5. result = RoundToNearestEven(To, Sign, Value)
  BY <1>1, <1>4 DEF ValueInv, OnTheWay
<1>6. X.is_nan = FALSE /\ X.is_inf = FALSE /\ X.is_zero = FALSE
  <2>1. ~ IsSpecial(From, x)
    BY <1>2, <1>4 DEF Finite
  <2>2. design.from \in DOMAIN FormatOf
    BY <1>2, DesignFormats
  <2>3. ClassesAsTyped(From, x, X)
    BY <1>2, <2>2, DecodedFields DEF From
  <2>4. is_nan(From, x) = FALSE /\ is_inf(From, x) = FALSE /\ is_zero(From, x) = FALSE
    BY <2>1 DEF IsSpecial, is_nan, is_inf, is_zero
  <2>5. QED BY <2>3, <2>4 DEF ClassesAsTyped
<1>7. SpecialsOf(X, result) = result
  BY <1>2, <1>6, SpecialsPass
<1>8. QED BY <1>1, <1>5, <1>7

\* A conversion back starts with a code of its own.
LEMMA ReturnValueKeeps == ConverterInv /\ ValueInv /\ Return => ValueInv'
<1> SUFFICES ASSUME Return PROVE ValueInv'
  OBVIOUS
<1>1. stage' = "decode" /\ design' = [from |-> "Float32", to |-> design.from]
  BY DEF Return
<1>2. Converting'
  BY <1>1 DEF Converting
<1>3. QED BY <1>1, <1>2 DEF ValueInv, GivenTyped, OnTheWay

\* The number that enters an encoder is the number its code stands for, rounded.
LEMMA ValueStep == ConverterInv /\ ValueInv /\ [Next]_vars => ValueInv'
<1> SUFFICES ASSUME ConverterInv, ValueInv, [Next]_vars PROVE ValueInv'
  OBVIOUS
<1>1. CASE UNCHANGED vars
  <2>1. UNCHANGED <<design, stage, x, X, s, e, m, given, exact_zero, result, origin>>
    BY <1>1 DEF vars
  <2>2. /\ Value' = Value /\ Sign' = Sign /\ Finite' = Finite /\ To' = To
        /\ GivenTyped' = GivenTyped /\ \A v : PlaceOf(v)' = PlaceOf(v)
    BY <2>1, SameNumber
  <2>3. FractionBits(m)' = FractionBits(m) /\ scaled_integer(e)' = scaled_integer(e)
    BY <2>1
  <2>4. \A v : HoldsAbove(e, v)' = HoldsAbove(e, v)
    BY <2>1
  <2>5. \A n, k : SamePlace(n, k)' = SamePlace(n, k)
    BY <2>2 DEF SamePlace
  <2>6. /\ Prepared' = Prepared /\ Normalized' = Normalized /\ Staged' = Staged
        /\ RoundedOff' = RoundedOff
    BY <2>1, <2>2, <2>3, <2>4, <2>5 DEF Prepared, Normalized, Staged, RoundedOff, SamePlace
  <2>7. OnTheWay' = OnTheWay
    BY <2>1, <2>2, <2>6 DEF OnTheWay
  <2>8. QED BY <2>2, <2>7 DEF ValueInv
<1>2. QED
  BY <1>1, DecodeValue, RebaseValue, NormalizeValueKeeps, ShiftValueKeeps, RoundValueKeeps,
     EncodeValueKeeps, SpecialsValueKeeps, ReturnValueKeeps
  DEF Next

\* The README of the converters, the docstrings of the encoders: every conversion of
\* a number is correctly rounded, to nearest with ties to even, with the documented
\* overflow, underflow and sign of zero, whatever the codes converted and, for an
\* encoder used directly, whatever the widths of the exponent and of the significand,
\* which has at least the bits of the mantissa.
THEOREM NumbersRoundedAsDocumented == Spec => []NumbersAsDocumented
<1>1. Init => ConverterInv /\ ValueInv
  BY InitTyping, InitValue
<1>2. ConverterInv /\ ValueInv /\ [Next]_vars => ValueInv'
  BY ValueStep
<1>3. ValueInv => NumbersAsDocumented
  BY DEF ValueInv, OnTheWay, NumbersAsDocumented
<1>4. QED BY <1>1, <1>2, <1>3, ConverterTyped, PTL DEF Spec

\* Every conversion, of a number or a special value, gives the documented result.
THEOREM ConversionsAsDocumented == Spec => []AsDocumented
<1>1. SpecialsAsDocumented /\ NumbersAsDocumented => AsDocumented
  BY DEF AsDocumented
<1>2. QED BY <1>1, SpecialValuesAsDocumented, NumbersRoundedAsDocumented, PTL

-----------------------------------------------------------------------------
(* There and back.                                                         *)

\* A narrow format has fewer mantissa bits than Float32, and its numbers lie between
\* the least and the greatest of Float32's.
Inside(f) ==
  /\ f.mantissa_bits \in 1 .. 10 /\ f.exponent_bias \in Nat /\ f.max_finite_code \in Nat
  /\ f.exponent_bias + f.mantissa_bits <= 150
  /\ f.max_finite_code - f.exponent_bias <= 127 /\ f.max_finite_code >= 1

\* The codes of a format that are not numbers, and those that are.
Sorted(f) ==
  /\ f.signs \in {{0}, {0, 1}}
  /\ f.nan # {} => "NaN" \in DOMAIN f
  /\ f.inf # {} => f.signs # {0}
  /\ \A c \in Codes(f) :
       /\ is_inf(f, c) => ~ is_nan(f, c) /\ c = Infinity(f, c.sign)
       /\ is_zero(f, c) /\ c.sign = 1 => f.signed_zero
       /\ ~ IsSpecial(f, c) => ~ TooLarge(f, c.exponent, c.mantissa)

\* Beyond the greatest code of a format with infinities are those and the NaNs.
LEMMA SortedInfinities ==
  ASSUME NEW eb \in Nat, NEW mb \in Nat, NEW bias, eb >= 1, mb >= 1
  PROVE  Sorted(WithInfinities(eb, mb, bias))
<1> DEFINE f == WithInfinities(eb, mb, bias)
           T == 2^eb - 1
           B == 2^mb
<1>1. /\ f.exponent_bits = eb /\ f.mantissa_bits = mb /\ f.signs = {0, 1} /\ f.signed_zero = TRUE
      /\ "NaN" \in DOMAIN f
      /\ f.inf = [sign: {0, 1}, exponent: {T}, mantissa: {0}]
      /\ f.nan = [sign: {0, 1}, exponent: {T}, mantissa: 1 .. (B - 1)]
      /\ f.max_finite_code = T - 1 /\ f.max_finite_mantissa = B - 1
  BY DEF WithInfinities
<1> HIDE DEF f
<1>2. T \in Nat /\ B \in Nat /\ B > 0
  BY PowerPositive
<1>3. \A c \in Codes(f) : /\ c.sign \in {0, 1} /\ c.exponent \in 0 .. T /\ c.mantissa \in 0 .. (B - 1)
                          /\ c = [sign |-> c.sign, exponent |-> c.exponent, mantissa |-> c.mantissa]
  BY <1>1, <1>2 DEF Codes
<1> HIDE DEF B
<1>4. ASSUME NEW c \in Codes(f)
      PROVE  /\ is_inf(f, c) => ~ is_nan(f, c) /\ c = Infinity(f, c.sign)
             /\ ~ IsSpecial(f, c) => ~ TooLarge(f, c.exponent, c.mantissa)
  <2>1. /\ c.sign \in {0, 1} /\ c.exponent \in 0 .. T /\ c.mantissa \in 0 .. (B - 1)
        /\ c = [sign |-> c.sign, exponent |-> c.exponent, mantissa |-> c.mantissa]
    BY <1>3
  <2>2. is_inf(f, c) <=> c.exponent = T /\ c.mantissa = 0
    BY <1>1, <2>1 DEF is_inf
  <2>3. is_nan(f, c) <=> c.exponent = T /\ c.mantissa \in 1 .. (B - 1)
    BY <1>1, <2>1 DEF is_nan
  <2>4. Infinity(f, c.sign) = [sign |-> c.sign, exponent |-> T, mantissa |-> 0]
    BY <1>1 DEF Infinity, Code
  <2>5. is_inf(f, c) => ~ is_nan(f, c) /\ c = Infinity(f, c.sign)
    BY <1>2, <2>1, <2>2, <2>3, <2>4
  <2>6. ASSUME ~ IsSpecial(f, c) PROVE ~ TooLarge(f, c.exponent, c.mantissa)
    <3>1. ~ (c.exponent = T /\ c.mantissa = 0) /\ ~ (c.exponent = T /\ c.mantissa \in 1 .. (B - 1))
      BY <2>2, <2>3, <2>6 DEF IsSpecial
    <3>2. c.exponent <= T - 1 /\ c.mantissa <= B - 1
      BY <1>2, <2>1, <3>1
    <3>3. QED BY <1>1, <1>2, <2>1, <3>2 DEF TooLarge
  <2>7. QED BY <2>5, <2>6
<1>5. {0, 1} # {0}
  OBVIOUS
<1>6. QED BY <1>1, <1>4, <1>5 DEF Sorted, f

\* The other formats reserve a code for the NaN, or none.
LEMMA SortedSmall == Sorted(E4M3FN) /\ Sorted(UE4M3) /\ Sorted(E5M2FNUZ) /\ Sorted(E2M1)
<1>1. 2^4 = 16 /\ 2^3 = 8 /\ 2^5 = 32 /\ 2^2 = 4 /\ 2^1 = 2
  OBVIOUS
<1>2. ASSUME NEW f \in {E4M3FN, UE4M3} PROVE Sorted(f)
  <2>1. /\ E4M3FN.exponent_bits = 4 /\ E4M3FN.mantissa_bits = 3 /\ E4M3FN.signs = {0, 1}
        /\ E4M3FN.nan = [sign: {0, 1}, exponent: {15}, mantissa: {7}] /\ E4M3FN.inf = {}
        /\ E4M3FN.max_finite_code = 15 /\ E4M3FN.max_finite_mantissa = 6
        /\ E4M3FN.signed_zero = TRUE /\ "NaN" \in DOMAIN E4M3FN
    BY DEF E4M3FN
  <2>2. /\ UE4M3.exponent_bits = 4 /\ UE4M3.mantissa_bits = 3 /\ UE4M3.signs = {0}
        /\ UE4M3.nan = [sign: {0}, exponent: {15}, mantissa: {7}] /\ UE4M3.inf = {}
        /\ UE4M3.max_finite_code = 15 /\ UE4M3.max_finite_mantissa = 6 /\ "NaN" \in DOMAIN UE4M3
    BY DEF UE4M3, E4M3FN
  <2>3. /\ f.exponent_bits = 4 /\ f.mantissa_bits = 3 /\ f.signs \in {{0}, {0, 1}}
        /\ f.nan = [sign: f.signs, exponent: {15}, mantissa: {7}] /\ f.inf = {}
        /\ f.max_finite_code = 15 /\ f.max_finite_mantissa = 6 /\ "NaN" \in DOMAIN f
        /\ f.signs = {0} \/ f.signed_zero
    BY <2>1, <2>2
  <2>4. ASSUME NEW c \in Codes(f)
        PROVE  /\ ~ is_inf(f, c)
               /\ is_zero(f, c) /\ c.sign = 1 => f.signed_zero
               /\ ~ IsSpecial(f, c) => ~ TooLarge(f, c.exponent, c.mantissa)
    <3>1. /\ c.sign \in f.signs /\ c.exponent \in 0 .. 15 /\ c.mantissa \in 0 .. 7
          /\ c = [sign |-> c.sign, exponent |-> c.exponent, mantissa |-> c.mantissa]
      BY <1>1, <2>3 DEF Codes
    <3>2. c.exponent = 15 /\ c.mantissa = 7 => is_nan(f, c)
      BY <2>3, <3>1 DEF is_nan
    <3>3. ~ is_inf(f, c) /\ (c.sign = 1 => f.signed_zero)
      BY <2>3, <3>1 DEF is_inf
    <3>4. ASSUME ~ IsSpecial(f, c) PROVE ~ TooLarge(f, c.exponent, c.mantissa)
      <4>1. ~ (c.exponent = 15 /\ c.mantissa = 7)
        BY <3>2, <3>4 DEF IsSpecial
      <4>2. QED BY <2>3, <3>1, <4>1 DEF TooLarge
    <3>5. QED BY <3>3, <3>4
  <2>5. QED BY <2>3, <2>4 DEF Sorted
<1>3. Sorted(E5M2FNUZ)
  <2> DEFINE f == E5M2FNUZ
  <2>1. /\ f.exponent_bits = 5 /\ f.mantissa_bits = 2 /\ f.signs = {0, 1}
        /\ f.nan = {Code(1, 0, 0)} /\ f.inf = {} /\ "NaN" \in DOMAIN f
        /\ f.max_finite_code = 31 /\ f.max_finite_mantissa = 3
    BY DEF E5M2FNUZ
  <2> HIDE DEF f
  <2>2. ASSUME NEW c \in Codes(f)
        PROVE  /\ ~ is_inf(f, c) /\ ~ (is_zero(f, c) /\ c.sign = 1)
               /\ ~ TooLarge(f, c.exponent, c.mantissa)
    <3>1. /\ c.sign \in {0, 1} /\ c.exponent \in 0 .. 31 /\ c.mantissa \in 0 .. 3
          /\ c = Code(c.sign, c.exponent, c.mantissa)
      BY <1>1, <2>1 DEF Codes, Code
    <3>2. ~ is_inf(f, c) /\ ~ TooLarge(f, c.exponent, c.mantissa)
      BY <2>1, <3>1 DEF is_inf, TooLarge
    <3>3. c.exponent = 0 /\ c.mantissa = 0 /\ c.sign = 1 => c = Code(1, 0, 0)
      BY <3>1
    <3>4. QED BY <2>1, <3>2, <3>3 DEF is_zero, is_nan
  <2>3. QED BY <2>1, <2>2 DEF Sorted, f
<1>4. Sorted(E2M1)
  <2> DEFINE f == E2M1
  <2>1. /\ f.exponent_bits = 2 /\ f.mantissa_bits = 1 /\ f.signs = {0, 1}
        /\ f.nan = {} /\ f.inf = {} /\ f.max_finite_code = 3 /\ f.max_finite_mantissa = 1
        /\ f.signed_zero = TRUE
    BY DEF E2M1
  <2> HIDE DEF f
  <2>2. ASSUME NEW c \in Codes(f)
        PROVE  ~ is_inf(f, c) /\ ~ TooLarge(f, c.exponent, c.mantissa)
    <3>1. c.exponent \in 0 .. 3 /\ c.mantissa \in 0 .. 1
      BY <1>1, <2>1 DEF Codes
    <3>2. QED BY <2>1, <3>1 DEF is_inf, TooLarge
  <2>3. QED BY <2>1, <2>2 DEF Sorted, f
<1>5. QED BY <1>2, <1>3, <1>4

\* Every narrow format lies inside Float32.
LEMMA NarrowInside ==
  ASSUME NEW name \in Narrow
  PROVE  Inside(FormatOf[name]) /\ Sorted(FormatOf[name])
<1>1. name \in {"Float16", "BFloat16", "E5M2", "E4M3FN", "UE4M3", "E5M2FNUZ", "E2M1"}
  BY DEF Narrow
<1>2. 2^5 = 32 /\ 2^8 = 256
  OBVIOUS
<1>3. Inside(Float16) /\ Inside(BFloat16) /\ Inside(E5M2)
  <2>1. /\ Float16.mantissa_bits = 10 /\ Float16.exponent_bias = 15 /\ Float16.max_finite_code = 30
        /\ BFloat16.mantissa_bits = 7 /\ BFloat16.exponent_bias = 127
        /\ BFloat16.max_finite_code = 254
        /\ E5M2.mantissa_bits = 2 /\ E5M2.exponent_bias = 15 /\ E5M2.max_finite_code = 30
    BY <1>2 DEF Float16, BFloat16, E5M2, WithInfinities
  <2>2. QED BY <2>1 DEF Inside
<1>4. Inside(E4M3FN) /\ Inside(UE4M3)
  <2>1. /\ E4M3FN.mantissa_bits = 3 /\ E4M3FN.exponent_bias = 7 /\ E4M3FN.max_finite_code = 15
        /\ UE4M3.mantissa_bits = 3 /\ UE4M3.exponent_bias = 7 /\ UE4M3.max_finite_code = 15
    BY DEF UE4M3, E4M3FN
  <2>2. QED BY <2>1 DEF Inside
<1>5. Inside(E5M2FNUZ) /\ Inside(E2M1)
  <2>1. /\ E5M2FNUZ.mantissa_bits = 2 /\ E5M2FNUZ.exponent_bias = 16
        /\ E5M2FNUZ.max_finite_code = 31
        /\ E2M1.mantissa_bits = 1 /\ E2M1.exponent_bias = 1 /\ E2M1.max_finite_code = 3
    BY DEF E5M2FNUZ, E2M1
  <2>2. QED BY <2>1 DEF Inside
<1>6. Sorted(Float16) /\ Sorted(BFloat16) /\ Sorted(E5M2)
  BY SortedInfinities DEF Float16, BFloat16, E5M2
<1>7. QED BY <1>1, <1>3, <1>4, <1>5, <1>6, SortedSmall DEF FormatOf

\* n * 2^k is what the exponent field E and the mantissa field M stand for.
FieldsOf(mb, bias, E, M, n, k) ==
  /\ n = IF E = 0 THEN M ELSE 2^mb + M
  /\ k = (IF E = 0 THEN 1 ELSE E) - bias - mb

\* A code stands at the place its fields say.
LEMMA CodePlace ==
  ASSUME NEW mb \in Nat, NEW bias \in Nat, NEW E \in Nat, NEW M \in Nat, M < 2^mb, E > 0 \/ M > 0,
         NEW n, NEW k, FieldsOf(mb, bias, E, M, n, k)
  PROVE  Ordinal(mb, bias, Mag(n, k)) = E * 2^mb + M
<1> DEFINE p == Places(mb, bias, Mag(n, k))
           B == 2^mb
           l == BitLength(n)
<1>f. /\ n = IF E = 0 THEN M ELSE B + M
      /\ k = (IF E = 0 THEN 1 ELSE E) - bias - mb
  BY DEF FieldsOf
<1>1. B \in Nat /\ B > 0 /\ 2^(mb + 1) = 2 * B
  BY PowerPositive, PowerStep
<1>2. n \in Nat /\ n > 0 /\ k \in Int /\ n < 2^(mb + 1)
  BY <1>1, <1>f
<1>3. l \in Nat /\ l >= 1 /\ l <= mb + 1 /\ (E = 0 => l <= mb) /\ (E > 0 => l = mb + 1)
  <2> DEFINE v == n
  <2>1. v \in Nat /\ v > 0
    BY <1>2
  <2> HIDE DEF v
  <2>2. BitLength(v) \in Nat /\ BitLength(v) >= 1 /\ 2^(BitLength(v) - 1) <= v /\ v < 2^BitLength(v)
    BY <2>1, BitLengthOf
  <2>3. l = BitLength(v)
    BY DEF v
  <2>4. l \in Nat /\ l >= 1 /\ 2^(l - 1) <= n /\ n < 2^l
    BY <2>2, <2>3 DEF v
  <2> HIDE DEF l
  <2>5. l - 1 \in Nat /\ 2^(l - 1) \in Nat /\ 2^l \in Nat
    BY <2>4, PowerPositive
  <2>6. l <= mb + 1
    <3>1. SUFFICES ASSUME mb + 1 <= l - 1 PROVE FALSE
      BY <2>4
    <3>2. 2^(mb + 1) <= 2^(l - 1)
      BY <2>5, <3>1, PowerMonotone
    <3>3. QED BY <1>1, <1>2, <2>4, <2>5, <3>2
  <2>7. E = 0 => l <= mb
    <3>1. SUFFICES ASSUME E = 0, mb <= l - 1 PROVE FALSE
      BY <2>4
    <3>2. B <= 2^(l - 1)
      BY <2>5, <3>1, PowerMonotone
    <3>3. QED BY <1>1, <1>f, <2>4, <2>5, <3>1, <3>2
  <2>8. E > 0 => l = mb + 1
    <3>1. SUFFICES ASSUME E > 0, l <= mb PROVE FALSE
      BY <2>6, <2>4
    <3>2. 2^l <= B
      BY <2>4, <3>1, PowerMonotone
    <3>3. QED BY <1>1, <1>f, <2>4, <2>5, <3>1, <3>2
  <2>9. QED BY <2>4, <2>6, <2>7, <2>8
<1>4. /\ p \in Nat /\ p >= l - 2 + k + bias /\ (p = 0 \/ p = l - 2 + k + bias)
      /\ Units(Mag(n, k), p + 1 - bias - mb) = Rounded(n, k - (p + 1 - bias - mb))
  <2> DEFINE v == n
             z == k
  <2>1. v \in Nat /\ v > 0 /\ z \in Int
    BY <1>2
  <2> HIDE DEF v, z
  <2>2. Placed(mb, bias, v, z)
    BY <2>1, PlacesOf
  <2>3. QED BY <2>2 DEF v, z, Placed
<1> HIDE DEF p, l
<1>5. p = IF E = 0 THEN 0 ELSE E - 1
  BY <1>f, <1>3, <1>4
<1>6. k - (p + 1 - bias - mb) = 0
  BY <1>5, <1>f
<1>7. Rounded(n, 0) = n
  BY <1>2, 2^0 = 1 DEF Rounded
<1>8. Ordinal(mb, bias, Mag(n, k)) = p * B + n
  BY <1>4, <1>6, <1>7 DEF Ordinal, p
<1>9. p * B + n = E * B + M
  <2>1. CASE E = 0
    BY <1>1, <1>5, <1>f, <2>1
  <2>2. CASE E > 0
    <3>1. p = E - 1 /\ n = B + M
      BY <1>5, <1>f, <2>2
    <3> HIDE DEF B
    <3>2. (E - 1) * B + (B + M) = E * B + M
      BY <1>1
    <3>3. QED BY <3>1, <3>2
  <2>3. QED BY <2>1, <2>2
<1>10. QED BY <1>8, <1>9

\* n * 2^k is a whole number of units of its last place.
Whole(mb, bias, n, k) == Places(mb, bias, Mag(n, k)) + 1 - bias - mb <= k

\* The code nearest to n * 2^k in the format g stands for it.
StandsFor(g, sign, n, k) ==
  LET r == Nearest(g, Mag(n, k)) IN
  \E j \in Nat : Magnitude(g, Code(sign, r.exponent, r.mantissa)) = Mag(n * 2^j, k - j)

\* A number that fits the mantissa above the least exponent is a number of the format:
\* the code nearest to it stands for it.
LEMMA ExactCode ==
  ASSUME NEW g, NEW mb \in Nat, mb = g.mantissa_bits, NEW bias \in Nat, bias = g.exponent_bias,
         NEW n \in Nat, n > 0, NEW k \in Int,
         Whole(mb, bias, n, k), NEW sign
  PROVE  /\ StandsFor(g, sign, n, k)
         /\ Nearest(g, Mag(n, k)).exponent <= Places(mb, bias, Mag(n, k)) + 1
<1> DEFINE v == Mag(n, k)
           r == Nearest(g, v)
           w == Code(sign, r.exponent, r.mantissa)
           p == Places(mb, bias, v)
           q == p + 1 - bias - mb
           j == k - q
           l == BitLength(n)
           N == n * 2^j
           B == 2^mb
<1>1. /\ p \in Nat /\ l \in Nat /\ l >= 1 /\ p >= l - 2 + k + bias /\ (p = 0 \/ p = l - 2 + k + bias)
      /\ Units(v, q) = Rounded(n, j)
  <2>1. Placed(mb, bias, n, k)
    BY PlacesOf
  <2>2. QED BY <2>1 DEF Placed
<1>2. n < 2^l /\ 2^(l - 1) <= n
  BY BitLengthOf
<1>3. Ordinal(mb, bias, v) = r.exponent * B + r.mantissa
      /\ r.exponent \in Nat /\ r.mantissa \in 0 .. (B - 1)
  BY NearestIs
<1>4. Ordinal(mb, bias, v) = p * B + Units(v, q)
  BY DEF Ordinal
<1>w. q <= k
  BY DEF Whole
<1>5. j \in Nat /\ q \in Int /\ j <= mb + 1 - l /\ (p > 0 => j = mb + 1 - l) /\ k - j = q
  BY <1>1, <1>w
<1>6. B \in Nat /\ B > 0 /\ 2^(mb + 1) = 2 * B /\ 2^j \in Nat /\ 2^j > 0 /\ 2^l \in Nat
      /\ 2^(l - 1) \in Nat
  <2>1. l - 1 \in Nat
    BY <1>1
  <2>2. QED BY <1>1, <1>5, <2>1, PowerPositive, PowerStep
<1>7. N \in Nat /\ N < 2 * B
  <2>1. 2^l * 2^j <= 2^(mb + 1)
    <3> DEFINE a == l + j
    <3>1. a \in Nat /\ a <= mb + 1 /\ mb + 1 \in Nat
      BY <1>1, <1>5
    <3>2. 2^a = 2^l * 2^j
      BY <1>1, <1>5, PowerSum
    <3> HIDE DEF a
    <3>3. 2^a <= 2^(mb + 1)
      BY <3>1, PowerMonotone
    <3>4. QED BY <3>2, <3>3
  <2> DEFINE P == 2^l
             J == 2^j
  <2>2. P \in Nat /\ J \in Nat /\ J > 0 /\ n < P
    BY <1>2, <1>6
  <2>3. P * J <= 2 * B
    BY <1>6, <2>1
  <2> HIDE DEF P, J, B
  <2>4. n * J < P * J /\ n * J \in Nat /\ P * J \in Nat
    BY <2>2
  <2>5. n * J < 2 * B
    BY <1>6, <2>3, <2>4
  <2>6. QED BY <2>4, <2>5 DEF J
<1>8. p > 0 => N >= B
  <2> SUFFICES ASSUME p > 0 PROVE N >= B
    OBVIOUS
  <2> DEFINE a == l - 1
             J == 2^j
             A == 2^a
  <2>1. a \in Nat /\ a + j = mb
    BY <1>1, <1>5
  <2>2. B = A * J
    <3>1. 2^(a + j) = 2^a * 2^j
      <4> HIDE DEF a, j
      <4>1. a \in Nat /\ j \in Nat
        BY <1>5, <2>1
      <4>2. QED BY <4>1, PowerSum
    <3>2. QED BY <2>1, <3>1
  <2>3. A \in Nat /\ J \in Nat /\ J > 0 /\ A <= n
    BY <1>2, <1>6
  <2> HIDE DEF A, J, B, a
  <2>4. n * J >= A * J
    BY <2>3
  <2>5. QED BY <2>2, <2>4 DEF J
<1>9. Units(v, q) = N
  BY <1>1, <1>5 DEF Rounded
<1> HIDE DEF N, B, r
<1>10. r.exponent * B + r.mantissa = p * B + N
  BY <1>3, <1>4, <1>9
<1>11. \/ p = 0 /\ N < B /\ r.exponent = 0 /\ r.mantissa = N
       \/ N >= B /\ r.exponent = p + 1 /\ r.mantissa = N - B
  <2> DEFINE E == r.exponent
             M == r.mantissa
  <2>1. E \in Int /\ M \in Int /\ 0 <= M /\ M < B /\ B \in Nat /\ B > 0
    BY <1>3, <1>6
  <2>2. E * B + M = p * B + N
    BY <1>10
  <2> HIDE DEF E, M, p, j, q
  <2>3. (B * E + M) \div B = E /\ (B * E + M) % B = M
    BY ONLY <2>1, DivisionUnique
  <2>4. CASE N < B
    <3>1. p = 0
      BY <1>1, <1>6, <1>7, <1>8, <2>4
    <3>2. N \in Int /\ 0 <= N /\ N < B /\ 0 \in Int
      BY <1>7, <2>4
    <3>3. (B * 0 + N) \div B = 0 /\ (B * 0 + N) % B = N
      BY ONLY <2>1, <3>2, DivisionUnique
    <3>4. B * E + M = B * 0 + N
      BY <2>1, <2>2, <3>1, <3>2
    <3>5. E = 0 /\ M = N
      BY ONLY <2>3, <3>3, <3>4
    <3>6. QED BY <2>4, <3>1, <3>5 DEF E, M
  <2>5. CASE ~ N < B
    <3> DEFINE F == p + 1
               R == N - B
    <3>1. F \in Int /\ R \in Int /\ 0 <= R /\ R < B /\ N >= B
      BY <1>1, <1>6, <1>7, <2>5
    <3>2. B * E + M = B * F + R
      <4>1. B * (p + 1) + (N - B) = p * B + N
        BY <1>1, <1>7, <2>1
      <4>2. B * E = E * B
        BY <2>1
      <4>3. QED BY <2>2, <4>1, <4>2
    <3> HIDE DEF F, R
    <3>3. (B * F + R) \div B = F /\ (B * F + R) % B = R
      BY ONLY <2>1, <3>1, DivisionUnique
    <3>4. E = F /\ M = R
      BY ONLY <2>3, <3>2, <3>3
    <3>5. QED BY <3>1, <3>4 DEF E, M, F, R
  <2>6. QED BY <2>4, <2>5
<1>12. w.exponent = r.exponent /\ w.mantissa = r.mantissa
  BY DEF Code
<1> HIDE DEF w
<1>13. Magnitude(g, w) = Mag(N, q)
  <2>1. CASE p = 0 /\ N < B /\ r.exponent = 0 /\ r.mantissa = N
    <3>1. Magnitude(g, w) = Mag(N, 1 - bias - mb)
      BY <1>12, <2>1 DEF Magnitude
    <3>2. q = 1 - bias - mb
      BY <2>1
    <3>3. QED BY <3>1, <3>2
  <2>2. CASE N >= B /\ r.exponent = p + 1 /\ r.mantissa = N - B
    <3>1. p + 1 # 0 /\ B + (N - B) = N
      BY <1>1, <1>6, <1>7
    <3>2. Magnitude(g, w) = Mag(B + (N - B), p + 1 - bias - mb)
      <4>1. w.exponent # 0
        BY <1>12, <2>2, <3>1
      <4>2. Magnitude(g, w) = Mag(2^g.mantissa_bits + w.mantissa,
                                  w.exponent - g.exponent_bias - g.mantissa_bits)
        BY <4>1 DEF Magnitude
      <4>3. w.exponent = p + 1 /\ w.mantissa = N - B /\ 2^g.mantissa_bits = B
        BY <1>12, <2>2 DEF B
      <4>4. (p + 1) - g.exponent_bias - g.mantissa_bits = p + 1 - bias - mb
        BY <1>1
      <4>5. QED BY <4>2, <4>3, <4>4
    <3>3. QED BY <3>1, <3>2
  <2>3. QED BY <1>11, <2>1, <2>2
<1>14. r.exponent <= p + 1
  BY <1>1, <1>11
<1>15. Magnitude(g, w) = Mag(n * 2^j, k - j)
  BY <1>5, <1>13 DEF N
<1> HIDE DEF j, p
<1>16. QED BY <1>5, <1>14, <1>15 DEF w, r, p, StandsFor

\* What the documentation says of the conversion of the code c of one format to another.
Converted(f, from, c) ==
  IF IsSpecial(from, c) THEN DocumentedSpecial(f, from, c)
  ELSE RoundToNearestEven(f, c.sign, Magnitude(from, c))

\* A number of a narrow format is a number of Float32, of the same magnitude.
LEMMA Widened ==
  ASSUME NEW name \in Narrow, NEW c \in Codes(FormatOf[name]), ~ IsSpecial(FormatOf[name], c)
  PROVE  LET w == Converted(Float32, FormatOf[name], c)
             n == Significand(FormatOf[name], c)
             k == ExponentOf(c) - FormatOf[name].exponent_bias - FormatOf[name].mantissa_bits
         IN /\ w.sign = c.sign /\ w.exponent \in Nat /\ w.exponent <= 254
            /\ n \in Nat /\ n > 0 /\ k \in Int
            /\ Magnitude(FormatOf[name], c) = Mag(n, k)
            /\ \E j \in Nat : Magnitude(Float32, w) = Mag(n * 2^j, k - j)
<1> DEFINE f == FormatOf[name]
           w == Converted(Float32, f, c)
           n == Significand(f, c)
           k == ExponentOf(c) - f.exponent_bias - f.mantissa_bits
           r == Nearest(Float32, Mag(n, k))
           mb == f.mantissa_bits
           p == Places(23, 127, Mag(n, k))
<1>1. name \in DOMAIN FormatOf
  BY DEF Narrow, FormatOf
<1>2. Inside(f) /\ Sorted(f)
  BY NarrowInside
<1>3. /\ Magnitude(f, c) = Mag(n, k) /\ n \in Nat /\ n < 2^(mb + 1) /\ ExponentOf(c) \in Nat
      /\ mb \in Nat /\ f.exponent_bits \in Nat
  BY <1>1, MagnitudeOf
<1>4. c \in Codes(f) /\ ~ IsSpecial(f, c)
  OBVIOUS
<1> HIDE DEF f
<1>5. mb \in 1 .. 10 /\ f.exponent_bias \in Nat /\ f.max_finite_code \in Nat
      /\ f.exponent_bias + mb <= 150 /\ f.max_finite_code - f.exponent_bias <= 127
      /\ f.max_finite_code >= 1
  BY <1>2 DEF Inside
<1>6. /\ c.exponent \in 0 .. (2^f.exponent_bits - 1) /\ c.mantissa \in 0 .. (2^mb - 1)
      /\ 2^f.exponent_bits \in Nat /\ 2^mb \in Nat /\ 2^mb > 0
  BY <1>3, <1>4, PowerPositive DEF Codes
<1>7. ~ TooLarge(f, c.exponent, c.mantissa)
  BY <1>2, <1>4 DEF Sorted
<1>8. c.exponent > 0 \/ c.mantissa > 0
  <2>1. ~ (c.exponent = 0 /\ c.mantissa = 0)
    BY <1>4 DEF IsSpecial, is_zero
  <2>2. QED BY <1>6, <2>1
<1>9. ExponentOf(c) >= 1 /\ ExponentOf(c) <= f.max_finite_code
  BY <1>5, <1>6, <1>7 DEF ExponentOf, TooLarge
<1>10. n > 0 /\ k \in Int
  BY <1>3, <1>5, <1>6, <1>8 DEF Significand
<1> HIDE DEF n
<1>11. BitLength(n) \in Nat /\ BitLength(n) >= 1 /\ BitLength(n) <= mb + 1
  <2> DEFINE l == BitLength(n)
  <2>1. l \in Nat /\ l >= 1 /\ 2^(l - 1) <= n
    BY <1>3, <1>10, BitLengthOf
  <2> HIDE DEF l
  <2>2. l - 1 \in Nat /\ 2^(l - 1) \in Nat /\ 2^(mb + 1) \in Nat
    BY <1>3, <2>1, PowerPositive
  <2>3. l <= mb + 1
    <3>1. SUFFICES ASSUME mb + 1 <= l - 1 PROVE FALSE
      BY <1>3, <2>1
    <3>2. 2^(mb + 1) <= 2^(l - 1)
      BY <1>3, <2>2, <3>1, PowerMonotone
    <3>3. QED BY <1>3, <2>1, <2>2, <3>2
  <2>4. QED BY <2>1, <2>3 DEF l
<1>12. p \in Nat /\ p <= 253 /\ p + 1 - 127 - 23 <= k
  <2> DEFINE z == k
  <2>1. n \in Nat /\ n > 0 /\ z \in Int /\ 23 \in Nat /\ 127 \in Nat
    BY <1>3, <1>10
  <2> HIDE DEF z
  <2>2. Placed(23, 127, n, z)
    BY <2>1, PlacesOf
  <2>3. p \in Nat /\ (p = 0 \/ p = BitLength(n) - 2 + k + 127)
    BY <2>2 DEF Placed, z
  <2>4. k <= 127 - mb /\ k >= 1 - 150
    BY <1>3, <1>5, <1>9
  <2> HIDE DEF p, k
  <2>5. k \in Int
    BY <1>10
  <2>6. QED BY <1>5, <1>11, <2>3, <2>4, <2>5
<1>13. /\ Float32.mantissa_bits = 23 /\ Float32.exponent_bias = 127 /\ Float32.signs = {0, 1}
       /\ Float32.max_finite_code = 254 /\ Float32.max_finite_mantissa = 2^23 - 1
       /\ Float32.signed_zero = TRUE
  BY 2^8 = 256 DEF Float32, WithInfinities
<1> DEFINE sg == IF Float32.signs = {0} THEN 0 ELSE c.sign
<1>14. RoundToNearestEven(Float32, c.sign, Mag(n, k)) = Finished(Float32, sg, r.exponent, r.mantissa)
  <2> DEFINE z == k
             g == Float32
             mg == 23
             bg == 127
             sc == c.sign
  <2>1. mg \in Nat /\ mg = g.mantissa_bits /\ bg \in Nat /\ bg = g.exponent_bias
        /\ g.max_finite_code \in Nat /\ n \in Nat /\ n > 0 /\ z \in Int
    BY <1>3, <1>10, <1>13
  <2> HIDE DEF z, g, mg, bg, sc
  <2>2. RoundToNearestEven(g, sc, Mag(n, z))
          = Finished(g, IF g.signs = {0} THEN 0 ELSE sc, Nearest(g, Mag(n, z)).exponent,
                     Nearest(g, Mag(n, z)).mantissa)
    BY ONLY <2>1, RoundedAs
  <2>3. QED BY <2>2 DEF z, g, sc
<1>15. /\ r.exponent \in Nat /\ r.exponent <= p + 1 /\ r.mantissa \in 0 .. (2^23 - 1)
       /\ \E j \in Nat : Magnitude(Float32, Code(c.sign, r.exponent, r.mantissa)) = Mag(n * 2^j, k - j)
  <2> DEFINE z == k
             g == Float32
             mg == 23
             bg == 127
             sc == c.sign
  <2>1. mg \in Nat /\ mg = g.mantissa_bits /\ bg \in Nat /\ bg = g.exponent_bias
        /\ n \in Nat /\ n > 0 /\ z \in Int /\ Whole(mg, bg, n, z)
    BY <1>3, <1>10, <1>12, <1>13 DEF Whole
  <2> HIDE DEF z, g, mg, bg, sc
  <2>2. /\ Nearest(g, Mag(n, z)).exponent \in Nat
        /\ Nearest(g, Mag(n, z)).mantissa \in 0 .. (2^mg - 1)
    BY ONLY <2>1, NearestIs
  <2>3. /\ StandsFor(g, sc, n, z)
        /\ Nearest(g, Mag(n, z)).exponent <= Places(mg, bg, Mag(n, z)) + 1
    BY ONLY <2>1, ExactCode
  <2>4. QED BY <2>2, <2>3 DEF z, g, mg, bg, sc, StandsFor
<1> HIDE DEF r, p
<1>16. r.exponent <= 254
  BY <1>12, <1>15
<1>17. ~ TooLarge(Float32, r.exponent, r.mantissa)
  BY <1>13, <1>15, <1>16 DEF TooLarge
<1>18. sg = c.sign
  <2>1. 1 \in {0, 1} /\ 1 \notin {0}
    OBVIOUS
  <2>2. QED BY <1>13, <2>1
<1>19. w = Code(c.sign, r.exponent, r.mantissa)
  <2>1. w = RoundToNearestEven(Float32, c.sign, Mag(n, k))
    BY <1>3, <1>4 DEF Converted
  <2>2. QED BY <1>13, <1>14, <1>17, <1>18, <2>1 DEF Finished
<1>20. w.sign = c.sign /\ w.exponent = r.exponent
  BY <1>19 DEF Code
<1> HIDE DEF w, k
<1>21. QED BY <1>3, <1>10, <1>15, <1>16, <1>19, <1>20 DEF w, k, f, n, mb

\* A finite code is what its own fields are finished to.
LEMMA FinishedCode ==
  ASSUME NEW name \in Narrow, NEW c \in Codes(FormatOf[name]), ~ IsSpecial(FormatOf[name], c)
  PROVE  Finished(FormatOf[name], IF FormatOf[name].signs = {0} THEN 0 ELSE c.sign,
                  c.exponent, c.mantissa) = c
<1> DEFINE f == FormatOf[name]
           sg == IF f.signs = {0} THEN 0 ELSE c.sign
<1>1. Sorted(f)
  BY NarrowInside
<1>2. c \in Codes(f) /\ ~ IsSpecial(f, c)
  OBVIOUS
<1> HIDE DEF f
<1>3. ~ TooLarge(f, c.exponent, c.mantissa)
  BY <1>1, <1>2 DEF Sorted
<1>4. ~ (c.exponent = 0 /\ c.mantissa = 0)
  BY <1>2 DEF IsSpecial, is_zero
<1>5. sg = c.sign /\ c = Code(c.sign, c.exponent, c.mantissa)
  BY <1>2 DEF Codes, Code
<1> HIDE DEF sg
<1>6. Finished(f, sg, c.exponent, c.mantissa) = Code(sg, c.exponent, c.mantissa)
  BY <1>3, <1>4 DEF Finished
<1>7. Finished(f, sg, c.exponent, c.mantissa) = c
  BY <1>5, <1>6
<1>8. QED BY <1>7 DEF sg, f

\* The special values of a format with infinities.
LEMMA KindsOf ==
  ASSUME NEW eb \in Nat, NEW mb \in Nat, NEW bias, eb >= 1, mb >= 1
  PROVE  LET f == WithInfinities(eb, mb, bias) IN
         /\ f.signs # {0} /\ f.signed_zero = TRUE /\ "NaN" \in DOMAIN f /\ f.inf # {}
         /\ is_nan(f, f.NaN)
         /\ \A c : is_inf(f, c) \/ is_nan(f, c) => c.exponent = 2^eb - 1
         /\ \A sign \in {0, 1} :
              is_inf(f, Infinity(f, sign)) /\ ~ is_nan(f, Infinity(f, sign))
<1> DEFINE f == WithInfinities(eb, mb, bias)
           T == 2^eb - 1
           h == mb - 1
           H == 2^h
           B == 2^mb
<1>1. /\ f.exponent_bits = eb /\ f.signs = {0, 1} /\ f.signed_zero = TRUE /\ "NaN" \in DOMAIN f
      /\ f.NaN = Code(0, T, H)
      /\ f.inf = [sign: {0, 1}, exponent: {T}, mantissa: {0}]
      /\ f.nan = [sign: {0, 1}, exponent: {T}, mantissa: 1 .. (B - 1)]
  BY DEF WithInfinities
<1>2. H \in Nat /\ H > 0 /\ B = 2 * H
  <2>1. h \in Nat /\ h + 1 = mb
    OBVIOUS
  <2> HIDE DEF h
  <2>2. QED BY <2>1, PowerPositive, PowerStep
<1> HIDE DEF f
<1>3. ASSUME NEW sign \in {0, 1} PROVE Infinity(f, sign) = [sign |-> sign, exponent |-> T, mantissa |-> 0]
  BY <1>1 DEF Infinity, Code
<1> HIDE DEF T, H, B
<1>4. f.signs # {0}
  <2>1. 1 \in {0, 1} /\ 1 \notin {0}
    OBVIOUS
  <2>2. QED BY <1>1, <2>1
<1>5. H \in 1 .. (B - 1)
  BY <1>2
<1>6. is_nan(f, f.NaN)
  BY <1>1, <1>5 DEF is_nan, Code
<1>7. ASSUME NEW c, is_inf(f, c) \/ is_nan(f, c) PROVE c.exponent = T
  BY <1>1, <1>7 DEF is_inf, is_nan
<1>8. ASSUME NEW sign \in {0, 1}
      PROVE  is_inf(f, Infinity(f, sign)) /\ ~ is_nan(f, Infinity(f, sign))
  BY <1>1, <1>3, <1>8 DEF is_inf, is_nan
<1>9. f.inf # {}
  BY <1>8 DEF is_inf
<1>10. QED BY <1>1, <1>4, <1>6, <1>7, <1>8, <1>9 DEF f, T

\* The special values of Float32.
LEMMA WideKinds ==
  /\ Float32.signs # {0} /\ Float32.signed_zero = TRUE /\ "NaN" \in DOMAIN Float32
  /\ Float32.inf # {} /\ is_nan(Float32, Float32.NaN)
  /\ \A c : is_inf(Float32, c) \/ is_nan(Float32, c) => c.exponent = 255
  /\ \A sign \in {0, 1} :
       /\ is_inf(Float32, Infinity(Float32, sign)) /\ ~ is_nan(Float32, Infinity(Float32, sign))
       /\ Infinity(Float32, sign).sign = sign
<1>1. 2^8 - 1 = 255
  BY 2^8 = 256
<1>2. \A sign : Infinity(Float32, sign).sign = sign
  BY DEF Infinity, Code
<1>3. LET g == WithInfinities(8, 23, 127) IN
      /\ g.signs # {0} /\ g.signed_zero = TRUE /\ "NaN" \in DOMAIN g /\ g.inf # {}
      /\ is_nan(g, g.NaN)
      /\ \A c : is_inf(g, c) \/ is_nan(g, c) => c.exponent = 2^8 - 1
      /\ \A sign \in {0, 1} : is_inf(g, Infinity(g, sign)) /\ ~ is_nan(g, Infinity(g, sign))
  <2>1. 8 \in Nat /\ 8 >= 1 /\ 23 \in Nat /\ 23 >= 1
    OBVIOUS
  <2>2. QED BY <2>1, KindsOf, Zenon
<1>4. QED BY <1>1, <1>2, <1>3 DEF Float32

\* Special values are converted to Float32 and back.
LEMMA SpecialBack ==
  ASSUME NEW name \in Narrow, NEW c \in Codes(FormatOf[name]), IsSpecial(FormatOf[name], c)
  PROVE  LET f == FormatOf[name] IN
         Converted(f, Float32, Converted(Float32, f, c)) = IF is_nan(f, c) THEN f.NaN ELSE c
<1> DEFINE f == FormatOf[name]
           w == Converted(Float32, f, c)
<1>1. Sorted(f) /\ c \in Codes(f) /\ IsSpecial(f, c)
  BY NarrowInside
<1> HIDE DEF f
<1>4. c.sign \in {0, 1} /\ c = Code(c.sign, c.exponent, c.mantissa)
  BY <1>1 DEF Sorted, Codes, Code
<1>5. CASE is_nan(f, c)
  <2>1. "NaN" \in DOMAIN f
    BY <1>1, <1>5 DEF Sorted, is_nan
  <2>2. w = Float32.NaN
    BY <1>1, <1>5, WideKinds DEF Converted, DocumentedSpecial
  <2>3. is_nan(Float32, Float32.NaN)
    BY WideKinds
  <2>4. Converted(f, Float32, w) = f.NaN
    BY <2>1, <2>2, <2>3 DEF Converted, IsSpecial, DocumentedSpecial
  <2>5. QED BY <1>5, <2>4 DEF f
<1>6. CASE ~ is_nan(f, c) /\ is_inf(f, c)
  <2>1. f.inf # {} /\ f.signs # {0} /\ c = Infinity(f, c.sign)
    BY <1>1, <1>6 DEF Sorted, is_inf
  <2>2. w = Infinity(Float32, c.sign)
    BY <1>1, <1>6, WideKinds DEF Converted, DocumentedSpecial
  <2>4. is_inf(Float32, w) /\ ~ is_nan(Float32, w) /\ w.sign = c.sign
    BY <1>4, <2>2, WideKinds
  <2>5. Converted(f, Float32, w) = c
    BY <2>1, <2>4 DEF Converted, IsSpecial, DocumentedSpecial
  <2>6. QED BY <1>6, <2>5 DEF f
<1>7. CASE ~ is_nan(f, c) /\ ~ is_inf(f, c) /\ is_zero(f, c)
  <2>1. c = Code(c.sign, 0, 0) /\ (c.sign = 1 => f.signed_zero)
    BY <1>1, <1>4, <1>7 DEF Sorted, is_zero
  <2>2. w = Code(c.sign, 0, 0)
    BY <1>1, <1>4, <1>7, WideKinds DEF Converted, DocumentedSpecial, Zero, nZero
  <2>3. is_zero(Float32, w) /\ ~ is_inf(Float32, w) /\ ~ is_nan(Float32, w) /\ w.sign = c.sign
    <3>1. w.sign = c.sign /\ w.exponent = 0 /\ w.mantissa = 0 /\ 0 # 255
      BY <2>2 DEF Code
    <3>2. QED BY <3>1, WideKinds DEF is_zero
  <2>4. Converted(f, Float32, w) = c
    BY <1>4, <2>1, <2>3 DEF Converted, IsSpecial, DocumentedSpecial, Zero, nZero
  <2>5. QED BY <1>7, <2>4 DEF f
<1>8. QED BY <1>1, <1>5, <1>6, <1>7 DEF IsSpecial, is_nan

\* Numbers are converted to Float32 and back.
LEMMA NumberBack ==
  ASSUME NEW name \in Narrow, NEW c \in Codes(FormatOf[name]), ~ IsSpecial(FormatOf[name], c)
  PROVE  LET f == FormatOf[name] IN
         Converted(f, Float32, Converted(Float32, f, c)) = c
<1> DEFINE f == FormatOf[name]
           w == Converted(Float32, f, c)
           n == Significand(f, c)
           mb == f.mantissa_bits
           bias == f.exponent_bias
           k == ExponentOf(c) - bias - mb
           sg == IF f.signs = {0} THEN 0 ELSE c.sign
<1>1. /\ w.sign = c.sign /\ w.exponent \in Nat /\ w.exponent <= 254
      /\ n \in Nat /\ n > 0 /\ k \in Int /\ Magnitude(f, c) = Mag(n, k)
      /\ \E j \in Nat : Magnitude(Float32, w) = Mag(n * 2^j, k - j)
  BY Widened
<1>2. PICK j \in Nat : Magnitude(Float32, w) = Mag(n * 2^j, k - j)
  BY <1>1
<1>3. Finished(f, sg, c.exponent, c.mantissa) = c
  BY FinishedCode
<1>4. /\ mb \in Nat /\ mb >= 1 /\ bias \in Nat /\ f.max_finite_code \in Nat
      /\ c \in Codes(f) /\ f.exponent_bits \in Nat /\ ~ IsSpecial(f, c)
  <2>1. name \in DOMAIN FormatOf
    BY DEF Narrow, FormatOf
  <2>2. Inside(f) /\ FormatTyped(f)
    BY <2>1, NarrowInside, FormatFields
  <2>3. QED BY <2>2 DEF Inside, FormatTyped
<1> HIDE DEF f, w
<1> DEFINE P == 2^mb
           C == c.exponent
           M == c.mantissa
<1>5. /\ C \in 0 .. (2^f.exponent_bits - 1) /\ M \in 0 .. (P - 1)
      /\ 2^f.exponent_bits \in Nat /\ P \in Nat /\ P > 0
  BY <1>4, PowerPositive DEF Codes
<1>6. C > 0 \/ M > 0
  <2>1. ~ (C = 0 /\ M = 0)
    BY <1>4 DEF IsSpecial, is_zero
  <2>2. QED BY <1>5, <2>1
<1>7. Ordinal(mb, bias, Mag(n, k)) = C * P + M
  <2> DEFINE E == C
             R == M
             N == IF E = 0 THEN R ELSE 2^mb + R
             z == (IF E = 0 THEN 1 ELSE E) - bias - mb
  <2>1. n = N /\ k = z
    BY DEF Significand, ExponentOf
  <2>2. E \in Nat /\ R \in Nat /\ R < 2^mb /\ (E > 0 \/ R > 0) /\ mb \in Nat /\ bias \in Nat
    BY <1>4, <1>5, <1>6
  <2> HIDE DEF E, R, mb, bias
  <2>3. Ordinal(mb, bias, Mag(N, z)) = E * 2^mb + R
    <3>1. FieldsOf(mb, bias, E, R, N, z)
      BY DEF FieldsOf
    <3> HIDE DEF N, z
    <3>2. QED BY ONLY <2>2, <3>1, CodePlace
  <2>4. QED BY <2>1, <2>3 DEF E, R
<1> HIDE DEF n, k
<1> DEFINE N == n * 2^j
           z == k - j
           r == Nearest(f, Mag(N, z))
<1>8. N \in Nat /\ N > 0 /\ z \in Int
  <2>1. 2^j \in Nat /\ 2^j > 0
    BY PowerPositive
  <2> DEFINE J == 2^j
  <2> HIDE DEF J
  <2>2. J \in Nat /\ J > 0
    BY <2>1 DEF J
  <2>3. n * J \in Nat /\ n * J > 0
    BY <1>1, <2>2
  <2>4. QED BY <1>1, <2>3 DEF J
<1>9. Ordinal(mb, bias, Mag(N, z)) = Ordinal(mb, bias, Mag(n, k))
  <2>1. mb \in Nat /\ bias \in Nat /\ n \in Nat /\ n > 0 /\ k \in Int /\ j \in Nat
    BY <1>1, <1>4
  <2> HIDE DEF mb, bias
  <2>2. Ordinal(mb, bias, Mag(n * 2^j, k - j)) = Ordinal(mb, bias, Mag(n, k))
    BY ONLY <2>1, OrdinalScaled
  <2>3. QED BY <2>2
<1> HIDE DEF N, z
<1>10. /\ Ordinal(mb, bias, Mag(N, z)) = r.exponent * P + r.mantissa
       /\ r.exponent \in Nat /\ r.mantissa \in 0 .. (P - 1)
       /\ RoundToNearestEven(f, c.sign, Mag(N, z)) = Finished(f, sg, r.exponent, r.mantissa)
  <2> DEFINE sc == c.sign
  <2>1. mb \in Nat /\ mb = f.mantissa_bits /\ bias \in Nat /\ bias = f.exponent_bias
        /\ f.max_finite_code \in Nat /\ N \in Nat /\ N > 0 /\ z \in Int
    BY <1>4, <1>8
  <2> HIDE DEF mb, bias, sc
  <2>2. /\ Ordinal(mb, bias, Mag(N, z)) = Nearest(f, Mag(N, z)).exponent * 2^mb
                                            + Nearest(f, Mag(N, z)).mantissa
        /\ Nearest(f, Mag(N, z)).exponent \in Nat
        /\ Nearest(f, Mag(N, z)).mantissa \in 0 .. (2^mb - 1)
    BY ONLY <2>1, NearestIs
  <2>3. RoundToNearestEven(f, sc, Mag(N, z))
          = Finished(f, IF f.signs = {0} THEN 0 ELSE sc, Nearest(f, Mag(N, z)).exponent,
                     Nearest(f, Mag(N, z)).mantissa)
    BY ONLY <2>1, RoundedAs
  <2>4. QED BY <2>2, <2>3 DEF sc
<1> HIDE DEF r
<1>11. r.exponent = C /\ r.mantissa = M
  <2> DEFINE a == r.exponent
             d == r.mantissa
  <2>1. /\ a \in Int /\ d \in Int /\ 0 <= d /\ d < P /\ C \in Int /\ M \in Int /\ 0 <= M /\ M < P
        /\ P \in Nat /\ P > 0
    BY <1>5, <1>10
  <2>2. a * P + d = C * P + M
    BY <1>7, <1>9, <1>10
  <2> HIDE DEF a, d, C, M, P
  <2>3. P * a + d = P * C + M
    BY <2>1, <2>2
  <2>4. (P * a + d) \div P = a /\ (P * a + d) % P = d
    BY ONLY <2>1, DivisionUnique
  <2>5. (P * C + M) \div P = C /\ (P * C + M) % P = M
    BY ONLY <2>1, DivisionUnique
  <2>6. a = C /\ d = M
    BY ONLY <2>3, <2>4, <2>5
  <2>7. QED BY <2>6 DEF a, d
<1>12. RoundToNearestEven(f, c.sign, Mag(N, z)) = c
  BY <1>3, <1>10, <1>11
<1>13. ~ IsSpecial(Float32, w)
  <2>2. w.exponent # 255
    BY <1>1
  <2>3. ~ is_inf(Float32, w) /\ ~ is_nan(Float32, w)
    BY <2>2, WideKinds
  <2>4. ASSUME w.exponent = 0, w.mantissa = 0 PROVE FALSE
    <3>1. Magnitude(Float32, w).m = 0
      BY <2>4 DEF Magnitude, Mag
    <3>2. Magnitude(Float32, w).m = N
      BY <1>2 DEF Mag, N
    <3>3. QED BY <1>8, <3>1, <3>2
  <2>5. QED BY <2>3, <2>4 DEF IsSpecial, is_zero
<1>14. Magnitude(Float32, w) = Mag(N, z)
  BY <1>2 DEF N, z
<1>15. Converted(f, Float32, w) = c
  BY <1>1, <1>12, <1>13, <1>14 DEF Converted
<1>16. QED BY <1>15 DEF f, w

\* The inductive invariant of the round trip: the code a conversion back to a narrow
\* format starts from is what the code of the origin was widened to.
Trip ==
  /\ design.from \in Narrow => origin = [format |-> design.from, code |-> x]
  /\ design.from = "Float32" /\ origin.format \in Narrow =>
       /\ design.to = origin.format /\ origin.code \in Codes(To)
       /\ x = Converted(Float32, To, origin.code)

\* A finished conversion has the documented result.
LEMMA DoneConverted ==
  ASSUME Converting, AsDocumented, stage = "done"
  PROVE  result = Converted(To, From, x)
<1>1. Value = Magnitude(From, x) /\ Sign = x.sign
  BY DEF Value, Sign
<1>2. Finite <=> ~ IsSpecial(From, x)
  BY DEF Finite
<1>3. CASE IsSpecial(From, x)
  BY <1>2, <1>3 DEF AsDocumented, SpecialsAsDocumented, Converted
<1>4. CASE ~ IsSpecial(From, x)
  BY <1>1, <1>2, <1>4 DEF AsDocumented, NumbersAsDocumented, Converted
<1>5. QED BY <1>3, <1>4

\* A chain of conversions starts at its origin.
LEMMA TripInit == Init => Trip
<1>1. "Float32" \notin Narrow /\ "encoder" \notin Narrow
  BY DEF Narrow
<1>2. ASSUME InitConverter PROVE Trip
  <2>1. origin = [format |-> design.from, code |-> x]
    BY <1>2 DEF InitConverter
  <2>2. QED BY <1>1, <2>1 DEF Trip
<1>3. ASSUME InitEncoder PROVE Trip
  BY <1>1, <1>3 DEF InitEncoder, Trip
<1>4. QED BY <1>2, <1>3 DEF Init

\* Only the return to the narrow format changes the code converted.
LEMMA TripStep == ConverterInv /\ AsDocumented /\ Trip /\ [Next]_vars => Trip'
<1> SUFFICES ASSUME ConverterInv, AsDocumented, Trip, [Next]_vars PROVE Trip'
  OBVIOUS
<1>1. CASE UNCHANGED <<design, x, origin>>
  BY <1>1 DEF Trip, To
<1>2. CASE Return
  <2>1. /\ stage = "done" /\ design.to = "Float32" /\ Converting
        /\ design' = [from |-> "Float32", to |-> design.from]
        /\ x' = result /\ UNCHANGED origin
    BY <1>2 DEF Return
  <2>2. design \in Designs /\ x \in Codes(From)
    BY <2>1 DEF ConverterInv, Typing
  <2>3. design.from \in Narrow /\ "Float32" \notin Narrow
    BY <2>1, <2>2 DEF Designs, Converting, Narrow
  <2>4. origin.format = design.from /\ origin.code = x
    BY <2>3 DEF Trip
  <2>5. To = Float32
    BY <2>1 DEF To, FormatOf
  <2>6. design'.from = "Float32" /\ design'.to = design.from /\ To' = From
    BY <2>1 DEF To, From
  <2>7. result = Converted(Float32, From, x)
    BY <2>1, <2>5, DoneConverted
  <2>8. QED BY <2>1, <2>2, <2>3, <2>4, <2>6, <2>7 DEF Trip
<1>3. CASE Decode \/ Rebase \/ Normalize \/ Shift \/ Round \/ Encode \/ Specials
  BY <1>1, <1>3 DEF Decode, Rebase, Normalize, Shift, Round, Encode, Specials
<1>4. CASE UNCHANGED vars
  BY <1>1, <1>4 DEF vars
<1>5. QED BY <1>2, <1>3, <1>4 DEF Next

\* "Widening to FP32 is exact": a code of any narrow format, converted to Float32 and
\* back, is the same code, a NaN the canonical one.  The two conversions share nothing
\* but the encoder, and the first one must keep every bit the second one rounds.
THEOREM RoundTripExact == Spec => []RoundTrip
<1>1. Init => Trip
  BY TripInit
<1>2. ConverterInv /\ AsDocumented /\ Trip /\ [Next]_vars => Trip'
  BY TripStep
<1>3. ConverterInv /\ AsDocumented /\ Trip => RoundTrip
  <2> SUFFICES ASSUME ConverterInv, AsDocumented, Trip,
                      stage = "done", design.from = "Float32", origin.format \in Narrow
               PROVE  result = IF is_nan(To, origin.code) THEN To.NaN ELSE origin.code
    BY DEF RoundTrip
  <2>1. Converting /\ From = Float32
    BY DEF Converting, From, FormatOf
  <2>2. /\ design.to \in Narrow /\ origin.code \in Codes(FormatOf[design.to])
        /\ x = Converted(Float32, To, origin.code) /\ To = FormatOf[design.to]
    BY DEF Trip, To
  <2>3. result = Converted(To, Float32, Converted(Float32, To, origin.code))
    BY <2>1, <2>2, DoneConverted
  <2> DEFINE c == origin.code
             name == design.to
  <2>4. name \in Narrow /\ c \in Codes(FormatOf[name])
    BY <2>2
  <2> HIDE DEF c, name
  <2>5. CASE IsSpecial(FormatOf[name], c)
    <3>1. Converted(FormatOf[name], Float32, Converted(Float32, FormatOf[name], c))
            = IF is_nan(FormatOf[name], c) THEN FormatOf[name].NaN ELSE c
      BY <2>4, <2>5, SpecialBack
    <3>2. QED BY <2>2, <2>3, <3>1 DEF c, name
  <2>6. CASE ~ IsSpecial(FormatOf[name], c)
    <3>1. Converted(FormatOf[name], Float32, Converted(Float32, FormatOf[name], c)) = c
      BY <2>4, <2>6, NumberBack
    <3>2. ~ is_nan(FormatOf[name], c)
      BY <2>6 DEF IsSpecial
    <3>3. QED BY <2>2, <2>3, <3>1, <3>2 DEF c, name
  <2>7. QED BY <2>5, <2>6
<1>4. QED BY <1>1, <1>2, <1>3, ConverterTyped, ConversionsAsDocumented, PTL DEF Spec
=============================================================================
