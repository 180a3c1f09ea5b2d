----------------------------- MODULE RewriteRules -----------------------------
(***************************************************************************)
(* The rewrite rules of the proof e-graphs (zolotone/egglog/rules.py).  A   *)
(* rule is a set of premises and a set of equations.  A premise <<c, t>>    *)
(* asks for a class c that holds a term of the form t; an equation <<t, u>> *)
(* makes the terms t and u equal.  The variables of a pattern are those of  *)
(* terms.                                                                   *)
(***************************************************************************)
EXTENDS SpecTerms

a ++ b == <<"add", a, b>>
a -- b == <<"sub", a, b>>
a ** b == <<"mul", a, b>>
a ^^ b == <<"pow", a, b>>
Neg(a) == <<"neg", a>>
Abs(a) == <<"abs", a>>
Larger(a, b)  == <<"max", a, b>>
Smaller(a, b) == <<"min", a, b>>
If(p, a, b)   == <<"if", p, a, b>>

Not(p) == <<"not", p>>
p && q == <<"and", p, q>>
p || q == <<"or", p, q>>
a \doteq b == <<"eq", a, b>>
NotEq(a, b) == <<"ne", a, b>>
p \simeq q == <<"beq", p, q>>
BoolNe(p, q) == <<"bne", p, q>>


A == RealVar("a")
B == RealVar("b")
C == RealVar("c")
Bits == RealVar("bit_result")
P == BoolVar("p")
Q == BoolVar("q")
R == BoolVar("r")

Zero == Real(0)
One  == Real(1)
Two  == Real(2)
MinusOne == Real(-1)

Both(t, u) == {<<t, u>>, <<u, t>>}

-----------------------------------------------------------------------------
(* rewrite_rules: pairs of a left and a right side.                         *)

SumsAndProducts ==
       Both(A ++ (B ++ C), (A ++ B) ++ C) \cup Both(A ** (B ** C), (A ** B) ** C)
  \cup {<<A ++ B, B ++ A>>, <<A ** B, B ** A>>}
  \cup Both((A ** B) ++ (A ** C), A ** (B ++ C)) \cup Both((B ** A) ++ (C ** A), A ** (B ++ C))

Powers ==
       {<<A ^^ Zero, One>>, <<A ^^ One, A>>, <<One, Two ^^ Zero>>, <<Two, Two ^^ One>>,
        <<(Two ^^ A) ** (Two ^^ Neg(A)), One>>,
        <<One, MinusOne ^^ Zero>>, <<MinusOne, MinusOne ^^ One>>}
  \cup Both(Two ^^ (A ++ B), (Two ^^ A) ** (Two ^^ B)) \cup Both(A ^^ Two, A ** A)

NegationsOfSums ==
  Both(Neg(A ++ B), Neg(A) ++ Neg(B)) \cup Both(Neg(A ++ Neg(B)), Neg(A) ++ B)

NegationsOfProducts ==
  {<<Neg(A ** B), Neg(A) ** B>>, <<Neg(A ** B), A ** Neg(B)>>,
   <<Neg(A) ** Neg(B), A ** B>>, <<Neg(A ** Neg(B)), A ** B>>}

Maxima ==
  {<<Larger(A, B), Larger(B, A)>>, <<Larger(A, A), A>>,
   <<Larger(Larger(A, B), C), Larger(Larger(A, C), B)>>}

Units ==
       {<<Neg(Neg(A)), A>>, <<A ++ Neg(A), Zero>>, <<Neg(A) ++ A, Zero>>,
        <<A ** One, A>>, <<One ** A, A>>, <<A ** Zero, Zero>>, <<Zero ** A, Zero>>,
        <<A ++ Zero, A>>, <<Zero ++ A, A>>}
  \cup Both(Neg(Zero), Zero)

AbsoluteValues ==
  {<<Abs(Neg(A)), Abs(A)>>, <<Abs(Abs(A)), Abs(A)>>, <<Abs(A ** B), Abs(A) ** Abs(B)>>,
   <<Abs(If(P, A, B)), If(P, Abs(A), Abs(B))>>}

Reflexivity == {<<A \doteq A, True>>, <<P \simeq P, True>>}

Conjunctions ==
       {<<Not(True), False>>, <<Not(False), True>>, <<Not(Not(P)), P>>,
        <<P && True, P>>, <<True && P, P>>, <<P && False, False>>, <<False && P, False>>,
        <<P && P, P>>, <<P && Not(P), False>>, <<Not(P) && P, False>>, <<P && Q, Q && P>>}
  \cup Both(P && (Q && R), (P && Q) && R)

Disjunctions ==
       {<<P || False, P>>, <<False || P, P>>, <<P || True, True>>, <<True || P, True>>,
        <<P || P, P>>, <<P || Not(P), True>>, <<Not(P) || P, True>>, <<P || Q, Q || P>>}
  \cup Both(P || (Q || R), (P || Q) || R)

Equalities ==
  {<<P \simeq True, P>>, <<True \simeq P, P>>, <<P \simeq False, Not(P)>>,
   <<False \simeq P, Not(P)>>, <<Not(P) \simeq True, Not(P)>>, <<Not(P) \simeq False, P>>,
   <<(P && Q) || (Not(P) && Not(Q)), P \simeq Q>>, <<Not(P \simeq Q), BoolNe(P, Q)>>,
   <<BoolNe(P, True), Not(P)>>, <<BoolNe(True, P), Not(P)>>, <<BoolNe(P, False), P>>,
   <<BoolNe(False, P), P>>, <<BoolNe(P, P), False>>, <<BoolNe(P, Not(P)), True>>,
   <<BoolNe(Not(P), P), True>>}

Implications ==
       {<<P || (P && Q), P>>, <<P && (P || Q), P>>,
        <<P && (Not(P) || Q), P && Q>>, <<(Not(P) || Q) && P, P && Q>>,
        <<(P || Q) && Not(P), Q && Not(P)>>, <<(P || Q) && Not(Q), P && Not(Q)>>}
  \cup Both(Not(P && Q), Not(P) || Not(Q)) \cup Both(Not(P || Q), Not(P) && Not(Q))
  \cup Both(Not(P) || Q, (P && Not(Q)) \simeq False)

Selections ==
  {<<If(True, A, B), A>>, <<If(False, A, B), B>>, <<If(P, A, A), A>>,
   <<One -- If(P, One, Zero), If(Not(P), One, Zero)>>,
   <<One -- If(P, One, Zero), If(P, Zero, One)>>,
   <<If(P, A, B) \doteq A, P || (B \doteq A)>>, <<If(P, A, B) \doteq B, Not(P) || (A \doteq B)>>,
   <<NotEq(If(P, A, B), A), Not(P) && NotEq(B, A)>>,
   <<NotEq(If(P, A, B), B), P && NotEq(A, B)>>}

Rewrites == UNION {SumsAndProducts, Powers, NegationsOfSums, NegationsOfProducts, Maxima, Units,
                   AbsoluteValues, Reflexivity, Conjunctions, Disjunctions, Equalities,
                   Implications, Selections}

\* _lower_expr: a subtraction becomes the addition of a negation.
RECURSIVE LowerExpr(_)
LowerExpr(t) ==
  IF Args(t) = <<>> THEN t
  ELSE LET args == [i \in DOMAIN Args(t) |-> LowerExpr(Args(t)[i])]
       IN  IF Is(t, "sub") THEN args[1] ++ Neg(args[2]) ELSE Rebuild(t, args)

\* lower_rule: a term of the form of the left side is equal to the right side.
Lowered(rewrite) ==
  LET root == IF IsBoolean(rewrite[1]) THEN BoolVar("root") ELSE RealVar("root")
  IN  [premises |-> <<<<root, LowerExpr(rewrite[1])>> >>,
       equations |-> {<<root, LowerExpr(rewrite[2])>>}]

-----------------------------------------------------------------------------
(* constant_rules, but for the folding of numbers.                          *)

IsBit(t) == (t \doteq Zero) || (t \doteq One)
SignMultiplier(t) == If(t \doteq One, MinusOne, One)

Fact(t) == <<True, t>>
Premised(facts, t, forms) ==
  [premises |-> <<<<Bits, t>> >> \o facts,
   equations |-> {<<Bits, form>> : form \in forms} \cup {Fact(IsBit(Bits))}]

\* Bug: gates are taken to be of bits, whatever their operands are.
GatesOfAnything ==
  {Premised(<<>>, If((A \doteq One) && (B \doteq One), One, Zero), {A ** B, Smaller(A, B)}),
   Premised(<<>>, If(A \doteq One, Zero, One), {One ++ Neg(A)})}

\* What the gates make of bits.
BitRules ==
  LET bits == <<Fact(IsBit(A)), Fact(IsBit(B))>>
      xor  == Premised(bits, If(NotEq(A, B), One, Zero),
                       {Larger(A, B) ++ Neg(A ** B), (A ++ B) ++ Neg((Two ** A) ** B)})
  IN  {Premised(bits, If((A \doteq One) && (B \doteq One), One, Zero), {A ** B, Smaller(A, B)}),
       Premised(bits, If((A \doteq One) || (B \doteq One), One, Zero),
                {(A ++ B) ++ Neg(A ** B), Larger(A, B)}),
       [xor EXCEPT !.equations = @ \cup
          {<<SignMultiplier(Bits), SignMultiplier(A) ** SignMultiplier(B)>>}],
       Premised(<<Fact(IsBit(A))>>, If(A \doteq One, Zero, One),
                {One ++ Neg(A), If(A \doteq Zero, One, Zero), If(NotEq(A, Zero), Zero, One),
                 If(NotEq(A, One), One, Zero)})}

\* Two more rewrites.
SignsOfPowers == {<<<<op, Two ^^ A, Zero>>, True>> : op \in {"ge", "gt"}}

Given(facts, equation) == [premises |-> facts, equations |-> {equation}]

\* A known equation makes its sides one.
ReflectedEquality == Given(<<Fact(A \doteq B)>>, <<A, B>>)

\* What is known of signs and of bounds.
BoundRules ==
  LET positive == Fact(<<"ge", A, Zero>>) IN
  {Given(<<positive>>, <<Abs(A), A>>),
   Given(<<Fact(<<"le", A, Zero>>)>>, <<Abs(A), Neg(A)>>),
   Given(<<<<A, Two ^^ B>> >>, positive),
   Given(<<Fact(<<"ge", A, B>>), Fact(<<"ge", B, Zero>>)>>, positive),
   Given(<<Fact(<<"gt", A, B>>), Fact(<<"ge", B, Zero>>)>>, positive)}

\* What depends on the numerals that occur.
NegatedNumerals(numerals) == {Given(<<>>, <<Real(m), Neg(Real(-m))>>) : m \in numerals}
NumeralBounds(numerals) ==
  {Given(<<Fact(<<op, A, Real(m)>>)>>, Fact(<<"ge", A, Zero>>)) :
     op \in {"ge", "gt"}, m \in {n \in numerals : n >= 0}}

Rules(numerals) ==
       {Lowered(rewrite) : rewrite \in Rewrites \cup SignsOfPowers}
  \cup BitRules \cup {ReflectedEquality} \cup BoundRules
  \cup NegatedNumerals(numerals) \cup NumeralBounds(numerals)

-----------------------------------------------------------------------------
(* What an operation on numerals is equal to, if it is folded at all: the   *)
(* proof e-graphs leave powers of two as they are.                          *)

Power(m, n) == IF n % 2 = 0 THEN 1 ELSE m

Folded(op, m, n) ==
  CASE op \in {"add", "mul"}     -> {Real(Arithmetic(op, <<m, n>>))}
    [] op \in {"eq", "ne", "ge"} -> {Bool(Comparison(op, <<m, n>>))}
    [] op = "pow" -> (IF n = 2 THEN {Real(m * m)} ELSE {})
                       \cup (IF m = -1 THEN {Real(Power(m, n))} ELSE {})
    [] OTHER -> {}

FoldedSingle(op, m) == IF op \in {"neg", "abs"} THEN {Real(Arithmetic(op, <<m>>))} ELSE {}
=============================================================================
