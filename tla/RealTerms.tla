------------------------------ MODULE RealTerms ------------------------------
(***************************************************************************)
(* What the expressions of a specification are worth, exactly: rational     *)
(* arithmetic, reciprocals and explicit rounding (zolotone/spec/spec_ast);  *)
(* and the normal form of conditions on them.                              *)
(*                                                                         *)
(* A real literal of this module holds a rational, a pair of a numerator    *)
(* and a positive denominator.  A rounding carries its mode and its number  *)
(* of fraction bits in the name of the operation; one whose precision the   *)
(* output type decides has no number.                                       *)
(***************************************************************************)
EXTENDS TermRewriting, FiniteSets

Ratio(n, d) == IF d < 0 THEN <<-n, -d>> ELSE <<n, d>>
Whole(n)    == <<n, 1>>
Lit(n)      == Real(Whole(n))
Dyadic(n, frac) == Real(<<n, 2^frac>>)

Plus(a, b)   == <<a[1] * b[2] + b[1] * a[2], a[2] * b[2]>>
Minus(a)     == <<-a[1], a[2]>>
Times(a, b)  == <<a[1] * b[1], a[2] * b[2]>>
Scaled(a, frac) == <<a[1] * 2^frac, a[2]>>
Below(a, b)  == a[1] * b[2] < b[1] * a[2]
Same(a, b)   == a[1] * b[2] = b[1] * a[2]
Floor(a)     == a[1] \div a[2]
Ceiling(a)   == -((-a[1]) \div a[2])

-----------------------------------------------------------------------------
\* Round
Modes == {"RNE", "RTZ", "RAZ", "FR"}
Precisions == 0 .. 3
RoundOp(mode, frac) == mode \o ToString(frac)

Rounding ==
  [op \in {RoundOp(m, f) : m \in Modes, f \in Precisions} |->
     CHOOSE r \in [mode : Modes, frac : Precisions] : RoundOp(r.mode, r.frac) = op]

IsRound(t)    == t[1] \in DOMAIN Rounding
Unresolved(t) == t[1] \in Modes
Rounds(mode, frac, t) == <<RoundOp(mode, frac), t>>

RoundedCode(mode, a) ==
  CASE mode = "RTZ" -> IF a[1] >= 0 THEN Floor(a) ELSE Ceiling(a)
    [] mode = "RAZ" -> IF a[1] >= 0 THEN Ceiling(a) ELSE Floor(a)
    [] mode = "RNE" -> LET low == Floor(a)
                           twice == Plus(a, Plus(a, Whole(-2 * low)))
                       IN  IF Below(twice, Whole(1)) THEN low
                           ELSE IF Below(Whole(1), twice) \/ low % 2 = 1 THEN low + 1 ELSE low

Quantized(op, a) ==
  <<RoundedCode(Rounding[op].mode, Scaled(a, Rounding[op].frac)), 2^Rounding[op].frac>>

-----------------------------------------------------------------------------
\* Truth values are 0 and 1.  The reciprocal of zero is an error, and so is
\* everything computed of it.
Error  == <<0, 0>>
Yes    == Whole(1)
Truth(b) == IF b THEN Yes ELSE Whole(0)

ExactArithmetic(op, v) ==
  CASE op = "add" -> Plus(v[1], v[2])
    [] op = "sub" -> Plus(v[1], Minus(v[2]))
    [] op = "mul" -> Times(v[1], v[2])
    [] op = "neg" -> Minus(v[1])
    [] op = "abs" -> IF v[1][1] < 0 THEN Minus(v[1]) ELSE v[1]
    [] op = "inv" -> IF v[1][1] = 0 THEN Error ELSE Ratio(v[1][2], v[1][1])
    [] op = "max" -> IF Below(v[1], v[2]) THEN v[2] ELSE v[1]
    [] op = "min" -> IF Below(v[2], v[1]) THEN v[2] ELSE v[1]
    [] OTHER      -> Quantized(op, v[1])

ExactComparison(op, a, b) ==
  CASE op = "eq" -> Same(a, b)
    [] op = "ne" -> ~Same(a, b)
    [] op = "lt" -> Below(a, b)
    [] op = "le" -> ~Below(b, a)
    [] op = "gt" -> Below(b, a)
    [] op = "ge" -> ~Below(a, b)

OnValues(op, v) ==
  IF \E i \in DOMAIN v : v[i] = Error THEN Error
  ELSE IF op \in Connectives THEN Truth(Connective(op, [i \in DOMAIN v |-> v[i] = Yes]))
  ELSE IF op \in Comparisons THEN Truth(ExactComparison(op, v[1], v[2]))
  ELSE ExactArithmetic(op, v)

\* The value of a term at a point, which gives each variable's name a value.
\* Only the branch that is taken counts.
RECURSIVE Exact(_, _)
Exact(t, point) ==
  CASE Is(t, "var")  -> point[t[2]]
    [] Is(t, "real") -> t[2]
    [] Is(t, "bool") -> Truth(t[2])
    [] Is(t, "if")   -> LET c == Exact(t[2], point) IN
                        IF c = Error THEN Error
                        ELSE Exact(IF c = Yes THEN t[3] ELSE t[4], point)
    [] OTHER -> OnValues(t[1], [i \in DOMAIN Args(t) |-> Exact(Args(t)[i], point)])

IsTrue(t, point) == Exact(t, point) = Yes
AllTrue(terms, point) == \A i \in DOMAIN terms : IsTrue(terms[i], point)

IsReal(t) == ~IsBoolean(t)

\* substitute_spec_node: every occurrence of a term, from the root downwards.
RECURSIVE SubstituteTerm(_, _, _)
SubstituteTerm(t, source, replacement) ==
  IF t = source THEN replacement
  ELSE IF Args(t) = <<>> THEN t
  ELSE Rebuild(t, [i \in DOMAIN Args(t) |-> SubstituteTerm(Args(t)[i], source, replacement)])

\* _condition_conjuncts
RECURSIVE ConditionConjuncts(_)
ConditionConjuncts(t) == IF Is(t, "and") THEN ConditionConjuncts(t[2]) \cup ConditionConjuncts(t[3]) ELSE {t}

\* _spec_subexpressions, parents first, each once.
RECURSIVE Visit(_, _), VisitAll(_, _)
Visit(t, seen) ==
  IF \E i \in DOMAIN seen : seen[i] = t THEN seen ELSE VisitAll(Args(t), Append(seen, t))
VisitAll(ts, seen) ==
  IF ts = <<>> THEN seen ELSE VisitAll(Tail(ts), Visit(Head(ts), seen))
Subexpressions(t) == Visit(t, <<>>)

-----------------------------------------------------------------------------
(* The folding of literals, and the normal form of conditions (normalize_ctx *)
(* and _normalize_comparison of zolotone/spec/spec_context.py).              *)

\* _constant_fold: an operation on literals is carried out, a connective or a
\* conditional with one literal is reduced.
LiteralOf(t, v) == IF IsBoolean(t) THEN Bool(v = Yes) ELSE Real(v)

FoldedRoot(t) ==
  IF (\A i \in DOMAIN Args(t) : IsLiteral(Args(t)[i])) /\ Exact(t, << >>) # Error
  THEN LiteralOf(t, Exact(t, << >>))
  ELSE CASE t[1] \in {"and", "or", "beq", "bne"} -> BooleanShortcut(t)
         [] Is(t, "not") /\ Is(t[2], "not") -> t[2][2]
         [] Is(t, "if") /\ Is(t[2], "bool") -> IF t[2][2] THEN t[3] ELSE t[4]
         [] OTHER -> t

RECURSIVE Folded(_)
Folded(t) ==
  IF Args(t) = <<>> THEN t
  ELSE FoldedRoot(Rebuild(t, [i \in DOMAIN Args(t) |-> Folded(Args(t)[i])]))

Reversed ==
  [lt |-> "gt", le |-> "ge", gt |-> "lt", ge |-> "le", eq |-> "eq", ne |-> "ne"]

Complement ==
  [and |-> "or", or |-> "and", eq |-> "ne", ne |-> "eq", lt |-> "ge", le |-> "gt",
   gt |-> "le", ge |-> "lt", beq |-> "bne", bne |-> "beq"]

-----------------------------------------------------------------------------
\* The additive terms of an expression, each with its sign.
RECURSIVE Summands(_, _)
Summands(t, sign) ==
  CASE Is(t, "add") -> Summands(t[2], sign) \o Summands(t[3], sign)
    [] Is(t, "sub") -> Summands(t[2], sign) \o Summands(t[3], -sign)
    [] Is(t, "neg") -> Summands(t[2], -sign)
    [] OTHER -> << <<t, sign>> >>

Negated(summands) == [i \in DOMAIN summands |-> <<summands[i][1], -summands[i][2]>>]

SumTerms(summands) ==
  IF summands = <<>> THEN Lit(0)
  ELSE FoldLeft(LAMBDA sum, s : <<IF s[2] = 1 THEN "add" ELSE "sub", sum, s[1]>>,
                IF summands[1][2] = 1 THEN summands[1][1] ELSE <<"neg", summands[1][1]>>,
                Tail(summands))

\* Variable terms to the left, with the first of them positive; the rest to the right.
Sided(t, variable, constant) ==
  IF variable = <<>> THEN t
  ELSE IF variable[1][2] = -1
  THEN <<Reversed[t[1]], SumTerms(Negated(variable)), Folded(SumTerms(Negated(constant)))>>
  ELSE <<t[1], SumTerms(variable), Folded(SumTerms(constant))>>

NormalizeComparison(t) ==
  LET summands == Summands(t[2], 1) \o Summands(t[3], -1)
      varies(s) == Variables(s[1]) # {}
      fixed(s)  == Variables(s[1]) = {}
  IN Sided(t, SelectSeq(summands, varies), Negated(SelectSeq(summands, fixed)))

NormalizedRoot(t) == IF t[1] \in Comparisons THEN NormalizeComparison(t) ELSE t

\* Negations move inwards: only a variable keeps one.
RECURSIVE Normalize(_, _)
Normalize(t, negated) ==
  CASE Is(t, "not")  -> IF ~negated /\ Is(t[2], "var") THEN t ELSE Normalize(t[2], ~negated)
    [] Is(t, "bool") -> IF negated THEN Bool(~t[2]) ELSE t
    [] Is(t, "var")  -> IF negated THEN <<"not", t>> ELSE t
    [] Is(t, "real") -> t
    [] OTHER -> NormalizedRoot(
         <<IF negated THEN Complement[t[1]] ELSE t[1]>> \o
         [i \in DOMAIN Args(t) |-> Normalize(Args(t)[i], negated /\ t[1] \in {"and", "or"})])

Normalized(terms) == [i \in DOMAIN terms |-> Normalize(terms[i], FALSE)]
=============================================================================
