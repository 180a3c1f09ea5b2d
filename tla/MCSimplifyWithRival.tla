------------------------- MODULE MCSimplifyWithRival -------------------------
(***************************************************************************)
(* Contexts of assumptions that occur in one another, justify one another,  *)
(* bound variables, bound them more loosely than others, or split into      *)
(* boxes, and checks that are decided by signs and bounds.                  *)
(***************************************************************************)
EXTENDS EgglogRewrite, RivalRects

Egg == INSTANCE EGraph

GraphOf(ctx) == Egg!Registered(ctx)
NextGraph(graph) == Egg!Iteration(graph)
Found(check, graph) == Egg!InGraph(check, graph)
Smaller(check, graph) == Egg!Simplified(check, graph)
OneWorth(s, t, m) == Egg!SameWorth(s, t, m)

x == RealVar("x")
y == RealVar("y")
p == BoolVar("p")
q == BoolVar("q")

Vars == {x, y, p, q}

Sum == <<"add", y, Real(1)>>
Larger == <<"max", x, y>>
Chosen == <<"if", <<"gt", x, Real(0)>>, Sum, Real(0)>>

Assumptions == {
    <<"not", p>>, <<"beq", q, <<"and", p, <<"eq", x, Real(1)>> >> >>,
    <<"or", q, <<"and", p, <<"eq", y, Real(0)>> >> >>,
    <<"and", q, <<"or", <<"not", q>>, <<"not", p>> >> >>,
    <<"eq", x, Real(1)>>, <<"eq", x, Sum>>, <<"eq", x, Chosen>>,
    <<"beq", p, <<"eq", x, Sum>> >>, <<"eq", Larger, Sum>>,
    <<"not", <<"and", p, <<"lt", <<"sub", x, Real(1)>>, Real(0)>> >> >>,
    <<"or", <<"eq", y, Real(0)>>, <<"eq", y, Real(2)>> >>,
    <<"lt", Real(0), x>>, <<"ge", x, Real(2)>>, <<"and", <<"le", y, Real(0)>>, <<"or", p, q>> >>}

Checks == <<
    <<"le", <<"abs", <<"mul", <<"if", p, Real(1), Real(-1)>>, y>> >>, Larger>>,
    <<"or", <<"ne", x, Real(1)>>, <<"and", p, <<"eq", Sum, Real(1)>> >> >> >>

\* All contexts of two assumptions, and of three different ones those that
\* begin with a negation, an equivalence or a conjunction.
Questions ==
    {[assumes |-> assumes, checks |-> Checks] :
        assumes \in UNION {[1 .. n -> Assumptions] : n \in 0 .. 2}
                  \cup {f \in [1 .. 3 -> Assumptions] : IsInjective(f) /\ f[1][1] \in {"not", "beq", "and"}}}

\* Contexts for the e-graph: gates of bits, of which one context says too
\* little; signs known from bounds and from powers; selections, equations
\* that are themselves assumed; what only a cheaper form is found for.
Bit(t) == <<"or", <<"eq", t, Real(0)>>, <<"eq", t, Real(1)>> >>
Equals(t, n) == <<"eq", t, Real(n)>>
Gate(t) == <<"if", t, Real(1), Real(0)>>
Conjunction == Gate(<<"and", Equals(x, 1), Equals(y, 1)>>)
Disjunction == Gate(<<"or", Equals(x, 1), Equals(y, 1)>>)
Difference == Gate(<<"ne", x, y>>)
Sign(t) == <<"if", Equals(t, 1), Real(-1), Real(1)>>
Exp2(t) == <<"pow", Real(2), t>>

Asked(assumes, checks) == [assumes |-> assumes, checks |-> checks]

ToRewrite == {
    Asked(<<Bit(x), Bit(y)>>, <<
        <<"eq", Conjunction, <<"mul", y, x>> >>,
        <<"eq", Sign(Difference), <<"mul", Sign(x), Sign(y)>> >> >>),
    Asked(<<Bit(x)>>, <<
        <<"eq", Conjunction, <<"mul", x, y>> >>,
        <<"eq", <<"if", Equals(x, 1), Real(0), Real(1)>>, <<"sub", Real(1), x>> >> >>),
    Asked(<<p, <<"beq", p, <<"eq", x, Sum>> >> >>, <<
        <<"eq", <<"if", q, x, Sum>>, x>>,
        <<"ge", <<"mul", <<"sub", x, y>>, Real(1)>>, <<"abs", y>> >> >>),
    Asked(<<<<"ge", x, y>>, <<"gt", y, Real(0)>> >>, <<
        <<"eq", <<"abs", <<"neg", x>> >>, x>>,
        <<"beq", <<"not", <<"and", p, <<"not", q>> >> >>, <<"or", <<"not", p>>, q>> >> >>),
    Asked(<<<<"gt", x, y>>, <<"ge", y, Real(1)>>, <<"le", <<"sub", y, Real(3)>>, Real(0)>> >>, <<
        <<"eq", <<"abs", <<"mul", x, <<"sub", y, Real(3)>> >> >>,
                <<"mul", <<"neg", <<"sub", y, Real(3)>> >>, x>> >> >>),
    Asked(<<Bit(x), Bit(y)>>, <<
        <<"eq", Disjunction, <<"sub", <<"add", x, y>>, <<"mul", x, y>> >> >>,
        <<"ge", <<"if", Equals(x, 1), Real(0), Real(1)>>, Disjunction>> >>)}

Powers == {
    Asked(<<>>, <<
        <<"eq", Exp2(<<"add", x, y>>), <<"abs", <<"mul", Exp2(y), Exp2(x)>> >> >> >>),
    Asked(<<<<"ge", y, Exp2(x)>> >>, <<
        <<"eq", <<"pow", <<"abs", y>>, Real(2)>>, <<"mul", y, y>> >> >>)}

\* check_rules: that both sides of each rewrite are equal, for operands of
\* either sign, or for natural numbers where they are exponents.
Signed == [v \in {Egg!A, Egg!B, Egg!C, Egg!P, Egg!Q, Egg!R} |->
    CASE v = Egg!A -> <<"sub", x, Real(2)>> [] v = Egg!B -> y [] v = Egg!C -> Real(-1)
      [] v = Egg!P -> p [] v = Egg!Q -> q [] v = Egg!R -> <<"lt", x, y>>]
Unsigned == [Signed EXCEPT ![Egg!A] = x]

RuleContext(rule, env) ==
    Asked(<<>>, <<<<IF IsBoolean(rule[1]) THEN "beq" ELSE "eq",
                    Egg!Name(rule[1], env), Egg!Name(rule[2], env)>> >>)

Natural == {rule \in Egg!Powers : <<"neg", Egg!A>> \notin Subterms(rule[1])}

RulesToCheck ==
    {RuleContext(rule, Signed) : rule \in Egg!Rewrites \ Egg!Powers}
      \cup {RuleContext(rule, Unsigned) : rule \in Natural \cup Egg!SignsOfPowers}

JustRewritten == Powers \cup RulesToCheck

AllQuestions == Questions \cup ToRewrite \cup JustRewritten

Tools ==
    [ctx \in AllQuestions |->
        IF ctx \in ToRewrite THEN <<"egglog-rewrite", "simplify">>
        ELSE IF ctx \in JustRewritten THEN <<"egglog-rewrite">> ELSE <<"simplify">>]

Assignments == [x : 0 .. 3, y : 0 .. 3, p : BOOLEAN, q : BOOLEAN]
=============================================================================
