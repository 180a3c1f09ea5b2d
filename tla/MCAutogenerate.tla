--------------------------- MODULE MCAutogenerate ---------------------------
(***************************************************************************)
(* Specifications over one or two inputs of one to three bits.             *)
(***************************************************************************)
EXTENDS Autogenerate

x == RealVar("x")
y == RealVar("y")

Given(ast, assumes, checks, inputs, annotation, vague) ==
  WithInputs([ast |-> ast, assumes |-> assumes, checks |-> checks, annotation |-> annotation,
              vague |-> vague, inputs |-> inputs, points |-> <<>>, nodes |-> <<>>],
             inputs, PayloadTuples(inputs))

Over(type) == <<Input("x", type)>>
Both(t, u) == <<Input("x", t), Input(IF IsFixed(u) THEN "y" ELSE "b", u)>>

Half == Dyadic(1, 1)
Quarter == Dyadic(1, 2)
Square == <<"mul", x, x>>
Faithful == Rounds("FR", 0, <<"mul", x, Half>>)
Reciprocal == Rounds("RNE", 1, <<"inv", x>>)
Magnitude == <<"if", <<"lt", x, Lit(0)>>, <<"neg", x>>, x>>
Selected == <<"if", BoolVar("b"), x, <<"add", x, Lit(1)>> >>
Pieces == <<"if", <<"ge", x, Lit(1)>>, Rounds("RTZ", 0, Square), Rounds("RAZ", 0, Square)>>
Twice == <<"sub", Rounds("FR", 0, x), Rounds("FR", 1, Square)>>
Difference == <<"sub", x, y>>

\* One specification for each way through the generator.
Lowered ==
  { Given(<<"add", x, y>>, <<>>, <<>>, Both(UQ(1, 0), Q(1, 1)), Family("Q"), {}),
    Given(Difference, << <<"gt", x, y>> >>, << <<"gt", Difference, Lit(0)>> >>,
          Both(UQ(1, 1), UQ(2, 0)), UQ(1, 1), {}),
    Given(Reciprocal, << <<"gt", x, Lit(0)>> >>, <<>>, Over(UQ(1, 1)), UQ(2, 1), {}),
    Given(Faithful, <<>>, <<>>, Over(Q(2, 1)), Q(3, 0), {}),
    Given(Faithful, << <<"le", Faithful, Lit(0)>> >>, <<>>, Over(Q(1, 1)), Family("Q"), {}),
    Given(Magnitude, << <<"ne", x, Quarter>> >>, <<>>, Over(Q(2, 1)), Family("UQ"), {}),
    Given(Magnitude, << <<"not", <<"lt", x, Lit(0)>> >> >>, <<>>, Over(Q(1, 1)), Q(2, 1), {}),
    Given(<<"lt", x, y>>, <<>>, <<>>, Both(UQ(1, 1), UQ(1, 0)), BoolType, {}),
    Given(Selected, <<>>, << <<"ge", Selected, x>> >>,
          Both(UQ(1, 1), BoolType), Family("UQ"), {}),
    Given(<<"RTZ", <<"add", x, Half>> >>, << <<"lt", <<"RTZ", <<"add", x, Half>> >>, Lit(2)>> >>,
          <<>>, Over(Q(2, 1)), Q(2, 0), {}),
    Given(Pieces, <<>>, <<>>, Over(UQ(1, 1)), Family("UQ"), {}),
    Given(<<"max", Square, x>>, <<>>, <<>>, Over(Q(1, 1)), Family("Q"), {Square}),
    Given(Rounds("RAZ", 1, <<"sub", Square, x>>), <<>>, <<>>, Over(Q(2, 1)), Family("Q"),
          {Square, <<"sub", Square, x>>}),
    Given(Rounds("RTZ", 0, <<"mul", Difference, Half>>), << <<"ge", x, y>> >>, <<>>,
          Both(Q(1, 1), Q(1, 1)), Family("UQ"), {}),
    Given(<<"and", <<"le", Square, <<"add", x, Half>> >>, BoolVar("b")>>,
          << <<"or", BoolVar("b"), <<"gt", Lit(1), x>> >> >>, <<>>, Both(Q(2, 1), BoolType), BoolType, {}),
    Given(<<"abs", <<"sub", x, Lit(1)>> >>, << <<"le", x, Lit(1)>> >>, <<>>, Over(UQ(1, 1)),
          Family("UQ"), {}) }

Refused ==
  { Given(<<"add", x, y>>, <<>>, <<>>, Over(UQ(1, 0)), Family("Q"), {}),
    Given(<<"RTZ", x>>, <<>>, <<>>, Over(UQ(1, 1)), Family("UQ"), {}),
    Given(Reciprocal, <<>>, <<>>, Over(UQ(1, 1)), UQ(2, 1), {}),
    Given(Reciprocal, << <<"gt", x, Lit(0)>> >>, <<>>, Over(UQ(1, 1)), UQ(2, 0), {}),
    Given(Square, << <<"lt", x, Lit(0)>> >>, <<>>, Over(UQ(1, 1)), UQ(2, 2), {}),
    Given(Square, <<>>, << <<"lt", Square, Lit(1)>> >>, Over(UQ(1, 1)), UQ(2, 2), {}),
    Given(<<"inv", x>>, << <<"eq", x, Lit(1)>> >>, <<>>, Over(UQ(1, 1)), UQ(1, 0), {}),
    Given(Twice, << <<"le", Twice, Lit(1)>> >>, <<>>, Over(UQ(1, 1)), Family("Q"), {}) }

\* Every binary operation, on operands that agree in neither sign nor grid.
Operations ==
  { Given(<<op, x, y>>, <<>>, <<>>, Both(t, u),
          IF op \in Comparisons THEN BoolType ELSE Family(IF op = "min" THEN "UQ" ELSE "Q"), {}) :
      op \in {"sub", "mul", "max", "min", "eq", "ge"},
      t \in {UQ(1, 1), Q(1, 1)}, u \in {UQ(2, 0), Q(1, 0)} }

SomeSpecifications == Operations \cup Lowered \cup Refused
=============================================================================
