--------------------------- MODULE LoweringSearch ---------------------------
(***************************************************************************)
(* The search for an implementation of a specification expression          *)
(* (_LoweringSearch of zolotone/autogen/spec_lowering.py and the tables of *)
(* zolotone/autogen/missing.py): one table of candidates, improved by the  *)
(* components and by generated lookup tables until nothing changes.        *)
(*                                                                         *)
(* A job is one search: the expression, the nodes that are given for       *)
(* inputs, the annotation of the result, the assumptions, the points (all  *)
(* assignments to the inputs, as the values of the variables), and the     *)
(* expressions Rival is vague about.  Elsewhere Rival's answers are exact: *)
(* module TypedDomain is about them.  A candidate is a node that computes  *)
(* an expression: its type, its payload at every point, the types of its   *)
(* arguments, its cost, and the operations in it with their costs, each    *)
(* counted once.  A node is known by the way it was made.                  *)
(***************************************************************************)
EXTENDS RealTerms, Components

CONSTANT MaxProbes          \* MAX_SPEC_PROBES
ASSUME ProbesAssumption == MaxProbes \in Nat

VARIABLES job, search, phase

searchVars == <<job, search, phase>>

\* The same sequence, as a tuple: TLC evaluates its elements once.
Tuple(seq) == <<>> \o seq

LUT_BASE_COST == 100
LutCost(type) == LUT_BASE_COST + 2^width(type)

-----------------------------------------------------------------------------
(* What Rival and the analysis of the typed domain answer.                 *)

Reachable(points, assumes) == {i \in DOMAIN points : AllTrue(assumes, points[i])}

\* A job with the values its expressions take where the assumptions hold.
JobAt(root, inputs, annotation, assumes, points, vague, reachable) ==
  [root |-> root, inputs |-> inputs, annotation |-> annotation, assumes |-> assumes,
   points |-> points, vague |-> vague, reachable |-> reachable,
   values |-> [e \in Subterms(root) |-> {Exact(e, points[i]) : i \in reachable}]]

Job(root, inputs, annotation, assumes, points, vague) ==
  JobAt(root, inputs, annotation, assumes, points, vague, Reachable(points, assumes))

ValuesOf(j, e) == j.values[e]

Within(v, type) ==
  v # Error /\ LET a == Scaled(v, type.frac) IN
               ~Below(a, Whole(MinCode(type))) /\ ~Below(Whole(MaxCode(type)), a)

\* rival_prove_result_fits, for a type or a family.
AllWithin(values, annotation) ==
  IF IsFamily(annotation)
  THEN \A v \in values : v # Error /\ (annotation.kind = "UQ" => v[1] >= 0)
  ELSE \A v \in values : Within(v, annotation)

\* Bug: what Rival cannot decide counts as proved.
FitsUnlessRefuted(j, e, annotation) == e \in j.vague \/ AllWithin(ValuesOf(j, e), annotation)

ProveResultFits(j, e, annotation) == e \notin j.vague /\ AllWithin(ValuesOf(j, e), annotation)

Least(values)    == CHOOSE v \in values : \A w \in values : ~Below(w, v)
Greatest(values) == CHOOSE v \in values : \A w \in values : ~Below(v, w)

\* _output_format_suggestion_with_range_analysis
ConservativeFormat(lower, upper, frac) ==
  IF lower[1] >= 0
  THEN UQ(Larger(Larger(1, frac), BitLength(Ceiling(Scaled(upper, frac)))) - frac, frac)
  ELSE LET magnitude == Larger(Larger(1, -Floor(Scaled(lower, frac))),
                               Ceiling(Scaled(upper, frac)) + 1)
       IN  Q(Larger(Larger(1, frac), BitLength(magnitude - 1) + 1) - frac, frac)

\* _output_format_suggestion_with_search: the fewest integer bits, by bisection.
RECURSIVE Bisected(_, _, _, _, _)
Bisected(values, kind, frac, low, high) ==
  LET middle == (low + high) \div 2
      type   == [kind |-> kind, int |-> middle, frac |-> frac]
  IN IF low >= high THEN low
     ELSE IF AllWithin(values, type) THEN Bisected(values, kind, frac, low, middle)
     ELSE Bisected(values, kind, frac, middle + 1, high)

\* The suggestion, in a sequence that is empty when there is none.
SuggestedFormat(j, e, frac) ==
  LET values == ValuesOf(j, e)
      wide   == ConservativeFormat(Least(values), Greatest(values), frac)
      kind   == IF AllWithin(values, Family("UQ")) THEN "UQ" ELSE "Q"
  IN IF e \in j.vague \/ values = {} \/ Error \in values THEN <<>>
     ELSE IF ~AllWithin(values, [wide EXCEPT !.kind = kind]) THEN <<>>
     ELSE << [kind |-> kind, frac |-> frac,
              int |-> Bisected(values, kind, frac, Larger(0, 1 - frac), wide.int)] >>

-----------------------------------------------------------------------------
(* The candidates.                                                         *)

Sum(steps) == FoldSet(LAMBDA s, n : s.cost + n, 0, steps)

SharedSteps(arguments) == UNION {arguments[k].steps : k \in DOMAIN arguments}

Candidate(spec, type, out, made) ==
  [spec |-> spec, type |-> type, out |-> out, made |-> made, args |-> <<>>, cost |-> 0, steps |-> {}]

\* _Candidate.from_operation
FromOperation(spec, type, out, made, arguments, cost) ==
  LET steps == SharedSteps(arguments) \cup {[node |-> made, cost |-> cost]}
  IN [spec |-> spec, type |-> type, out |-> out, made |-> made,
      args |-> Tuple([k \in DOMAIN arguments |-> arguments[k].type]), cost |-> Sum(steps), steps |-> steps]

Made(op, arguments) == <<op>> \o [k \in DOMAIN arguments |-> arguments[k].made]

\* _exact_fixed_point_value: the narrowest type of a dyadic number.
FractionBits(v) == CHOOSE f \in 0 .. 6 : (v[1] * 2^f) % v[2] = 0 /\
                                         \A g \in 0 .. f - 1 : (v[1] * 2^g) % v[2] # 0
IsDyadic(v) == \E f \in 0 .. 6 : (v[1] * 2^f) % v[2] = 0

LiteralType(frac, n) ==
  LET bits == IF n >= 0 THEN Larger(1, BitLength(n))
              ELSE Larger(IF frac = 0 THEN 2 ELSE 1, BitLength(-n - 1) + 1)
  IN [kind |-> IF n >= 0 THEN "UQ" ELSE "Q", int |-> Larger(frac, bits) - frac, frac |-> frac]

Constant(j, e, type, payload) == Candidate(e, type, Tuple([i \in DOMAIN j.points |-> payload]), <<"const", e>>)

LiteralCandidate(j, e) ==
  IF Is(e, "bool") THEN Constant(j, e, BoolType, IF e[2] THEN 1 ELSE 0)
  ELSE LET frac == FractionBits(e[2])
           n    == (e[2][1] * 2^frac) \div e[2][2]
           type == LiteralType(frac, n)
       IN  Constant(j, e, type, FromCode(type, n))

\* _initial_candidates
Sources(j) ==
  LET literals == SelectSeq(Subexpressions(j.root), IsLiteral)
      given(c) == \E k \in DOMAIN j.inputs : j.inputs[k].spec = c.spec /\ j.inputs[k].type = c.type
  IN j.inputs \o SelectSeq([k \in DOMAIN literals |-> LiteralCandidate(j, literals[k])],
                          LAMBDA c : ~given(c))

CanStart(j) ==
  \A e \in Subterms(j.root) :
    /\ Is(e, "var")  => \E k \in DOMAIN j.inputs : j.inputs[k].spec = e
    /\ Is(e, "real") => IsDyadic(e[2])

\* q_sign_extend and uq_zero_extend by one bit.
Extended(c) ==
  LET type == [c.type EXCEPT !.int = @ + 1]
  IN FromOperation(c.spec, type, Tuple([i \in DOMAIN c.out |-> FromCode(type, Code(c.type, c.out[i]))]),
                   Made("extend", <<c>>), <<c>>, 1)

\* q_resize and uq_resize.
Resized(c, target) ==
  LET more == target.frac - c.type.frac
  IN FromOperation(c.spec, target,
                   Tuple([i \in DOMAIN c.out |-> FromCode(target, Code(c.type, c.out[i]) * 2^more)]),
                   Made("resize", <<c>>), <<c>>, 1)

-----------------------------------------------------------------------------
(* The table and the result.  Both are part of the record of the search.   *)

Formats(s, e)  == SelectSeq(s.table, LAMBDA c : c.spec = e)
Resolved(s)    == FoldLeft(LAMBDA es, c : IF Contains(es, c.spec) THEN es ELSE Append(es, c.spec),
                           <<>>, s.table)

\* result_rank: a family is served by the narrowest result, then the cheapest.
Better(j, c, d) ==
  IF IsFamily(j.annotation)
  THEN \/ width(c.type) < width(d.type)
       \/ width(c.type) = width(d.type) /\ c.cost < d.cost
  ELSE c.cost < d.cost

WorthTrying(j, s, cost, operation_cost) ==
  \/ operation_cost = 0
  \/ IsFamily(j.annotation)
  \/ s.result = <<>>
  \/ cost < s.result[1].cost

Offer(j, s, c) ==
  IF s.result = <<>> \/ (s.result # <<>> /\ Better(j, c, s.result[1]))
  THEN [s EXCEPT !.result = <<c>>] ELSE s

\* consider_result
CanResize(c, target) ==
  /\ IsFixed(c.type) /\ target.kind = c.type.kind
  /\ target.int >= c.type.int /\ target.frac >= c.type.frac

ConsiderResult(j, s, c) ==
  IF c.spec # j.root THEN s
  ELSE IF AnnotationMatches(c.type, j.annotation) THEN Offer(j, s, c)
  ELSE IF CanResize(c, j.annotation) /\ WorthTrying(j, s, c.cost + 1, 1)
  THEN Offer(j, s, Resized(c, j.annotation)) ELSE s

\* add: the table keeps the cheaper of two candidates of one type.
\* Bug: a candidate that costs the same takes the other's place.
PlaceAgain(s, c) ==
  LET at == SelectInSeq(s.table, LAMBDA d : d.spec = c.spec /\ d.type = c.type)
  IN IF at = 0 THEN [s EXCEPT !.table = Append(@, c), !.changed = TRUE]
     ELSE IF s.table[at].cost < c.cost THEN s
     ELSE [s EXCEPT !.table[at] = c, !.changed = TRUE]

Place(s, c) ==
  LET at == SelectInSeq(s.table, LAMBDA d : d.spec = c.spec /\ d.type = c.type)
  IN IF at = 0 THEN [s EXCEPT !.table = Append(@, c), !.changed = TRUE]
     ELSE IF s.table[at].cost <= c.cost THEN s
     ELSE [s EXCEPT !.table[at] = c, !.changed = TRUE]

Add(j, s, c) ==
  LET placed == Place(s, c) IN
  IF placed.table = s.table THEN s ELSE ConsiderResult(j, placed, c)

Seeded(j, s, c) ==
  IF IsFixed(c.type) THEN Add(j, Add(j, s, c), Extended(c)) ELSE Add(j, s, c)

EmptySearch ==
  [table |-> <<>>, result |-> <<>>, changed |-> FALSE, attempts |-> <<>>, luts |-> <<>>,
   known |-> [k \in DOMAIN LosslessComponents |-> 0], probes |-> 0, exhausted |-> FALSE]

InitialSearch(j) == FoldLeft(LAMBDA s, c : Seeded(j, s, c), EmptySearch, Sources(j))

-----------------------------------------------------------------------------
(* Candidates made of components.                                          *)

\* What a component specifies about its arguments; a specification that raises
\* on them specifies nothing.
OfBits(op, a, b) == <<"if", <<op, <<"eq", a, Lit(1)>>, <<"eq", b, Lit(1)>> >>, Lit(1), Lit(0)>>

ComparisonOf(name) ==
  CASE name \in {"uq_lt", "q_lt"} -> "lt"
    [] name \in {"uq_le", "q_le"} -> "le"
    [] name \in {"uq_gt", "q_gt"} -> "gt"
    [] name \in {"uq_ge", "q_ge"} -> "ge"
    [] name \in {"uq_eq", "q_eq"} -> "eq"
    [] name = "q_ne" -> "ne"

OperationOf(name) ==
  CASE name = "bool_and" -> "and"
    [] name = "bool_or"  -> "or"
    [] name = "bool_eq"  -> "beq"
    [] name = "bool_ne"  -> "bne"
    [] name = "negate"   -> "not"
    [] name \in {"uq_add", "q_add"} -> "add"
    [] name \in {"uq_sub", "q_sub"} -> "sub"
    [] name \in {"uq_mul", "q_mul"} -> "mul"
    [] name = "uq_max" -> "max"
    [] name = "uq_min" -> "min"
    [] name = "q_neg"  -> "neg"
    [] name = "q_abs"  -> "abs"
    [] name = "_if_then_else" -> "if"
    [] OTHER -> ComparisonOf(name)

Identities == {"uq_truncate_msb", "q_truncate_msb", "uq_to_q", "q_to_uq"}

Specification(name, a) ==
  CASE name \in Identities  -> a[1]
    [] name = "bool_to_uq"  -> <<"if", a[1], Lit(1), Lit(0)>>
    [] name = "uq_to_bool"  -> <<"eq", a[1], Lit(1)>>
    [] name = "uq_is_zero"  -> <<"if", <<"eq", a[1], Lit(0)>>, Lit(1), Lit(0)>>
    [] name = "bit_and"     -> OfBits("and", a[1], a[2])
    [] name = "bit_or"      -> OfBits("or", a[1], a[2])
    [] name = "bit_xor"     -> <<"if", <<"ne", a[1], a[2]>>, Lit(1), Lit(0)>>
    [] name = "bit_neg"     -> <<"if", <<"eq", a[1], Lit(1)>>, Lit(0), Lit(1)>>
    [] OTHER -> <<OperationOf(name)>> \o a

\* match_component: the subexpression that is exactly what is specified.
Matches(expressions, name, specs) ==
  /\ name = "_if_then_else" => IsReal(specs[2]) /\ IsReal(specs[3])
  /\ Specification(name, specs) \in expressions

InCategory(e, annotation) ==
  \/ annotation = AnyType
  \/ IsBoolean(e) = (annotation.kind = "Bool")

\* itertools.product
Product(pools) ==
  FoldLeft(LAMBDA tuples, pool :
             FlattenSeq([t \in DOMAIN tuples |-> [k \in DOMAIN pool |-> Append(tuples[t], pool[k])]]),
           << <<>> >>, pools)

\* The removal of a leading bit is free.
OperationCost(name) == IF name \in {"uq_truncate_msb", "q_truncate_msb"} THEN 0 ELSE 1

\* allows_format: operands are not widened for their own sake.
AllowsFormat(type, matched, arguments) ==
  IsFixed(type) => \A k \in DOMAIN arguments :
    \/ arguments[k].spec # matched
    \/ arguments[k].type.kind # type.kind
    \/ width(type) <= width(arguments[k].type)

Fits(j, c) == IsReal(c.spec) => ProveResultFits(j, c.spec, c.type)

Types(arguments) == [k \in DOMAIN arguments |-> arguments[k].type]

Applied(j, name, matched, arguments) ==
  FromOperation(matched, ResultType(name, Types(arguments)),
                Tuple([i \in DOMAIN j.points |->
                   Apply(name, Types(arguments), [k \in DOMAIN arguments |-> arguments[k].out[i]])]),
                Made(name, arguments), arguments, OperationCost(name))

Attempt(name, arguments) ==
  <<name, [k \in DOMAIN arguments |-> <<arguments[k].spec, arguments[k].type>>]>>

\* Bug: arguments are tried once, and not again when they have become cheaper.
AttemptedAtAnyCost(attempts, key, cost) == key \in DOMAIN attempts

Attempted(attempts, key, cost) == key \in DOMAIN attempts /\ attempts[key] <= cost

\* A candidate enters the table when its format is allowed and holds its values.
Enter(j, s, c, arguments) ==
  IF AllowsFormat(c.type, c.spec, arguments) /\ Fits(j, c) THEN Add(j, s, c) ELSE s

TryArguments(j, s, name, matched, arguments) ==
  LET cost == OperationCost(name) + Sum(SharedSteps(arguments))
      key  == Attempt(name, arguments)
      tried == [s EXCEPT !.attempts = (key :> cost) @@ @]
  IN IF ~WorthTrying(j, s, cost, OperationCost(name)) \/ Attempted(s.attempts, key, cost) THEN s
     ELSE IF ~Accepts(name, Types(arguments)) THEN tried
     ELSE Enter(j, tried, Applied(j, name, matched, arguments), arguments)

RECURSIVE TryEach(_, _, _, _, _)
TryEach(j, s, name, matched, choices) ==
  IF choices = <<>> \/ s.exhausted THEN s
  ELSE TryEach(j, TryArguments(j, s, name, matched, Head(choices)), name, matched, Tail(choices))

\* All arguments of the right types for each tuple of expressions that matches.
RECURSIVE TryMatches(_, _, _, _)
TryMatches(j, s, component, tuples) ==
  IF tuples = <<>> \/ s.exhausted THEN s
  ELSE TryMatches(j, TryEach(j, s, component.name, Specification(component.name, Head(tuples)),
                             Product([k \in DOMAIN component.inputs |->
                               SelectSeq(Formats(s, Head(tuples)[k]),
                                 LAMBDA c : AnnotationMatches(c.type, component.inputs[k]))])),
                  component, Tail(tuples))

\* Matches and misses are cached: a tuple is a new probe when it has an expression
\* that the component has not seen.  The search stops before the first probe
\* that exceeds the limit.
Affordable(tuples, new, left) ==
  {n \in DOMAIN tuples : Cardinality({m \in new : m <= n}) <= left}

Explore(j, s, component, tuples, new, allowed) ==
  [TryMatches(j, [s EXCEPT !.probes = @ + Cardinality(new \cap allowed)], component,
              SelectSeq(SubSeq(tuples, 1, Cardinality(allowed)),
                        LAMBDA specs : Matches(DOMAIN j.values, component.name, specs)))
   EXCEPT !.exhausted = allowed # DOMAIN tuples]

New(tuples, old) == {n \in DOMAIN tuples : ~(Range(tuples[n]) \subseteq old)}

TryTuples(j, s, component, tuples, new) ==
  Explore(j, s, component, tuples, new,
          IF s.probes + Cardinality(new) <= MaxProbes THEN DOMAIN tuples
          ELSE Affordable(tuples, new, MaxProbes - s.probes))

\* One component on the expressions that were resolved when the round began.
Tuples(component, expressions) ==
  Product([k \in DOMAIN component.inputs |->
             SelectSeq(expressions, LAMBDA e : InCategory(e, component.inputs[k]))])

TryComponent(j, s, index, expressions) ==
  LET component == LosslessComponents[index]
      tuples    == Tuples(component, expressions)
  IN TryTuples(j, [s EXCEPT !.known[index] = Len(expressions)], component, tuples,
               New(tuples, {expressions[k] : k \in 1 .. s.known[index]}))

RECURSIVE TryComponentsFrom(_, _, _, _)
TryComponentsFrom(j, s, index, expressions) ==
  IF index > Len(LosslessComponents) \/ s.exhausted THEN s
  ELSE TryComponentsFrom(j, TryComponent(j, s, index, expressions), index + 1, expressions)

ComponentRound(j, s) == TryComponentsFrom(j, s, 1, Resolved(s))

-----------------------------------------------------------------------------
(* Candidates that are generated lookup tables (missing.py).               *)

\* _lut_frac_bits: the grid of a rounding, or of a conditional whose branches
\* share one, as a set of at most one precision.
RECURSIVE Grid(_)
Grid(e) ==
  IF IsRound(e) THEN {Rounding[e[1]].frac}
  ELSE IF Is(e, "if") /\ IsReal(e) THEN Grid(e[3]) \cap Grid(e[4]) ELSE {}

\* The boundaries across which all that an expression depends on passes.
RECURSIVE Depends(_), Cuts(_)
Depends(e) == Is(e, "var") \/ \E k \in DOMAIN Args(e) : Depends(Args(e)[k])
Cuts(e) ==
  LET dependent == SelectSeq(Args(e), Depends)
      common == {c \in UNION {Cuts(dependent[k]) : k \in DOMAIN dependent} :
                   \A k \in DOMAIN dependent : c \in Cuts(dependent[k])}
  IN common \cup (IF IsReal(e) THEN {e} ELSE {})

\* lut_inputs: the largest region first.
LutInputs(e) ==
  IF ~Depends(e) THEN <<>>
  ELSE SelectSeq(Reverse(Tail(Subexpressions(e))), LAMBDA c : Depends(c) /\ c \in Cuts(e))

Placeholder == RealVar("lut input")
AtCode(type, code) == [v \in {"lut input"} |-> <<code, 2^type.frac>>]

\* The assumptions that say something of the input alone.
Preconditions(j, input) ==
  {c \in {SubstituteTerm(a, input, Placeholder) :
            a \in UNION {ConditionConjuncts(j.assumes[k]) : k \in DOMAIN j.assumes}} :
     Variables(c) \subseteq {Placeholder}}

\* _expression_bounds, as codes of the input's type.
LowestCode(j, input, type)  ==
  IF input \in j.vague THEN MinCode(type)
  ELSE Larger(MinCode(type), Ceiling(Scaled(Least(ValuesOf(j, input)), type.frac)))
HighestCode(j, input, type) ==
  IF input \in j.vague THEN MaxCode(type)
  ELSE Smaller(MaxCode(type), Floor(Scaled(Greatest(ValuesOf(j, input)), type.frac)))

\* One code of the input: outside the preconditions, or the value there.
LutPoint(e, conditions, point) ==
  LET truths == {Exact(c, point) : c \in conditions} IN
  IF Whole(0) \in truths THEN [reached |-> FALSE, value |-> Whole(0)]
  ELSE IF Error \in truths THEN [reached |-> TRUE, value |-> Error]
  ELSE [reached |-> TRUE, value |-> Exact(e, point)]

LutPoints(j, e, input, type) ==
  LET conditions == Preconditions(j, input)
      missing    == SubstituteTerm(e, input, Placeholder)
  IN [code \in LowestCode(j, input, type) .. HighestCode(j, input, type) |->
        LutPoint(missing, conditions, AtCode(type, code))]

\* The widest input of a table: MAX_GENERATED_TABLE_ENTRIES == 1 << 24.
TABLE_BITS == 24

\* _build_missing_primitive raises for a table that is too large, where a reachable
\* code has an error or a value outside the output type, and when no code is
\* reachable.
CanBuild(type, points, output) ==
  /\ width(type) <= TABLE_BITS /\ width(output) <= 64
  /\ \E code \in DOMAIN points : points[code].reached
  /\ \A code \in DOMAIN points : points[code].reached => Within(points[code].value, output)

\* Codes beyond the bounds, and unreachable ones, hold zero.
LutEntry(points, output, code) ==
  IF code \notin DOMAIN points THEN 0
  ELSE FromCode(output, Floor(Scaled(points[code].value, output.frac)))

Tabulated(j, e, argument, output, points) ==
  FromOperation(e, output,
                Tuple([i \in DOMAIN j.points |->
                   LutEntry(points, output, Code(argument.type, argument.out[i]))]),
                <<"LUT", e, output, argument.made>>, <<argument>>, LutCost(argument.type))

\* The inputs of the tables for an expression, the cheapest first.
LutPool(s, e) ==
  SortSeq(SelectSeq(FlattenSeq([k \in DOMAIN LutInputs(e) |-> Formats(s, LutInputs(e)[k])]),
                    LAMBDA c : IsFixed(c.type)),
          LAMBDA c, d : c.cost + LutCost(c.type) < d.cost + LutCost(d.type))

Cheaper(s, e, type, cost) ==
  \E k \in DOMAIN s.table : s.table[k].spec = e /\ s.table[k].type = type /\ s.table[k].cost <= cost

BuildLut(j, s, e, argument, output, points) ==
  IF CanBuild(argument.type, points, output) THEN Add(j, s, Tabulated(j, e, argument, output, points)) ELSE s

TryLut(j, s, e, argument, output) ==
  LET cost  == argument.cost + LutCost(argument.type)
      key   == <<e, argument.spec, argument.type, output>>
      tried == [s EXCEPT !.luts = (key :> cost) @@ @]
  IN IF \/ ~WorthTrying(j, s, cost, 1) \/ Cheaper(s, e, output, cost)
        \/ Attempted(s.luts, key, cost)
     THEN s
     ELSE BuildLut(j, tried, e, argument, output,
                   LutPoints(j, e, argument.spec, argument.type))

LutsFor(j, s, e) ==
  LET output == SuggestedFormat(j, e, CHOOSE frac \in Grid(e) : TRUE) IN
  IF output = <<>> THEN s
  ELSE FoldLeft(LAMBDA r, argument : TryLut(j, r, e, argument, output[1]), s, LutPool(s, e))

LutRound(j, s) ==
  FoldLeft(LAMBDA r, e : LutsFor(j, r, e), s,
           SelectSeq(Subexpressions(j.root), LAMBDA e : Grid(e) # {}))

-----------------------------------------------------------------------------
(* The search as a process: rounds of components and of tables.            *)

\* Nothing is being searched for.
NoJob == Job(True, <<>>, BoolType, <<>>, <<>>, {})

\* __init__: undeclared variables and literals that are not dyadic raise.
Start(j) ==
  /\ job' = j
  /\ search' = IF CanStart(j) THEN InitialSearch(j) ELSE EmptySearch
  /\ phase' = IF CanStart(j) THEN "components" ELSE "failed"

\* At the limit of the probes the search ends with what it has.
AddComponentCandidates ==
  /\ phase = "components"
  /\ search' = ComponentRound(job, [search EXCEPT !.changed = FALSE])
  /\ phase' = IF ~search'.exhausted THEN "luts"
              ELSE IF search'.result = <<>> THEN "failed" ELSE "found"
  /\ UNCHANGED job

AddLutCandidates ==
  /\ phase = "luts"
  /\ search' = LutRound(job, search)
  /\ phase' = IF search'.changed THEN "components"
              ELSE IF search'.result = <<>> THEN "failed" ELSE "found"
  /\ UNCHANGED job

SearchNext == AddComponentCandidates \/ AddLutCandidates

-----------------------------------------------------------------------------
(* Properties.                                                             *)

\* The number a node stands for.
NodeValue(type, payload) == <<Code(type, payload), 2^type.frac>>

Computes(c, j) ==
  \A i \in j.reachable :
    /\ Exact(c.spec, j.points[i]) # Error
    /\ Same(NodeValue(c.type, c.out[i]), Exact(c.spec, j.points[i]))

\* Every candidate of the table, and the result, computes its expression exactly
\* wherever the assumptions hold, however it was composed: no component loses a
\* bit, no table misses a reachable code (_candidate_output_range_fits and
\* _build_missing_primitive are what this rests on).
CandidatesExact ==
  /\ \A k \in DOMAIN search.table : Computes(search.table[k], job)
  /\ \A k \in DOMAIN search.result : Computes(search.result[k], job)

\* The arguments a component may still be applied to.
Applications(component) ==
  {arguments \in [DOMAIN component.inputs -> Range(search.table)] :
     /\ \A k \in DOMAIN arguments : AnnotationMatches(arguments[k].type, component.inputs[k])
     /\ Matches(DOMAIN job.values, component.name, [k \in DOMAIN arguments |-> arguments[k].spec])
     /\ Accepts(component.name, Types(arguments))}

Improves(name, arguments) ==
  LET c == Applied(job, name, Specification(name, [k \in DOMAIN arguments |-> arguments[k].spec]),
                   arguments)
  IN /\ WorthTrying(job, search, c.cost, OperationCost(name))
     /\ AllowsFormat(c.type, c.spec, arguments) /\ Fits(job, c)
     /\ ~Cheaper(search, c.spec, c.type, c.cost)

\* The search ends at a fixed point: no component, applied to what is in the table,
\* yields a candidate that is worth having and cheaper than the one that is there.
\* The attempts are cached by type and cost, so a stale entry would hide one.
Settled ==
  phase \in {"found", "failed"} /\ ~search.exhausted /\ search.table # <<>> =>
    \A index \in DOMAIN LosslessComponents :
      \A arguments \in Applications(LosslessComponents[index]) :
        ~Improves(LosslessComponents[index].name, arguments)

\* What a round may do to the table, and what it must do to call for another one.
Served(table, c) == \E k \in DOMAIN table : table[k].spec = c.spec /\ table[k].type = c.type
                                             /\ table[k].cost <= c.cost

Progress ==
  /\ \A k \in DOMAIN search.table : Served(search'.table, search.table[k])
  /\ phase = "luts" /\ phase' = "components" /\ ~search.changed =>
       \E k \in DOMAIN search'.table : ~Served(search.table, search'.table[k])
  /\ phase = "components" /\ search'.changed =>
       \E k \in DOMAIN search'.table : ~Served(search.table, search'.table[k])
=============================================================================
