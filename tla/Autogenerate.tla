---------------------------- MODULE Autogenerate ----------------------------
(***************************************************************************)
(* The generation of an implementation from a specification                *)
(* (zolotone/autogen/autogen.py, spec_validation.py): the faithful         *)
(* roundings are expanded, the specification is simplified, its conditions *)
(* are made precise for fixed point and validated, then the result and     *)
(* every condition are lowered by searches (LoweringSearch).               *)
(*                                                                         *)
(* A specification is its expression, its conditions, its inputs with      *)
(* their types, the annotation of its result and what Rival is vague       *)
(* about.  Its points are all assignments of payloads to the inputs.       *)
(* Requirements, which only Z3 sees, are left out.                         *)
(***************************************************************************)
EXTENDS LoweringSearch

CONSTANT Specifications     \* The specifications that are given.

VARIABLES source, spec, stage, todo, precise, generated, lowered

vars == <<source, spec, stage, todo, precise, generated, lowered, searchVars>>

-----------------------------------------------------------------------------
(* Points and nodes of the inputs.                                         *)

Input(name, type) == [name |-> name, type |-> type]
Variable(input) == IF IsFixed(input.type) THEN RealVar(input.name) ELSE BoolVar(input.name)

PayloadTuples(inputs) ==
  Product(Tuple([k \in DOMAIN inputs |-> Tuple([n \in 1 .. 2^width(inputs[k].type) |-> n - 1])]))

AtPayloads(inputs, payloads) ==
  FoldLeft(LAMBDA point, k : (inputs[k].name :> NodeValue(inputs[k].type, payloads[k])) @@ point,
           << >>, Tuple([k \in DOMAIN inputs |-> k]))

\* A specification with its inputs, the points and the nodes of the inputs.
WithInputs(s, inputs, tuples) ==
  [s EXCEPT !.inputs = inputs,
            !.points = Tuple([i \in DOMAIN tuples |-> AtPayloads(inputs, tuples[i])]),
            !.nodes  = Tuple([k \in DOMAIN inputs |->
              Candidate(Variable(inputs[k]), inputs[k].type,
                        Tuple([i \in DOMAIN tuples |-> tuples[i][k]]), <<"input", inputs[k].name>>)])]

-----------------------------------------------------------------------------
(* get_spec, the shape and the precision of roundings.                     *)

Everywhere(s, old, new) ==
  [s EXCEPT !.ast = SubstituteTerm(@, old, new),
            !.assumes = [i \in DOMAIN @ |-> SubstituteTerm(@[i], old, new)],
            !.checks  = [i \in DOMAIN @ |-> SubstituteTerm(@[i], old, new)]]

IsConcrete(annotation) == IsFixed(annotation) /\ ~IsFamily(annotation)

\* A rounding at the root takes its precision from the type of the output.
InferPrecision(s) ==
  IF Unresolved(s.ast) /\ IsConcrete(s.annotation)
  THEN Everywhere(s, s.ast, Rounds(s.ast[1], s.annotation.frac, s.ast[2])) ELSE s

Expressions(s) == {s.ast} \cup Range(s.assumes) \cup Range(s.checks)
AllSubterms(s) == UNION {Subterms(e) : e \in Expressions(s)}

Declared(s) ==
  {e \in AllSubterms(s) : Is(e, "var")} \subseteq {Variable(s.inputs[k]) : k \in DOMAIN s.inputs}

\* _fixed_point_result_fits
InRange(e, type) == <<"and", <<"ge", e, Dyadic(MinCode(type), type.frac)>>,
                             <<"le", e, Dyadic(MaxCode(type), type.frac)>> >>

InputRanges(inputs) ==
  LET fixed == SelectSeq(inputs, LAMBDA input : IsFixed(input.type))
  IN [k \in DOMAIN fixed |-> InRange(Variable(fixed[k]), fixed[k].type)]

ShapeIsValid(s) == IsBoolean(s.ast) <=> s.annotation = BoolType

\* _validate_rounding_precision
PrecisionIsValid(s) ==
  /\ \A e \in AllSubterms(s) : ~Unresolved(e)
  /\ IsRound(s.ast) /\ IsConcrete(s.annotation) => Rounding[s.ast[1]].frac <= s.annotation.frac

-----------------------------------------------------------------------------
(* _expand_faithful_roundings                                              *)

IsFaithful(e) == IsRound(e) /\ Rounding[e[1]].mode = "FR"
InMode(e, mode) == Rounds(mode, Rounding[e[1]].frac, e[2])

\* The faithful roundings of a specification, children first.
FaithfulRoundings(s) ==
  LET seen == FoldLeft(LAMBDA r, e : VisitAll(<<e>>, r), <<>>, <<s.ast>> \o s.assumes \o s.checks)
  IN SelectSeq(Reverse(seen), IsFaithful)

ChoiceName(k) == "rnd" \o ToString(k)
Choice(k) == BoolVar(ChoiceName(k))

\* Bug: both branches round towards zero.
ChosenTowardsZero(choice, e) == <<"if", choice, InMode(e, "RTZ"), InMode(e, "RTZ")>>

Chosen(choice, e) == <<"if", choice, InMode(e, "RAZ"), InMode(e, "RTZ")>>

RECURSIVE Expanded(_, _)
Expanded(e, roundings) ==
  LET inner == IF Args(e) = <<>> THEN e
               ELSE Rebuild(e, [i \in DOMAIN Args(e) |-> Expanded(Args(e)[i], roundings)])
  IN IF ~IsFaithful(e) THEN inner
     ELSE Chosen(Choice(CHOOSE k \in DOMAIN roundings : roundings[k] = e), inner)

ExpandedSpec(s, roundings) ==
  [s EXCEPT !.ast = Expanded(@, roundings),
            !.assumes = [i \in DOMAIN @ |-> Expanded(@[i], roundings)],
            !.checks  = [i \in DOMAIN @ |-> Expanded(@[i], roundings)]]

WithChoices(s, roundings) ==
  LET inputs == s.inputs \o [k \in DOMAIN roundings |-> Input(ChoiceName(k), BoolType)]
  IN WithInputs(s, inputs, PayloadTuples(inputs))

ChoicesAssumed(s, roundings) ==
  \E k \in DOMAIN roundings, i \in DOMAIN s.assumes : Choice(k) \in Subterms(s.assumes[i])

\* The other value is taken where the assumptions rule out the chosen one.
Conjunction(terms) == FoldLeft(LAMBDA all, t : <<"and", all, t>>, True, terms)

AllowedWith(s, value) == Folded(SubstituteTerm(Conjunction(s.assumes), Choice(1), value))

Corrected(s, both) ==
  Everywhere(s, both,
             <<"if", Choice(1), <<"if", AllowedWith(s, True), both[3], both[4]>>,
                                <<"if", AllowedWith(s, False), both[4], both[3]>> >>)

\* The expanded specification, in a sequence that is empty when it is refused.
Expand(s, roundings, expanded) ==
  IF roundings = <<>> THEN <<s>>
  ELSE IF ~ChoicesAssumed(expanded, roundings) THEN <<WithChoices(expanded, roundings)>>
  ELSE IF Len(roundings) > 1 THEN <<>>
  ELSE <<WithChoices(Corrected(expanded, Expanded(roundings[1], roundings)), roundings)>>

-----------------------------------------------------------------------------
(* _simplify_spec_ast: Rival and the e-graph may put in place of the       *)
(* expression one that is worth the same wherever the assumptions hold.    *)

Agree(e, f, allowed) ==
  \A point \in allowed :
    /\ (Exact(e, point) = Error) <=> (Exact(f, point) = Error)
    /\ Exact(e, point) # Error => Same(Exact(e, point), Exact(f, point))

AllowedPoints(s) ==
  {s.points[i] : i \in Reachable(s.points, s.assumes)}

Simplifications(s, allowed) ==
  {s.ast} \cup
  {e \in Subterms(s.ast) : IsBoolean(e) = IsBoolean(s.ast) /\ ~Is(e, "real") /\ Agree(e, s.ast, allowed)}

SimplifiedTo(s, e) ==
  [s EXCEPT !.ast = Folded(e),
            !.assumes = Normalized(@),
            !.checks = Normalized([i \in DOMAIN @ |-> SubstituteTerm(@[i], s.ast, Folded(e))])]

-----------------------------------------------------------------------------
(* rewrite_strict_conditions                                               *)

\* The comparisons of a condition, in the order in which they are rewritten.
RECURSIVE ComparisonsIn(_)
ComparisonsIn(t) ==
  FoldLeft(LAMBDA all, arg : all \o ComparisonsIn(arg), <<>>, Args(t)) \o
  (IF t[1] \in Comparisons THEN <<t>> ELSE <<>>)

\* Bug: a strict bound is treated as one that may be reached.
BoundRoundedOut(op, a) ==
  CASE op \in {"ge", "gt"} -> Ceiling(a)
    [] op \in {"le", "lt"} -> Floor(a)

\* The bound, as a code, that a comparison with a literal sets in fixed point.
BoundCode(op, a) ==
  CASE op = "ge" -> Ceiling(a)
    [] op = "gt" -> Floor(a) + 1
    [] op = "le" -> Floor(a)
    [] op = "lt" -> Ceiling(a) - 1

Representable(a, type) == a[1] % a[2] = 0 /\ Floor(a) \in MinCode(type) .. MaxCode(type)

TightenLiteral(op, variable, type, value) ==
  LET a == Scaled(value, type.frac)
      bound(sense) == << <<sense, variable, Dyadic(BoundCode(op, a), type.frac)>> >>
  IN CASE op \in {"eq", "ne"} -> IF Representable(a, type) THEN <<>> ELSE <<Bool(op = "ne")>>
       [] op \in {"ge", "gt"} -> bound("ge")
       [] op \in {"le", "lt"} -> bound("le")

TypesOf(inputs, variable) ==
  {inputs[k].type : k \in {k \in DOMAIN inputs : Variable(inputs[k]) = variable}}

TightenSided(op, left, right, inputs) ==
  IF Is(left, "var") /\ Is(right, "real") /\ TypesOf(inputs, left) # {}
  THEN TightenLiteral(op, left, CHOOSE type \in TypesOf(inputs, left) : TRUE, right[2])
  ELSE <<>>

\* _tighten_literal_comparison: a sequence that is empty when it does not apply.
Tightened(t, inputs) ==
  IF Is(Folded(t[2]), "real") THEN TightenSided(Reversed[t[1]], Folded(t[3]), Folded(t[2]), inputs)
  ELSE TightenSided(t[1], Folded(t[2]), Folded(t[3]), inputs)

\* A strict comparison leaves at least one step of the finer operand's grid.
OneStepApart(t, args) ==
  LET quantum == Dyadic(1, Larger(args[1].frac, args[2].frac)) IN
  IF Is(t, "gt") THEN <<"ge", t[2], <<"add", t[3], quantum>> >>
  ELSE <<"le", t[2], <<"sub", t[3], quantum>> >>

Replaced(term, old, new) ==
  IF Is(new, "bool") THEN Folded(SubstituteTerm(term, old, new)) ELSE SubstituteTerm(term, old, new)

-----------------------------------------------------------------------------
(* spec_domain_analysis and _check_output_format                           *)

\* A point is excluded by a condition that is false there, whatever the others.
Conditions(terms) == UNION {ConditionConjuncts(terms[i]) : i \in DOMAIN terms}

Excluded(assumes, point) == \E c \in Conditions(assumes) : Exact(c, point) = Whole(0)
Faulty(assumes, point) ==
  ~Excluded(assumes, point) /\ \E c \in Conditions(assumes) : Exact(c, point) = Error

DomainIsValid(s, points) ==
  /\ \A i \in DOMAIN points : ~Faulty(s.assumes, points[i])
  /\ Reachable(points, s.assumes) # {}
  /\ \A i \in Reachable(points, s.assumes) :
       Exact(s.ast, points[i]) # Error /\ AllTrue(s.checks, points[i])

ResultJob(s) ==
  Job(s.ast, s.nodes, s.annotation, s.assumes, s.points, s.vague)

OutputFits(j) ==
  /\ IsReal(j.root) => ProveResultFits(j, j.root, j.annotation)
  /\ IsConcrete(j.annotation) => SuggestedFormat(j, j.root, j.annotation.frac) # <<>>

\* Bounds on the result: loose ones when Rival is vague about it.
LowerBound(j) == IF j.root \in j.vague THEN Whole(Floor(Least(ValuesOf(j, j.root))) - 1)
                 ELSE Least(ValuesOf(j, j.root))
UpperBound(j) == IF j.root \in j.vague THEN Whole(Ceiling(Greatest(ValuesOf(j, j.root))) + 1)
                 ELSE Greatest(ValuesOf(j, j.root))

\* _derive_output_guards
OutputGuard(j) ==
  IF IsBoolean(j.root) THEN <<"or", <<"beq", j.root, True>>, <<"beq", j.root, False>> >>
  ELSE <<"and", <<"ge", j.root, Real(LowerBound(j))>>, <<"le", j.root, Real(UpperBound(j))>> >>

-----------------------------------------------------------------------------
(* The stages of Autogenerate.                                             *)

Nothing == [assumes |-> <<>>, checks |-> <<>>]

Init ==
  /\ source \in Specifications
  /\ spec = source /\ stage = "given"
  /\ todo = <<>> /\ precise = Nothing
  /\ generated = <<>> /\ lowered = Nothing
  /\ job = NoJob /\ search = EmptySearch /\ phase = "idle"

searchUnchanged == UNCHANGED searchVars
resultsUnchanged == UNCHANGED <<source, generated, lowered>>

Fail == stage' = "failed" /\ UNCHANGED <<spec, todo, precise>>

\* get_spec, reject_undeclared_variables, add_input_ranges, _validate_spec_shape
GetSpec ==
  /\ stage = "given"
  /\ LET s == InferPrecision(spec) IN
     IF (Unresolved(spec.ast) /\ ~IsConcrete(spec.annotation)) \/ ~Declared(s) \/ ~ShapeIsValid(s)
     THEN Fail
     ELSE /\ spec' = [s EXCEPT !.assumes = InputRanges(s.inputs) \o @]
          /\ stage' = "declared" /\ UNCHANGED <<todo, precise>>
  /\ resultsUnchanged /\ searchUnchanged

ExpandFaithfulRoundings ==
  /\ stage = "declared"
  /\ LET roundings == FaithfulRoundings(spec)
         expanded  == Expand(spec, roundings, ExpandedSpec(spec, roundings))
     IN IF ~PrecisionIsValid(spec) \/ expanded = <<>> THEN Fail
        ELSE spec' = expanded[1] /\ stage' = "expanded" /\ UNCHANGED <<todo, precise>>
  /\ resultsUnchanged /\ searchUnchanged

Simplify ==
  /\ stage = "expanded"
  /\ \E e \in Simplifications(spec, AllowedPoints(spec)) : spec' = SimplifiedTo(spec, e)
  /\ stage' = "precise" /\ UNCHANGED <<todo, precise>>
  /\ resultsUnchanged /\ searchUnchanged

\* rewrite_strict_conditions, one condition and one comparison of it at a time.
SpecConditions == spec.assumes \o spec.checks
Rewritten == Len(precise.assumes) + Len(precise.checks)

TakeCondition ==
  /\ stage = "precise" /\ todo = <<>> /\ Rewritten < Len(SpecConditions)
  /\ todo' = << [term |-> SpecConditions[Rewritten + 1],
                 comparisons |-> ComparisonsIn(SpecConditions[Rewritten + 1])] >>
  /\ UNCHANGED <<spec, stage, precise>> /\ resultsUnchanged /\ searchUnchanged

KeepCondition ==
  /\ stage = "precise" /\ todo # <<>> /\ todo[1].comparisons = <<>>
  /\ precise' = IF Rewritten < Len(spec.assumes)
                THEN [precise EXCEPT !.assumes = Append(@, todo[1].term)]
                ELSE [precise EXCEPT !.checks = Append(@, todo[1].term)]
  /\ todo' = <<>>
  /\ UNCHANGED <<spec, stage>> /\ resultsUnchanged /\ searchUnchanged

Considered == Head(todo[1].comparisons)

ReplaceComparison(replacement) ==
  todo' = << [term |-> IF replacement = <<>> THEN todo[1].term
                       ELSE Replaced(todo[1].term, Considered, replacement[1]),
              comparisons |-> Tail(todo[1].comparisons)] >>

Pending == stage = "precise" /\ todo # <<>> /\ todo[1].comparisons # <<>>

TightenComparison ==
  /\ Pending /\ phase = "idle"
  /\ Tightened(Considered, spec.inputs) # <<>> \/ Considered[1] \notin {"lt", "gt"}
  /\ ReplaceComparison(Tightened(Considered, spec.inputs))
  /\ UNCHANGED <<spec, stage, precise>> /\ resultsUnchanged /\ searchUnchanged

\* Any other strict comparison is lowered, under the conditions made precise so
\* far, to learn the grids of its operands.
LowerComparison ==
  /\ Pending /\ phase = "idle"
  /\ Considered[1] \in {"lt", "gt"} /\ Tightened(Considered, spec.inputs) = <<>>
  /\ Start(Job(Considered, spec.nodes, BoolType, precise.assumes,
               spec.points, spec.vague))
  /\ UNCHANGED <<spec, stage, todo, precise>> /\ resultsUnchanged

Comparands(result) == Len(result.args) = 2 /\ \A k \in 1 .. 2 : IsFixed(result.args[k])

Idle == phase' = "idle" /\ search' = EmptySearch /\ job' = NoJob

StepComparison ==
  /\ Pending /\ phase = "found"
  /\ ReplaceComparison(IF Comparands(search.result[1])
                       THEN <<Folded(OneStepApart(Considered, search.result[1].args))>> ELSE <<>>)
  /\ Idle
  /\ UNCHANGED <<spec, stage, precise>> /\ resultsUnchanged

\* spec_domain_analysis, _check_output_format, lower_spec_result
LowerResult ==
  /\ stage = "precise" /\ todo = <<>> /\ Rewritten = Len(SpecConditions)
  /\ LET s == [spec EXCEPT !.assumes = precise.assumes, !.checks = precise.checks] IN
     IF ~DomainIsValid(s, s.points) \/ ~OutputFits(ResultJob(s))
     THEN Fail /\ searchUnchanged
     ELSE /\ spec' = s /\ stage' = "result"
          /\ Start(ResultJob(s))
          /\ UNCHANGED <<todo, precise>>
  /\ resultsUnchanged

\* A family is resolved to the type of the result; add_output_guards.
TakeResult ==
  /\ stage = "result" /\ phase = "found"
  /\ generated' = search.result
  /\ spec' = [spec EXCEPT !.annotation = IF IsFixed(@) THEN search.result[1].type ELSE @,
                          !.checks = Append(@, OutputGuard(job))]
  /\ stage' = "conditions" /\ Idle
  /\ UNCHANGED <<source, todo, precise, lowered>>

\* attach_lowered_conditions: an assumption is lowered under those before it;
\* a check under all, with the node of the result as one more input.
WithResult(nodes) ==
  LET at == SelectInSeq(nodes, LAMBDA c : c.spec = spec.ast)
      node == [Candidate(spec.ast, generated[1].type, generated[1].out, generated[1].made)
                 EXCEPT !.args = generated[1].args]
  IN IF at = 0 THEN Append(nodes, node) ELSE [nodes EXCEPT ![at] = node]

Attached == Len(lowered.assumes) + Len(lowered.checks)

ConditionJob ==
  IF Attached < Len(spec.assumes)
  THEN Job(spec.assumes[Attached + 1], spec.nodes, BoolType,
           SubSeq(spec.assumes, 1, Attached), spec.points, spec.vague)
  ELSE Job(SpecConditions[Attached + 1], WithResult(spec.nodes), BoolType,
           spec.assumes, spec.points, spec.vague)

LowerCondition ==
  /\ stage = "conditions" /\ phase = "idle" /\ Attached < Len(SpecConditions)
  /\ Start(ConditionJob)
  /\ UNCHANGED <<spec, stage, todo, precise>> /\ resultsUnchanged

AttachCondition ==
  /\ stage = "conditions" /\ phase = "found"
  /\ lowered' = IF Attached < Len(spec.assumes)
                THEN [lowered EXCEPT !.assumes = Append(@, search.result[1])]
                ELSE [lowered EXCEPT !.checks = Append(@, search.result[1])]
  /\ Idle
  /\ UNCHANGED <<source, spec, stage, todo, precise, generated>>

Return ==
  /\ stage = "conditions" /\ phase = "idle" /\ Attached = Len(SpecConditions)
  /\ stage' = "done"
  /\ UNCHANGED <<spec, todo, precise>> /\ resultsUnchanged /\ searchUnchanged

Search == SearchNext /\ UNCHANGED <<source, spec, stage, todo, precise, generated, lowered>>

\* A search without a result raises.
GiveUp == phase = "failed" /\ stage # "failed" /\ Fail /\ resultsUnchanged /\ searchUnchanged

Ended == stage \in {"done", "failed"} /\ UNCHANGED vars

Next ==
  \/ GetSpec \/ ExpandFaithfulRoundings \/ Simplify
  \/ TakeCondition \/ KeepCondition \/ TightenComparison \/ LowerComparison \/ StepComparison
  \/ LowerResult \/ TakeResult \/ LowerCondition \/ AttachCondition \/ Return
  \/ Search \/ GiveUp \/ Ended

Spec == Init /\ [][Next]_vars

-----------------------------------------------------------------------------
(* Properties.                                                             *)

\* What the source allows at a point: a rounding of each faithful rounding, such
\* that its assumptions hold.
Original == InferPrecision(source)

RECURSIVE WithModes(_, _)
WithModes(e, modes) ==
  IF Args(e) = <<>> THEN e
  ELSE LET inner == Rebuild(e, [i \in DOMAIN Args(e) |-> WithModes(Args(e)[i], modes)])
       IN IF IsFaithful(e) THEN InMode(inner, modes[e]) ELSE inner

Permitted(s, point) ==
  {modes \in [{e \in AllSubterms(s) : IsFaithful(e)} -> {"RAZ", "RTZ"}] :
     \A i \in DOMAIN s.assumes : IsTrue(WithModes(s.assumes[i], modes), point)}

PermittedValues(s, point) ==
  {Exact(WithModes(s.ast, modes), point) : modes \in Permitted(s, point)}

\* The points of the generated implementation that agree with one of the source.
SameInputs(i, point) ==
  LET p == spec.points[i] IN \A name \in DOMAIN point : p[name] = point[name]

AgreeingWith(point) == {i \in DOMAIN spec.points : SameInputs(i, point)}

Results(point) ==
  {NodeValue(generated[1].type, generated[1].out[i]) : i \in AgreeingWith(point)}

EqualSets(A, B) == (\A a \in A : \E b \in B : Same(a, b)) /\ (\A b \in B : \E a \in A : Same(a, b))

\* Where the source's assumptions hold, the generated implementation returns the
\* value that the source specifies; of a faithful rounding it returns, as the
\* choice inputs vary, every value that the assumptions permit and no other.
ResultAsSpecified ==
  generated # <<>> =>
    \A i \in DOMAIN source.points :
      LET point == source.points[i] IN
      Permitted(Original, point) # {} =>
        EqualSets(Results(point), PermittedValues(Original, point))

\* The assumptions that are attached to the implementation accept exactly the inputs
\* that the source's assumptions accept, whatever was tightened, stepped or corrected
\* on the way, and its checks hold at all of them.
Accepted(i) == \A k \in DOMAIN lowered.assumes : lowered.assumes[k].out[i] = 1

ConditionsAsSpecified ==
  stage = "done" =>
    \A n \in DOMAIN source.points :
      LET point == source.points[n] IN
      \A i \in AgreeingWith(point) :
        /\ Accepted(i) <=> Permitted(Original, point) # {}
        /\ Accepted(i) => \A k \in DOMAIN lowered.checks : lowered.checks[k].out[i] = 1

\* A search comes to an end: a round that calls for another one has found a new
\* type of some expression or a cheaper node of a known one, and no round loses a
\* node or makes one dearer.
RoundsImprove == [][Search => Progress]_vars
=============================================================================
