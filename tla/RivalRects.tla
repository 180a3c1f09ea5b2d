------------------------------ MODULE RivalRects ------------------------------
(***************************************************************************)
(* The boxes that the assumptions of a context confine its variables to     *)
(* (zolotone/rival/analysis.py), what they tell of its feasibility, and     *)
(* rival_trim_context: assumptions and checks rewritten by what holds on    *)
(* every box.  Intervals have integer ends: the literals of a model are     *)
(* exact floats.                                                            *)
(***************************************************************************)
EXTENDS SpecTerms, TermRewriting

CONSTANTS
    FreeVars,          \* the variables of the contexts
    MaxRects           \* max_rects

-----------------------------------------------------------------------------
(* The native machine, external: interval evaluation of one operation,      *)
(* outward bounds, Booleans as 0 and 1.                                     *)

\* Everything beyond Huge is infinite.
Huge == 500
Infinite == 1000
Saturated(n) == IF n > Huge THEN Infinite ELSE IF n < -Huge THEN -Infinite ELSE n

Interval(lo, hi) == [lo |-> Saturated(lo), hi |-> Saturated(hi)]
Hull(S) == Interval(CHOOSE n \in S : \A k \in S : n <= k, CHOOSE n \in S : \A k \in S : n >= k)
Point(n) == Interval(n, n)

\* Booleans are 0 and 1; what is neither surely true nor surely false is both.
Truth(sure, impossible) == [lo |-> IF sure THEN 1 ELSE 0, hi |-> IF impossible THEN 0 ELSE 1]
Surely(v) == v.lo = 1
Never(v)  == v.hi = 0

OfArithmetic(op, v) ==
    CASE op = "add" -> Interval(v[1].lo + v[2].lo, v[1].hi + v[2].hi)
      [] op = "sub" -> Interval(v[1].lo - v[2].hi, v[1].hi - v[2].lo)
      [] op = "mul" -> Hull({a * b : a \in {v[1].lo, v[1].hi}, b \in {v[2].lo, v[2].hi}})
      [] op = "neg" -> Interval(-v[1].hi, -v[1].lo)
      [] op = "abs" -> Hull({Arithmetic("abs", <<a>>) :
                               a \in {v[1].lo, v[1].hi, Selection("max", <<v[1].lo, 0>>),
                                      Selection("min", <<v[1].hi, 0>>)}
                                     \cap v[1].lo .. v[1].hi})

OfSelection(op, v) ==
    IF op # "if" THEN Interval(Selection(op, <<v[1].lo, v[2].lo>>),
                               Selection(op, <<v[1].hi, v[2].hi>>))
    ELSE IF Surely(v[1]) THEN v[2] ELSE IF Never(v[1]) THEN v[3]
    ELSE Hull({v[2].lo, v[2].hi, v[3].lo, v[3].hi})

Disjoint(a, b) == a.hi < b.lo \/ b.hi < a.lo
SamePoint(a, b) == a = b /\ a.lo = a.hi

OfComparison(op, a, b) ==
    CASE op = "eq" -> Truth(SamePoint(a, b), Disjoint(a, b))
      [] op = "ne" -> Truth(Disjoint(a, b), SamePoint(a, b))
      [] op = "lt" -> Truth(a.hi < b.lo, a.lo >= b.hi)
      [] op = "le" -> Truth(a.hi <= b.lo, a.lo > b.hi)
      [] op = "gt" -> Truth(a.lo > b.hi, a.hi <= b.lo)
      [] op = "ge" -> Truth(a.lo >= b.hi, a.hi < b.lo)

OfConnective(op, v) ==
    CASE op = "not" -> Truth(Never(v[1]), Surely(v[1]))
      [] op = "and" -> Truth(Surely(v[1]) /\ Surely(v[2]), Never(v[1]) \/ Never(v[2]))
      [] op = "or"  -> Truth(Surely(v[1]) \/ Surely(v[2]), Never(v[1]) /\ Never(v[2]))
      [] OTHER -> OfComparison(IF op = "beq" THEN "eq" ELSE "ne", v[1], v[2])

Operation(op, v) ==
    IF op \in Connectives THEN OfConnective(op, v)
    ELSE IF op \in Comparisons THEN OfComparison(op, v[1], v[2])
    ELSE IF op \in {"max", "min", "if"} THEN OfSelection(op, v) ELSE OfArithmetic(op, v)

-----------------------------------------------------------------------------
(* Evaluation on a box                                                      *)

\* The outward bounds of a term on a box.
RECURSIVE Enclosure(_, _)
Enclosure(t, rect) ==
    CASE Is(t, "var")  -> rect[t]
      [] Is(t, "real") -> Point(t[2])
      [] Is(t, "bool") -> Truth(t[2], ~t[2])
      [] OTHER -> Operation(t[1], [i \in DOMAIN Args(t) |-> Enclosure(Args(t)[i], rect)])

SureOn(t, rect)  == Surely(Enclosure(t, rect))
NeverOn(t, rect) == Never(Enclosure(t, rect))

-----------------------------------------------------------------------------
(* normalize_ctx                                                            *)

Complement == [and |-> "or", or |-> "and", eq |-> "ne", ne |-> "eq", lt |-> "ge", ge |-> "lt",
               le |-> "gt", gt |-> "le", beq |-> "bne", bne |-> "beq"]

Mirror == [lt |-> "gt", le |-> "ge", gt |-> "lt", ge |-> "le", eq |-> "eq", ne |-> "ne"]

\* The addends of a sum, with their signs.
RECURSIVE Addends(_, _)
Addends(t, sign) ==
    CASE Is(t, "add") -> Addends(t[2], sign) \o Addends(t[3], sign)
      [] Is(t, "sub") -> Addends(t[2], sign) \o Addends(t[3], -sign)
      [] Is(t, "neg") -> Addends(t[2], -sign)
      [] OTHER -> <<[term |-> t, sign |-> sign]>>

Flip(addends) == [i \in DOMAIN addends |-> [addends[i] EXCEPT !.sign = -@]]

SumOf(addends) ==
    LET add(sum, a) == IF a.sign = 1 THEN <<"add", sum, a.term>> ELSE <<"sub", sum, a.term>>
        first == IF addends[1].sign = 1 THEN addends[1].term ELSE <<"neg", addends[1].term>>
    IN  IF addends = <<>> THEN Real(0) ELSE FoldLeft(add, first, Tail(addends))

\* Terms with variables to the left, the first of them positive, and constants
\* to the right.
NormalizeComparison(t) ==
    LET addends  == Addends(t[2], 1) \o Addends(t[3], -1)
        variable == SelectSeq(addends, LAMBDA a : Variables(a.term) # {})
        constant == Flip(SelectSeq(addends, LAMBDA a : Variables(a.term) = {}))
        sides(op, lhs, rhs) == <<op, SumOf(lhs), Fold(SumOf(rhs))>>
    IN  IF variable = <<>> THEN t
        ELSE IF variable[1].sign = 1 THEN sides(t[1], variable, constant)
        ELSE sides(Mirror[t[1]], Flip(variable), Flip(constant))

\* Negations are pushed down to the Boolean variables.
RECURSIVE Normalize(_, _)
Normalize(t, negated) ==
    LET down == negated /\ t[1] \in {"and", "or"}
        args == [i \in DOMAIN Args(t) |-> Normalize(Args(t)[i], down)]
        t2   == <<IF negated THEN Complement[t[1]] ELSE t[1]>> \o args
    IN  CASE Is(t, "not") -> IF ~negated /\ Is(t[2], "var") THEN t ELSE Normalize(t[2], ~negated)
          [] Is(t, "bool") -> Bool(t[2] # negated)
          [] Is(t, "var") -> IF negated THEN <<"not", t>> ELSE t
          [] Is(t, "real") -> t
          [] OTHER -> IF t[1] \in Comparisons THEN NormalizeComparison(t2) ELSE t2

-----------------------------------------------------------------------------
(* The boxes of an assumption: none known, a sequence of them, or too many  *)

Unknown      == [is |-> "unknown"]
Exceeded     == [is |-> "exceeded"]
Known(rects) == IF Len(rects) > MaxRects THEN Exceeded ELSE [is |-> "rects", rects |-> rects]

\* new_rect
BaseRect == [v \in FreeVars |-> IF v[3] = "bool" THEN Interval(0, 1)
                                ELSE Interval(-Infinite, Infinite)]

Meet(r, s) == [v \in FreeVars |-> Interval(Selection("max", <<r[v].lo, s[v].lo>>),
                                           Selection("min", <<r[v].hi, s[v].hi>>))]

Nonempty(rect) == \A v \in FreeVars : rect[v].lo <= rect[v].hi

\* _intersect_rival_rect_sets: every pair counts towards the limit.
Intersect(a, b) ==
    LET n == Len(b.rects)
        pair(k) == Meet(a.rects[((k - 1) \div n) + 1], b.rects[((k - 1) % n) + 1])
    IN  IF Len(a.rects) * n > MaxRects THEN Exceeded
        ELSE Known(SelectSeq([k \in 1 .. Len(a.rects) * n |-> pair(k)], Nonempty))

\* One box for every assignment to the Boolean variables that satisfies t.
BooleanRects(t) ==
    LET sat == {m \in [Variables(t) -> BOOLEAN] :
                   Fold(Substitute(t, [v \in DOMAIN m |-> Bool(m[v])])) = True}
        rect(m) == [v \in FreeVars |-> IF v \in DOMAIN m THEN Point(IF m[v] THEN 1 ELSE 0)
                                       ELSE BaseRect[v]]
    IN  Known(SetToSeq({rect(m) : m \in sat}))

\* A comparison of a variable with a literal bounds the variable; the bound
\* belongs to the box even when the comparison is strict.
ComparisonRect(t) ==
    LET bounded(v, op, n) ==
            [BaseRect EXCEPT ![v] = CASE op = "eq" -> Point(n)
                                      [] op \in {"lt", "le"} -> Interval(-Infinite, n)
                                      [] op \in {"gt", "ge"} -> Interval(n, Infinite)]
    IN  IF t[1] \notin Comparisons \ {"ne"} THEN Unknown
        ELSE IF Is(t[2], "var") /\ Is(t[3], "real") THEN Known(<<bounded(t[2], t[1], t[3][2])>>)
        ELSE IF Is(t[2], "real") /\ Is(t[3], "var")
        THEN Known(<<bounded(t[3], Mirror[t[1]], t[2][2])>>)
        ELSE Unknown

\* _rival_rect_alternatives
RECURSIVE Alternatives(_)
Alternatives(t) ==
    LET a == Alternatives(t[2])
        b == Alternatives(t[3])
        kinds == {v[3] : v \in Variables(t)}
        empty(r) == r.is = "rects" /\ r.rects = <<>>
    IN  CASE Is(t, "bool") -> IF t[2] THEN Unknown ELSE Known(<<>>)
          [] ~Is(t, "bool") /\ kinds = {"bool"} -> BooleanRects(t)
          [] Is(t, "and") /\ kinds # {"bool"} ->
                IF "exceeded" \in {a.is, b.is} THEN Exceeded
                ELSE IF empty(a) \/ empty(b) THEN Known(<<>>)
                ELSE IF a.is = "unknown" THEN b ELSE IF b.is = "unknown" THEN a
                ELSE Intersect(a, b)
          [] Is(t, "or") /\ kinds # {"bool"} ->
                IF "exceeded" \in {a.is, b.is} THEN Exceeded
                ELSE IF "unknown" \in {a.is, b.is} THEN Unknown
                ELSE Known(a.rects \o b.rects)
          [] OTHER -> ComparisonRect(t)

Everywhere == [is |-> "rects", rects |-> <<BaseRect>>]

\* The boxes of an assumption added to those of the ones before it.
Confine(found, alternatives) ==
    IF found.is = "exceeded" \/ alternatives.is = "unknown" THEN found
    ELSE IF alternatives.is = "exceeded" THEN Exceeded
    ELSE Intersect(found, alternatives)

\* _get_rival_rects_and_contributors: the boxes of the normalized assumptions,
\* and which of these say something about them; after a contradiction no
\* assumption is looked at.
Alternative(assumes, i) == Alternatives(Normalize(assumes[i], FALSE))

Contradiction == Known(<<>>)

RectsAfter(assumes, n) ==
    LET confine(found, i) == IF found = Contradiction THEN found
                             ELSE Confine(found, Alternative(assumes, i))
    IN  FoldLeft(confine, Everywhere, [i \in 1 .. n |-> i])

RectsOf(assumes) == RectsAfter(assumes, Len(assumes))

Contributes(assumes, i) ==
    Alternative(assumes, i).is # "unknown" /\ RectsAfter(assumes, i - 1) # Contradiction

-----------------------------------------------------------------------------
(* rival_feasibility_check, which simplify_ctx calls with max_depth = 0     *)

\* _rival_feasibility_dfs on one box that may not be split.
OnRect(terms, rect) ==
    IF \E i \in DOMAIN terms : NeverOn(terms[i], rect) THEN "not feasible"
    ELSE IF \A i \in DOMAIN terms : SureOn(terms[i], rect) THEN "feasible" ELSE "unknown"

\* With too many boxes the base box is searched (get_rival_rects).
SearchedRects(found) == IF found.is = "exceeded" THEN <<BaseRect>> ELSE found.rects

Feasibility(assumes, terms) ==
    LET on(rects) == {OnRect(terms, rects[i]) : i \in DOMAIN rects}
        best(answers) == IF terms = <<>> \/ "feasible" \in answers THEN "feasible"
                         ELSE IF "unknown" \in answers THEN "unknown" ELSE "not feasible"
    IN  best(on(SearchedRects(RectsOf(assumes))))

-----------------------------------------------------------------------------
(* _rewrite_proven_expressions                                              *)

Always(p, rects) == \A i \in DOMAIN rects : SureOn(p, rects[i])

\* The truth value that a folded predicate has on all boxes, if there is one.
ProvenFolded(p, rects) ==
    IF Is(p, "bool") THEN {p[2]}
    ELSE IF rects = <<>> THEN {}
    ELSE IF Always(p, rects) THEN {TRUE}
    ELSE IF \A i \in DOMAIN rects : NeverOn(p, rects[i])
    THEN IF Always(Fold(<<"not", p>>), rects) THEN {FALSE} ELSE {}
    ELSE {}

Proven(t, rects) == ProvenFolded(Fold(t), rects)

UnitSign(t) ==
    \/ Is(t, "real") /\ t[2] \in {-1, 1}
    \/ /\ Is(t, "if")
       /\ \A i \in {3, 4} : Is(t[i], "real") /\ t[i][2] \in {-1, 1}

\* unit_sign_magnitude: the other factor of a product with a sign.
Magnitude(t) ==
    IF ~Is(t, "mul") THEN {}
    ELSE IF UnitSign(t[2]) THEN {t[3]}
    ELSE IF UnitSign(t[3]) THEN {t[2]} ELSE {}

\* A choice between two sides that agree where both predicates hold: decided by
\* the first of them, or by the second the other way round.
Decided(first, second, rects) ==
    LET orElse(decision) == IF decision # {} THEN decision
                            ELSE {~v : v \in Proven(second, rects)}
    IN  orElse(Proven(first, rects))

Either(decision, ifTrue, ifFalse, otherwise) ==
    IF decision = {} THEN otherwise ELSE IF decision = {TRUE} THEN ifTrue ELSE ifFalse

RewriteSelection(t, rects) ==
    IF Is(t, "if") THEN Either(Proven(t[2], rects), t[3], t[4], t)
    ELSE LET larger == IF Is(t, "max") THEN 2 ELSE 3
         IN  Either(Decided(<<"ge", t[2], t[3]>>, <<"le", t[2], t[3]>>, rects),
                    t[larger], t[5 - larger], t)

RewriteAbs(t, rects) ==
    Either(Decided(<<"ge", t[2], Real(0)>>, <<"le", t[2], Real(0)>>, rects),
           t[2], Fold(<<"neg", t[2]>>), t)

\* A term whose operands have been rewritten and folded.
RECURSIVE RewriteRoot(_, _, _), Rewrite(_, _, _)
RewriteRoot(t, rects, topLevel) ==
    CASE t[1] \in {"if", "max", "min"} -> RewriteSelection(t, rects)
      [] Is(t, "abs") /\ Magnitude(t[2]) # {} ->
            Rewrite(<<"abs", CHOOSE m \in Magnitude(t[2]) : TRUE>>, rects, FALSE)
      [] Is(t, "abs") /\ Magnitude(t[2]) = {} -> RewriteAbs(t, rects)
      [] OTHER -> IF t[1] \in Comparisons \cup {"beq", "bne"} \/ (topLevel /\ IsBoolean(t))
                  THEN Either(Proven(t, rects), True, False, t) ELSE t

Rewrite(t, rects, topLevel) ==
    LET args == [i \in DOMAIN Args(t) |-> Rewrite(Args(t)[i], rects, FALSE)]
    IN  RewriteRoot(IF args = <<>> THEN t ELSE Fold(Rebuild(t, args)), rects, topLevel)

RewriteProven(terms, rects) == [i \in DOMAIN terms |-> Rewrite(terms[i], rects, TRUE)]

-----------------------------------------------------------------------------
(* _rewrite_assumptions_from_prior_rects: each assumption is rewritten by   *)
(* the boxes of the ones before it, and dropped if they imply it.           *)

Keep(done, t, found) ==
    IF t = True THEN done
    ELSE [kept |-> Append(done.kept, t), found |-> Confine(done.found, found),
          facts |-> done.facts \/ found.is # "unknown"]

KeepWithRects(done, t) == Keep(done, t, Alternatives(t))

RewriteFromPrior(done, assume) ==
    IF done.found.is = "exceeded" THEN done
    ELSE KeepWithRects(done, IF done.facts THEN Rewrite(assume, done.found.rects, TRUE) ELSE assume)

FromPriorRects(assumes) ==
    FoldLeft(RewriteFromPrior, [kept |-> <<>>, found |-> Everywhere, facts |-> FALSE], assumes)

-----------------------------------------------------------------------------
(* rival_trim_context                                                       *)

WithoutTrue(terms) == SelectSeq(terms, LAMBDA t : t # True)

\* Assumptions that bound the variables stay, the others and the checks are
\* rewritten by the bounds.
RewriteByRects(ctx, found) ==
    LET assume(i) == IF Contributes(ctx.assumes, i) THEN ctx.assumes[i]
                     ELSE Rewrite(ctx.assumes[i], found.rects, TRUE)
    IN  IF found.is = "exceeded" THEN ctx
        ELSE [assumes |-> WithoutTrue([i \in DOMAIN ctx.assumes |-> assume(i)]),
              checks  |-> WithoutTrue(RewriteProven(ctx.checks, found.rects))]

\* Forwards, then backwards, so that a bound implied by a later one goes too.
\* When there are too many boxes the context stays as it is by then.
TrimAll(ctx) == RewriteByRects(ctx, RectsOf(ctx.assumes))

TrimBackward(ctx, forward, backward) ==
    IF "exceeded" \in {forward.found.is, backward.found.is} THEN ctx
    ELSE TrimAll([ctx EXCEPT !.assumes = Reverse(backward.kept)])

TrimForward(ctx, forward) ==
    TrimBackward(ctx, forward, FromPriorRects(Reverse(forward.kept)))

Trim(ctx) == TrimForward(ctx, FromPriorRects(ctx.assumes))
=============================================================================
