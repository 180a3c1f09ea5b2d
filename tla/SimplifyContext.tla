--------------------------- MODULE SimplifyContext ---------------------------
(***************************************************************************)
(* SpecContext._simplify_with_convergence (zolotone/spec/spec_context.py):  *)
(* passes over the assumptions of a context, each of which is rewritten by  *)
(* the facts that the others state, and over its checks, until nothing      *)
(* changes.  What justifies a fact may itself be rewritten, so each fact    *)
(* keeps one assumption as its anchor, which it must not rewrite.           *)
(*                                                                         *)
(* What is done by recursion on terms is a parameter: TermRewriting has the *)
(* operators of zolotone that take these places.                            *)
(***************************************************************************)
EXTENDS SpecTerms, FiniteSets

CONSTANTS
    Contexts,              \* the contexts given: records of assumes and checks
    Models,                \* assignments by which a context is judged
    ValueOf(_, _),         \* what a term is worth under an assignment
    VariablesOf(_),
    ConstantFolded(_),     \* _constant_fold
    Substituted(_, _),     \* substitute_literals
    ConjunctsOf(_),        \* _assumption_conjuncts
    SplitOf(_)             \* the conjuncts of all assumptions, folded

\* A sequence of terms, and a context of two of them.
IsSeq(s) == s \in Seq({s[i] : i \in DOMAIN s})

IsContext(ctx) ==
    /\ ctx = [assumes |-> ctx.assumes, checks |-> ctx.checks]
    /\ IsSeq(ctx.assumes) /\ IsSeq(ctx.checks)

ASSUME ContextsAssumption == \A ctx \in Contexts : IsContext(ctx)

VARIABLES
    given,             \* the context given
    simplified,        \* the context at the start of the pass
    rewritten,         \* next_ctx.assumes so far
    assume_idx,        \* the assumption to be rewritten next
    iteration,
    max_iterations,
    outcome            \* "running", "converged", "unconverged" or "PoorSpec"

regularVars == <<given, simplified, rewritten, assume_idx, iteration, max_iterations, outcome>>

-----------------------------------------------------------------------------
(* What the assumptions state                                               *)

\* Bug: a negation is taken for a fact about what it negates.
LearnedPolarity(t) ==
    IF Is(t, "not") THEN {[expr |-> t[2], value |-> True]}
    ELSE IF IsLiteral(t) THEN {} ELSE {[expr |-> t, value |-> True]}

\* The fact that a folded conjunct states, of its negation, its other side or
\* itself.  Equality of a Boolean with a literal has been folded away.
Learned(t) ==
    IF Is(t, "not") THEN {[expr |-> t[2], value |-> False]}
    ELSE IF Is(t, "eq") /\ IsLiteral(t[3]) THEN {[expr |-> t[2], value |-> t[3]]}
    ELSE IF Is(t, "eq") /\ IsLiteral(t[2]) THEN {[expr |-> t[3], value |-> t[2]]}
    ELSE IF IsLiteral(t) THEN {} ELSE {[expr |-> t, value |-> True]}

\* The folded conjuncts of an assumption.
Stated(t) == {ConstantFolded(ConjunctsOf(t)[k]) : k \in DOMAIN ConjunctsOf(t)}

FactsOf(t) == UNION {Learned(c) : c \in Stated(t)}

\* The facts that the assumptions with these numbers state.
FactsAmong(assumes, numbers) == UNION {FactsOf(assumes[i]) : i \in numbers}

Facts(assumes) == FactsAmong(assumes, DOMAIN assumes)

\* PoorSpec: an assumption folds to false, or two state different values.
Contradictory(assumes) ==
    \/ \E i \in DOMAIN assumes : False \in Stated(assumes[i])
    \/ \E f, g \in Facts(assumes) : f.expr = g.expr /\ f.value # g.value

AsMap(facts) ==
    [e \in {f.expr : f \in facts} |-> (CHOOSE f \in facts : f.expr = e).value]

\* One map where it has an entry, the other one elsewhere.
Over(f, g) == [e \in DOMAIN f \cup DOMAIN g |-> IF e \in DOMAIN f THEN f[e] ELSE g[e]]

\* A variable that equals a compound term without it.
AliasOf(v, e) ==
    IF Is(e, "var") \/ IsLiteral(e) \/ v \in VariablesOf(e) THEN {}
    ELSE {[expr |-> v, value |-> e]}

AliasIn(t) ==
    IF t[1] \notin {"eq", "beq"} THEN {}
    ELSE IF Is(t[2], "var") THEN AliasOf(t[2], t[3])
    ELSE IF Is(t[3], "var") THEN AliasOf(t[3], t[2]) ELSE {}

\* The first alias of a variable counts.
Alias(assumes, i, k) == AliasIn(ConstantFolded(ConjunctsOf(assumes[i])[k]))

Places(assumes) == UNION {{i} \X DOMAIN ConjunctsOf(assumes[i]) : i \in DOMAIN assumes}

Before(p, q) == p[1] < q[1] \/ (p[1] = q[1] /\ p[2] < q[2])

Aliases(assumes) ==
    LET found == UNION {{[alias |-> a, at |-> p] : a \in Alias(assumes, p[1], p[2])} :
                           p \in Places(assumes)}
        first(f) == \A g \in found : g.alias.expr = f.alias.expr => ~Before(g.at, f.at)
    IN  AsMap({f.alias : f \in {g \in found : first(g)}})

\* What the assumptions rewritten so far tell: the facts go before the aliases.
KnownFrom(assumes) == Over(AsMap(Facts(assumes)), Aliases(assumes))

\* Bug: a fact may rewrite the assumption that states it.
FactsOfAll(idx) == AsMap(Facts(simplified.assumes))

\* The first assumption to state a fact is its anchor.  These are the facts that
\* assumption idx is not the anchor of, as they were at the start of the pass.
FactsOfOthers(idx) ==
    LET assumes == simplified.assumes
    IN  AsMap(FactsAmong(assumes, 1 .. idx - 1)
                \cup (FactsAmong(assumes, idx + 1 .. Len(assumes)) \ FactsOf(assumes[idx])))

KnownFor(idx) == Over(FactsOfOthers(idx), KnownFrom(rewritten))

-----------------------------------------------------------------------------
(* The passes                                                               *)

\* Bug: passes are counted for the checks alone.
PassesForChecks(context) == Len(context.checks) + 1

MaxIterations(context) == Len(context.assumes) + Len(context.checks) + 1

Entered(context) == [assumes |-> SplitOf(context.assumes), checks |-> context.checks]

Rejected(context) == \E i \in DOMAIN context.assumes : ConstantFolded(context.assumes[i]) = False

RegularInit ==
    /\ given \in Contexts
    /\ simplified = Entered(given)
    /\ max_iterations = MaxIterations(simplified)
    /\ rewritten = <<>> /\ assume_idx = 1 /\ iteration = 1
    /\ outcome = IF Rejected(given) THEN "PoorSpec" ELSE "running"

\* The same, for a context that a caller brings in the middle of a behaviour.
Enter(context) ==
    /\ given' = context
    /\ simplified' = Entered(context)
    /\ max_iterations' = MaxIterations(simplified')
    /\ rewritten' = <<>> /\ assume_idx' = 1 /\ iteration' = 1
    /\ outcome' = IF Rejected(context) THEN "PoorSpec" ELSE "running"

Poor ==
    /\ outcome' = "PoorSpec"
    /\ UNCHANGED <<given, simplified, rewritten, assume_idx, iteration, max_iterations>>

\* Two facts conflict, at the start of a pass or among the assumptions
\* rewritten so far.
Conflict ==
    /\ outcome = "running"
    /\ Contradictory(simplified.assumes) \/ Contradictory(rewritten)
    /\ Poor

KeepUnlessTrue(assumes, t) == IF t = True THEN assumes ELSE Append(assumes, t)

\* The terms that are not true, in their order.
Remaining(terms) ==
    LET kept == {i \in DOMAIN terms : terms[i] # True}
        nth(k) == CHOOSE i \in kept : Cardinality({j \in kept : j <= i}) = k
    IN  [k \in 1 .. Cardinality(kept) |-> terms[nth(k)]]

Rewriting ==
    /\ outcome = "running"
    /\ ~Contradictory(simplified.assumes) /\ ~Contradictory(rewritten)

RewriteAssumption ==
    /\ Rewriting /\ assume_idx \in DOMAIN simplified.assumes
    /\ LET t == Substituted(simplified.assumes[assume_idx], KnownFor(assume_idx))
       IN  IF t = False THEN Poor
           ELSE /\ rewritten' = KeepUnlessTrue(rewritten, t)
                /\ assume_idx' = assume_idx + 1
                /\ UNCHANGED <<given, simplified, iteration, max_iterations, outcome>>

\* The checks are rewritten by what the new assumptions state.
EndPass ==
    /\ Rewriting /\ assume_idx = Len(simplified.assumes) + 1
    /\ LET known == KnownFrom(rewritten)
           checks == [i \in DOMAIN simplified.checks |-> Substituted(simplified.checks[i], known)]
           next == [assumes |-> rewritten, checks |-> Remaining(checks)]
       IN  /\ simplified' = next
           /\ outcome' = IF next = simplified THEN "converged"
                         ELSE IF iteration = max_iterations THEN "unconverged"
                         ELSE "running"
    /\ rewritten' = <<>> /\ assume_idx' = 1 /\ iteration' = iteration + 1
    /\ UNCHANGED <<given, max_iterations>>

RegularNext == Conflict \/ RewriteAssumption \/ EndPass

RegularSpec == RegularInit /\ [][RegularNext]_regularVars

-----------------------------------------------------------------------------
(* What is asked of it                                                      *)

IsTrue(t, m) == ValueOf(t, m) = TRUE

Holds(terms, m) == \A i \in DOMAIN terms : IsTrue(terms[i], m)

\* Whatever satisfies the assumptions of a satisfies those of b, and there the
\* checks of b decide what those of a ask.
Keeps(a, b) ==
    \A m \in Models :
        Holds(a.assumes, m) =>
            Holds(b.assumes, m) /\ (Holds(a.checks, m) <=> Holds(b.checks, m))

Impossible(assumes) == \A m \in Models : ~Holds(assumes, m)

\* The assumptions of the pass that are not yet rewritten.
Unread == SubSeq(simplified.assumes, assume_idx, Len(simplified.assumes))

\* The context as it stands in the middle of a pass.
Present == [assumes |-> rewritten \o Unread, checks |-> simplified.checks]

-----------------------------------------------------------------------------
(* What the operators on terms promise, of the terms at hand                *)

Agrees(known, m) == \A e \in DOMAIN known : ValueOf(known[e], m) = ValueOf(e, m)

SubstitutionSound(t, known) ==
    LET u == Substituted(t, known)
    IN  u # t => \A m \in Models : Agrees(known, m) => ValueOf(u, m) = ValueOf(t, m)

FoldSound(t) ==
    LET u == ConstantFolded(t) IN u # t => \A m \in Models : ValueOf(u, m) = ValueOf(t, m)

\* terms says no more than t does.
SplitSound(t, terms) ==
    terms # <<t>> => \A m \in Models : IsTrue(t, m) => Holds(terms, m)

\* What the root of a term says of its value.
Meaning(t, m) ==
    /\ Is(t, "not") => (IsTrue(t, m) <=> ValueOf(t[2], m) = FALSE)
    /\ t[1] \in {"eq", "beq"} => (IsTrue(t, m) <=> ValueOf(t[2], m) = ValueOf(t[3], m))
    /\ IsLiteral(t) => ValueOf(t, m) = t[2]

\* The value that a fact gives a term is a literal of the kind of the term.
FactSound(fact) ==
    /\ fact.value = <<IF IsBoolean(fact.expr) THEN "bool" ELSE "real", fact.value[2]>>
    /\ \A m \in Models : Meaning(fact.value, m)

\* An assumption is split into conjuncts, and these are folded, by its meaning.
AssumptionSound(t) ==
    /\ SplitSound(t, ConjunctsOf(t))
    /\ \A k \in DOMAIN ConjunctsOf(t) : FoldSound(ConjunctsOf(t)[k])
    /\ \A c \in Stated(t) : \A m \in Models : Meaning(c, m)
    /\ \A fact \in FactsOf(t) : FactSound(fact)

LiteralsSound == \A m \in Models : Meaning(True, m) /\ Meaning(False, m)

EntrySound(ctx) ==
    /\ LiteralsSound
    /\ IsSeq(SplitOf(ctx.assumes))
    /\ \A i \in DOMAIN ctx.assumes : FoldSound(ctx.assumes[i])
    /\ SplitOf(ctx.assumes) # ctx.assumes =>
          \A m \in Models : Holds(ctx.assumes, m) => Holds(SplitOf(ctx.assumes), m)
    /\ \A i \in DOMAIN SplitOf(ctx.assumes) : AssumptionSound(SplitOf(ctx.assumes)[i])

\* At every step: of the context that has just been entered, of the assumption
\* rewritten last, and of the rewriting that comes next.
TermsSound ==
    /\ iteration = 1 /\ assume_idx = 1 => EntrySound(given)
    /\ rewritten # <<>> => AssumptionSound(rewritten[Len(rewritten)])
    /\ outcome = "running" /\ assume_idx \in DOMAIN simplified.assumes =>
          SubstitutionSound(simplified.assumes[assume_idx], KnownFor(assume_idx))
    /\ outcome = "running" /\ assume_idx = Len(simplified.assumes) + 1 =>
          LET known == KnownFrom(rewritten)
          IN  \A i \in DOMAIN simplified.checks : SubstitutionSound(simplified.checks[i], known)
=============================================================================
