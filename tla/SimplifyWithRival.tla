--------------------------- MODULE SimplifyWithRival ---------------------------
(***************************************************************************)
(* simplify_ctx (zolotone/spec/spec_context.py), the first tool of every    *)
(* schedule: regular simplification (SimplifyContext) and trimming by boxes *)
(* (RivalRects takes the place of Trimmed and RivalAnswer) in turns until    *)
(* neither changes anything, then a verdict.                                *)
(***************************************************************************)
EXTENDS SimplifyContext

CONSTANTS
    Trimmed(_),            \* rival_trim_context
    RivalAnswer(_, _),     \* rival_feasibility_check, of terms on the boxes of assumptions
    MaxPasses              \* max_passes

VARIABLES
    question,          \* the context of the case
    entered,           \* ctx: the context that simplify_ctx was called with
    seen,              \* seen_states: the contexts at the start of the passes
    report             \* what simplify_ctx returns

vars == <<question, entered, seen, report, regularVars>>

NoReport == [feasibility |-> "none"]

-----------------------------------------------------------------------------
(* The verdict                                                              *)

\* Bug: a context with a check that cannot hold is taken to be infeasible.
FeasibilityWithChecks(ctx) == RivalAnswer(ctx.assumes, ctx.assumes \o ctx.checks)

FeasibilityOf(ctx) ==
    IF \E i \in DOMAIN ctx.assumes : ctx.assumes[i] = False THEN "not feasible"
    ELSE RivalAnswer(ctx.assumes, ctx.assumes)

Status(ctx, feasibility) ==
    IF \/ feasibility = "not feasible"
       \/ \E i \in DOMAIN ctx.checks : ctx.checks[i] = False
       \/ /\ ctx.checks # <<>>
          /\ RivalAnswer(ctx.assumes, ctx.assumes \o ctx.checks) = "not feasible"
    THEN "sat"
    ELSE IF ctx.checks = <<>> THEN "unsat" ELSE "unknown"

Verdict(ctx, feasibility, ended) ==
    [feasibility |-> feasibility, status |-> Status(ctx, feasibility), ctx |-> ctx,
     ended |-> ended]

-----------------------------------------------------------------------------
(* The passes                                                               *)

Init ==
    /\ RegularInit
    /\ question = given
    /\ entered = given
    /\ seen = {given}
    /\ report = NoReport

RegularStep == RegularNext /\ UNCHANGED <<question, entered, seen, report>>

\* How the loop ends after a pass that makes trimmed of the given context.
Ended(trimmed) ==
    CASE (outcome = "converged" /\ trimmed = simplified) \/ trimmed = given -> "fixpoint"
      [] OTHER -> IF Cardinality(seen) = MaxPasses THEN "passes"
                  ELSE IF trimmed \in seen THEN "cycle" ELSE "not yet"

Trimming == report = NoReport /\ outcome \in {"converged", "unconverged"}

\* rival_trim_context, after which the next pass begins or the loop ends.
TrimContext ==
    /\ Trimming
    /\ \E trimmed \in {Trimmed(simplified)} :
           IF Ended(trimmed) = "not yet"
           THEN /\ Enter(trimmed)
                /\ seen' = seen \cup {trimmed}
                /\ UNCHANGED <<question, entered, report>>
           ELSE /\ report' = Verdict(trimmed, FeasibilityOf(trimmed), Ended(trimmed))
                /\ UNCHANGED <<question, entered, seen, regularVars>>

\* The report on a contradictory specification.
ReportPoorSpec ==
    /\ report = NoReport
    /\ outcome = "PoorSpec"
    /\ report' = [feasibility |-> "not feasible", status |-> "sat", ended |-> "PoorSpec",
                  ctx |-> entered]
    /\ UNCHANGED <<question, entered, seen, regularVars>>

Next == RegularStep \/ TrimContext \/ ReportPoorSpec

Spec == Init /\ [][Next]_vars

-----------------------------------------------------------------------------
(* What the other tools of the schedule rely on                             *)

\* At every moment the assumptions rewritten and those still to be rewritten
\* allow whatever was allowed at first, and there the checks that remain decide
\* the same question; a context is rejected only if nothing satisfies it.
NoModelLost ==
    /\ outcome # "PoorSpec" => Keeps(question, Present)
    /\ outcome = "PoorSpec" => Impossible(question.assumes)
    /\ report # NoReport => Keeps(question, report.ctx)

\* Nor do they allow more than was allowed at first: no fact may support
\* itself, no bound may be dropped by what follows from it alone.  What is
\* reported feasible can therefore happen.
NoModelGained ==
    LET only(assumes) == \A m \in Models : Holds(assumes, m) => Holds(question.assumes, m)
    IN  /\ outcome # "PoorSpec" => only(Present.assumes)
        /\ report # NoReport =>
              /\ only(report.ctx.assumes)
              /\ report.feasibility = "feasible" => ~Impossible(question.assumes)

\* The checks of a context follow from its assumptions.
Proved(ctx) == \A m \in Models : Holds(ctx.assumes, m) => Holds(ctx.checks, m)

\* The verdict is right: what is reported infeasible cannot happen, unsat means
\* that the checks follow from the assumptions, and sat that they do not or
\* that nothing satisfies the assumptions.
VerdictSound ==
    report # NoReport =>
        /\ report.feasibility = "not feasible" => Impossible(question.assumes)
        /\ report.status = "unsat" => Proved(question)
        /\ report.status = "sat" => Impossible(question.assumes) \/ ~Proved(question)

\* Every regular simplification converges within the number of its facts and
\* checks, and the two simplifications never undo each other's work.
Saturates ==
    /\ outcome # "unconverged"
    /\ report # NoReport => report.ended \notin {"passes", "cycle"}

-----------------------------------------------------------------------------
(* What the boxes promise, of the context that is trimmed next              *)

AnswerSound(assumes, terms) ==
    RivalAnswer(assumes, terms) = "not feasible" =>
        \A m \in Models : ~(Holds(assumes, m) /\ Holds(terms, m))

BoxesSound ==
    Trimming =>
        \A trimmed \in {Trimmed(simplified)} :
            /\ IsContext(trimmed)
            /\ Keeps(simplified, trimmed)
            /\ AnswerSound(trimmed.assumes, trimmed.assumes)
            /\ AnswerSound(trimmed.assumes, trimmed.assumes \o trimmed.checks)
=============================================================================
