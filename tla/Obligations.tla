---------------------------- MODULE Obligations ----------------------------
(***************************************************************************)
(* A proof obligation and what an answer to it may say.  A context is seen  *)
(* through the valuations of its variables (points): those that satisfy its *)
(* assumptions and those that satisfy its checks.  The solver asks whether  *)
(* some point satisfies the assumptions and not the checks: "unsat" proves  *)
(* the obligation.                                                          *)
(***************************************************************************)
CONSTANT Points

Statuses      == {"sat", "unsat", "unknown"}
Feasibilities == {"feasible", "not feasible", "unknown"}

Contexts == [assumes : SUBSET Points, checks : SUBSET Points]

Holds(ctx) == ctx.assumes \subseteq ctx.checks

\* What interval analysis may say of a set of assumptions: it is one-sided
\* both ways, and "unknown" commits to nothing.
SoundFeasibility(assumes, feasibility) ==
    /\ feasibility = "feasible" => assumes # {}
    /\ feasibility = "not feasible" => assumes = {}

Answers == [status : Statuses, feasibility : Feasibilities]

\* The answer of a whole schedule: "unsat" is a proof, and an infeasible
\* context is answered "sat" at once.  "sat" promises nothing: dReal answers
\* it whenever the delta-weakened formula is satisfiable.
SoundAnswer(ctx, answer) ==
    /\ answer.status = "unsat" => Holds(ctx)
    /\ SoundFeasibility(ctx.assumes, answer.feasibility)
    /\ answer.feasibility = "not feasible" => answer.status = "sat"

SoundAnswers(ctx) == {answer \in Answers : SoundAnswer(ctx, answer)}
=============================================================================
