---------------------------- MODULE EgglogRewrite ----------------------------
(***************************************************************************)
(* The first two tools of every schedule in turns: simplify                 *)
(* (SimplifyWithRival) and egglog_rewrite (zolotone/egglog/egraph.py), each *)
(* on the context that the one before it left.  egglog_rewrite saturates an *)
(* e-graph of the context's terms in which its assumptions hold, discharges *)
(* the checks that hold in it, to be assumptions from now on, and puts      *)
(* cheaper equals in the place of the others.                               *)
(*                                                                         *)
(* What is done to an e-graph is a parameter: EGraph has the operators.     *)
(***************************************************************************)
EXTENDS SimplifyWithRival

CONSTANTS
    Plan,                  \* the schedule of each context: a sequence of tools
    Iterations,            \* iterations of egglog-rewrite
    EGraphOf(_),           \* the e-graph of a context, its assumptions united
    EGraphAfter(_),        \* an iteration of all rules
    Verified(_, _),        \* check_bool of a check in an e-graph
    CheapestEquals(_, _),  \* the cheapest terms for a check in an e-graph
    WorthTheSame(_, _, _)  \* whether two terms have one value under an assignment

VARIABLES
    schedule,          \* the tools still to be run, the present one first
    egraph,            \* the e-graph while egglog-rewrite runs, {} otherwise
    iterations_used,
    simplified_checks, discharged_checks

eggVars == <<egraph, iterations_used, simplified_checks, discharged_checks>>
toolVars == <<vars, schedule, eggVars>>

\* The context that the present tool was given.
Ctx == IF report = NoReport THEN entered ELSE report.ctx

-----------------------------------------------------------------------------
(* The steps                                                                *)

Idle ==
    egraph = {} /\ iterations_used = 0 /\ simplified_checks = <<>> /\ discharged_checks = <<>>

ToolsInit ==
    /\ Init
    /\ schedule = Plan[question]
    /\ Idle

Turn(tool) ==
    /\ schedule # <<>> /\ Head(schedule) = tool
    /\ report # NoReport => report.status = "unknown"

\* A step of simplify; with its report its turn ends.
Simplify ==
    /\ schedule # <<>> /\ Head(schedule) = "simplify"
    /\ Next
    /\ schedule' = IF report' = NoReport THEN schedule ELSE Tail(schedule)
    /\ UNCHANGED eggVars

\* simplify is called on what egglog-rewrite left.
SimplifyAgain ==
    /\ Turn("simplify") /\ report # NoReport
    /\ Enter(report.ctx)
    /\ entered' = report.ctx
    /\ seen' = {report.ctx}
    /\ report' = NoReport
    /\ UNCHANGED <<question, schedule, eggVars>>

StartEgglog ==
    /\ Turn("egglog-rewrite") /\ egraph = {}
    /\ egraph' = EGraphOf(Ctx)
    /\ UNCHANGED <<vars, schedule, iterations_used, simplified_checks, discharged_checks>>

AllVerified == \A i \in DOMAIN Ctx.checks : Verified(Ctx.checks[i], egraph)

\* The check that is looked at next.
NextCheck == Len(simplified_checks) + Len(discharged_checks) + 1

RunIteration ==
    /\ egraph # {} /\ NextCheck = 1
    /\ iterations_used < Iterations /\ ~AllVerified
    /\ egraph' = EGraphAfter(egraph)
    /\ iterations_used' = iterations_used + 1
    /\ UNCHANGED <<vars, schedule, simplified_checks, discharged_checks>>

SimplifyCheck ==
    /\ egraph # {} /\ NextCheck <= Len(Ctx.checks)
    /\ iterations_used = Iterations \/ NextCheck > 1 \/ AllVerified
    /\ LET check == Ctx.checks[NextCheck] IN
       IF Verified(check, egraph)
       THEN /\ discharged_checks' = Append(discharged_checks, check)
            /\ UNCHANGED simplified_checks
       ELSE /\ \E t \in CheapestEquals(check, egraph) :
                  simplified_checks' = Append(simplified_checks, t)
            /\ UNCHANGED discharged_checks
    /\ UNCHANGED <<vars, schedule, egraph, iterations_used>>

NewCtx == [assumes |-> Ctx.assumes \o discharged_checks, checks |-> simplified_checks]

EndEgglog ==
    /\ egraph # {} /\ NextCheck = Len(Ctx.checks) + 1
    /\ report' = [feasibility |-> "unknown", ctx |-> NewCtx, ended |-> "rewritten",
                  status |-> IF simplified_checks = <<>> THEN "unsat" ELSE "unknown"]
    /\ schedule' = Tail(schedule)
    /\ egraph' = {} /\ iterations_used' = 0
    /\ simplified_checks' = <<>> /\ discharged_checks' = <<>>
    /\ UNCHANGED <<question, entered, seen, regularVars>>

ToolsNext ==
    \/ Simplify \/ SimplifyAgain
    \/ StartEgglog \/ RunIteration \/ SimplifyCheck \/ EndEgglog

ToolsSpec == ToolsInit /\ [][ToolsNext]_toolVars

-----------------------------------------------------------------------------
(* What the e-graph promises                                                *)

\* Whatever the rules have made equal has one value wherever the assumptions
\* hold: a node is worth what its class is named after.  The conditional rules
\* may therefore fire only where their premises do.
ClassesAgree ==
    \A m \in {n \in Models : egraph # {} /\ Holds(Ctx.assumes, n)} :
        \A pair \in egraph : WorthTheSame(pair[1], pair[2], m)

\* Of the check that is looked at next: wherever the assumptions hold, a check
\* in the graph holds, and its cheapest equals are worth what it is worth.
AnswersAgree ==
    egraph # {} /\ NextCheck <= Len(Ctx.checks) =>
        LET check == Ctx.checks[NextCheck]
            answers == IF Verified(check, egraph) THEN {True} ELSE CheapestEquals(check, egraph)
        IN  \A m \in Models :
               Holds(Ctx.assumes, m) => \A t \in answers : ValueOf(t, m) = ValueOf(check, m)

\* What the tools take from the operators they call, at every step: rewriting
\* a term by facts, splitting and folding it keep its value wherever the facts
\* hold; a box lost, or found infeasible, has no point that the assumptions
\* allow; and a rewrite rule fires only where both its sides are equal.
RewritingSound == TermsSound /\ BoxesSound /\ ClassesAgree /\ AnswersAgree
=============================================================================
