---------------------------- MODULE SolverEngine ----------------------------
(***************************************************************************)
(* check_equivalence (zolotone/solver/engine.py): a schedule of tools runs  *)
(* on one context.  A tool may return several reports; each opens a track   *)
(* of its own, and the next tool runs on every track.  The first "sat" or   *)
(* "unsat" report met ends the run with the trace of its track.             *)
(***************************************************************************)
EXTENDS Obligations, Integers, Sequences

CONSTANTS
    Schedules,  \* the normalized schedules: sequences of tools
    MaxReports  \* bound: reports that one tool call returns

Tools == {"simplify", "egglog-rewrite", "z3", "dreal"}

\* A round of the default schedule, schedules that end in dReal, which decides
\* everything, and the empty one.
SomeSchedules == {<<"simplify", "egglog-rewrite", "z3">>,
                  <<"z3", "dreal">>, <<"egglog-rewrite", "dreal">>, <<>>}

ASSUME SchedulesAssumption == Schedules \subseteq Seq(Tools)
ASSUME MaxReportsAssumption == MaxReports \in Nat

VARIABLES
    pc,          \* "running", or "done"
    goal,        \* the context check_equivalence was given
    schedule,    \* and the schedule
    step,        \* number of the current schedule step
    index,       \* position in the zip over the current tracks
    tracks,      \* current_tracks
    ctxs,        \* current_ctxs
    nextTracks,  \* next_tracks
    nextCtxs,    \* next_ctxs
    verdict      \* what is returned: a status and a proof trace

vars == <<pc, goal, schedule, step, index, tracks, ctxs, nextTracks, nextCtxs,
          verdict>>

Reports == [tool : Tools, old : Contexts, new : Contexts,
            status : Statuses, feasibility : Feasibilities]

Report(tool, old, new, status, feasibility) ==
    [tool |-> tool, old |-> old, new |-> new,
     status |-> status, feasibility |-> feasibility]

-----------------------------------------------------------------------------
\* Bug: a rewriting may use a fact the assumptions do not give.
CarelessRewritings(ctx) ==
    {[assumes |-> ctx.assumes, checks |-> kept] :
        kept \in {kept \in SUBSET Points : ctx.checks \subseteq kept}}

\* Rewriting under the assumptions leaves them, and the checks where they
\* hold.  A check that egglog discharges joins the assumptions it follows
\* from, which does not change their points either.
Rewritings(ctx) ==
    {[assumes |-> ctx.assumes, checks |-> kept] :
        kept \in {kept \in SUBSET Points :
                     kept \cap ctx.assumes = ctx.checks \cap ctx.assumes}}

\* simplify_ctx.  No check is left only where all of them follow; a false
\* check, or checks that contradict the assumptions, give "sat".
Simplify(ctx) ==
    {Report("simplify", ctx, new, status, feasibility) :
        new \in Rewritings(ctx),
        status \in {s \in Statuses :
                       /\ s = "unsat" => Holds(ctx)
                       /\ s = "sat" => ctx.assumes \cap ctx.checks = {}},
        feasibility \in {f \in {"feasible", "unknown"} :
                            SoundFeasibility(ctx.assumes, f)}}
    \cup {Report("simplify", ctx, new, "sat", "not feasible") :
             new \in {c \in Rewritings(ctx) : ctx.assumes = {}}}

\* egglog_rewrite never answers "sat" and says nothing of feasibility.
Rewrite(ctx) ==
    {Report("egglog-rewrite", ctx, new, status, "unknown") :
        new \in Rewritings(ctx),
        status \in {s \in {"unsat", "unknown"} : s = "unsat" => Holds(ctx)}}

\* z3_check_eq, within its timeout
AskZ3(ctx) ==
    {Report("z3", ctx, ctx, status, "unknown") :
        status \in {s \in Statuses : /\ s = "unsat" => Holds(ctx)
                                     /\ s = "sat" => ~Holds(ctx)}}

\* dreal_check_eq: what is not refuted is "sat", up to its precision.
AskDReal(ctx) ==
    {Report("dreal", ctx, ctx, status, "unknown") :
        status \in {s \in {"sat", "unsat"} : s = "unsat" => Holds(ctx)}}

RunTool(tool, ctx) ==
    CASE tool = "simplify"       -> Simplify(ctx)
      [] tool = "egglog-rewrite" -> Rewrite(ctx)
      [] tool = "z3"             -> AskZ3(ctx)
      [] tool = "dreal"          -> AskDReal(ctx)

-----------------------------------------------------------------------------
Init ==
    /\ pc = "running"
    /\ goal \in Contexts /\ schedule \in Schedules
    /\ step = 1 /\ index = 1
    /\ tracks = <<<<>>>> /\ ctxs = <<goal>>
    /\ nextTracks = <<>> /\ nextCtxs = <<>>
    /\ verdict = [status |-> "unknown", trace |-> <<>>]

Decisive(report) == report.status \in {"sat", "unsat"}

InStep == pc = "running" /\ step <= Len(schedule)

\* The first decisive report of the call ends the run; the reports before it
\* have opened tracks that are abandoned.
Decide(reports) ==
    /\ pc' = "done"
    /\ \E i \in 1 .. Len(reports) :
          /\ Decisive(reports[i])
          /\ \A j \in 1 .. i - 1 : ~Decisive(reports[j])
          /\ verdict' = [status |-> reports[i].status,
                         trace  |-> Append(tracks[index], reports[i])]
    /\ UNCHANGED <<goal, schedule, step, index, tracks, ctxs, nextTracks,
                   nextCtxs>>

\* Bug: the new context is filed in front, its track behind.
FileContextFirst(reports) ==
    /\ nextTracks' = nextTracks \o
          [i \in 1 .. Len(reports) |-> Append(tracks[index], reports[i])]
    /\ nextCtxs' = [i \in 1 .. Len(reports) |-> reports[i].new] \o nextCtxs
    /\ index' = index + 1
    /\ UNCHANGED <<pc, goal, schedule, step, tracks, ctxs, verdict>>

\* Every report opens a track: the trace so far and the report's new context.
Branch(reports) ==
    /\ nextTracks' = nextTracks \o
          [i \in 1 .. Len(reports) |-> Append(tracks[index], reports[i])]
    /\ nextCtxs' = nextCtxs \o [i \in 1 .. Len(reports) |-> reports[i].new]
    /\ index' = index + 1
    /\ UNCHANGED <<pc, goal, schedule, step, tracks, ctxs, verdict>>

RunOnTrack ==
    /\ InStep
    /\ index <= Len(tracks)
    /\ \E n \in 0 .. MaxReports :
       \E reports \in [1 .. n -> RunTool(schedule[step], ctxs[index])] :
          IF \E i \in 1 .. n : Decisive(reports[i])
          THEN Decide(reports)
          ELSE Branch(reports)

\* Bug: the last tool of the schedule is not run.
SkipLastStep ==
    /\ InStep
    /\ index > Len(tracks)
    /\ step' = IF step + 1 = Len(schedule) THEN step + 2 ELSE step + 1
    /\ index' = 1
    /\ tracks' = nextTracks /\ ctxs' = nextCtxs
    /\ nextTracks' = <<>> /\ nextCtxs' = <<>>
    /\ UNCHANGED <<pc, goal, schedule, verdict>>

NextStep ==
    /\ InStep
    /\ index > Len(tracks)
    /\ step' = step + 1
    /\ index' = 1
    /\ tracks' = nextTracks /\ ctxs' = nextCtxs
    /\ nextTracks' = <<>> /\ nextCtxs' = <<>>
    /\ UNCHANGED <<pc, goal, schedule, verdict>>

\* Bug: a run whose tracks have all died out has nothing to return.
GiveUpOnTrack ==
    /\ pc = "running"
    /\ step > Len(schedule) /\ tracks # <<>>
    /\ pc' = "done"
    /\ verdict' = [status |-> "unknown", trace |-> tracks[1]]
    /\ UNCHANGED <<goal, schedule, step, index, tracks, ctxs, nextTracks,
                   nextCtxs>>

\* The schedule is exhausted: the first track stands for all of them.
GiveUp ==
    /\ pc = "running"
    /\ step > Len(schedule)
    /\ pc' = "done"
    /\ verdict' = [status |-> "unknown",
                   trace  |-> IF tracks = <<>> THEN <<>> ELSE tracks[1]]
    /\ UNCHANGED <<goal, schedule, step, index, tracks, ctxs, nextTracks,
                   nextCtxs>>

Next == RunOnTrack \/ NextStep \/ GiveUp

Spec == Init /\ [][Next]_vars /\ WF_vars(Next)

-----------------------------------------------------------------------------
Traces == Seq(Reports)

\* The type invariant: every list holds reports, or contexts, of this goal.
TypeOK ==
    /\ pc \in {"running", "done"}
    /\ goal \in Contexts /\ schedule \in Schedules
    /\ step \in 1 .. Len(schedule) + 1
    /\ index \in Nat \ {0}
    /\ tracks \in Seq(Traces) /\ nextTracks \in Seq(Traces)
    /\ ctxs \in Seq(Contexts) /\ nextCtxs \in Seq(Contexts)
    /\ verdict \in [status : Statuses, trace : Traces]

\* What the case verifiers read off the run: the status, and the feasibility
\* that the first report of the trace carries.
Answer ==
    [status      |-> verdict.status,
     feasibility |-> IF verdict.trace = <<>> THEN "unknown"
                     ELSE verdict.trace[1].feasibility]

\* However many tracks and rewritings lie in between, "unsat" proves the
\* context the engine was given, and the feasibility it passes on is that
\* context's own: check_equivalence returns a sound answer.
AnswerSound == pc = "done" => SoundAnswer(goal, Answer)

\* A returned trace is one chain of tool runs: it starts at the goal and each
\* tool worked on what the tool before it left, so no track continues with
\* the context of another.
TraceChained ==
    LET trace == verdict.trace
    IN  \A i \in 1 .. Len(trace) :
          trace[i].old = IF i = 1 THEN goal ELSE trace[i - 1].new

\* "unknown" means the whole schedule ran and decided nothing; a decisive
\* report is the last of its trace and gives the status.
UnknownMeansExhausted ==
    pc = "done" =>
        LET trace == verdict.trace
        IN  /\ \A i \in 1 .. Len(trace) - 1 : ~Decisive(trace[i])
            /\ IF verdict.status = "unknown"
               THEN trace = <<>> \/ ( /\ Len(trace) = Len(schedule)
                                      /\ ~Decisive(trace[Len(trace)]) )
               ELSE trace[Len(trace)].status = verdict.status

Solver == INSTANCE SoundSolver WITH
    question <- goal,
    reply    <- IF pc = "done" THEN <<Answer>> ELSE <<>>

\* Every schedule, its tracks multiplying or dying out, comes to one answer, and
\* to a sound one: the engine is the solver that the case verifiers rely on.
ImplementsSolver == Solver!Spec
=============================================================================
