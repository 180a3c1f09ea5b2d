------------------------ MODULE SolverEngine_proofs ------------------------
(***************************************************************************)
(* Why the engine's answer is about the context it was given, for every     *)
(* schedule, every number of reports and every depth of tracks: each live   *)
(* track is a chain of undecided reports from the goal, and the context it  *)
(* has come to states the goal's own obligation.                            *)
(***************************************************************************)
EXTENDS SolverEngine, SequenceTheorems, TLAPS

\* Same assumptions, and under them the same checks
SameObligation(old, new) ==
    /\ new.assumes = old.assumes
    /\ new.checks \cap new.assumes = old.checks \cap old.assumes

\* A track that n tools have left undecided, and the context it has come to
Alive(trace, ctx, n) ==
    /\ trace \in Traces /\ Len(trace) = n
    /\ \A i \in 1 .. n :
          /\ trace[i].old = IF i = 1 THEN goal ELSE trace[i - 1].new
          /\ ~Decisive(trace[i])
          /\ trace[i].feasibility # "not feasible"
          /\ SoundFeasibility(goal.assumes, trace[i].feasibility)
    /\ ctx = IF n = 0 THEN goal ELSE trace[n].new
    /\ ctx \in Contexts /\ SameObligation(goal, ctx)

\* The zip pairs every track with the context it left.
TracksOK ==
    /\ Len(ctxs) = Len(tracks) /\ Len(nextCtxs) = Len(nextTracks)
    /\ \A i \in 1 .. Len(tracks) : Alive(tracks[i], ctxs[i], step - 1)
    /\ \A i \in 1 .. Len(nextTracks) : Alive(nextTracks[i], nextCtxs[i], step)

Inv ==
    /\ TypeOK
    /\ pc = "running" => TracksOK /\ verdict.trace = <<>>
    /\ AnswerSound /\ TraceChained /\ UnknownMeansExhausted

-----------------------------------------------------------------------------
\* Every tool reports on the context it was called with, leaves its
\* obligation as it was, and answers soundly; only "sat" goes with a context
\* found infeasible.
LEMMA ToolsSound ==
  ASSUME NEW tool \in Tools, NEW ctx \in Contexts, NEW r \in RunTool(tool, ctx)
  PROVE  /\ r \in Reports /\ r.old = ctx /\ SameObligation(ctx, r.new)
         /\ r.status = "unsat" => Holds(ctx)
         /\ SoundFeasibility(ctx.assumes, r.feasibility)
         /\ r.feasibility = "not feasible" => r.status = "sat"
<1>1. \A new \in Rewritings(ctx) : new \in Contexts /\ SameObligation(ctx, new)
  BY DEF Rewritings, SameObligation, Contexts
<1>2. SameObligation(ctx, ctx)
  BY DEF SameObligation
<1>3. ASSUME NEW new \in Rewritings(ctx) \cup {ctx}, NEW status \in Statuses,
             NEW feasibility \in Feasibilities,
             r = Report(tool, ctx, new, status, feasibility),
             status = "unsat" => Holds(ctx),
             SoundFeasibility(ctx.assumes, feasibility),
             feasibility = "not feasible" => status = "sat"
      PROVE  /\ r \in Reports /\ r.old = ctx /\ SameObligation(ctx, r.new)
             /\ r.status = "unsat" => Holds(ctx)
             /\ SoundFeasibility(ctx.assumes, r.feasibility)
             /\ r.feasibility = "not feasible" => r.status = "sat"
  BY <1>1, <1>2, <1>3 DEF Report, Reports
<1> USE DEF Statuses, Feasibilities, SoundFeasibility
<1>4. CASE tool = "simplify"
  <2>1. r \in Simplify(ctx)
    BY <1>4 DEF RunTool
  <2> DEFINE statuses ==
                {s \in Statuses : /\ s = "unsat" => Holds(ctx)
                                  /\ s = "sat" => ctx.assumes \cap ctx.checks = {}}
             open == {f \in {"feasible", "unknown"} : SoundFeasibility(ctx.assumes, f)}
             dead == {c \in Rewritings(ctx) : ctx.assumes = {}}
             answered == {Report("simplify", ctx, new, status, feasibility) :
                              new \in Rewritings(ctx), status \in statuses,
                              feasibility \in open}
             refused == {Report("simplify", ctx, new, "sat", "not feasible") : new \in dead}
  <2>2. CASE r \in answered
    <3> HIDE DEF statuses, open
    <3>1. PICK new \in Rewritings(ctx), status \in statuses, feasibility \in open :
             r = Report("simplify", ctx, new, status, feasibility)
      BY <2>2
    <3> QED
      BY <1>3, <1>4, <3>1 DEF statuses, open
  <2>3. CASE r \in refused
    <3>1. PICK new \in dead : r = Report("simplify", ctx, new, "sat", "not feasible")
      BY <2>3, Zenon
    <3> QED
      BY <1>3, <1>4, <3>1
  <2>4. Simplify(ctx) = answered \cup refused
    BY DEF Simplify
  <2> HIDE DEF answered, refused
  <2> QED
    BY <2>1, <2>2, <2>3, <2>4
<1>5. CASE tool = "egglog-rewrite"
  <2>0. r \in Rewrite(ctx)
    BY <1>5 DEF RunTool
  <2>1. PICK new \in Rewritings(ctx) : \E status \in {"unsat", "unknown"} :
           /\ r = Report(tool, ctx, new, status, "unknown")
           /\ status = "unsat" => Holds(ctx)
    BY <1>5, <2>0 DEF Rewrite
  <2> QED
    BY <1>3, <2>1
<1>6. CASE tool = "z3"
  <2>0. r \in AskZ3(ctx)
    BY <1>6 DEF RunTool
  <2>1. PICK status \in Statuses : /\ r = Report(tool, ctx, ctx, status, "unknown")
                                   /\ status = "unsat" => Holds(ctx)
    BY <1>6, <2>0 DEF AskZ3
  <2> QED
    BY <1>3, <2>1
<1>7. CASE tool = "dreal"
  <2>0. r \in AskDReal(ctx)
    BY <1>7 DEF RunTool
  <2>1. PICK status \in Statuses : /\ r = Report(tool, ctx, ctx, status, "unknown")
                                   /\ status = "unsat" => Holds(ctx)
    BY <1>7, <2>0 DEF AskDReal
  <2> QED
    BY <1>3, <2>1
<1> QED
  BY <1>4, <1>5, <1>6, <1>7 DEF Tools

\* Obligations that agree where they are assumed hold together.
LEMMA HoldsTogether ==
  ASSUME NEW old, NEW new, SameObligation(old, new)
  PROVE  Holds(new) <=> Holds(old)
BY DEF SameObligation, Holds

LEMMA InitInv == Init => Inv
<1> SUFFICES ASSUME Init PROVE Inv
  OBVIOUS
<1>1. schedule \in Seq(Tools) /\ goal \in Contexts
  BY SchedulesAssumption DEF Init
<1>2. Len(tracks) = 1 /\ tracks[1] = <<>> /\ Len(ctxs) = 1 /\ ctxs[1] = goal
  BY DEF Init
<1>3. Alive(tracks[1], ctxs[1], step - 1)
  BY <1>1, <1>2 DEF Init, Alive, SameObligation, Traces
<1>4. TracksOK
  BY <1>2, <1>3 DEF Init, TracksOK
<1>5. TypeOK
  BY <1>1 DEF Init, TypeOK, Traces, Statuses
<1> QED
  BY <1>4, <1>5 DEF Init, Inv, AnswerSound, TraceChained, UnknownMeansExhausted

\* What holds whenever a tool runs on a track.
LEMMA OnTrack ==
  ASSUME Inv, InStep, index <= Len(tracks)
  PROVE  /\ index \in 1 .. Len(tracks) /\ step \in 1 .. Len(schedule)
         /\ Alive(tracks[index], ctxs[index], step - 1)
         /\ schedule[step] \in Tools /\ step - 1 \in Nat
<1>1. schedule \in Seq(Tools) /\ tracks \in Seq(Traces)
  BY SchedulesAssumption DEF Inv, TypeOK
<1>2. index \in 1 .. Len(tracks) /\ step \in 1 .. Len(schedule)
  BY <1>1 DEF Inv, TypeOK, InStep
<1> QED
  BY <1>1, <1>2 DEF Inv, TracksOK, InStep

\* Appending to a sequence of known length.
LEMMA Appended ==
  ASSUME NEW S, NEW seq \in Seq(S), NEW e \in S, NEW longer, longer = Append(seq, e)
  PROVE  /\ longer \in Seq(S) /\ Len(longer) = Len(seq) + 1 /\ longer[Len(seq) + 1] = e
         /\ \A i \in 1 .. Len(seq) : longer[i] = seq[i]
OBVIOUS

\* A track of n reports that ends in r, the first that may be decisive
Extension(track, r, n) ==
    /\ track \in Traces /\ Len(track) = n /\ track[n] = r /\ r \in Reports
    /\ \A i \in 1 .. n - 1 : ~Decisive(track[i])
    /\ \A i \in 1 .. n :
          track[i].old = IF i = 1 THEN goal ELSE track[i - 1].new
    /\ SoundFeasibility(goal.assumes, track[1].feasibility)
    /\ track[1].feasibility = "not feasible" => r.status = "sat"
    /\ r.status = "unsat" => Holds(goal)
    /\ ~Decisive(r) => Alive(track, r.new, n)

\* A report takes the track it is appended to one tool further.
LEMMA Extended ==
  ASSUME goal \in Contexts, NEW trace, NEW ctx, NEW n \in Nat, NEW tool \in Tools,
         Alive(trace, ctx, n), NEW r \in RunTool(tool, ctx),
         NEW longer, longer = Append(trace, r)
  PROVE  Extension(longer, r, n + 1)
<1>1. /\ r \in Reports /\ r.old = ctx /\ SameObligation(ctx, r.new)
      /\ r.status = "unsat" => Holds(ctx)
      /\ SoundFeasibility(ctx.assumes, r.feasibility)
      /\ r.feasibility = "not feasible" => r.status = "sat"
  BY ToolsSound DEF Alive
<1>2. trace \in Seq(Reports) /\ Len(trace) = n
  BY DEF Alive, Traces
<1>3. /\ longer \in Traces /\ Len(longer) = n + 1 /\ longer[n + 1] = r
      /\ \A i \in 1 .. n : longer[i] = trace[i]
  <2>1. r \in Reports
    BY <1>1
  <2>2. /\ longer \in Seq(Reports) /\ Len(longer) = Len(trace) + 1
        /\ longer[Len(trace) + 1] = r
        /\ \A i \in 1 .. Len(trace) : longer[i] = trace[i]
    BY <1>2, <2>1
  <2> QED
    BY <1>2, <2>2 DEF Traces
<1>4. ctx.assumes = goal.assumes /\ (Holds(ctx) <=> Holds(goal))
  BY HoldsTogether DEF Alive, SameObligation
<1>5. \A i \in 1 .. n : /\ ~Decisive(longer[i])
                        /\ longer[i].feasibility # "not feasible"
                        /\ SoundFeasibility(goal.assumes, longer[i].feasibility)
  BY <1>3 DEF Alive, Decisive
<1>6. \A i \in 1 .. n + 1 :
         longer[i].old = IF i = 1 THEN goal ELSE longer[i - 1].new
  <2>1. ctx = IF n = 0 THEN goal ELSE trace[n].new
    BY DEF Alive
  <2>2. n # 0 => n \in 1 .. n
    OBVIOUS
  <2>3. r.old = IF n = 0 THEN goal ELSE longer[n].new
    BY <1>1, <1>3, <2>1, <2>2
  <2>4. ASSUME NEW i \in 1 .. n
        PROVE  longer[i].old = IF i = 1 THEN goal ELSE longer[i - 1].new
    <3>1. trace[i].old = IF i = 1 THEN goal ELSE trace[i - 1].new
      BY DEF Alive
    <3>2. i # 1 => i - 1 \in 1 .. n
      OBVIOUS
    <3> QED
      BY <1>3, <3>1, <3>2
  <2> QED
    <3>1. longer[n + 1].old = IF n + 1 = 1 THEN goal ELSE longer[n].new
      BY <1>3, <2>3
    <3>2. \A i \in 1 .. n + 1 : i \in 1 .. n \/ (i = n + 1 /\ i - 1 = n)
      OBVIOUS
    <3> QED
      BY <2>4, <3>1, <3>2
<1>7. SoundFeasibility(goal.assumes, r.feasibility)
  BY <1>1, <1>4
<1>8. /\ SoundFeasibility(goal.assumes, longer[1].feasibility)
      /\ longer[1].feasibility = "not feasible" => n = 0 /\ r.status = "sat"
  <2>1. CASE n = 0
    <3>1. longer[1] = r
      BY <1>3, <2>1
    <3> QED
      BY <1>1, <1>7, <2>1, <3>1
  <2>2. CASE n # 0
    <3>1. 1 \in 1 .. n
      BY <2>2
    <3> QED
      BY <1>5, <3>1
  <2> QED
    BY <2>1, <2>2
<1>9. r.new \in Contexts /\ SameObligation(goal, r.new)
  BY <1>1 DEF Alive, SameObligation, Reports
<1>10. ASSUME ~Decisive(r) PROVE Alive(longer, r.new, n + 1)
  <2>1. \A i \in 1 .. n + 1 : /\ ~Decisive(longer[i])
                              /\ longer[i].feasibility # "not feasible"
                              /\ SoundFeasibility(goal.assumes, longer[i].feasibility)
    <3>1. ~Decisive(longer[n + 1]) /\ longer[n + 1].feasibility # "not feasible"
      BY <1>1, <1>3, <1>10 DEF Decisive
    <3>2. SoundFeasibility(goal.assumes, longer[n + 1].feasibility)
      BY <1>3, <1>7
    <3>3. \A i \in 1 .. n + 1 : i \in 1 .. n \/ i = n + 1
      OBVIOUS
    <3> QED
      BY <1>5, <3>1, <3>2, <3>3
  <2>2. r.new = IF n + 1 = 0 THEN goal ELSE longer[n + 1].new
    BY <1>3
  <2> QED
    BY <1>3, <1>6, <1>9, <2>1, <2>2, Zenon DEF Alive
<1>11. (n + 1) - 1 = n
  OBVIOUS
<1> QED
  BY <1>1, <1>3, <1>4, <1>5, <1>6, <1>8, <1>10, <1>11 DEF Extension

\* The reports of one tool call; what each makes of the track it ran on.
LEMMA Called ==
  ASSUME Inv, InStep, index <= Len(tracks), NEW n \in Nat,
         NEW reports \in [1 .. n -> RunTool(schedule[step], ctxs[index])],
         NEW i \in 1 .. n, NEW longer, longer = Append(tracks[index], reports[i])
  PROVE  Extension(longer, reports[i], step)
<1>1. /\ step - 1 \in Nat /\ (step - 1) + 1 = step
      /\ Alive(tracks[index], ctxs[index], step - 1) /\ schedule[step] \in Tools
  BY OnTrack
<1>2. goal \in Contexts
  BY DEF Inv, TypeOK
<1>3. reports[i] \in RunTool(schedule[step], ctxs[index])
  OBVIOUS
<1>4. Extension(longer, reports[i], (step - 1) + 1)
  BY <1>1, <1>2, <1>3, Extended
<1> QED
  BY <1>1, <1>4

\* A decisive report ends the run with a sound answer and a whole trace.
LEMMA DecideInv ==
  ASSUME Inv, InStep, index <= Len(tracks), NEW n \in Nat,
         NEW reports \in [1 .. n -> RunTool(schedule[step], ctxs[index])],
         Len(reports) = n, Decide(reports)
  PROVE  Inv'
<1>1. PICK i \in 1 .. n :
         /\ Decisive(reports[i])
         /\ verdict' = [status |-> reports[i].status,
                        trace  |-> Append(tracks[index], reports[i])]
  BY DEF Decide
<1>2. /\ pc' = "done"
      /\ UNCHANGED <<goal, schedule, step, index, tracks, ctxs, nextTracks, nextCtxs>>
  BY DEF Decide
<1> DEFINE longer == Append(tracks[index], reports[i])
           r == reports[i]
<1>0. i \in 1 .. n /\ longer = Append(tracks[index], reports[i])
  OBVIOUS
<1> HIDE DEF longer
<1>3. Extension(longer, r, step)
  BY <1>0, Called
<1>4. verdict' = [status |-> r.status, trace |-> longer] /\ Decisive(r)
  BY <1>1 DEF longer
<1>5. step \in Nat /\ step # 0
  BY OnTrack
<1> HIDE DEF r
<1>6. r.status \in Statuses /\ r.status \in {"sat", "unsat"}
  BY <1>3, <1>4 DEF Reports, Decisive, Extension
<1>7. verdict'.status = r.status /\ verdict'.trace = longer
  BY <1>4
<1>8. longer # <<>>
  <2>1. Len(longer) # Len(<<>>)
    BY <1>3, <1>5 DEF Extension
  <2> QED
    BY <2>1, Zenon
<1>9. TypeOK'
  BY <1>2, <1>3, <1>4, <1>6 DEF Inv, TypeOK, Extension
<1>10. AnswerSound'
  BY <1>2, <1>3, <1>7, <1>8 DEF AnswerSound, SoundAnswer, Answer, Extension
<1>11. TraceChained'
  BY <1>2, <1>3, <1>7 DEF TraceChained, Extension
<1>12. UnknownMeansExhausted'
  BY <1>2, <1>3, <1>6, <1>7 DEF UnknownMeansExhausted, Decisive, Extension
<1> QED
  BY <1>2, <1>9, <1>10, <1>11, <1>12 DEF Inv

\* Putting a family of values behind a sequence.
LEMMA Concatenated ==
  ASSUME NEW S, NEW seq \in Seq(S), NEW n \in Nat, NEW f \in [1 .. n -> S]
  PROVE  /\ seq \o f \in Seq(S) /\ Len(seq \o f) = Len(seq) + n
         /\ \A i \in 1 .. Len(seq) : (seq \o f)[i] = seq[i]
         /\ \A i \in Len(seq) + 1 .. Len(seq) + n : (seq \o f)[i] = f[i - Len(seq)]
<1>1. f \in Seq(S) /\ Len(f) = n
  OBVIOUS
<1>2. /\ seq \o f \in Seq(S) /\ Len(seq \o f) = Len(seq) + n
      /\ \A i \in 1 .. Len(seq) + n :
            (seq \o f)[i] = IF i <= Len(seq) THEN seq[i] ELSE f[i - Len(seq)]
  BY <1>1, ConcatProperties
<1> QED
  BY <1>2

\* Undecided reports open tracks, each with the context its report left.
LEMMA BranchInv ==
  ASSUME Inv, InStep, index <= Len(tracks), NEW n \in Nat,
         NEW reports \in [1 .. n -> RunTool(schedule[step], ctxs[index])],
         Len(reports) = n, \A i \in 1 .. n : ~Decisive(reports[i]),
         Branch(reports)
  PROVE  Inv'
<1> DEFINE opened == [i \in 1 .. n |-> Append(tracks[index], reports[i])]
           left == [i \in 1 .. n |-> reports[i].new]
<1>1. /\ nextTracks' = nextTracks \o opened /\ nextCtxs' = nextCtxs \o left
      /\ index' = index + 1
      /\ UNCHANGED <<pc, goal, schedule, step, tracks, ctxs, verdict>>
  BY DEF Branch
<1>2. ASSUME NEW i \in 1 .. n
      PROVE  Alive(opened[i], left[i], step)
  <2>1. Extension(opened[i], reports[i], step)
    BY Called
  <2> QED
    BY <2>1 DEF Extension
<1>3. opened \in [1 .. n -> Traces] /\ left \in [1 .. n -> Contexts]
  <2>1. \A i \in 1 .. n : opened[i] \in Traces /\ left[i] \in Contexts
    BY <1>2 DEF Alive
  <2> QED
    BY <2>1
<1> HIDE DEF opened, left
<1>4. /\ nextTracks \in Seq(Traces) /\ nextCtxs \in Seq(Contexts)
      /\ Len(nextCtxs) = Len(nextTracks) /\ pc = "running" /\ TracksOK
  BY DEF Inv, TypeOK, TracksOK, InStep
<1>5. /\ nextTracks' \in Seq(Traces) /\ Len(nextTracks') = Len(nextTracks) + n
      /\ \A i \in 1 .. Len(nextTracks) : nextTracks'[i] = nextTracks[i]
      /\ \A i \in Len(nextTracks) + 1 .. Len(nextTracks) + n :
            nextTracks'[i] = opened[i - Len(nextTracks)]
  <2>1. nextTracks \in Seq(Traces) /\ opened \in [1 .. n -> Traces]
    BY <1>3, <1>4
  <2>2. nextTracks' = nextTracks \o opened
    BY <1>1
  <2>3. /\ nextTracks \o opened \in Seq(Traces)
        /\ Len(nextTracks \o opened) = Len(nextTracks) + n
        /\ \A i \in 1 .. Len(nextTracks) : (nextTracks \o opened)[i] = nextTracks[i]
        /\ \A i \in Len(nextTracks) + 1 .. Len(nextTracks) + n :
              (nextTracks \o opened)[i] = opened[i - Len(nextTracks)]
    BY <2>1, Concatenated
  <2> QED
    BY <2>2, <2>3
<1>6. /\ nextCtxs' \in Seq(Contexts) /\ Len(nextCtxs') = Len(nextCtxs) + n
      /\ \A i \in 1 .. Len(nextCtxs) : nextCtxs'[i] = nextCtxs[i]
      /\ \A i \in Len(nextCtxs) + 1 .. Len(nextCtxs) + n :
            nextCtxs'[i] = left[i - Len(nextCtxs)]
  <2>1. nextCtxs \in Seq(Contexts) /\ left \in [1 .. n -> Contexts]
    BY <1>3, <1>4
  <2>2. nextCtxs' = nextCtxs \o left
    BY <1>1
  <2>3. /\ nextCtxs \o left \in Seq(Contexts)
        /\ Len(nextCtxs \o left) = Len(nextCtxs) + n
        /\ \A i \in 1 .. Len(nextCtxs) : (nextCtxs \o left)[i] = nextCtxs[i]
        /\ \A i \in Len(nextCtxs) + 1 .. Len(nextCtxs) + n :
              (nextCtxs \o left)[i] = left[i - Len(nextCtxs)]
    BY <2>1, Concatenated
  <2> QED
    BY <2>2, <2>3
<1>7. \A trace, ctx, m : Alive(trace, ctx, m)' <=> Alive(trace, ctx, m)
  BY <1>1 DEF Alive
<1>8. ASSUME NEW i \in 1 .. Len(nextTracks')
      PROVE  Alive(nextTracks'[i], nextCtxs'[i], step)
  <2>1. CASE i \in 1 .. Len(nextTracks)
    BY <1>4, <1>5, <1>6, <2>1 DEF TracksOK
  <2>2. CASE i \in Len(nextTracks) + 1 .. Len(nextTracks) + n
    <3>1. i - Len(nextTracks) \in 1 .. n
      BY <1>4, <2>2
    <3> QED
      BY <1>2, <1>4, <1>5, <1>6, <2>2, <3>1
  <2> QED
    BY <1>4, <1>5, <2>1, <2>2
<1>9. TracksOK'
  BY <1>1, <1>4, <1>5, <1>6, <1>7, <1>8 DEF TracksOK
<1>10. TypeOK'
  BY <1>1, <1>5, <1>6 DEF Inv, TypeOK
<1> QED
  BY <1>1, <1>4, <1>9, <1>10
     DEF Inv, AnswerSound, TraceChained, UnknownMeansExhausted

LEMMA RunOnTrackInv == Inv /\ RunOnTrack => Inv'
<1> SUFFICES ASSUME Inv, RunOnTrack PROVE Inv'
  OBVIOUS
<1>1. InStep /\ index <= Len(tracks)
  BY DEF RunOnTrack
<1>2. PICK n \in 0 .. MaxReports :
        \E reports \in [1 .. n -> RunTool(schedule[step], ctxs[index])] :
           IF \E i \in 1 .. n : Decisive(reports[i])
           THEN Decide(reports) ELSE Branch(reports)
  BY DEF RunOnTrack
<1>3. PICK reports \in [1 .. n -> RunTool(schedule[step], ctxs[index])] :
           IF \E i \in 1 .. n : Decisive(reports[i])
           THEN Decide(reports) ELSE Branch(reports)
  BY <1>2
<1>4. n \in Nat /\ Len(reports) = n
  BY <1>2, MaxReportsAssumption
<1>5. CASE \E i \in 1 .. n : Decisive(reports[i])
  BY <1>1, <1>3, <1>4, <1>5, DecideInv
<1>6. CASE \A i \in 1 .. n : ~Decisive(reports[i])
  BY <1>1, <1>3, <1>4, <1>6, BranchInv
<1> QED
  BY <1>5, <1>6

LEMMA NextStepInv == Inv /\ NextStep => Inv'
<1> SUFFICES ASSUME Inv, NextStep PROVE Inv'
  OBVIOUS
<1>1. /\ pc = "running" /\ step <= Len(schedule) /\ step' = step + 1 /\ index' = 1
      /\ tracks' = nextTracks /\ ctxs' = nextCtxs
      /\ nextTracks' = <<>> /\ nextCtxs' = <<>>
      /\ UNCHANGED <<pc, goal, schedule, verdict>>
  BY DEF NextStep, InStep
<1>2. schedule \in Seq(Tools)
  BY SchedulesAssumption DEF Inv, TypeOK
<1>3. step \in Nat /\ step' \in 1 .. Len(schedule) + 1 /\ step' - 1 = step
  BY <1>1, <1>2 DEF Inv, TypeOK
<1>4. TypeOK'
  BY <1>1, <1>3 DEF Inv, TypeOK
<1>5. \A trace, ctx, m : Alive(trace, ctx, m)' <=> Alive(trace, ctx, m)
  BY <1>1 DEF Alive
<1>6. TracksOK'
  <2>1. Len(ctxs') = Len(tracks')
    BY <1>1 DEF Inv, TracksOK
  <2>2. \A i \in 1 .. Len(tracks') : Alive(tracks'[i], ctxs'[i], step' - 1)
    BY <1>1, <1>3 DEF Inv, TracksOK
  <2>3. Len(nextTracks') = 0 /\ Len(nextCtxs') = 0
    BY <1>1
  <2> QED
    BY <1>5, <2>1, <2>2, <2>3 DEF TracksOK
<1> QED
  BY <1>1, <1>4, <1>6
     DEF Inv, AnswerSound, TraceChained, UnknownMeansExhausted

LEMMA GiveUpInv == Inv /\ GiveUp => Inv'
<1> SUFFICES ASSUME Inv, GiveUp PROVE Inv'
  OBVIOUS
<1> DEFINE trace == IF tracks = <<>> THEN <<>> ELSE tracks[1]
           n == Len(schedule)
<1>1. /\ pc = "running" /\ pc' = "done" /\ step > Len(schedule)
      /\ verdict' = [status |-> "unknown", trace |-> trace]
      /\ UNCHANGED <<goal, schedule, step, index, tracks, ctxs, nextTracks, nextCtxs>>
  BY DEF GiveUp
<1>2. schedule \in Seq(Tools) /\ tracks \in Seq(Traces)
  BY SchedulesAssumption DEF Inv, TypeOK
<1>3. n \in Nat /\ step - 1 = n
  <2>1. Len(schedule) \in Nat
    BY <1>2
  <2>2. step \in 1 .. Len(schedule) + 1
    BY DEF Inv, TypeOK
  <2> QED
    BY <1>1, <2>1, <2>2
<1>4. trace = <<>> \/ Alive(trace, ctxs[1], n)
  <2>1. CASE tracks = <<>>
    BY <2>1
  <2>2. CASE tracks # <<>>
    <3>1. 1 \in 1 .. Len(tracks)
      BY <1>2, <2>2, EmptySeq
    <3> QED
      BY <1>1, <1>3, <2>2, <3>1 DEF Inv, TracksOK
  <2> QED
    BY <2>1, <2>2
<1> HIDE DEF trace, n
<1>5. /\ trace \in Traces /\ (trace = <<>> \/ Len(trace) = n)
      /\ \A i \in 1 .. Len(trace) :
            /\ trace[i].old = IF i = 1 THEN goal ELSE trace[i - 1].new
            /\ ~Decisive(trace[i])
            /\ trace[i].feasibility # "not feasible"
            /\ SoundFeasibility(goal.assumes, trace[i].feasibility)
  <2>1. CASE trace = <<>>
    BY <2>1 DEF Traces
  <2>2. CASE Alive(trace, ctxs[1], n)
    BY <2>2 DEF Alive
  <2> QED
    BY <1>4, <2>1, <2>2
<1>6. trace # <<>> => 1 \in 1 .. Len(trace) /\ Len(trace) \in 1 .. Len(trace)
  <2>1. trace \in Seq(Reports)
    BY <1>5 DEF Traces
  <2> QED
    BY <2>1, EmptySeq
<1>7. verdict'.status = "unknown" /\ verdict'.trace = trace
  BY <1>1
<1>8. TypeOK'
  BY <1>1, <1>5 DEF Inv, TypeOK, Statuses
<1>9. AnswerSound'
  BY <1>1, <1>5, <1>6, <1>7 DEF AnswerSound, SoundAnswer, Answer, SoundFeasibility
<1>10. TraceChained'
  BY <1>1, <1>5, <1>7 DEF TraceChained
<1>11. UnknownMeansExhausted'
  <2>1. \A i \in 1 .. Len(trace) - 1 : ~Decisive(trace[i])
    <3>1. \A i \in 1 .. Len(trace) - 1 : i \in 1 .. Len(trace)
      <4>1. Len(trace) \in Nat
        BY <1>5, LenProperties DEF Traces
      <4> QED
        BY <4>1
    <3> QED
      BY <1>5, <3>1
  <2>2. trace = <<>> \/ (Len(trace) = Len(schedule) /\ ~Decisive(trace[Len(trace)]))
    BY <1>5, <1>6 DEF n
  <2>3. \A r : Decisive(r)' <=> Decisive(r)
    BY DEF Decisive
  <2> QED
    BY <1>1, <1>7, <2>1, <2>2, <2>3 DEF UnknownMeansExhausted
<1> QED
  BY <1>1, <1>8, <1>9, <1>10, <1>11 DEF Inv

LEMMA Invariance == Spec => []Inv
<1>1. Inv /\ UNCHANGED vars => Inv'
  <2> SUFFICES ASSUME Inv, UNCHANGED vars PROVE Inv'
    OBVIOUS
  <2>1. \A trace, ctx, m : Alive(trace, ctx, m)' <=> Alive(trace, ctx, m)
    BY DEF vars, Alive
  <2>2. TypeOK'
    BY DEF vars, Inv, TypeOK
  <2>3. (pc = "running" => TracksOK /\ verdict.trace = <<>>)'
    BY <2>1 DEF vars, Inv, TracksOK
  <2>4. (AnswerSound /\ TraceChained /\ UnknownMeansExhausted)'
    BY DEF vars, Inv, AnswerSound, Answer, TraceChained, UnknownMeansExhausted
  <2> QED
    BY <2>2, <2>3, <2>4 DEF Inv
<1>2. Inv /\ [Next]_vars => Inv'
  BY <1>1, RunOnTrackInv, NextStepInv, GiveUpInv DEF Next
<1> QED
  BY <1>2, InitInv, PTL DEF Spec

-----------------------------------------------------------------------------
\* Type correctness of a run of the engine.
THEOREM Typing == Spec => []TypeOK
<1>1. Inv => TypeOK
  BY DEF Inv
<1> QED
  BY <1>1, Invariance, PTL

\* An answer of check_equivalence is sound for the context it was given,
\* whatever the schedule and however the tracks branched.
THEOREM AnswerSoundness == Spec => []AnswerSound
<1>1. Inv => AnswerSound
  BY DEF Inv
<1> QED
  BY <1>1, Invariance, PTL

\* The trace that goes into a report is one chain of tool runs from the goal.
THEOREM TraceChaining == Spec => []TraceChained
<1>1. Inv => TraceChained
  BY DEF Inv
<1> QED
  BY <1>1, Invariance, PTL

\* The engine gives up only after its whole schedule.
THEOREM Exhaustion == Spec => []UnknownMeansExhausted
<1>1. Inv => UnknownMeansExhausted
  BY DEF Inv
<1> QED
  BY <1>1, Invariance, PTL

\* No step, of whatever tool on whatever track, changes the question or takes an
\* answer back, and the step that gives one gives a sound one: the engine is the
\* solver that the case verifiers rely on.
THEOREM EngineRefinement == Spec => Solver!Safety
<1>1. Init => Solver!Init
  BY DEF Init, Solver!Init, Solver!Contexts, Contexts
<1>2. Inv /\ Inv' /\ [Next]_vars => [Solver!Reply]_(Solver!vars)
  <2> SUFFICES ASSUME Inv, Inv', [Next]_vars
               PROVE  [Solver!Reply]_(Solver!vars)
    OBVIOUS
  <2>1. goal' = goal
    BY DEF Next, RunOnTrack, Decide, Branch, NextStep, GiveUp, vars
  <2>2. CASE pc # "done" /\ pc' = "done"
    <3>1. SoundAnswer(goal, Answer')
      BY <2>1, <2>2 DEF Inv, AnswerSound
    <3>2. Answer' \in Answers
      <4>1. verdict' \in [status : Statuses, trace : Seq(Reports)]
        BY DEF Inv, TypeOK, Traces
      <4>2. verdict.trace' # <<>> => verdict.trace[1]' \in Reports
        BY <4>1, EmptySeq
      <4> QED
        BY <4>1, <4>2 DEF Answer, Answers, Reports, Feasibilities
    <3> QED
      BY <2>1, <2>2, <3>1, <3>2
         DEF Solver!Reply, Solver!SoundAnswers, Solver!SoundAnswer, Solver!Answers,
             Solver!Holds, Solver!SoundFeasibility, Solver!Statuses, Solver!Feasibilities,
             SoundAnswer, Answers, Holds, SoundFeasibility, Statuses, Feasibilities
  <2>3. CASE pc # "done" /\ pc' # "done"
    BY <2>1, <2>3 DEF Solver!vars
  <2>4. CASE pc = "done"
    <3>1. UNCHANGED vars
      BY <2>4 DEF Next, RunOnTrack, InStep, NextStep, GiveUp
    <3> QED
      BY <3>1 DEF Solver!vars, vars, Answer
  <2> QED
    BY <2>2, <2>3, <2>4
<1> QED
  BY <1>1, <1>2, Invariance, PTL DEF Spec, Solver!Safety
=============================================================================
