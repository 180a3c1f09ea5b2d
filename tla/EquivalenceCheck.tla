-------------------------- MODULE EquivalenceCheck --------------------------
(***************************************************************************)
(* check_equivalence (zolotone/ast/nodes.py) and run_equivalence_cases      *)
(* (zolotone/solver/case_split.py): two specifications of one design are    *)
(* compared case by case.  An output built directly by Cases is split along *)
(* its ordered branches and output classes (coarse cases); a coarse case    *)
(* left "unknown" is replaced by refinements on input classes.  Without     *)
(* such an output every combination of input and output classes is tried.   *)
(*                                                                         *)
(* A point is a valuation of the inputs.  Outputs stands for what can be    *)
(* observed of an output: two NaNs are one output.  The solver is any that  *)
(* answers soundly (AnswerSound of SolverEngine).  A batch of cases is        *)
(* verified one by one; that workers complete them in another order, or     *)
(* die, is the matter of ParallelVerification.                              *)
(***************************************************************************)
EXTENDS Obligations, Integers, Sequences

CONSTANTS
    Outputs,    \* observable outputs
    Classes,    \* their classes: norm, sub, zero, inf, nan
    ClassOf,    \* the class of each output
    Args,       \* floating-point inputs
    InClasses,  \* classes of an input
    SpecPairs   \* the pairs of specifications considered

Sides == {1, 2}

\* An entry of Cases: where its condition holds, and the classification
\* flags of each input that the condition mentions.
Conditions == [holds : SUBSET Points, flags : [Args -> SUBSET InClasses]]

\* A pair of specifications: the points the assumptions of each side admit,
\* its output there, and the entries of the Cases that builds it, if any.
Pairs ==
    [domain    : [Sides -> SUBSET Points],
     output    : [Sides -> [Points -> Outputs]],
     fp        : BOOLEAN,       \* floating-point outputs, or scalar ones
     cases     : [Sides -> Seq(Conditions)],
     shared    : SUBSET Sides,  \* guards over the variables of the inputs
     preferred : Sides \cup {0},
     input     : [Points -> [Args -> InClasses]]]

ASSUME ClassOfAssumption == ClassOf \in [Outputs -> Classes]
ASSUME SpecPairsAssumption == SpecPairs \subseteq Pairs

VARIABLES
    pc,        \* where the check is
    pair,      \* the two specifications
    side,      \* partition_side, or 0 in the exhaustive fallback
    guards,    \* effective guards derived so far
    prior,     \* no_prior_match
    todo,      \* cases of the running batch that are not verified yet
    verified,  \* the results so far, coarse and refined
    results    \* the cases check_equivalence reports

vars == <<pc, pair, side, guards, prior, todo, verified, results>>

Entries == pair.cases[side]
Paths   == 1 .. Len(guards)

\* Both specifications' assumptions hold: combined_ctx.
Domain == pair.domain[1] \cap pair.domain[2]

\* Where all checks of a case hold: equal flags, equal observables
Agree == {p \in Points : pair.output[1][p] = pair.output[2][p]}

OutputClasses == IF pair.fp THEN Classes ELSE {"scalar"}

InClass(s, c) == {p \in Points : pair.fp => ClassOf[pair.output[s][p]] = c}

\* A selection fixes the classes of some inputs; none is fixed by NoInputs.
Selected(sel) ==
    {p \in Points : \A a \in DOMAIN sel : pair.input[p][a] = sel[a]}
NoInputs == <<>>

\* A case is named by its path (0 in the fallback), output class, selection.
CaseNames == Nat \X (Classes \cup {"scalar"}) \X
             UNION {[inputs -> InClasses] : inputs \in SUBSET Args}

Coarse(k, c) == <<k, c, NoInputs>>

-----------------------------------------------------------------------------
\* What a case assumes on each side.  In an adaptive case only the output of
\* the partition's side is assumed to be in the case's class, in the fallback
\* both outputs are.
Assumptions(s, case) ==
    pair.domain[s] \cap Selected(case[3])
        \cap (IF side = 0 THEN Points ELSE guards[case[1]])
        \cap (IF s = side \/ side = 0 THEN InClass(s, case[2]) ELSE Points)

Context(case) ==
    [assumes |-> Assumptions(1, case) \cap Assumptions(2, case),
     checks  |-> Agree]

\* Both sides are conclusively feasible, or both conclusively infeasible.
FeasibilitiesMatch(f) == f[1] = f[2] /\ f[1] # "unknown"

\* An adaptive case also holds vacuously where the partition's side cannot
\* produce the case's output class.
Vacuous(f) == side # 0 /\ pair.fp /\ f[side] = "not feasible"

\* Bug: a case the schedule leaves open counts as proved.
OpenMeansProved(case) ==
    {[status |-> a.status, proved |-> a.status # "sat"] :
        a \in SoundAnswers(Context(case))}

\* What verifying a case can come back with: a proof is "unsat", or for a
\* case found infeasible, that both sides are alike in that.
Verdicts(case) ==
    {[status |-> a.status, proved |-> a.status = "unsat"] :
        a \in {a \in SoundAnswers(Context(case)) : a.feasibility # "not feasible"}}
    \cup
    {[status |-> "sat", proved |-> FeasibilitiesMatch(f) \/ Vacuous(f)] :
        f \in {f \in [Sides -> Feasibilities] :
                  /\ Context(case).assumes = {}
                  /\ \A s \in Sides :
                        SoundFeasibility(Assumptions(s, case), f[s])}}

Results == [status : Statuses, proved : BOOLEAN]

-----------------------------------------------------------------------------
Init ==
    /\ pc = "validate"
    /\ pair \in SpecPairs
    /\ side = 0
    /\ guards = <<>> /\ prior = Points
    /\ todo = {} /\ verified = <<>> /\ results = <<>>

\* Every Cases requires its conditions to cover what the specifications
\* admit; z3 must prove it, or the specification is rejected.
Covered(s) ==
    Domain \subseteq UNION {pair.cases[s][k].holds : k \in DOMAIN pair.cases[s]}

HasCases(s) == pair.cases[s] # <<>>

Validate ==
    /\ pc = "validate"
    /\ \/ /\ \A s \in Sides : HasCases(s) => Covered(s)
          /\ pc' = "select"
       \/ /\ \E s \in Sides : HasCases(s)
          /\ pc' = "malformed"
    /\ UNCHANGED <<pair, side, guards, prior, todo, verified, results>>

\* The fallback's cases are all combinations of input and output classes.
ExhaustiveCases == {0} \X OutputClasses \X [Args -> InClasses]

\* _partition_for: the preferred side or none; without preference, side 1
\* before side 2
Select ==
    /\ pc = "select"
    /\ LET sides  == IF pair.preferred = 0 THEN Sides ELSE {pair.preferred}
           usable == {s \in sides : HasCases(s) /\ s \in pair.shared}
       IN  IF usable = {}
           THEN /\ pc' = "exhaustive"
                /\ todo' = ExhaustiveCases
                /\ UNCHANGED side
           ELSE /\ pc' = "guards"
                /\ side' = IF 1 \in usable THEN 1 ELSE 2
                /\ UNCHANGED todo
    /\ UNCHANGED <<pair, guards, prior, verified, results>>

\* Bug: a branch is excluded only by the branch right before it.
ForgetfulGuard ==
    /\ pc = "guards" /\ Len(guards) < Len(Entries)
    /\ LET condition == Entries[Len(guards) + 1].holds
       IN  /\ guards' = Append(guards, prior \cap condition)
           /\ prior' = prior \cap condition
    /\ UNCHANGED <<pc, pair, side, todo, verified, results>>

\* One round of _effective_case_guards: a branch applies where its condition
\* holds and no earlier one does.
DeriveGuard ==
    /\ pc = "guards" /\ Len(guards) < Len(Entries)
    /\ LET condition == Entries[Len(guards) + 1].holds
       IN  /\ guards' = Append(guards, prior \cap condition)
           /\ prior' = prior \ condition
    /\ UNCHANGED <<pc, pair, side, todo, verified, results>>

CoarseCases == {Coarse(k, c) : k \in Paths, c \in OutputClasses}

StartCoarse ==
    /\ pc = "guards" /\ Len(guards) = Len(Entries)
    /\ pc' = "coarse"
    /\ todo' = CoarseCases
    /\ UNCHANGED <<pair, side, guards, prior, verified, results>>

Verify ==
    /\ pc \in {"coarse", "refined", "exhaustive"}
    /\ todo # {}
    /\ LET case == CHOOSE c \in todo : TRUE
       IN  \E v \in Verdicts(case) :
              /\ todo' = todo \ {case}
              /\ verified' = [c \in DOMAIN verified \cup {case} |->
                                 IF c = case THEN v ELSE verified[c]]
    /\ UNCHANGED <<pc, pair, side, guards, prior, results>>

\* Bug: every case that was not proved is refined.
NotProved == {case \in CoarseCases : ~verified[case].proved}

Unresolved == {case \in CoarseCases : verified[case].status = "unknown"}

\* Bug: only the mentioned flags are tried, whether or not the condition
\* needs one of them.
MentionedGroups(k) == {Entries[k].flags}

\* The flags to refine path k on.  Those of an input are the ones its
\* condition mentions if it folds to false without them, else all of them.
\* Folding detects some conditions that are false, not all.
Groups(k) ==
    LET flags == Entries[k].flags
    IN  {g \in [Args -> SUBSET InClasses] :
            \A a \in Args :
                IF flags[a] = {} THEN g[a] = {}
                ELSE \/ g[a] = InClasses
                     \/ /\ g[a] = flags[a]
                        /\ \A p \in Entries[k].holds :
                              pair.input[p][a] \in g[a]}

\* The one-hot assignments to the flags of the groups; none without a group.
OneHot(g) ==
    LET split == {a \in Args : g[a] # {}}
    IN  IF split = {} THEN {}
        ELSE {sel \in [split -> InClasses] : \A a \in split : sel[a] \in g[a]}

\* The assignments tried: one that folds the condition to false is skipped.
Refinements(k) ==
    UNION {{kept \in SUBSET OneHot(g) :
                \A sel \in OneHot(g) \ kept :
                    Entries[k].holds \cap Selected(sel) = {}} : g \in Groups(k)}

Refine ==
    /\ pc = "coarse" /\ todo = {}
    /\ pc' = "refined"
    /\ \E tried \in [Paths -> UNION {Refinements(k) : k \in Paths}] :
          /\ \A k \in Paths : tried[k] \in Refinements(k)
          /\ todo' =
                UNION {{<<case[1], case[2], sel>> : sel \in tried[case[1]]} :
                          case \in Unresolved}
    /\ UNCHANGED <<pair, side, guards, prior, verified, results>>

RefinementsOf(case) ==
    {r \in DOMAIN verified \ CoarseCases : r[1] = case[1] /\ r[2] = case[2]}

\* An unresolved case gives way to its refinements, if it has any.
Terminal ==
    DOMAIN verified \ {case \in Unresolved : RefinementsOf(case) # {}}

Report(cases) ==
    /\ pc' = "done"
    /\ results' = [case \in cases |-> verified[case]]
    /\ UNCHANGED <<pair, side, guards, prior, todo, verified>>

Merge == pc = "refined" /\ todo = {} /\ Report(Terminal)

Finish == pc = "exhaustive" /\ todo = {} /\ Report(DOMAIN verified)

Next ==
    \/ Validate \/ Select \/ DeriveGuard \/ StartCoarse
    \/ Verify \/ Refine \/ Merge \/ Finish

Spec == Init /\ [][Next]_vars

Proved == \A case \in DOMAIN results : results[case].proved

-----------------------------------------------------------------------------
\* The type invariant.
TypeOK ==
    /\ pc \in {"validate", "malformed", "select", "guards", "coarse",
               "refined", "exhaustive", "done"}
    /\ pair \in Pairs
    /\ side \in Sides \cup {0}
    /\ guards \in Seq(SUBSET Points) /\ prior \in SUBSET Points
    /\ todo \subseteq CaseNames
    /\ DOMAIN verified \subseteq CaseNames
    /\ \A case \in DOMAIN verified : verified[case] \in Results
    /\ DOMAIN results \subseteq DOMAIN verified

\* The verdict of a check driven by Cases: if every reported case is proved,
\* the two outputs agree on every input both specifications admit.  The
\* branches, output classes and refinements together miss no point.
PartitionSound ==
    pc = "done" /\ side # 0 /\ Proved => Domain \subseteq Agree

\* What the exhaustive fallback does establish: outputs of equal class agree,
\* and scalar outputs agree everywhere.
FallbackSound ==
    pc = "done" /\ side = 0 /\ Proved =>
        \A p \in Domain :
            (pair.fp => ClassOf[pair.output[1][p]] = ClassOf[pair.output[2][p]])
            => p \in Agree

\* Refinement never overrules an answer: a coarse case the solver answered
\* and did not prove is reported, and the check fails.
AnswersStand ==
    pc = "done" /\ side # 0 =>
        \A case \in CoarseCases :
            verified[case].status # "unknown" /\ ~verified[case].proved
            => case \in DOMAIN results /\ ~Proved

\* Cases that are reported leave no input of the domain without a verdict,
\* whatever the outcome: each point lies in a reported case of the check.
EveryPointReported ==
    pc = "done" /\ side # 0 =>
        \A p \in Domain : \E case \in DOMAIN results :
            p \in Context(case).assumes

\* README.md:119: check_equivalence proves that both specifications "produce
\* equivalent results for the same symbolic inputs".
ProvedMeansEquivalent == pc = "done" /\ Proved => Domain \subseteq Agree
=============================================================================
