----------------------- MODULE EquivalenceCheck_proofs -----------------------
(***************************************************************************)
(* Why the cases of check_equivalence miss no input, for every pair of      *)
(* specifications.  The effective guards and what no branch has matched yet *)
(* partition the points; a covered domain therefore lies in the guards; and *)
(* a refined case hands each of its points on to one of its refinements.    *)
(***************************************************************************)
EXTENDS EquivalenceCheck, SequenceTheorems, TLAPS

\* Which side is split, and that no case is made before its guards are known
PhaseOK ==
    /\ pc \in {"validate", "malformed", "select", "exhaustive"} => side = 0
    /\ pc \in {"guards", "coarse", "refined"} => side # 0
    /\ pc \in {"validate", "malformed", "select", "guards"} =>
          todo = {} /\ DOMAIN verified = {}
    /\ pc \in {"validate", "malformed", "select"} => guards = <<>> /\ prior = Points

CoverageOK ==
    /\ pc \notin {"validate", "malformed"} =>
          \A s \in Sides : HasCases(s) => Covered(s)
    /\ side # 0 => HasCases(side)

\* A point is still unmatched, or some branch derived so far applies to it.
BranchesOK ==
    side # 0 =>
        /\ Len(guards) <= Len(Entries)
        /\ pc # "guards" => Len(guards) = Len(Entries)
        /\ \A k \in Paths : guards[k] \subseteq Entries[k].holds
        /\ \A p \in Points : p \in prior \/ \E k \in Paths : p \in guards[k]
        /\ \A p \in prior : \A k \in Paths : p \notin Entries[k].holds

Batch == DOMAIN verified \cup todo

BatchOK ==
    /\ pc = "exhaustive" => ExhaustiveCases \subseteq Batch
    /\ pc = "coarse" => Batch = CoarseCases
    /\ pc = "refined" => /\ CoarseCases \subseteq DOMAIN verified
                         /\ todo \cap CoarseCases = {}

\* A case of the batch, on the path and in the output class of a coarse case
Refines(r, case) == r \notin CoarseCases /\ r[1] = case[1] /\ r[2] = case[2]

RefinedOK ==
    pc = "refined" =>
        \A case \in Unresolved :
            \/ ~ \E r \in Batch : Refines(r, case)
            \/ \A p \in Context(case).assumes :
                  \E r \in Batch : Refines(r, case) /\ p \in Selected(r[3])

VerdictsSound ==
    \A case \in DOMAIN verified :
        verified[case].proved => Context(case).assumes \subseteq Agree

SameClass(p) ==
    pair.fp => ClassOf[pair.output[1][p]] = ClassOf[pair.output[2][p]]

\* In the fallback, the points where the classes differ may be in no case.
EqualClassesReported ==
    pc = "done" /\ side = 0 =>
        \A p \in Domain : SameClass(p) =>
            \E case \in DOMAIN results : p \in Context(case).assumes

ReportOK ==
    pc = "done" => \A case \in DOMAIN results : results[case] = verified[case]

Inv ==
    /\ TypeOK
    /\ PhaseOK /\ CoverageOK /\ BranchesOK
    /\ BatchOK /\ RefinedOK /\ VerdictsSound
    /\ ReportOK /\ EveryPointReported /\ EqualClassesReported /\ AnswersStand

-----------------------------------------------------------------------------
USE ClassOfAssumption, SpecPairsAssumption

\* What a case asks is settled once the side is chosen and its guards derived.
LEMMA CasesAreFixed ==
  ASSUME UNCHANGED <<pair, side, guards>>
  PROVE  /\ \A case : Context(case)' = Context(case)
         /\ Agree' = Agree /\ Domain' = Domain
         /\ Paths' = Paths /\ Entries' = Entries
         /\ CoarseCases' = CoarseCases
         /\ \A sel : Selected(sel)' = Selected(sel)
BY DEF Context, Assumptions, Agree, Domain, Paths, Entries, CoarseCases,
       OutputClasses, InClass, Selected

\* The shape of a pair of specifications.
LEMMA PairShape ==
  ASSUME pair \in Pairs
  PROVE  /\ \A s \in Sides : pair.domain[s] \in SUBSET Points
         /\ \A s \in Sides, p \in Points : pair.output[s][p] \in Outputs
         /\ pair.fp \in BOOLEAN
         /\ \A s \in Sides : pair.cases[s] \in Seq(Conditions)
         /\ \A p \in Points : pair.input[p] \in [Args -> InClasses]
         /\ pair.shared \subseteq Sides
BY DEF Pairs

\* Every observable of an output is in one of the classes a case can assume.
LEMMA OutputHasClass ==
  ASSUME pair \in Pairs, NEW s \in Sides, NEW p \in Points
  PROVE  \E c \in OutputClasses : p \in InClass(s, c)
<1>1. CASE pair.fp
  <2>1. ClassOf[pair.output[s][p]] \in Classes
    BY PairShape
  <2> QED
    BY <1>1, <2>1 DEF OutputClasses, InClass
<1>2. CASE ~pair.fp
  BY <1>2 DEF OutputClasses, InClass
<1> QED
  BY <1>1, <1>2

\* Without a selection every point is selected.
LEMMA NoInputsSelected == NoInputs \in [{} -> InClasses] /\ Selected(NoInputs) = Points
<1>1. DOMAIN NoInputs = {}
  BY DEF NoInputs
<1>2. NoInputs = [a \in {} |-> a]
  BY DEF NoInputs
<1> QED
  BY <1>1, <1>2 DEF Selected

LEMMA CaseNameIntro ==
  ASSUME NEW k \in Nat, NEW c \in Classes \cup {"scalar"},
         NEW inputs \in SUBSET Args, NEW sel \in [inputs -> InClasses]
  PROVE  <<k, c, sel>> \in CaseNames
BY DEF CaseNames

LEMMA CoarseNames == CoarseCases \subseteq CaseNames
<1> SUFFICES ASSUME NEW k \in Paths, NEW c \in OutputClasses
             PROVE  Coarse(k, c) \in CaseNames
  BY DEF CoarseCases
<1>1. k \in Nat /\ c \in Classes \cup {"scalar"}
  BY DEF Paths, OutputClasses
<1> QED
  BY <1>1, NoInputsSelected, CaseNameIntro DEF Coarse

LEMMA ExhaustiveNames == ExhaustiveCases \subseteq CaseNames
<1> SUFFICES ASSUME NEW c \in OutputClasses, NEW sel \in [Args -> InClasses]
             PROVE  <<0, c, sel>> \in CaseNames
  BY DEF ExhaustiveCases
<1> QED
  BY CaseNameIntro DEF OutputClasses

\* A refinement selects classes of some inputs, at least one.
LEMMA RefinementShape ==
  ASSUME NEW k, NEW tried \in Refinements(k), NEW sel \in tried
  PROVE  \E inputs \in SUBSET Args :
            inputs # {} /\ sel \in [inputs -> InClasses]
<1>1. PICK g \in Groups(k) : sel \in OneHot(g)
  BY DEF Refinements
<1> QED
  BY <1>1 DEF OneHot

\* A verdict is a result, and what it calls proved is so: where a case has
\* no point there is nothing to prove.
LEMMA VerdictSound ==
  ASSUME NEW case, NEW v \in Verdicts(case)
  PROVE  v \in Results /\ (v.proved => Context(case).assumes \subseteq Agree)
<1>1. CASE \E a \in Answers :
              /\ SoundAnswer(Context(case), a)
              /\ v = [status |-> a.status, proved |-> a.status = "unsat"]
  <2>1. PICK a \in Answers : /\ SoundAnswer(Context(case), a)
                             /\ v = [status |-> a.status, proved |-> a.status = "unsat"]
    BY <1>1
  <2>2. a.status \in Statuses /\ (a.status = "unsat") \in BOOLEAN
    BY DEF Answers
  <2>3. v \in Results
    BY <2>1, <2>2 DEF Results
  <2>4. Context(case).checks = Agree
    BY DEF Context
  <2>5. v.proved => a.status = "unsat"
    BY <2>1
  <2> QED
    BY <2>1, <2>3, <2>4, <2>5 DEF SoundAnswer, Holds
<1>2. CASE /\ Context(case).assumes = {}
           /\ \E b \in BOOLEAN : v = [status |-> "sat", proved |-> b]
  BY <1>2 DEF Results, Statuses
<1>3. \A f : (FeasibilitiesMatch(f) \/ Vacuous(f)) \in BOOLEAN
  BY DEF FeasibilitiesMatch, Vacuous
<1> QED
  BY <1>1, <1>2, <1>3 DEF Verdicts, SoundAnswers

-----------------------------------------------------------------------------
LEMMA InitInv == Init => Inv
<1> SUFFICES ASSUME Init PROVE Inv
  OBVIOUS
<1>1. DOMAIN verified = {} /\ DOMAIN results = {}
  BY DEF Init
<1>2. TypeOK
  BY <1>1 DEF Init, TypeOK
<1> QED
  BY <1>1, <1>2 DEF Init, Inv, PhaseOK, CoverageOK, BranchesOK, BatchOK,
     RefinedOK, VerdictsSound, ReportOK, EveryPointReported,
     EqualClassesReported, AnswersStand

\* Nothing is reported before the check is done.
LEMMA NotDone ==
  ASSUME pc' # "done"
  PROVE  (ReportOK /\ EveryPointReported /\ EqualClassesReported /\ AnswersStand)'
BY DEF ReportOK, EveryPointReported, EqualClassesReported, AnswersStand

LEMMA ValidateInv == Inv /\ Validate => Inv'
<1> SUFFICES ASSUME Inv, Validate PROVE Inv'
  OBVIOUS
<1> USE DEF Validate
<1>1. TypeOK'
  BY DEF Inv, TypeOK
<1>2. PhaseOK' /\ BranchesOK'
  BY DEF Inv, PhaseOK, BranchesOK
<1>3. CoverageOK'
  BY DEF Inv, PhaseOK, CoverageOK, Covered, HasCases, Domain
<1>4. (BatchOK /\ RefinedOK /\ VerdictsSound)'
  BY DEF Inv, PhaseOK, BatchOK, RefinedOK, VerdictsSound
<1> QED
  BY <1>1, <1>2, <1>3, <1>4, NotDone DEF Inv

LEMMA SelectInv == Inv /\ Select => Inv'
<1> SUFFICES ASSUME Inv, Select PROVE Inv'
  OBVIOUS
<1> USE DEF Select
<1>0. pc = "select" /\ side = 0 /\ todo = {} /\ DOMAIN verified = {}
      /\ guards = <<>> /\ prior = Points
      /\ UNCHANGED <<pair, guards, prior, verified, results>>
  BY DEF Inv, PhaseOK
<1>1. CASE pc' = "exhaustive" /\ todo' = ExhaustiveCases /\ side' = side
  <2>1. TypeOK'
    BY <1>0, <1>1, ExhaustiveNames DEF Inv, TypeOK
  <2>2. (PhaseOK /\ CoverageOK /\ BranchesOK)'
    BY <1>0, <1>1 DEF Inv, PhaseOK, CoverageOK, BranchesOK, Covered, HasCases, Domain
  <2>3. ExhaustiveCases' = ExhaustiveCases
    BY <1>0 DEF ExhaustiveCases, OutputClasses
  <2>4. (BatchOK /\ RefinedOK /\ VerdictsSound)'
    BY <1>0, <1>1, <2>3 DEF BatchOK, RefinedOK, VerdictsSound, Batch
  <2> QED
    BY <1>1, <2>1, <2>2, <2>4, NotDone DEF Inv
<1>2. CASE pc' = "guards" /\ side' \in Sides /\ HasCases(side') /\ todo' = todo
  <2>1. TypeOK'
    BY <1>0, <1>2 DEF Inv, TypeOK
  <2>2. pair.cases[side'] \in Seq(Conditions)
    BY <1>2, PairShape DEF Inv, TypeOK
  <2>3. (PhaseOK /\ CoverageOK)'
    BY <1>0, <1>2 DEF Inv, PhaseOK, CoverageOK, Covered, HasCases, Domain, Sides
  <2>4. BranchesOK'
    BY <1>0, <1>2, <2>2 DEF BranchesOK, Paths, Entries
  <2>5. (BatchOK /\ RefinedOK /\ VerdictsSound)'
    BY <1>0, <1>2 DEF BatchOK, RefinedOK, VerdictsSound
  <2> QED
    BY <1>2, <2>1, <2>3, <2>4, <2>5, NotDone DEF Inv
<1> DEFINE sides == IF pair.preferred = 0 THEN Sides ELSE {pair.preferred}
           usable == {s \in sides : HasCases(s) /\ s \in pair.shared}
<1>3. sides \subseteq Sides
  BY DEF Inv, TypeOK, Pairs
<1>4. CASE usable = {}
  BY <1>1, <1>4
<1>5. CASE usable # {}
  <2>1. side' = IF 1 \in usable THEN 1 ELSE 2
    BY <1>5
  <2>2. side' \in usable
    BY <1>3, <1>5, <2>1 DEF Sides
  <2> QED
    BY <1>0, <1>2, <1>3, <1>5, <2>2
<1> QED
  BY <1>4, <1>5

LEMMA DeriveGuardInv == Inv /\ DeriveGuard => Inv'
<1> SUFFICES ASSUME Inv, DeriveGuard PROVE Inv'
  OBVIOUS
<1> DEFINE n == Len(guards) + 1
           condition == Entries[n].holds
<1>0. /\ pc = "guards" /\ Len(guards) < Len(Entries)
      /\ guards' = Append(guards, prior \cap condition)
      /\ prior' = prior \ condition
      /\ UNCHANGED <<pc, pair, side, todo, verified, results>>
  BY DEF DeriveGuard
<1>1. guards \in Seq(SUBSET Points) /\ prior \in SUBSET Points
      /\ side # 0 /\ todo = {} /\ DOMAIN verified = {}
  BY <1>0 DEF Inv, TypeOK, PhaseOK
<1>2. Entries' = Entries /\ Entries \in Seq(Conditions)
  BY <1>0, <1>1, PairShape DEF Inv, TypeOK, Entries
<1>3. guards' \in Seq(SUBSET Points) /\ prior' \in SUBSET Points
  BY <1>0, <1>1
<1>4. TypeOK'
  BY <1>0, <1>3 DEF Inv, TypeOK
<1>5. (PhaseOK /\ CoverageOK)'
  BY <1>0 DEF Inv, PhaseOK, CoverageOK, Covered, HasCases, Domain
<1>6. Len(guards') = n /\ Paths' = Paths \cup {n} /\ n \notin Paths /\ n \in Nat
  BY <1>0, <1>1 DEF Paths
<1>7. guards'[n] = prior \cap condition /\ \A k \in Paths : guards'[k] = guards[k]
  BY <1>0, <1>1 DEF Paths
<1>8. BranchesOK'
  <2> USE <1>0, <1>1, <1>2, <1>6, <1>7 DEF Inv, BranchesOK
  <2>1. Len(guards') <= Len(Entries')
    BY DEF Paths
  <2>2. \A k \in Paths' : guards'[k] \subseteq Entries'[k].holds
    OBVIOUS
  <2>3. \A p \in Points : p \in prior' \/ \E k \in Paths' : p \in guards'[k]
    OBVIOUS
  <2>4. \A p \in prior' : \A k \in Paths' : p \notin Entries'[k].holds
    OBVIOUS
  <2> QED
    BY <2>1, <2>2, <2>3, <2>4
<1>9. (BatchOK /\ RefinedOK /\ VerdictsSound)'
  BY <1>0, <1>1 DEF BatchOK, RefinedOK, VerdictsSound
<1> QED
  BY <1>0, <1>4, <1>5, <1>8, <1>9, NotDone DEF Inv

LEMMA StartCoarseInv == Inv /\ StartCoarse => Inv'
<1> SUFFICES ASSUME Inv, StartCoarse PROVE Inv'
  OBVIOUS
<1>0. /\ pc = "guards" /\ pc' = "coarse" /\ Len(guards) = Len(Entries)
      /\ todo' = CoarseCases
      /\ UNCHANGED <<pair, side, guards, prior, verified, results>>
  BY DEF StartCoarse
<1>1. CoarseCases' = CoarseCases /\ Paths' = Paths /\ Entries' = Entries
  BY <1>0, CasesAreFixed
<1>2. TypeOK'
  BY <1>0, CoarseNames DEF Inv, TypeOK
<1>3. (PhaseOK /\ CoverageOK)'
  BY <1>0 DEF Inv, PhaseOK, CoverageOK, Covered, HasCases, Domain
<1>4. BranchesOK'
  BY <1>0, <1>1 DEF Inv, BranchesOK
<1>5. (BatchOK /\ RefinedOK /\ VerdictsSound)'
  BY <1>0, <1>1 DEF Inv, PhaseOK, BatchOK, RefinedOK, VerdictsSound, Batch
<1> QED
  BY <1>0, <1>2, <1>3, <1>4, <1>5, NotDone DEF Inv

\* What a batch holds is unchanged by verifying one of its cases, and so is
\* what the results say of the other cases.
LEMMA VerifyInv == Inv /\ Verify => Inv'
<1> SUFFICES ASSUME Inv, Verify PROVE Inv'
  OBVIOUS
<1> DEFINE Verified(case, v) ==
              [c \in DOMAIN verified \cup {case} |->
                  IF c = case THEN v ELSE verified[c]]
<1>a. PICK case \in todo :
         todo' = todo \ {case} /\ \E v \in Verdicts(case) : verified' = Verified(case, v)
  <2> DEFINE first == CHOOSE c \in todo : TRUE
  <2>1. first \in todo
    BY DEF Verify
  <2> QED
    BY <2>1 DEF Verify
<1>b. PICK v \in Verdicts(case) : verified' = Verified(case, v)
  BY <1>a
<1>1. /\ pc \in {"coarse", "refined", "exhaustive"}
      /\ UNCHANGED <<pc, pair, side, guards, prior, results>>
  BY DEF Verify
<1>2. DOMAIN verified' = DOMAIN verified \cup {case} /\ Batch' = Batch
      /\ verified'[case] = v
      /\ \A c \in DOMAIN verified : c # case => verified'[c] = verified[c]
  BY <1>a, <1>b DEF Batch
<1>3. v \in Results /\ (v.proved => Context(case).assumes \subseteq Agree)
  BY VerdictSound
<1>4. /\ \A c : Context(c)' = Context(c)
      /\ Agree' = Agree /\ Paths' = Paths /\ Entries' = Entries
      /\ CoarseCases' = CoarseCases /\ \A sel : Selected(sel)' = Selected(sel)
  BY <1>1, CasesAreFixed
<1>5. TypeOK'
  <2>1. todo' \subseteq CaseNames /\ DOMAIN verified' \subseteq CaseNames
    BY <1>a, <1>2 DEF Inv, TypeOK
  <2>2. \A c \in DOMAIN verified' : verified'[c] \in Results
    BY <1>2, <1>3 DEF Inv, TypeOK
  <2>3. DOMAIN results' \subseteq DOMAIN verified'
    BY <1>1, <1>2 DEF Inv, TypeOK
  <2> QED
    BY <1>1, <2>1, <2>2, <2>3 DEF Inv, TypeOK
<1>6. (PhaseOK /\ CoverageOK /\ BranchesOK)'
  <2>1. PhaseOK'
    BY <1>1 DEF Inv, PhaseOK
  <2>2. CoverageOK'
    BY <1>1 DEF Inv, CoverageOK, Covered, HasCases, Domain
  <2>3. BranchesOK'
    BY <1>1, <1>4 DEF Inv, BranchesOK
  <2> QED
    BY <2>1, <2>2, <2>3
<1>7. BatchOK'
  <2>1. ExhaustiveCases' = ExhaustiveCases
    BY <1>1 DEF ExhaustiveCases, OutputClasses
  <2> QED
    BY <1>a, <1>1, <1>2, <1>4, <2>1 DEF Inv, BatchOK
<1>8. VerdictsSound'
  BY <1>2, <1>3, <1>4 DEF Inv, VerdictsSound
<1>9. RefinedOK'
  <2> SUFFICES ASSUME pc = "refined" PROVE RefinedOK'
    BY <1>1 DEF RefinedOK
  <2>1. case \notin CoarseCases /\ CoarseCases \subseteq DOMAIN verified
    BY <1>a DEF Inv, BatchOK
  <2>2. Unresolved' = Unresolved
    BY <1>2, <1>4, <2>1 DEF Unresolved
  <2>3. \A r, c : Refines(r, c)' <=> Refines(r, c)
    BY <1>4 DEF Refines
  <2> QED
    BY <1>1, <1>2, <1>4, <2>2, <2>3 DEF Inv, RefinedOK
<1> QED
  BY <1>1, <1>5, <1>6, <1>7, <1>8, <1>9, NotDone DEF Inv

\* Where the condition of a path holds, some one-hot assignment to its flags
\* does, and folding cannot refute that one.
LEMMA RefinementsCover ==
  ASSUME pair \in Pairs, Entries \in Seq(Conditions),
         NEW k \in 1 .. Len(Entries), NEW tried \in Refinements(k), tried # {},
         NEW p \in Points, p \in Entries[k].holds
  PROVE  \E sel \in tried : p \in Selected(sel)
<1>1. PICK g \in Groups(k) :
         /\ tried \subseteq OneHot(g)
         /\ \A sel \in OneHot(g) \ tried : Entries[k].holds \cap Selected(sel) = {}
  BY DEF Refinements
<1> DEFINE split == {a \in Args : g[a] # {}}
           sel == [a \in split |-> pair.input[p][a]]
<1>2. \A a \in split : sel[a] \in g[a] /\ sel[a] \in InClasses
  BY <1>1, PairShape DEF Groups
<1>3. split # {} /\ sel \in OneHot(g)
  BY <1>1, <1>2 DEF OneHot
<1>4. p \in Selected(sel)
  BY DEF Selected
<1> QED
  BY <1>1, <1>3, <1>4

LEMMA RefineInv == Inv /\ Refine => Inv'
<1> SUFFICES ASSUME Inv, Refine PROVE Inv'
  OBVIOUS
<1>0. PICK tried : /\ \A k \in Paths : tried[k] \in Refinements(k)
                   /\ todo' = UNION {{<<case[1], case[2], sel>> : sel \in tried[case[1]]} :
                                        case \in Unresolved}
  BY DEF Refine
<1>1. /\ pc = "coarse" /\ pc' = "refined" /\ todo = {}
      /\ UNCHANGED <<pair, side, guards, prior, verified, results>>
  BY DEF Refine
<1>2. side # 0 /\ DOMAIN verified = CoarseCases /\ Len(guards) = Len(Entries)
  BY <1>1 DEF Inv, PhaseOK, BatchOK, Batch, BranchesOK
<1>3. Entries \in Seq(Conditions) /\ pair \in Pairs /\ guards \in Seq(SUBSET Points)
  BY <1>2, PairShape DEF Inv, TypeOK, Entries
<1>4. /\ \A c : Context(c)' = Context(c)
      /\ Paths' = Paths /\ Entries' = Entries /\ Agree' = Agree
      /\ CoarseCases' = CoarseCases /\ \A sel : Selected(sel)' = Selected(sel)
  BY <1>1, CasesAreFixed
<1>5. ASSUME NEW case \in CoarseCases
      PROVE  /\ case[1] \in Paths /\ case[2] \in OutputClasses
             /\ case[3] = NoInputs /\ case = Coarse(case[1], case[2])
  BY DEF CoarseCases, Coarse
<1>6. ASSUME NEW r \in todo'
      PROVE  /\ r \in CaseNames /\ r \notin CoarseCases
             /\ \E case \in Unresolved : \E sel \in tried[case[1]] :
                   r = <<case[1], case[2], sel>>
  <2>0. PICK case \in Unresolved : \E sel \in tried[case[1]] : r = <<case[1], case[2], sel>>
    BY <1>0
  <2>1. PICK sel \in tried[case[1]] : r = <<case[1], case[2], sel>>
    BY <2>0
  <2>2. case[1] \in Paths /\ case[2] \in OutputClasses
    BY <1>5 DEF Unresolved
  <2>3. PICK inputs \in SUBSET Args : inputs # {} /\ sel \in [inputs -> InClasses]
    BY <1>0, <2>1, <2>2, RefinementShape
  <2>4. r \in CaseNames
    <3>1. case[1] \in Nat /\ case[2] \in Classes \cup {"scalar"}
      BY <2>2 DEF Paths, OutputClasses
    <3>2. <<case[1], case[2], sel>> \in CaseNames
      BY <2>3, <3>1, CaseNameIntro
    <3> QED
      BY <2>1, <3>2
  <2>5. sel # NoInputs
    BY <2>3, NoInputsSelected
  <2>6. r \notin CoarseCases
    BY <1>5, <2>1, <2>5
  <2> QED
    BY <2>1, <2>4, <2>6
<1>7. TypeOK'
  BY <1>1, <1>6 DEF Inv, TypeOK
<1>8. (PhaseOK /\ CoverageOK /\ BranchesOK)'
  BY <1>1, <1>4 DEF Inv, PhaseOK, CoverageOK, BranchesOK, Covered, HasCases, Domain
<1>9. (BatchOK /\ VerdictsSound)'
  BY <1>1, <1>2, <1>4, <1>6 DEF Inv, BatchOK, VerdictsSound
<1>10. RefinedOK'
  <2>1. Unresolved' = Unresolved /\ \A r, c : Refines(r, c)' <=> Refines(r, c)
    BY <1>1, <1>4 DEF Unresolved, Refines
  <2> SUFFICES ASSUME NEW case \in Unresolved
               PROVE  \/ ~ \E r \in Batch' : Refines(r, case)
                      \/ \A p \in Context(case).assumes :
                            \E r \in Batch' : Refines(r, case) /\ p \in Selected(r[3])
    BY <1>4, <2>1 DEF RefinedOK
  <2>2. case \in CoarseCases /\ case[1] \in Paths /\ case[1] \in 1 .. Len(Entries)
    BY <1>2, <1>5 DEF Unresolved, Paths
  <2>3. Batch' = CoarseCases \cup todo'
    BY <1>1, <1>2 DEF Batch
  <2>4. CASE tried[case[1]] = {}
    <3> SUFFICES ASSUME NEW r \in Batch', Refines(r, case) PROVE FALSE
      OBVIOUS
    <3>1. r \in todo'
      BY <2>3 DEF Refines
    <3> QED
      BY <1>6, <2>4, <3>1 DEF Refines
  <2>5. CASE tried[case[1]] # {}
    <3> SUFFICES ASSUME NEW p \in Context(case).assumes
                 PROVE  \E r \in Batch' : Refines(r, case) /\ p \in Selected(r[3])
      OBVIOUS
    <3>1. p \in Points /\ p \in Entries[case[1]].holds
      BY <1>2, <1>3, <2>2, PairShape DEF Context, Assumptions, Inv, BranchesOK, Sides
    <3>2. PICK sel \in tried[case[1]] : p \in Selected(sel)
      BY <1>0, <1>3, <2>2, <2>5, <3>1, RefinementsCover
    <3>3. <<case[1], case[2], sel>> \in todo'
      BY <1>0
    <3> QED
      BY <1>6, <2>3, <3>2, <3>3 DEF Refines
  <2> QED
    BY <2>4, <2>5
<1> QED
  BY <1>1, <1>7, <1>8, <1>9, <1>10, NotDone DEF Inv

\* A point both specifications admit lies in a guard, in an output class, and
\* so in a coarse case.
LEMMA CoarseCasesCover ==
  ASSUME Inv, pc = "refined", NEW p \in Domain
  PROVE  \E case \in CoarseCases : p \in Context(case).assumes
<1>1. side \in Sides /\ pair \in Pairs
  BY DEF Inv, PhaseOK, TypeOK
<1>2. p \in Points /\ \A s \in Sides : p \in pair.domain[s]
  BY <1>1, PairShape DEF Domain, Sides
<1>3. PICK k \in DOMAIN Entries : p \in Entries[k].holds
  BY <1>1 DEF Inv, CoverageOK, Covered, Entries, Sides
<1>4. Len(guards) = Len(Entries) /\ k \in Paths
  BY <1>1, <1>3, PairShape DEF Inv, BranchesOK, Entries, Paths, Sides
<1>5. PICK j \in Paths : p \in guards[j]
  BY <1>1, <1>2, <1>3, <1>4 DEF Inv, BranchesOK, Sides
<1>6. PICK c \in OutputClasses : p \in InClass(side, c)
  BY <1>1, <1>2, OutputHasClass
<1>7. p \in Context(Coarse(j, c)).assumes
  BY <1>1, <1>2, <1>5, <1>6, NoInputsSelected
     DEF Context, Assumptions, Coarse, Sides
<1> QED
  BY <1>7 DEF CoarseCases

LEMMA MergeInv == Inv /\ Merge => Inv'
<1> SUFFICES ASSUME Inv, Merge PROVE Inv'
  OBVIOUS
<1>1. /\ pc = "refined" /\ pc' = "done" /\ todo = {}
      /\ results' = [case \in Terminal |-> verified[case]]
      /\ UNCHANGED <<pair, side, guards, prior, todo, verified>>
  BY DEF Merge, Report
<1>2. side # 0 /\ CoarseCases \subseteq DOMAIN verified /\ Batch = DOMAIN verified
  BY <1>1 DEF Inv, PhaseOK, BatchOK, Batch
<1>3. /\ \A c : Context(c)' = Context(c)
      /\ Paths' = Paths /\ Entries' = Entries /\ Agree' = Agree /\ Domain' = Domain
      /\ CoarseCases' = CoarseCases /\ \A sel : Selected(sel)' = Selected(sel)
  BY <1>1, CasesAreFixed
<1>4. DOMAIN results' = Terminal /\ Terminal \subseteq DOMAIN verified
      /\ \A case \in Terminal : results'[case] = verified[case]
  BY <1>1 DEF Terminal
<1>5. TypeOK'
  BY <1>1, <1>4 DEF Inv, TypeOK
<1>6. (PhaseOK /\ CoverageOK /\ BranchesOK /\ BatchOK /\ RefinedOK /\ VerdictsSound)'
  BY <1>1, <1>2, <1>3 DEF Inv, PhaseOK, CoverageOK, BranchesOK, BatchOK, RefinedOK,
     VerdictsSound, Covered, HasCases, Domain
<1>7. ReportOK' /\ EqualClassesReported'
  BY <1>1, <1>2, <1>4 DEF ReportOK, EqualClassesReported
<1>8. EveryPointReported'
  <2> SUFFICES ASSUME NEW p \in Domain
               PROVE  \E case \in Terminal : p \in Context(case).assumes
    BY <1>3, <1>4 DEF EveryPointReported
  <2>1. PICK case \in CoarseCases : p \in Context(case).assumes
    BY <1>1, CoarseCasesCover
  <2>2. CASE case \in Terminal
    BY <2>1, <2>2
  <2>3. CASE case \notin Terminal
    <3>1. case \in Unresolved /\ \E r \in Batch : Refines(r, case)
      BY <1>2, <2>1, <2>3 DEF Terminal, RefinementsOf, Refines
    <3>2. PICK r \in Batch : Refines(r, case) /\ p \in Selected(r[3])
      BY <1>1, <2>1, <3>1 DEF Inv, RefinedOK
    <3>3. r \in Terminal
      BY <1>2, <3>2 DEF Terminal, Unresolved, Refines
    <3>4. p \in Context(r).assumes
      BY <2>1, <3>2 DEF Context, Assumptions, Refines
    <3> QED
      BY <3>3, <3>4
  <2> QED
    BY <2>2, <2>3
<1>9. AnswersStand'
  <2> SUFFICES ASSUME NEW case \in CoarseCases,
                      verified[case].status # "unknown", ~ verified[case].proved
               PROVE  case \in Terminal /\ ~ results'[case].proved
    BY <1>1, <1>3, <1>4 DEF AnswersStand, Proved
  <2> QED
    BY <1>2, <1>4 DEF Terminal, Unresolved
<1> QED
  BY <1>5, <1>6, <1>7, <1>8, <1>9 DEF Inv

LEMMA FinishInv == Inv /\ Finish => Inv'
<1> SUFFICES ASSUME Inv, Finish PROVE Inv'
  OBVIOUS
<1>1. /\ pc = "exhaustive" /\ pc' = "done" /\ todo = {} /\ side = 0
      /\ results' = [case \in DOMAIN verified |-> verified[case]]
      /\ UNCHANGED <<pair, side, guards, prior, todo, verified>>
  BY DEF Finish, Report, Inv, PhaseOK
<1>2. /\ DOMAIN results' = DOMAIN verified
      /\ \A case \in DOMAIN verified : results'[case] = verified[case]
      /\ ExhaustiveCases \subseteq DOMAIN verified
  BY <1>1 DEF Inv, BatchOK, Batch
<1>3. /\ \A c : Context(c)' = Context(c)
      /\ Agree' = Agree /\ Domain' = Domain
  BY <1>1, CasesAreFixed
<1>4. TypeOK'
  BY <1>1, <1>2 DEF Inv, TypeOK
<1>5. (PhaseOK /\ CoverageOK /\ BranchesOK /\ BatchOK /\ RefinedOK /\ VerdictsSound)'
  BY <1>1, <1>3 DEF Inv, PhaseOK, CoverageOK, BranchesOK, BatchOK, RefinedOK,
     VerdictsSound, Covered, HasCases, Domain
<1>6. (ReportOK /\ EveryPointReported /\ AnswersStand)'
  BY <1>1, <1>2 DEF ReportOK, EveryPointReported, AnswersStand
<1>7. EqualClassesReported'
  <2> SUFFICES ASSUME NEW p \in Domain, SameClass(p)
               PROVE  \E case \in DOMAIN verified : p \in Context(case).assumes
    BY <1>1, <1>2, <1>3 DEF EqualClassesReported, SameClass
  <2>1. p \in Points /\ pair \in Pairs /\ \A s \in Sides : p \in pair.domain[s]
    BY PairShape DEF Inv, TypeOK, Domain, Sides
  <2>2. PICK c \in OutputClasses : p \in InClass(1, c)
    BY <2>1, OutputHasClass DEF Sides
  <2>3. p \in InClass(2, c)
    BY <2>2 DEF SameClass, InClass
  <2> DEFINE case == <<0, c, pair.input[p]>>
  <2>4. case \in ExhaustiveCases /\ p \in Selected(case[3])
    BY <2>1, PairShape DEF ExhaustiveCases, Selected
  <2>5. p \in Context(case).assumes
    BY <1>1, <2>1, <2>2, <2>3, <2>4 DEF Context, Assumptions, Sides
  <2> QED
    BY <1>2, <2>4, <2>5
<1> QED
  BY <1>4, <1>5, <1>6, <1>7 DEF Inv

LEMMA Invariance == Spec => []Inv
<1>1. Inv /\ UNCHANGED vars => Inv'
  <2> SUFFICES ASSUME Inv, UNCHANGED vars PROVE Inv'
    OBVIOUS
  <2>1. /\ \A c : Context(c)' = Context(c)
        /\ Agree' = Agree /\ Domain' = Domain /\ Paths' = Paths
        /\ Entries' = Entries /\ CoarseCases' = CoarseCases
        /\ \A sel : Selected(sel)' = Selected(sel)
    BY CasesAreFixed DEF vars
  <2> QED
    BY <2>1 DEF vars, Inv, TypeOK, PhaseOK, CoverageOK, BranchesOK, BatchOK,
       RefinedOK, VerdictsSound, ReportOK, EveryPointReported, Batch, Refines,
       EqualClassesReported, AnswersStand, SameClass, Covered, HasCases,
       Unresolved, ExhaustiveCases, OutputClasses, Proved
<1>2. Inv /\ [Next]_vars => Inv'
  BY <1>1, ValidateInv, SelectInv, DeriveGuardInv, StartCoarseInv, VerifyInv,
     RefineInv, MergeInv, FinishInv DEF Next
<1> QED
  BY <1>2, InitInv, PTL DEF Spec

-----------------------------------------------------------------------------
\* Type correctness of a check, for every pair of specifications.
THEOREM Typing == Spec => []TypeOK
<1>1. Inv => TypeOK
  BY DEF Inv
<1> QED
  BY <1>1, Invariance, PTL

\* The cases a check driven by Cases reports leave out no input, whatever the
\* solver answered and whichever cases were refined.
THEOREM Exhaustiveness == Spec => []EveryPointReported
<1>1. Inv => EveryPointReported
  BY DEF Inv
<1> QED
  BY <1>1, Invariance, PTL

\* The verdict of such a check is sound: a design whose reported cases are all
\* proved agrees with its specification on every input both admit.
THEOREM Soundness == Spec => []PartitionSound
<1>1. Inv => PartitionSound
  <2> SUFFICES ASSUME Inv, pc = "done", side # 0, Proved, NEW p \in Domain
               PROVE  p \in Agree
    BY DEF PartitionSound
  <2>1. PICK case \in DOMAIN results : p \in Context(case).assumes
    BY DEF Inv, EveryPointReported
  <2>2. verified[case].proved /\ case \in DOMAIN verified
    BY DEF Proved, Inv, ReportOK, TypeOK
  <2> QED
    BY <2>1, <2>2 DEF Inv, VerdictsSound
<1> QED
  BY <1>1, Invariance, PTL

\* What the exhaustive fallback looks at, and what its proofs are worth: its
\* cases hold the inputs whose outputs are of one class, and no others; if all
\* are proved the outputs agree on those.  Of the other inputs, for which
\* check_equivalence claims as much, it says nothing (ProvedMeansEquivalent).
FallbackCases ==
    pc = "done" /\ side = 0 =>
        \A p \in Domain :
            SameClass(p) <=> \E case \in DOMAIN results : p \in Context(case).assumes

THEOREM FallbackSoundness == Spec => [](FallbackSound /\ FallbackCases)
<1>1. Inv => FallbackSound
  <2> SUFFICES ASSUME Inv, pc = "done", side = 0, Proved,
                      NEW p \in Domain, SameClass(p)
               PROVE  p \in Agree
    BY DEF FallbackSound, SameClass
  <2>1. PICK case \in DOMAIN results : p \in Context(case).assumes
    BY DEF Inv, EqualClassesReported
  <2>2. verified[case].proved /\ case \in DOMAIN verified
    BY DEF Proved, Inv, ReportOK, TypeOK
  <2> QED
    BY <2>1, <2>2 DEF Inv, VerdictsSound
<1>2. Inv => FallbackCases
  <2> SUFFICES ASSUME Inv, pc = "done", side = 0, NEW p \in Domain,
                      NEW case \in DOMAIN results, p \in Context(case).assumes
               PROVE  SameClass(p)
    BY DEF Inv, EqualClassesReported, FallbackCases
  <2>1. p \in InClass(1, case[2]) /\ p \in InClass(2, case[2])
    BY DEF Context, Assumptions
  <2> QED
    BY <2>1 DEF SameClass, InClass
<1> QED
  BY <1>1, <1>2, Invariance, PTL

\* Where a proved check can still be wrong about an input both specifications
\* admit: in the fallback, of floating-point outputs of different classes.  A
\* check driven by Cases or of scalar outputs is right whenever it is proved.
ProofsMissOnlyClasses ==
    pc = "done" /\ Proved =>
        \A p \in Domain \ Agree : side = 0 /\ pair.fp /\ ~SameClass(p)

THEOREM ProofsAreMissedByClass == Spec => []ProofsMissOnlyClasses
<1>1. PartitionSound /\ FallbackSound => ProofsMissOnlyClasses
  <2> SUFFICES ASSUME PartitionSound, FallbackSound, pc = "done", Proved,
                      NEW p \in Domain, p \notin Agree
               PROVE  side = 0 /\ pair.fp /\ ~SameClass(p)
    BY DEF ProofsMissOnlyClasses
  <2>1. side = 0
    BY DEF PartitionSound
  <2>2. ~SameClass(p)
    BY <2>1 DEF FallbackSound, SameClass
  <2> QED
    BY <2>1, <2>2 DEF SameClass
<1> QED
  BY <1>1, Soundness, FallbackSoundness, PTL

\* Refinement replaces only what the solver left open: an answer that fails a
\* case fails the check.
THEOREM AnswersAreFinal == Spec => []AnswersStand
<1>1. Inv => AnswersStand
  BY DEF Inv
<1> QED
  BY <1>1, Invariance, PTL
=============================================================================
