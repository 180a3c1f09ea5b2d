---------------------------- MODULE TypedDomain ----------------------------
(***************************************************************************)
(* analyze_typed_domain and rival_prove_result_fits                         *)
(* (zolotone/rival/analysis.py): branch and prune over the integer codes of *)
(* finitely many fixed-point and Boolean inputs.  Boxes of codes wait on a  *)
(* stack; an interval evaluation of the box on top discharges it, ends the  *)
(* search or leaves it open, and an open box is bisected on its widest side *)
(* until points are evaluated exactly.                                      *)
(*                                                                         *)
(* A specification is what its expressions are worth at each point.  The    *)
(* Rival machine is external: what it says of a box is true of each point   *)
(* of the box, but of more than one point it may also say nothing.          *)
(***************************************************************************)
EXTENDS Integers, Sequences

CONSTANTS
    N,                 \* number of inputs
    Dtypes,            \* their types
    Bounds,            \* values of outputs and of the ends of enclosures
    Problems,          \* the specifications analysed
    Minimum, Maximum,  \* the codes of the output type (result-fit proofs)
    Excluded           \* the code an excluded input is given there

Inputs == 1 .. N

\* The codes of an input: two's complement for Q, unsigned for UQ and Bool.
LowerCode(dtype) == IF dtype.kind = "Q" THEN -(2 ^ (dtype.width - 1)) ELSE 0
UpperCode(dtype) == 2 ^ (IF dtype.kind = "Q" THEN dtype.width - 1 ELSE dtype.width) - 1

Intervals == {codes \in Int \X Int : codes[1] <= codes[2]}
Boxes == [Inputs -> Intervals]

InitialBox == [i \in Inputs |-> <<LowerCode(Dtypes[i]), UpperCode(Dtypes[i])>>]

PointsOf(box) ==
    {p \in [Inputs -> UNION {box[i][1] .. box[i][2] : i \in Inputs}] :
        \A i \in Inputs : p[i] \in box[i][1] .. box[i][2]}

Domain == PointsOf(InitialBox)

Truths == {"true", "false", "error"}

\* The assumptions and the checks at a point; where the output has a value,
\* and which.
Specifications ==
    [assume : [Domain -> Truths], check : [Domain -> Truths],
     defined : SUBSET Domain, output : [Domain -> Bounds]]

ASSUME NAssumption == N \in Nat
ASSUME DtypesAssumption == InitialBox \in Boxes
ASSUME BoundsAssumption == Bounds \subseteq Int
\* Zero is a code of every Q and UQ type; a bare UQ annotation asks for the
\* sign alone, with code 1 for "not negative" and for the excluded.
ASSUME RangeAssumption ==
    Minimum \in Int /\ Maximum \in Int /\ Excluded \in Minimum .. Maximum
ASSUME ProblemsAssumption == Problems \subseteq Specifications

VARIABLES
    task,       \* "fits", or a domain analysis of an "exact" or "generic" output
    problem,    \* the specification
    pending,    \* the stack of boxes
    reachable,  \* a box satisfied all assumptions
    bounds,     \* output_bounds: <<>>, or <<lower, upper>>
    result      \* "running", or how the call ended

vars == <<task, problem, pending, reachable, bounds, result>>

Returns == {"proved", "refuted", "bounds"}
Errors  == {"unreachable", "infeasible", "assumption error", "check error",
            "output error", "machine error"}

Init ==
    /\ task \in {"fits", "exact", "generic"}
    /\ problem \in Problems
    /\ pending = <<InitialBox>>
    /\ reachable = FALSE
    /\ bounds = <<>>
    /\ result = "running"

-----------------------------------------------------------------------------
(* The stack                                                                *)

Top  == pending[Len(pending)]
Rest == SubSeq(pending, 1, Len(pending) - 1)

Working == result = "running" /\ pending # <<>>

IsPoint(box) == \A i \in Inputs : box[i][1] = box[i][2]

Extent(box, i) == box[i][2] - box[i][1]

\* The first of the widest sides.
Widest(box, axis) ==
    \A i \in Inputs :
        \/ Extent(box, i) < Extent(box, axis)
        \/ Extent(box, i) = Extent(box, axis) /\ axis <= i

Middle(box, axis) == (box[axis][1] + box[axis][2]) \div 2

\* Bug: the left half is the whole box.
LeftUncut(box, axis) == box

Left(box, axis) == [box EXCEPT ![axis] = <<box[axis][1], Middle(box, axis)>>]

Right(box, axis) == [box EXCEPT ![axis] = <<Middle(box, axis) + 1, box[axis][2]>>]

\* The box needs no further look, or gives way to its halves.
Discharge == pending' = Rest /\ UNCHANGED result

Split ==
    /\ ~IsPoint(Top)
    /\ \E axis \in Inputs :
          /\ Widest(Top, axis)
          /\ pending' = Rest \o <<Left(Top, axis), Right(Top, axis)>>
    /\ UNCHANGED result

\* The call ends with the box on top still there.
Return(value) == result' = value /\ UNCHANGED pending

-----------------------------------------------------------------------------
(* What the machine may answer                                              *)

\* A truth value, or "error" for a total domain error, if each point has it.
Everywhere(truth, value) == \A p \in PointsOf(Top) : truth[p] = value

\* No definite answer on a range.  On a point evaluation is exact.
Unresolved == ~IsPoint(Top)

\* Two numbers that enclose an output defined on all of the box.
Encloses(lower, upper) ==
    /\ PointsOf(Top) \subseteq problem.defined
    /\ \A p \in PointsOf(Top) : problem.output[p] \in lower .. upper

\* apply_point gives up.
MachineFails ==
    /\ Working /\ IsPoint(Top)
    /\ Return("machine error")
    /\ UNCHANGED <<task, problem, reachable, bounds>>

-----------------------------------------------------------------------------
(* Steps of both searches                                                   *)

Analysing == Working /\ task \in {"exact", "generic"}
Fitting   == Working /\ task = "fits"

\* An error-free rejection excludes the box.
RejectBox ==
    /\ Working
    /\ Everywhere(problem.assume, "false")
    /\ Discharge
    /\ UNCHANGED <<task, problem, reachable, bounds>>

\* A result-fit proof splits before it blames the assumptions.
AssumptionError ==
    /\ Working
    /\ Everywhere(problem.assume, "error")
    /\ task = "fits" => IsPoint(Top)
    /\ Return("assumption error")
    /\ UNCHANGED <<task, problem, reachable, bounds>>

-----------------------------------------------------------------------------
(* analyze_typed_domain                                                     *)

SplitOnAssumptions ==
    /\ Analysing /\ Unresolved
    /\ Split
    /\ UNCHANGED <<task, problem, reachable, bounds>>

\* Bug: whatever the assumptions do not reject is an input.
AdmittedUnlessRejected ==
    Analysing /\ ~Everywhere(problem.assume, "false") /\ reachable' = TRUE

\* Every point of the box satisfies all assumptions.
Admitted ==
    Analysing /\ Everywhere(problem.assume, "true") /\ reachable' = TRUE

CheckError ==
    /\ Admitted
    /\ Everywhere(problem.check, "error")
    /\ Return("check error")
    /\ UNCHANGED <<task, problem, bounds>>

SplitOnChecks ==
    /\ Admitted /\ Unresolved
    /\ Split
    /\ UNCHANGED <<task, problem, bounds>>

CheckFails ==
    /\ Admitted
    /\ Everywhere(problem.check, "false")
    /\ Return("infeasible")
    /\ UNCHANGED <<task, problem, bounds>>

Checked == Admitted /\ Everywhere(problem.check, "true")

OutputError ==
    /\ Checked
    /\ PointsOf(Top) \cap problem.defined = {}
    /\ Return("output error")
    /\ UNCHANGED <<task, problem, bounds>>

SplitOnOutput ==
    /\ Checked /\ Unresolved
    /\ Split
    /\ UNCHANGED <<task, problem, bounds>>

\* A generic output is enclosed by floats, at points too: the enclosure may
\* be unresolved at a point or not be finite anywhere.
NoFiniteEnclosure ==
    /\ Checked /\ task = "generic"
    /\ Return("machine error")
    /\ UNCHANGED <<task, problem, bounds>>

Smaller(a, b) == IF a <= b THEN a ELSE b
Greater(a, b) == IF a <= b THEN b ELSE a

\* Bug: the last box alone bounds the output.
WidenedToLast(lower, upper) == <<lower, upper>>

Widened(lower, upper) ==
    IF bounds = <<>> THEN <<lower, upper>>
    ELSE <<Smaller(bounds[1], lower), Greater(bounds[2], upper)>>

EncloseOutput ==
    /\ Checked
    /\ \E lower, upper \in Bounds :
          /\ Encloses(lower, upper)
          /\ task = "exact" /\ IsPoint(Top) => lower = upper
          /\ bounds' = Widened(lower, upper)
    /\ Discharge
    /\ UNCHANGED <<task, problem>>

EndAnalysis ==
    /\ result = "running" /\ pending = <<>>
    /\ task \in {"exact", "generic"}
    /\ Return(IF reachable THEN "bounds" ELSE "unreachable")
    /\ UNCHANGED <<task, problem, reachable, bounds>>

-----------------------------------------------------------------------------
(* rival_prove_result_fits                                                  *)

\* The integer output evaluated.
Guarded(p) == IF problem.assume[p] = "true" THEN problem.output[p] ELSE Excluded

\* Bug: assumptions that may fail to evaluate are not asked about.
FitsUnlessOut(p) ==
    problem.assume[p] = "true" => p \in problem.defined /\ problem.output[p] \in Minimum .. Maximum

\* Neither the assumptions nor the guarded output fail, and its code fits.
Fits(p) ==
    /\ problem.assume[p] # "error"
    /\ problem.assume[p] = "true" => p \in problem.defined
    /\ Guarded(p) \in Minimum .. Maximum

FittingBox ==
    /\ Fitting
    /\ \A p \in PointsOf(Top) : Fits(p)
    /\ Discharge
    /\ UNCHANGED <<task, problem, reachable, bounds>>

SplitOnFit ==
    /\ Fitting /\ Unresolved
    /\ Split
    /\ UNCHANGED <<task, problem, reachable, bounds>>

\* Only a point refutes, and only one that is an input with an output.
PointOutside ==
    /\ Fitting /\ IsPoint(Top) /\ Everywhere(problem.assume, "true")
    /\ \E p \in PointsOf(Top) :
          \/ p \notin problem.defined /\ Return("output error")
          \/ /\ p \in problem.defined
             /\ problem.output[p] \notin Minimum .. Maximum
             /\ Return("refuted")
    /\ UNCHANGED <<task, problem, reachable, bounds>>

EndFits ==
    /\ result = "running" /\ pending = <<>> /\ task = "fits"
    /\ Return("proved")
    /\ UNCHANGED <<task, problem, reachable, bounds>>

-----------------------------------------------------------------------------
Next ==
    \/ MachineFails \/ RejectBox \/ AssumptionError
    \/ SplitOnAssumptions \/ CheckError \/ SplitOnChecks \/ CheckFails
    \/ OutputError \/ SplitOnOutput \/ NoFiniteEnclosure \/ EncloseOutput
    \/ EndAnalysis
    \/ FittingBox \/ SplitOnFit \/ PointOutside \/ EndFits

\* Each iteration of the loop ends: the machine is called with a cap on its
\* iterations.
Spec == Init /\ [][Next]_vars /\ WF_vars(Next)

-----------------------------------------------------------------------------
(* What the callers in autogen rely on                                      *)

Input(p)   == problem.assume[p] = "true"
Passes(p)  == Input(p) /\ problem.check[p] = "true"

\* The type invariant.
TypeOK ==
    /\ task \in {"fits", "exact", "generic"}
    /\ problem \in Specifications
    /\ pending \in Seq(Boxes)
    /\ reachable \in BOOLEAN
    /\ bounds = <<>> \/ bounds \in Bounds \X Bounds
    /\ result \in {"running"} \cup Returns \cup Errors

\* The answer of a result-fit proof is right for every input: a proof covers
\* all codes, those whose assumptions cannot be evaluated included, and a
\* refutation has a witness.
FitAnswerSound ==
    /\ result = "proved" =>
          \A p \in Domain :
              \/ problem.assume[p] = "false"
              \/ /\ Input(p) /\ p \in problem.defined
                 /\ problem.output[p] \in Minimum .. Maximum
    /\ result = "refuted" =>
          \E p \in Domain : Input(p) /\ p \in problem.defined
                            /\ problem.output[p] \notin Minimum .. Maximum

\* Bounds are returned only for a specification without a domain error or a
\* failing check, and no input has its output outside them.
BoundsEnclose ==
    result = "bounds" =>
        /\ bounds # <<>>
        /\ \E p \in Domain : Input(p)
        /\ \A p \in Domain :
              \/ problem.assume[p] = "false"
              \/ /\ Passes(p) /\ p \in problem.defined
                 /\ problem.output[p] \in bounds[1] .. bounds[2]

\* Nothing outside the assumptions can fail a specification: each complaint
\* has an input behind it, and unreachable means that there is none.
ComplaintsAreReal ==
    /\ result = "unreachable" => \A p \in Domain : problem.assume[p] = "false"
    /\ result = "infeasible" => \E p \in Domain : Input(p) /\ problem.check[p] = "false"
    /\ result = "assumption error" => \E p \in Domain : problem.assume[p] = "error"
    /\ result = "check error" => \E p \in Domain : Input(p) /\ problem.check[p] = "error"
    /\ result = "output error" => \E p \in Domain : Input(p) /\ p \notin problem.defined

\* Every search ends.
Terminates == <>(result # "running")
=============================================================================
