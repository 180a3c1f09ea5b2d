------------------------- MODULE TypedDomain_proofs -------------------------
(***************************************************************************)
(* The search over integer codes is right for any number of inputs of any   *)
(* width, any specification and however imprecise the interval machine is:  *)
(* proofs for the safety properties of TypedDomain.                         *)
(***************************************************************************)
EXTENDS TypedDomain, SequenceTheorems, TLAPS

\* Points, without the set they are drawn from.
LEMMA Membership ==
  ASSUME NEW box \in Boxes, NEW p
  PROVE  p \in PointsOf(box) <=>
            p \in [Inputs -> Int] /\ \A i \in Inputs : p[i] \in box[i][1] .. box[i][2]
<1>1. \A i \in Inputs : box[i][1] \in Int /\ box[i][2] \in Int
  BY DEF Boxes, Intervals
<1>2. ASSUME p \in [Inputs -> Int], \A i \in Inputs : p[i] \in box[i][1] .. box[i][2]
      PROVE  p \in [Inputs -> UNION {box[i][1] .. box[i][2] : i \in Inputs}]
  BY <1>2
<1>3. ASSUME p \in [Inputs -> UNION {box[i][1] .. box[i][2] : i \in Inputs}]
      PROVE  p \in [Inputs -> Int]
  BY <1>1, <1>3
<1> QED
  BY <1>2, <1>3 DEF PointsOf

\* Every box holds a point.
LEMMA NonEmpty == ASSUME NEW box \in Boxes PROVE \E p : p \in PointsOf(box)
<1> DEFINE corner == [i \in Inputs |-> box[i][1]]
<1>1. \A i \in Inputs : /\ box[i][1] \in Int /\ box[i][2] \in Int
                        /\ box[i][1] <= box[i][2]
  BY DEF Boxes, Intervals
<1>2. corner \in [Inputs -> Int] /\ \A i \in Inputs : corner[i] \in box[i][1] .. box[i][2]
  BY <1>1
<1>3. corner \in PointsOf(box)
  BY <1>2, Membership
<1> QED
  BY <1>3

\* Bisecting a box loses no point and leaves two smaller boxes.
LEMMA Bisection ==
  ASSUME NEW box \in Boxes, NEW axis \in Inputs, ~IsPoint(box), Widest(box, axis)
  PROVE  /\ Left(box, axis) \in Boxes /\ Right(box, axis) \in Boxes
         /\ PointsOf(box) = PointsOf(Left(box, axis)) \cup PointsOf(Right(box, axis))
<1>1. \A i \in Inputs : /\ box[i][1] \in Int /\ box[i][2] \in Int
                        /\ box[i][1] <= box[i][2]
  BY DEF Boxes, Intervals
<1>2. PICK i \in Inputs : box[i][1] # box[i][2]
  BY DEF IsPoint
<1>3. box[axis][1] < box[axis][2]
  BY <1>1, <1>2 DEF Widest, Extent
<1>4. /\ Middle(box, axis) \in Int
      /\ box[axis][1] <= Middle(box, axis) /\ Middle(box, axis) < box[axis][2]
  BY <1>1, <1>3 DEF Middle
<1>5. /\ <<box[axis][1], Middle(box, axis)>> \in Intervals
      /\ <<Middle(box, axis) + 1, box[axis][2]>> \in Intervals
  BY <1>1, <1>4 DEF Intervals
<1>6. Left(box, axis) \in Boxes /\ Right(box, axis) \in Boxes
  BY <1>5 DEF Left, Right, Boxes
<1>7. /\ Left(box, axis)[axis] = <<box[axis][1], Middle(box, axis)>>
      /\ Right(box, axis)[axis] = <<Middle(box, axis) + 1, box[axis][2]>>
      /\ \A j \in Inputs \ {axis} :
            Left(box, axis)[j] = box[j] /\ Right(box, axis)[j] = box[j]
  BY DEF Left, Right, Boxes
<1>8. ASSUME NEW p PROVE p \in PointsOf(box) <=>
         p \in PointsOf(Left(box, axis)) \/ p \in PointsOf(Right(box, axis))
  <2>1. CASE p \notin [Inputs -> Int]
    BY <1>6, <2>1, Membership
  <2>2. CASE p \in [Inputs -> Int]
    <3>1. p[axis] \in box[axis][1] .. box[axis][2] <=>
             \/ p[axis] \in box[axis][1] .. Middle(box, axis)
             \/ p[axis] \in Middle(box, axis) + 1 .. box[axis][2]
      BY <1>1, <1>4, <2>2
    <3>2. p \in PointsOf(box) <=>
             /\ p[axis] \in box[axis][1] .. box[axis][2]
             /\ \A j \in Inputs \ {axis} : p[j] \in box[j][1] .. box[j][2]
      BY <2>2, Membership
    <3>3. p \in PointsOf(Left(box, axis)) <=>
             /\ p[axis] \in box[axis][1] .. Middle(box, axis)
             /\ \A j \in Inputs \ {axis} : p[j] \in box[j][1] .. box[j][2]
      BY <1>6, <1>7, <2>2, Membership
    <3>4. p \in PointsOf(Right(box, axis)) <=>
             /\ p[axis] \in Middle(box, axis) + 1 .. box[axis][2]
             /\ \A j \in Inputs \ {axis} : p[j] \in box[j][1] .. box[j][2]
      BY <1>6, <1>7, <2>2, Membership
    <3> QED
      BY <3>1, <3>2, <3>3, <3>4
  <2> QED
    BY <2>1, <2>2
<1> QED
  BY <1>6, <1>8

-----------------------------------------------------------------------------
(* The stack                                                                *)

\* The box on top and the rest make up the stack.
LEMMA Popped ==
  ASSUME pending \in Seq(Boxes), pending # <<>>
  PROVE  /\ Top \in Boxes /\ Rest \in Seq(Boxes)
         /\ Len(pending) \in Nat \ {0} /\ Len(Rest) = Len(pending) - 1
         /\ \A i \in 1 .. Len(Rest) : Rest[i] = pending[i]
<1>1. Len(pending) \in Nat \ {0}
  BY EmptySeq, LenProperties
<1>2. Top \in Boxes
  BY <1>1, ElementOfSeq DEF Top
<1> DEFINE last == Len(pending) - 1
<1>3. last \in Nat /\ \A i \in 1 .. last : pending[i] \in Boxes
  BY <1>1, ElementOfSeq
<1>4. /\ SubSeq(pending, 1, last) \in Seq(Boxes)
      /\ Len(SubSeq(pending, 1, last)) = IF 1 <= last THEN last - 1 + 1 ELSE 0
      /\ \A i \in 1 .. last - 1 + 1 : SubSeq(pending, 1, last)[i] = pending[1 + i - 1]
  <2> HIDE DEF last
  <2> QED
    BY <1>3, SubSeqProperties
<1>5. Rest = SubSeq(pending, 1, last)
  BY DEF Rest
<1>6. /\ Rest \in Seq(Boxes) /\ Len(Rest) = last
      /\ \A i \in 1 .. last : Rest[i] = pending[i]
  <2> HIDE DEF last
  <2> QED
    BY <1>3, <1>4, <1>5
<1> QED
  BY <1>1, <1>2, <1>6

\* A point is waiting if some box of the stack holds it.
Waiting(p) == \E i \in 1 .. Len(pending) : p \in PointsOf(pending[i])

\* Taking the top off leaves all but its points waiting.
LEMMA DischargeKeeps ==
  ASSUME pending \in Seq(Boxes), pending # <<>>, Discharge, NEW p, Waiting(p)
  PROVE  Waiting(p)' \/ p \in PointsOf(Top)
<1>1. PICK i \in 1 .. Len(pending) : p \in PointsOf(pending[i])
  BY DEF Waiting
<1>2. CASE i = Len(pending)
  BY <1>1, <1>2 DEF Top
<1>3. CASE i # Len(pending)
  <2>1. i \in 1 .. Len(Rest) /\ pending'[i] = pending[i] /\ pending' = Rest
    BY <1>3, Popped DEF Discharge
  <2> QED
    BY <1>1, <2>1 DEF Waiting
<1> QED
  BY <1>2, <1>3

\* What lies on the stack after a split.
LEMMA SplitStack ==
  ASSUME pending \in Seq(Boxes), pending # <<>>, Split
  PROVE  \E left, right \in Boxes :
            /\ PointsOf(Top) = PointsOf(left) \cup PointsOf(right)
            /\ pending' \in Seq(Boxes)
            /\ Len(pending') = Len(pending) + 1
            /\ \A i \in 1 .. Len(pending) - 1 : pending'[i] = pending[i]
            /\ pending'[Len(pending)] = left
            /\ pending'[Len(pending) + 1] = right
<1>1. PICK axis \in Inputs : /\ Widest(Top, axis) /\ ~IsPoint(Top)
                             /\ pending' = Rest \o <<Left(Top, axis), Right(Top, axis)>>
  BY DEF Split
<1> DEFINE left == Left(Top, axis)  right == Right(Top, axis)
<1>2. /\ left \in Boxes /\ right \in Boxes
      /\ PointsOf(Top) = PointsOf(left) \cup PointsOf(right)
  BY <1>1, Popped, Bisection
<1>3. pending' = Rest \o <<left, right>>
  BY <1>1
<1> HIDE DEF left, right
<1>4. /\ <<left, right>> \in Seq(Boxes) /\ Len(<<left, right>>) = 2
      /\ <<left, right>>[1] = left /\ <<left, right>>[2] = right
  BY <1>2
<1>5. /\ pending' \in Seq(Boxes) /\ Len(pending') = Len(Rest) + 2
      /\ \A i \in 1 .. Len(Rest) + 2 :
            pending'[i] = IF i <= Len(Rest) THEN Rest[i]
                          ELSE <<left, right>>[i - Len(Rest)]
  BY <1>3, <1>4, Popped, ConcatProperties
<1>6. /\ Len(pending') = Len(pending) + 1
      /\ \A i \in 1 .. Len(pending) - 1 : pending'[i] = pending[i]
      /\ pending'[Len(pending)] = left
      /\ pending'[Len(pending) + 1] = right
  <2>1. Len(Rest) \in Nat /\ Len(Rest) + 1 = Len(pending)
    BY Popped
  <2>2. Len(pending') = Len(pending) + 1
    BY <1>5, <2>1
  <2>3. ASSUME NEW i \in 1 .. Len(pending) - 1 PROVE pending'[i] = pending[i]
    <3>1. i \in 1 .. Len(Rest)
      BY <2>1
    <3>2. pending'[i] = Rest[i]
      BY <1>5, <2>1, <3>1
    <3> QED
      BY <3>1, <3>2, Popped
  <2>4. pending'[Len(Rest) + 1] = <<left, right>>[1]
    BY <1>5, <2>1
  <2>5. pending'[Len(Rest) + 2] = <<left, right>>[2]
    BY <1>5, <2>1
  <2>6. Len(Rest) + 2 = Len(pending) + 1
    BY <2>1
  <2> QED
    BY <1>4, <2>1, <2>2, <2>3, <2>4, <2>5, <2>6
<1> QED
  BY <1>2, <1>5, <1>6

\* A split keeps every point waiting and adds none.
LEMMA SplitKeeps ==
  ASSUME pending \in Seq(Boxes), pending # <<>>, Split, NEW p
  PROVE  Waiting(p)' <=> Waiting(p)
<1>1. PICK left \in Boxes, right \in Boxes :
         /\ PointsOf(Top) = PointsOf(left) \cup PointsOf(right)
         /\ Len(pending') = Len(pending) + 1
         /\ \A i \in 1 .. Len(pending) - 1 : pending'[i] = pending[i]
         /\ pending'[Len(pending)] = left
         /\ pending'[Len(pending) + 1] = right
  BY SplitStack
<1>2. Len(pending) \in Nat \ {0} /\ Top = pending[Len(pending)]
  BY Popped DEF Top
<1>3. ASSUME Waiting(p) PROVE Waiting(p)'
  <2>1. PICK i \in 1 .. Len(pending) : p \in PointsOf(pending[i])
    BY <1>3 DEF Waiting
  <2>2. CASE i # Len(pending)
    BY <1>1, <1>2, <2>1, <2>2 DEF Waiting
  <2>3. CASE i = Len(pending)
    <3>1. p \in PointsOf(left) \/ p \in PointsOf(right)
      BY <1>1, <1>2, <2>1, <2>3
    <3> QED
      BY <1>1, <1>2, <3>1 DEF Waiting
  <2> QED
    BY <2>2, <2>3
<1>4. ASSUME Waiting(p)' PROVE Waiting(p)
  <2>1. PICK i \in 1 .. Len(pending) + 1 : p \in PointsOf(pending'[i])
    BY <1>1, <1>4 DEF Waiting
  <2>2. CASE i \in 1 .. Len(pending) - 1
    BY <1>1, <1>2, <2>1, <2>2 DEF Waiting
  <2>3. CASE i = Len(pending) \/ i = Len(pending) + 1
    <3>1. p \in PointsOf(pending[Len(pending)])
      BY <1>1, <1>2, <2>1, <2>3
    <3> QED
      BY <1>2, <3>1 DEF Waiting
  <2> QED
    BY <1>2, <2>1, <2>2, <2>3
<1> QED
  BY <1>3, <1>4
-----------------------------------------------------------------------------
(* The invariant                                                            *)

\* What is known of a point none of whose boxes is left.
Settled(p) ==
    IF task = "fits"
    THEN \/ problem.assume[p] = "false"
         \/ /\ Input(p) /\ p \in problem.defined
            /\ problem.output[p] \in Minimum .. Maximum
    ELSE \/ problem.assume[p] = "false"
         \/ /\ reachable /\ Passes(p) /\ p \in problem.defined
            /\ bounds # <<>> /\ problem.output[p] \in bounds[1] .. bounds[2]

\* Boxes hold points of the domain, and a point is forgotten only when settled.
Inside  == \A p : Waiting(p) => p \in Domain
Covered == \A p \in Domain : Waiting(p) \/ Settled(p)
Reached == reachable => \E p \in Domain : Input(p)

Progress == Inside /\ Covered /\ Reached
Sound    == FitAnswerSound /\ BoundsEnclose /\ ComplaintsAreReal

Inv == TypeOK /\ (result = "running" => Progress) /\ Sound

\* What a step finds while it works on a box: a box of the domain, not empty.
LEMMA OnTop ==
  ASSUME TypeOK, Inside, Working
  PROVE  /\ pending \in Seq(Boxes) /\ pending # <<>> /\ Top \in Boxes
         /\ \A p \in PointsOf(Top) : p \in Domain
         /\ \E p \in Domain : p \in PointsOf(Top)
<1>1. pending \in Seq(Boxes) /\ pending # <<>>
  BY DEF TypeOK, Working
<1>2. Top \in Boxes /\ Len(pending) \in 1 .. Len(pending)
  BY <1>1, Popped
<1>3. \A p \in PointsOf(Top) : p \in Domain
  BY <1>2 DEF Inside, Waiting, Top
<1>4. \E p : p \in PointsOf(Top)
  BY <1>2, NonEmpty
<1> QED
  BY <1>1, <1>2, <1>3, <1>4

\* A definite answer about a box is witnessed by an input.
LEMMA Witness ==
  ASSUME TypeOK, Inside, Working, NEW truth, NEW value, Everywhere(truth, value)
  PROVE  \E p \in Domain : p \in PointsOf(Top) /\ truth[p] = value
BY OnTop DEF Everywhere

\* The specification analysed and what is asked about it never change.
LEMMA Fixed == Next => UNCHANGED <<task, problem>>
BY DEF Next, MachineFails, RejectBox, AssumptionError, SplitOnAssumptions,
       CheckError, SplitOnChecks, CheckFails, OutputError, SplitOnOutput,
       NoFiniteEnclosure, EncloseOutput, EndAnalysis, FittingBox, SplitOnFit,
       PointOutside, EndFits

\* What the search has learnt so far is not lost in a step.
Keeps == /\ UNCHANGED <<task, problem>>
         /\ reachable => reachable'
         /\ \/ bounds' = bounds
            \/ \E lower, upper \in Bounds : bounds' = Widened(lower, upper)

\* The bounds of the output only grow.
LEMMA Widening ==
  ASSUME TypeOK, NEW lower \in Bounds, NEW upper \in Bounds
  PROVE  /\ Widened(lower, upper) \in Bounds \X Bounds
         /\ lower .. upper \subseteq Widened(lower, upper)[1] .. Widened(lower, upper)[2]
         /\ bounds # <<>> =>
               bounds[1] .. bounds[2]
                  \subseteq Widened(lower, upper)[1] .. Widened(lower, upper)[2]
<1>1. lower \in Int /\ upper \in Int
  BY BoundsAssumption
<1>2. CASE bounds = <<>>
  BY <1>1, <1>2 DEF Widened
<1>3. CASE bounds # <<>>
  <2>1. bounds[1] \in Bounds /\ bounds[2] \in Bounds
    BY <1>3 DEF TypeOK
  <2>2. bounds[1] \in Int /\ bounds[2] \in Int
    BY <2>1, BoundsAssumption
  <2>3. Widened(lower, upper) =
           <<Smaller(bounds[1], lower), Greater(bounds[2], upper)>>
    BY <1>3 DEF Widened
  <2> QED
    BY <1>1, <2>1, <2>2, <2>3 DEF Smaller, Greater
<1> QED
  BY <1>2, <1>3

LEMMA SettledKept ==
  ASSUME TypeOK, Keeps, NEW p \in Domain, Settled(p)
  PROVE  Settled(p)'
<1>1. UNCHANGED <<task, problem>> /\ (reachable => reachable')
  BY DEF Keeps
<1>2. problem.output[p] \in Bounds
  BY DEF TypeOK, Specifications
<1>3. bounds # <<>> => bounds' # <<>> /\ bounds[1] .. bounds[2] \subseteq bounds'[1] .. bounds'[2]
  <2>1. CASE bounds' = bounds
    BY <2>1
  <2>2. CASE \E lower, upper \in Bounds : bounds' = Widened(lower, upper)
    <3>1. PICK lower \in Bounds, upper \in Bounds : bounds' = Widened(lower, upper)
      BY <2>2
    <3> QED
      BY <3>1, Widening
  <2> QED
    BY <2>1, <2>2 DEF Keeps
<1> QED
  BY <1>1, <1>3 DEF Settled, Input, Passes

\* A box may go once all its points are settled ...
LEMMA DischargeProgress ==
  ASSUME TypeOK, Progress, Working, Discharge, Keeps,
         \A p \in PointsOf(Top) : Settled(p)'
  PROVE  pending' \in Seq(Boxes) /\ Inside' /\ Covered'
<1>1. pending \in Seq(Boxes) /\ pending # <<>> /\ pending' = Rest
  BY DEF TypeOK, Working, Discharge
<1>2. pending' \in Seq(Boxes)
  BY <1>1, Popped
<1>3. ASSUME NEW p, Waiting(p)' PROVE p \in Domain
  <2>1. PICK i \in 1 .. Len(Rest) : p \in PointsOf(Rest[i])
    BY <1>1, <1>3 DEF Waiting
  <2>2. i \in 1 .. Len(pending) /\ Rest[i] = pending[i]
    BY <1>1, Popped
  <2> QED
    BY <2>1, <2>2 DEF Progress, Inside, Waiting
<1>4. ASSUME NEW p \in Domain PROVE Waiting(p)' \/ Settled(p)'
  <2>1. CASE Waiting(p)
    BY <1>1, <2>1, DischargeKeeps
  <2>2. CASE Settled(p)
    BY <2>2, SettledKept
  <2> QED
    BY <2>1, <2>2 DEF Progress, Covered
<1> QED
  BY <1>2, <1>3, <1>4 DEF Inside, Covered

\* ... and any box may be split.
LEMMA SplitProgress ==
  ASSUME TypeOK, Progress, Working, Split, Keeps
  PROVE  pending' \in Seq(Boxes) /\ Inside' /\ Covered'
<1>1. pending \in Seq(Boxes) /\ pending # <<>>
  BY DEF TypeOK, Working
<1>2. pending' \in Seq(Boxes)
  BY <1>1, SplitStack
<1>3. \A p : Waiting(p)' <=> Waiting(p)
  BY <1>1, SplitKeeps
<1>4. \A p \in Domain : Settled(p) => Settled(p)'
  BY SettledKept
<1> QED
  BY <1>2, <1>3, <1>4 DEF Progress, Inside, Covered

-----------------------------------------------------------------------------
(* The steps                                                                *)

\* A step that goes on keeps the invariant if it loses no point.
LEMMA GoesOn ==
  ASSUME Inv, result = "running", result' = result, Keeps,
         pending' \in Seq(Boxes), Inside', Covered', reachable' \in BOOLEAN,
         reachable' => \E p \in Domain : Input(p)
  PROVE  Inv'
<1>1. bounds' = <<>> \/ bounds' \in Bounds \X Bounds
  BY Widening DEF Inv, TypeOK, Keeps
<1>2. TypeOK'
  BY <1>1 DEF Inv, TypeOK, Keeps
<1>3. Reached'
  BY DEF Reached, Input, Keeps
<1>4. Sound'
  BY DEF Sound, FitAnswerSound, BoundsEnclose, ComplaintsAreReal
<1> QED
  BY <1>2, <1>3, <1>4 DEF Inv, Progress

\* A box with an input on it makes the specification reachable.
LEMMA AdmittedReached ==
  ASSUME TypeOK, Inside, Admitted
  PROVE  reachable' = TRUE /\ \E p \in Domain : Input(p)
<1>1. Working /\ Everywhere(problem.assume, "true") /\ reachable' = TRUE
  BY DEF Admitted, Analysing
<1> QED
  BY <1>1, Witness DEF Input

LEMMA DischargeStep ==
  ASSUME Inv, RejectBox \/ EncloseOutput \/ FittingBox
  PROVE  Inv'
<1>1. /\ Working /\ result = "running" /\ result' = result
      /\ Discharge /\ UNCHANGED <<task, problem>>
  BY DEF RejectBox, EncloseOutput, FittingBox, Checked, Admitted, Analysing,
         Fitting, Working, Discharge
<1>2. TypeOK /\ Progress
  BY <1>1 DEF Inv
<1>3. \A p \in PointsOf(Top) : p \in Domain
  BY <1>1, <1>2, OnTop DEF Progress
<1>4. SUFFICES /\ Keeps /\ reachable' \in BOOLEAN
               /\ reachable' => \E p \in Domain : Input(p)
               /\ \A p \in PointsOf(Top) : Settled(p)'
  BY <1>1, <1>2, DischargeProgress, GoesOn
<1>5. CASE RejectBox
  <2>1. UNCHANGED <<task, problem, reachable, bounds>>
    BY <1>5 DEF RejectBox
  <2>2. \A p \in PointsOf(Top) : problem.assume[p] = "false"
    BY <1>5 DEF RejectBox, Everywhere
  <2> QED
    BY <1>2, <2>1, <2>2 DEF Keeps, Settled, Progress, Reached, TypeOK
<1>6. CASE FittingBox
  <2>1. UNCHANGED <<task, problem, reachable, bounds>> /\ task = "fits"
    BY <1>6 DEF FittingBox, Fitting
  <2>2. ASSUME NEW p \in PointsOf(Top) PROVE Settled(p)
    <3>1. Fits(p) /\ problem.assume[p] \in Truths
      BY <1>2, <1>3, <1>6 DEF FittingBox, TypeOK, Specifications
    <3>2. CASE problem.assume[p] = "false"
      BY <3>2, <2>1 DEF Settled
    <3>3. CASE problem.assume[p] = "true"
      BY <3>1, <3>3, <2>1 DEF Settled, Fits, Guarded, Input
    <3> QED
      BY <3>1, <3>2, <3>3 DEF Fits, Truths
  <2>3. Keeps
    BY <2>1 DEF Keeps
  <2>4. \A p \in PointsOf(Top) : Settled(p)'
    BY <1>2, <1>3, <2>2, <2>3, SettledKept
  <2> QED
    BY <1>2, <2>1, <2>3, <2>4 DEF Progress, Reached, TypeOK
<1>7. CASE EncloseOutput
  <2>1. /\ Admitted /\ task # "fits"
        /\ Everywhere(problem.assume, "true") /\ Everywhere(problem.check, "true")
    BY <1>7 DEF EncloseOutput, Checked, Admitted, Analysing
  <2>2. PICK lower \in Bounds, upper \in Bounds :
           Encloses(lower, upper) /\ bounds' = Widened(lower, upper)
    BY <1>7 DEF EncloseOutput
  <2>3. reachable' = TRUE /\ \E p \in Domain : Input(p)
    BY <1>2, <2>1, AdmittedReached DEF Progress
  <2>4. Keeps
    BY <1>1, <2>2, <2>3 DEF Keeps
  <2>5. /\ bounds' # <<>>
        /\ lower .. upper \subseteq bounds'[1] .. bounds'[2]
    BY <1>2, <2>2, Widening
  <2>6. ASSUME NEW p \in PointsOf(Top) PROVE Settled(p)'
    <3>1. /\ problem.assume[p] = "true" /\ problem.check[p] = "true"
          /\ p \in problem.defined /\ problem.output[p] \in lower .. upper
      BY <2>1, <2>2 DEF Everywhere, Encloses
    <3> QED
      BY <1>1, <2>1, <2>3, <2>5, <3>1 DEF Settled, Passes, Input
  <2> QED
    BY <2>3, <2>4, <2>6
<1> QED
  BY <1>5, <1>6, <1>7

LEMMA SplitStep ==
  ASSUME Inv, SplitOnAssumptions \/ SplitOnChecks \/ SplitOnOutput \/ SplitOnFit
  PROVE  Inv'
<1>1. /\ Working /\ result = "running" /\ result' = result
      /\ Split /\ UNCHANGED <<task, problem, bounds>>
  BY DEF SplitOnAssumptions, SplitOnChecks, SplitOnOutput, SplitOnFit, Checked,
         Admitted, Analysing, Fitting, Working, Split
<1>2. TypeOK /\ Progress
  BY <1>1 DEF Inv
<1>3. reachable' = reachable \/ Admitted
  BY DEF SplitOnAssumptions, SplitOnChecks, SplitOnOutput, SplitOnFit, Checked
<1>4. /\ reachable => reachable'
      /\ reachable' \in BOOLEAN
      /\ reachable' => \E p \in Domain : Input(p)
  <2>1. CASE reachable' = reachable
    BY <1>2, <2>1 DEF Progress, Reached, TypeOK
  <2>2. CASE Admitted
    <3>1. reachable' = TRUE /\ \E p \in Domain : Input(p)
      BY <1>2, <2>2, AdmittedReached DEF Progress
    <3> QED
      BY <3>1
  <2> QED
    BY <1>3, <2>1, <2>2
<1>5. Keeps
  BY <1>1, <1>4 DEF Keeps
<1> QED
  BY <1>1, <1>2, <1>4, <1>5, SplitProgress, GoesOn

\* A step that ends the call keeps the invariant if its answer is right.
LEMMA Ends ==
  ASSUME Inv, UNCHANGED <<task, problem, pending, bounds>>, reachable' \in BOOLEAN,
         result' \in Returns \cup Errors, Sound'
  PROVE  Inv'
<1>1. result' # "running"
  BY DEF Returns, Errors
<1>2. TypeOK'
  BY DEF Inv, TypeOK
<1> QED
  BY <1>1, <1>2 DEF Inv

LEMMA ComplaintStep ==
  ASSUME Inv, \/ MachineFails \/ AssumptionError \/ CheckError \/ CheckFails
              \/ OutputError \/ NoFiniteEnclosure \/ PointOutside
  PROVE  Inv'
<1>1. /\ Working /\ result = "running"
      /\ UNCHANGED <<task, problem, pending, bounds>>
  BY DEF MachineFails, AssumptionError, CheckError, CheckFails, OutputError,
         NoFiniteEnclosure, PointOutside, Checked, Admitted, Analysing, Fitting,
         Working, Return
<1>2. TypeOK /\ Progress /\ Inside
  BY <1>1 DEF Inv, Progress
<1>3. reachable' \in BOOLEAN
  BY <1>2 DEF TypeOK, MachineFails, AssumptionError, CheckError, CheckFails,
              OutputError, NoFiniteEnclosure, PointOutside, Checked, Admitted
<1> DEFINE SoundReturn == result' \in Returns \cup Errors /\ Sound'
<1>4. SUFFICES SoundReturn
  BY <1>1, <1>3, Ends
<1>5. CASE MachineFails \/ NoFiniteEnclosure
  <2>1. result' = "machine error"
    BY <1>5 DEF MachineFails, NoFiniteEnclosure, Return
  <2> QED
    BY <2>1 DEF Errors, Sound, FitAnswerSound, BoundsEnclose, ComplaintsAreReal
<1>6. CASE AssumptionError
  <2>1. result' = "assumption error" /\ Everywhere(problem.assume, "error")
    BY <1>6 DEF AssumptionError, Return
  <2>2. \E p \in Domain : problem.assume[p] = "error"
    BY <1>1, <1>2, <2>1, Witness
  <2> QED
    BY <1>1, <2>1, <2>2
    DEF Errors, Sound, FitAnswerSound, BoundsEnclose, ComplaintsAreReal
<1>7. CASE CheckError \/ CheckFails
  <2>1. /\ Everywhere(problem.assume, "true")
        /\ \/ result' = "check error" /\ Everywhere(problem.check, "error")
           \/ result' = "infeasible" /\ Everywhere(problem.check, "false")
    BY <1>7 DEF CheckError, CheckFails, Admitted, Return
  <2>2. PICK p \in Domain : p \in PointsOf(Top)
    BY <1>1, <1>2, OnTop
  <2>3. /\ Input(p)
        /\ \/ result' = "check error" /\ problem.check[p] = "error"
           \/ result' = "infeasible" /\ problem.check[p] = "false"
    BY <2>1, <2>2 DEF Everywhere, Input
  <2> QED
    BY <1>1, <2>3
    DEF Errors, Sound, FitAnswerSound, BoundsEnclose, ComplaintsAreReal, Input
<1>8. CASE OutputError
  <2>1. /\ result' = "output error" /\ Everywhere(problem.assume, "true")
        /\ PointsOf(Top) \cap problem.defined = {}
    BY <1>8 DEF OutputError, Checked, Admitted, Return
  <2>2. PICK p \in Domain : p \in PointsOf(Top)
    BY <1>1, <1>2, OnTop
  <2>3. Input(p) /\ p \notin problem.defined
    BY <2>1, <2>2 DEF Everywhere, Input
  <2> QED
    BY <1>1, <2>1, <2>3
    DEF Errors, Sound, FitAnswerSound, BoundsEnclose, ComplaintsAreReal, Input
<1>9. CASE PointOutside
  <2>1. PICK p \in PointsOf(Top) :
           \/ p \notin problem.defined /\ Return("output error")
           \/ /\ p \in problem.defined
              /\ problem.output[p] \notin Minimum .. Maximum
              /\ Return("refuted")
    BY <1>9 DEF PointOutside
  <2>2. p \in Domain /\ Input(p)
    BY <1>1, <1>2, <1>9, OnTop DEF PointOutside, Everywhere, Input
  <2>3. CASE p \notin problem.defined /\ Return("output error")
    BY <1>1, <2>2, <2>3
    DEF Return, Errors, Sound, FitAnswerSound, BoundsEnclose, ComplaintsAreReal, Input
  <2>4. CASE /\ p \in problem.defined
             /\ problem.output[p] \notin Minimum .. Maximum
             /\ Return("refuted")
    BY <1>1, <2>2, <2>4
    DEF Return, Returns, Sound, FitAnswerSound, BoundsEnclose, ComplaintsAreReal, Input
  <2> QED
    BY <2>1, <2>3, <2>4
<1> QED
  BY <1>5, <1>6, <1>7, <1>8, <1>9

LEMMA EndStep ==
  ASSUME Inv, EndAnalysis \/ EndFits
  PROVE  Inv'
<1>1. /\ result = "running" /\ pending = <<>>
      /\ UNCHANGED <<task, problem, pending, reachable, bounds>>
      /\ \/ task # "fits" /\ result' = IF reachable THEN "bounds" ELSE "unreachable"
         \/ task = "fits" /\ result' = "proved"
  BY DEF EndAnalysis, EndFits, Return
<1>2. TypeOK /\ Progress
  BY <1>1 DEF Inv
<1>3. \A p \in Domain : Settled(p)
  <2>1. \A p : ~Waiting(p)
    BY <1>1 DEF Waiting
  <2> QED
    BY <1>2, <2>1 DEF Progress, Covered
<1>4. CASE task = "fits"
  <2>1. result' = "proved"
    BY <1>1, <1>4
  <2>2. Sound'
    BY <1>1, <1>3, <1>4, <2>1
    DEF Settled, Sound, FitAnswerSound, BoundsEnclose, ComplaintsAreReal, Input
  <2> QED
    BY <1>1, <1>2, <2>1, <2>2, Ends DEF Returns, TypeOK
<1>5. CASE task # "fits" /\ reachable
  <2>1. result' = "bounds"
    BY <1>1, <1>5
  <2>2. PICK q \in Domain : Input(q)
    BY <1>2, <1>5 DEF Progress, Reached
  <2>3. bounds # <<>>
    BY <1>3, <1>5, <2>2 DEF Settled, Input
  <2>4. Sound'
    BY <1>1, <1>3, <1>5, <2>1, <2>2, <2>3
    DEF Settled, Sound, FitAnswerSound, BoundsEnclose, ComplaintsAreReal, Input, Passes
  <2> QED
    BY <1>1, <1>2, <2>1, <2>4, Ends DEF Returns, TypeOK
<1>6. CASE task # "fits" /\ ~reachable
  <2>1. result' = "unreachable"
    BY <1>1, <1>6
  <2>2. \A p \in Domain : problem.assume[p] = "false"
    BY <1>3, <1>6 DEF Settled
  <2>3. Sound'
    BY <1>1, <2>1, <2>2 DEF Sound, FitAnswerSound, BoundsEnclose, ComplaintsAreReal
  <2> QED
    BY <1>1, <1>2, <2>1, <2>3, Ends DEF Errors, TypeOK
<1> QED
  BY <1>4, <1>5, <1>6

LEMMA Start == Init => Inv
<1> SUFFICES ASSUME Init PROVE Inv
  OBVIOUS
<1>1. /\ task \in {"fits", "exact", "generic"} /\ problem \in Problems
      /\ pending = <<InitialBox>> /\ reachable = FALSE
      /\ bounds = <<>> /\ result = "running"
  BY DEF Init
<1>2. pending \in Seq(Boxes) /\ Len(pending) = 1 /\ pending[1] = InitialBox
  BY <1>1, DtypesAssumption
<1>3. TypeOK
  BY <1>1, <1>2, ProblemsAssumption DEF TypeOK
<1>4. \A p : Waiting(p) <=> p \in Domain
  BY <1>2 DEF Waiting, Domain
<1>5. Progress
  BY <1>1, <1>4 DEF Progress, Inside, Covered, Reached
<1>6. Sound
  BY <1>1 DEF Sound, FitAnswerSound, BoundsEnclose, ComplaintsAreReal
<1> QED
  BY <1>3, <1>5, <1>6 DEF Inv

LEMMA Stutter == Inv /\ UNCHANGED vars => Inv'
<1> SUFFICES ASSUME Inv, UNCHANGED vars PROVE Inv'
  OBVIOUS
<1>1. UNCHANGED <<task, problem, pending, reachable, bounds, result>>
  BY DEF vars
<1>2. TypeOK'
  BY <1>1 DEF Inv, TypeOK
<1>3. \A p : (Waiting(p)' <=> Waiting(p)) /\ (Input(p)' <=> Input(p))
  BY <1>1 DEF Waiting, Input
<1>4. \A p : Settled(p)' <=> Settled(p)
  BY <1>1 DEF Settled, Input, Passes
<1>5. Progress' <=> Progress
  BY <1>1, <1>3, <1>4 DEF Progress, Inside, Covered, Reached
<1>6. FitAnswerSound' /\ ComplaintsAreReal'
  BY <1>1 DEF Inv, Sound, FitAnswerSound, ComplaintsAreReal, Input
<1>7. BoundsEnclose'
  BY <1>1 DEF Inv, Sound, BoundsEnclose, Input, Passes
<1> QED
  BY <1>1, <1>2, <1>5, <1>6, <1>7 DEF Inv, Sound

LEMMA Step == Inv /\ [Next]_vars => Inv'
<1> SUFFICES ASSUME Inv, Next PROVE Inv'
  BY Stutter
<1>1. \/ RejectBox \/ EncloseOutput \/ FittingBox
      \/ SplitOnAssumptions \/ SplitOnChecks \/ SplitOnOutput \/ SplitOnFit
      \/ MachineFails \/ AssumptionError \/ CheckError \/ CheckFails
      \/ OutputError \/ NoFiniteEnclosure \/ PointOutside
      \/ EndAnalysis \/ EndFits
  BY DEF Next
<1> QED
  BY <1>1, DischargeStep, SplitStep, ComplaintStep, EndStep

\* The search keeps its invariant: no code of an input is forgotten before it
\* is settled, and every answer is right.
THEOREM Invariant == Spec => []Inv
<1>1. Init => Inv
  BY Start
<1>2. Inv /\ [Next]_vars => Inv'
  BY Step
<1> QED
  BY <1>1, <1>2, PTL DEF Spec

-----------------------------------------------------------------------------
(* The theorems                                                             *)

\* Type correctness of analyze_typed_domain and rival_prove_result_fits.
THEOREM Typing == Spec => []TypeOK
<1>1. Inv => TypeOK
  BY DEF Inv
<1> QED
  BY <1>1, Invariant, PTL

\* rival_prove_result_fits proves that a result fits its type only if it does
\* at every code of the inputs, and refutes it only with a witness.
THEOREM FitSoundness == Spec => []FitAnswerSound
<1>1. Inv => FitAnswerSound
  BY DEF Inv, Sound
<1> QED
  BY <1>1, Invariant, PTL

\* The bounds analyze_typed_domain returns enclose the output at every input.
THEOREM BoundsSoundness == Spec => []BoundsEnclose
<1>1. Inv => BoundsEnclose
  BY DEF Inv, Sound
<1> QED
  BY <1>1, Invariant, PTL

\* Each error of the two searches has a code of the inputs behind it.
THEOREM ComplaintSoundness == Spec => []ComplaintsAreReal
<1>1. Inv => ComplaintsAreReal
  BY DEF Inv, Sound
<1> QED
  BY <1>1, Invariant, PTL
=============================================================================
