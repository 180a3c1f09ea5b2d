----------------------------- MODULE CaseStream -----------------------------
(***************************************************************************)
(* What run_verification_cases promises, whichever way it runs: each case   *)
(* of the stream is reported to the observer at most once, no case is       *)
(* reported that lies `window` or more beyond what was already reported,    *)
(* and the run ends by returning after all cases or by raising.             *)
(***************************************************************************)
EXTENDS Integers, FiniteSets

CONSTANT NumCases

VARIABLES window, reports, outcome

Cases    == 0 .. NumCases - 1
Reported == {i \in Cases : reports[i] > 0}

Init ==
    /\ window \in Nat \ {0}
    /\ reports = [i \in Cases |-> 0]
    /\ outcome = "running"

Report(i) ==
    /\ outcome = "running"
    /\ reports[i] = 0
    /\ i < Cardinality(Reported) + window
    /\ reports' = [reports EXCEPT ![i] = 1]
    /\ UNCHANGED <<window, outcome>>

Return ==
    /\ outcome = "running"
    /\ Reported = Cases
    /\ outcome' = "returned"
    /\ UNCHANGED <<window, reports>>

Raise ==
    /\ outcome = "running"
    /\ outcome' = "failed"
    /\ UNCHANGED <<window, reports>>

Next == (\E i \in Cases : Report(i)) \/ Return \/ Raise

vars == <<window, reports, outcome>>

Safety == Init /\ [][Next]_vars

Spec == Safety /\ WF_vars(Next)
=============================================================================
