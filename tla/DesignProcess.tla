--------------------------- MODULE DesignProcess ---------------------------
(***************************************************************************)
(* One check of one design (infra/run_designs.py): _run_design_subprocess   *)
(* spawns check_design as the leader of a session of its own, waits for it  *)
(* under a timeout and under signals, cleans the process group up and reads *)
(* what the check left on disk.  The leader verifies its cases, journals    *)
(* each as it completes, starts worker processes and writes its result      *)
(* file; it may crash, hang or be stopped at any point, and so may the user *)
(* interrupt the coordinator (SIGINT, and SIGTERM/SIGHUP/SIGQUIT where its  *)
(* handlers are installed) or suspend it (SIGTSTP).                         *)
(***************************************************************************)
EXTENDS Integers, Sequences, DesignOutcomes

CONSTANTS
    NumPaths,      \* bound on the coarse cases of one check
    MaxParts,      \* bound on the refinements of each
    MaxInterrupts  \* bound on the interrupts and suspensions of one check

ASSUME BoundsAssumption ==
    NumPaths \in Nat /\ MaxParts \in Nat /\ MaxInterrupts \in Nat

\* A case is named by its path and, if it refines the coarse case of that path,
\* by its part.  Its result is proved, or not, or left open by the solvers.
Paths   == 1 .. NumPaths
Coarse  == Paths \X {0}
Refined == Paths \X (1 .. MaxParts)
Cases   == Coarse \cup Refined
NoCase  == <<0, 0>>
Answers == {"proved", "not proved", "unknown"}

\* A line of the journal; a torn one does not parse.
Lines == [case : Cases, result : Answers, text : {"torn", "whole"}]

\* A dict from case names to results.
CaseResults == UNION {[some -> Answers] : some \in SUBSET Cases}
NoResults   == [c \in {} |-> "unknown"]

VARIABLES
    pc,        \* the coordinator inside _run_design_subprocess
    status,    \* status of _wait_for_design_process, or "none"
    rethrow,   \* terminating on behalf of `except BaseException`
    asleep,    \* the coordinator stopped itself in suspend_run
    leader,    \* the check's process: the group leader
    exit,      \* how the leader ended
    workers,   \* some descendant of the leader is alive in its group
    stopped,   \* the group received SIGSTOP
    plan,      \* the refinements there are, should their coarse case be open
    results,   \* the check's results so far, in the leader's memory
    observing, \* the case whose case_completed has not returned, or NoCase
    verdict,   \* what the check concluded, once it starts to write it
    result,    \* result.json: the verdict, if it is whole
    journal,   \* the lines of completed_cases.jsonl
    outcome,   \* what _run_design_subprocess returned
    raised,    \* or the exception that left it
    budget     \* interrupts and suspensions still to come

procVars  == <<leader, exit, workers, stopped>>
checkVars == <<plan, results, observing>>
fileVars  == <<verdict, result, journal>>
coordVars == <<pc, status, rethrow, asleep, outcome, raised>>
vars == <<procVars, checkVars, fileVars, coordVars, budget>>

Ended == pc \in {"done", "raised", "killed"}

\* killpg(pid, 0): an unreaped leader still holds the group
GroupExists == leader \in {"running", "zombie"} \/ workers

\* Where _manage_design_process_signals has its handlers installed.
Handled == pc \in {"wait", "term", "grace", "reap"} /\ ~rethrow

Init ==
    /\ pc = "popen"
    /\ status = "none"
    /\ rethrow = FALSE
    /\ asleep = FALSE
    /\ leader = "none"
    /\ exit = "none"
    /\ workers = FALSE
    /\ stopped = FALSE
    /\ plan \in SUBSET Refined
    /\ results = NoResults
    /\ observing = NoCase
    /\ verdict = [status |-> "none", cases |-> NoResults]
    /\ result = "absent"
    /\ journal = <<>>
    /\ outcome = [worker |-> "none"]
    /\ raised = "none"
    /\ budget = MaxInterrupts

-----------------------------------------------------------------------------
(* check_design, in the leader                                              *)

Alive == leader = "running" /\ ~stopped

Verifying == Alive /\ verdict.status = "none"

\* run_equivalence_cases: the coarse cases, then refinements of the open ones
Due ==
    IF Coarse \subseteq DOMAIN results
    THEN {c \in plan : results[<<c[1], 0>>] = "unknown"} \ DOMAIN results
    ELSE Coarse \ DOMAIN results

\* A case is verified and case_completed called: its line starts to be written.
CompleteCase ==
    /\ Verifying
    /\ observing = NoCase
    /\ \E c \in Due, r \in Answers :
          /\ results' = [d \in DOMAIN results \cup {c} |-> IF d = c THEN r ELSE results[d]]
          /\ observing' = c
          /\ journal' = Append(journal, [case |-> c, result |-> r, text |-> "torn"])
    /\ UNCHANGED <<plan, verdict, result, procVars, coordVars, budget>>

LastTorn == journal # <<>> /\ journal[Len(journal)].text = "torn"

\* The whole line is in the file, by the flush of case_completed, or by the close()
\* that follows the result of a check which that flush has failed.
FlushLine ==
    /\ Alive
    /\ verdict.status = "none" \/ result = "written"
    /\ LastTorn
    /\ journal' = [journal EXCEPT ![Len(journal)].text = "whole"]
    /\ UNCHANGED <<verdict, result, checkVars, procVars, coordVars, budget>>

CaseCompleted ==
    /\ Verifying
    /\ observing # NoCase
    /\ ~LastTorn
    /\ observing' = NoCase
    /\ UNCHANGED <<plan, results, fileVars, procVars, coordVars, budget>>

\* The solver's process pools come ...
StartWorkers ==
    /\ Verifying
    /\ workers' = TRUE
    /\ UNCHANGED <<leader, exit, stopped, checkVars, fileVars, coordVars, budget>>

\* ... and go: their executor exits, or they die.
WorkersExit ==
    /\ workers
    /\ ~stopped
    /\ workers' = FALSE
    /\ UNCHANGED <<leader, exit, stopped, checkVars, fileVars, coordVars, budget>>

\* Bug: the last line of the journal is always taken for a torn one.
ReadButLastLine ==
    LET whole == {i \in DOMAIN journal : i < Len(journal)}
    IN  [c \in {journal[i].case : i \in whole} |->
            journal[CHOOSE i \in whole : journal[i].case = c].result]

\* _read_completed_cases: line by line, passing over what does not parse; the
\* last line with a case's name has its result.
ReadCompletedCases ==
    LET whole == {i \in DOMAIN journal : journal[i].text = "whole"}
        last(c) == CHOOSE i \in whole :
                      /\ journal[i].case = c
                      /\ \A j \in whole : journal[j].case = c => j <= i
    IN  [c \in {journal[i].case : i \in whole} |-> journal[last(c)].result]

\* terminal_results: an open coarse case gives way to its refinements, if any.
Terminal ==
    {c \in DOMAIN results :
        \/ c \in Refined
        \/ results[c] # "unknown"
        \/ \A d \in DOMAIN results \cap Refined : d[1] # c[1]}

AllDone == observing = NoCase /\ Due = {}

Conclusion ==
    [status |-> IF \A c \in Terminal : results[c] = "proved" THEN "passed" ELSE "failed",
     cases  |-> [c \in Terminal |-> results[c]]]

\* An exception left the check, that of a failed write of the journal included.
ErrorResult == [status |-> "error", cases |-> ReadCompletedCases]

\* _write_json(result_path, ...) truncates the file first.
BeginResult ==
    /\ Verifying
    /\ ~workers
    /\ \/ AllDone /\ verdict' = Conclusion
       \/ (observing = NoCase \/ LastTorn) /\ verdict' = ErrorResult
    /\ result' = "torn"
    /\ UNCHANGED <<journal, checkVars, procVars, coordVars, budget>>

EndResult ==
    /\ Alive
    /\ result = "torn"
    /\ result' = "written"
    /\ UNCHANGED <<verdict, journal, checkVars, procVars, coordVars, budget>>

\* main returns 0 whatever the verdict.
LeaderExits ==
    /\ Alive
    /\ result = "written"
    /\ leader' = "zombie"
    /\ exit' = "zero"
    /\ UNCHANGED <<workers, stopped, checkVars, fileVars, coordVars, budget>>

\* build() raises, a native solver crashes, memory runs out, SIGTERM arrives.
LeaderDies ==
    /\ Alive
    /\ leader' = "zombie"
    /\ exit' = "nonzero"
    /\ UNCHANGED <<workers, stopped, checkVars, fileVars, coordVars, budget>>

Child ==
    \/ CompleteCase \/ FlushLine \/ CaseCompleted
    \/ StartWorkers \/ WorkersExit
    \/ BeginResult \/ EndResult \/ LeaderExits \/ LeaderDies

-----------------------------------------------------------------------------
(* _run_design_subprocess and _wait_for_design_process                      *)

Popen ==
    /\ pc = "popen"
    /\ leader' = "running"
    /\ pc' = "handlers"
    /\ UNCHANGED <<exit, workers, stopped, checkVars, fileVars, status, rethrow, asleep,
                   outcome, raised, budget>>

InstallHandlers ==
    /\ pc = "handlers"
    /\ pc' = "wait"
    /\ UNCHANGED <<procVars, checkVars, fileVars, status, rethrow, asleep, outcome, raised, budget>>

\* process.wait reaps the leader and returns its code
WaitReturns ==
    /\ pc = "wait"
    /\ ~asleep
    /\ leader = "zombie"
    /\ leader' = "reaped"
    /\ pc' = "read"
    /\ UNCHANGED <<exit, workers, stopped, checkVars, fileVars, status, rethrow, asleep,
                   outcome, raised, budget>>

\* ... or raises TimeoutExpired: the leader may just have ended unnoticed.
WaitTimesOut ==
    /\ pc = "wait"
    /\ ~asleep
    /\ status' = "timeout"
    /\ pc' = "term"
    /\ UNCHANGED <<procVars, checkVars, fileVars, rethrow, asleep, outcome, raised, budget>>

\* `return status, process.returncode`, or the `raise` after cleaning up
AfterCleanup ==
    IF rethrow THEN pc' = "raised" /\ raised' = "KeyboardInterrupt"
    ELSE pc' = "read" /\ UNCHANGED raised

\* killpg(SIGTERM): ProcessLookupError goes straight to process.wait().
SendSigterm ==
    /\ pc = "term"
    /\ ~asleep
    /\ pc' = IF GroupExists THEN "grace" ELSE "reap"
    /\ UNCHANGED <<procVars, checkVars, fileVars, status, rethrow, asleep, outcome, raised, budget>>

\* The grace loop polls, so that a dead leader stops holding the group, ...
PollLeader ==
    /\ pc = "grace"
    /\ ~asleep
    /\ leader = "zombie"
    /\ leader' = "reaped"
    /\ UNCHANGED <<exit, workers, stopped, checkVars, fileVars, coordVars, budget>>

\* ... ends when the group is gone, ...
GroupGone ==
    /\ pc = "grace"
    /\ ~asleep
    /\ ~GroupExists
    /\ pc' = "reap"
    /\ UNCHANGED <<procVars, checkVars, fileVars, status, rethrow, asleep, outcome, raised, budget>>

\* Bug: past the grace period only the leader is killed.
GraceExpiresLeaderOnly ==
    /\ pc = "grace"
    /\ ~asleep
    /\ GroupExists
    /\ leader' = IF leader = "running" THEN "zombie" ELSE leader
    /\ exit' = IF leader = "running" THEN "nonzero" ELSE exit
    /\ pc' = "reap"
    /\ UNCHANGED <<workers, stopped, checkVars, fileVars, status, rethrow, asleep, outcome,
                   raised, budget>>

\* Bug: past the grace period SIGTERM is only sent again.
GraceExpiresSigtermAgain == pc = "grace" /\ ~asleep /\ GroupExists /\ UNCHANGED vars

\* ... or at the deadline: SIGKILL reaches stopped processes too.
GraceExpires ==
    /\ pc = "grace"
    /\ ~asleep
    /\ GroupExists
    /\ leader' = IF leader = "running" THEN "zombie" ELSE leader
    /\ exit' = IF leader = "running" THEN "nonzero" ELSE exit
    /\ workers' = FALSE
    /\ pc' = "reap"
    /\ UNCHANGED <<stopped, checkVars, fileVars, status, rethrow, asleep, outcome, raised, budget>>

\* The final process.wait()
Reap ==
    /\ pc = "reap"
    /\ ~asleep
    /\ leader \in {"zombie", "reaped"}
    /\ leader' = "reaped"
    /\ AfterCleanup
    /\ UNCHANGED <<exit, workers, stopped, checkVars, fileVars, status, rethrow, asleep,
                   outcome, budget>>

-----------------------------------------------------------------------------
(* Reading what the check left behind                                       *)

\* check_result: result.json, or what is in the journal
CheckResult ==
    IF result = "absent" THEN [status |-> "error", cases |-> ReadCompletedCases]
    ELSE verdict

Interrupted == status \in {"timeout", "interrupted"}

\* Bug: the exit code is not looked at, nor how the wait ended.
CollectedFromFileOnly ==
    [worker |-> IF CheckResult.status = "passed" THEN "passed" ELSE "failed",
     status |-> CheckResult.status, cases |-> CheckResult.cases]

\* A timeout or an interruption overrides whatever the file says; otherwise the
\* worker status looks at the exit code, check_result does not change.
Collected ==
    IF Interrupted
    THEN [worker |-> status, status |-> status, cases |-> CheckResult.cases]
    ELSE [worker |-> IF exit = "zero" /\ CheckResult.status = "passed"
                     THEN "passed" ELSE "failed",
          status |-> CheckResult.status, cases |-> CheckResult.cases]

ReadResult ==
    /\ pc = "read"
    /\ \/ /\ result # "torn"
          /\ outcome' = Collected
          /\ pc' = "done"
          /\ UNCHANGED raised
       \/ /\ result = "torn"
          /\ pc' = "raised"
          /\ raised' = "JSONDecodeError"
          /\ UNCHANGED outcome
    /\ UNCHANGED <<procVars, checkVars, fileVars, status, rethrow, asleep, budget>>

Coordinator ==
    \/ Popen \/ InstallHandlers \/ WaitReturns \/ WaitTimesOut \/ SendSigterm
    \/ PollLeader \/ GroupGone \/ GraceExpires \/ Reap \/ ReadResult

-----------------------------------------------------------------------------
(* Signals to the coordinator                                               *)

\* KeyboardInterrupt: SIGINT anywhere, or interrupt_run.  A first one during
\* cleanup cleans up again and is raised afterwards, a second one leaves.
KeyboardInterrupt ==
    /\ budget > 0
    /\ budget' = budget - 1
    /\ asleep' = FALSE
    /\ \/ /\ pc = "wait"
          /\ status' = "interrupted"
          /\ pc' = "term"
          /\ UNCHANGED <<rethrow, raised>>
       \/ /\ pc \in {"term", "grace", "reap"}
          /\ ~rethrow
          /\ rethrow' = TRUE
          /\ pc' = "term"
          /\ UNCHANGED <<status, raised>>
       \/ /\ pc \in {"popen", "handlers", "read"} \/ rethrow
          /\ ~Ended
          /\ pc' = "raised"
          /\ raised' = "KeyboardInterrupt"
          /\ UNCHANGED <<status, rethrow>>
    /\ UNCHANGED <<procVars, checkVars, fileVars, outcome>>

\* SIGTERM, SIGHUP or SIGQUIT where no handler is installed
DefaultSignal ==
    /\ budget > 0
    /\ ~Ended
    /\ ~Handled
    /\ budget' = budget - 1
    /\ pc' = "killed"
    /\ UNCHANGED <<procVars, checkVars, fileVars, status, rethrow, asleep, outcome, raised>>

\* suspend_run: the group is stopped, then the coordinator itself
Suspend ==
    /\ budget > 0
    /\ Handled
    /\ ~asleep
    /\ budget' = budget - 1
    /\ asleep' = TRUE
    /\ stopped' = GroupExists
    /\ UNCHANGED <<leader, exit, workers, checkVars, fileVars, pc, status, rethrow, outcome, raised>>

\* SIGCONT wakes the coordinator, which continues the group.
Wake ==
    /\ asleep
    /\ asleep' = FALSE
    /\ stopped' = FALSE
    /\ UNCHANGED <<leader, exit, workers, checkVars, fileVars, pc, status, rethrow, outcome,
                   raised, budget>>

Signals == KeyboardInterrupt \/ DefaultSignal \/ Suspend \/ Wake

Next == Child \/ Coordinator \/ Signals

\* Only the coordinator and its timers are sure to run: a check may hang, a
\* suspended run may stay suspended.
Spec == Init /\ [][Next]_vars /\ WF_vars(Coordinator)

-----------------------------------------------------------------------------
(* What run_designs relies on                                               *)

TypeOK ==
    /\ pc \in {"popen", "handlers", "wait", "term", "grace", "reap", "read",
               "done", "raised", "killed"}
    /\ status \in {"none", "timeout", "interrupted"}
    /\ rethrow \in BOOLEAN /\ asleep \in BOOLEAN
    /\ leader \in {"none", "running", "zombie", "reaped"}
    /\ exit \in {"none", "zero", "nonzero"}
    /\ workers \in BOOLEAN /\ stopped \in BOOLEAN
    /\ plan \in SUBSET Refined
    /\ results \in CaseResults
    /\ observing \in Cases \cup {NoCase}
    /\ verdict \in [status : Verdicts \cup {"none"}, cases : CaseResults]
    /\ result \in {"absent", "torn", "written"}
    /\ journal \in Seq(Lines)
    /\ outcome.worker # "none" =>
          /\ [worker |-> outcome.worker, status |-> outcome.status] \in WorkerOutcomes
          /\ outcome.cases \in CaseResults
    /\ raised \in {"none", "KeyboardInterrupt", "JSONDecodeError"}
    /\ budget \in 0 .. MaxInterrupts

LiveGroup == leader = "running" \/ workers

\* Termination, whether for a timeout, an interrupt or on behalf of an exception
\* raised during another termination, leaves no live process in the group,
\* although it may be stopped, have lost its leader or ignore SIGTERM.
GroupCleaned == pc = "reap" \/ (Interrupted /\ pc \in {"read", "done"}) => ~LiveGroup

\* "passed" is reported only of a check that concluded so, ran to its end with
\* exit code 0 and was neither timed out nor interrupted.
PassedIsProved ==
    pc = "done" /\ outcome.worker = "passed" =>
        verdict.status = "passed" /\ exit = "zero" /\ status = "none"

\* The refinements of a coarse case that was left open stand for it.
Superseded(c, cases) ==
    /\ c \in Coarse /\ results[c] = "unknown"
    /\ \E d \in plan : d[1] = c[1]
    /\ \A d \in plan : d[1] = c[1] => d \in DOMAIN cases

\* What is reported are the check's own results, and none is lost whose
\* case_completed had returned: it is there itself or by its refinements.
Retains(cases) ==
    /\ \A c \in DOMAIN cases : c \in DOMAIN results /\ cases[c] = results[c]
    /\ \A c \in DOMAIN results \ {observing} :
          c \in DOMAIN cases \/ Superseded(c, cases)

\* A check that ended, was killed or failed at any point comes back with all the
\* cases it had completed, each with the result it had in the check's memory, be
\* it from result.json, written by the check itself when it concluded or failed,
\* or from a journal read line by line whose last line may be torn.
ProgressRetained == pc = "done" => Retains(outcome.cases)

-----------------------------------------------------------------------------
(* What the documentation and the tests say, and the code does not do       *)

\* "clean up its complete process group on failure" (the docstring of
\* _wait_for_design_process): a check that died leaves no descendant running.
CleanAfterFailure == pc \in {"read", "done"} /\ exit = "nonzero" => ~LiveGroup

-----------------------------------------------------------------------------
\* The coordinator gets away from a check that hangs, unless it was suspended
\* and never resumed.
Terminates == <>Ended \/ <>[]asleep
=============================================================================
