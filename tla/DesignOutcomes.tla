--------------------------- MODULE DesignOutcomes ---------------------------
(* What one check of a design can come back with: the worker status that    *)
(* _run_design_subprocess returns and the status in its check_result.       *)
LOCAL INSTANCE Naturals

Verdicts == {"passed", "failed", "error"}

\* The exit code only reaches the worker status: a check whose process died
\* after writing "passed" comes back as ("failed", "passed").
WorkerOutcomes ==
    [worker : {"passed"}, status : {"passed"}]
    \cup [worker : {"failed"}, status : Verdicts]
    \cup {[worker |-> s, status |-> s] : s \in {"timeout", "interrupted"}}

\* _design_status, of the statuses of both checks
DesignStatus(statuses) ==
    IF \E c \in DOMAIN statuses : statuses[c] = "timeout" THEN "timeout"
    ELSE IF \A c \in DOMAIN statuses : statuses[c] = "passed" THEN "passed"
    ELSE "failed"
=============================================================================
