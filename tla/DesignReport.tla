---------------------------- MODULE DesignReport ----------------------------
(***************************************************************************)
(* run_designs (infra/run_designs.py) under the Docker coordinator          *)
(* (infra/docker_run_designs.py): every design is checked for determinism   *)
(* and then against its specification, the JSON report is rewritten after   *)
(* every design, and the coordinator renders what report there is as HTML.  *)
(* What a check comes back with is DesignProcess's WorkerOutcomes; the      *)
(* report file is truncated before it is written.                           *)
(***************************************************************************)
EXTENDS Integers, Sequences, DesignOutcomes

CONSTANTS NumDesigns, RunInterrupts

ASSUME RunAssumption == NumDesigns \in Nat /\ RunInterrupts \in Nat

Designs == 1 .. NumDesigns
Checks  == 1 .. 2           \* CHECK_NAMES: determinism, specification

VARIABLES
    phase,      \* run_designs: "write" and "truncated" are _write_json
    design,     \* the design being checked
    checks,     \* its check_results so far: the design they are of, and the status
    report,     \* the report in memory
    disk,       \* run_designs.json: File("absent"), "old", "torn" or a report
    html,       \* the report index.html shows, likewise
    escaped,    \* the exception that left run_designs, or "none"
    exitStatus, \* the coordinator's exit status, or -1
    interrupts  \* interrupts still to come

runVars == <<phase, design, checks, report, disk, html, escaped, exitStatus, interrupts>>

NoChecks == <<>>

\* A report, or a file that holds none of this run: `status` tells them apart.
File(mark) == [designs |-> <<>>, status |-> mark]
Unreadable(f) == f.status \in {"absent", "torn"}

InitRun ==
    /\ phase = "write"
    /\ design = 0
    /\ checks = NoChecks
    /\ report = File("none")
    /\ disk \in {File("absent"), File("old")}
    /\ html \in {File("absent"), File("old")}
    /\ escaped = "none"
    /\ exitStatus = -1
    /\ interrupts = RunInterrupts

-----------------------------------------------------------------------------
(* run_designs                                                              *)

\* _write_json: write_text truncates the file, then fills it.
Truncate ==
    /\ phase = "write"
    /\ disk' = File("torn")
    /\ phase' = "truncated"
    /\ UNCHANGED <<design, checks, report, html, escaped, exitStatus, interrupts>>

Finished == report.status # "none"

\* The write completes: on to the next design, or out of run_designs.
Fill ==
    /\ phase = "truncated"
    /\ disk' = report
    /\ IF report.status = "interrupted"
       THEN phase' = "raised" /\ escaped' = "KeyboardInterrupt" /\ UNCHANGED design
       ELSE IF Finished
       THEN phase' = "returned" /\ UNCHANGED <<escaped, design>>
       ELSE /\ phase' = IF design < NumDesigns THEN "check" ELSE "summary"
            /\ design' = IF design < NumDesigns THEN design + 1 ELSE design
            /\ UNCHANGED escaped
    /\ UNCHANGED <<checks, report, html, exitStatus, interrupts>>

\* One check of the current design comes back; the worker status "failed" is
\* not looked at, only check_result is kept.
Check(o) ==
    /\ phase = "check"
    /\ Len(checks) < 2
    /\ o.worker # "interrupted"
    /\ checks' = Append(checks, [of |-> design, status |-> o.status])
    /\ UNCHANGED <<phase, design, report, disk, html, escaped, exitStatus, interrupts>>

\* design_result, filed under the design's name
Published ==
    LET statuses == [c \in DOMAIN checks |-> checks[c].status]
    IN  [report EXCEPT !.designs =
             Append(@, [status |-> DesignStatus(statuses), checks |-> checks])]

\* Bug: the report is not written after this design.
PublishInMemory ==
    /\ phase = "check"
    /\ Len(checks) = 2
    /\ report' = Published
    /\ checks' = NoChecks
    /\ phase' = IF design < NumDesigns THEN "check" ELSE "summary"
    /\ design' = IF design < NumDesigns THEN design + 1 ELSE design
    /\ UNCHANGED <<disk, html, escaped, exitStatus, interrupts>>

\* Bug: design_result is not renewed for the next design.
PublishKeepingChecks ==
    /\ phase = "check"
    /\ Len(checks) = 2
    /\ report' = Published
    /\ phase' = "write"
    /\ UNCHANGED <<design, checks, disk, html, escaped, exitStatus, interrupts>>

\* Both have: the design is published.
Publish ==
    /\ phase = "check"
    /\ Len(checks) = 2
    /\ report' = Published
    /\ checks' = NoChecks
    /\ phase' = "write"
    /\ UNCHANGED <<design, disk, html, escaped, exitStatus, interrupts>>

\* The check was interrupted: the design is published as it is and the run ends.
CheckInterrupted ==
    /\ phase = "check"
    /\ Len(checks) < 2
    /\ interrupts > 0
    /\ interrupts' = interrupts - 1
    /\ report' = [designs |-> Append(report.designs,
                      [status |-> "interrupted",
                       checks |-> Append(checks, [of |-> design, status |-> "interrupted"])]),
                  status  |-> "interrupted"]
    /\ checks' = NoChecks
    /\ phase' = "write"
    /\ UNCHANGED <<design, disk, html, escaped, exitStatus>>

\* _run_design_subprocess raises: result.json was torn.
CheckRaises ==
    /\ phase = "check"
    /\ Len(checks) < 2
    /\ escaped' = "JSONDecodeError"
    /\ phase' = "raised"
    /\ UNCHANGED <<design, checks, report, disk, html, exitStatus, interrupts>>

\* report["status"] = "failed" if failed else "passed"
Summarise ==
    /\ phase = "summary"
    /\ report' = [report EXCEPT !.status =
           IF \A d \in DOMAIN report.designs : report.designs[d].status = "passed"
           THEN "passed" ELSE "failed"]
    /\ phase' = "write"
    /\ UNCHANGED <<design, checks, disk, html, escaped, exitStatus, interrupts>>

\* SIGINT anywhere else leaves run_designs at once.
Interrupt ==
    /\ phase \in {"write", "truncated", "check", "summary"}
    /\ interrupts > 0
    /\ interrupts' = interrupts - 1
    /\ escaped' = "KeyboardInterrupt"
    /\ phase' = "raised"
    /\ UNCHANGED <<design, checks, report, disk, html, exitStatus>>

-----------------------------------------------------------------------------
(* docker_run_designs.main, after run_designs.main                          *)

Leave(code) == exitStatus' = code /\ phase' = "exited"

\* An exception other than KeyboardInterrupt is an infrastructure failure.
GiveUp ==
    /\ phase = "raised"
    /\ escaped # "KeyboardInterrupt"
    /\ Leave(1)
    /\ UNCHANGED <<design, checks, report, disk, html, escaped, interrupts>>

Rendering == phase = "returned" \/ (phase = "raised" /\ escaped = "KeyboardInterrupt")

\* Bug: interruption is forgotten once the HTML is there.
RenderForgetful ==
    /\ Rendering
    /\ IF Unreadable(disk) THEN Leave(1) /\ UNCHANGED html
       ELSE Leave(0) /\ html' = disk
    /\ UNCHANGED <<design, checks, report, disk, escaped, interrupts>>

\* The report is rendered if it is there and parses.
Render ==
    /\ Rendering
    /\ IF Unreadable(disk) THEN Leave(1) /\ UNCHANGED html
       ELSE Leave(IF phase = "raised" THEN 130 ELSE 0) /\ html' = disk
    /\ UNCHANGED <<design, checks, report, disk, escaped, interrupts>>

\* `except BaseException`: an interrupt while rendering is a failure too, with
\* the old page, an empty or a complete one.
RenderInterrupted ==
    /\ Rendering
    /\ interrupts > 0
    /\ interrupts' = interrupts - 1
    /\ ~Unreadable(disk)
    /\ html' \in {html, File("torn"), disk}
    /\ Leave(1)
    /\ UNCHANGED <<design, checks, report, disk, escaped>>

NextRun ==
    \/ Truncate \/ Fill \/ (\E o \in WorkerOutcomes : Check(o)) \/ Publish
    \/ CheckInterrupted \/ CheckRaises \/ Summarise \/ GiveUp \/ Render
    \/ Interrupt \/ RenderInterrupted

SpecRun == InitRun /\ [][NextRun]_runVars

-----------------------------------------------------------------------------
\* While a design is checked, the file is complete and holds every design
\* before it: an interrupted run keeps all that was finished.
ProgressOnDisk ==
    phase = "check" => disk = report /\ Len(report.designs) = design - 1

\* Every published design that was not interrupted went through both checks,
\* of its own, and is "passed" only if both are.
DesignsFullyChecked ==
    \A f \in {report, disk} :
        \A d \in DOMAIN f.designs :
            LET entry == f.designs[d] IN
            /\ \A c \in DOMAIN entry.checks : entry.checks[c].of = d
            /\ entry.status # "interrupted" => Len(entry.checks) = 2
            /\ entry.status = "passed" => \A c \in Checks : entry.checks[c].status = "passed"

\* 0 is the exit status of a run that returned: the report of all designs is on
\* disk and on the page, and called "passed" exactly when all designs are.  130
\* is that of an interrupted one, whose page shows the report that is on disk.
ExitTellsTruth ==
    /\ exitStatus = 0 =>
           /\ escaped = "none" /\ html = disk
           /\ Len(disk.designs) = NumDesigns
           /\ disk.status = IF \A d \in Designs : disk.designs[d].status = "passed"
                            THEN "passed" ELSE "failed"
    /\ exitStatus = 130 => escaped = "KeyboardInterrupt" /\ html = disk
=============================================================================
