--------------------------- MODULE RunDesigns_proofs ---------------------------
(***************************************************************************)
(* What is proved of infra/run_designs.py.                                  *)
(*                                                                          *)
(* The run (DesignReport): why the report on disk is whole while a design   *)
(* is checked, why no design is published on the checks of another, and why *)
(* the exit status tells the truth, for any number of designs and of        *)
(* interrupts.  The length of the report follows the design that is being   *)
(* checked, and the file is either the report in memory or no report at     *)
(* all.                                                                     *)
(*                                                                          *)
(* One check (DesignProcess): why a terminated check leaves no live process *)
(* in its group, and why "passed" is never reported of a check that did not *)
(* prove it, for any number of cases, interrupts and suspensions.  The exit *)
(* code tells what became of the leader, the result file what it concluded, *)
(* and the status of the wait is set only on the way into a termination.    *)
(***************************************************************************)
EXTENDS DesignReport, DesignProcess, SequenceTheorems, WellFoundedInduction, TLAPS

-----------------------------------------------------------------------------
(* The run: its invariant                                                   *)

CheckStatuses == Verdicts \cup {"timeout", "interrupted"}
CheckEntries  == [of : Designs, status : CheckStatuses]
DesignEntries == [status : {"passed", "failed", "timeout", "interrupted"},
                  checks : Seq(CheckEntries)]
Reports == [designs : Seq(DesignEntries),
            status  : {"none", "passed", "failed", "interrupted", "absent", "old", "torn"}]

Running == phase \in {"write", "truncated", "check", "summary"}

RunTypeOK ==
    /\ phase \in {"write", "truncated", "check", "summary", "returned", "raised", "exited"}
    /\ design \in 0 .. NumDesigns
    /\ checks \in Seq(CheckEntries)
    /\ report \in Reports /\ disk \in Reports /\ html \in Reports
    /\ escaped \in {"none", "KeyboardInterrupt", "JSONDecodeError"}
    /\ exitStatus \in {-1, 0, 1, 130}
    /\ interrupts \in Int

\* The checks so far are those of the design that is being checked.
ChecksOK ==
    /\ Len(checks) <= 2
    /\ Running /\ phase # "check" => checks = <<>>
    /\ phase = "check" => \A c \in DOMAIN checks : checks[c].of = design

\* The report has an entry for every design up to this one, or before it.
LengthOK ==
    /\ phase \in {"check", "summary"} => report.status = "none"
    /\ phase = "check" => design >= 1 /\ Len(report.designs) = design - 1
    /\ phase = "summary" => design = NumDesigns /\ Len(report.designs) = design
    /\ phase \in {"write", "truncated"} =>
           \/ report.status = "none" /\ Len(report.designs) = design
           \/ report.status \in {"passed", "failed"} /\ Len(report.designs) = NumDesigns
           \/ report.status = "interrupted"

\* A report is called passed or failed by what its designs are.
Summarised(f) ==
    f.status \in {"passed", "failed"} =>
        f.status = IF \A d \in DOMAIN f.designs : f.designs[d].status = "passed"
                   THEN "passed" ELSE "failed"

\* The file is written before a design is checked and before the run returns.
DiskOK ==
    /\ phase = "check" => disk = report
    /\ phase = "returned" =>
           disk = report /\ report.status \in {"passed", "failed"}
                         /\ Len(report.designs) = NumDesigns

\* How the run of the designs ended, and what the coordinator makes of it.
EndOK ==
    /\ Running \/ phase = "returned" => escaped = "none"
    /\ phase = "raised" => escaped # "none"
    /\ phase # "exited" => exitStatus = -1

\* What DesignsFullyChecked says of one report.
FullyChecked(f) ==
    \A d \in DOMAIN f.designs :
        LET entry == f.designs[d] IN
        /\ \A c \in DOMAIN entry.checks : entry.checks[c].of = d
        /\ entry.status # "interrupted" => Len(entry.checks) = 2
        /\ entry.status = "passed" => \A c \in Checks : entry.checks[c].status = "passed"

RunInv ==
    /\ RunTypeOK
    /\ ChecksOK /\ LengthOK /\ DiskOK /\ EndOK
    /\ Summarised(report)
    /\ FullyChecked(report) /\ FullyChecked(disk)
    /\ ExitTellsTruth

-----------------------------------------------------------------------------
(* Reports                                                                  *)

\* A file that holds none of this run is a report without designs.
LEMMA NoReport ==
  ASSUME NEW mark \in {"none", "absent", "old", "torn"}
  PROVE  File(mark) \in Reports /\ FullyChecked(File(mark)) /\ Summarised(File(mark))
BY DEF File, Reports, FullyChecked, Summarised

\* One more entry, of the checks of the design it is filed under, leaves a report
\* fully checked.
LEMMA OneMore ==
  ASSUME NEW f \in Reports, FullyChecked(f), NEW entry \in DesignEntries,
         NEW g \in Reports, g.designs = Append(f.designs, entry),
         \A c \in DOMAIN entry.checks : entry.checks[c].of = Len(f.designs) + 1,
         entry.status # "interrupted" => Len(entry.checks) = 2,
         entry.status = "passed" => \A c \in Checks : entry.checks[c].status = "passed"
  PROVE  FullyChecked(g) /\ Len(g.designs) = Len(f.designs) + 1
<1>1. f.designs \in Seq(DesignEntries)
  BY DEF Reports
<1>2. /\ Len(g.designs) = Len(f.designs) + 1
      /\ \A d \in 1 .. Len(f.designs) : g.designs[d] = f.designs[d]
      /\ g.designs[Len(f.designs) + 1] = entry
  BY <1>1, AppendProperties
<1>3. DOMAIN g.designs = 1 .. Len(f.designs) + 1 /\ DOMAIN f.designs = 1 .. Len(f.designs)
  BY <1>1, <1>2, LenProperties DEF Reports
<1>4. Len(f.designs) \in Nat
  BY <1>1
<1>5. ASSUME NEW d \in DOMAIN g.designs
      PROVE  /\ \A c \in DOMAIN g.designs[d].checks : g.designs[d].checks[c].of = d
             /\ g.designs[d].status # "interrupted" => Len(g.designs[d].checks) = 2
             /\ g.designs[d].status = "passed" =>
                    \A c \in Checks : g.designs[d].checks[c].status = "passed"
  <2>1. CASE d = Len(f.designs) + 1
    BY <1>2, <2>1
  <2>2. CASE d \in DOMAIN f.designs
    BY <1>2, <1>3, <2>2 DEF FullyChecked
  <2> QED
    BY <1>3, <1>4, <1>5, <2>1, <2>2
<1> QED
  BY <1>2, <1>5 DEF FullyChecked

\* _design_status of the statuses of two checks.
LEMMA StatusOfDesign ==
  ASSUME NEW statuses \in Seq(CheckStatuses), Len(statuses) = 2
  PROVE  /\ DesignStatus(statuses) \in {"passed", "failed", "timeout"}
         /\ DesignStatus(statuses) = "passed" => \A c \in Checks : statuses[c] = "passed"
<1>1. DOMAIN statuses = 1 .. 2
  BY LenProperties
<1> QED
  BY <1>1 DEF DesignStatus, Checks

-----------------------------------------------------------------------------
(* The run: every step keeps its invariant                                 *)

LEMMA RunInitially == InitRun => RunInv
<1> SUFFICES ASSUME InitRun PROVE RunInv
  OBVIOUS
<1> USE DEF InitRun
<1>1. report = File("none") /\ disk \in {File("absent"), File("old")}
                            /\ html \in {File("absent"), File("old")}
  OBVIOUS
<1>2. /\ report \in Reports /\ disk \in Reports /\ html \in Reports
      /\ FullyChecked(report) /\ FullyChecked(disk) /\ Summarised(report)
  BY <1>1, NoReport
<1>3. RunTypeOK
  BY <1>2, RunAssumption DEF RunTypeOK, NoChecks
<1>4. report.status = "none" /\ Len(report.designs) = 0
  BY <1>1 DEF File
<1>5. ChecksOK /\ LengthOK /\ DiskOK /\ EndOK /\ ExitTellsTruth
  BY <1>4 DEF ChecksOK, LengthOK, DiskOK, EndOK, ExitTellsTruth, NoChecks, Running
<1> QED
  BY <1>2, <1>3, <1>5 DEF RunInv

\* _write_json, in two steps.
LEMMA WriteKeeps == RunInv /\ (Truncate \/ Fill) => RunInv'
<1> SUFFICES ASSUME RunInv, Truncate \/ Fill PROVE RunInv'
  OBVIOUS
<1> USE DEF RunInv, ChecksOK, LengthOK, DiskOK, EndOK, ExitTellsTruth, Running
<1>1. CASE Truncate
  <2>1. disk' \in Reports /\ FullyChecked(disk')
    BY <1>1, NoReport DEF Truncate
  <2>2. RunTypeOK'
    BY <1>1, <2>1 DEF Truncate, RunTypeOK
  <2>3. FullyChecked(report)' /\ FullyChecked(disk)' /\ Summarised(report)'
    BY <1>1, <2>1 DEF Truncate, FullyChecked, Summarised
  <2> QED
    BY <1>1, <2>2, <2>3 DEF Truncate
<1>2. CASE Fill
  <2>1. design \in Nat /\ design <= NumDesigns /\ NumDesigns \in Nat
    BY RunAssumption DEF RunTypeOK
  <2>2. UNCHANGED report /\ disk' = report
    BY <1>2 DEF Fill
  <2>3. FullyChecked(report)' /\ FullyChecked(disk)' /\ Summarised(report)'
    BY <2>2 DEF FullyChecked, Summarised
  <2>4. RunTypeOK'
    BY <1>2, <2>1, <2>2 DEF Fill, RunTypeOK
  <2>5. ChecksOK' /\ LengthOK' /\ DiskOK' /\ EndOK' /\ ExitTellsTruth'
    BY <1>2, <2>1, <2>2 DEF Fill, Finished, RunTypeOK
  <2> QED
    BY <2>3, <2>4, <2>5
<1> QED
  BY <1>1, <1>2

\* A check comes back, both have, or the second is interrupted.
LEMMA CheckKeeps == ASSUME RunInv, NEW o \in WorkerOutcomes, Check(o) PROVE RunInv'
<1> USE DEF RunInv
<1> DEFINE entry == [of |-> design, status |-> o.status]
<1>1. /\ phase = "check" /\ Len(checks) < 2 /\ checks' = Append(checks, entry)
      /\ UNCHANGED <<phase, design, report, disk, html, escaped, exitStatus, interrupts>>
  BY DEF Check
<1>2. design \in Designs
  BY <1>1, RunAssumption DEF RunTypeOK, LengthOK, Designs
<1>3. entry \in CheckEntries
  BY <1>2 DEF CheckEntries, CheckStatuses, WorkerOutcomes, Verdicts
<1>4. checks \in Seq(CheckEntries)
  BY DEF RunTypeOK
<1> HIDE DEF entry
<1>5. /\ checks' \in Seq(CheckEntries) /\ Len(checks') = Len(checks) + 1
      /\ \A c \in 1 .. Len(checks) : checks'[c] = checks[c]
      /\ checks'[Len(checks) + 1] = entry
  BY <1>1, <1>3, <1>4, AppendProperties
<1>6. entry.of = design
  BY DEF entry
<1>7. \A c \in DOMAIN checks' : checks'[c].of = design
  <2> SUFFICES ASSUME NEW c \in DOMAIN checks' PROVE checks'[c].of = design
    OBVIOUS
  <2>1. c \in 1 .. Len(checks) \/ c = Len(checks) + 1
    BY <1>4, <1>5, LenProperties
  <2>2. CASE c \in 1 .. Len(checks)
    BY <1>1, <1>4, <1>5, <2>2, LenProperties DEF ChecksOK
  <2> QED
    BY <1>5, <1>6, <2>1, <2>2
<1>8. ChecksOK'
  BY <1>1, <1>4, <1>5, <1>7 DEF ChecksOK, Running
<1>9. RunTypeOK'
  BY <1>1, <1>5 DEF RunTypeOK
<1> QED
  BY <1>1, <1>8, <1>9
     DEF LengthOK, DiskOK, EndOK, ExitTellsTruth, FullyChecked, Summarised, Running

LEMMA PublishKeeps == RunInv /\ Publish => RunInv'
<1> SUFFICES ASSUME RunInv, Publish PROVE RunInv'
  OBVIOUS
<1> USE DEF RunInv
<1> DEFINE statuses == [c \in DOMAIN checks |-> checks[c].status]
           entry == [status |-> DesignStatus(statuses), checks |-> checks]
<1>1. /\ phase = "check" /\ Len(checks) = 2 /\ report' = Published
      /\ checks' = <<>> /\ phase' = "write"
      /\ UNCHANGED <<design, disk, html, escaped, exitStatus, interrupts>>
  BY DEF Publish, NoChecks
<1>2. checks \in Seq(CheckEntries) /\ DOMAIN checks = 1 .. 2
  BY <1>1, LenProperties DEF RunTypeOK
<1>3. statuses \in Seq(CheckStatuses) /\ Len(statuses) = 2
  <2>1. \A c \in 1 .. 2 : checks[c].status \in CheckStatuses
    <3>1. \A c \in 1 .. 2 : checks[c] \in CheckEntries
      BY <1>1, <1>2
    <3> QED
      BY <3>1 DEF CheckEntries
  <2>2. statuses \in [1 .. 2 -> CheckStatuses]
    BY <1>2, <2>1
  <2> QED
    BY <2>2
<1>4. /\ DesignStatus(statuses) \in {"passed", "failed", "timeout"}
      /\ DesignStatus(statuses) = "passed" => \A c \in Checks : statuses[c] = "passed"
  BY <1>3, StatusOfDesign
<1>5. entry \in DesignEntries
  BY <1>2, <1>4 DEF DesignEntries
<1>6. report' = [report EXCEPT !.designs = Append(report.designs, entry)]
  BY <1>1 DEF Published
<1>7. \A c \in Checks : statuses[c] = checks[c].status
  BY <1>2 DEF Checks
<1>8. entry.checks = checks /\ entry.status = DesignStatus(statuses)
  OBVIOUS
<1> HIDE DEF statuses, entry
<1>9. report \in Reports /\ report.designs \in Seq(DesignEntries) /\ report.status = "none"
  BY <1>1 DEF RunTypeOK, LengthOK, Reports
<1>10. /\ report' \in Reports /\ report'.designs = Append(report.designs, entry)
       /\ report'.status = "none"
  BY <1>5, <1>6, <1>9 DEF Reports
<1>11. /\ \A c \in DOMAIN entry.checks : entry.checks[c].of = Len(report.designs) + 1
       /\ Len(report.designs) = design - 1 /\ design \in Nat
  BY <1>1, <1>8 DEF ChecksOK, LengthOK, RunTypeOK
<1>12. FullyChecked(report') /\ Len(report'.designs) = Len(report.designs) + 1
  BY <1>1, <1>4, <1>5, <1>7, <1>8, <1>9, <1>10, <1>11, OneMore
<1>13. RunTypeOK'
  BY <1>1, <1>10 DEF RunTypeOK
<1>14. ChecksOK' /\ LengthOK' /\ DiskOK' /\ EndOK' /\ ExitTellsTruth' /\ Summarised(report')
  BY <1>1, <1>10, <1>11, <1>12
     DEF ChecksOK, LengthOK, DiskOK, EndOK, ExitTellsTruth, Summarised, Running
<1>15. FullyChecked(disk')
  BY <1>1
<1> QED
  BY <1>12, <1>13, <1>14, <1>15 DEF FullyChecked, Summarised

LEMMA CheckInterruptedKeeps == RunInv /\ CheckInterrupted => RunInv'
<1> SUFFICES ASSUME RunInv, CheckInterrupted PROVE RunInv'
  OBVIOUS
<1> USE DEF RunInv
<1> DEFINE check == [of |-> design, status |-> "interrupted"]
           entry == [status |-> "interrupted", checks |-> Append(checks, check)]
<1>1. /\ phase = "check" /\ interrupts' = interrupts - 1
      /\ report' = [designs |-> Append(report.designs, entry), status |-> "interrupted"]
      /\ checks' = <<>> /\ phase' = "write"
      /\ UNCHANGED <<design, disk, html, escaped, exitStatus>>
  BY DEF CheckInterrupted, NoChecks
<1>2. design \in Designs
  BY <1>1, RunAssumption DEF RunTypeOK, LengthOK, Designs
<1>3. check \in CheckEntries /\ check.of = design
  BY <1>2 DEF CheckEntries, CheckStatuses
<1>4. checks \in Seq(CheckEntries)
  BY DEF RunTypeOK
<1> HIDE DEF check
<1>5. /\ Append(checks, check) \in Seq(CheckEntries)
      /\ Len(Append(checks, check)) = Len(checks) + 1
      /\ \A c \in 1 .. Len(checks) : Append(checks, check)[c] = checks[c]
      /\ Append(checks, check)[Len(checks) + 1] = check
  BY <1>3, <1>4, AppendProperties
<1>6. \A c \in DOMAIN Append(checks, check) : Append(checks, check)[c].of = design
  <2> SUFFICES ASSUME NEW c \in DOMAIN Append(checks, check)
               PROVE  Append(checks, check)[c].of = design
    OBVIOUS
  <2>1. c \in 1 .. Len(checks) \/ c = Len(checks) + 1
    BY <1>4, <1>5, LenProperties
  <2>2. CASE c \in 1 .. Len(checks)
    BY <1>1, <1>4, <1>5, <2>2, LenProperties DEF ChecksOK
  <2> QED
    BY <1>3, <1>5, <2>1, <2>2
<1>7. entry \in DesignEntries /\ entry.status = "interrupted"
                              /\ entry.checks = Append(checks, check)
  BY <1>5 DEF DesignEntries
<1> HIDE DEF entry
<1>8. report \in Reports /\ report.designs \in Seq(DesignEntries)
  BY DEF RunTypeOK, Reports
<1>9. /\ report' \in Reports /\ report'.designs = Append(report.designs, entry)
      /\ report'.status = "interrupted"
  BY <1>1, <1>7, <1>8 DEF Reports
<1>10. \A c \in DOMAIN entry.checks : entry.checks[c].of = Len(report.designs) + 1
  BY <1>1, <1>6, <1>7 DEF LengthOK, RunTypeOK
<1>11. FullyChecked(report')
  BY <1>7, <1>8, <1>9, <1>10, OneMore
<1>12. RunTypeOK'
  BY <1>1, <1>9 DEF RunTypeOK
<1>13. ChecksOK' /\ LengthOK' /\ DiskOK' /\ EndOK' /\ ExitTellsTruth' /\ Summarised(report')
  BY <1>1, <1>9 DEF ChecksOK, LengthOK, DiskOK, EndOK, ExitTellsTruth, Summarised, Running
<1>14. FullyChecked(disk')
  BY <1>1
<1> QED
  BY <1>11, <1>12, <1>13, <1>14 DEF FullyChecked, Summarised

LEMMA SummariseKeeps == RunInv /\ Summarise => RunInv'
<1> SUFFICES ASSUME RunInv, Summarise PROVE RunInv'
  OBVIOUS
<1> USE DEF RunInv
<1>1. /\ phase = "summary" /\ phase' = "write"
      /\ UNCHANGED <<design, checks, disk, html, escaped, exitStatus, interrupts>>
  BY DEF Summarise
<1>2. report \in Reports
  BY DEF RunTypeOK
<1>3. /\ report' \in Reports /\ report'.designs = report.designs
      /\ report'.status \in {"passed", "failed"} /\ Summarised(report')
  BY <1>2 DEF Summarise, Reports, Summarised
<1>4. RunTypeOK'
  BY <1>1, <1>3 DEF RunTypeOK
<1>5. FullyChecked(report') /\ FullyChecked(disk')
  BY <1>1, <1>3 DEF FullyChecked
<1>6. ChecksOK' /\ LengthOK' /\ DiskOK' /\ EndOK' /\ ExitTellsTruth'
  BY <1>1, <1>3 DEF ChecksOK, LengthOK, DiskOK, EndOK, ExitTellsTruth, Running
<1> QED
  BY <1>3, <1>4, <1>5, <1>6 DEF FullyChecked, Summarised

\* An exception leaves run_designs with the file as it is.
LEMMA LeavingKeeps == RunInv /\ (CheckRaises \/ Interrupt \/ GiveUp) => RunInv'
<1> SUFFICES ASSUME RunInv, CheckRaises \/ Interrupt \/ GiveUp PROVE RunInv'
  OBVIOUS
<1>1. UNCHANGED <<design, checks, report, disk, html>>
  BY DEF CheckRaises, Interrupt, GiveUp
<1>2. Summarised(report)' /\ FullyChecked(report)' /\ FullyChecked(disk)'
  BY <1>1 DEF RunInv, FullyChecked, Summarised
<1>3. RunTypeOK'
  BY <1>1 DEF RunInv, RunTypeOK, CheckRaises, Interrupt, GiveUp, Leave
<1>4. ChecksOK' /\ LengthOK' /\ DiskOK' /\ EndOK' /\ ExitTellsTruth'
  BY <1>1 DEF RunInv, ChecksOK, LengthOK, DiskOK, EndOK, ExitTellsTruth, Running, Leave,
              CheckRaises, Interrupt, GiveUp
<1> QED
  BY <1>2, <1>3, <1>4 DEF RunInv

\* The coordinator renders the file that is there.
LEMMA RenderKeeps == RunInv /\ (Render \/ RenderInterrupted) => RunInv'
<1> SUFFICES ASSUME RunInv, Render \/ RenderInterrupted PROVE RunInv'
  OBVIOUS
<1>1. UNCHANGED <<design, checks, report, disk, escaped>> /\ Rendering /\ phase' = "exited"
  BY DEF Render, RenderInterrupted, Leave
<1>2. Summarised(report)' /\ FullyChecked(report)' /\ FullyChecked(disk)'
  BY <1>1 DEF RunInv, FullyChecked, Summarised
<1>3. html' \in {html, File("torn"), disk}
  BY DEF Render, RenderInterrupted
<1>4. RunTypeOK'
  BY <1>1, <1>3, NoReport DEF RunInv, RunTypeOK, Render, RenderInterrupted, Leave
<1>5. ChecksOK' /\ LengthOK' /\ DiskOK' /\ EndOK'
  BY <1>1 DEF RunInv, ChecksOK, LengthOK, DiskOK, EndOK, Running
<1>6. ExitTellsTruth'
  <2>1. CASE exitStatus' = 0
    <3>1. phase = "returned" /\ html' = disk'
      BY <1>1, <2>1 DEF Render, RenderInterrupted, Rendering, Leave
    <3>2. /\ escaped = "none" /\ disk = report /\ report.status \in {"passed", "failed"}
          /\ Len(report.designs) = NumDesigns /\ Summarised(report)
      BY <3>1 DEF RunInv, EndOK, DiskOK
    <3>3. DOMAIN report.designs = Designs
      BY <3>2, LenProperties DEF RunInv, RunTypeOK, Reports, Designs
    <3> QED
      BY <1>1, <2>1, <3>1, <3>2, <3>3 DEF ExitTellsTruth, Summarised
  <2>2. CASE exitStatus' = 130
    BY <1>1, <2>2 DEF Render, RenderInterrupted, Rendering, Leave, ExitTellsTruth
  <2> QED
    BY <2>1, <2>2 DEF ExitTellsTruth
<1> QED
  BY <1>2, <1>4, <1>5, <1>6 DEF RunInv

LEMMA RunInductive == RunInv /\ [NextRun]_runVars => RunInv'
<1>1. RunInv /\ UNCHANGED runVars => RunInv'
  BY DEF RunInv, RunTypeOK, ChecksOK, LengthOK, DiskOK, EndOK, Summarised, FullyChecked,
         ExitTellsTruth, Running, runVars
<1> QED
  BY <1>1, WriteKeeps, CheckKeeps, PublishKeeps, CheckInterruptedKeeps, SummariseKeeps,
     LeavingKeeps, RenderKeeps DEF NextRun

LEMMA RunInvariance == SpecRun => []RunInv
BY RunInitially, RunInductive, PTL DEF SpecRun

-----------------------------------------------------------------------------
(* The theorems about the run                                               *)

\* _write_json: while a design is checked, the file is the report of all designs
\* before it.
THEOREM ProgressIsOnDisk == SpecRun => []ProgressOnDisk
<1>1. RunInv => ProgressOnDisk
  BY DEF RunInv, DiskOK, LengthOK, ProgressOnDisk
<1> QED
  BY <1>1, RunInvariance, PTL

\* design_result: a published design was checked twice, by its own checks, and is
\* "passed" only if both passed.
THEOREM DesignsAreFullyChecked == SpecRun => []DesignsFullyChecked
<1>1. RunInv => DesignsFullyChecked
  BY DEF RunInv, FullyChecked, DesignsFullyChecked
<1> QED
  BY <1>1, RunInvariance, PTL

\* docker_run_designs.main: exit status 0 is that of a complete report that was
\* rendered, 130 that of an interrupted run whose report was.
THEOREM ExitStatusTellsTruth == SpecRun => []ExitTellsTruth
<1>1. RunInv => ExitTellsTruth
  BY DEF RunInv
<1> QED
  BY <1>1, RunInvariance, PTL

-----------------------------------------------------------------------------
(* One check: its invariant                                                 *)

\* A result is begun with the verdict.
FilesOK == verdict.status = "none" <=> result = "absent"

\* Only coarse cases and the refinements there are have results.
ResultsOK == DOMAIN results \subseteq Coarse \cup plan

\* The journal holds results of the check: of every case whose case_completed
\* has returned a whole line, and last the line of one that has not.
JournalOK ==
    /\ \A i \in DOMAIN journal :
          /\ journal[i].case \in DOMAIN results
          /\ journal[i].result = results[journal[i].case]
    /\ observing # NoCase => journal # <<>> /\ journal[Len(journal)].case = observing
    /\ \A c \in DOMAIN results \ {observing} :
          \E i \in DOMAIN journal : journal[i].case = c /\ journal[i].text = "whole"

\* The verdict retains what the check had completed, and so does the outcome.
VerdictOK == verdict.status # "none" => Retains(verdict.cases)

\* The leader has an exit code when it has ended, and not before.
LeaderOK == exit # "none" => leader \in {"zombie", "reaped"}

\* What a check left behind is read after its leader has been reaped.
ReadOK == pc \in {"read", "done"} => leader = "reaped"

\* How the wait ended is known only after it.
StatusOK == pc \in {"popen", "handlers", "wait"} => status = "none"

\* Nothing runs before Popen.
PopenOK == pc = "popen" => leader = "none" /\ ~workers

\* What the files say.
FileInv == FilesOK /\ ResultsOK /\ JournalOK /\ VerdictOK /\ ProgressRetained

\* Where the processes are.
ProcInv == LeaderOK /\ ReadOK /\ StatusOK /\ PopenOK /\ GroupCleaned /\ PassedIsProved

IInv == TypeOK /\ FileInv /\ ProcInv

USE DEF Interrupted, LiveGroup, GroupExists, Alive, Ended, Handled

-----------------------------------------------------------------------------
(* Dicts of results                                                         *)

LEMMA CaseResultsOK ==
  ASSUME NEW f
  PROVE  f \in CaseResults <=> /\ DOMAIN f \subseteq Cases
                               /\ f = [c \in DOMAIN f |-> f[c]]
                               /\ \A c \in DOMAIN f : f[c] \in Answers
<1>1. f \in CaseResults =>
        /\ DOMAIN f \subseteq Cases
        /\ f = [c \in DOMAIN f |-> f[c]]
        /\ \A c \in DOMAIN f : f[c] \in Answers
  BY DEF CaseResults
<1>2. ASSUME DOMAIN f \subseteq Cases, f = [c \in DOMAIN f |-> f[c]],
             \A c \in DOMAIN f : f[c] \in Answers
      PROVE  f \in CaseResults
  <2>1. f \in [DOMAIN f -> Answers]
    BY <1>2
  <2> QED
    BY <1>2, <2>1 DEF CaseResults
<1> QED
  BY <1>1, <1>2

\* A dict comprehension is one.
LEMMA Comprehension ==
  ASSUME NEW S \in SUBSET Cases, NEW f, f = [c \in S |-> f[c]], \A c \in S : f[c] \in Answers
  PROVE  f \in CaseResults /\ DOMAIN f = S
<1>1. DOMAIN f = S
  OBVIOUS
<1> QED
  BY <1>1, CaseResultsOK

LEMMA NoCaseIsNone == NoCase \notin Cases
BY BoundsAssumption DEF NoCase, Cases, Coarse, Refined, Paths

LEMMA NoResultsOK == NoResults \in CaseResults /\ DOMAIN NoResults = {}
<1>1. NoResults = [c \in {} |-> NoResults[c]] /\ DOMAIN NoResults = {}
  BY DEF NoResults
<1> QED
  BY <1>1, Comprehension

-----------------------------------------------------------------------------
(* What is read from the journal, and what a check concludes                *)

\* The last of some lines.
LEMMA LastLine ==
  ASSUME NEW n \in Nat, NEW S \in SUBSET (1 .. n), S # {}
  PROVE  \E i \in S : \A j \in S : j <= i
<1> DEFINE T == {n - i : i \in S}
           R == OpToRel(<, Nat)
<1>1. T \subseteq Nat
  <2>1. ASSUME NEW i \in S PROVE n - i \in Nat
    <3>1. i \in 1 .. n
      BY <2>1
    <3> QED
      BY <3>1
  <2> QED
    BY <2>1
<1>2. T # {}
  BY S # {}
<1>3. IsWellFoundedOn(R, Nat)
  BY NatLessThanWellFounded
<1>4. \A k, m \in Nat : k < m => <<k, m>> \in R
  BY DEF OpToRel
<1> HIDE DEF R
<1>5. \E m \in T : \A k \in T : ~ (<<k, m>> \in R)
  <2> HIDE DEF T
  <2> QED
    BY <1>1, <1>2, <1>3, WFMin
<1>6. PICK m \in T : \A k \in T : ~ (<<k, m>> \in R)
  BY <1>5
<1>7. PICK i \in S : m = n - i
  BY <1>6
<1>8. ASSUME NEW j \in S PROVE j <= i
  <2>1. n - j \in T /\ i \in Int /\ j \in Int
    OBVIOUS
  <2>2. ~ (n - j < m)
    <3> HIDE DEF T
    <3> QED
      BY <1>1, <1>4, <1>6, <2>1
  <2> QED
    BY <1>7, <2>1, <2>2
<1> QED
  BY <1>8

\* The journal retains the check's progress, whatever its last line is.
LEMMA ReadRetains ==
  ASSUME TypeOK, JournalOK
  PROVE  ReadCompletedCases \in CaseResults /\ Retains(ReadCompletedCases)
<1> DEFINE whole == {i \in DOMAIN journal : journal[i].text = "whole"}
           last(c) == CHOOSE i \in whole :
                         /\ journal[i].case = c
                         /\ \A j \in whole : journal[j].case = c => j <= i
           names == {journal[i].case : i \in whole}
           f == [c \in names |-> journal[last(c)].result]
<1>1. ReadCompletedCases = f
  BY DEF ReadCompletedCases
<1>2. journal \in Seq(Lines) /\ results \in CaseResults /\ DOMAIN journal = 1 .. Len(journal)
      /\ Len(journal) \in Nat
  BY LenProperties DEF TypeOK
<1>3. ASSUME NEW c \in names
      PROVE  c \in DOMAIN results /\ f[c] = results[c]
  <2> DEFINE S == {i \in whole : journal[i].case = c}
  <2>1. S # {} /\ S \in SUBSET (1 .. Len(journal))
    BY <1>2, <1>3
  <2>2. \E i \in S : \A j \in S : j <= i
    BY <1>2, <2>1, LastLine
  <2>3. last(c) \in whole /\ journal[last(c)].case = c
    BY <2>2
  <2> HIDE DEF last
  <2>4. f[c] = journal[last(c)].result
    BY <1>3
  <2> QED
    BY <2>3, <2>4 DEF JournalOK
<1>4. \A c \in DOMAIN results \ {observing} : c \in names
  BY DEF JournalOK
<1>5. DOMAIN f = names /\ f = [c \in names |-> f[c]]
  OBVIOUS
<1> HIDE DEF f, names
<1>6. names \in SUBSET Cases /\ \A c \in names : f[c] \in Answers
  BY <1>2, <1>3, CaseResultsOK
<1>7. f \in CaseResults
  BY <1>5, <1>6, Comprehension
<1>8. Retains(f)
  BY <1>3, <1>4, <1>5 DEF Retains
<1> QED
  BY <1>1, <1>7, <1>8

\* So do the terminal results, once every case that is due is there.
LEMMA ConclusionRetains ==
  ASSUME TypeOK, ResultsOK, AllDone
  PROVE  /\ Conclusion.status \in {"passed", "failed"}
         /\ Conclusion.cases \in CaseResults /\ Retains(Conclusion.cases)
         /\ Conclusion = [status |-> Conclusion.status, cases |-> Conclusion.cases]
<1> DEFINE f == [c \in Terminal |-> results[c]]
<1>1. /\ Conclusion.status \in {"passed", "failed"} /\ Conclusion.cases = f
      /\ Conclusion = [status |-> Conclusion.status, cases |-> Conclusion.cases]
  BY DEF Conclusion
<1>2. /\ DOMAIN results \subseteq Cases /\ \A c \in DOMAIN results : results[c] \in Answers
      /\ plan \in SUBSET Refined
  BY CaseResultsOK DEF TypeOK
<1>3. Terminal \in SUBSET DOMAIN results
  BY DEF Terminal
<1>4. DOMAIN f = Terminal /\ \A c \in Terminal : f[c] = results[c]
  OBVIOUS
<1>5. f = [c \in Terminal |-> f[c]]
  OBVIOUS
<1> HIDE DEF f
<1>6. f \in CaseResults
  BY <1>2, <1>3, <1>4, <1>5, Comprehension
<1>7. Coarse \subseteq DOMAIN results
  BY DEF AllDone, Due
<1>8. \A d \in plan : results[<<d[1], 0>>] = "unknown" => d \in DOMAIN results
  BY <1>7 DEF AllDone, Due
<1>9. ASSUME NEW c \in DOMAIN results, c \notin Terminal
      PROVE  Superseded(c, f)
  <2>1. /\ c \in Coarse /\ results[c] = "unknown"
        /\ \E d \in DOMAIN results \cap Refined : d[1] = c[1]
    BY <1>2, <1>9 DEF Terminal, Cases
  <2>2. c = <<c[1], 0>>
    BY <2>1 DEF Coarse
  <2>3. \A d \in plan : d[1] = c[1] => d \in DOMAIN results /\ d \in Terminal
    BY <1>2, <1>8, <2>1, <2>2 DEF Terminal
  <2>4. \E d \in plan : d[1] = c[1]
    <3>1. PICK d \in DOMAIN results \cap Refined : d[1] = c[1]
      BY <2>1
    <3>2. d \notin Coarse
      BY DEF Coarse, Refined
    <3> QED
      BY <3>1, <3>2 DEF ResultsOK
  <2> QED
    BY <1>4, <2>1, <2>3, <2>4 DEF Superseded
<1>10. Retains(f)
  BY <1>3, <1>4, <1>9 DEF Retains
<1> QED
  BY <1>1, <1>6, <1>10

\* What is collected is a WorkerOutcome with the progress of the check, and "passed"
\* only of a clean end with that result.
LEMMA CollectedOK ==
  ASSUME TypeOK, FileInv, result # "torn"
  PROVE  /\ [worker |-> Collected.worker, status |-> Collected.status] \in WorkerOutcomes
         /\ Collected.worker # "none"
         /\ Collected.cases \in CaseResults /\ Retains(Collected.cases)
         /\ Collected.worker = "passed" =>
               ~Interrupted /\ exit = "zero" /\ verdict.status = "passed"
<1>1. CASE result = "absent"
  <2>1. CheckResult.status = "error" /\ CheckResult.cases = ReadCompletedCases
    BY <1>1 DEF CheckResult
  <2>2. CheckResult.cases \in CaseResults /\ Retains(CheckResult.cases)
    BY <2>1, ReadRetains DEF FileInv
  <2>3. /\ Collected.cases = CheckResult.cases
        /\ Interrupted => Collected.worker = status /\ Collected.status = status
        /\ ~Interrupted => Collected.worker = "failed" /\ Collected.status = "error"
    BY <2>1 DEF Collected
  <2> QED
    BY <2>2, <2>3 DEF WorkerOutcomes, Verdicts
<1>2. CASE result # "absent"
  <2>1. CheckResult = verdict
    BY <1>2 DEF CheckResult
  <2>2. verdict.status \in Verdicts /\ verdict.cases \in CaseResults /\ Retains(verdict.cases)
    BY <1>2 DEF TypeOK, FileInv, FilesOK, VerdictOK
  <2>3. /\ Collected.cases = verdict.cases
        /\ Interrupted => Collected.worker = status /\ Collected.status = status
        /\ ~Interrupted =>
              /\ Collected.status = verdict.status
              /\ Collected.worker = IF exit = "zero" /\ verdict.status = "passed"
                                    THEN "passed" ELSE "failed"
    BY <2>1 DEF Collected
  <2> QED
    BY <2>2, <2>3 DEF WorkerOutcomes, Verdicts
<1> QED
  BY <1>1, <1>2

-----------------------------------------------------------------------------
(* One check: every step keeps its invariant                                *)

LEMMA Initially == Init => IInv
<1> SUFFICES ASSUME Init PROVE IInv
  OBVIOUS
<1>1. rethrow \in BOOLEAN /\ asleep \in BOOLEAN /\ workers \in BOOLEAN /\ stopped \in BOOLEAN
  BY Zenon DEF Init
<1>2. ~workers
  BY Zenon DEF Init
<1>3. /\ results \in CaseResults /\ DOMAIN results = {} /\ journal = <<>> /\ observing = NoCase
      /\ verdict = [status |-> "none", cases |-> NoResults] /\ NoResults \in CaseResults
  BY NoResultsOK DEF Init
<1>4. budget \in 0 .. MaxInterrupts
  BY BoundsAssumption DEF Init
<1>5. TypeOK
  BY <1>1, <1>3, <1>4 DEF Init, TypeOK
<1>6. FileInv
  BY <1>3 DEF Init, FileInv, FilesOK, ResultsOK, JournalOK, VerdictOK, ProgressRetained
<1>7. ProcInv
  BY <1>2 DEF Init, ProcInv, LeaderOK, ReadOK, StatusOK, PopenOK, GroupCleaned, PassedIsProved
<1> QED
  BY <1>5, <1>6, <1>7 DEF IInv

\* A step that leaves the check's memory and files alone, and reports nothing.
LEMMA FilesAlone ==
  ASSUME FileInv, UNCHANGED <<checkVars, fileVars>>, UNCHANGED outcome, pc' = "done" => pc = "done"
  PROVE  FileInv'
BY DEF FileInv, FilesOK, ResultsOK, JournalOK, VerdictOK, ProgressRetained, Retains, Superseded,
       checkVars, fileVars

\* A case is verified: it has a result, and a line that is not whole.
LEMMA CompleteCaseKeeps ==
  ASSUME IInv, CompleteCase
  PROVE  TypeOK' /\ FileInv'
<1> USE DEF IInv
<1>1. /\ leader = "running" /\ verdict.status = "none" /\ observing = NoCase
      /\ UNCHANGED <<plan, verdict, result, procVars, coordVars, budget>>
  BY DEF CompleteCase, Verifying
<1>2. PICK c \in Due, r \in Answers :
        /\ results' = [d \in DOMAIN results \cup {c} |-> IF d = c THEN r ELSE results[d]]
        /\ observing' = c
        /\ journal' = Append(journal, [case |-> c, result |-> r, text |-> "torn"])
  BY DEF CompleteCase
<1> DEFINE line == [case |-> c, result |-> r, text |-> "torn"]
<1>3. /\ DOMAIN results \subseteq Cases /\ \A d \in DOMAIN results : results[d] \in Answers
      /\ plan \in SUBSET Refined /\ journal \in Seq(Lines)
  BY CaseResultsOK DEF TypeOK
<1>4. c \in Coarse \cup plan /\ c \in Cases /\ c \notin DOMAIN results /\ c # NoCase
  <2>1. c \in Coarse \cup plan /\ c \notin DOMAIN results
    BY DEF Due
  <2> QED
    BY <1>3, <2>1, NoCaseIsNone DEF Cases
<1>5. /\ DOMAIN results' = DOMAIN results \cup {c} /\ results'[c] = r
      /\ \A d \in DOMAIN results : results'[d] = results[d]
      /\ results' = [d \in DOMAIN results \cup {c} |-> results'[d]]
  BY <1>2, <1>4
<1>6. results' \in CaseResults
  <2>1. \A d \in DOMAIN results \cup {c} : results'[d] \in Answers
    BY <1>3, <1>5
  <2>2. DOMAIN results \cup {c} \in SUBSET Cases
    BY <1>3, <1>4
  <2> QED
    BY <1>5, <2>1, <2>2, Comprehension
<1>7. line \in Lines /\ line.case = c /\ line.result = r
  BY <1>4 DEF Lines
<1> HIDE DEF line
<1>8. /\ journal' \in Seq(Lines) /\ Len(journal') = Len(journal) + 1
      /\ \A i \in 1 .. Len(journal) : journal'[i] = journal[i]
      /\ journal'[Len(journal) + 1] = line
  BY <1>2, <1>3, <1>7, AppendProperties DEF line
<1>9. /\ Len(journal) \in Nat /\ DOMAIN journal = 1 .. Len(journal)
      /\ DOMAIN journal' = 1 .. Len(journal) + 1 /\ journal' # <<>>
  BY <1>3, <1>8, LenProperties
<1>10. TypeOK'
  BY <1>1, <1>2, <1>4, <1>6, <1>8 DEF TypeOK, procVars, coordVars
<1>11. JournalOK'
  <2>1. ASSUME NEW i \in DOMAIN journal'
        PROVE  journal'[i].case \in DOMAIN results' /\ journal'[i].result = results'[journal'[i].case]
    <3>1. CASE i \in DOMAIN journal
      BY <1>5, <1>8, <1>9, <3>1 DEF FileInv, JournalOK
    <3>2. CASE i = Len(journal) + 1
      BY <1>5, <1>7, <1>8, <3>2
    <3> QED
      BY <1>9, <2>1, <3>1, <3>2
  <2>2. journal'[Len(journal')].case = observing'
    BY <1>2, <1>7, <1>8
  <2>3. ASSUME NEW d \in DOMAIN results' \ {observing'}
        PROVE  \E i \in DOMAIN journal' : journal'[i].case = d /\ journal'[i].text = "whole"
    <3>1. d \in DOMAIN results /\ d # NoCase
      BY <1>2, <1>3, <1>5, <2>3, NoCaseIsNone
    <3>2. PICK i \in DOMAIN journal : journal[i].case = d /\ journal[i].text = "whole"
      BY <1>1, <3>1 DEF FileInv, JournalOK
    <3> QED
      BY <1>8, <1>9, <3>2
  <2> QED
    BY <1>9, <2>1, <2>2, <2>3 DEF JournalOK
<1>12. ResultsOK'
  BY <1>1, <1>4, <1>5 DEF FileInv, ResultsOK
<1>13. FilesOK' /\ VerdictOK' /\ ProgressRetained'
  BY <1>1 DEF FileInv, FilesOK, VerdictOK, ProgressRetained, ProcInv, ReadOK, procVars, coordVars
<1> QED
  BY <1>10, <1>11, <1>12, <1>13 DEF FileInv

\* Its line is whole: no other line and no result has changed.
LEMMA FlushLineKeeps ==
  ASSUME IInv, FlushLine
  PROVE  TypeOK' /\ FileInv'
<1> USE DEF IInv
<1> DEFINE n == Len(journal)
<1>1. /\ UNCHANGED <<verdict, result, checkVars, procVars, coordVars, budget>>
      /\ journal # <<>> /\ journal' = [journal EXCEPT ![n].text = "whole"]
  BY DEF FlushLine, LastTorn
<1>2. journal \in Seq(Lines)
  BY DEF TypeOK
<1>3. n \in Nat /\ n >= 1 /\ DOMAIN journal = 1 .. n /\ journal[n] \in Lines
  BY <1>1, <1>2, LenProperties
<1>4. DOMAIN journal' = 1 .. n /\ journal' = [i \in 1 .. n |-> journal'[i]]
  BY <1>1, <1>2, <1>3
<1>5. \A i \in 1 .. n : /\ i # n => journal'[i] = journal[i]
                        /\ i = n => journal'[i] = [journal[n] EXCEPT !.text = "whole"]
  BY <1>1, <1>3
<1>6. \A i \in 1 .. n : /\ journal'[i] \in Lines
                        /\ journal'[i].case = journal[i].case
                        /\ journal'[i].result = journal[i].result
                        /\ journal[i].text = "whole" => journal'[i].text = "whole"
  <2> HIDE DEF n
  <2> SUFFICES ASSUME NEW i \in 1 .. n
               PROVE  /\ journal'[i] \in Lines
                      /\ journal'[i].case = journal[i].case
                      /\ journal'[i].result = journal[i].result
                      /\ journal[i].text = "whole" => journal'[i].text = "whole"
    OBVIOUS
  <2>1. journal[i] \in Lines
    BY <1>2, <1>3
  <2>2. CASE i # n
    BY <1>5, <2>1, <2>2
  <2>3. CASE i = n
    <3>1. journal'[i] = [journal[i] EXCEPT !.text = "whole"]
      BY <1>5, <2>3
    <3> QED
      BY <2>1, <3>1 DEF Lines
  <2> QED
    BY <2>2, <2>3
<1> HIDE DEF n
<1>7. journal' \in Seq(Lines) /\ Len(journal') = n
  <2>1. journal' \in [1 .. n -> Lines]
    BY <1>4, <1>6
  <2> QED
    BY <1>3, <1>4, <2>1, LenProperties
<1>8. TypeOK'
  BY <1>1, <1>7 DEF TypeOK, checkVars, procVars, coordVars
<1>9. JournalOK'
  <2>1. JournalOK /\ UNCHANGED <<results, observing>>
    BY <1>1 DEF FileInv, checkVars
  <2>2. \A i \in DOMAIN journal' : /\ journal'[i].case \in DOMAIN results
                                   /\ journal'[i].result = results[journal'[i].case]
    BY <1>3, <1>4, <1>6, <2>1 DEF JournalOK
  <2>3. observing # NoCase => journal' # <<>> /\ journal'[Len(journal')].case = observing
    BY <1>3, <1>4, <1>6, <1>7, <2>1 DEF JournalOK, n
  <2>4. \A c \in DOMAIN results \ {observing} :
           \E i \in DOMAIN journal' : journal'[i].case = c /\ journal'[i].text = "whole"
    BY <1>3, <1>4, <1>6, <2>1 DEF JournalOK
  <2> QED
    BY <2>1, <2>2, <2>3, <2>4 DEF JournalOK
<1>10. FilesOK' /\ ResultsOK' /\ VerdictOK' /\ ProgressRetained'
  BY <1>1 DEF FileInv, FilesOK, ResultsOK, VerdictOK, ProgressRetained, Retains, Superseded,
              checkVars, procVars, coordVars
<1> QED
  BY <1>8, <1>9, <1>10 DEF FileInv

\* case_completed returns: the whole line is that of its case.
LEMMA CaseCompletedKeeps ==
  ASSUME IInv, CaseCompleted
  PROVE  TypeOK' /\ FileInv'
<1> USE DEF IInv
<1>1. /\ leader = "running" /\ verdict.status = "none" /\ observing # NoCase /\ observing' = NoCase
      /\ ~LastTorn /\ UNCHANGED <<plan, results, fileVars, procVars, coordVars, budget>>
  BY DEF CaseCompleted, Verifying
<1>2. TypeOK'
  BY <1>1 DEF TypeOK, fileVars, procVars, coordVars
<1>3. journal \in Seq(Lines) /\ journal # <<>> /\ journal[Len(journal)].case = observing
  BY <1>1 DEF TypeOK, FileInv, JournalOK
<1>4. Len(journal) \in DOMAIN journal /\ journal[Len(journal)].text = "whole"
  <2>1. Len(journal) \in DOMAIN journal
    BY <1>3, LenProperties
  <2>2. journal[Len(journal)] \in Lines
    BY <1>3, <2>1, LenProperties
  <2>3. journal[Len(journal)].text \in {"torn", "whole"}
    BY <2>2 DEF Lines
  <2>4. journal[Len(journal)].text # "torn"
    BY <1>1, <1>3 DEF LastTorn
  <2> QED
    BY <2>1, <2>3, <2>4
<1>5. ASSUME NEW c \in DOMAIN results
      PROVE  \E i \in DOMAIN journal : journal[i].case = c /\ journal[i].text = "whole"
  <2>1. CASE c = observing
    BY <1>3, <1>4, <2>1
  <2>2. CASE c # observing
    BY <2>2 DEF FileInv, JournalOK
  <2> QED
    BY <2>1, <2>2
<1>6. JournalOK'
  BY <1>1, <1>5 DEF FileInv, JournalOK, fileVars
<1>7. FilesOK' /\ ResultsOK' /\ VerdictOK' /\ ProgressRetained'
  BY <1>1 DEF FileInv, FilesOK, ResultsOK, VerdictOK, ProgressRetained, ProcInv, ReadOK,
              fileVars, procVars, coordVars
<1> QED
  BY <1>2, <1>6, <1>7 DEF FileInv

\* The check concludes from its memory, or fails and reads its own journal.
LEMMA BeginResultKeeps ==
  ASSUME IInv, BeginResult
  PROVE  TypeOK' /\ FileInv'
<1> USE DEF IInv
<1>1. /\ leader = "running" /\ verdict.status = "none" /\ result' = "torn"
      /\ UNCHANGED <<journal, checkVars, procVars, coordVars, budget>>
  BY DEF BeginResult, Verifying
<1>2. /\ verdict' = [status |-> verdict'.status, cases |-> verdict'.cases]
      /\ verdict'.status \in Verdicts
      /\ verdict'.cases \in CaseResults /\ Retains(verdict'.cases)
  <2>1. CASE AllDone /\ verdict' = Conclusion
    BY <2>1, ConclusionRetains DEF FileInv, Verdicts
  <2>2. CASE verdict' = ErrorResult
    BY <2>2, ReadRetains DEF FileInv, ErrorResult, Verdicts
  <2> QED
    BY <2>1, <2>2 DEF BeginResult
<1>3. TypeOK'
  BY <1>1, <1>2 DEF TypeOK, checkVars, procVars, coordVars
<1>4. VerdictOK'
  BY <1>1, <1>2 DEF VerdictOK, Retains, Superseded, checkVars
<1>5. FilesOK'
  BY <1>1, <1>2 DEF FilesOK, Verdicts
<1>6. ResultsOK' /\ JournalOK' /\ ProgressRetained'
  BY <1>1 DEF FileInv, ResultsOK, JournalOK, ProgressRetained, ProcInv, ReadOK,
              checkVars, procVars, coordVars
<1> QED
  BY <1>3, <1>4, <1>5, <1>6 DEF FileInv

LEMMA EndResultKeeps ==
  ASSUME IInv, EndResult
  PROVE  TypeOK' /\ FileInv'
<1>1. /\ result = "torn" /\ result' = "written"
      /\ UNCHANGED <<verdict, journal, checkVars, procVars, coordVars, budget>>
  BY DEF EndResult
<1>2. TypeOK'
  BY <1>1 DEF IInv, TypeOK, checkVars, procVars, coordVars
<1>3. FileInv'
  BY <1>1 DEF IInv, FileInv, FilesOK, ResultsOK, JournalOK, VerdictOK, ProgressRetained, Retains,
              Superseded, checkVars, procVars, coordVars
<1> QED
  BY <1>2, <1>3

\* The check and its descendants.
LEMMA ChildKeeps == IInv /\ Child => IInv'
<1> SUFFICES ASSUME IInv, Child PROVE IInv'
  OBVIOUS
<1>1. CASE CompleteCase \/ FlushLine \/ CaseCompleted \/ BeginResult \/ EndResult
  <2>1. TypeOK' /\ FileInv'
    BY <1>1, CompleteCaseKeeps, FlushLineKeeps, CaseCompletedKeeps, BeginResultKeeps, EndResultKeeps
  <2>2. leader = "running" /\ UNCHANGED <<procVars, coordVars>>
    BY <1>1 DEF CompleteCase, FlushLine, CaseCompleted, BeginResult, EndResult, Verifying
  <2>3. ProcInv'
    BY <2>2 DEF IInv, ProcInv, LeaderOK, ReadOK, StatusOK, PopenOK, GroupCleaned, PassedIsProved,
                procVars, coordVars
  <2> QED
    BY <2>1, <2>3 DEF IInv
<1>2. CASE StartWorkers \/ WorkersExit \/ LeaderExits \/ LeaderDies
  <2>1. UNCHANGED <<checkVars, fileVars, coordVars, budget, stopped>>
    BY <1>2 DEF StartWorkers, WorkersExit, LeaderExits, LeaderDies
  <2>2. FileInv'
    BY <2>1, FilesAlone DEF IInv, coordVars
  <2>3. workers' \in BOOLEAN
    BY <1>2, Zenon DEF StartWorkers, WorkersExit, LeaderExits, LeaderDies, IInv, TypeOK
  <2>4. TypeOK'
    BY <1>2, <2>1, <2>3 DEF StartWorkers, WorkersExit, LeaderExits, LeaderDies, IInv, TypeOK,
                            checkVars, fileVars, coordVars
  <2>5. ProcInv'
    BY <1>2, <2>1
       DEF StartWorkers, WorkersExit, LeaderExits, LeaderDies, IInv, ProcInv, LeaderOK, ReadOK,
           StatusOK, PopenOK, GroupCleaned, PassedIsProved, fileVars, coordVars, Verifying
  <2> QED
    BY <2>2, <2>4, <2>5 DEF IInv
<1> QED
  BY <1>1, <1>2 DEF Child

\* The coordinator: every way into "reap" has found the group gone or killed it.
LEMMA CoordinatorKeeps == IInv /\ Coordinator => IInv'
<1> SUFFICES ASSUME IInv, Coordinator PROVE IInv'
  OBVIOUS
<1>a. CASE ReadResult
  <2>0. UNCHANGED <<procVars, checkVars, fileVars, status, rethrow, asleep, budget>> /\ pc = "read"
    BY <1>a DEF ReadResult
  <2>1. CASE result = "torn"
    <3>1. pc' = "raised" /\ raised' = "JSONDecodeError" /\ UNCHANGED outcome
      BY <1>a, <2>1 DEF ReadResult
    <3>2. FileInv'
      BY <2>0, <3>1, FilesAlone DEF IInv
    <3> QED
      BY <2>0, <3>1, <3>2
         DEF IInv, TypeOK, ProcInv, LeaderOK, ReadOK, StatusOK, PopenOK, GroupCleaned,
             PassedIsProved, procVars, checkVars, fileVars
  <2>2. CASE result # "torn"
    <3>1. outcome' = Collected /\ pc' = "done" /\ UNCHANGED raised
      BY <1>a, <2>2 DEF ReadResult
    <3>2. TypeOK'
      BY <2>0, <2>2, <3>1, CollectedOK DEF IInv, TypeOK, procVars, checkVars, fileVars
    <3>3. ProgressRetained'
      <4>1. Retains(outcome'.cases)
        BY <2>2, <3>1, CollectedOK DEF IInv
      <4> QED
        BY <2>0, <4>1 DEF ProgressRetained, Retains, Superseded, checkVars
    <3>4. FileInv'
      BY <2>0, <3>3 DEF IInv, FileInv, FilesOK, ResultsOK, JournalOK, VerdictOK, Retains, Superseded,
                        checkVars, fileVars
    <3>5. PassedIsProved'
      BY <2>0, <2>2, <3>1, CollectedOK DEF IInv, TypeOK, PassedIsProved, procVars, fileVars
    <3>6. ProcInv'
      BY <2>0, <3>1, <3>5 DEF IInv, ProcInv, LeaderOK, ReadOK, StatusOK, PopenOK, GroupCleaned, procVars
    <3> QED
      BY <3>2, <3>4, <3>6 DEF IInv
  <2> QED
    BY <2>1, <2>2
<1>b. CASE Coordinator /\ ~ReadResult
  <2>1. UNCHANGED <<checkVars, fileVars, outcome, budget, asleep, stopped, rethrow>> /\ pc' # "done"
    <3> USE DEF coordVars, procVars
    <3>1. CASE Popen \/ InstallHandlers \/ WaitReturns \/ WaitTimesOut
      BY <3>1 DEF Popen, InstallHandlers, WaitReturns, WaitTimesOut
    <3>2. CASE SendSigterm \/ GroupGone \/ GraceExpires
      BY <3>2 DEF SendSigterm, GroupGone, GraceExpires
    <3>3. CASE PollLeader
      BY <3>3 DEF PollLeader
    <3>4. CASE Reap
      BY <3>4 DEF Reap, AfterCleanup
    <3> QED
      BY <1>b, <3>1, <3>2, <3>3, <3>4 DEF Coordinator
  <2>2. FileInv'
    BY <2>1, FilesAlone DEF IInv
  <2>3. workers' \in BOOLEAN /\ (GraceExpires => ~workers')
    BY <1>b, Zenon DEF Coordinator, Popen, InstallHandlers, WaitReturns, WaitTimesOut, SendSigterm,
                PollLeader, GroupGone, GraceExpires, Reap, IInv, TypeOK, procVars
  <2>4. TypeOK'
    <3> USE DEF IInv, TypeOK, procVars, coordVars, checkVars, fileVars
    <3>1. CASE Popen \/ InstallHandlers \/ WaitReturns \/ WaitTimesOut
      BY <2>1, <3>1 DEF Popen, InstallHandlers, WaitReturns, WaitTimesOut
    <3>2. CASE SendSigterm \/ PollLeader \/ GroupGone
      BY <2>1, <3>2 DEF SendSigterm, PollLeader, GroupGone
    <3>3. CASE GraceExpires
      BY <2>1, <2>3, <3>3 DEF GraceExpires
    <3>4. CASE Reap
      BY <2>1, <3>4 DEF Reap, AfterCleanup
    <3> QED
      BY <1>b, <3>1, <3>2, <3>3, <3>4 DEF Coordinator
  <2>5. ProcInv'
    <3> USE DEF IInv, TypeOK, ProcInv, LeaderOK, ReadOK, StatusOK, PopenOK, GroupCleaned,
                PassedIsProved, procVars, coordVars, fileVars
    <3>1. CASE Popen \/ InstallHandlers \/ WaitReturns \/ WaitTimesOut
      BY <2>1, <3>1 DEF Popen, InstallHandlers, WaitReturns, WaitTimesOut
    <3>2. CASE SendSigterm \/ PollLeader \/ GroupGone
      BY <2>1, <3>2 DEF SendSigterm, PollLeader, GroupGone
    <3>3. CASE GraceExpires
      BY <2>1, <2>3, <3>3 DEF GraceExpires
    <3>4. CASE Reap
      BY <2>1, <3>4 DEF Reap, AfterCleanup
    <3> QED
      BY <1>b, <3>1, <3>2, <3>3, <3>4 DEF Coordinator
  <2> QED
    BY <2>2, <2>4, <2>5 DEF IInv
<1> QED
  BY <1>a, <1>b

\* Signals, wherever they arrive.
LEMMA SignalsKeep == IInv /\ Signals => IInv'
<1> SUFFICES ASSUME IInv, Signals PROVE IInv'
  OBVIOUS
<1>1. pc' = "done" => pc = "done"
  BY DEF Signals, KeyboardInterrupt, DefaultSignal, Suspend, Wake, procVars
<1>2. UNCHANGED <<checkVars, fileVars, outcome, leader, exit, workers>>
  BY DEF Signals, KeyboardInterrupt, DefaultSignal, Suspend, Wake, procVars
<1>3. FileInv'
  BY <1>1, <1>2, FilesAlone DEF IInv
<1>4. asleep' \in BOOLEAN /\ rethrow' \in BOOLEAN /\ stopped' \in BOOLEAN
  BY Zenon DEF Signals, KeyboardInterrupt, DefaultSignal, Suspend, Wake, procVars, IInv, TypeOK
<1>5. TypeOK'
  BY <1>2, <1>4, BoundsAssumption
     DEF Signals, KeyboardInterrupt, DefaultSignal, Suspend, Wake, IInv, TypeOK, checkVars, fileVars
<1>6. ProcInv'
  BY <1>2 DEF Signals, KeyboardInterrupt, DefaultSignal, Suspend, Wake, IInv, TypeOK, ProcInv,
              LeaderOK, ReadOK, StatusOK, PopenOK, GroupCleaned, PassedIsProved, fileVars
<1> QED
  BY <1>3, <1>5, <1>6 DEF IInv

LEMMA Inductive == IInv /\ [Next]_vars => IInv'
<1>1. ASSUME IInv, UNCHANGED vars PROVE IInv'
  <2>1. FileInv'
    BY <1>1, FilesAlone DEF IInv, vars, coordVars
  <2>2. TypeOK' /\ ProcInv'
    BY <1>1 DEF IInv, TypeOK, ProcInv, LeaderOK, ReadOK, StatusOK, PopenOK, GroupCleaned,
                PassedIsProved, vars, procVars, checkVars, fileVars, coordVars
  <2> QED
    BY <2>1, <2>2 DEF IInv
<1> QED
  BY <1>1, ChildKeeps, CoordinatorKeeps, SignalsKeep DEF Next

LEMMA Invariance == Spec => []IInv
BY Initially, Inductive, PTL DEF Spec
-----------------------------------------------------------------------------
(* The theorems about one check                                             *)

\* Every variable stays in its type: what a check comes back with is one of the
\* outcomes that the loop over designs reckons with.
THEOREM TypeCorrect == Spec => []TypeOK
<1>1. IInv => TypeOK
  BY DEF IInv
<1> QED
  BY <1>1, Invariance, PTL

\* _terminate_process_group: once the final wait is reached, and whenever a
\* timed-out or interrupted check is read, nothing of its group is alive.
THEOREM GroupIsCleaned == Spec => []GroupCleaned
<1>1. IInv => GroupCleaned
  BY DEF IInv, ProcInv
<1> QED
  BY <1>1, Invariance, PTL

\* _run_design_subprocess never returns "passed" for a check that did not
\* conclude so and end with exit code 0 of itself.
THEOREM PassedMeansProved == Spec => []PassedIsProved
<1>1. IInv => PassedIsProved
  BY DEF IInv, ProcInv
<1> QED
  BY <1>1, Invariance, PTL

\* _read_completed_cases and terminal_results: whatever became of the check, what
\* is returned of it are its own results, and of every case whose case_completed
\* had returned.
THEOREM ProgressIsRetained == Spec => []ProgressRetained
<1>1. IInv => ProgressRetained
  BY DEF IInv, FileInv
<1> QED
  BY <1>1, Invariance, PTL
=============================================================================
