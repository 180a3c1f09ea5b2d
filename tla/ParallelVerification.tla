------------------------ MODULE ParallelVerification ------------------------
(***************************************************************************)
(* run_verification_cases (zolotone/solver/parallel_verification.py): a     *)
(* lazy stream of verification cases is run serially in this process, or    *)
(* on a bounded pool of spawned worker processes whose results are reported *)
(* in completion order and returned in generation order.  A worker that     *)
(* dies breaks the whole executor: what reached the parent is kept, the     *)
(* rest is retried serially and a fresh pool takes over the stream.         *)
(*                                                                         *)
(* Cases are their generation indexes.  A future is the status of the one   *)
(* submission of its case (a case is submitted at most once).  The three    *)
(* sources of ordinary exceptions (case generator, verify_case, observer)   *)
(* are nondeterministic; worker death (PoolBreaks) is unbounded.            *)
(***************************************************************************)
EXTENDS Integers, FiniteSets

CONSTANTS
    NumCases,  \* length of the case stream
    Counts     \* the integers a setting or a CPU count may be

ASSUME NumCasesAssumption == NumCases \in Nat
ASSUME CountsAssumption == Counts \subseteq Int

Cases == 0 .. NumCases - 1
None  == -1

VARIABLES
    maxWorkers, \* max_workers, resolved
    pc,         \* where the parent process is
    nextCase,   \* next index enumerate(cases) will yield
    exhausted,  \* case_stream_exhausted
    pool,       \* the executor: "cold" before its first submit, "up", "broken"
    pools,      \* executors created so far
    future,     \* status of each case's future
    inFlight,   \* indexes in in_flight
    batch,      \* what the current for loop has still to visit
    refused,    \* failed_submission, or None
    results,    \* the keys of results_by_index
    notified,   \* observer.case_completed calls that returned, per case
    raised      \* the exception in flight, or "none"

vars == <<maxWorkers, pc, nextCase, exhausted, pool, pools, future, inFlight, batch,
          refused, results, notified, raised>>

FutureStates == {"none", "running", "ok", "error", "broken"}
Exceptions   == {"none", "generator", "worker", "observer",
                 "BrokenProcessPool", "KeyError"}
ParentStates == {"serial", "submit", "wait", "collect", "abort", "unwind",
                 "harvest", "retry", "returned", "failed"}

\* Bug: a future failed by the broken pool still counts as pending.
RunningWithBroken == {i \in inFlight : future[i] \in {"running", "broken"}}

Running  == {i \in inFlight : future[i] = "running"}

\* One case per worker may be in flight: in_flight_limit = max_workers.
InFlightLimit == maxWorkers

(* resolve_max_workers: an argument, else the environment, else the CPUs    *)

\* A setting is the set of its value: empty when it is not given.
Settings == {{}} \cup {{n} : n \in Counts}

\* The CPUs of the process's affinity mask, unless it is unavailable or empty;
\* os.cpu_count() may be unknown too.
AutomaticMaxWorkers(affinity, cpus) ==
    IF \E n \in affinity : n > 0 THEN affinity
    ELSE IF cpus \ {0} # {} THEN cpus ELSE {1}

\* What a run starts with; a setting below one is a ValueError and no run.
ResolveMaxWorkers(argument, environment, affinity, cpus) ==
    {n \in IF argument # {} THEN argument
           ELSE IF environment # {} THEN environment
           ELSE AutomaticMaxWorkers(affinity, cpus) : n >= 1}

Init ==
    /\ \E argument, environment, affinity, cpus \in Settings :
          maxWorkers \in ResolveMaxWorkers(argument, environment, affinity, cpus)
    /\ pc = IF maxWorkers = 1 THEN "serial" ELSE "submit"
    /\ nextCase = 0
    /\ exhausted = FALSE
    /\ pool = "cold"
    /\ pools = IF maxWorkers = 1 THEN 0 ELSE 1
    /\ future = [i \in Cases |-> "none"]
    /\ inFlight = {}
    /\ batch = {}
    /\ refused = None
    /\ results = {}
    /\ notified = [i \in Cases |-> 0]
    /\ raised = "none"

-----------------------------------------------------------------------------
(* Steps of the parent that several places of the code share.               *)

\* results_by_index[index] = result
Store(i) == results' = results \cup {i}

\* observer.case_completed(result) returns, or raises out of the loop
Notify(i, onward, outward) ==
    \/ /\ notified' = [notified EXCEPT ![i] = @ + 1]
       /\ pc' = onward
       /\ UNCHANGED raised
    \/ /\ pc' = outward
       /\ raised' = "observer"
       /\ UNCHANGED notified

\* An ordinary exception leaves for `target`.
Raise(exception, target) == pc' = target /\ raised' = exception

\* `return [results_by_index[index] for index in range(len(...))]`
ReturnResults ==
    IF results = 0 .. Cardinality(results) - 1
    THEN pc' = "returned" /\ UNCHANGED raised
    ELSE Raise("KeyError", "failed")

-----------------------------------------------------------------------------
(* _run_serially                                                            *)

SerialCase ==
    /\ pc = "serial"
    /\ nextCase < NumCases
    /\ nextCase' = nextCase + 1
    /\ \/ Store(nextCase) /\ Notify(nextCase, "serial", "failed")
       \/ Raise("worker", "failed") /\ UNCHANGED <<results, notified>>
    /\ UNCHANGED <<maxWorkers, exhausted, pool, pools, future, inFlight,
                   batch, refused>>

SerialDone ==
    /\ pc = "serial"
    /\ nextCase = NumCases
    /\ ReturnResults
    /\ UNCHANGED <<maxWorkers, nextCase, exhausted, pool, pools, future,
                   inFlight, batch, refused, results, notified>>

-----------------------------------------------------------------------------
(* submit_until_full: one iteration of its loop per step                    *)

\* next(indexed_cases) yields a case and the executor takes it.
SubmitCase ==
    /\ pc = "submit"
    /\ Cardinality(inFlight) < InFlightLimit
    /\ nextCase < NumCases
    /\ pool # "broken"
    /\ nextCase' = nextCase + 1
    /\ inFlight' = inFlight \cup {nextCase}
    /\ future' = [future EXCEPT ![nextCase] = "running"]
    /\ pool' = "up"
    /\ UNCHANGED <<maxWorkers, pc, exhausted, pools, batch, refused, results,
                   notified, raised>>

\* ... or executor.submit raises BrokenProcessPool and the case is remembered.
SubmitRefused ==
    /\ pc = "submit"
    /\ Cardinality(inFlight) < InFlightLimit
    /\ nextCase < NumCases
    /\ pool = "broken"
    /\ nextCase' = nextCase + 1
    /\ refused' = nextCase
    /\ pc' = "unwind"
    /\ UNCHANGED <<maxWorkers, exhausted, pool, pools, future, inFlight,
                   batch, results, notified, raised>>

\* The generator itself raises instead of yielding or stopping.
GeneratorRaises ==
    /\ \/ pc = "serial" /\ Raise("generator", "failed")
       \/ /\ pc = "submit"
          /\ Cardinality(inFlight) < InFlightLimit
          /\ ~exhausted
          /\ Raise("generator", "abort")
    /\ UNCHANGED <<maxWorkers, nextCase, exhausted, pool, pools, future,
                   inFlight, batch, refused, results, notified>>

\* submit_until_full returns: the window is full, or StopIteration.
SubmitDone ==
    /\ pc = "submit"
    /\ \/ Cardinality(inFlight) >= InFlightLimit /\ UNCHANGED exhausted
       \/ /\ Cardinality(inFlight) < InFlightLimit
          /\ nextCase = NumCases
          /\ exhausted' = TRUE
    /\ pc' = "wait"
    /\ UNCHANGED <<maxWorkers, nextCase, pool, pools, future, inFlight, batch,
                   refused, results, notified, raised>>

-----------------------------------------------------------------------------
(* The `while in_flight` loop                                               *)

\* wait(in_flight, FIRST_COMPLETED) returns every future finished by then.
WaitReturns ==
    /\ pc = "wait"
    /\ inFlight \ Running # {}
    /\ batch' = inFlight \ Running
    /\ pc' = "collect"
    /\ UNCHANGED <<maxWorkers, nextCase, exhausted, pool, pools, future,
                   inFlight, refused, results, notified, raised>>

\* `while in_flight` ends; the executor exits idle and the loop breaks.
DrainedAndReturn ==
    /\ pc = "wait"
    /\ inFlight = {}
    /\ ReturnResults
    /\ UNCHANGED <<maxWorkers, nextCase, exhausted, pool, pools, future,
                   inFlight, batch, refused, results, notified>>

\* result = future.result() on a future that holds a result
CollectResult(i) ==
    /\ pc = "collect"
    /\ i \in batch
    /\ future[i] = "ok"
    /\ batch' = batch \ {i}
    /\ inFlight' = inFlight \ {i}
    /\ Store(i)
    /\ Notify(i, "collect", "abort")
    /\ UNCHANGED <<maxWorkers, nextCase, exhausted, pool, pools, future,
                   refused>>

\* ... on one whose verify_case raised, or whose pool broke
CollectException(i) ==
    /\ pc = "collect"
    /\ i \in batch
    /\ batch' = {}
    /\ \/ future[i] = "error" /\ Raise("worker", "abort")
       \/ future[i] = "broken" /\ pc' = "unwind" /\ UNCHANGED raised
    /\ UNCHANGED <<maxWorkers, nextCase, exhausted, pool, pools, future,
                   inFlight, refused, results, notified>>

CollectDone ==
    /\ pc = "collect"
    /\ batch = {}
    /\ pc' = "submit"
    /\ UNCHANGED <<maxWorkers, nextCase, exhausted, pool, pools, future,
                   inFlight, batch, refused, results, notified, raised>>

-----------------------------------------------------------------------------
(* Leaving the `with ProcessPoolExecutor` block: __exit__ waits for every   *)
(* future before the exception goes on.                                     *)

AbortExit ==
    /\ pc = "abort"
    /\ Running = {}
    /\ pc' = "failed"
    /\ UNCHANGED <<maxWorkers, nextCase, exhausted, pool, pools, future,
                   inFlight, batch, refused, results, notified, raised>>

UnwindExit ==
    /\ pc = "unwind"
    /\ Running = {}
    /\ batch' = inFlight
    /\ pc' = "harvest"
    /\ UNCHANGED <<maxWorkers, nextCase, exhausted, pool, pools, future,
                   inFlight, refused, results, notified, raised>>

-----------------------------------------------------------------------------
(* except BrokenProcessPool                                                 *)

\* in_flight is visited in insertion order, which is index order.
Earliest(i, S) == i \in S /\ \A j \in S : i <= j

\* Bug: a harvested result is stored and never reported.
HarvestResultSilently(i) ==
    /\ pc = "harvest"
    /\ Earliest(i, batch)
    /\ future[i] = "ok"
    /\ batch' = batch \ {i}
    /\ Store(i)
    /\ UNCHANGED <<maxWorkers, pc, nextCase, exhausted, pool, pools, future,
                   inFlight, refused, notified, raised>>

HarvestResult(i) ==
    /\ pc = "harvest"
    /\ Earliest(i, batch)
    /\ future[i] = "ok"
    /\ batch' = batch \ {i}
    /\ Store(i)
    /\ Notify(i, "harvest", "failed")
    /\ UNCHANGED <<maxWorkers, nextCase, exhausted, pool, pools, future,
                   inFlight, refused>>

HarvestException(i) ==
    /\ pc = "harvest"
    /\ Earliest(i, batch)
    /\ \/ future[i] = "broken" /\ batch' = batch \ {i} /\ UNCHANGED <<pc, raised>>
       \/ future[i] = "error" /\ Raise("worker", "failed") /\ UNCHANGED batch
    /\ UNCHANGED <<maxWorkers, nextCase, exhausted, pool, pools, future,
                   inFlight, refused, results, notified>>

\* Bug: the case whose submission was refused is forgotten.
RetryCasesInFlightOnly == inFlight \ results

\* retry_cases: what was in flight without a result, and the refused case
RetryCases ==
    (inFlight \ results)
    \cup (IF refused = None THEN {} ELSE {refused})

\* Bug: the unfinished cases go to a fresh pool instead of a serial retry.
StartRetryInFreshPool ==
    /\ pc = "harvest"
    /\ batch = {}
    /\ inFlight' = RetryCases
    /\ future' = [i \in Cases |-> IF i \in RetryCases THEN "running" ELSE future[i]]
    /\ pc' = "submit"
    /\ pool' = "up"
    /\ pools' = pools + 1
    /\ refused' = None
    /\ UNCHANGED <<maxWorkers, nextCase, exhausted, batch, results, notified,
                   raised>>

StartRetry ==
    /\ pc = "harvest"
    /\ batch = {}
    /\ batch' = RetryCases
    /\ inFlight' = {}
    /\ IF RetryCases # {} THEN pc' = "retry" /\ UNCHANGED raised
       ELSE IF exhausted THEN ReturnResults
       ELSE Raise("BrokenProcessPool", "failed")
    /\ UNCHANGED <<maxWorkers, nextCase, exhausted, pool, pools, future,
                   refused, results, notified>>

\* Retried in the parent, in index order; the first exception ends the run.
RetryCase(i) ==
    /\ pc = "retry"
    /\ Earliest(i, batch)
    /\ batch' = batch \ {i}
    /\ \/ Store(i) /\ Notify(i, "retry", "failed")
       \/ Raise("worker", "failed") /\ UNCHANGED <<results, notified>>
    /\ UNCHANGED <<maxWorkers, nextCase, exhausted, pool, pools, future,
                   inFlight, refused>>

\* `continue`: the while loop builds a fresh executor for the rest.
ResumeParallel ==
    /\ pc = "retry"
    /\ batch = {}
    /\ ~exhausted
    /\ pc' = "submit"
    /\ pool' = "cold"
    /\ pools' = pools + 1
    /\ refused' = None
    /\ UNCHANGED <<maxWorkers, nextCase, exhausted, future, inFlight, batch,
                   results, notified, raised>>

RetriedLastCases ==
    /\ pc = "retry"
    /\ batch = {}
    /\ exhausted
    /\ ReturnResults
    /\ UNCHANGED <<maxWorkers, nextCase, exhausted, pool, pools, future,
                   inFlight, batch, refused, results, notified>>

-----------------------------------------------------------------------------
(* The executor's processes and its manager thread                          *)

WorkerFinishes(i) ==
    /\ pool = "up"
    /\ i \in Running
    /\ \E outcome \in {"ok", "error"} : future' = [future EXCEPT ![i] = outcome]
    /\ UNCHANGED <<maxWorkers, pc, nextCase, exhausted, pool, pools, inFlight,
                   batch, refused, results, notified, raised>>

\* A worker process dies, busy or idle, and the manager marks the executor.
PoolBreaks ==
    /\ pool = "up"
    /\ pc \in {"submit", "wait", "collect", "abort"}
    /\ pool' = "broken"
    /\ UNCHANGED <<maxWorkers, pc, nextCase, exhausted, pools, future,
                   inFlight, batch, refused, results, notified, raised>>

\* The manager then fails the pending futures, one after the other.
FutureBroken(i) ==
    /\ pool = "broken"
    /\ i \in Running
    /\ future' = [future EXCEPT ![i] = "broken"]
    /\ UNCHANGED <<maxWorkers, pc, nextCase, exhausted, pool, pools, inFlight,
                   batch, refused, results, notified, raised>>

-----------------------------------------------------------------------------
Parent ==
    \/ SerialCase \/ SerialDone
    \/ SubmitCase \/ SubmitRefused \/ GeneratorRaises \/ SubmitDone
    \/ WaitReturns \/ DrainedAndReturn \/ CollectDone
    \/ AbortExit \/ UnwindExit
    \/ StartRetry \/ ResumeParallel \/ RetriedLastCases
    \/ \E i \in Cases :
          \/ CollectResult(i) \/ CollectException(i)
          \/ HarvestResult(i) \/ HarvestException(i)
          \/ RetryCase(i)

Executor == \E i \in Cases : WorkerFinishes(i) \/ FutureBroken(i)

Ended == pc \in {"returned", "failed"}

Next == Parent \/ Executor \/ PoolBreaks

\* The parent runs on; a worker that stays alive ends its case (the solver
\* schedule is finite); the manager thread fails what a dead worker left.
Fairness ==
    /\ WF_vars(Parent)
    /\ \A i \in Cases : WF_vars(WorkerFinishes(i)) /\ WF_vars(FutureBroken(i))

Spec == Init /\ [][Next]_vars /\ Fairness

-----------------------------------------------------------------------------
(* What the runner owes its caller and its observer                         *)

TypeOK ==
    /\ maxWorkers \in Nat \ {0}
    /\ pc \in ParentStates
    /\ nextCase \in 0 .. NumCases
    /\ exhausted \in BOOLEAN
    /\ pool \in {"cold", "up", "broken"}
    /\ pools \in Nat
    /\ future \in [Cases -> FutureStates]
    /\ inFlight \subseteq Cases
    /\ batch \subseteq Cases
    /\ refused \in Cases \cup {None}
    /\ results \subseteq Cases
    /\ notified \in [Cases -> Nat]
    /\ raised \in Exceptions

\* What the parent still has to resolve: submitted, refused or being retried.
Outstanding ==
    inFlight \cup (IF pc = "retry" THEN batch ELSE {})
             \cup (IF refused # None /\ pc \in {"unwind", "harvest"}
                   THEN {refused} ELSE {})

\* No generated case is lost: while the run goes on, every case taken from the
\* stream has its result or is still owned by in_flight, failed_submission or
\* retry_cases.
NoCaseLost ==
    pc \notin {"failed", "abort"} =>
        results \cup Outstanding = 0 .. nextCase - 1

\* The observer hears of a case at most once, whatever crashes, and has heard
\* of every stored result unless it raised on that very call.
NotifiedOnce ==
    /\ \A i \in Cases : notified[i] <= (IF i \in results THEN 1 ELSE 0)
    /\ raised # "observer" => \A i \in results : notified[i] = 1

\* A list is returned only when every case of the stream has its result in it
\* and was reported; no future whose verification raised was passed over.
ReturnedComplete ==
    pc = "returned" =>
        /\ results = Cases
        /\ \A i \in Cases : notified[i] = 1 /\ future[i] # "error"

\* Worker death alone never fails a run: neither the re-raised BrokenProcessPool
\* nor a hole in results_by_index ever leaves run_verification_cases.
CrashTolerance == raised \notin {"BrokenProcessPool", "KeyError"}

\* Laziness: the stream is never read further than max_workers unresolved cases
\* ahead, retries and refused submissions included ("SpecContext objects can be
\* large").
WindowBound == nextCase <= Cardinality(results) + maxWorkers

\* Every fresh pool is paid for by a case resolved in the retry before it.
PoolsBounded == pools <= Cardinality(results) + 1

\* Serial retry runs only cases whose worker was lost: a case whose result or
\* exception reached the parent is never verified a second time.
RetryOnlyLost ==
    pc = "retry" => \A i \in batch : i \notin results /\ future[i] \in {"none", "broken"}

-----------------------------------------------------------------------------
(* Why these hold: the books the parent keeps, phase by phase.              *)

Looping == pc \in {"serial", "submit", "wait", "collect"}

\* Futures follow the stream: none ahead of nextCase, one per in-flight case,
\* and a stored result never came from a pending or failed future.
FutureBooks ==
    /\ \A i \in Cases : i >= nextCase => future[i] = "none"
    /\ \A i \in inFlight : future[i] # "none"
    /\ \A i \in results : future[i] \notin {"running", "error"}
    /\ pc # "failed" /\ refused # None => future[refused] = "none"
    /\ pc \in {"harvest", "retry"} => Running = {}

\* The window: what is in flight is below nextCase and without a result until
\* harvested, and the refused case is neither in flight nor resolved.
WindowBooks ==
    /\ \A i \in inFlight \cup results : i < nextCase
    /\ refused # None => refused < nextCase
    /\ pc \in {"submit", "wait", "collect", "unwind"} => inFlight \cap results = {}
    /\ pc = "serial" => inFlight = {}
    /\ Looping => refused = None
    /\ pc \in {"unwind", "harvest"} => refused \notin inFlight \cup results
    /\ exhausted => nextCase = NumCases
    /\ pc = "wait" /\ inFlight = {} => exhausted

\* The batch a loop still has to visit.
BatchBooks ==
    /\ pc = "collect" => batch \subseteq inFlight \ Running
    /\ pc \in {"harvest", "retry"} => batch \cap results = {}
    /\ pc = "harvest" =>
          /\ batch \subseteq inFlight
          /\ \A i \in inFlight \ batch : i \in results \/ future[i] = "broken"
    /\ pc = "retry" => inFlight = {}

\* A broken pool is only left with a case to retry.
SomethingToRetry ==
    pc \in {"unwind", "harvest"} =>
        refused # None \/ \E i \in inFlight \ results : future[i] = "broken"

Books ==
    /\ FutureBooks
    /\ WindowBooks
    /\ BatchBooks
    /\ SomethingToRetry
    /\ pc \notin {"abort", "failed"} => raised = "none"

\* However often workers die, the run ends.
Terminates == <>Ended

Stream == INSTANCE CaseStream WITH
    window  <- maxWorkers,
    reports <- notified,
    outcome <- IF pc \in {"returned", "failed"} THEN pc ELSE "running"

\* The runner implements the case stream: every behaviour, worker deaths and
\* exceptions included, looks to its observer and its caller like a lazy
\* windowed stream (with one worker: cases in generation order) that ends.
ImplementsStream == Stream!Spec
=============================================================================
