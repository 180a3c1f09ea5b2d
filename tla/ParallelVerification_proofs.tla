-------------------- MODULE ParallelVerification_proofs --------------------
(***************************************************************************)
(* The runner is correct for every stream length and every number of        *)
(* workers: proofs for the safety properties of ParallelVerification.       *)
(***************************************************************************)
EXTENDS ParallelVerification, FiniteSetTheorems, TLAPS

USE NumCasesAssumption, CountsAssumption

\* A notification, answered or not, leaves well-typed state behind.
LEMMA NotifyTyping ==
  ASSUME TypeOK, NEW i \in Cases, NEW onward \in ParentStates,
         NEW outward \in ParentStates, Notify(i, onward, outward)
  PROVE  pc' \in ParentStates /\ notified' \in [Cases -> Nat] /\ raised' \in Exceptions
BY DEF TypeOK, Notify, Exceptions

\* Whatever the settings are, a run starts with at least one worker.
LEMMA SomeWorker == Init => maxWorkers \in Nat \ {0}
<1> SUFFICES ASSUME NEW argument \in Settings, NEW environment \in Settings,
                    NEW affinity \in Settings, NEW cpus \in Settings,
                    maxWorkers \in ResolveMaxWorkers(argument, environment,
                                                     affinity, cpus)
             PROVE  maxWorkers \in Nat \ {0}
  BY Zenon DEF Init
<1>1. \A setting \in Settings : setting \subseteq Int
  BY DEF Settings
<1> QED
  BY <1>1 DEF ResolveMaxWorkers, AutomaticMaxWorkers

\* Type correctness of the runner's state.
THEOREM Typing == Spec => []TypeOK
<1>1. Init => TypeOK
  <2> SUFFICES ASSUME Init PROVE TypeOK
    OBVIOUS
  <2>1. pc \in ParentStates /\ pools \in Nat
    BY DEF Init, ParentStates
  <2>2. future \in [Cases -> FutureStates]
    BY DEF Init, FutureStates
  <2>3. notified \in [Cases -> Nat] /\ exhausted \in BOOLEAN
    BY DEF Init
  <2>4. nextCase \in 0 .. NumCases /\ pool \in {"cold", "up", "broken"} /\ raised \in Exceptions
    BY DEF Init, Exceptions
  <2> QED
    BY <2>1, <2>2, <2>3, <2>4, SomeWorker DEF Init, TypeOK
<1>2. TypeOK /\ [Next]_vars => TypeOK'
  <2> SUFFICES ASSUME TypeOK, [Next]_vars PROVE TypeOK'
    OBVIOUS
  <2> USE DEF TypeOK, FutureStates, Exceptions, ParentStates, Cases, None,
              Store, Notify, Raise, ReturnResults, RetryCases, Running
  <2>1. CASE SerialCase
    <3>1. nextCase \in Cases /\ nextCase' \in 0 .. NumCases
      BY <2>1 DEF SerialCase
    <3>2. CASE Store(nextCase) /\ Notify(nextCase, "serial", "failed")
      BY <2>1, <3>1, <3>2, NotifyTyping DEF SerialCase
    <3>3. CASE Raise("worker", "failed") /\ UNCHANGED <<results, notified>>
      BY <2>1, <3>1, <3>3 DEF SerialCase
    <3> QED
      BY <2>1, <3>2, <3>3 DEF SerialCase
  <2>2. CASE SerialDone  BY <2>2 DEF SerialDone
  <2>3. CASE SubmitCase  BY <2>3 DEF SubmitCase
  <2>4. CASE SubmitRefused  BY <2>4 DEF SubmitRefused
  <2>5. CASE GeneratorRaises  BY <2>5 DEF GeneratorRaises
  <2>6. CASE SubmitDone  BY <2>6 DEF SubmitDone
  <2>7. CASE WaitReturns  BY <2>7 DEF WaitReturns
  <2>8. CASE DrainedAndReturn  BY <2>8 DEF DrainedAndReturn
  <2>9. CASE CollectDone  BY <2>9 DEF CollectDone
  <2>10. CASE AbortExit  BY <2>10 DEF AbortExit
  <2>11. CASE UnwindExit  BY <2>11 DEF UnwindExit
  <2>12. CASE StartRetry  BY <2>12 DEF StartRetry
  <2>13. CASE ResumeParallel  BY <2>13 DEF ResumeParallel
  <2>14. CASE RetriedLastCases  BY <2>14 DEF RetriedLastCases
  <2>15. ASSUME NEW i \in Cases, CollectResult(i) PROVE TypeOK'
    BY <2>15 DEF CollectResult
  <2>16. ASSUME NEW i \in Cases, CollectException(i) PROVE TypeOK'
    BY <2>16 DEF CollectException
  <2>17. ASSUME NEW i \in Cases, HarvestResult(i) PROVE TypeOK'
    BY <2>17 DEF HarvestResult
  <2>18. ASSUME NEW i \in Cases, HarvestException(i) PROVE TypeOK'
    BY <2>18 DEF HarvestException
  <2>19. ASSUME NEW i \in Cases, RetryCase(i) PROVE TypeOK'
    <3>1. CASE Store(i) /\ Notify(i, "retry", "failed")
      BY <2>19, <3>1, NotifyTyping DEF RetryCase
    <3>2. CASE Raise("worker", "failed") /\ UNCHANGED <<results, notified>>
      BY <2>19, <3>2 DEF RetryCase
    <3> QED
      BY <2>19, <3>1, <3>2 DEF RetryCase
  <2>20. ASSUME NEW i \in Cases, WorkerFinishes(i) PROVE TypeOK'
    BY <2>20 DEF WorkerFinishes
  <2>21. ASSUME NEW i \in Cases, FutureBroken(i) PROVE TypeOK'
    BY <2>21 DEF FutureBroken
  <2>22. CASE PoolBreaks  BY <2>22 DEF PoolBreaks
  <2>23. CASE UNCHANGED vars  BY <2>23 DEF vars
  <2> QED
    BY <2>1, <2>2, <2>3, <2>4, <2>5, <2>6, <2>7, <2>8, <2>9, <2>10, <2>11,
       <2>12, <2>13, <2>14, <2>15, <2>16, <2>17, <2>18, <2>19, <2>20, <2>21,
       <2>22, <2>23 DEF Next, Parent, Executor
<1> QED
  BY <1>1, <1>2, PTL DEF Spec

-----------------------------------------------------------------------------
(* The inductive invariant: the books of the source module, and with them   *)
(* the properties that hold only because the books are kept.                *)

IInv ==
    /\ NoCaseLost
    /\ NotifiedOnce
    /\ CrashTolerance
    /\ RetryOnlyLost
    /\ Books
    /\ pc = "returned" => results = Cases

\* The window has room for at least one case.
LEMMA FullWindow ==
  ASSUME TypeOK, Cardinality(inFlight) >= maxWorkers PROVE inFlight # {}
BY FS_EmptySet DEF TypeOK

\* A dict whose keys are an initial segment is read back without a KeyError.
LEMMA NoHoles ==
  ASSUME NEW n \in Nat, results = 0 .. n - 1
  PROVE  results = 0 .. Cardinality(results) - 1
BY FS_Interval

\* The invariant holds initially.
LEMMA InitIInv == Init => IInv
BY DEF Init, IInv, RetryOnlyLost, NoCaseLost, NotifiedOnce, CrashTolerance, Books, FutureBooks,
       WindowBooks, BatchBooks, SomethingToRetry, Outstanding, Looping, Cases,
       None, Running

\* Storing and reporting a case that had no result keeps the reports exact.
LEMMA NotifyOnce ==
  ASSUME TypeOK, NotifiedOnce, raised = "none", NEW i \in Cases, i \notin results,
         NEW onward, NEW outward, Store(i), Notify(i, onward, outward)
  PROVE  NotifiedOnce'
<1>1. notified[i] = 0 /\ results' = results \cup {i}
  BY DEF TypeOK, NotifiedOnce, Store
<1>2. CASE notified' = [notified EXCEPT ![i] = @ + 1] /\ UNCHANGED raised
  BY <1>1, <1>2 DEF TypeOK, NotifiedOnce
<1>3. CASE UNCHANGED notified /\ raised' = "observer"
  BY <1>1, <1>3 DEF TypeOK, NotifiedOnce
<1> QED
  BY <1>2, <1>3 DEF Notify

\* Every step of parent and executor keeps it.
LEMMA NextIInv == TypeOK /\ IInv /\ [Next]_vars => IInv'
<1> SUFFICES ASSUME TypeOK, IInv, [Next]_vars PROVE IInv'
  OBVIOUS
<1> USE DEF TypeOK, IInv, RetryOnlyLost, NoCaseLost, NotifiedOnce, CrashTolerance, Books, FutureBooks,
            WindowBooks, BatchBooks, SomethingToRetry, Outstanding, Looping,
            Cases, None, Running, Store, Notify, Raise, FutureStates
<1>1. CASE SerialCase
  BY <1>1 DEF SerialCase
<1>2. CASE SerialDone
  <2>1. results = 0 .. NumCases - 1
    BY <1>2 DEF SerialDone
  <2>2. pc' = "returned" /\ UNCHANGED raised
    BY <1>2, <2>1, NoHoles DEF SerialDone, ReturnResults
  <2> QED
    BY <1>2, <2>1, <2>2 DEF SerialDone
<1>3. CASE SubmitCase
  BY <1>3 DEF SubmitCase
<1>4. CASE SubmitRefused
  BY <1>4 DEF SubmitRefused
<1>5. CASE GeneratorRaises
  BY <1>5 DEF GeneratorRaises
<1>6. CASE SubmitDone
  BY <1>6, FullWindow DEF SubmitDone, InFlightLimit
<1>7. CASE WaitReturns
  BY <1>7 DEF WaitReturns
<1>8. CASE DrainedAndReturn
  <2>1. results = 0 .. NumCases - 1
    BY <1>8 DEF DrainedAndReturn
  <2>2. pc' = "returned" /\ UNCHANGED raised
    BY <1>8, <2>1, NoHoles DEF DrainedAndReturn, ReturnResults
  <2> QED
    BY <1>8, <2>1, <2>2 DEF DrainedAndReturn
<1>9. CASE CollectDone
  BY <1>9 DEF CollectDone
<1>10. CASE AbortExit
  BY <1>10 DEF AbortExit
<1>11. CASE UnwindExit
  BY <1>11 DEF UnwindExit
<1>12. CASE StartRetry
  <2>1. RetryCases # {}
    BY <1>12 DEF StartRetry, RetryCases
  <2>2. pc' = "retry" /\ UNCHANGED raised
    BY <1>12, <2>1 DEF StartRetry
  <2>3. batch' = RetryCases /\ inFlight' = {}
    BY <1>12 DEF StartRetry
  <2> QED
    BY <1>12, <2>2, <2>3 DEF StartRetry, RetryCases
<1>13. CASE ResumeParallel
  BY <1>13 DEF ResumeParallel
<1>14. CASE RetriedLastCases
  <2>1. results = 0 .. NumCases - 1
    BY <1>14 DEF RetriedLastCases
  <2>2. pc' = "returned" /\ UNCHANGED raised
    BY <1>14, <2>1, NoHoles DEF RetriedLastCases, ReturnResults
  <2> QED
    BY <1>14, <2>1, <2>2 DEF RetriedLastCases
<1>15. ASSUME NEW i \in Cases, CollectResult(i) PROVE IInv'
  BY <1>15 DEF CollectResult
<1>16. ASSUME NEW i \in Cases, CollectException(i) PROVE IInv'
  BY <1>16 DEF CollectException
<1>17. ASSUME NEW i \in Cases, HarvestResult(i) PROVE IInv'
  <2>1. /\ i \in inFlight /\ i \notin results /\ i < nextCase /\ raised = "none"
        /\ future[i] = "ok" /\ pc = "harvest" /\ batch' = batch \ {i}
        /\ Store(i) /\ Notify(i, "harvest", "failed")
        /\ UNCHANGED <<nextCase, exhausted, pool, pools, future, inFlight, refused>>
    BY <1>17 DEF HarvestResult, Earliest
  <2>2. NotifiedOnce'
    BY <2>1, NotifyOnce
  <2>3. CASE pc' = "harvest" /\ UNCHANGED raised
    <3>1. NoCaseLost' /\ FutureBooks'
      BY <2>1, <2>3
    <3>2. WindowBooks'
      BY <2>1, <2>3
    <3>3. BatchBooks' /\ SomethingToRetry' /\ RetryOnlyLost'
      BY <2>1, <2>3
    <3> QED
      BY <2>2, <2>3, <2>1, <3>1, <3>2, <3>3
  <2>4. CASE pc' = "failed" /\ raised' = "observer"
    BY <2>1, <2>2, <2>4
  <2> QED
    BY <2>1, <2>3, <2>4
<1>18. ASSUME NEW i \in Cases, HarvestException(i) PROVE IInv'
  BY <1>18 DEF HarvestException
<1>19. ASSUME NEW i \in Cases, RetryCase(i) PROVE IInv'
  <2>1. /\ i \in batch /\ i \notin results /\ i < nextCase /\ raised = "none"
        /\ future[i] \notin {"running", "error"} /\ pc = "retry" /\ batch' = batch \ {i}
        /\ UNCHANGED <<nextCase, exhausted, pool, pools, future, inFlight, refused>>
    BY <1>19 DEF RetryCase, Earliest
  <2>2. CASE Store(i) /\ Notify(i, "retry", "failed")
    <3>1. NotifiedOnce'
      BY <2>1, <2>2, NotifyOnce
    <3>2. CASE pc' = "retry" /\ UNCHANGED raised
      <4>1. NoCaseLost' /\ FutureBooks'
        BY <2>1, <2>2, <3>2
      <4>2. WindowBooks'
        BY <2>1, <2>2, <3>2
      <4>3. BatchBooks' /\ SomethingToRetry' /\ RetryOnlyLost'
        BY <2>1, <2>2, <3>2
      <4> QED
        BY <2>1, <3>1, <3>2, <4>1, <4>2, <4>3
    <3>3. CASE pc' = "failed" /\ raised' = "observer"
      BY <2>1, <2>2, <3>1, <3>3
    <3> QED
      BY <2>2, <3>2, <3>3
  <2>3. CASE Raise("worker", "failed") /\ UNCHANGED <<results, notified>>
    BY <2>1, <2>3
  <2> QED
    BY <1>19, <2>2, <2>3 DEF RetryCase
<1>20. ASSUME NEW i \in Cases, WorkerFinishes(i) PROVE IInv'
  BY <1>20 DEF WorkerFinishes
<1>21. ASSUME NEW i \in Cases, FutureBroken(i) PROVE IInv'
  BY <1>21 DEF FutureBroken
<1>22. CASE PoolBreaks
  BY <1>22 DEF PoolBreaks
<1>23. CASE UNCHANGED vars
  BY <1>23 DEF vars
<1> QED
  BY <1>1, <1>2, <1>3, <1>4, <1>5, <1>6, <1>7, <1>8, <1>9, <1>10, <1>11, <1>12, <1>13, <1>14, <1>15, <1>16, <1>17, <1>18, <1>19, <1>20, <1>21, <1>22, <1>23 DEF Next, Parent, Executor

\* The invariant in all reachable states.
THEOREM Invariance == Spec => [](TypeOK /\ IInv)
<1>1. TypeOK /\ IInv /\ [Next]_vars => IInv'
  BY NextIInv
<1> QED
  BY <1>1, InitIInv, Typing, PTL DEF Spec

-----------------------------------------------------------------------------
(* What follows from the invariant, for every NumCases and maxWorkers       *)

\* No generated case is ever lost, whatever crashes.
THEOREM NoLoss == Spec => []NoCaseLost
<1>1. TypeOK /\ IInv => NoCaseLost
  BY DEF IInv
<1> QED
  BY <1>1, Invariance, PTL

\* The observer hears of each case at most once, and of every stored result.
THEOREM AtMostOnce == Spec => []NotifiedOnce
<1>1. TypeOK /\ IInv => NotifiedOnce
  BY DEF IInv
<1> QED
  BY <1>1, Invariance, PTL

\* Only a complete, fully reported list is returned.
THEOREM Completeness == Spec => []ReturnedComplete
<1>1. TypeOK /\ IInv => ReturnedComplete
  BY DEF TypeOK, IInv, Books, FutureBooks, NotifiedOnce, ReturnedComplete
<1> QED
  BY <1>1, Invariance, PTL

\* The `raise` of a BrokenProcessPool is dead code, and so is a KeyError.
THEOREM CrashesTolerated == Spec => []CrashTolerance
<1>1. TypeOK /\ IInv => CrashTolerance
  BY DEF IInv
<1> QED
  BY <1>1, Invariance, PTL

\* Nothing whose outcome reached the parent is verified again.
THEOREM NoSecondRun == Spec => []RetryOnlyLost
<1>1. TypeOK /\ IInv => RetryOnlyLost
  BY DEF IInv
<1> QED
  BY <1>1, Invariance, PTL

-----------------------------------------------------------------------------
(* Counting: the window and the number of pools                             *)

\* The sets of cases the parent keeps are finite.
LEMMA FiniteBooks ==
  ASSUME NEW S \in SUBSET Cases PROVE IsFiniteSet(S) /\ Cardinality(S) \in Nat
<1>1. IsFiniteSet(Cases)
  BY FS_Interval DEF Cases
<1> QED
  BY <1>1, FS_Subset, FS_CardinalityType

\* A run keeps its number of workers.
LEMMA SameWorkers == [Next]_vars => UNCHANGED maxWorkers
BY DEF Next, Parent, Executor, vars, SerialCase, SerialDone, SubmitCase,
       SubmitRefused, GeneratorRaises, SubmitDone, WaitReturns, DrainedAndReturn,
       CollectDone, AbortExit, UnwindExit, StartRetry, ResumeParallel,
       RetriedLastCases, CollectResult, CollectException, HarvestResult,
       HarvestException, RetryCase, WorkerFinishes, FutureBroken, PoolBreaks

\* Results are only ever added.
LEMMA ResultsGrow ==
  ASSUME TypeOK, TypeOK', [Next]_vars
  PROVE  Cardinality(results) <= Cardinality(results') /\ Cardinality(results) \in Nat
<1>1. results \subseteq results'
  BY DEF Next, Parent, Executor, vars, Store, SerialCase, SerialDone, SubmitCase,
         SubmitRefused, GeneratorRaises, SubmitDone, WaitReturns, DrainedAndReturn,
         CollectDone, AbortExit, UnwindExit, StartRetry, ResumeParallel,
         RetriedLastCases, CollectResult, CollectException, HarvestResult,
         HarvestException, RetryCase, WorkerFinishes, FutureBroken, PoolBreaks
<1>2. results \in SUBSET Cases /\ results' \in SUBSET Cases
  BY DEF TypeOK
<1>3. IsFiniteSet(results) /\ IsFiniteSet(results')
  BY <1>2, FiniteBooks
<1> QED
  BY <1>1, <1>3, FS_Subset, FS_CardinalityType

\* Within the window the stream is exactly the results and what is in flight.
LEMMA StreamPosition ==
  ASSUME TypeOK, NoCaseLost, pc \in {"serial", "submit"}, refused = None
  PROVE  nextCase <= Cardinality(results) + Cardinality(inFlight)
<1>1. results \cup inFlight = 0 .. nextCase - 1
  BY DEF NoCaseLost, Outstanding
<1>2. Cardinality(results \cup inFlight) = nextCase
  <2>1. nextCase \in Nat
    BY DEF TypeOK
  <2>2. Cardinality(0 .. nextCase - 1)
          = IF 0 > nextCase - 1 THEN 0 ELSE (nextCase - 1) - 0 + 1
    BY <2>1, FS_Interval
  <2>3. Cardinality(0 .. nextCase - 1) = nextCase
    BY <2>1, <2>2
  <2> QED
    BY <1>1, <2>3, Zenon
<1>3. /\ IsFiniteSet(results) /\ IsFiniteSet(inFlight)
      /\ Cardinality(results \cap inFlight) \in Nat
  BY FiniteBooks, FS_Intersection, FS_CardinalityType DEF TypeOK
<1>4. Cardinality(results \cup inFlight)
        = Cardinality(results) + Cardinality(inFlight) - Cardinality(results \cap inFlight)
  BY <1>3, FS_Union
<1>5. Cardinality(results) \in Nat /\ Cardinality(inFlight) \in Nat
  BY <1>3, FS_CardinalityType
<1> QED
  BY <1>2, <1>3, <1>4, <1>5 DEF TypeOK

\* The stream is never read more than max_workers unresolved cases ahead.
THEOREM Laziness == Spec => []WindowBound
<1>1. Init => WindowBound
  BY FS_EmptySet, SomeWorker DEF Init, WindowBound
<1>2. TypeOK /\ TypeOK' /\ IInv /\ WindowBound /\ [Next]_vars => WindowBound'
  <2> SUFFICES ASSUME TypeOK, TypeOK', IInv, WindowBound, [Next]_vars PROVE WindowBound'
    OBVIOUS
  <2>1. Cardinality(results) <= Cardinality(results') /\ Cardinality(results) \in Nat
    BY ResultsGrow
  <2>2. Cardinality(results') \in Nat
    BY FiniteBooks DEF TypeOK
  <2>3. CASE UNCHANGED nextCase
    BY <2>1, <2>2, <2>3, SameWorkers DEF WindowBound, TypeOK
  <2>4. CASE SerialCase
    <3>1. nextCase <= Cardinality(results)
      BY <2>4, <2>1, StreamPosition, FS_EmptySet
         DEF SerialCase, IInv, Books, WindowBooks, Looping
    <3> QED
      BY <2>1, <2>2, <2>4, <3>1 DEF SerialCase, WindowBound, TypeOK
  <2>5. CASE SubmitCase \/ SubmitRefused
    <3>1. Cardinality(inFlight) < maxWorkers /\ Cardinality(inFlight) \in Nat
      BY <2>5, FiniteBooks DEF TypeOK, SubmitCase, SubmitRefused, InFlightLimit
    <3>2. nextCase <= Cardinality(results) + Cardinality(inFlight)
      BY <2>5, StreamPosition DEF SubmitCase, SubmitRefused, IInv, Books, WindowBooks, Looping
    <3>3. nextCase' = nextCase + 1
      BY <2>5 DEF SubmitCase, SubmitRefused
    <3> QED
      BY <2>1, <2>2, <3>1, <3>2, <3>3, SameWorkers DEF WindowBound, TypeOK
  <2> QED
    BY <2>3, <2>4, <2>5
       DEF Next, Parent, Executor, vars, SerialDone, GeneratorRaises, SubmitDone,
           WaitReturns, DrainedAndReturn, CollectDone, AbortExit, UnwindExit,
           StartRetry, ResumeParallel, RetriedLastCases, CollectResult,
           CollectException, HarvestResult, HarvestException, RetryCase,
           WorkerFinishes, FutureBroken, PoolBreaks
<1> QED
  BY <1>1, <1>2, Invariance, PTL DEF Spec

\* A retry that has emptied its batch has resolved a case for the next pool.
RetryPaid == pc = "retry" /\ batch = {} => pools <= Cardinality(results)

\* No more pools than resolved cases, plus the first one.
THEOREM FewPools == Spec => []PoolsBounded
<1>1. Init => PoolsBounded /\ RetryPaid
  BY FS_EmptySet DEF Init, PoolsBounded, RetryPaid
<1>2. TypeOK /\ TypeOK' /\ IInv /\ PoolsBounded /\ RetryPaid /\ [Next]_vars
        => (PoolsBounded /\ RetryPaid)'
  <2> SUFFICES ASSUME TypeOK, TypeOK', IInv, PoolsBounded, RetryPaid, [Next]_vars
               PROVE  (PoolsBounded /\ RetryPaid)'
    OBVIOUS
  <2>1. Cardinality(results) <= Cardinality(results') /\ Cardinality(results) \in Nat
    BY ResultsGrow
  <2>2. Cardinality(results') \in Nat
    BY FiniteBooks DEF TypeOK
  <2> USE DEF PoolsBounded, RetryPaid, TypeOK
  <2>3. CASE ResumeParallel
    BY <2>1, <2>2, <2>3 DEF ResumeParallel
  <2>4. CASE StartRetry
    <3>1. RetryCases # {}
      BY <2>4 DEF StartRetry, RetryCases, IInv, Books, SomethingToRetry
    <3> QED
      BY <2>1, <2>2, <2>4, <3>1 DEF StartRetry
  <2>5. ASSUME NEW i \in Cases, RetryCase(i) PROVE (PoolsBounded /\ RetryPaid)'
    <3>1. i \notin results
      BY <2>5 DEF RetryCase, Earliest, IInv, Books, BatchBooks
    <3>2. CASE Store(i)
      <4>1. Cardinality(results') = Cardinality(results) + 1
        BY <3>1, <3>2, FiniteBooks, FS_AddElement DEF Store
      <4> QED
        BY <2>5, <2>1, <4>1 DEF RetryCase
    <3>3. CASE pc' = "failed"
      BY <2>1, <2>2, <2>5, <3>3 DEF RetryCase
    <3> QED
      BY <2>5, <3>2, <3>3 DEF RetryCase, Raise
  <2>6. CASE UNCHANGED pools /\ (pc' # "retry" \/ UNCHANGED <<pc, batch>>)
    BY <2>1, <2>2, <2>6
  <2>7. \A i \in Cases : CollectResult(i) \/ HarvestResult(i) =>
            UNCHANGED pools /\ pc' # "retry"
    BY DEF CollectResult, HarvestResult, Notify
  <2> QED
    BY <2>3, <2>4, <2>5, <2>6, <2>7
       DEF Next, Parent, Executor, vars, Raise, Notify, ReturnResults, SerialCase,
           SerialDone, SubmitCase, SubmitRefused, GeneratorRaises, SubmitDone,
           WaitReturns, DrainedAndReturn, CollectDone, AbortExit, UnwindExit,
           RetriedLastCases, CollectException, HarvestException,
           WorkerFinishes, FutureBroken, PoolBreaks
<1> QED
  BY <1>1, <1>2, Invariance, PTL DEF Spec

-----------------------------------------------------------------------------
(* Refinement: the runner is a windowed case stream                         *)

\* The instance counts with the same Cardinality.
LEMMA SameCardinality == ASSUME NEW S PROVE Stream!Cardinality(S) = Cardinality(S)
BY DEF Stream!Cardinality, Cardinality, Stream!IsFiniteSet, IsFiniteSet

\* Until an observer raises, what was reported is what has a result.
LEMMA ReportedAreResults ==
  ASSUME TypeOK, NotifiedOnce, raised # "observer" PROVE Stream!Reported = results
<1>1. results \subseteq Cases /\ notified \in [Cases -> Nat]
  BY DEF TypeOK
<1>2. \A i \in Cases : notified[i] > 0 <=> i \in results
  BY <1>1 DEF NotifiedOnce
<1> QED
  BY <1>1, <1>2 DEF Stream!Reported, Stream!Cases, Cases

\* A successful notification of a windowed case is a Report of the stream.
LEMMA NotifyReports ==
  ASSUME TypeOK, NotifiedOnce, raised = "none", pc \notin {"returned", "failed"},
         NEW i \in Cases, i \notin results, i < Cardinality(results) + maxWorkers,
         UNCHANGED maxWorkers,
         notified' = [notified EXCEPT ![i] = @ + 1], pc' \notin {"returned", "failed"}
  PROVE  Stream!Report(i)
<1>1. notified[i] = 0
  BY DEF TypeOK, NotifiedOnce
<1>2. i < Cardinality(Stream!Reported) + maxWorkers
  BY ReportedAreResults
<1>3. notified' = [notified EXCEPT ![i] = 1]
  BY <1>1 DEF TypeOK
<1> QED
  BY <1>1, <1>2, <1>3, SameCardinality DEF Stream!Report

\* A step that reports nothing maps to a Raise or a stutter of the stream.
LEMMA QuietStep ==
  ASSUME UNCHANGED <<maxWorkers, notified>>, pc \notin {"returned", "failed"},
         pc' # "returned"
  PROVE  Stream!Raise \/ UNCHANGED Stream!vars
BY DEF Stream!Raise, Stream!vars

\* Storing, then telling the observer, maps to a Report or a Raise.
LEMMA StoreAndNotify ==
  ASSUME TypeOK, NotifiedOnce, raised = "none", pc \notin {"returned", "failed"},
         NEW i \in Cases, i \notin results, i < Cardinality(results) + maxWorkers,
         NEW onward \in ParentStates \ {"returned", "failed"},
         NEW outward \in ParentStates \ {"returned"}, UNCHANGED maxWorkers,
         Notify(i, onward, outward)
  PROVE  [Stream!Next]_(Stream!vars)
<1>1. CASE notified' = [notified EXCEPT ![i] = @ + 1] /\ pc' = onward
  <2>1. Stream!Report(i)
    BY <1>1, NotifyReports
  <2> QED
    BY <2>1 DEF Stream!Next, Stream!Cases, Cases
<1>2. CASE UNCHANGED notified /\ pc' = outward
  BY <1>2, QuietStep DEF Stream!Next
<1> QED
  BY <1>1, <1>2 DEF Notify

\* Every behaviour of the runner is one of the case stream.
THEOREM StreamRefinement == Spec => Stream!Safety
<1>1. Init => Stream!Init
  BY SomeWorker DEF Init, Stream!Init, Stream!Cases, Cases
<1>2. TypeOK /\ IInv /\ IInv' /\ TypeOK' /\ WindowBound /\ [Next]_vars
        => [Stream!Next]_(Stream!vars)
  <2> SUFFICES ASSUME TypeOK, IInv, IInv', TypeOK', WindowBound, [Next]_vars
               PROVE  [Stream!Next]_(Stream!vars)
    OBVIOUS
  <2>0. NotifiedOnce /\ Cardinality(results) \in Nat /\ UNCHANGED maxWorkers
    BY FiniteBooks, SameWorkers DEF IInv, TypeOK
  <2>1. CASE SerialCase
    <3>1. CASE UNCHANGED notified /\ pc' = "failed"
      BY <2>0, <2>1, <3>1, QuietStep DEF SerialCase, Stream!Next
    <3>2. CASE Notify(nextCase, "serial", "failed")
      <4>1. nextCase <= Cardinality(results)
        BY <2>1, <2>0, StreamPosition, FS_EmptySet
           DEF SerialCase, IInv, Books, WindowBooks, Looping
      <4>2. nextCase \in Cases /\ nextCase \notin results /\ raised = "none"
        BY <2>1 DEF SerialCase, IInv, Books, WindowBooks, TypeOK, Cases
      <4>3. nextCase < Cardinality(results) + maxWorkers
        BY <4>1, <2>0 DEF TypeOK
      <4> QED
        BY <2>0, <2>1, <3>2, <4>2, <4>3, StoreAndNotify DEF SerialCase, ParentStates
    <3> QED
      BY <2>1, <3>1, <3>2 DEF SerialCase, Raise
  <2>2. ASSUME NEW i \in Cases, CollectResult(i) \/ HarvestResult(i) \/ RetryCase(i)
        PROVE  [Stream!Next]_(Stream!vars)
    <3>1. /\ i \notin results /\ i < nextCase /\ raised = "none"
          /\ pc \in {"collect", "harvest", "retry"}
      BY <2>2 DEF CollectResult, HarvestResult, RetryCase, Earliest, IInv, Books,
                  WindowBooks, BatchBooks, NoCaseLost, Outstanding, TypeOK
    <3>2. i < Cardinality(results) + maxWorkers
      BY <3>1, <2>0 DEF WindowBound, TypeOK, Cases
    <3>3. CASE UNCHANGED notified /\ pc' = "failed"
      BY <2>0, <3>1, <3>3, QuietStep DEF Stream!Next
    <3>4. CASE \/ Notify(i, "collect", "abort")
               \/ Notify(i, "harvest", "failed")
               \/ Notify(i, "retry", "failed")
      BY <2>0, <3>1, <3>2, <3>4, StoreAndNotify DEF ParentStates
    <3> QED
      BY <2>2, <3>3, <3>4 DEF CollectResult, HarvestResult, RetryCase, Raise
  <2>3. CASE pc \notin {"returned", "failed"} /\ pc' = "returned" /\ UNCHANGED notified
    <3>1. results' = Cases /\ raised' = "none" /\ NotifiedOnce'
      BY <2>3 DEF IInv, Books
    <3>2. Stream!Reported' = Cases
      BY <3>1 DEF NotifiedOnce, Stream!Reported, Stream!Cases, Cases, TypeOK
    <3>3. Stream!Reported = Stream!Reported'
      BY <2>3 DEF Stream!Reported, Stream!Cases
    <3> QED
      BY <2>0, <2>3, <3>2, <3>3 DEF Stream!Return, Stream!Next, Stream!Cases, Cases
  <2>4. CASE pc \notin {"returned", "failed"} /\ UNCHANGED notified
    BY <2>0, <2>3, <2>4, QuietStep DEF Stream!Next
  <2>5. CASE UNCHANGED <<pc, notified>>
    BY <2>0, <2>5 DEF Stream!vars
  <2> QED
    BY <2>1, <2>2, <2>4, <2>5
       DEF Next, Parent, Executor, vars, SerialDone, SubmitCase, SubmitRefused,
           GeneratorRaises, SubmitDone, WaitReturns, DrainedAndReturn, CollectDone,
           AbortExit, UnwindExit, StartRetry, ResumeParallel, RetriedLastCases,
           CollectException, HarvestException, WorkerFinishes, FutureBroken, PoolBreaks
<1> QED
  BY <1>1, <1>2, Typing, Invariance, Laziness, PTL DEF Spec, Stream!Safety
=============================================================================
