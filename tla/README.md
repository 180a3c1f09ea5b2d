# Formal models of zolotone

zolotone describes fixed- and floating-point hardware as typed Python graphs and
checks them against golden specifications written as real and Boolean
expressions.  This directory holds TLA+ models of the parts of it that schedule,
split, simplify, rewrite, decide, report, round, generate implementations and
generate C++; TLC configurations that check them on small instances; and TLAPS
proofs of the properties that matter most.

Every definition follows the Python source.  `PROJECT.json` says, for each
definition, which lines it stands for; a definition marked *external* stands for
code outside the repository (the Rival machine, the egglog engine, a C++
compiler's arithmetic, a worker process) and is written from how the repository
uses it.  Operators whose comment starts with `Bug:` are
deliberately wrong variants of their neighbour.  They belong to no specification;
substituting one shows that the property listed with it in `PROJECT.json` notices
the difference.

## 1. Inventory

### 1.1 Components, their state and their operations

| Component | Code | State | Operations |
| --- | --- | --- | --- |
| Parallel verification runner | `zolotone/solver/parallel_verification.py` | lazy case stream, window of futures, results by index, executor | submit, collect, harvest a broken pool, retry serially, open a fresh pool |
| Design run coordinator | `infra/run_designs.py`, `infra/docker_run_designs.py` | process group of one check, its result file and journal, JSON report, page | spawn, wait, time out, interrupt, suspend, clean up, publish, render |
| Solver engine | `zolotone/solver/engine.py`, `solver/report.py` | schedule step, parallel lists of tracks and contexts | run a tool on a track, branch, decide, give up |
| Equivalence check | `zolotone/ast/nodes.py`, `solver/case_split.py` | chosen partition, guards, batch of cases, verdicts | validate, choose a side, derive guards, verify, refine, fall back, report |
| Typed domain analysis | `zolotone/rival/analysis.py` (first half) | stack of boxes of codes, bounds, reachability | evaluate a box, discharge, bisect, end |
| Context simplification | `zolotone/spec/spec_context.py`, `spec/spec_ast.py` | context, facts and their anchors, contexts seen | fold, learn, substitute, pass, trim, decide |
| Rectangles and context trimming | `zolotone/rival/analysis.py` (second half) | sets of boxes, contributors | extract, intersect, limit, search, rewrite what is proven |
| Encoders and converters | `zolotone/components/*`, `types/*`, `spec/custom_specs/*`, `examples/converters` | one code on its way along a data path | decode, shift, round, encode, select |
| Arithmetic designs | `examples/arithmetic` | decoded operands, the terms of a sum | decode, align, add or multiply, call an encoder, select |
| Rival machines, native bridge | `zolotone/rival/machine.py`, `crates/rival_bridge` | compiled machine, hints | compile, evaluate a box |
| Specification language | `zolotone/spec/*` | immutable expressions; a context's caches and name counter | construct, type, traverse, `Cases` |
| Implementation nodes, data types, operators | `zolotone/ast`, `types`, `components` | immutable typed graph | build, type check, evaluate, fingerprint |
| Implementation generator | `zolotone/autogen` | table of candidates, caches of matches and attempts, best result | expand, simplify, tighten, validate, try components, build tables, attach conditions |
| E-graph rewriting | `zolotone/egglog` | an e-graph per call | register, saturate, discharge, extract |
| C++ generation | `zolotone/codegen` | functions emitted, names taken, helpers by fingerprint and by text | lower, inline, share, link, wrap |
| SMT backends | `zolotone/smt` | none between calls | translate, ask Z3 or dReal |
| Pages, other examples | `infra/make_designs_html.py`, `examples` | none | print |

### 1.2 How they interact

    run_designs --(process group, files, signals)--> check_design
      check_design --> check_determinism / check_spec = check_equivalence of nodes.py
        --> run_equivalence_cases --(cases)--> run_verification_cases --(workers)-->
              check_equivalence of engine.py --(context)--> simplify, egglog, Z3, dReal
                simplify --> _simplify_with_convergence <--> rival_trim_context
                egglog_rewrite --> rules, e-graph
    Autogenerate --> analyze_typed_domain, rival_prove_result_fits --> Rival machine
      Autogenerate --(graph)--> emit_cpp <--(graph)-- designs written by hand

The interfaces at which one model assumes what another establishes:

- `EquivalenceCheck` verifies a case in one step, by any of the answers that
  `Obligations!SoundAnswers` holds.  `SoundSolver` is this promise as a specification
  (one question, one sound answer, eventually), and `SolverEngine` implements it
  (`ImplementsSolver`): what the one takes for a step is what the other does in many.
- `SolverEngine` lets the tool *simplify* rewrite a context to any other with the
  same models that asks the same question, and answer anything sound; that is
  `NoModelLost`, `NoModelGained` and `VerdictSound` of `SimplifyWithRival`.  It lets
  `egglog` do the same: `EgglogRewrite` runs both tools in turns, each on what the other
  left, and the same properties hold over the whole schedule.
- `SimplifyContext`, `SimplifyWithRival` and `EgglogRewrite` take the operators on terms,
  boxes and e-graphs as parameters and rely on what `RewritingSound` says of them, at
  every step; the operators of `TermRewriting`, `RivalRects` and `EGraph`, which the run
  puts in these places, keep it there.
- `LoweringSearch` takes it that Rival's answer on a range is right or missing;
  that is `FitAnswerSound` and `BoundsEnclose` of `TypedDomain`.
- What `CppEmitter` calls the meaning of a graph is the evaluation of `NodeGraph`,
  whose operators are those the generator and the converters are built from
  (`FixedPoint`).
- `EquivalenceCheck` verifies the cases of a batch one at a time because their
  results are independent of each other; that concurrency and dying workers lose
  or duplicate none is the matter of `ParallelVerification`.
- `DesignReport` takes what a check comes back with from `DesignOutcomes`, which
  `DesignProcess` produces.
- `Arithmetic` calls the encoders of `Converter`: it gives one a sign, an exponent and a
  significand and lets the steps of `Converter` run; that what it gives is something the
  encoder takes (`EncoderAssumption`, `WidthAssumption`) is proved for every operand.
- The assumptions of `CustomSpecs` are what the verifier knows about the inputs
  and results of the designs; `Converter` tests them against the bit-level code.

### 1.3 What is hard

- *Concurrency and failure*: workers die at any moment and break the whole pool;
  futures of one window finish in any order; signals arrive during cleanup.
- *Files as the only channel*: a result written by a process that may be killed
  while it writes; a journal with a torn last line; a report rewritten in place.
- *Soundness across layers*: a verdict is obtained on the last of a chain of
  rewritten contexts and claimed for the first; a case is replaced by its
  refinements; a fact rewrites the very assumption it comes from.
- *One-sided approximations*: interval evaluation may be inconclusive, too many
  boxes are replaced by none, a solver may time out.
- *Numbers*: subnormal boundary, carries into the exponent, double rounding,
  formats without infinity, two's complement codes at odd bisection points; C++
  operands that are promoted, shifted by their full width or wider than the word.
- *Caches*: attempts remembered with a cost that has since become cheaper, helpers
  shared by a fingerprint, names given back while calls to them exist.
- *Conditional rewriting*: a rule whose premise is too weak proves falsehoods; a
  fact derived by one tool is used by the next to rewrite what it came from.

`PROJECT.json` lists these hazards line by line, with the properties that cover
them.  Some are left to this page because no model of theirs would say more than
the code does:

- Outside the region of `_manage_design_process_signals`, SIGTERM kills the
  coordinator; an interrupt between `Popen` and its `try` leaves the group running.
- A check that dies after writing "passed" has a failed worker and a passed report.
- A check killed while it writes `result.json` leaves a truncated file, and reading it
  raises `JSONDecodeError` out of the whole run (section 5).
- Constants are folded in Python floats (section 5).
- Splitting a real box between consecutive floats (`analysis.py:1002`) would lose the
  reals between them; nothing outside the unit tests searches with `max_depth` > 0.
- `CheckResult.to_json` is keyed by the name of a case; equal names would collide.
- dReal answers *delta-sat*, which is reported as `sat`: a false alarm, never a
  false proof.
- After an interrupt in the middle of rewriting the report, no new page is made,
  although README.md:303 of the repository promises one.

### 1.4 What makes each component correct

| Component | Properties (module) |
| --- | --- |
| Runner | `NoCaseLost`, `CrashTolerance`, `PoolsBounded`, `Terminates`, `ImplementsStream` (ParallelVerification); proved besides: `NotifiedOnce`, `ReturnedComplete`, `WindowBound` |
| Coordinator, one check | `GroupCleaned`, `PassedIsProved`, `ProgressRetained`, `Terminates` (DesignProcess) |
| Coordinator, whole run | `ProgressOnDisk`, `DesignsFullyChecked`, `ExitTellsTruth` (DesignReport) |
| Engine | `AnswerSound`, `TraceChained`, `UnknownMeansExhausted`, `ImplementsSolver` (SolverEngine) |
| Equivalence check | `PartitionSound`, `AnswersStand`, `EveryPointReported`, `FallbackSound` (EquivalenceCheck) |
| Typed domains | `FitAnswerSound`, `BoundsEnclose`, `ComplaintsAreReal`, `Terminates` (TypedDomain) |
| Simplification | `NoModelLost`, `NoModelGained`, `VerdictSound`, `Saturates` (SimplifyWithRival) |
| Terms, boxes, E-graph rewriting | `RewritingSound` (EgglogRewrite): `TermsSound`, `BoxesSound`, `ClassesAgree`, `AnswersAgree`; and the four above |
| Converters, arithmetic designs | `DesignsAsSpecified` (Arithmetic): `AsDocumented` of the converters and encoders, `ArithmeticAsSpecified`; `RoundTrip`, `InputsCovered`, `SpecHonoured` (Converter); proved besides: `ConverterTyped`, `NumbersRoundedAsDocumented`, `ObservablesDecide` |
| Generator | `CandidatesExact`, `Settled` (LoweringSearch), `ResultAsSpecified`, `ConditionsAsSpecified`, `RoundsImprove` (Autogenerate) |
| C++ generation | `ComputesTheDesign`, `WellLinked` (CppEmitter) |

## 2. The models

### ParallelVerification, CaseStream

`ParallelVerification` is `run_verification_cases` from its call to its return:
`pc` is the position of the parent process, `future[i]` the status of the one
submission of case `i`, `inFlight`, `refused`, `results` and `batch` are the local
variables of those (or similar) names.  `Resolve` chooses serial or parallel;
`SubmitCase`, `CollectResult`, `HarvestResult`, `RetryCase` and their failing
variants are the iterations of the four loops; `WorkerFinishes`, `PoolBreaks` and
`FutureBroken` are the executor.  Worker death is unbounded and may hit between
any two steps; the exceptions of the case generator, of `verify_case` and of the
observer are nondeterministic.  `CaseStream` is the abstract specification: a
lazy stream, each case reported at most once and never more than a window ahead,
until the run returns or raises.  `ImplementsStream` is the refinement.

### DesignProcess, DesignReport, DesignOutcomes

`DesignProcess` is `_run_design_subprocess` for one check: spawn in a session of
its own, wait under a timeout and under signal handlers, SIGTERM, grace period,
SIGKILL, reap, read `result.json` or, where there is none, the journal line by line.
The check and its descendants are an environment that works, hangs, crashes, ignores
SIGTERM, is stopped or writes half a file.  What the check works on is modelled as far
as its files tell of it: it verifies the coarse cases, then the refinements of those left
open, keeps the results in memory, and journals each; a line is torn until it is flushed,
and only then does `case_completed` return.  The result file is what the check makes of
its memory when it concludes, and what it reads in its own journal when it fails.
`ProgressRetained` relates the two ends: whichever way the coordinator learnt the cases, they are
the results the check had, and no case is missing whose `case_completed` had returned,
unless all its refinements stand for it.  `DesignReport` is the loop over designs: two checks each, a
report truncated and rewritten after each design, an interrupt anywhere, and the
Docker coordinator that renders what it finds and exits with a status.

### SolverEngine, SoundSolver, Obligations

A context is seen through two sets of points: those its assumptions admit and
those its checks hold at.  Each tool may return any report that is *sound*;
`simplify` and `egglog` may rewrite, and several reports of one call open several
tracks.  The engine around them (zip over tracks and contexts, first decisive
report wins, first trace when the schedule is exhausted) is exact.  `SoundSolver` is
the abstract specification; the refinement mapping shows the answer once the engine
is done and nothing before.

### EquivalenceCheck

Two specifications of one design are two functions from points to outputs with a
domain each, and possibly the ordered `Cases` that build them.  The actions are
the phases of the code: validation, choice of a side to partition, derivation of
effective guards (a branch is reached where no earlier one matched), coarse cases,
verification of a batch, refinement of what stayed `unknown` by the classes of
the inputs that the guard mentions (or of all inputs when its condition mentions
none), the exhaustive fallback, and the report.

### TypedDomain

`analyze_typed_domain` and `rival_prove_result_fits` over integer codes.  A
specification is what its expressions are worth at each point; the machine may
say of a box only what holds at all its points, and of a box of several points it
may always say nothing.  Each action is one branch of the loop body in the code's
order: assumptions, checks, output, bisection of the widest side.

### SpecTerms, TermRewriting, SimplifyContext, RivalRects, SimplifyWithRival

- `SpecTerms`: the constructors of terms and one step of everything that works on
  them: what an operation computes, one level of folding.
- `TermRewriting`: what the code does by recursion on a term: its value,
  `_constant_fold`, `substitute_literals`, the conjuncts of an assumption.
- `SimplifyContext`: `_simplify_with_convergence`.  A pass rewrites each
  assumption by the facts that others state (a fact may not rewrite its anchor,
  the first assumption to state it) and by what the rewritten ones state, then
  the checks; passes end at a fixpoint, at a conflict (`PoorSpec`) or at the
  iteration limit.  The operators of `TermRewriting` are its parameters (`ValueOf`,
  `ConstantFolded`, `Substituted`, `ConjunctsOf`, `SplitOf`), so that it can be proved
  about: they are recursive, and the prover does not accept recursion.
- `RivalRects`: the interval arithmetic of the native machine (external); `normalize_ctx`, extraction and intersection of boxes with the
  limit on their number, `rival_feasibility_check` as `simplify_ctx` calls it
  (`max_depth=0`, hence no splitting), and `rival_trim_context` with the rewriting of
  proven expressions.
- `SimplifyWithRival`: `_simplify_with_rival` and the verdict of `simplify_ctx`.
  It extends `SimplifyContext` and takes its steps within each pass; `Trimmed` and
  `RivalAnswer` are parameters, for which the run gives those of `RivalRects`.

The definitions were compared with the Python functions on 3,633 contexts (with
the native machine replaced by the interval evaluation of `RivalRects`): verdict,
resulting context and way of ending agree on every one.

Not modelled here: rounding, functions of analysis and with them partial functions
and domain errors; literals that are no floats, which the code rounds outwards; the
splitting of boxes.  Powers are terms of the e-graph only.

What the parameters promise is stated where they are used.  `TermsSound`: folding and
substitution keep what a term is worth wherever the facts used hold, literals are worth
themselves, and a split assumption holds where its conjuncts do.  `BoxesSound`: trimming
keeps the context, in the sense of `Keeps`, and "not feasible" means that no model is
left.  `Keeps(old, new)` is what every tool owes its caller: what `old` allows `new`
allows, and there the checks of the one are worth what those of the other are.

### RewriteRules, EGraph, EgglogRewrite

`RewriteRules` is the rule table of the proof e-graphs, each rule a set of premises
and a set of equations: the rewrites, the facts about signs, bounds and powers, the
gates of bits, the monotone comparisons, and the folding of numerals.  `EGraph`
(external) is what egglog does with it: classes of nodes named by a term, closure
under congruence, one round of all matches, extraction of the cheapest terms.
`EgglogRewrite` is `egglog_rewrite`, with the operators of `EGraph` as parameters: a context is registered, its assumptions
become unions, iterations run until the checks hold or the limit is met, checks that
hold are moved to the assumptions and the others replaced by a cheapest equal (any
of them).  It extends `SimplifyWithRival` with a schedule, so that a derived fact goes
back through `simplify`, the place where a fact could rewrite its own support.
`ClassesAgree` evaluates every class exactly, in the rational arithmetic of
`RealTerms`, powers of negative exponents included; `AnswersAgree` says the same of the
checks discharged and of the terms extracted.

### Components, RealTerms, LoweringSearch, Autogenerate

- `RealTerms`: exact rational values of expressions, reciprocals, explicit roundings;
  `normalize_ctx` and the folding of literals over them.
- `Components`: the lossless components of `zolotone/components/__init__.py`, each
  with what it accepts, what its specification returns, and what it computes.
- `LoweringSearch`: `_LoweringSearch` and the lookup tables of `missing.py`.  `search`
  is its table of candidates with the caches of matches, attempts and tables, the
  probe count, the best result; `phase` alternates between a round of components
  (`AddComponentCandidates`) and one of tables (`AddLutCandidates`) until neither
  changes anything or the limit is met.
- `Autogenerate`: the stages of autogen.py around the searches.  `stage` says which
  one is next: ranges of the inputs and the shape (`GetSpec`), faithful roundings
  as choices (`ExpandFaithfulRoundings`), `Simplify`, strict conditions one
  comparison at a time (of which some need a search of their own), validation of the
  domain, the search for the result, its guard, and one search per condition.

A candidate is modelled with its payload at every assignment to the inputs, so
"exact" means equal at every point that the assumptions allow.  What simplification
may put in the place of an expression is any part of it that is worth the same
wherever the assumptions hold.  Rival answers exactly or, for the expressions a
specification calls vague, not at all.

### CppExpr, Operators, NodeGraph, CppEmitter

- `CppExpr`: data types, raw values, their C++ types, and the value of a C++
  expression: operands narrower than `int` are promoted, in the other mode `ac_int`
  arithmetic grows, and only conversions cut.
- `Operators`: the two meanings of each operation, the Python function and the C++
  text, which the source writes by hand next to each other.
- `NodeGraph`: instantiation of functions into graphs, constant folding, evaluation
  with conditions, fingerprints.
- `CppEmitter`: `emit_cpp` in both modes.  The actions are building the graph
  (`Construct`, which refuses a composite made of anything but calls), emitting (`Emit`, with
  all its caches, name allocation, inlining, redirections and wrappers inside) and a call of the program (`Call`), directly or
  through the overload that derives rounding choices from a hash.  The outcome of a
  call is a value or an assertion.

### Formats, FixedPoint, Codecs, CustomSpecs, Converter, Arithmetic

- `Formats`: the eight types, each a record of its widths and special codes; its
  predicates; magnitudes; and the reference, rounding to nearest even computed on the
  number.
- `FixedPoint`: the unsigned and signed operators on codes of a given width.
- `Codecs`: the routines of `rounding_routines.py`, the decoders, the fields each encoder
  chooses and what it packs of them (`X_encoded`).
- `CustomSpecs`: what the verifier is told of each format: the assumptions of `fresh()`
  and `encode()`, the class bits and value that packed fields get (`X_pack_spec`), the
  special values a specification can name and when (`X_specials`, `X_kind`), the
  observables an equivalence check compares, the value a constant stands for in a proof
  (`X_to_spec_value`), and what decoding is specified to give (`X_decode_spec`).
- `Converter`: one code moves Primitive by Primitive along the fourteen converters (and
  back), and two encoders are driven directly, on nodes of any contents.
- `Arithmetic`: the adders and multipliers of BFloat16 and Float32, those of scaled E2M1
  numbers, and the rectifier.  A design decodes its operands, forms and aligns two terms
  or multiplies exactly, and then `Converter` runs on what its encoder is given; the
  multiplexers come last.  `SpecifiedBy` is the specification each design carries: the
  cases in their order, and the exact sum or product, rounded by the rule of the encoders.

Reals are dyadic integers over a common scale.  2,100 conversions, and 2,800
results of the seven arithmetic designs, Float32 ones included, were compared with the
Python code without a difference.  `InputsCovered` confronts the two
descriptions of every input code, the bit-level one and the verifier's; the one
difference allowed is that any NaN constant stands in a proof for the NaN its
specification names, and which the observables do not tell apart: Float16, BFloat16 and
Float32 name the one with mantissa 1, where `NaN()` sets the upper bit; E5M2 names the one
with mantissa 2, the code `NaN()` gives.

## 3. The runs

| Run | Instance | Shows |
| --- | --- | --- |
| `parallel` | 5 cases; settings and CPU counts from {0, 1, 3}, so serial or 3 workers | no case lost, crashes tolerated, few pools, an end, the abstract stream |
| `design_process` | 2 coarse cases with a refinement each, 3 interrupts or suspensions | cleanup, honest verdicts, progress kept, no hang |
| `design_process_CleanAfterFailure` | 1 case, 1 interrupt | *violated*: a check that dies by itself leaves its workers running |
| `design_report` | 2 designs, 2 interrupts | report and exit status |
| `solver_engine` | 1 point, up to 2 reports per call, schedules of up to 3 tools | sound answer, one chain of tool runs, the abstract solver |
| `equivalence` | 2 points, 3 outputs (two finite and NaN), 1 input of 2 classes, up to 3 branches | no point and no answer is lost, a proof proves |
| `equivalence_ProvedMeansEquivalent` | fallback pairs of the same | *violated*: outputs of different classes are compared in no case |
| `typed_domain` | a two-bit `Q` and a `Bool` (8 points); all points alike but for any two | right answers, termination |
| `simplify_context` | all contexts of at most 2 assumptions out of 14, and those of 3 different ones that begin with a negation, an equivalence or a conjunction, with 2 checks; models x, y in 0..3 and two Booleans; 4 boxes.  6 contexts (gates of bits, signs, bounds, derived facts) through egglog and then `simplify`, 2 with powers, and one for each rewrite, through egglog; 2 iterations | no model lost or gained, verdict right, saturation; and what the proofs suppose: folding, substitution, boxes and e-graph keep their promises |
| `convert` | all codes of the formats up to 8 bits; 16- and 32-bit codes around ties, subnormals and overflow; E4M3FN and E2M1 encoders on all wide significands and exponents -14..18; BFloat16 operands with exponents up to 20 apart, subnormal, and next to infinity; 5 scales and 6 factors of the scaled designs | documented results, exact results rounded once, round trips, specifications that say of inputs and results what the bits do |
| `generator` | 48 specifications over one or two inputs of 1 to 3 bits: one for each way through the generator, 8 that it refuses, every binary operation on operands of different sign and grid | exact candidates, right result and conditions, a fixed point, progress |
| `cpp_emitter` | 90 designs in both modes, one of which the constructors refuse: one for every operation at widths where operands and result have different C++ types, and one for each way through the emitter; all payloads of narrow types, one too great among them | the program computes the design and is linked |

Why the bounds are enough:

- *parallel*: with 5 cases and 3 workers the window is full, refills, and a
  second pool both opens and breaks; a broken window mixes finished, failed and
  lost futures with a refused submission; the stream ends before, in and after a
  retry.
- *design_process*: three signals cover one during the wait, one during the
  cleanup that follows and one during the cleanup that follows that; two cases with a
  refinement each give journals of up to four lines, in which an open case precedes its
  refinement or another's, and a complete, a torn or a missing line ends the file.
- *design_report*: two designs distinguish checks carried over from one design to
  the next; two interrupts hit a publication and the one after it.
- *solver_engine*: one point suffices because tools treat points independently; two
  reports per call, over three tools, give tracks that multiply and die.
- *equivalence*: two points give every way in which a guard, a domain or a
  class boundary separates an input from another; three branches give an entry
  that two earlier ones shadow.
- *typed_domain*: eight points in two dimensions give up to three bisections with a
  negative midpoint; two unusual points lie in one box or in two.
- *simplify_context*: three assumptions give a fact, its second statement and an
  assumption that one of them rewrites away; the limit of 4 boxes is met by
  intersections at once, and late, by boxes that only normalization reveals after
  both directions of trimming have rewritten the assumptions.  The assumptions
  bind x and y to each other so that 0..3 contains their models and
  counter-models.  The limit of 32 passes is the code's own and is not reached.
  Two iterations of the e-graph let a conditional rule fire on what another
  derived (a gate, then the arithmetic on it); every rewrite gets a context of its
  own, the one `check_rules` would ask Z3 about, with operands of either sign.
- *convert*: exponents and mantissas around each format's subnormal, overflow and
  tie thresholds, so that guard and sticky bits take every combination.  Operands of the adders differ by
  up to twice the width of a significand, so that one of them is kept whole, cut in every
  place, and reduced to its sticky bit.  The exact sums and products of Float32 are no
  machine integers, so its two designs are left to the theorem.
- *generator*: values of up to three bits separate floor from ceiling, strict from
  weak bounds and both signs; results need chains of components, a component
  above a table and a table above a component.  Three of the searches meet the
  code's own limit of 5,000 probes.
- *cpp_emitter*: widths on both sides of 8 and 16 bits, where storage types change; two
  functions of one name, copies whose names are given back, and a copy that leaves
  a caller without a callee.

Deadlock is not checked where a run of the program ends: the runner returns, a
check is reported, a search or a conversion has its result.

### Fairness

- *ParallelVerification*: weak fairness of the parent, of each worker and of the
  delivery of a broken pool to each future.  `verify_case` runs under solver
  timeouts, and `concurrent.futures` fails all pending futures of a broken pool.
  No fairness on dying: workers may die forever or never.
- *DesignProcess*: weak fairness of the coordinator alone, whose waits have
  timeouts.  The check may hang forever.
- *SolverEngine*, *TypedDomain*: weak fairness of the only process; tools and the
  machine are called with timeouts or iteration caps.
- The other specifications state no fairness and no liveness.  `SimplifyContext`
  ends by its iteration limit, and `Saturates` says that it never has to;
  `RoundsImprove` says that no round of the generator's search can repeat another.

## 4. The proofs

TLAPS checks the following for all values of the constants that satisfy the named
assumptions of the modules.  Each `*_proofs` module proves that its invariant holds
initially, is preserved by each action (one step per action), and implies the
property.

- **ParallelVerification_proofs** (`NumCases` a natural number, `Counts` integers).
  `IInv` conjoins the properties and the *books*: futures follow the stream
  (`FutureBooks`); what is in flight lies below `nextCase` and has no result until
  it is harvested (`WindowBooks`); what the loops have still to visit
  (`BatchBooks`); a broken pool is only left with a case to retry
  (`SomethingToRetry`).  Without the books the properties are not inductive: that
  a harvest loses nothing needs that each case it passes over broke with the pool,
  that the run never re-raises `BrokenProcessPool` needs `SomethingToRetry`.
  `WindowBound` and `PoolsBounded` follow by counting from it.
  Proved: `TypeOK`, `NoCaseLost`, `NotifiedOnce`, `ReturnedComplete`,
  `CrashTolerance`, `WindowBound`, `PoolsBounded`, that only cases whose worker was
  lost are verified again (`NoSecondRun`), and that every step is a step or a stutter of
  `CaseStream` (`StreamRefinement`).
- **EquivalenceCheck_proofs** (any points, outputs, classes and pairs).  `Inv`
  adds to the type invariant what each phase may have verified (`PhaseOK`), that
  guards and prior cover the domain (`CoverageOK`, `BranchesOK`), that a batch holds
  all cases of its phase (`BatchOK`), that an unknown coarse case has all its
  refinements (`RefinedOK`), that verdicts are sound (`VerdictsSound`), and what the
  report holds; the properties are conjuncts or consequences.  Proved: `TypeOK`, `EveryPointReported`, `PartitionSound`,
  `FallbackSound`, `AnswersStand`.  After the fallback, where proved cases need not make
  the specifications equivalent (section 5), two theorems say what a proof is worth:
  `FallbackSoundness`, that its cases hold the inputs whose outputs are of one class, and
  no others, and that proofs of all make the outputs agree on those; and `ProofsAreMissedByClass`, that
  where all cases are proved and two outputs differ all the same, the check had fallen
  back and the outputs are of different classes.
- **SolverEngine_proofs** (any points, any set of finite schedules).  `Inv` says that
  the lists have equal length and every track is a chain from the goal whose last
  context is the one beside it and asks the same question.  Proved: `TypeOK`,
  `AnswerSound`, `TraceChained`, `UnknownMeansExhausted`, and that every step is a
  step or a stutter of `SoundSolver` (`EngineRefinement`).
- **TypedDomain_proofs** (any number of inputs of any width, any specifications).
  `Inv` says that boxes are inside the domain, that each input is in a waiting box
  or settled in the way the task asks for, and that `reachable` has a witness.  The
  bisection lemmas (both halves are proper and together hold the same points) carry the argument over
  negative codes.  Proved: `TypeOK`, `FitAnswerSound`, `BoundsEnclose`,
  `ComplaintsAreReal`.
- **RunDesigns_proofs**, one check (any number of cases, of refinements and of interrupts).
  `IInv` adds to the type invariant that the result file is begun with the verdict
  (`FilesOK`); that results are of coarse cases and of refinements there are (`ResultsOK`);
  that every line of the journal has a result of the check's memory, and every case whose
  `case_completed` has returned has a whole line (`JournalOK`); that a verdict
  retains these cases (`VerdictOK`); that an exit code is that of a leader that has ended
  (`LeaderOK`), which is reaped before anything is read (`ReadOK`); that how the wait ended
  is known only after it (`StatusOK`); and that nothing runs before `Popen` (`PopenOK`).
  `PassedIsProved` is not inductive without `FilesOK` and `LeaderOK`, `GroupCleaned` not
  without `StatusOK` and `PopenOK`, `ProgressRetained` not without the verdict and the
  journal: every case that counts has a last whole line (`LastLine`), hence reading the
  journal retains all (`ReadRetains`), and the open cases that a conclusion
  leaves out are those whose refinements it holds (`ConclusionRetains`).
  Proved: `TypeOK`, `GroupCleaned`, `PassedIsProved`, `ProgressRetained`.
- **RunDesigns_proofs**, the run (any number of designs and of interrupts).  `RunInv` says
  whose checks are held (`ChecksOK`), how far the report has come at each position
  (`LengthOK`), when the file equals it (`DiskOK`), how the run ended (`EndOK`), that a
  final status is that of its designs (`Summarised`), and that every entry, in memory
  and on disk, has its own two checks (`FullyChecked`).  Proved: `ProgressOnDisk`,
  `DesignsFullyChecked`, `ExitTellsTruth`.
- **EgglogRewrite_proofs** (any contexts, models, schedules, limits, and any operators
  in the places of the parameters).  The hypothesis is `[]RewritingSound`: at every state
  the operators keep the promises of section 2.  It is no assumption on constants, because
  the promises concern only the terms, boxes and e-graphs that occur; TLC
  checks it as an invariant of `simplify_context`.  `RegularInv` says that what a pass
  started from is kept, that the assumptions rewritten so far hold wherever the given ones
  do, that each of them is one whose folded conjuncts mean what they say, and that a
  rejected context has no model.  The heart is that a fact learned from a true assumption
  holds (`LearnedHolds`), so that of two different values stated of one term one is false
  (`ContradictionImpossible`), and rewriting by facts keeps truth whether they come from
  rewritten or from unrewritten assumptions (`KnownForAgrees`).  `ToolsInv` adds that the
  question is kept, from one tool to the next, by what each was given and what it has
  discharged.  Proved: `RegularKeepsModels`, `NoModelLost` (`ToolsLoseNoModel`),
  `VerdictSound` (`ToolsAnswerRightly`).  It is the forward direction, on which the answer
  *unsat* rests; that no model is gained needs the anchors to be acyclic through the passes
  and stays with TLC.
- **Converter_proofs** (any sets of codes; any nodes with at least one bit as significands
  and any signed nodes as exponents, `EncoderAssumption`: that `uq_is_zero`, the leading
  zero count and the subtraction of exponents are defined on them, as the Composites'
  type checks require; and `WidthAssumption`: a significand has, once its integer part is
  one bit, no fewer bits than the mantissa of the format has.  Every design that calls an
  encoder gives it that many; the encoders do not check it, and without it the result
  is not the nearest (section 5)).  Three invariants:
  - `ConverterInv` types each node along the data path by the constructor that made it
    (`Typing`), follows a zero from the decoder to the multiplexer (`ZeroKept`), and
    carries the result.  It needs what every operator of `FixedPoint` returns, for any
    widths: a node whose code fits its type.
  - `ValueInv` follows the number: what its nodes stand for at each stage, as a place
    among the magnitudes of the target format (`PlaceOf`), is that of the number
    converted, up to the sticky bit that stands for all that a shift dropped.
    Normalisation keeps it exactly; a jam shift keeps it because a sticky
    bit can make neither a tie nor a multiple of the last place; rounding then
    takes the nearest place, the even one at a tie; and what the encoder and the multiplexer
    make of that place is the code the documents ask for.
  - `Trip` follows a code of a narrow format to Float32 and back: its magnitude is a
    place of Float32 exactly, so nothing is rounded on the way out, and the place it
    is given on the way back is its own.  It rests on `AsDocumented` for both legs and on
    the order of the codes being that of their places (`CodePlace`, `Sorted`).

  Proved: `ConverterTyped`; special values as documented (`SpecialValuesAsDocumented`);
  every number rounded as documented (`NumbersRoundedAsDocumented`), so that `AsDocumented`
  holds (`ConversionsAsDocumented`); `RoundTrip` (`RoundTripExact`); `InputsCovered` for
  every code of all eight formats
  (`EveryInputCovered`, 2^32 codes of Float32 among them); and that an equivalence check
  that finds the observables of two results equal has compared equal codes, NaNs aside
  (`ObservablesDecide`).
- **Arithmetic_proofs** (any operands; the assumptions of `Converter`).  `ArithmeticInv`
  says that no arithmetic design runs, or how far one has come (`Underway`): its operands
  are decoded, its terms are those of the operands, aligned or not, and from the call of
  the encoder on `ConverterInv` and `ValueInv` hold of what the design has given it
  (`EncoderRuns`).  That it can be given this at all is the step `EncoderEntered`: the
  number is one an encoder takes (`Ready`, for NaNs and infinities too, whose fields go
  down the same data path).  The rest is what that number rounds to:
  - *sums*: moving the smaller operand right by d drops bits, but keeps a sticky one two
    places below the last that counts.  Either d is at most the three extra bits and
    nothing is lost, or the sum has enough bits above the sticky one, and then it has the
    place of the exact sum (`JamOfSum`, `JammedSum`, `JamOrdinal`); hence
    `FloatSumRounded`;
  - *products*: significand and exponent are exact (`FloatProductRounded`,
    `ScaledProductRounded`), a subnormal counting from the least exponent;
  - *scaled sums*: terms of numbers other than zero are at most 16 places apart, the
    number of zeros below them, so the unjammed shift loses nothing (`ScaledUnits`,
    `ScaledSumRounded`), as the comment in the code claims;
  - *special values*: a multiplexer reads of a decoded operand what the specification asks
    of its code, and the cases are tried in an order that gives the same (`SelectedSum`,
    `SelectedProduct`).

  Proved: `DesignsAsSpecified` (`DesignsRoundedAsSpecified`), of which `AsDocumented` is a
  part; and that without an arithmetic design the module is `Converter`
  (`ConvertersIncluded`), so that what is proved there is proved of what the run checks.

Only model-checked, and why:

- every liveness property, and the fair parts of `ImplementsStream` and
  `ImplementsSolver`: liveness under fairness is out of the prover's reach;
- `RewritingSound`: its operators are recursive on terms, and so are all of the generator
  (`CandidatesExact`, `Settled`, `ResultAsSpecified`, `ConditionsAsSpecified`,
  `RoundsImprove`) and of the C++ generator (`ComputesTheDesign`, `WellLinked`);
- `NoModelGained` and `Saturates`: they depend on what exactly folding and trimming return,
  not only on its being right;
- `SpecHonoured`: that the documented result solves the custom specifications needs the order
  of magnitudes and the class bits of rounded results beside the places (section 7).

## 5. What the models show about the code and its documents

Two statements of the repository are refuted, each by a run of its own (section 3):
cleanup on failure, and equivalence proved by the fallback.  Modelling also met these
facts and differences:

- *Fingerprints collide* (`nodes.py:540`): the fingerprint of a composite has its
  parts' fingerprints but not how the calls inside it are wired to each other.  Two
  composites of one name and type that differ in nothing else, such as
  `difference(x, y)` made of `sub(x, y)` and of `sub(y, x)`, get one helper, so that the
  C++ of a design that uses both computes one of them twice.  Reproduced with the
  Python code; `ComputesTheDesign` excludes exactly these designs (`Ambiguous`), one of
  which (`calls`) is in the run, beside its unambiguous like (`words`).
- *Constant folding in floats* (`spec_ast.py:1538`, admitted at README.md:165): from
  `x == 1 + 2**-60` the tool *simplify* proves `x == 1`.  The models fold integers or
  rationals, where this does not occur.
- A check that is killed on its timeout while it writes `result.json` leaves a
  truncated file; `_read_json` then raises `JSONDecodeError` out of the whole run.
- The E4M3FN encoder driven directly with a significand of one or two bits does not
  round to nearest even; no design in the repository does so (`WidthAssumption`).
- `search_lower_spec_to_impl` is documented to find "the cheapest" derivation.  It
  keeps the cheapest candidate per expression and type, but a candidate's cost counts
  shared operations once, so that the cheapest parts need not make the cheapest
  whole; and a search that meets its limit returns what it has.
- `check_rules` can ask the solvers about unconditional equations only, those of
  `rewrite_rules`; the folding of numerals and the conditional rules over gates of bits,
  bounds and signs (`constant_rules`) are checked by none.  `ClassesAgree` covers both.
- README.md:203 gives 10,000 as the cap on rectangles; `DEFAULT_MAX_RECTS` is 50,000.
  It says that feasibility is then "unknown" and the context left unchanged.  In the
  code feasibility is searched on the unbounded box (which may still be decisive),
  and when the cap is met late the assumptions rewritten so far are kept; both are
  sound (`VerdictSound`, `NoModelLost`).
- README.md:186 says that only predicates the branch guard references are split;
  `case_split.py:250` splits all of them when the condition does not fold to one
  that mentions some.
- The comment at `spec_context.py:436` says that after an unchanged trim "another
  identical combined pass cannot help".  It can: regular simplification may end
  with a conjunction that only the next pass would split, as for the assumptions
  `q == (p and x == 1)` and `q or (p and y == 0)`.  23 of the 3,633 contexts end so;
  nothing but precision is lost.
- The custom specifications of the IEEE formats round to infinity strictly above
  the greatest finite value, where the implementation still rounds down to it in
  the lower half of the last step; `encode()` has no solution for magnitudes in
  (u/2, u) and (greatest subnormal, least normal), with u the least subnormal; for
  the saturating formats it does not bind a subnormal's exponent.
- The specifications of `shift_if_subnormal` and `drop_implicit_bit` are off for
  subnormals.  Primitive specifications are trusted by the verifier.
- `docs/operators.md:218` gives another order of the tuple of `bf16_decode`.

## 6. What is not modelled, and why

- *Rival machine, egglog, Z3, dReal, C++ compilers*: outside the repository; modelled
  as environments that may be imprecise but do not lie, or (egglog, C++ arithmetic)
  by what the code relies on.
- *Translation to Rival, Z3 and dReal, pages, reports*: text.
- *The specification language as such* (typing, `Cases` and `FPExpr` as classes,
  printing), and of the *implementation nodes* printing and traversal: trees built and
  walked by one thread, whose operations return a value; what decides something about
  them is in the models above.
- Of the *generator*: requirements, which only Z3 sees; eligibility for `only_LUT`.
- Of the *e-graph*: the scheduler's match limit, which only delays rules; the counts of
  rule applications in reports; `fold_base_two_powers=True`, which the proof e-graphs
  switch off.
- Of the *C++ generation*: `infra/compile_cpp.py`, which calls the compiler; undefined
  behaviour of C++ (overflow of a promoted `int`, shifts by the full width): between two
  conversions `CppExpr` computes with integers of any size; calls of programs with
  parameters wider than 32 bits, which are emitted and linked only; tuples with signed fields.
- *Operators and primitives beyond the data paths of converters, generator and
  emitter*, the dot products and the other examples: straight-line bit manipulation that
  the unit tests compare bit by bit.
- *Splitting of boxes* (`max_depth` > 0): reached from unit tests alone.

## 7. Plan

Done, in order of importance: runner; coordinator; engine; equivalence check; typed
domains; simplification with trimming; encoders and converters; generator; C++
generation; e-graph rewriting; arithmetic designs; proofs for all of the first five, for
the reports, for simplification with the e-graph, for the converters and for the
arithmetic designs.
Next:

1. `SpecHonoured` proved from `NumbersAsDocumented`: the custom specifications compare
   magnitudes, so it needs that places are ordered as magnitudes are, and which class a
   rounded number falls into.
2. `FeasibilitySearch`: `_rival_feasibility_dfs` with `max_depth` > 0, over intervals
   split between consecutive floats.
3. The dot products: their specifications round the exact sum of four products (and an
   addend), their data paths align all of them to one maximum exponent and add them.
