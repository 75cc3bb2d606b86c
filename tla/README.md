# A verified model of the benchmark runner

TLA+ modules of the programs in this repository, the TLC configurations that
model-check them on small instances, and proofs checked by TLAPS for every value
of the constants. Paths such as `benchmark_core/store.py:165` are relative to
`src/`.

Contents: [inventory](#1-inventory), [modules](#2-modules-and-how-they-correspond-to-the-code),
[runs](#3-runs), [what the code does differently](#4-where-the-code-and-its-documentation-differ),
[fairness](#5-fairness), [proofs](#6-proofs), [limits](#7-what-is-only-model-checked-and-what-is-not-modelled),
[plan](#8-plan).

To repeat everything: `tlc -config X.cfg M` for the pairs of the table in section 3,
and `tlapm M.tla` for each `*Proofs.tla`.

## 1. Inventory

The repository evaluates language-model methods (direct answers, zero-shot chain of
thought, PAL, two Self-Refine profiles, AFlow workflows) on mathematical
datasets. One command works on a matrix of *cells* (dataset x method); a cell is a
directory with a manifest, an append-only ledger `records.jsonl` and a summary.
A command may be stopped at any moment and repeated: everything that matters
survives in those files.

| component | state it keeps | operations | talks to |
|---|---|---|---|
| ordered parallel map, `benchmark_core/concurrency.py` | an executor, a deque of futures, the position in its input | prime, yield the oldest result, refill, `finally`: cancel and wait | called by the runner, runs `_evaluate_problem` in workers |
| result store, `benchmark_core/store.py` | `records.jsonl`, its `flock` | `exclusive_run`, `completed_problem_ids`, `append` | runner; every process on the same directory |
| evaluation runner, `benchmark_core/runner.py` | the selected batch, `RunSummary` counters | `run`, `_evaluate_problem` | store, map, method, scorer |
| API backend, `model_backends/openai_compatible.py` | `_pace_lock`, `_last_request_started` | `_pace`, `generate` with retries | the HTTP service; shared by the workers of a cell |
| sample evaluation, `benchmark_core/fairness.py`, `interfaces.py` | the calls and the usage of one sample | `generate` under a budget, `finalize`, `scorer.score` | method, backend, executor, scorer |
| methods, `adapters/`, `benchmark_methods/` | local variables of one sample | `generate` | controlled backend, restricted executor |
| standard experiments, `scripts/run_experiments.py` | plan, current cell, exit code; the directories | plan, preflight, find or claim a directory, run, summarise | artifacts, store, runner |
| experiment artifacts, `benchmark_experiments/` | directories, `experiment.json`, summaries | claim, ensure, atomic write, summarise | all scripts |
| AFlow search and test, `scripts/run_aflow.py`, `benchmark_aflow/` | `search_state.json`, one ledger per candidate, `workflow.json` | propose, evaluate, select the best, freeze | runner, store, optimizer backend |
| mu-MATH, `scripts/run_mu_math.py` | its own `records.jsonl` with header and `flock`, `experiment.json`, `summary.json` | find and read, confirm, preflight, lock, judge the rows of a batch, count verdicts and write the summary | ordered map, judge backend, artifacts |
| scorers and bridges | none that outlives a sample | `score` | external checkers in subprocesses |
| restricted executor | none | `execute` in a subprocess | PAL, Self-Refine, AFlow |
| datasets, smoke matrix, workspace verification | none | read and validate | - |

What is hard about them, and the property wanted of each:

* **Order under concurrency.** Samples end in any order, in several threads, in
  batches, in processes that come and go. Records must still be appended once
  each and in dataset order, without running ahead of the consumer without bound.
* **Crashes and interrupted writes.** A process can die between any two steps and
  inside a write. What is in the ledger must remain the first problems of the
  dataset, of one experiment, evaluated successfully.
* **Several processes on the same files.** Only the ledger has a lock. Directory
  choice, manifest, summary and `search_state.json` are read and written outside
  it.
* **Partial failure of a sample.** The API, the program executor and the checker
  fail at different points; a failed operation must not become a record, whereas
  a method that gives up must, with its usage.
* **Time.** Request starts are spaced by a shared lock; retries and backoff must
  neither hold it nor go on for ever.
* **A second ledger.** `run_mu_math.py` uses neither the store nor the runner: plan,
  lock, batch, header and summary are written once more, each with its own order of
  steps, and its metrics have denominators that may be zero.
* **Budgets.** The calls a method may make are computed in one place and made in
  another; a disagreement ends the whole run.
* **Choice of the best workflow** from state that searches overwrite for each
  other.

`PROJECT.json` lists each of these as a hazard at the line where it bites, with
the properties that would catch it.

## 2. Modules and how they correspond to the code

`PROJECT.json` maps each definition to its lines. Definitions whose comment begins
with *Defect* are not part of the system: each is a plausible mistake in the
definition that follows it, and shows that some property can fail.

| module | models | composed with |
|---|---|---|
| `OrderedPool` | the state of one `ordered_parallel_map` as a record, its operations as operators | `OrderedMap`, `EvaluationCell` |
| `OrderedMap` | one generator, the thread that iterates it, its workers | implements `OrderedDelivery` |
| `OrderedDelivery` | what the map promises its caller | abstract |
| `ResultStore` | a JSONL file and the ways an append can end | `EvaluationCell` |
| `EvaluationCell`, `CellProperties` | several processes, each in `EvaluationRunner.run`, on one ledger | implements `Ledger` |
| `Ledger` | what a cell's file promises | abstract; assumed by `Campaign` and `AFlowSearch` |
| `ApiBackend` | threads in `generate` of one backend and of its successor | implements `RateLimiter` |
| `RateLimiter` | what `min_request_interval_seconds` promises of one backend | abstract |
| `ControlledSample` | one sample: budget, outcomes, `finalize`, scoring, classification of exceptions | `SampleMethods`, `WorkflowMethod` |
| `SampleMethods` | the baselines, PAL, both Self-Refine profiles | `SampleEvaluation` |
| `WorkflowMethod` | AFlow workflows of custom, answer, ensemble and programmer nodes | `SampleEvaluation` |
| `SampleEvaluation` | the composition, and its properties | |
| `Campaign` | several `run_experiments.py` commands on one result tree | rests on `Ledger` |
| `AFlowSearch` | several `run_aflow.py --mode search` on one directory | rests on `Ledger` |
| `MuMath` | several `run_mu_math.py` commands on one output root, verdicts and metrics | rests on `OrderedDelivery` |
| `MC*` | values for TLC | |
| `*Proofs` | theorems | |

**OrderedPool / OrderedMap.** `pending` is the deque, `taken` how many items the
iterator has given, `current` the future being waited for or whose result is
out, `call[i]` the state of call `i`. `Prime` is lines 40-45 of
`concurrency.py`, `Refill` 47-53. With concurrency 1 the code calls the function
directly; the same operators give that when `width` is 1, except that such a call dies
with its thread (`Dropped`). The consumer may drop the generator at any yield
(`GeneratorExit`), and Ctrl-C may arrive during the wait and again during the shutdown of
the executor. The `finally` (54-57) is one step per future (`CanCancel`, `CancelCall`):
the deque from its oldest on, then, in `shutdown`, a popped future that is still queued.
Between two of them a worker may take a call that is still queued, so that "nothing starts
any more" is true only when the loop has ended; `OrderedDelivery` says it that way, with
the phase "leaving" in which starts and cancellations mix, and "draining", in which nothing
starts. Ctrl-C comes only while the thread waits, not between two cancellations.

**ResultStore / EvaluationCell.** A file is a sequence of lines (header, sample,
or invalid: cut short, or two run together) and whether the last one lacks its
newline. `Append` enumerates every way the write may end.
`completed_problem_ids` is the acceptance test of `Select` and `Reject`. Program
points: `locked` (inside `exclusive_run`, file not yet read), `running`,
`recording`, `returning`, `draining` (the generator's `finally`, inside the
lock), `unwinding` (the exception has left the lock but its traceback still holds
the suspended generator, `runner.py:237`), `joining` (that generator being
closed outside the lock). In `draining` and `joining` the futures still queued are
cancelled one by one (`Cancel`). A kill releases the lock at once, as the kernel does.

**ApiBackend.** Time is counted in ticks and only up to the interval. `since` is
the age of `_last_request_started`, `sent` that of the last request that left.
`Pace` is the critical section up to the computation of the delay, `Stamp` its
end; `Send` is a step of its own because the request leaves after the lock is
released. `NewBackend` is the next cell, with a new object; `RateLimiter`, which promises
something of one backend only, lets a new one begin at any time (`Renew`).

**ControlledSample, SampleMethods, WorkflowMethod.** A reply is a finish reason;
a text is `full`, `cut` or `empty`. Each branch of a method on the shape of a
reply is a nondeterministic choice with the guard the code gives it
(for instance a Self-Refine reply that is cut cannot be accepted). `MaxCalls` and
`MinCalls` are `benchmark_methods/config.py` and `adapters/*`, computed apart from
the methods' loops as in the code.

**Campaign.** `dirs[c]` is the sequence of directories of cell `c`, each with
manifest, ledger (header, number of records, soundness, lock) and summary;
`cmd[p]` is a command: plan, cell, directory, counters, exit code. Abstractions:
the run of a cell is `Ledger`'s promise (records are a prefix, an append may be
torn); reading the plan is one step; a read outside the lock may raise while
another command is appending; `atomic_write_json` and the directory claim (under
its own lock, `artifacts.py:121-129`) are one step each. `overall_failed` in
`main` is always 0, because errors are never recorded; exit code 1 therefore only
comes from `SampleEvaluationError`, and the model has it so.

**AFlowSearch.** `saved` is the list in `search_state.json`, `ledgers[r]` the ledger
of round `r`, `frozen` is `workflow.json`; `search[p]` is a process with the
candidates it has read or made. The whole list is written each time, as in the
code. `frozen` is the workflow, its round and its accuracy: that a later search freezes
another choice is excluded, not that `workflow.json` is written again with another
rationale or usage, which would change its digest (`run_aflow.py:368`) and with it the
identity of a test (`:895`). The optimizer's answer and the write of the state are one action, since
nothing in between is visible. The `status` and `selected_round` fields are left
out because nothing reads them. `Stop` is every way a search ends early, at any
step. `run_aflow.py` returns 1 for every exception in search or test and writes no
`_fatal_errors.jsonl`, where `docs/running_experiments.md:408-416` speaks of code
2 and of that file; neither is visible in this model.

**MuMath.** `manifest` is `experiment.json`, `ledger` is `records.jsonl` with its lock,
`summary` what `summary.json` was computed from, `cmd[p]` a command: its version, its
batch, the configuration it found or made, what it planned, what it selected and has
not recorded, what it wrote, and its exit code. All commands have one experiment
identity, since `_experiment_identity` drops the revisions; the directory is found and
claimed as in `Campaign`, hence one of each file. The ledger is `none`, `empty` (a
process died before the first line), `whole`, `bare` (the last newline is missing) or
`broken`; `Torn` lists where the two appends of `_append_record` may stop. `ReadPlan`,
`Lock` and `ReadSummary` read it three times, as `main` does, and only the second
time inside the lock. A verdict is any of the three. `Metrics` is `_metrics` with
fractions instead of floats, without the rates that nothing else is computed from;
`errors` is left out because no record of an error is ever written, so the exit code
1 of `aggregate["errors"]` cannot occur. Verdicts come back in the order of the
rows, which is `OrderedDelivery`; rows in flight behind a failed one leave no trace.

## 3. Runs

Each passing property has in `PROJECT.json` a defect of the code that violates it
under the same configuration.

| run | bounds | what it shows |
|---|---|---|
| `OrderedMap` | 4 items, concurrency 1 to 3 | results in order, look-ahead within the window, nothing lost when the input ends, `OrderedDelivery` implemented, every wait ends |
| `Cell` | 3 problems, 2 processes, 3 invocations, 2 experiment definitions, concurrency 1-2, batch 1 or all | ledger in order, without gap, of one experiment; counters agree with it; nothing evaluated twice; only successes recorded; no process and no lock gets stuck; `Ledger` implemented |
| `CellOverlap`, `CellDamage` | as `Cell`, 1 experiment | findings 1 and 2 |
| `ApiBackend` | 3 threads, 2 calls each, 2 attempts, interval 2, backoff 1-2, 2 backends | noted starts are spaced, no wait longer than needed, every call ends |
| `ApiSpacing` | 2 threads, 1 call each | finding 3 |
| `Sample` | every method, 1 and 3 refinements, 5 workflows, 4 kinds of scorer | budget never exceeded, what stops a run, what is recorded, usage complete, cut answers not credited |
| `SampleEnvironment` | as `Sample` | finding 4 |
| `Campaign` | 2 processes, 3 commands, 2 versions, 2 cells of 2 problems, batch 1 or all | one directory per cell, code 0 means progress everywhere, summaries between two true counts, the plan is an upper bound |
| `CampaignManifest` | 1 cell of 1 problem, 2 commands | finding 5 |
| `AFlowSearch` | 2 processes, 4 searches, 1 proposal after the initial workflow, 3 workflows, 2 validation problems | accuracy is that of the named workflow, the frozen workflow is the best, it never changes, searches one at a time can always continue |
| `MuMath` | 3 rows (two labels, two models), 2 processes, 3 commands, 2 versions, batch 1 or all | the ledger stays resumable, code 0 means the plan was kept, the summary is about what the ledger holds, an inconclusive verdict counts as a wrong one |

Why the bounds are enough to meet the interesting cases:

* Four items and concurrency 3 give fewer, as many and more items than workers, a
  window that slides, and an input that ends while futures are pending.
* With three problems a failing sample may have both a finished and an unfinished
  successor. The third invocation reads what two others have left (one may have
  torn the file, one may be still unwinding), and the second definition tries
  the first one's file.
* An interval of two ticks lets a start be early, in time or late; with three
  threads two queue behind one that sleeps; two attempts exercise both ends of
  a retry, the one that goes on and the one that gives up.
* The five workflows have every operator, an ensemble over earlier nodes, a
  programmer with several attempts, and nodes whose answer is not the last reply.
* The third command of `Campaign` meets a directory created, a manifest written or a
  ledger extended by the other two, in both cells.
* In `AFlowSearch` two searches overlap, a third follows and a fourth checks that
  the result is stable; the workflows tie on calls, on nodes or on both. The same
  module also passes with two proposal rounds and three searches.
* In `MuMath` the third command reads what two others left between its plan, its lock
  and its summary. Three rows give a batch that is one row, the rest or all of the
  data, and with two right solutions and a wrong one every denominator of the metrics
  is zero in some state, that of one label, one verdict or one model at a time.

Deadlock checking is off wherever programs may simply end: all of them do.

## 4. Where the code and its documentation differ

Each has a run whose counterexample is the behaviour described.

1. `CellOverlap`, `UnfinishedSelectedOnce`. `exclusive_run` is to "Prevent concurrent
   runners from selecting the same unfinished samples" (`store.py:166`). When a
   sample fails, `runner.py:237` raises inside the `with` while the generator is
   suspended: the lock is released as the exception propagates, and the
   generator is closed only when the traceback goes. Until then workers of the
   failed run still evaluate, and even start, samples another process may select, and
   they may go on starting them until the last queued future is cancelled.
   The ledger is not harmed (`Cell`); calls are paid for twice. That this is the only
   way is proved (`CellProofs`, `OverlapOnlyOnTheWayOut`): of two processes that
   evaluate at once, one has raised and is on its way out, its samples not yet all
   cancelled or awaited.
2. `CellDamage`, `LedgerReadable`. "Completed samples are durable and will resume on
   the next identical command" (`run_experiments.py:1310`). A write cut short
   leaves a partial line, which `completed_problem_ids` rejects ever after;
   nothing truncates or repairs it. If only the newline is missing, the next
   append joins two records. Nothing else breaks the promise: where no append is cut
   short it holds, whatever else fails (`CellProofs`, `DurableUnlessCut`).
3. `ApiSpacing`, `RequestStartsSpaced`. `docs/running_experiments.md:81-83`: the
   interval "spaces request starts by at least one second even when concurrency is
   higher". Each cell, preflight and judge has its own backend object, which starts
   with `_last_request_started = 0.0`. What does hold, and is proved, is that one
   backend spaces the starts *it notes*.
4. `SampleEnvironment`, `EnvironmentFailureNotRecorded`. `README.md:198-200`: failed
   environment operations "do not create a completed sample record".
   `restricted_python.py:66` turns an `OSError` in making the temporary directory or
   starting the worker into `ProgramExecutionError`, which is how a faulty program is
   reported; the sample is then recorded and never repeated.
5. `CampaignManifest`, `ProgressResumable`. `docs/running_experiments.md:66-67` says
   revisions in the manifest do "not invalidate existing progress".
   `ensure_experiment_manifest` looks and writes without a lock; two commands of
   different versions on a new directory can leave the manifest of one beside a
   ledger of the other, which no later command accepts. With one version the property
   is a theorem (`CampaignProofs`, `OneVersionResumes`), and with several every ledger
   still belongs to one of them for good (`OneVersionPerLedger`).

Behaviours met while modelling that no run states:

* `adapters/aflow.py:391-395` gives the answer of a workflow the finish reason of its
  last reply, or `stop`. When the answer comes from an earlier node whose reply was
  cut by the length limit and the last reply was not, the sample is reported as
  complete, and HARP's checker, which rejects incomplete answers
  (`bridges/harp.py:132-134`, `tests/test_official_checkers.py:114`), may credit it.
  `CutAnswerNotCredited` says that this is the only way, for every method: a cut
  answer is credited only in a workflow whose last reply ended of itself and an
  earlier one did not.
* `run_mu_math.py:912` reads the ledger again after the lock is released and outside the
  `try`. If another command is appending just then, or has torn the file, a command that
  recorded its whole batch ends with a traceback and Python's code 1, and writes no
  summary (`SummaryFails`). `docs/running_experiments.md:408-416` gives 1 the meaning
  of a failed sample and sends uncaught exceptions to `_fatal_errors.jsonl`.
* A mu-MATH process that dies between creating `records.jsonl` and its first line
  leaves an empty file. `_append_record` would write the header into it
  (`run_mu_math.py:298`), but `_read_records` rejects it first (`:287`), so that no
  command gets that far. `LedgerResumable` therefore speaks of files with a line.
* Overlapping searches can leave in `search_state.json` a workflow for a round whose
  ledger belongs to another one; every later search fails on that round.
  `ResumableAlone` says that this cannot happen to searches that never overlapped,
  also if they were killed.
* `benchmark_methods/config.py:69-78` gives a workflow a minimum of one call per
  node, `adapters/aflow.py:416-418` another one; no path of the program uses the
  former for a workflow.

## 5. Fairness

Only what the code's own threads and timeouts justify is assumed.

* `OrderedMap`, `EvaluationCell`: weak fairness of the iterating (main) thread and of
  each worker. A worker's call ends because every API request, program execution and
  checker has a timeout and retries are bounded; main steps that could be enabled
  for ever are taken because nothing else competes for that thread. Nobody is
  obliged to start a process, to press Ctrl-C, to fail or to kill. In the cell, what
  matters is stated without fairness: `CanGoOn` says that in every state a process
  that runs, or that holds the lock, has a step of its own or of its workers. No run of a
  cell goes round in circles either: `NoCircles` is the proof that every step of a process
  lowers a number that no other process raises. So with the fairness above a process
  ends, and the lock is always given back.
* `ApiBackend`: weak fairness of each thread and of time. A Python lock is not fair
  and none is assumed to be: a thread may be overtaken, but only by finitely many
  calls, so `CallEnds` holds. What it rests on is proved without fairness: a call of
  `generate` always has a step, or waits for time, or for the holder of the lock, which
  waits for nothing but time (`NeverStuck`), and it comes nearer to its end with every
  step (`NoCircles`). The bound on calls (`MaxCalls` per thread and backend)
  is that of a batch.
* The other modules state no liveness, since whether an operator starts, confirms or
  stops a command is not the program's to promise. What the program owes is
  proved without fairness: a sample, a command of a matrix, a search and a mu-MATH
  command make only a bounded number of steps (`NoCircles`), and each of these could be
  one that is not a failure, but for obstacles that are named (`NeverStuck` of the sample,
  `NeverHindered` of the others).

## 6. Proofs

All assumptions are named `ASSUME`s of the modules, and TLC evaluates them in the
runs: sizes are natural numbers, concurrency is positive, backoffs and intervals
are naturals, `None` is not a process, and the sets of outcomes are the ones named.
The proofs hold for every number of items, problems, processes, commands,
threads, versions, searches and rounds, and for every workflow.

* **`OrderedPoolProofs`, `OrderedMapProofs`.** *Invariant:* `PoolOK` (the deque holds
  the items taken and not yet popped, consecutive and in input order, inside the
  window), with the position of the output and the absence of late starts for
  the state of the generator. `InputOrder` alone is not inductive: the next
  result is in order because the deque is. *Theorems:* `TypeCorrect`,
  `DeliveredInOrder`, `LookaheadBounded`, `DeliveredAll`, `Implementation` of
  `OrderedDelivery`, and `NeverStuck`: whoever waits for a result waits for a call that
  has ended, that runs, or that is queued with the oldest one startable. For this a
  second invariant is needed, that nothing the caller may wait for was cancelled
  (`Clean`). `NoCircles`: every step lowers `Remaining`, which counts three steps for every
  sample not taken, two for every one queued, one for every one running (`Work`), and two
  for every result the caller has still to consume (`Ahead`); `StepsBounded` bounds it by
  `5 * MaxItems + 4`. The pool lemmas are reused by the cell.
* **`CellProofs`.** *Invariant:* `TypeOK`, the file is regular
  (`GoodFile`: header then samples of one experiment in order, a prefix of the
  dataset as long as it parses), and `RunnerOK`: what a runner inside the lock has
  selected continues exactly where the file ends, and its counters say how far it has
  come. It is needed because the runner reads the file once and trusts its
  selection afterwards; that nobody else writes in between comes from the lock.
  The store lemmas say what each way of ending an append does to a regular
  file. *Theorems:* `TypeCorrect`, `LedgerInOrder`, `LedgerWithoutGaps`,
  `LedgerOfOneExperiment`, `SummaryCorrect`, the action properties `NoneRunAgain`
  and `RecordsAreEarned`, and `Implementation` of `Ledger`. The next section is about
  progress. `Moves` sums up what a step can be to a process (`AllMove`); `Clean` says that
  the loop waits for nothing cancelled; then `NeverStuck` is `CanGoOn` with the guards of
  the actions in place of `ENABLED`. `Remaining` is as above, with the main thread's own
  places in `Ahead`. `NoCircles` says that each step of a process lowers it and none of the
  others' raises it, `StepsBounded` that it never exceeds `5 * MaxItems + 4`. At the end
  stand the true counterparts of two violated properties (section 4).
  `OverlapOnlyOnTheWayOut` follows from `Clean` and the places where the lock is
  held. `DurableUnlessCut` has as its hypothesis on the behaviour that every change of the
  file is a whole append (`Uncut`); it needs that such an append leaves a file that parses
  and ends in a newline (`AppendedWhole`), and that a regular file is accepted by the
  experiment of its header (`RegularAccepted`).
* **`ApiBackendProofs`.** *Invariant:* `TypeOK /\ WaitExact`. A thread stamps only when
  its wait is over, and then `since` has reached the interval because the lock
  kept others from stamping. *Theorems:* `TypeCorrect`, `WaitIsExact`,
  `Implementation` of `RateLimiter`, `NeverStuck` and `NoCircles`.
* **`CampaignProofs`.** *Invariant:* types; `Good` (at most one directory per cell, no
  summary beyond its ledger); and for each command `Owns` (its locks), `Placed` (its
  cell and directory exist), `OnBatch` (what it knows of its batch), `InPlan` (the cells
  before it are served, the plan covers those after it), `Ended` and `Going`. Commands
  interfere, so each step is summed up by `Evolves` (records are only added, a
  directory appears only where there was none, locked ledgers of others do not
  change), and lemma `Others` shows once that an evolving tree keeps the invariant of
  every other command; each action then only concerns the command that takes it.
  *Theorems:* `TypeCorrect`, `NeverTwoDirectories`, `ZeroMeansComplete`,
  `SummariesBracketed`, `PlanIsKept`, and `Implementation`: to whoever looks at one cell,
  a whole campaign is the same abstract `Ledger` that `EvaluationCell` implements. The
  cell's ledger is that of its one directory, or empty while there is none (`OfCell`), and
  every action either extends it by one write (`PutInCell`) or leaves it (`StaysInCell`,
  `CreateInCell`). So what is proved of the concrete cell, with its threads and torn
  lines, and what is assumed of it in the campaign meet in one specification.
  About versions there is a second invariant (`Origins`: whoever runs on a ledger
  does so under the version of its header, if it has one, and a header never stands
  without a manifest), from which `OneVersionPerLedger` and `OneVersionResumes` follow.
  `NeverHindered` names what can stop a command other than the operator and the outside:
  a torn ledger, a locked one, another version. In particular the tie that
  `_find_resume_experiment` refuses never occurs, because of `Good`. `Remaining` counts
  `Size + 10` for each cell to come. `NoCircles` says of every step of `Next` that it is the
  step of some command (`StepOf`), that a running command which makes it has less left
  afterwards (`OwnWork`), and that all others have as much left as before (`OthersWork`), so
  that neither an idle command nor the progress of another can stand in for it;
  `StepsBounded` bounds what is left.
* **`SampleProofs`.** First part: the call bound of a workflow is a recursive function,
  and its equation has to be earned. Lemma `SetInduction` is induction over the naturals
  for the elements of a *set*, which the provers can instantiate, derived from the
  library's `WFMin` and `NatLessThanWellFounded`; `SumsExist`, `SumsAreNatural` and
  `SumsGrow` then give that `CallsUpTo` is the sum it is meant to be, and grows.
  Second part, *invariant:* `Going` and `Ended` (what is true before and after the end),
  and for each method how many calls lie behind the point it has reached:
  `SinglePath`, `RefinePath`, `WorkflowPath`. The last one also says that every stored
  value that is not complete goes back to a reply that was cut, directly or through
  ensembles; without it `CutAnswerNotCredited` is not inductive, because the output node
  may be any earlier one. *Theorems:* `TypeCorrect`, `CallBoundsFit`,
  `ModelCannotStopARun`, `FailuresAreNotRecorded`, `UsageIsComplete`,
  `CutAnswersEarnNothing`, for every workflow and any number of refinements; and
  `NeverStuck` (a step that is not a failure exists at every point of every method, which
  rests on the method's path and on `MinCalls`), `NoCircles` and `StepsBounded` (two
  steps for each call that is left, and two more).
* **`AFlowSearchProofs`.** *Invariant:* ledgers are typed and short enough; the candidates
  of `search_state.json` and of each search have earned their accuracies
  (`Candidates`); `SearchOK`, where a search stands; `FrozenOK`; and `AloneOK`, which
  holds as long as searches have not overlapped. A search trusts candidates that another
  may have overwritten; `Candidates` survives because it speaks only of full ledgers,
  which no step changes (`Evolves`). `FrozenOK` describes what is frozen by the ledgers
  alone; the best over full ledgers is unique, so that whoever freezes again
  freezes the same. *Theorems:* `TypeCorrect`, `AccuraciesEarned`, `BestIsFrozen`,
  `FrozenForGood` (an action property), `ResumedAlone`, and for the ledger of each
  round `OneWorkflow` (once opened it never changes hands, so that samples of two
  workflows are not mixed when searches overlap) and `Implementation` of `Ledger`.
  `NeverHindered`: a search that overlapped none is stopped from within only by a ledger
  that does not parse. For this freezing must find a first among the candidates,
  that is `candidate_rank` must be a total order on them (`BestExists`, by
  minimising one component of the rank after the other with `LeastOf`). `NoCircles`, of the
  form it has for `Campaign`, and `StepsBounded` count `Size + 4` for each round.
* **`MuMathProofs`.** *Invariant:* `LedgerOK` (row `k` is in record `k`, under the one
  fingerprint), a manifest whenever there is a header, `SummaryOK`, and for each command
  `CommandOK`: a running one has selected the rows that follow those recorded, at
  least as far as its plan (`RunningOK`), and what it has written is in the ledger after
  what it counted (`Written`). The plan is made before the lock is taken; it is enough
  because records are only added meanwhile (`Evolves`, `Others`). `Selected` is the
  arithmetic of a batch: the first `target` rows not completed are an interval.
  *Theorems:* `TypeCorrect`, `StaysResumable`, `ZeroIsComplete`, `SummaryIsTrue`, and
  - `InconclusiveCounts`. The counts of `_metrics` are cardinalities of sets of
    positions in the records, so that deciding the inconclusive verdicts moves positions
    from one set to another; with `t` right verdicts on a label and `a`, `b` the two ways of
    being wrong, its F1 score is `2t / (2t + a + b)`, also when precision or recall has
    a zero denominator, and grows with `t` and falls with `a` and `b`. That
    the models' counts add up is induction over the finite set of models
    (`FS_StrictSubsetOrderingWellFounded`).
  - `Implementation` of `Ledger`. Besides the invariant it needs that a ledger whose lock
    is held, and to which a record is therefore appended, is not the empty file that a
    crash can leave (`HeldHasLines`): `_read_records` rejects that one.
  - `NeverHindered` (only a cut append, a running command or another version's manifest is
    in a command's way; the fingerprint and repeated rows never are),
    `NoMoreThanConfirmed` (the batch is selected again under the lock, from a longer
    ledger perhaps, but by `SelectedAtMost` it is never more than the plan), `NoCircles`, of
    the same form again, and `StepsBounded`.

The invariants of the last three were also checked with TLC on the instances of the
runs. The theorems without a property of a run (`NeverStuck`, `NeverHindered`, `NoCircles`,
`OneWorkflow`, `OneVersionPerLedger`, `OneVersionResumes`, `OverlapOnlyOnTheWayOut`,
`DurableUnlessCut`, `NoMoreThanConfirmed` and the implementations of `Ledger` by `Campaign`,
`AFlowSearch` and `MuMath`) were checked with TLC on the same instances before they were
proved (`OneVersionResumes` with one version, `NoCircles` of the last three with two
commands or searches); `StepsBounded` is the range of
`Remaining`. All others name the property that a run checks.

## 7. What is only model-checked, and what is not modelled

Only model-checked: liveness (`ResultArrives`, `CallEnds`) and `CanGoOn`, which
TLAPS cannot conclude because they need `ENABLED`. What they rest on is proved: nobody
is stuck (`NeverStuck`, `NeverHindered`) and nobody goes round in circles (`NoCircles`); that a step whose
guard holds is enabled, and that fairness then takes it, is left to TLC, which found
`HasStep` of the map, the cell and the backend to be their `ENABLED` in every state of the
runs' instances. All other properties of the passing runs are proved.

Not modelled:

* The answer extractors of the bridges (planned).
* Test mode of `run_aflow.py` (835-1047): the loop over repeats runs cells as `Campaign`
  does, without a plan, and with the digest of the workflow in the identity of each.
* Option parsing, repository and environment checks that end a command before it has
  done anything; confirmation prompts beyond yes and no.
* The contents of prompts, replies, summaries, telemetry lines and fingerprints.
  A response without choices raises before its telemetry line is written
  (`openai_compatible.py:340`); nothing promises the contrary.
* `allowed_inference_overrides`: a comparison of settings before a call.
* What the restricted worker lets a program do; the official checkers, which are
  other projects; dataset parsing; the smoke matrix and the workspace verification,
  which keep no state.
* Loss of data when the machine itself stops: `append` flushes and syncs before it
  returns, and the model takes a finished append as kept; the directory entry of a
  new file, which is not synced, is not distinguished from its contents.

## 8. Plan

Done, in this order: the map, the cell, the backend, the sample, the campaign, the
search, mu-MATH, and proofs of all of them. Next:

1. `AnswerExtraction`: the box and delimiter scanners of `bridges/`, as functions over
   short token sequences, against a declarative definition.
2. Composition: `Campaign` over `EvaluationCell` instead of its promise, for one cell.
3. Test mode of `run_aflow.py`, as commands of a `Campaign` without a plan.
