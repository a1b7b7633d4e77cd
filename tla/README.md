# Synthetos: a TLA+ verification project

Synthetos is a research assistant: a user writes a *charter*, and *cycles* of
that charter go through discovery of papers, their analysis, ideation of
hypotheses, compilation of experiment protocols, execution of experiments in
containers, verification, remediation and a recommendation, or an autonomous
loop over the last steps. What many cycles learn is kept as *patterns* that
enter later prompts. All of it is driven by rows of one PostgreSQL table,
`jobs`: the API and the operators insert rows, worker processes claim and
execute them, and every effect is a database transaction of its own. There is
no in-memory coordination, so what can go wrong goes wrong between two
transactions. That is what the modules here model.

Paths below are relative to the repository (`src/`).

## Inventory

| Part | State it keeps | Operations that change it | Interacts with |
|---|---|---|---|
| **Job queue** `libs/core/services/job_service.py` | `jobs`: status, priority, `claimed_at`, `heartbeat_at`, `reclaim_count` | `create_job`, `claim_job`, `start_job`, `complete_job`, `fail_job`, `pause_job`, `reclaim_stale_jobs` | every other part |
| **Worker** `apps/worker/` | volatile: the job in hand, the operator's result; a heartbeat thread; `periodic_job_state` | the loop of `main.run`: maintenance, claim, start, execute, read the row, settle; `_apply_state_patch`; the decay gate | queue, state machine, operators |
| **Job control API** `apps/api/routers/jobs.py` | none | cancel, pause, resume | queue |
| **Cycle state machine** `libs/core/state_machine.py` | `research_cycles.status` | `validate_transition` on every state patch and on `transition_cycle`; direct writes in services | worker, services |
| **Experiment service** `libs/core/services/experiment_service.py` | `experiment_specs`, `run_records` | `start_run`, `control_run` (cancel, pause, resume, retry), hypothesis sessions, protocol requests | queue, cycle |
| **Execution operators** `libs/execution/operators/` | `run_records`, git worktrees, containers | `execution_setup`, `execution_run`, `execution_capture` | container runner, queue |
| **Verification** `libs/verification/` | `verification_reports`, `postmortems` | `verification_check`, `verification_postmortem` | queue |
| **Remediation** `libs/remediation/` | `remediation_actions`, `directional_signals`, `metric_frontiers`, `run_recommendations` | `auto_remediate`, `signal_classify`, `recommend` | queue, cycle |
| **Autonomy loop** `libs/autonomy/` | `autonomy_budgets`, `loop_decisions`, hypothesis card status | `loop_decide`, `loop_report`, gates, approvals, stop | remediation, protocols |
| **Protocol compilation** `libs/protocols/` | `experiment_specs` | `protocol_compile` | loop, execution, ideation |
| **Discovery, analysis, ideation sessions** | their session rows, cards, chunks, evidence, hypotheses | a chain of operators each | queue, cycle |
| **Pattern memory** `libs/patterns/`, `apps/worker/periodic.py` | `canonical_patterns`, `pattern_observations`, `pattern_approvals` | consolidate, upsert, decay, verdicts, retrieval, injection | worker, prompts of all operators |
| **Event streams** `libs/core/events.py`, `apps/api/routers/events.py` | `domain_events`, `run_telemetry`; a cursor per connection | emit, poll, send, resume | every writer, web client |
| **Everything else** | charters, skills, adapters (LLM, sources, embeddings, graph), CLI, web client | records or I/O | |

The behaviours that are hard:

* *Two transactions per job.* An operator commits its effects, and the follow-up
  job, in its own transaction; the worker commits the job's outcome and the
  cycle's state patch in another, later. A crash between the two makes the
  operator run again; with two workers the follow-up may overtake the outcome.
* *Read, decide, write by primary key.* The reclaim scan, the outcome
  persistence, the pattern upsert and the API handlers do so without a row lock.
* *Liveness by timestamps.* Whether a dead worker's row is found depends on two
  nullable columns several writers set and clear.
* *Uncaught rejections.* A state patch the state machine refuses ends the
  worker process.
* *User requests in flight* while a container runs, while a gate is passed,
  while a session's steps execute.
* *Decisions from history.* Strategies, signals, recommendations, budgets and
  gates are computed from rows of earlier runs, some of which were written twice.
* *Ids given before commit.* A stream that follows ids may pass a row by.

What makes each part correct: a row is executed only as often as it was queued;
what is settled stays settled; no row, run, session or event is lost; retries
and loops are bounded; a cancellation stands; state patches fit the state
machine; gates are passed only with approval; frontier, signal and
recommendation agree with the runs they are computed from; patterns count
evidence that exists, enter prompts only when strong or approved, and fade.

## Modules

| Module | Models | Status |
|---|---|---|
| `JobQueue` | `jobs` table, worker loop, heartbeat, reclaim, job control API | checked, proved about |
| `JobQueueProofs` | theorems about `JobQueue` | proved |
| `RunPipeline` | run records, the eight operators from setup to recommendation, the experiment part of the state machine, `start_run` and `control_run` | checked, proved about |
| `RunPipelineProofs` | theorems about `RunPipeline` | proved |
| `HypothesisLine` | what verification, remediation, signal, frontier and recommendation compute for the runs of one hypothesis line | checked, proved about |
| `HypothesisLineProofs` | theorems about `HypothesisLine` | proved |
| `AutonomyLoop` | `loop_decide`, budgets, gates, hypothesis life cycle, the loop's `protocol_compile`, `loop_report`, approval and stop | checked, proved about |
| `AutonomyLoopProofs` | theorems about `AutonomyLoop` | proved |
| `SessionChains` | the discovery, analysis and ideation operators, the requests that start them, compilation, the first half of the state machine | checked, proved about, refines `SessionProgress` |
| `SessionProgress` | the abstract specification of a session | |
| `SessionChainsProofs` | theorems about `SessionChains`, the refinement included | proved |
| `PatternMemory` | consolidation, upsert, decay and its schedule, verdicts, retrieval, injection | checked, proved about |
| `PatternMemoryProofs` | theorems about `PatternMemory` | proved |
| `EventStreams` | emission and commit of events and telemetry, the two streams, their clients | checked, proved about |
| `EventStreamsProofs` | theorems about `EventStreams` | proved |
| `MC...` | constants, scenarios and symmetry for TLC | |

How they fit together: `JobQueue` has the races of the queue; the other modules
contain a queue reduced to claim, settle, and the reclaim of a dead worker's row,
which is what `JobQueue` guarantees of it. `RunPipeline` has the jobs and commits
of an experiment and leaves its decisions open; `HypothesisLine` computes the
decisions and reduces the jobs to a set executed at least once. `AutonomyLoop`
takes a whole experiment as one job that ends in a recommendation.

### `JobQueue`

One step is one committed transaction, or the read of one that writes later.
`status`, `claimed_at`, `heartbeat_at` and `reclaim_count` are the columns; a
timestamp is abstracted to NULL, within `job_heartbeat_timeout_s`, or older,
which is all the reclaim query tells apart (and, as in SQL, a comparison with
NULL selects nothing). `pc`, `job`, `outcome`, `seen` are the local variables of
`main.run`; `stale`, `stale_count`, `stale_beat` are the ORM objects a reclaim
scan holds between its SELECT and its flush. The ORM writes only attributes that
differ from what it read, so a `heartbeat_at` read as NULL is not overwritten:
that is what `stale_beat` and `api.beat` record. `opened` and `claims` are
history.

`ReclaimScan`/`ReclaimCommit` are the two halves of `reclaim_stale_jobs`;
`ClaimJob` is one UPDATE with a `FOR UPDATE SKIP LOCKED` subselect, atomic, in
priority and creation order, that may pass over the row a request has locked;
`StartJob` writes by id whatever the row holds; `ReadOutcomeRow`/`SettleJob` are
the halves of the outcome transaction; `RejectedPatch` is the process ending on
`InvalidTransitionError`; `OperatorPausesItself` is `loop_decide` at a gate.
`Age` is the passing of time: while a live worker beats every few seconds the
stamps of its row do not grow old, unless `Stalls` allows a worker to fall silent.

### `RunPipeline`

`runs` is `run_records` together with what hangs off a run (its remediation
actions, reports, postmortems, signal and recommendation, as counts and flags);
`jobs` is the queue in creation order. `result` and `patch` are the
`OperatorResult` a worker carries from the operator's commit to the settlement.
`execution_setup` and `execution_run` span several transactions and external
effects (git worktree, image build, container), and are one action per commit;
the other operators commit once, `signal_classify` after a read of its own. `execution_setup` flushes the run row at its
start, so the row is locked until its commit (`RowLocked`). `api` holds the
requests between read and write. `scenario` is chosen once: who works, how many
attempts remediation has, how many faults happen.

Abstractions: metrics, verdicts, model answers and container ends are choices
over their outcomes; `select_strategy` is reduced to whether a retry is possible
at all (`HypothesisLine` computes it); the cycle is user-driven. The metric
frontier of the hypothesis line the runs belong to is one counter. As
`upsert_frontier` does, `SignalClassify` reads it without a lock (`seen`) and
`SignalCommit` writes what was read plus one, together with the signal: of two
workers the later commit overwrites the earlier count, or, when both found no
frontier, is refused by `uq_metric_frontiers_line` (`InsertRefused`) and the
operator fails. `overlapped` remembers which runs were classified while another
classification was between its read and its commit.

### `HypothesisLine`

One hypothesis line: the runs a user starts on its specs and the retries
remediation adds. `VerificationCheck` computes the verdict from thresholds,
sanity range and artifact manifest (`LineageActions` are the positions, in the
table of remediation actions, of those of a run's ancestors); `SelectStrategy`
the fix for a failed run
from its failure class and the actions of its lineage; `ClassifySignal` the
signal from the history of completed values; `UpsertFrontier` the line's best;
`Recommendation` the table of `compute_recommendation`. Metrics are integers, so
the 1 % noise band and the three-sigma test are exact. Every operator hands over
with its commit, and `repeats` lets a crash execute one again. `log` is history:
the order of classifications, against which the frontier is compared.

Facts of the code the model keeps: `stderr.log` is named but never written
(`execution/operators/run.py:84`), so no missing module is ever extracted and
`install_deps` is never chosen; a run whose artifacts are invalid has captured no
manifest, and a completed run with a misnamed artifact has no failure class, so
`repair_artifact_path` is never chosen either. Resource limits are carried along
the lineage; code and dependency patches are applied to the spec.

### `AutonomyLoop`

`policy` is the cycle's configuration, chosen once. `total`, `per` and
`last_gate` are the budget row and the snapshot of the newest `stop_gate`
decision. `DecideRead` is what `loop_decide` loads of its run and of the budget
row, which nothing locks, into `saw`. The decision is made on that:
`DecideFresh` charges, checks limit and gate, and moves the life cycle (`Act`);
`DecideResumed` is the path of a run that has a `stop_gate` decision;
`DecideRaises` the failure when it has two, or when another decision has inserted
the budget row meanwhile (`InsertRefused`). `overlap` remembers that a decision
wrote over a charge it had not read, `requeued` how many rows were put back after
a worker's death. `StartNextRun`,
`CompileFor`, `Pivot`, `Stop` and `PauseForGate` are the ends of a decision.
`CompileSpec`, `StartPrepared` and `PrepareRun` are `protocol_compile` inside the
loop, its network gate included. `ResumeGate` and `StopLoop` are the user.

### `SessionChains` and `SessionProgress`

A session is its status and the products it has stored; an operator is one
transaction that requires products, adds some, and hands over or concludes.
`MarkFailed` and `SettleFailure` are the two ways a session becomes failed (by
its operator, by the worker). Requests read their rows (`Start...`), check them
and commit later (`Commit`): `api` holds what each asked for and on what it read. The model starts at one of three points of a cycle, so that
each chain is reached with few steps.

`SessionProgress` says what a reader of the rows may rely on: a product is stored
only when what it is made from is stored, none is taken back, and a session is
called completed only while everything its chain promises is there.
`SessionChains` implements it (`ImplementsProgress`) with the mapping: kind and
products as they are, outcome `completed` or `failed` or, for every other status,
`open`.

### `PatternMemory`

One pattern row: rows of different content keys meet in no statement. A unit of
work (`ConsolidateRead`/`StorePattern`, `DecayRead`/`Demote`) reads the row, and
writes later only the columns it changed (`Written`). Timestamps are ages in
ticks, so time never ends: a tick is a day or more, and no unit of work spans
one; an age stops growing at `OldAge`, which is past twice every window, so that
no comparison of the code can tell. `OpenGate`/`EnqueueDecay` are the two transactions of `periodic.py`.
`FindRelevant`/`InjectPatterns` are the halves of a consultation.

### `EventStreams`

`rows` is `domain_events` or the telemetry of one run, in order of time. A row
gets its id when it is created and is seen when its transaction commits. Ids are
distinct and grow within a process, and that is all: between processes they are
random within a millisecond, and a process that stops between `uuid7()` and
`utcnow()` has an id older than its time, so the ids of several rows may fall below
those of several earlier rows of other processes (`NewIds`). `Poll` takes a page
(a set of rows, sent in the order of their times),
`Send` sends one frame and moves the cursor, `EndOfTelemetryPage` looks at the
run through the session's identity map (`Known`). A client connects without a
cursor or with the last id it received.

## Runs

Deadlock checking is off in every run: a system whose rows are all settled,
whose runs have concluded and whose request bound is spent rightly stops.

| Run | Asks | Bounds |
|---|---|---|
| `races` | Under any interleaving, is every execution paid for by an entry into the queue (`ClaimsPaidFor`), and is a settled row final (`SettledIsFinal`)? | 2 workers, 1 row, stalls, 1 fault, 2 requests of any kind. All races are about one row: two workers and a request are the most that meet on it at once. |
| `recovery` | Does a job that keeps killing its worker stop after `1 + job_max_reclaims` executions (`ReclaimsBeforeForceFail`), and does no row get lost (`EventuallySettles`)? | 1 worker, 2 rows of different priority, one of them self-pausing, 1 reclaim, 1 fault besides rejected patches, 1 cancel. |
| `pipeline` | Do patches fit (`PatchesFit`), is a run verified once (`OneReport`), and does it conclude (`EveryRunConcludes`), visibly after any fault or overtaking (`NoSilentLoss`)? | Three scenarios: the code's 3 remediation attempts undisturbed; 1 fault anywhere, remediation exhausted at once; 2 workers. |
| `contention` | Does a cancelled run stay cancelled under overlapping start, cancel, pause, resume and retry requests (`CancelIsFinal`)? What does the frontier's total count when classifications overlap (`FrontierCountsRuns`)? | Two scenarios. One worker and 3 requests, one start and two that overlap; no remediation, and what a worker died on is not put back (`NotReclaimed`). 2 workers, 3 runs of one line, 1 fault anywhere; `Gathered` makes the runs meet where they are counted: all are requested before a worker begins, none fails, the workers take turns until all are verified, and only a classification is executed again. Two runs collide on the first row, a third finds the row there. |
| `line` | Do frontier, signals, strategies and recommendations agree with what the runs show (`FrontierMatches`, `BestIsNoRegression`, `LimitsGrow`, `FocusedOnce`, `RetriesBounded`, `RecoveryCounts`, `PivotEarned`)? | Values 0, 100, 101 (zero, equal within the noise band, outside it); profiles below, near and above the caps; four mixes: 7 runs in turn (the stall threshold is 5), 3 runs two at a time with a repeat, 4 failures (the attempt limit is 3), 2 failures with a repeat. |
| `loop` | Does the loop stay within its budget (`WithinBudget`), honour its gates (`GateHonoured`, `NetworkApproved`) and end where the user sees it (`LoopEnds`)? | 2 hypotheses, eight policies, each with the disturbance it is about (`Bounds`): two workers whose decisions meet on one budget row, a stop for the run limit, a crash for the gate after every run, 1 or 2 approvals, a crash for the network gate, met by a rerun, a compiled variation and a pivot to a compiled hypothesis, and the network gate behind the gate after every run, met by compiled variations; 1 row put back. |
| `sessions` | Do the chains implement `SessionProgress`, is there one discovery session per cycle, is a failed session explained, is none forgotten? | 3 starting points, 2 requests out of those that fit the start, 1 crash, 1 paper, 2 cycles. |
| `patterns` | Is the evidence of a pattern real (`EvidenceBacked`), is decay scheduled once per worker and interval (`DecayPerInterval`), do only strong or approved patterns enter prompts (`InjectionBacked`, `InjectionApproved`), do dormant ones fade (`DormantForgotten`)? | 3 artifacts of 2 cycles and charters, a window of 1 tick and an interval of 2, five mixes: two inserts, two updates, growth into use, a lost worker, curation. |
| `streams` | Which rows can a stream skip or send twice, and do all others arrive? | 2 writers, 4 rows with ids in any order that grows for each writer, pages of 3, 2 connections: a page may hold an id that falls below those of several rows before it in the page, and rows may be passed by that are in order with the row before them. |
| `double_claim`, `gate_again`, `closes` | Where the code does not do what a comment or docstring says, below. | |

A larger instance was run once where it fits: two workers in `SessionChains`
without a crash (1.1 million states).

### Fairness

Weak fairness of a worker's own steps (claim, operator, settlement; operators
return because container runs and model calls have timeouts), of the reclaim
scan that recurs between claims, and of the commit of a request that was read.
In `JobQueue` also of restarting a stopped worker (a supervisor is expected to)
and of time. In `PatternMemory` time is strongly fair: days pass however often
the gate is looked at. In `EventStreams` a connected stream keeps polling.
Crashes, shutdowns, heartbeats, users, disconnections and new work carry no
obligation.

### What the exceptions in the properties stand for

Some properties state what the code guarantees, with an exception that is itself
a fact about the code:

* `EventuallySettles` excepts `Unreclaimable` rows: pause and resume between
  claim and start leave a running row with neither stamp; if its worker dies
  before the first heartbeat no scan ever selects it.
* `SettledIsFinal` speaks of rows no transaction under way is about to write
  (`HasWriter`). A cancel that commits between `claim_job` and `start_job` is
  overwritten, because `start_job` does not look at the status.
* `ReclaimsBeforeForceFail` holds for one worker process. Overlapping scans
  write the same incremented count twice.
* `PatchesFit`, `OneReport` and `EveryRunConcludes` are about one experiment
  (one request) and one worker that does not fail. A second experiment of a cycle
  asks for `verifying -> verifying`, which `state_machine.py` refuses: the worker
  dies on it, again after each reclaim.
* `EveryRunConcludes` and `NoSilentLoss` count an `Abandoned` run as concluded:
  a run that fails in setup, or whose container raises, is never verified and
  gets no recommendation, though `recommend` is described as producing one "for
  every terminal run".
* `CancelIsFinal` waits for the worker: `execution_run` overwrites the status of
  a run that was cancelled, and even retried, while its container ran. It also
  excepts runs whose execution was `Revived`. When a cancel overlaps a resume,
  `execution_run`'s last commit may write cancelled over the resume, whose job
  still waits and is then executed; and a job cancelled between claim and start
  is started anyway, so that after a crash the scan puts the job of a cancelled
  run back into the queue.
* `RetriesBounded` bounds chains, not the number of retry runs: a re-executed
  `auto_remediate` creates a sibling.
* `FrontierCountsRuns` bounds `total_runs` from both sides. Below, it lacks only
  runs that were classified while another classification was between its read
  and its commit (`overlapped`): their counts overwrite each other. Above, each
  fault may add one: `signal_classify` upserts its signal, but `upsert_frontier`
  adds again.
* `BestIsNoRegression` requires a comparable history: the history of a run holds
  runs that failed verification and runs that completed after it, so a new best
  may be called regressing.
* `RecoveryCounts` requires that nothing was executed twice. A failure that
  remediation skipped counts as resolved ("Remediation resolved the failure").
* `WithinBudget` adds one run per re-executed job: a crash after `loop_decide`'s
  commit enqueues a second iteration. It excepts decisions that overwrite each
  other's charge, because `increment_budget` writes what it computed from an
  unlocked read; that takes two workers and a job executed again, which is its
  second conjunct.
* `GateHonoured` requires that nothing was executed twice: any earlier
  `stop_gate` decision of the run is taken for an approval, so a crash at a gate
  passes it.
* `NetworkApproved` is about policies without the gate after every run. With it,
  `evaluate_gates` returns `after_every_run` for every spec, the operators about
  to run a spec pause for the hardware and network gates only, and a spec that
  needs the network is run without its approval (below); what is left
  is the approval of the run before it (`GateHonoured`).
* `LoopEnds` excepts a manual stop, which cancels the jobs and moves the cycle only
  out of two statuses, and a resume
  that lands between the operator's pause and the settlement: it is overwritten
  with completed, and the loop goes quiet.
* `FailureExplained` accepts a job still to be settled, and `NoSessionForgotten`
  an open session with a failed job: force-failed rows leave their session open.
* `InjectionBacked` is about the default policy: `min_confidence_auto` (0.7) and
  `cross_charter_weight_boost` (1.15) can be set in a cycle's configuration, and
  a lower threshold lets patterns with less behind them in. `InjectionApproved`
  is about the first injection of a tier into a cycle: `applied` is a set, so a
  repeated injection adds nothing to it and is not judged again.
* `DecayPerInterval` is per worker: the gate is read before it is written. The
  decay jobs of an interval are all enqueued in one tick.
* `SkippedOnlyIfOvertaken` names the two ways an event is lost to a stream: its
  transaction commits after a greater id was polled, or the client was sent an
  earlier row with a greater id, not necessarily the row just before
  (`Disordered`). The comment "UUIDv7 IDs are time-sortable, so id > cursor
  works" holds only without both. `SentTwiceOnlyIfDisordered` excepts the rows
  that a later row with a smaller id, any number of places on, moved the cursor
  behind (`Overtook`).
* `EveryRowArrives` excepts a telemetry stream opened after its run has ended: it
  sends one page of 100 rows and says done.

### Findings

* `double_claim`: two workers' reclaim scans overlap; the second returns to the
  queue a row the first is already executing again.
* `gate_again`: a `loop_decide` resumed at the network gate evaluates the gates
  of the spec again, pauses again and writes a second decision for the run; the
  next resume fails on the two rows.
* `closes`: a telemetry stream opened before the run ended never notices that it
  ended, because `db.get` returns the run its session already holds.

Read along the way, and not the subject of a run:

* With the gates after every run and before network-enabled execution both
  configured, the first hides the second: `evaluate_gates` returns
  `after_every_run` (`gates.py:60`) also for the spec that is about to run, and
  `loop_decide.py:391` and `compile.py:409` pause for the hardware and network
  gates only. A spec that needs the network, compiled after the gate of the run
  before it was resumed, is run without anyone having approved it, though the
  design lists both gates (`co_scientist_system_patterns.md:683`, `:687`). TLC
  finds it in the policy `Masked` when `NetworkApproved` loses its exception;
* `hypothesis_generate` reads a key that is never set (`generate.py:188`), so
  ideation fails whenever there is evidence; the model's later ideation steps
  start from a session of an earlier release.
* Two overlapping consolidations write an older aggregate over a higher
  confidence, though `upsert.py` says a confidence is never lowered on
  reinforcement; decay from a stale read may overwrite a reinforcement's tier; a
  colliding insert fails the whole consolidation.
* `compute_confidence` grants 0.45 and 0.75 where its docstring says 0.55 and
  0.80; `decay` is not idempotent as its docstring says; a charter's rejection
  does not override a global approval.
* A signal may be "breakthrough" for a value far below the best (five runs at
  100, one at 0, then 1); noisy and regressing lines never pivot; a "skip" counts
  as a focused strategy tried; a timeout of 1 s cannot be raised.
* A request that read a cycle before another moved it can move it back.

## Proofs

Every theorem is about `Spec`, for every value of the constants that the module's
named assumption allows; those assumptions are the types of the constants, and
TLC evaluates them in every run. Beyond the types, `RunPipeline` and
`PatternMemory` assume finitely many workers, `AutonomyLoop` that a policy has a
run limit (without one the loop need not end), `PatternMemory` that `OldAge` is
past twice every window and that a behaviour's artifacts are among those declared,
and one theorem of the queue assumes one worker process (`OneWorker`), which is
what the property is about.
Each inductive invariant was model-checked before it was proved.

**`JobQueueProofs`**

* `QueueTypeOK`: `TypeOK` alone is not inductive: the writes by id are typed only
  because a worker between claim and settlement holds a row (`BusyHoldsRow`).
* `QueueSettledIsFinal`: from the action lemma `SettledStep` (one case per
  action: which rows can it write, and why none of them is settled).
* `QueueClaimsPaidFor`: a claim is allowed because a *waiting* row has an entry no
  claim has used (`WaitingIsUnused`), and creating a row keeps that only if rows
  not yet created are untouched (`WithinTable`). `PaidInv` is their conjunction.
* `QueueReclaimsBeforeForceFail`: for one worker, the count a scan has read is the
  row's count when it writes (`ScanIsCurrent`), and entries are the creation, the
  reclaims and the accepted requests (`EntriesCounted`).

**`RunPipelineProofs`** first reduces each action to its *effect*
on the rows (`Claims`, `Returns`, `Settles`, `Withdraws`, ...; `StepHasEffect`), so
that each invariant is proved once per effect. `Inv` is

* `TypeOK` and `Held`: what a worker is in the middle of agrees with the job it
  holds, which is not pending and has no other holder;
* `OneStrand`: of a run whose execution was not revived at most one execution job
  waits or is worked on, and none waits if the run is cancelled. A cancel takes
  one job with it, so without this a second job could survive it;
* `Recounted`: the frontier, and what each classification under way has read of
  it (`Totals`), is at least the runs classified apart, and together with the
  classifications that may be executed once more at most the classified runs plus
  the faults. `FrontierCountsRuns` itself is not inductive: what a worker has read
  is written back later, and a crash comes before the second count. It needs
  `Reported`, two classification jobs of a run mean two reports, on which
  `signal_classify` fails, and `OneClassifier`, two workers never classify the
  same run, so that whoever writes counts a run that was not counted or one that
  may be counted again;
* `InTurn`: with one worker, one experiment and no fault there is one waiting or
  executing job, and the status the cycle has or is about to get (`Ahead`) is the
  one its operator expects.

From it: `PipelineTypeOK`, `PipelineCancelIsFinal` (with the action lemma
`CancelledStep`), `PipelineFrontierCounts`, `PipelinePatchesFit` and
`PipelineOneReport`.

**`HypothesisLineProofs`**: `LineTypeOK`, `LineFrontierMatches`,
`LineBestIsNoRegression`, `LineLimitsGrow`, `LineFocusedOnce`,
`LineRetriesBounded`, `LineRecoveryCounts`, `LinePivotEarned`. The invariant adds
that the jobs of a run agree with what was decided on it (`RunsSound`); that a
lineage is at most one longer than its actions (`RetriesPaid`, the bound is then
`select_strategy`'s comparison); that a run that was acted on has no focused fix
left (`FocusIsSpent`, because a re-executed `auto_remediate` sees its own earlier
action) and that parents were acted on (`ParentsActed`); that nothing is done
twice while nothing is executed twice (`DoneOnce`); and that positions of the log
that repeat a run are paid for by repeats (`RepeatsCounted`). A lineage is a
recursive function on the run ids; that it exists, and that a lineage is its run
and the lineage of its parent, is proved by a least counterexample (`LeastIn`),
since a parent is older than its retry.

**`SessionChainsProofs`**: `ChainsTypeOK`, `ChainsOneDiscovery`,
`ChainsFailureExplained` and the refinement `ChainsImplementProgress`. The
invariant says that jobs find what their operator needs stored (`JobsReady`), that
products come from stored ones and completed sessions have what is promised
(`SessionsSound`), that a failed session has a job which is not and will not be
completed (`FailureHasCulprit`), that a cycle with a discovery session has its
profile row (`ProfileTaken`), one holder per job, and that requests under way
refer to rows that exist. Initial states map to initial states; every action maps
to a step of `SessionProgress` or to a stutter.

**`PatternMemoryProofs`**: `MemoryIsTyped`, `MemoryEvidenceBacked`,
`MemoryInjectionBacked`, `MemoryInjectionApproved`, `MemoryDecayPerInterval`. Not only the row but what
units of work are about to write (`UnitsBacked`) and what a consultation has read
(`ConsultBacked`) is backed by observations. Confidence is monotone in artifacts
and charters, so a stale aggregate claims too little, never too much; that the
injection threshold needs three artifacts, or five of one charter, is arithmetic
of `ComputeConfidence`. For `MemoryDecayPerInterval`, `GateCounts`: decay jobs younger
than the interval are as old as the gate's stamp, they and the workers that found
the gate open are together no more than the workers, and no worker carries an open
gate over a tick.

**`AutonomyLoopProofs`**: `LoopTypeOK`, `LoopWithinBudget`, `LoopGateHonoured`,
`LoopNetworkApproved`. The argument is about *tokens*, the jobs that may still
lead to a run: those that wait, are paused or are worked on, the report excepted.
Each action is first reduced to what it does to them (`Quiet`, `Passes`, `Hands`,
`StartsNew`, `Waits`, `Compiles`, `Pauses`, `Ends`, `Resumes`), and each part of
the invariant is proved once per kind. `Inv` is

* `TypeOK` and `SawBehind`: a gate's snapshot is not ahead of the budget because
  no decision has read more than the budget holds;
* `WorkersHold`: one worker per row, and a decision has read no more gates than
  its run has; `OnlyStarted`: nothing but the report is done for a run that was
  not started;
* `Covered`, for `WithinBudget`, which is not inductive by itself: the runs started
  plus the tokens are at most the charges that left room (`Charged`), the rows put
  back, and the runs whose decision is still to come (`ToCharge`). A token is
  spent, passed on, or turned into a run together with a charge; a reclaim is the
  only step that makes a token from nothing. As every run to be decided has a
  token, the runs started are at most the charges and the rows put back, and the
  limits bound the charges;
* `SingleToken`: while nothing is executed twice there is one token, and what a
  decision has read is what the tables hold. So decisions overlap only after a
  re-execution, the second half of `WithinBudget`;
* `InPhase`, for `GateHonoured`: where the token is in the round since the last
  gate. Before its decision, the runs started are at most those of the approved
  rounds and the charges since; after it, one less; at a gate, no charge has
  been made since;
* `PreparedApproved`, for `NetworkApproved`: the row of a prepared run that was
  not approved is paused or cancelled, and no worker is on it.

Cardinalities, and the product of rounds and runs per round, are why the proof is
long: the provers do each comparison of sets and each piece of arithmetic alone.

**`EventStreamsProofs`**: `StreamsTypeOK`, `StreamsSkipOnlyOvertaken`,
`StreamsSendOnce`. Of ids the invariant says only that they are distinct
(`IdsDistinct`), so the theorems hold for ids in any order. It relates the cursor
to the last row sent (`CursorFollows`), and says of the page in hand what the two
properties say of the rows sent, because a row is passed by when the page is
selected and not when it is sent.

Only model-checked:

* liveness (`EventuallySettles`, `EveryRunConcludes`, `NoSilentLoss`, `LoopEnds`,
  `NoSessionForgotten`, `DormantForgotten`, `EveryRowArrives`): the prover has no
  support for fairness and `ENABLED`.

No module declares a `RECURSIVE` operator, so that all of them can be proved about.

## Plan

The modules are complete and every safety property of a passing run is proved.
What could be added is listed below, under what is not modelled.

## Not modelled

* Adapters (language models, arXiv, PDF and HTML ingestion, embeddings, graph,
  reranker, Docker's own API) are I/O; their answers and failures are choices in
  the operators' models.
* Skills, prompts, reports, context summaries and views are text.
* The CLI and the pilot harness call services that are modelled;
  `start_discovery_session_for_cycle`, which only the pilot uses, and
  `submit_evaluation`, which stores a rating, are left out, as is
  `analysis_status` of a paper.
* Charters are rows that are created and edited; nothing waits on them.
* Ranking and deduplication of search results are pure functions over lists, and
  the sessions only tell whether a result was stored. Reading them shows that
  the keys of deduplication (DOI, arXiv id, title) are tried in order and are not
  transitive, that the first hit wins whether or not it has an embedding, and
  that normalised scores are all 1 when fewer than two differ.
* Changing the policy of a running loop.
* The ORM classes of `libs/storage/models/` are not part of the repository;
  columns and unique constraints are read from `libs/storage/migrations/`.
