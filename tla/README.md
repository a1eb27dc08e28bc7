# Verification of Scaffold Arena

Scaffold Arena runs preregistered experiments on agent harnesses and keeps the
evidence. Its scientific claims rest on a durable execution engine (attempts
leased from a database queue, run outside the database through adapters,
evaluated independently) and on what stands around it: a registry of frozen
experiments, an evidence chain from attempts to decision briefs, review,
retention, adapters, analysis, and the older in-memory arena. This directory
models these parts in TLA+, checks them with TLC on small instances and proves
every property checked but the two about liveness with TLAPS as well, for every
instance.

File names below are relative to `backend/` of the repository.

## 1. The system's parts

| Part | Source | State | Operations |
|---|---|---|---|
| Job leases | `persistence_v1/jobs.py` | tables `jobs`, `attempts`, `executions`, events | enqueue, claim (with reclaim), heartbeat, finalize, finalize_auxiliary, request_cancel, retry |
| Attempt worker | `execution_v1/_worker_kernel.py` | the lease it holds, its asyncio tasks | run_once, run_lease, _mark_started, _execute_supervised, _terminal |
| Evaluation worker | `evaluation_v1/evaluator_worker.py`, `services_v1/evaluation.py` | the lease it holds | claim an evaluation job, evaluate, finish the auxiliary job |
| Commands and controller | `services_v1/execution.py`, `execution_v1/*controller*.py` | idempotency records | create, cancel, resume, list, follow events |
| Invocation fence | `execution_v1/invocations.py`, `fenced_worker.py` | table `invocation_records` | begin, mark_dispatch_started, observe_provider_request, admit_terminal, cancellation transitions, mark_lease_lost |
| Budget reservations | `execution_v1/reservations.py`, `reservation_policy.py` | tables `usage_ledger`, `budget_reservations` | reserve_with_aggregate, reconcile, unknown, mismatch, release, expire, reconcile_stranded, settle_open_for_invocation |
| Lifecycle model | `execution_v1/formal_model.py` | an in-memory abstraction of the two above | its own bounded breadth-first search |
| Event channel and command transport | `adapters_v1/transport.py`, `command_jsonl.py` | EventChannel, processes, results by attempt | execute, stream, cancel, clean up |
| Harness adapters | `adapters_v1/` | dictionaries by attempt key | prepare, execute, stream, cancel, clean up |
| Offline installer | `adapters_v1/offline_installer.py` | content-addressed cache, lock file | verify, lock, extract, publish |
| Factor treatments | `factors_v1/` | attempt in progress, episode memory | compile, prepare, execute, stream, append, compact |
| Registry | `services_v1/registry.py`, `protocol_v1/`, `artifacts_v1/` | study packs, artifacts, experiments | import, create, edit, approve, freeze, preflight, execute |
| Team and retention | `auth_v1/`, `persistence_v1/auth.py`, `api/v1/retention.py`, `settings.py` | logins, sessions, plans, exports, tombstones | log in, use, log out; preview, schedule, cancel, execute |
| Evidence chain | `services_v1/analysis.py`, `evidence.py`, `decision.py`, `analysis_v1/claims.py` | reports, receipts, briefs, reproductions | analyze, upload, derive, decide, reproduce |
| Analysis engine | `analysis_v1/` | none | build_analysis_report |
| Trace lab | `services_v1/trace_lab.py`, `analysis_v1/trace.py` | none | compare two attempts |
| Blind review | `services_v1/review.py`, `review_v1/`, `evaluation_v1/annotations.py` | batches, annotations, adjudications | create, submit, adjudicate, summarize |
| Forge | `services_v1/forge.py`, `forge_v1/` | proposals, approvals, receipts, safety reports, plans | propose, decide, evaluate, assess, plan |
| Replay and harness CI | `services_v1/counterfactual.py`, `replay_v1/` | replay and CI reports | replay, gate |
| Offline demo | `services_v1/offline_demo.py`, `runtime.py` | lock row, admissions, driver tasks | start, recover, drive, shut down |
| Run cockpit | `frontend/src/workbench-v1/.../useExecutionControl.ts`, `api/v1/client.ts` | page state, event stream | load, launch, cancel, resume, reload, follow |
| Legacy runs | `core/`, `api/runs.py`, `api/comparison.py`, `scaffolds/`, `evaluation/` | in-memory runs, queues, spend, `runs` table | start, stream, cancel, evict, compare, rerun |
| Trace audit | `audit/trace_audit.py`, `scripts/trace-audit.py` | none | audit saved runs |
| Evaluators, reports, exports, genome, x-ray, observatory, CLI, migrations, legacy front end | see `PROJECT.json` | none, or derived rows | pure computation or display |

How they interact. The registry freezes an experiment; the controller creates an
execution with its attempts and queued jobs under an idempotency key; workers
poll `claim`, which first reclaims expired leases of every worker. The attempt
worker wraps each adapter call in the invocation fence and in a reservation; a
supervisor task heartbeats the lease and watches for cancellation while the
adapter produces events and another task consumes them. `finalize` writes the
attempt, inserts its evaluation job and closes the execution in one transaction.
From completed executions the evidence chain builds reports, receipts and
briefs; review, trace lab and replay read the same rows. The page follows an
execution through the API's event stream. The legacy arena has its own runs,
which the trace audit reads.

What is hard:

* a worker may stall for longer than its lease at any statement and go on:
  everything it writes must be fenced by generation;
* nothing in the database shows whether an external call was made;
* whoever closes the last job must close the execution, while cancel, reclaim
  and retry run;
* the adapter's result, its buffered events, a lost lease, a timeout and the
  exit of a child process arrive in any order;
* almost every service reads in one transaction and writes in a later one, so
  another request, a retry or a crash may come in between;
* asyncio tasks, browser callbacks and several server processes share state
  through awaits, streams and singleton rows.

`PROJECT.json` lists these as hazards, each at its line, with the properties
that would catch it going wrong.

## 2. Modules

| Module | Models | Run | Proved in |
|---|---|---|---|
| `JobLease` | queue, attempt and evaluation workers, cancel, retry | `job_*`, `evaluator_failure` | `JobLeaseProofs` |
| `InvocationFence` | invocation records, reservations, the fenced worker around them | `fence_*` | `FenceProofs` |
| `PublishedResult` | what the fence promises: one result per attempt, from its newest generation | refinement in `fence_budget` | `FenceProofs` |
| `LifecycleContract` | the repository's own lifecycle model | `lifecycle_contract` | `AttemptProofs` |
| `AttemptSession` | the asyncio tasks and the command of one attempt | `attempt_session` | `AttemptProofs` |
| `StudyDesign`, `Registry` | designs, budgets and readiness; import to execution | `registry` | `RegistryProofs` |
| `TeamRetention` | logins, sessions, roles, retention plans | `team_retention` | `TeamProofs` |
| `ClaimRules`, `EvidenceChain` | rules of claims; attempts to briefs | `evidence_chain` | `EvidenceProofs` |
| `LegacyRuns` | the in-memory arena | `workbench` | `WorkbenchProofs` |
| `BlindReview` | review batches and adjudication | `workbench` | `HarnessProofs` |
| `Adapters` | nine kinds of harness adapter | `workbench` | `HarnessProofs` |
| `OfflineInstaller` | adapter archives into the cache | `workbench` | `HarnessProofs` |
| `TraceLab` | comparison of two traces | `workbench` | `HarnessProofs` |
| `Analysis` | the statistical engine on exact fractions | `workbench` | `WorkbenchProofs` |
| `OfflineDemo` | the single-slot demonstration | `workbench` | `HarnessProofs` |
| `ExecutionControl` | the run cockpit and its stream | `workbench` | `HarnessProofs` |
| `FactorAdapter` | treatments and episode memory | `workbench` | `WorkbenchProofs` |
| `ForgeCustody` | proposals to evolution receipts, planner | `workbench` | `HarnessProofs` |
| `ReplayCI` | counterfactual replay and the CI gate | `workbench` | `HarnessProofs` |
| `TraceAudit` | the audit of saved runs | `workbench` | `WorkbenchProofs` |
| `Workbench` | the fourteen parts above that share no state | `workbench` | |

Modules whose name begins with `MC` give the constants of a run.

### JobLease

One execution. `jobs` and `attempts` are functions from identifiers to rows;
rows not inserted yet are `absent`. Each transaction is one action with the
whole effect of the code's transaction: `Claim` includes the reclaim of every
expired row and the consequences for their attempts; `Finalize` writes the job,
the attempt, the follow-up evaluation job and the execution. Between
transactions a worker is at a `phase` of `run_once`; `Crash` may take it at any
phase, and because no action requires a live lease unless the code compares it,
a stalled worker is simply one that acts late. `_mark_started` in particular is
not fenced in the code and not in the model.

Time is relative: a leased row carries the ticks until it may be reclaimed
(lease plus grace), a queued row the ticks of its backoff. The uuid token of a
lease is named by the generation it was drawn for. `claim` takes the oldest row
it can lock; the model takes any, which covers every order. Two workers can
have one owner name, since the code does not prevent it.

The cancel command is modelled statement by statement: read the open jobs,
request each in its own transaction, refresh the execution. It may die between
any two, and the jobs may have changed since they were read.

### InvocationFence and PublishedResult

The provider boundary of the same worker. The job table is reduced to what the
fence reads (status, generation, whether the lease is live). A worker walks
through `run_lease` by its `pc`: begin, reserve (look up, then insert: two
transactions), dispatch, observe, admit, reconcile, finish, and on the way out
mark the lost lease, settle and synchronize. Any active worker may fail, be
abandoned or crash at every point. The external provider is represented by what
it returns: request identities and result digests, which two generations can
share because they send the same idempotency key. `Maintenance` enables
release, expire and reconcile_stranded, which operators may call at any time.

Rows of the ledger are in insertion order, which the code reads from
`created_at`. Token and tool-call limits behave like the cost limit and are
left out; prices are integers. The guard of `mark_transport_context` is implied
by that of the dispatch that follows it. A winning cancellation and a failure
both appear as job status "closed".

`PublishedResult` is the abstract specification: attempts pass through
increasing generations, and publish at most one result each, never one that
another attempt published. `PublishesOnce` maps the newest begun generation and
the digest of a completed job onto it.

### LifecycleContract

A transition-by-transition translation of `formal_model.py`, which the
repository searches to depth eight. TLC exhausts its state space for two
generations and two results; the proofs drop both bounds.

### AttemptSession

Inside one `run_lease`: `_execute_supervised` with its execute, event and
supervisor tasks, the `EventChannel`, the JSONL parser, and the child process
of the command adapter. asyncio tasks switch only where they await, so an
action is the code from one await to the next. Trace events are counted, since
the channel never reorders them.

Modelled in full: the `finally` block, which cancels every unfinished task and
then awaits supervisor, event task and execute task in this order, so that an
exception of an earlier one leaves the execute task un-awaited; the three places
where `CancelledError` reaches `execute_attempt`; the handler-less
`RuntimeError` of an emit into a closed channel; and stderr going over its
bound while the reader of stdout goes on.

Abstractions: `Spawned` waits while the supervisor has ended, because main then
cancels the execute task within two turns of the event loop, before a new
command's first record could be refused by a closed channel. The adapter's own
timeout starts later than main's and is never shorter, so it does not fire
first. `_cancel_with_timeout` and `cleanup_attempt` call the same
`cancel_attempt` and are one action.

### Registry, StudyDesign

A handler is a request in flight, cut wherever the code leaves one transaction
or the artifact store; it may die at every cut. `StudyDesign` holds the pure
computations: arms of full, fractional, one-at-a-time and custom designs, the
matrix the controller will create, the readiness of a pack and the blockers of a
preflight. The registry's count of attempts and the controller's matrix are
translated separately, so that `JobsWithinBudget` compares two computations.
Archive limits are applied to abstract bodies (size, entries, packed size).

### TeamRetention

OIDC login transactions, opaque sessions, roles, settings and retention plans.
A SELECT and the UPDATE after it are two steps wherever no row is locked between
them. Executing a plan exports the project, verifies the export, locks the plan,
compares the project with the snapshot and purges expired idempotency records.
Rows the purge does not touch are a revision number.

### EvidenceChain, ClaimRules

Attempts are captured, evaluated and retried by the workers; requests analyse,
derive receipts, decide and reproduce, each from reads made before the
transaction that inserts. The artifact store may lose bytes. `ClaimRules` is the
ledger of `analysis_v1/claims.py`: blockers and disposition of a claim, ceiling
and verdict of a brief, and the holds the decision service adds.

### Workbench

Fourteen parts in twelve modules that write nothing another part reads. A product
of independent systems satisfies an invariant of one part exactly if that part
alone does, so each behaviour moves one part and the state space is the sum of
theirs. Where a part reads rows of the core (executions, events, attempts), the
module writes them by its own actions, free to do what the core may do.

* `LegacyRuns`: the run engine's tasks from await to await; one coroutine per
  position of the requested list, in which a scaffold may be repeated, with its
  calls, retries and budget checks; evaluation; finalization and persistence;
  comparisons and patch reruns; subscribers of the shared queue; idempotency;
  eviction; shutdown. Text is present or absent, delta events are left out.
* `BlindReview`: an action is one transaction; what a handler read in an earlier
  one stays in its local state. The library's own definition of a complete
  protocol is translated beside the service's.
* `Adapters`: one attempt in the life of one adapter of nine kinds, prepared up
  to twice; replies of a provider are reduced to the classes the checks tell
  apart; the local runtime's identity changes at any time.
* `OfflineInstaller`: an action is one file-system call.
* `TraceLab`: reads of row and events are two transactions beside workers that
  write; alignment is the two-row dynamic program of the code.
* `Analysis`: a behaviour is one report; rates and p-values are exact fractions.
  The sign-flip test enumerates its assignments as the code does up to sixteen
  clusters.
* `OfflineDemo`: two API processes, the singleton lock row, admissions, creation
  and binding in separate transactions, driver tasks that time out, are cancelled
  or die, recovery.
* `ExecutionControl`: requests are sent, served and delivered in three steps; the
  stream reconnects from its cursor; setting state, rendering and effects are one
  step.
* `FactorAdapter`: overlapping calls of the decorating adapter; the memory is
  byte-counted. The worker prepares again only after its own calls are over.
* `ForgeCustody`, `ReplayCI`: validation, artifact and commit are separate steps;
  decimals are integers.
* `TraceAudit`: a behaviour is one audit; texts are sets of phrases.

## 3. Runs

| Run | Instance | Distinct states | Shows |
|---|---|---|---|
| `job_retry` | 1 episode, 2 attempts, 1 attempt worker, 1 evaluator, 2 generations | 541 thousand | rows agree through cancel, crash, reclaim and retry |
| `job_generations` | 1 attempt, 2 attempt workers of one owner name, 3 generations, fairness | 40 thousand | stale generations are fenced, cancellation survives reclaim, every job settles |
| `evaluator_failure` | 1 attempt, 2 generations | violation | see section 6 |
| `fence_generations` | 1 attempt, 2 workers, 2 generations, 2 overlapping cancels, maintenance | 1.8 million | takeover, admission, settlement and cancellation |
| `fence_budget` | 2 attempts, budget for one | 183 thousand | the aggregate budget, and refinement of `PublishedResult` |
| `fence_released_dispatch` | 1 attempt, 2 generations | violation | see section 6 |
| `lifecycle_contract` | 2 generations, 2 results | 151 thousand | the contract without a depth bound |
| `attempt_session` | 3 events, 1 pending, fairness | 13 thousand | trace completeness, cancellation, no process left, termination |
| `registry` | 2 requests, 2 versions, 3 definitions, 2 experiments, 1 key | 53 thousand | import, edit, approve, freeze and execute in any order |
| `team_retention` | 2 requests, 1 login, 1 plan, 1 key, 3 ticks | 1.8 million | logins, plans, purge |
| `evidence_chain` | 2 requests, 1 live and 1 fixture execution, 2 attempts, 1 lost artifact | 1.1 million | reports, receipts and briefs beside retries |
| `workbench` | one section of `MCWorkbench` per part | 839 thousand | the fourteen parts |

The bounds. Two attempts of one episode are the least with which retry reopens
an execution; with the evaluation jobs there are four jobs to close in any
order. Three generations pass through each of the backoff's values and the cap;
two already contain every takeover, since a generation only meets its
predecessor's leftovers. Two workers are enough for one to be stale while the
other owns the job. One tick of lease and grace separates live, expired and
reclaimable. A budget of 3 with reservations of 2 covers one attempt and not
the other. One pending event of three makes the producer block.

Two requests in flight let one read what the other makes stale; a third would
only repeat a race. Definitions of `registry` are one that fits its budget
exactly, one that misses it by one attempt and one whose design leaves a single
arm. In `evidence_chain` a third attempt brings one case more, a report built
while the evaluation of a retried attempt is still queued; `EvidenceProofs`
covers every length. `DemoExecutions` bounds the executions the demo may create,
`MaxReports` the replay and CI reports, `MaxEvents`, `MaxRequests` and
`MaxReconnects` the page, `MaxPrepares`, `MaxSessions` and `MaxAppends` the
adapters and the memory: each admits one repetition of what its part does.

Larger instances of the parts of `workbench` were explored once as well, without
a violation: two attempts and two scores in the review, three installers, three
demo keys or three demo executions, eight appends to the memory, three prepares,
two requests or two reconnects of the page, three sessions, three forge clients,
two replay reports, four trace events; two legacy runs to 3.5 million states.

Deadlock is checked for `JobLease`, which can always tick, reclaim, claim or be
cancelled again; the other systems end when their work does.

Every property has a mutant of the code's logic (a dropped guard, an off-by-one,
a missing reset) that breaks it in its run; the mutated definitions stand before
the originals and are listed in `PROJECT.json`.

### Fairness

`JobLease!Fairness`: time passes; claims, which reclaim, are polled for ever by
the worker loops; a worker that did not die finishes what it runs, since adapters
are bounded by a timeout; a cancel command that did not die goes on. Nothing
obliges anyone to heartbeat, crash, cancel or retry. A worker may crash every
time: the generation cap makes the job settle nevertheless.

`AttemptSession!FairSpec`: the event loop runs every task that can run, main's
timeout fires, and a signalled process ends while somebody waits for it, because
`_terminate_process` follows SIGTERM by SIGKILL. The command need not write,
read or exit on its own.

The other modules state safety only.

## 4. Proofs

All theorems hold for every value of the constants that satisfies the named
assumptions of the modules:

* core: finite nonempty episodes, positive lease, grace and generation cap, a
  backoff cap between one and four times its base, NULL values outside the value
  sets; positive `max_pending_events` not above `max_events`; finite attempts,
  natural prices and limits in the fence;
* registry, team, evidence: definitions and uploads that name the project's own
  experiments and versions, finite designs with at least one scenario, harness and
  repetition, natural times, outcomes of attempts that have ended, claims that link
  to receipts a request can name;
* the rest: NULL values and placeholders outside the value sets, scaffolds with a
  cost and an overall limit, finite raters and designs, distinct design ids, natural
  scores, costs and budgets, positive bounds of the memory and sizes of its items;
* the laboratory, the audit and the analysis: traces are sequences, the records of a
  trace file have run and scaffold ids that can be compared, an absent field is
  neither a scaffold nor a score, alpha lies between zero and one, the measurements
  of an episode are numbers, and scaffolds are ordered by name.

They are stated where the constants are declared, and TLC evaluates each of them
in the run of its module.

**`JobLeaseProofs`** first proves `TypeCorrect`: every action yields well-formed
rows, by one lemma per row update. It then proves `Spec => []IInv`, and from it
`RowsAgree` (by way of `ExecutionTruth`, `NoOrphanedExecution` and
`AttemptFollowsJob`), `ResultFromLastGeneration`, `CancellationWins`,
`GenerationsBounded`, `CompletedMeansEvaluated` and the action properties
`TerminalsAreFinal` and `EvidenceChangesOnlyWithEvaluationJob`. None of them is
inductive by itself. `IInv` adds:

* `LeaseShape`: the token of a running row is that of its last claim, and a
  queued row is below the cap. Without it a finalize could carry an old token;
* `HeldShape`: a process holds leases of its kind, and one that says it has
  evaluated left an evaluation. Without it a completed evaluation job proves
  nothing about the evaluation;
* `PairShape`, `EvaluationShape`: attempt row, attempt job and evaluation job
  move in one order, and a captured outcome stands until the evaluation job is
  cancelled or fails. This carries `CompletedMeansEvaluated`, and it makes the
  attempt job of a terminal attempt terminal, so that only the evaluation job can
  still touch its evidence.

There is one lemma per action that changes rows, resting on facts about which
rows are open before and after (`StillOpen`, `Settled`, `SameStatuses`).

**`AttemptProofs`** proves for `AttemptSession` `Spec => []SInv` and from it
`ResultIsFit`, `NoCommandLeftRunning` and the bound of the channel. `SInv` relates
pairs of tasks: what the consumer has stored to the channel (`StreamShape`), main's
position to the tasks it has awaited (`MainShape`), a cancellation to the result
that may follow it (`CancelShape`), and the command to the adapter's
registration of it (`CommandShape`: an open channel as long as an unsignalled
command is read, which is why the refused emit is harmless). For
`LifecycleContract` it proves `ContractIsKept`, whose conjuncts are inductive
together, and the action property `LifecycleIsMonotone`.

**`FenceProofs`** proves `OneGenerationRules`, `CompletedFromCurrent`,
`BoundDispatchIsCharged`, the action property `SettlementIsFinal` and the
refinement of `PublishedResult`, for any attempts, workers, generations, prices,
request identities and results. The inductive invariant `FInv` adds:

* `OneHolder`: no two workers hold one generation of an attempt, though several
  hold different ones. A row is therefore written by its own worker and made
  stale by a successor, by nobody else;
* `WorkerFits`: a worker past `begin` has its row, one past `reserve` a
  reservation; one with an admitted result is still current or has a successor,
  and only workers on their way out remain at the generation of a completed job.
  Without it a late `mark_lease_lost` could fence a published result;
* `InvocationFits`, `JobFits`: rows exist only for claimed generations, and a
  dispatched row says that something may have been sent;
* `RowsPerGeneration`: the reservations of an attempt, and the generations that
  may still make one, are no more than its claims. It bounds the ledger.

All actions but two are *moves* of existing rows: the lemma `MovesKeep` shows once
that jobs, invocations, workers and ledger that each moved legally keep `FInv` and
take a step of `PublishedResult` or none, and every action has a lemma that it is
such a move. `Claim` and `Begin` introduce a generation and are proved directly.

`BudgetRespected` rests on `BudgetInv`: the count and the sum of the charges of
all charged rows stay within the limits, and an open row has no price yet, so that
it is charged in full. A settlement then replaces a charge by one that is not
greater (`RowSettles`), and a new row is admitted by the same sum the invariant
speaks of.

**`RegistryProofs`** proves `FrozenIsFinal`, `FrozenWasApproved` and
`RegistryIsSound` (readable bytes, one execution per key) for any number of
requests, versions, definitions and keys. The invariant `RInv` says what a
request in flight may still rely on: bytes it stored are there when it registers
them, an experiment it saw exists when it updates or freezes it, and the hash it
carries to the controller is that of a frozen row (`StoredShape`, `HandlerShape`,
`ExecutionShape`). Approval and content it does not rely on: freeze compares them
again in its own transaction, which `RowShape` records. `JobsWithinBudget` adds
`PassedShape` (whatever is about to be created passed its preflight, and so does
its definition still, because it is frozen) and the arithmetic behind it: the
attempts the registry counts and the jobs the controller's matrix holds are
counted separately and shown to agree for every finite design.

**`TeamProofs`** proves `LoginsAreSound`, `ExecutedOnce` and
`PurgedIsRecoverable`. `LoginInv`: the callback that won the update of a login has
it alone until its session is inserted. `RetentionInv`: a request past its export
holds the snapshot its plan binds, and tombstones and executed plans correspond one
to one. Neither mentions the lock of the plan row; the second comparison inside
the purging transaction is what the induction uses.

**`EvidenceProofs`** proves `ReportMatchesEvidence`, `WriteOnce` and
`BriefIsBacked` for any executions, retries and requests. The inductive invariant
`EInv` says that the chain a request carries, and the one a report stores, is
`Settled`: its attempts have ended, so no capture touches them; its last attempt is
evaluated, so no evaluation does; and a retry only appends. `RowsMoveOn` states
what each kind of step does to the rows, one lemma per step. `BriefInv` adds, for
what is stored and for what a request carries to its insert, that a receipt derives
from ended attempts and that a brief's claims are backed by receipts stored by
then; receipts are never replaced, so a backed brief stays backed.

**`HarnessProofs`** and **`WorkbenchProofs`** take the parts of `Workbench` one by
one: each has an invariant over its own variables, a lemma per action, and a
theorem about the composed specification, in which the other parts leave those
variables alone. The second holds the parts that count (memory, legacy runs, audit,
analysis), which share lemmas on sums and ranks.

* `InstalledStays` (`InstallerInv`): the lock is not mentioned. `mkdir` admits one
  process to the target, from then on only that process writes below it
  (`ProcessShape`), and a process that fails takes away only a target it still owns
  (`InventoryShape`).
* `ReviewIsSettled` (`ReviewInv`): an adjudication in flight was checked against a
  fully annotated item, and annotations of such an item no longer change.
* `DemoOwnsTheSlot` (`DemoInv`): the slot names an admission (`SlotShape`), a
  recorded answer is the execution its admission created (`RecordShape`), and every
  live execution is the one the slot is bound to or would recover
  (`LiveIsInSlot`). The last is what creation before binding endangers.
* `PageIsTrue` (`ControlInv`): the server's log is a whole prefix (`LogFits`), a
  request knows whether it was overtaken (`RequestsFit`), and the frames of a
  stream continue its cursor (`FeedFits`).
* `CompleteIsTruthful`, `OvershootIsBounded` (`LegacyInv`): `Story` relates the
  state of a run to its coroutines, its last event and its stored row; `Spending`
  says that what is spent, plus the ceiling of one call for each coroutine between
  its check and its charge, stays below the limit plus one call per coroutine.
* `ForgeIsSound` (`CustodyInv`, `PlanInv`): an evaluation in flight has earned its
  receipt by rows that no step withdraws; a stored plan is the report of a valid
  request, and such a report selects by rank within its budget.
* `PassIsEarned` (`ReplayInv`): a gate judges a stored replay; the sums of the two
  sides are compared pair by pair (`SumIsLinear`).
* `ResultMatchesTrace` (`AdapterInv`): for each of the nine kinds, what the row
  holds while a call is open (`AdapterRowShape`, `ExecutionShape`) and what its
  result says of trace and artifacts afterwards (`ResultShape`).
* `TreatmentIsAccounted` (`FactorInv`, `MemoryInv`): the lock admits one caller per
  preparation, and what it stores is what followers are told (`LockShape`,
  `DeliveryShape`, `FollowerShape`). The memory's items partition what was
  appended, each with the bytes of what it stands for (`Accounts`); a round of
  compaction preserves this and loses one item, so the loop ends within the bounds.
* `LabIsSound` (`LabInv`): the two tables of the alignment are shown to exist on
  their grid; by induction on the grid no matching of two prefixes scores more than
  the cell they meet in, and the rows read back from the last cell score exactly
  that. `LabInv` adds why a diagnosis may read row and events in two transactions:
  the row comes first, and nothing is written after a terminal row.
* `AuditIsSound` (`AuditInv`, `StoredInv`): `Represents` relates a list of findings
  to the set it stands for. One merge keeps it, and with it the fold over a list;
  so does the sort, whose places are a bijection because the order is linear; and
  it composes, which is why merging per record and again over all records loses
  nothing. The counts are sums over the classes of a partition. `StoredInv` says
  that a stored row holds a winner chosen by one of the engine's two rules, and both
  take the first of the highest scores, as the audit does.
* `AnalysisIsExact` (`AnalysisInv`: a report is the one its study gives). Fractions
  form a total preorder under `Leq`, and the places of the p-values are a bijection
  onto 1..n that respects it. Holm's running maximum is then the closed family of
  Bonferroni tests (a subfamily is tested by its first place, and the hardest
  subfamily that starts at a place holds all the later ones), and the running
  minimum of Benjamini and Hochberg the largest set within its share (the effects
  up to the last place that passes). The minimum
  sufficient profile exists by a lexicographic minimum in five stages, and a
  dominance on finitely many candidates has maximal elements. The figures rest on
  sums over finite sets: over profiles as a partition of the records, over the two
  arms of an effect as reindexed buckets, and over the first k repeats by rank.
  Records are as many as episodes because `validate_input` counts their units.

Sums and loops are recursive functions. Such a function has to be shown to exist
before it can be unfolded; the proofs do so for initial parts of its domain, and then
show that sums split over disjoint sets and depend on their terms only. All of this
is induction on natural numbers, in the form of `SetInduction`: a set of numbers that
holds 0 and with n also n + 1 holds all of them, which follows from the inclusion of
finite sets being well founded. Induction theorems about a formula cannot be
instantiated by the provers, so that each statement is first made a set of numbers.

Only model-checked: `JobsSettle` and `SessionEnds`, which are liveness under
fairness and out of the provers' reach.

## 5. What the properties say

* `RowsAgree`: rows are well formed; a terminal execution status is what its jobs
  add up to; no execution stays open after its last job, except after a cancel
  command that died before its refresh; the attempt row follows its job.
* `ResultFromLastGeneration`, `CancellationWins`: fencing.
  `CompletedMeansEvaluated`: no completed execution without evaluations.
  `EvidenceChangesOnlyWithEvaluationJob`: the only two ways to lose evidence.
* `OneGenerationRules`, `CompletedFromCurrent`: takeovers leave one current
  generation, one owner per result, and only an admitted result completes a job.
  `BoundDispatchIsCharged`, `SettlementIsFinal`, `BudgetRespected`: a reservation
  bound to a dispatched invocation is never free, and settlements stand.
* `ResultIsFit`, `NoCommandLeftRunning`, `SessionEnds`: one attempt in the worker.
* `RegistryIsSound`, `FrozenIsFinal`, `FrozenWasApproved`, `JobsWithinBudget`:
  rows point at readable bytes, a key gives one execution, what is frozen was
  approved and never changes, and the matrix fits the budget preflight passed.
* `LoginsAreSound`, `ExecutedOnce`, `PurgedIsRecoverable`: one session per login,
  one purge per plan, and every purged record in the export its tombstone names.
* `ReportMatchesEvidence`, `BriefIsBacked`, `WriteOnce`: reports describe attempts
  as they ended, supported claims follow from stored receipts of that execution.
* `CompleteIsTruthful`, `OvershootIsBounded`: a legacy run's last event, results
  and row tell one story; concurrent calls overshoot the limit by one call each.
* `ReviewIsSettled`: an adjudication settles exactly the stored dispute.
* `ResultMatchesTrace`: a completed adapter result stands on its own trace.
* `InstalledStays`: a racing or dying installer leaves the winner's files.
* `LabIsSound`: the alignment is a best one, a complete diagnosis saw everything.
* `AnalysisIsExact`: corrections against their textbook definitions, selection,
  and figures that add up.
* `DemoOwnsTheSlot`: one demonstration at a time, recovered rather than repeated.
* `PageIsTrue`: the page shows the selected execution and a whole log.
* `TreatmentIsAccounted`: a completed result was delivered in its preparation, and
  the memory accounts for every byte through compactions.
* `ForgeIsSound`, `PassIsEarned`: receipts, plans and CI passes are earned.
* `AuditIsSound`: no finding is lost or invented by two merges, and the audit never
  faults the winner of a run the engine stored.

## 6. Disagreements between code and text

Two are runs that end in a violation:

* `evaluator_failure`: `docs/evaluation/durable-evaluator.md` says that evaluator
  infrastructure failures leave the attempt status alone, but an evaluation job
  that runs out of lease generations rewrites its attempt to `incomplete`
  (`persistence_v1/jobs.py:272`).
* `fence_released_dispatch`: a later generation reuses the attempt's latest
  reservation whatever its state. If the first generation released it unused,
  the second one dispatches with no charge at all
  (`execution_v1/_worker_kernel.py:379`).

Behaviours met while modelling that a maintainer may want to look at. The models
contain them; no document contradicts them, so they have no run of their own.

Execution core

* Cancelling an execution whose evaluation job is still queued gives the captured
  attempt a second terminal event and replaces its metadata
  (`persistence_v1/jobs.py:319`). `EvidenceChangesOnlyWithEvaluationJob` shows
  that this and the exhaustion above are the only two ways to lose evidence.
* `jobs.retry` does not check that the attempt is the last of its episode, so a
  chain of attempts can fork (`persistence_v1/jobs.py:450`).
* The reservation reused by a later generation stays bound to the earlier one, so
  it can be committed although the invocation it names has no result.
* `reconcile_stranded` has no caller in the repository: the reservation of a
  crashed worker stays reserved and charged.
* A command that is cancelled before it wrote a result makes the adapter raise;
  the attempt is recorded as failed by a `ValueError` rather than as cancelled,
  unless the cancellation is on the job row.

Evidence

* Retry reopens a completed, already reported execution, and analysing it again
  conflicts with the stored report for ever (`services_v1/analysis.py:79`). A
  brief taken meanwhile is permanently HOLD.
* A report may be built while the evaluation of a retried attempt is queued.
* An incomplete attempt with output that is retried makes its episode
  unanalysable, and an execution with an attempt without output never yields a
  derived receipt.
* `exclusion_state` "none" becomes an exclusion in derived manifests, and
  `_brief_blockers` filters a string that no blocker uses.
* The adequacy of a report is always DESCRIPTIVE_ONLY (`analysis_v1/engine.py:1037`),
  so the research fit is unreachable. The minimum sufficient profile may be
  dominated by one with fewer severe failures; repeats past the k-th are neither
  used nor listed; stress-tax pairs may span tasks.
* Two imported versions of one pack key block every new experiment on it.

Adapters, treatments, demo

* A task cancelled inside the factor adapter's `execute_attempt` leaves `final`
  unbound; its `finally` raises, no result is stored, and `stream_events` waits
  for ever.
* Some adapters keep results and cancellation across cleanup and a new prepare.
  An unreachable runtime is permanent for Ollama and LM Studio and transient for
  the OpenAI-compatible and HTTP adapters; LM Studio never answers "completed".
* A crashed installer leaves a lock or target that fails closed for ever.
* A key of the offline demo that was answered through another admission is not
  recorded, so replaying it later starts a new execution. A preflight hold after
  admission keeps the slot for its experiment.
* The shipped runtime injects no resume service, so resume is always refused.

Replay, legacy arena, audit

* A CI report does not name its request: two requests with equal checks have one
  digest, and the second insert violates a unique constraint
  (`services_v1/counterfactual.py:382`). CI ignores the replay's own verdict.
* In the legacy arena the second subscriber of a run never ends
  (`api/runs.py:200`); a cancelled scaffold is evaluated with empty output and may
  win; cancelling a comparison does not reach its case runs, and a failed case
  counts as score 0; a call that is cut or times out records no spend; midnight
  clears the spend of a running run; the Anthropic usage of one call may be
  overwritten by another task.
* Merging a finding that has a score into an earlier one without loses the score
  when its severity is not higher (`audit/trace_audit.py:720`).

## 7. Not modelled

* Isolation below serializable. SQLite's immediate transactions are serial and
  `JobLease` takes every transaction as one step. On PostgreSQL two transactions
  that close the last two jobs may not see each other.
* Trace and artifact files written between transactions of the worker; the
  artifact store appears where registry, evidence, forge and replay use it.
* Evaluators, genome, x-ray, observatory, exports and reports: pure computations
  on frozen rows, with no state of their own.
* Field-level validation of the protocol models, the bootstrap, Monte Carlo and
  power planning of the analysis: the first is data, the others draw random
  numbers.
* Command line, evidence scripts and migrations: sequential programs over files
  or a schema.
* The legacy page (`App.tsx`, `useArenaRun.ts`). What one would state of it is not
  true: the continuation of an old hydrate or cancel cuts the stream of a newer
  run (lines 281-308 and 404-416).

`PROJECT.json` lists every component with its status and reason.

## 8. Plan

Done: the modules of section 2 and the proofs of section 4. Left, in this order:

1. `finalize` in two steps under READ COMMITTED, for the closing of an execution
   on PostgreSQL.
2. Liveness of the demo's driver and of the page's stream under the fairness of
   the event loop.
