------------------------------ MODULE JobLease ------------------------------
(***************************************************************************)
(* The durable job queue of one execution: the tables jobs, attempts and   *)
(* executions, the lease operations of persistence_v1/jobs.py, and the     *)
(* processes that call them: attempt workers, evaluation workers, the      *)
(* cancel command and retry.                                               *)
(*                                                                         *)
(* Every database transaction is one step (SQLite's BEGIN IMMEDIATE).      *)
(* Between two transactions anything may happen: a worker may stall past   *)
(* its lease, crash, or find that another generation owns the job.         *)
(*                                                                         *)
(* Time is relative.  ttl is the number of ticks until a running row may   *)
(* be reclaimed, so its lease is live while ttl > Grace; delay is the      *)
(* number of ticks until a queued row is available.                        *)
(***************************************************************************)
EXTENDS Integers, FiniteSets

CONSTANTS
    Episodes,             \* episodes of the execution
    MaxAttempts,          \* budget.max_attempts of every episode
    AttemptWorkers,       \* processes running DurableWorker.run_once
    EvaluationWorkers,    \* processes running EvaluationWorker.run_once
    Owners,               \* lease owner names
    OwnerOf,              \* the name each process claims under
    LeaseTicks,           \* lease_seconds
    Grace,                \* LEASE_RECLAIM_GRACE_SECONDS
    BackoffBase,          \* LEASE_RECLAIM_BACKOFF_BASE_SECONDS
    BackoffCap,           \* LEASE_RECLAIM_BACKOFF_CAP_SECONDS
    MaxLeaseGenerations,  \* MAX_LEASE_GENERATIONS
    Results,              \* the results workers report in this instance
    NoOwner,              \* a NULL lease_owner
    NoLease               \* a process that holds no lease

Workers == AttemptWorkers \cup EvaluationWorkers

AttemptIds == Episodes \X (1..MaxAttempts)
Kinds == {"attempt", "evaluation"}
JobIds == AttemptIds \X Kinds

TerminalJobStatuses == {"completed", "failed", "cancelled"}
JobStatuses == {"queued", "running"} \cup TerminalJobStatuses
NonSuccess == {"failed", "timed_out", "incomplete"}
TerminalAttemptStatuses == {"completed", "cancelled"} \cup NonSuccess
TerminalExecutionStatuses == {"completed", "failed", "cancelled"}
DeclaredTransient == {"transient_adapter", "transient_provider"}
Classifications == {"none", "transient", "permanent"} \cup DeclaredTransient

(***************************************************************************)
(* What DurableWorker._terminal may be asked to record: the job outcome,   *)
(* the attempt status, the captured adapter outcome ("none" when the       *)
(* metadata is not captured_adapter_terminal) and the failure              *)
(* classification.                                                         *)
(***************************************************************************)
CapturedResults ==
    {[job |-> IF s = "cancelled" THEN "cancelled" ELSE "completed",
      status |-> s, outcome |-> s, class |-> c] :
        s \in TerminalAttemptStatuses, c \in Classifications \ {"transient"}}

Result(job, status, class) ==
    [job |-> job, status |-> status, outcome |-> "none", class |-> class]

\* Failures that run_lease can meet before _mark_started.
EarlyFailures ==
    {Result("failed", "failed", "permanent"),
     Result("failed", "incomplete", "permanent")}

WorkerFailures ==
    EarlyFailures \cup
    {Result("failed", "incomplete", "transient"),
     Result("failed", "timed_out", "transient"),
     Result("failed", "timed_out", "transient_adapter"),
     Result("cancelled", "cancelled", "none"),
     Result("cancelled", "cancelled", "transient")}

AllResults == CapturedResults \cup WorkerFailures

ASSUME ConstantsAssumption ==
    /\ IsFiniteSet(Episodes) /\ Episodes # {}
    /\ MaxAttempts \in Nat \ {0}
    /\ AttemptWorkers \cap EvaluationWorkers = {}
    /\ OwnerOf \in [Workers -> Owners]
    /\ LeaseTicks \in Nat \ {0}
    /\ Grace \in Nat \ {0}
    /\ MaxLeaseGenerations \in Nat \ {0}
    /\ Results \subseteq AllResults

\* The doubling reaches the cap by the third generation: 2, 4, 8, 8, ...
ASSUME BackoffAssumption ==
    /\ BackoffBase \in Nat \ {0}
    /\ BackoffCap \in BackoffBase .. 4 * BackoffBase

ASSUME NullAssumption ==
    /\ NoOwner \notin Owners
    /\ NoLease \notin [job : JobIds, token : Nat]

VARIABLES
    jobs,        \* the jobs table
    attempts,    \* the attempts table, with its terminal events and evaluation
    execution,   \* executions.status
    held,        \* the JobLease value each process holds
    phase,       \* how far each process is in run_once
    cancelling,  \* a cancel command is under way
    toCancel     \* the job ids it has read and not yet requested

vars == <<jobs, attempts, execution, held, phase, cancelling, toCancel>>

workerVars == <<held, phase>>
cancelVars == <<cancelling, toCancel>>

-----------------------------------------------------------------------------
(***************************************************************************)
(* Rows.  token stands for the uuid drawn by claim: fresh, so it is named  *)
(* by the generation it was drawn for; 0 is NULL.  An absent row has not   *)
(* been inserted.                                                          *)
(***************************************************************************)
LeaseColumns ==
    [owner : Owners \cup {NoOwner}, token : Nat, ttl : 0..(LeaseTicks + Grace)]
NullLease == [owner |-> NoOwner, token |-> 0, ttl |-> 0]

JobRows ==
    [status : JobStatuses \cup {"absent"},
     lease : LeaseColumns,
     delay : 0..BackoffCap,
     count : Nat,
     cancel : BOOLEAN]

AbsentJob ==
    [status |-> "absent", lease |-> NullLease, delay |-> 0, count |-> 0, cancel |-> FALSE]
QueuedJob == [AbsentJob EXCEPT !.status = "queued"]

\* result_metadata: the captured outcome, the failure classification, and the
\* lease generation that recorded them (0 when no worker did).
ResultColumns ==
    [outcome : TerminalAttemptStatuses \cup {"none"},
     class : Classifications,
     gen : Nat]
NoResult == [outcome |-> "none", class |-> "none", gen |-> 0]

AttemptRows ==
    [status : {"absent", "queued", "running"} \cup TerminalAttemptStatuses,
     result : ResultColumns,
     terminals : Nat,    \* terminal events appended
     evaluated : Nat]    \* evaluator generation that wrote the evaluation

AbsentAttempt ==
    [status |-> "absent", result |-> NoResult, terminals |-> 0, evaluated |-> 0]
QueuedAttempt == [AbsentAttempt EXCEPT !.status = "queued"]

Leases == [job : JobIds, token : Nat]

KindOf(j) == j[2]
AttemptOf(j) == j[1]
AttemptJob(a) == <<a, "attempt">>
EvaluationJob(a) == <<a, "evaluation">>
KindFor(w) == IF w \in AttemptWorkers THEN "attempt" ELSE "evaluation"

Exists(j) == jobs[j].status # "absent"
Terminal(j) == jobs[j].status \in TerminalJobStatuses

\* The row's lease cleared, as every operation that ends a lease does.
Unleased(row, status) ==
    [row EXCEPT !.status = status, !.lease = NullLease]

\* The attempt row with its terminal status, its metadata and one more terminal
\* event, as finalize, reclaim and request_cancel write it.
Recorded(row, status, result) ==
    [row EXCEPT !.status = status, !.result = result, !.terminals = @ + 1]

\* Mutant: the token is not compared, so any process of the owner may write.
OwnsByName(w) ==
    /\ held[w] # NoLease
    /\ jobs[held[w].job].status = "running"
    /\ jobs[held[w].job].lease.owner = OwnerOf[w]

\* The conditions of the compare-and-set in heartbeat and finalize.
Owns(w) ==
    /\ held[w] # NoLease
    /\ jobs[held[w].job].status = "running"
    /\ jobs[held[w].job].lease.owner = OwnerOf[w]
    /\ jobs[held[w].job].lease.token = held[w].token

OwnsLive(w) == Owns(w) /\ jobs[held[w].job].lease.ttl > Grace

(***************************************************************************)
(* _finalize_execution_if_terminal: the status an execution takes once     *)
(* none of its jobs is open.                                               *)
(***************************************************************************)
StatusesOf(rows) == {rows[j].status : j \in JobIds} \ {"absent"}

Finalized(rows) ==
    LET statuses == StatusesOf(rows)
    IN  IF ~ statuses \subseteq TerminalJobStatuses THEN execution
        ELSE IF statuses = {"completed"} THEN "completed"
        ELSE IF statuses = {"cancelled"} THEN "cancelled"
        ELSE "failed"

-----------------------------------------------------------------------------
(***************************************************************************)
(* The controller creates the execution, one attempt and one queued job    *)
(* per episode in a single transaction.                                    *)
(***************************************************************************)
Init ==
    /\ jobs = [j \in JobIds |->
                 IF j[1][2] = 1 /\ KindOf(j) = "attempt"
                 THEN QueuedJob ELSE AbsentJob]
    /\ attempts = [a \in AttemptIds |->
                     IF a[2] = 1 THEN QueuedAttempt ELSE AbsentAttempt]
    /\ execution = "queued"
    /\ held = [w \in Workers |-> NoLease]
    /\ phase = [w \in Workers |-> "idle"]
    /\ cancelling = FALSE
    /\ toCancel = {}

-----------------------------------------------------------------------------
(***************************************************************************)
(* Reclaim.  A running row is reclaimed only once its lease has been       *)
(* expired for the grace period.  It goes back to the queue after a        *)
(* backoff, its cancellation request kept; at the generation cap it fails  *)
(* and its attempt is recorded incomplete, whatever the kind of the job.   *)
(***************************************************************************)
Backoff(generation) ==
    IF generation <= 1 THEN BackoffBase
    ELSE IF generation = 2 /\ 2 * BackoffBase <= BackoffCap THEN 2 * BackoffBase
    ELSE BackoffCap

Reclaimable(j) == jobs[j].status = "running" /\ jobs[j].lease.ttl = 0

Exhausted(j) == Reclaimable(j) /\ jobs[j].count >= MaxLeaseGenerations

ReclaimedJob(j) ==
    IF Exhausted(j) THEN Unleased(jobs[j], "failed")
    ELSE IF Reclaimable(j)
    THEN [Unleased(jobs[j], "queued") EXCEPT !.delay = Backoff(jobs[j].count)]
    ELSE jobs[j]

ReclaimedJobs == [j \in JobIds |-> ReclaimedJob(j)]

ReclaimedAttempt(a) ==
    IF Exhausted(AttemptJob(a)) \/ Exhausted(EvaluationJob(a))
    THEN Recorded(attempts[a], "incomplete",
                  [attempts[a].result EXCEPT !.class = "permanent"])
    ELSE attempts[a]

ReclaimedAttempts == [a \in AttemptIds |-> ReclaimedAttempt(a)]

\* reclaim_expired, and a claim that reclaims and then finds nothing to lease.
Reclaim ==
    /\ \E j \in JobIds : Reclaimable(j)
    /\ jobs' = ReclaimedJobs
    /\ attempts' = ReclaimedAttempts
    /\ execution' = IF \E j \in JobIds : Exhausted(j)
                    THEN Finalized(ReclaimedJobs) ELSE execution
    /\ UNCHANGED <<workerVars, cancelVars>>

(***************************************************************************)
(* claim: reclaim first, then lease an available queued row of the wanted  *)
(* kind.  The code takes the oldest row it can lock; the model takes any.  *)
(* A row this claim has just reclaimed is never available to it, and the   *)
(* row it leases is open, so its reclaim cannot end the execution.         *)
(***************************************************************************)
\* Mutant: a reclaimed row with a pending cancellation is never leased again.
ClaimableUncancelled(j) ==
    jobs[j].status = "queued" /\ jobs[j].delay = 0 /\ ~ jobs[j].cancel

Claimable(j) == jobs[j].status = "queued" /\ jobs[j].delay = 0

LeasedTo(row, owner) ==
    [row EXCEPT !.status = "running",
                !.lease = [owner |-> owner, token |-> row.count + 1, ttl |-> LeaseTicks + Grace],
                !.count = @ + 1]

Claim(w, j) ==
    /\ phase[w] = "idle"
    /\ KindOf(j) = KindFor(w)
    /\ Claimable(j)
    /\ jobs' = [ReclaimedJobs EXCEPT ![j] = LeasedTo(jobs[j], OwnerOf[w])]
    /\ attempts' = ReclaimedAttempts
    /\ held' = [held EXCEPT ![w] = [job |-> j, token |-> jobs[j].count + 1]]
    /\ phase' = [phase EXCEPT ![w] = "claimed"]
    /\ UNCHANGED <<execution, cancelVars>>

\* heartbeat by the supervisor of an attempt or by the evaluator's thread.
Heartbeat(w) ==
    /\ phase[w] # "idle"
    /\ OwnsLive(w)
    /\ jobs' = [jobs EXCEPT ![held[w].job].lease.ttl = LeaseTicks + Grace]
    /\ UNCHANGED <<attempts, execution, workerVars, cancelVars>>

\* The process dies, or run_lease raises: its lease is left to expire.
Crash(w) ==
    /\ phase[w] # "idle"
    /\ held' = [held EXCEPT ![w] = NoLease]
    /\ phase' = [phase EXCEPT ![w] = "idle"]
    /\ UNCHANGED <<jobs, attempts, execution, cancelVars>>

-----------------------------------------------------------------------------
(***************************************************************************)
(* The attempt worker.                                                     *)
(***************************************************************************)
\* _mark_started is not fenced: a worker that lost its lease may still run it.
MarkStarted(w) ==
    /\ w \in AttemptWorkers
    /\ phase[w] = "claimed"
    /\ LET a == AttemptOf(held[w].job)
       IN  attempts' = IF attempts[a].status = "queued"
                       THEN [attempts EXCEPT ![a].status = "running"]
                       ELSE attempts
    /\ execution' = IF execution = "queued" THEN "running" ELSE execution
    /\ phase' = [phase EXCEPT ![w] = "started"]
    /\ UNCHANGED <<jobs, held, cancelVars>>

Release(w) ==
    /\ held' = [held EXCEPT ![w] = NoLease]
    /\ phase' = [phase EXCEPT ![w] = "idle"]

\* Mutant: the worker's outcome wins over a recorded cancellation.
WinnerIgnoringCancel(j, outcome) == outcome

Winner(j, outcome) == IF jobs[j].cancel THEN "cancelled" ELSE outcome

\* Mutant: the captured result is recorded without its evaluation job.
FinalizedAlone(j, r) == [jobs EXCEPT ![j] = Unleased(jobs[j], Winner(j, r.job))]

\* finalize on a captured result also queues the attempt's evaluation.
FinalizedJobs(j, r) ==
    LET ev == EvaluationJob(AttemptOf(j))
    IN  [i \in JobIds |->
            IF i = j THEN Unleased(jobs[j], Winner(j, r.job))
            ELSE IF i = ev /\ r.outcome # "none" /\ ~ Exists(ev) THEN QueuedJob
            ELSE jobs[i]]

Finalize(w, r) ==
    LET j == held[w].job
        a == AttemptOf(j)
    IN  /\ w \in AttemptWorkers
        /\ \/ phase[w] = "started"
           \/ phase[w] = "claimed" /\ r \in EarlyFailures
        /\ OwnsLive(w)
        /\ jobs' = FinalizedJobs(j, r)
        /\ attempts' = [attempts EXCEPT ![a] =
              Recorded(attempts[a],
                       IF Winner(j, r.job) = "cancelled" THEN "cancelled" ELSE r.status,
                       [outcome |-> r.outcome, class |-> r.class, gen |-> held[w].token])]
        /\ execution' = Finalized(jobs')
        /\ Release(w)
        /\ UNCHANGED cancelVars

\* finalize, finalize_auxiliary or a heartbeat refused: the result is lost.
Fenced(w) ==
    /\ phase[w] # "idle"
    /\ ~ OwnsLive(w)
    /\ Release(w)
    /\ UNCHANGED <<jobs, attempts, execution, cancelVars>>

-----------------------------------------------------------------------------
(***************************************************************************)
(* The evaluation worker.                                                  *)
(***************************************************************************)
\* DurableEvaluationService._terminal: the stored status must still be the
\* captured one.
Evaluable(a) == attempts[a].result.outcome # "none" /\ attempts[a].status = attempts[a].result.outcome

\* evaluate: one immutable row per attempt, written under a live lease; the
\* same evaluation written again is accepted as a replay.
Evaluate(w) ==
    LET a == AttemptOf(held[w].job)
    IN  /\ w \in EvaluationWorkers
        /\ phase[w] = "claimed"
        /\ OwnsLive(w)
        /\ Evaluable(a)
        /\ attempts' = IF attempts[a].evaluated = 0
                       THEN [attempts EXCEPT ![a].evaluated = held[w].token]
                       ELSE attempts
        /\ phase' = [phase EXCEPT ![w] = "evaluated"]
        /\ UNCHANGED <<jobs, execution, held, cancelVars>>

\* Mutant: the evaluation job is closed with finalize, which writes the attempt.
FinalizeAsAttempt(w) ==
    LET j == held[w].job
        outcome == IF phase[w] = "evaluated" THEN "completed" ELSE "failed"
    IN  /\ w \in EvaluationWorkers
        /\ phase[w] # "idle"
        /\ OwnsLive(w)
        /\ jobs' = [jobs EXCEPT ![j] = Unleased(jobs[j], Winner(j, outcome))]
        /\ attempts' = [attempts EXCEPT ![AttemptOf(j)].status = Winner(j, outcome)]
        /\ execution' = Finalized(jobs')
        /\ Release(w)
        /\ UNCHANGED cancelVars

\* finalize_auxiliary: completed after evaluate, failed when evaluate raised.
FinalizeAuxiliary(w) ==
    LET j == held[w].job
        outcome == IF phase[w] = "evaluated" THEN "completed" ELSE "failed"
    IN  /\ w \in EvaluationWorkers
        /\ phase[w] # "idle"
        /\ OwnsLive(w)
        /\ jobs' = [jobs EXCEPT ![j] = Unleased(jobs[j], Winner(j, outcome))]
        /\ execution' = Finalized(jobs')
        /\ Release(w)
        /\ UNCHANGED <<attempts, cancelVars>>

-----------------------------------------------------------------------------
(***************************************************************************)
(* The cancel command: read the open jobs, request each in a transaction   *)
(* of its own, then refresh the execution.  The API process may die        *)
(* between any two of these.                                               *)
(***************************************************************************)
CancelBegin ==
    /\ ~ cancelling
    /\ cancelling' = TRUE
    /\ toCancel' = {j \in JobIds : Exists(j) /\ ~ Terminal(j)}
    /\ UNCHANGED <<jobs, attempts, execution, workerVars>>

CancelledJob(j) ==
    CASE jobs[j].status = "queued" -> [jobs[j] EXCEPT !.status = "cancelled", !.cancel = TRUE]
      [] jobs[j].status = "running" -> [jobs[j] EXCEPT !.cancel = TRUE]
      [] OTHER -> jobs[j]

\* A queued job is cancelled at once and its attempt with it, whatever the
\* kind of the job; a running one is only marked; a terminal one is left.
RequestCancel(j) ==
    /\ j \in toCancel
    /\ toCancel' = toCancel \ {j}
    /\ jobs' = [jobs EXCEPT ![j] = CancelledJob(j)]
    /\ attempts' = IF jobs[j].status = "queued"
                   THEN [attempts EXCEPT ![AttemptOf(j)] =
                           Recorded(attempts[AttemptOf(j)], "cancelled", NoResult)]
                   ELSE attempts
    /\ UNCHANGED <<execution, workerVars, cancelling>>

\* _refresh_execution_terminal
CancelRefresh ==
    /\ cancelling
    /\ toCancel = {}
    /\ execution' = Finalized(jobs)
    /\ cancelling' = FALSE
    /\ UNCHANGED <<jobs, attempts, workerVars, toCancel>>

CancelCrash ==
    /\ cancelling
    /\ cancelling' = FALSE
    /\ toCancel' = {}
    /\ UNCHANGED <<jobs, attempts, execution, workerVars>>

-----------------------------------------------------------------------------
(***************************************************************************)
(* retry: a fresh attempt and job in the same episode, within the declared *)
(* attempt budget.  The execution is reopened.                             *)
(***************************************************************************)
Retryable(a) ==
    LET status == jobs[AttemptJob(a)].status
        class == attempts[a].result.class
    IN  /\ attempts[a].status \in NonSuccess
        /\ \/ /\ status = "completed"
              /\ attempts[a].result.outcome # "none"
              /\ class \in DeclaredTransient
           \/ /\ status = "failed"
              /\ attempts[a].result.outcome = "none"
              /\ class \in DeclaredTransient \cup {"transient"}

\* The ordinal after the episode's last attempt is the first absent one.
NextAttempt(a, next) ==
    /\ next[1] = a[1]
    /\ attempts[next].status = "absent"
    /\ \A k \in 1..(next[2] - 1) : attempts[<<a[1], k>>].status # "absent"

\* Mutant: the execution is not reopened.
RetryUnderTerminal(a, next) ==
    /\ Retryable(a)
    /\ NextAttempt(a, next)
    /\ attempts' = [attempts EXCEPT ![next] = QueuedAttempt]
    /\ jobs' = [jobs EXCEPT ![AttemptJob(next)] = QueuedJob]
    /\ UNCHANGED <<execution, workerVars, cancelVars>>

Retry(a, next) ==
    /\ Retryable(a)
    /\ NextAttempt(a, next)
    /\ attempts' = [attempts EXCEPT ![next] = QueuedAttempt]
    /\ jobs' = [jobs EXCEPT ![AttemptJob(next)] = QueuedJob]
    /\ execution' = "queued"
    /\ UNCHANGED <<workerVars, cancelVars>>

-----------------------------------------------------------------------------
Less(n) == IF n > 0 THEN n - 1 ELSE 0

Aged(row) ==
    [row EXCEPT !.lease = [row.lease EXCEPT !.ttl = Less(row.lease.ttl)],
                !.delay = Less(row.delay)]

Tick ==
    /\ \E j \in JobIds : jobs[j].lease.ttl > 0 \/ jobs[j].delay > 0
    /\ jobs' = [j \in JobIds |-> Aged(jobs[j])]
    /\ UNCHANGED <<attempts, execution, workerVars, cancelVars>>

WorkerNext(w) ==
    \/ \E j \in JobIds : Claim(w, j)
    \/ Heartbeat(w)
    \/ Crash(w)
    \/ MarkStarted(w)
    \/ \E r \in Results : Finalize(w, r)
    \/ Fenced(w)
    \/ Evaluate(w)
    \/ FinalizeAuxiliary(w)

Next ==
    \/ \E w \in Workers : WorkerNext(w)
    \/ Reclaim
    \/ CancelBegin
    \/ \E j \in JobIds : RequestCancel(j)
    \/ CancelRefresh
    \/ CancelCrash
    \/ \E a, next \in AttemptIds : Retry(a, next)
    \/ Tick

Spec == Init /\ [][Next]_vars

(***************************************************************************)
(* Time passes, workers keep polling and finish what they run (adapters    *)
(* are bounded by a timeout), and a cancel command that is not killed goes *)
(* on.  Nothing obliges anyone to heartbeat, crash, cancel or retry.       *)
(***************************************************************************)
Finish(w) ==
    \/ \E r \in Results : Finalize(w, r)
    \/ Fenced(w)
    \/ FinalizeAuxiliary(w)

Fairness ==
    /\ WF_vars(Tick)
    /\ WF_vars(Reclaim)
    /\ \A w \in Workers : WF_vars(\E j \in JobIds : Claim(w, j))
    /\ \A w \in AttemptWorkers : WF_vars(MarkStarted(w))
    /\ \A w \in Workers : WF_vars(Finish(w))
    /\ WF_vars(CancelRefresh \/ \E j \in JobIds : RequestCancel(j))

FairSpec == Spec /\ Fairness

-----------------------------------------------------------------------------
(***************************************************************************)
(* Properties.                                                             *)
(***************************************************************************)
\* Every table row and every process state has the shape the schema and the
\* worker loops give it.
TypeOK ==
    /\ jobs \in [JobIds -> JobRows]
    /\ attempts \in [AttemptIds -> AttemptRows]
    /\ execution \in {"queued", "running"} \cup TerminalExecutionStatuses
    /\ held \in [Workers -> Leases \cup {NoLease}]
    /\ phase \in [Workers -> {"idle", "claimed", "started", "evaluated"}]
    /\ cancelling \in BOOLEAN
    /\ toCancel \subseteq JobIds

AllJobsTerminal == StatusesOf(jobs) \subseteq TerminalJobStatuses

\* An execution shown as completed, failed or cancelled has no open job, and
\* its status is the one its jobs add up to now: finalize, finalize_auxiliary,
\* reclaim, cancel, retry and the follow-up insertion never leave it stale.
ExecutionTruth ==
    execution \in TerminalExecutionStatuses =>
        AllJobsTerminal /\ execution = Finalized(jobs)

\* Every path that closes the last job also closes the execution in the same
\* transaction, except request_cancel on a queued job, which leaves that to
\* the refresh at the end of the cancel command.
NoOrphanedExecution ==
    AllJobsTerminal /\ execution \notin TerminalExecutionStatuses =>
        \E j \in JobIds : jobs[j].status = "cancelled" /\ jobs[j].cancel

\* An attempt is terminal exactly when its attempt job is: no stale worker,
\* unfenced _mark_started or reclaim makes one move without the other.
AttemptFollowsJob ==
    \A a \in AttemptIds :
        attempts[a].status \in TerminalAttemptStatuses <=> Terminal(AttemptJob(a))

\* What a reader of the three tables relies on: rows keep their shapes, and
\* execution, attempt and job rows never contradict one another, between any two
\* transactions of finalize, reclaim, cancel, retry and the unfenced
\* _mark_started.
RowsAgree == TypeOK /\ ExecutionTruth /\ NoOrphanedExecution /\ AttemptFollowsJob

\* The result recorded for an attempt comes from the last generation that
\* leased its job: a stalled worker, even one of the same owner name, cannot
\* finalize after another generation has begun.
ResultFromLastGeneration ==
    \A a \in AttemptIds :
        attempts[a].result.gen # 0 => attempts[a].result.gen = jobs[AttemptJob(a)].count

\* Once a cancellation is recorded on a job, no worker can still complete or
\* fail it, however often it is reclaimed; only the generation cap ends it
\* otherwise.
CancellationWins ==
    \A j \in JobIds :
        jobs[j].cancel /\ Terminal(j) =>
            \/ jobs[j].status = "cancelled"
            \/ jobs[j].status = "failed" /\ jobs[j].count = MaxLeaseGenerations

\* No job is leased more often than MAX_LEASE_GENERATIONS.
GenerationsBounded == \A j \in JobIds : jobs[j].count <= MaxLeaseGenerations

\* An execution is never shown as completed while an attempt of it lacks its
\* captured result or its independent evaluation.
CompletedMeansEvaluated ==
    execution = "completed" =>
        \A a \in AttemptIds :
            attempts[a].status # "absent" =>
                /\ attempts[a].result.outcome = attempts[a].status
                /\ attempts[a].evaluated # 0

\* A terminal job row never leaves its status, and a recorded evaluation is
\* never replaced.
TerminalsAreFinal ==
    [][/\ \A j \in JobIds : Terminal(j) => jobs'[j].status = jobs[j].status
       /\ \A a \in AttemptIds : attempts[a].evaluated # 0 =>
              attempts'[a].evaluated = attempts[a].evaluated]_vars

\* A terminal attempt keeps its status and result and gets no second terminal
\* event in every step but two: its evaluation job is cancelled in the queue,
\* or runs out of generations.
EvidenceChangesOnlyWithEvaluationJob ==
    [][\A a \in AttemptIds :
         /\ attempts[a].status \in TerminalAttemptStatuses
         /\ \/ attempts'[a].status # attempts[a].status
            \/ attempts'[a].result # attempts[a].result
            \/ attempts'[a].terminals # attempts[a].terminals
         => \/ /\ jobs[EvaluationJob(a)].status = "queued"
               /\ jobs'[EvaluationJob(a)].status = "cancelled"
            \/ Exhausted(EvaluationJob(a))]_vars

\* Every job that exists is eventually settled, whatever crashes, stalls and
\* reclaims happen to it: the generation cap bounds them.
JobsSettle == \A j \in JobIds : Exists(j) ~> Terminal(j)

\* What docs/evaluation/durable-evaluator.md says: evaluator infrastructure
\* failures fail the evaluation job without changing the attempt status.
EvaluatorFailureKeepsAttempt ==
    [][\A a \in AttemptIds :
         /\ jobs[EvaluationJob(a)].status = "running"
         /\ jobs'[EvaluationJob(a)].status = "failed"
         => attempts'[a].status = attempts[a].status]_vars

-----------------------------------------------------------------------------
(***************************************************************************)
(* The inductive invariant behind the safety properties above.             *)
(***************************************************************************)
\* A row can be leased again only below the cap, and the token of a running
\* row is the one drawn by its last claim.
LeaseShape(j) ==
    /\ jobs[j].count <= MaxLeaseGenerations
    /\ jobs[j].status = "queued" => jobs[j].count < MaxLeaseGenerations
    /\ jobs[j].status = "running" =>
           jobs[j].count >= 1 /\ jobs[j].lease.token = jobs[j].count
    /\ jobs[j].cancel /\ Terminal(j) =>
           \/ jobs[j].status = "cancelled"
           \/ jobs[j].status = "failed" /\ jobs[j].count = MaxLeaseGenerations

\* A process only holds leases of its kind, and has evaluated what it says it
\* has.
HeldShape(w) ==
    /\ held[w] # NoLease => KindOf(held[w].job) = KindFor(w)
    /\ phase[w] = "evaluated" =>
           held[w] # NoLease /\ attempts[AttemptOf(held[w].job)].evaluated # 0

\* An attempt, its attempt job and its evaluation job move in this order.
PairShape(a) ==
    /\ attempts[a].status = "absent" <=> ~ Exists(AttemptJob(a))
    /\ attempts[a].status = "absent" =>
           attempts[a].evaluated = 0 /\ attempts[a].result.outcome = "none"
    /\ attempts[a].status \in TerminalAttemptStatuses <=> Terminal(AttemptJob(a))
    /\ Exists(EvaluationJob(a)) => Terminal(AttemptJob(a))
    /\ attempts[a].result.gen # 0 =>
           Terminal(AttemptJob(a)) /\ attempts[a].result.gen = jobs[AttemptJob(a)].count

\* A completed attempt job has its evaluation job, and its captured outcome
\* stands until that job is cancelled or fails.
EvaluationShape(a) ==
    /\ jobs[AttemptJob(a)].status = "completed" =>
          /\ Exists(EvaluationJob(a))
          /\ jobs[EvaluationJob(a)].status \notin {"cancelled", "failed"} =>
                 /\ attempts[a].result.outcome # "none"
                 /\ attempts[a].result.outcome = attempts[a].status
    /\ jobs[EvaluationJob(a)].status = "completed" => attempts[a].evaluated # 0

IInv ==
    /\ TypeOK
    /\ \A j \in JobIds : LeaseShape(j)
    /\ \A w \in Workers : HeldShape(w)
    /\ \A a \in AttemptIds : PairShape(a) /\ EvaluationShape(a)
    /\ ExecutionTruth
    /\ NoOrphanedExecution

=============================================================================
