---------------------------- MODULE OfflineDemo ----------------------------
(***************************************************************************)
(* The bundled offline demonstration (services_v1/offline_demo) and the    *)
(* processes that serve it (services_v1/runtime, main): one singleton lock *)
(* row, one admission per idempotency key, an execution created and bound  *)
(* in two transactions, and a driver task per execution that may time out, *)
(* be cancelled or die with its process.                                   *)
(*                                                                         *)
(* An execution has one attempt job and its evaluation job instead of      *)
(* eighty of each. A request runs from admission to scheduling without     *)
(* suspending, so a process has at most one under way; other processes run *)
(* between its transactions. The keys are the browser's own: no other      *)
(* request uses them.                                                      *)
(***************************************************************************)
EXTENDS Integers, FiniteSets

CONSTANTS
    Processes,      \* API processes on one database
    DemoKeys,       \* idempotency keys
    DemoExperiments,\* experiment -> it is a frozen exact copy of the bundled one
    DemoExecutions, \* bound: 1 .. n, execution identifiers in the order they are handed out
    Deployments,    \* [team, capability, local, store, configured, adapters]
    NoDemo

AdmissionRows ==
    [experiment : DOMAIN DemoExperiments, execution : DemoExecutions \union {NoDemo}]

ASSUME DemoAssumption == NoDemo \notin DemoExecutions \union DemoKeys \union AdmissionRows

VARIABLES
    process,    \* process -> "down", "up", "closing"
    handler,    \* process -> the request being served
    slot,       \* admission_id of offline_demo_runtime_locks, or NoDemo
    admission,  \* key -> [experiment, execution] of offline_demo_admissions, or NoDemo
    record,     \* key -> execution named by idempotency_records, or NoDemo
    execution,  \* execution -> [experiment, status, attempt, evaluation]
    driver      \* process -> execution -> what its task is doing

demoVars == <<process, handler, slot, admission, record, execution, driver>>

Terminals == {"completed", "failed", "cancelled"}
Waiting == [pc |-> "idle", key |-> NoDemo, execution |-> NoDemo]
NoJob == [status |-> "none", owner |-> NoDemo]
Unborn == [experiment |-> NoDemo, status |-> "unborn", attempt |-> NoJob, evaluation |-> NoJob]

DemoInit ==
    /\ process = [p \in Processes |-> "down"]
    /\ handler = [p \in Processes |-> Waiting]
    /\ slot = NoDemo
    /\ admission = [k \in DemoKeys |-> NoDemo]
    /\ record = [k \in DemoKeys |-> NoDemo]
    /\ execution = [x \in DemoExecutions |-> Unborn]
    /\ driver = [p \in Processes |-> [x \in DemoExecutions |-> "none"]]

-----------------------------------------------------------------------------
(* Starting a process. *)

\* _configured_adapter: a closed list of kinds; native and factor semantics
\* must have been injected, and a factorized adapter wraps a plain one.
ConfiguredAdapter(entry) ==
    /\ entry.kind \in {"openai_compatible_local", "ollama_local", "context_handoff_ollama",
                       "lm_studio_local", "native_current_scaffold", "factorized_pvrm",
                       "bundled_offline_demo_fixture"}
    /\ entry.kind = "native_current_scaffold" => entry.scaffold # entry.injected
    /\ entry.kind = "factorized_pvrm" => entry.injected /\ entry.base # "factorized_pvrm"

\* A registry is built whole or not at all; an empty list is refused.
RegistryBuilds(adapters) == adapters # {} /\ \A entry \in adapters : ConfiguredAdapter(entry)

\* Personal mode wants a durable SQLite file and a local store.
LocalConfiguration(d) == d.team \/ (d.local /\ d.store = "directory")

\* A team with a remote store must read its sentinel back.
StoreReachable(d) == d.team /\ d.store # "directory" => d.store = "reachable"

RuntimeStarts(d) ==
    LocalConfiguration(d) /\ StoreReachable(d) /\ (d.configured => RegistryBuilds(d.adapters))

\* The demonstration is offered by the personal profile, when the launcher
\* enabled it. A start that fails disposes of its engine and leaves nothing.
Boot(p) ==
    /\ process[p] = "down"
    /\ \E d \in Deployments : RuntimeStarts(d) /\ ~d.team /\ d.capability
    /\ process' = [process EXCEPT ![p] = "up"]
    /\ UNCHANGED <<handler, slot, admission, record, execution, driver>>

-----------------------------------------------------------------------------
(* Jobs, as the lease repository settles them. *)

Settled(x) == x.attempt.status \in Terminals /\ x.evaluation.status \in Terminals \union {"none"}

\* _finalize_execution_if_terminal
Finalized(x) ==
    LET ends == {x.attempt.status, x.evaluation.status} \ {"none"}
    IN  IF ~Settled(x) THEN x
        ELSE [x EXCEPT !.status = IF ends = {"completed"} THEN "completed"
                                  ELSE IF ends = {"cancelled"} THEN "cancelled" ELSE "failed"]

\* request_cancel: a queued job is cancelled, a running one is told.
CancelRequested(job) ==
    CASE job.status = "queued"  -> [job EXCEPT !.status = "cancelled"]
      [] job.status = "running" -> [job EXCEPT !.status = "cancelling"]
      [] OTHER                  -> job

IsTerminal(x) == execution[x].status \in Terminals

-----------------------------------------------------------------------------
(* The request. *)

\* _require_personal, _require_local_request and _validate_exact_frozen_demo.
Admissible(e) == DemoExperiments[e]

\* _recover_bound_execution: the execution an unbound admission created.
BoundOrRecovered(k) ==
    IF admission[k].execution # NoDemo THEN admission[k].execution ELSE record[k]

\* _admit_request, one transaction: what it answers and what it leaves.
AdmitRequest(e, k) ==
    LET existing == admission[k]
        found    == IF slot = NoDemo THEN NoDemo ELSE BoundOrRecovered(slot)
        over     == slot = NoDemo \/ (found # NoDemo /\ IsTerminal(found))
        bound    == IF slot = NoDemo THEN admission ELSE [admission EXCEPT ![slot].execution = found]
        answer(key, x, s, a) == [pc |-> IF x = NoDemo THEN "create" ELSE "replay",
                                 key |-> key, execution |-> x, slot |-> s, admission |-> a]
        refuse(a) == [pc |-> "refused", key |-> NoDemo, execution |-> NoDemo, slot |-> slot, admission |-> a]
    IN  IF existing # NoDemo /\ existing.experiment # e THEN refuse(admission)
        ELSE IF existing # NoDemo /\ existing.execution # NoDemo
        THEN answer(k, existing.execution, slot, admission)
        ELSE IF ~over
        THEN IF admission[slot].experiment = e THEN answer(slot, found, slot, bound) ELSE refuse(bound)
        ELSE IF existing # NoDemo THEN answer(k, NoDemo, NoDemo, bound)
        ELSE answer(k, NoDemo, k, [bound EXCEPT ![k] = [experiment |-> e, execution |-> NoDemo]])

Admit(p, e, k) ==
    /\ process[p] = "up" /\ handler[p].pc = "idle"
    /\ Admissible(e)
    /\ LET a == AdmitRequest(e, k)
       IN  /\ slot' = a.slot
           /\ admission' = a.admission
           /\ handler' = IF a.pc = "refused" THEN handler
                         ELSE [handler EXCEPT ![p] = [pc |-> a.pc, key |-> a.key, execution |-> a.execution]]
    /\ UNCHANGED <<process, record, execution, driver>>

\* create_execution: idempotent on the admission's key; the preflight may hold
\* it, and the admission then keeps the slot.
CreateExecution(p) ==
    LET k == handler[p].key IN
    /\ handler[p].pc = "create"
    /\ \/ /\ record[k] # NoDemo
          /\ handler' = [handler EXCEPT ![p].pc = "bind", ![p].execution = record[k]]
          /\ UNCHANGED <<record, execution>>
       \/ /\ record[k] = NoDemo
          /\ \E x \in DemoExecutions :
                /\ execution[x] = Unborn /\ \A y \in 1 .. x - 1 : execution[y] # Unborn
                /\ execution' = [execution EXCEPT ![x] =
                        [experiment |-> admission[k].experiment, status |-> "queued",
                         attempt |-> [NoJob EXCEPT !.status = "queued"], evaluation |-> NoJob]]
                /\ record' = [record EXCEPT ![k] = x]
                /\ handler' = [handler EXCEPT ![p].pc = "bind", ![p].execution = x]
       \/ /\ record[k] = NoDemo
          /\ handler' = [handler EXCEPT ![p] = Waiting]
          /\ UNCHANGED <<record, execution>>
    /\ UNCHANGED <<process, slot, admission, driver>>

\* _bind_execution: only an unbound admission takes it; a bound one must agree.
BindExecution(p) ==
    LET k == handler[p].key
        x == handler[p].execution
    IN
    /\ handler[p].pc = "bind"
    /\ IF admission[k].execution = NoDemo
       THEN admission' = [admission EXCEPT ![k].execution = x]
       ELSE UNCHANGED admission
    /\ handler' = IF admission[k].execution \in {NoDemo, x} THEN [handler EXCEPT ![p].pc = "schedule"]
                  ELSE [handler EXCEPT ![p] = Waiting]
    /\ UNCHANGED <<process, slot, record, execution, driver>>

\* _schedule: one task per execution in a process. A replay is only scheduled
\* while its execution is not terminal.
Schedule(p) ==
    LET x == handler[p].execution IN
    /\ handler[p].pc \in {"schedule", "replay"}
    /\ driver' = IF driver[p][x] # "none" \/ (handler[p].pc = "replay" /\ IsTerminal(x)) THEN driver
                 ELSE [driver EXCEPT ![p][x] = "attempts"]
    /\ handler' = [handler EXCEPT ![p] = Waiting]
    /\ UNCHANGED <<process, slot, admission, record, execution>>

-----------------------------------------------------------------------------
(* The driver. *)

Phases == {"attempts", "evaluations"}
JobOf(phase) == IF phase = "attempts" THEN "attempt" ELSE "evaluation"

\* A lease is good while the process that took it drives the execution.
LeaseIsLive(x, job) == job.owner # NoDemo /\ driver[job.owner][x] \in Phases

SetJob(x, field, job) ==
    execution' = [execution EXCEPT ![x] = Finalized([execution[x] EXCEPT ![field] = job])]

\* run_once: takes a queued job, or one whose lease ran out; a job that was to
\* be cancelled is settled instead.
DriveLease(p, x) ==
    LET phase == driver[p][x]
        job   == execution[x][JobOf(phase)]
    IN
    /\ process[p] = "up" /\ phase \in Phases
    /\ \/ /\ job.status = "queued" \/ (job.status = "running" /\ ~LeaseIsLive(x, job))
          /\ SetJob(x, JobOf(phase), [status |-> "running", owner |-> p])
       \/ /\ job.status = "cancelling" /\ ~LeaseIsLive(x, job)
          /\ SetJob(x, JobOf(phase), [status |-> "cancelled", owner |-> NoDemo])
    /\ UNCHANGED <<process, handler, slot, admission, record, driver>>

\* A completed attempt enqueues its evaluation in the same transaction.
DriveFinish(p, x) ==
    LET phase == driver[p][x]
        job   == execution[x][JobOf(phase)]
    IN
    /\ process[p] = "up" /\ phase \in Phases /\ job.owner = p
    /\ job.status \in {"running", "cancelling"}
    /\ \E result \in IF job.status = "running" THEN {"completed", "failed"} ELSE {"cancelled"} :
        LET done == [execution[x] EXCEPT ![JobOf(phase)] = [status |-> result, owner |-> NoDemo]]
        IN  execution' = [execution EXCEPT ![x] = Finalized(
                IF phase = "attempts" /\ result = "completed"
                THEN [done EXCEPT !.evaluation = [NoJob EXCEPT !.status = "queued"]] ELSE done)]
    /\ UNCHANGED <<process, handler, slot, admission, record, driver>>

\* A live lease is pending, not finished.
HasPendingJobs(x, phase) == execution[x][JobOf(phase)].status \in {"queued", "running", "cancelling"}

\* Attempts, then evaluations; then the execution must be terminal.
DriveOn(p, x) ==
    /\ process[p] = "up" /\ driver[p][x] \in Phases
    /\ ~HasPendingJobs(x, driver[p][x])
    /\ driver[p][x] = "evaluations" => IsTerminal(x)
    /\ driver' = [driver EXCEPT ![p][x] = IF @ = "attempts" THEN "evaluations" ELSE "release"]
    /\ UNCHANGED <<process, handler, slot, admission, record, execution>>

\* The deadline, an exception (jobs gone but not terminal), or close():
\* _cancel_pending and the recovery note.
DriveInterrupted(p, x) ==
    /\ driver[p][x] \in Phases
    /\ execution' = [execution EXCEPT ![x] =
            Finalized([execution[x] EXCEPT !.attempt = CancelRequested(execution[x].attempt),
                                           !.evaluation = CancelRequested(execution[x].evaluation)])]
    /\ driver' = [driver EXCEPT ![p][x] = "release"]
    /\ UNCHANGED <<process, handler, slot, admission, record>>

\* Mutant: the driver gives up the slot however the execution stands.
ReleasedAnyway(x) == IF slot # NoDemo /\ admission[slot].execution = x THEN NoDemo ELSE slot

\* _release_terminal_admission: only a terminal execution gives up the slot, and
\* only its own.
Released(x) ==
    IF IsTerminal(x) /\ slot # NoDemo /\ admission[slot].execution = x THEN NoDemo ELSE slot

ReleaseAdmission(p, x) ==
    /\ driver[p][x] = "release"
    /\ slot' = Released(x)
    /\ driver' = [driver EXCEPT ![p][x] = "none"]
    /\ UNCHANGED <<process, handler, admission, record, execution>>

-----------------------------------------------------------------------------
\* close(): every task is cancelled and waited for.
Close(p) ==
    /\ process[p] = "up" /\ handler[p] = Waiting
    /\ process' = [process EXCEPT ![p] = "closing"]
    /\ UNCHANGED <<handler, slot, admission, record, execution, driver>>

Closed(p) ==
    /\ process[p] = "closing"
    /\ \A x \in DemoExecutions : driver[p][x] = "none"
    /\ process' = [process EXCEPT ![p] = "down"]
    /\ UNCHANGED <<handler, slot, admission, record, execution, driver>>

ProcessDies(p) ==
    /\ process[p] # "down"
    /\ process' = [process EXCEPT ![p] = "down"]
    /\ handler' = [handler EXCEPT ![p] = Waiting]
    /\ driver' = [driver EXCEPT ![p] = [x \in DemoExecutions |-> "none"]]
    /\ UNCHANGED <<slot, admission, record, execution>>

Drive(p, x) ==
    \/ DriveLease(p, x) \/ DriveFinish(p, x) \/ DriveOn(p, x) \/ DriveInterrupted(p, x)
    \/ ReleaseAdmission(p, x)

\* Bound: executions past the first are followed by one process at a time.
DemoBound ==
    Cardinality({p \in Processes : process[p] # "down"}) > 1 =>
        \A x \in DemoExecutions : x > 1 => execution[x] = Unborn

DemoNext ==
    /\ \E p \in Processes :
        \/ Boot(p) \/ Close(p) \/ Closed(p) \/ ProcessDies(p)
        \/ \E e \in DOMAIN DemoExperiments, k \in DemoKeys : Admit(p, e, k)
        \/ CreateExecution(p) \/ BindExecution(p) \/ Schedule(p)
        \/ \E x \in DemoExecutions : Drive(p, x)
    /\ DemoBound'

DemoSpec == DemoInit /\ [][DemoNext]_demoVars

-----------------------------------------------------------------------------
LiveDemo(x) == execution[x].status \notin Terminals \union {"unborn"}

\* One demonstration at a time (offline_demo 280, 364, 507), whatever died or
\* raced: an execution that is not over is the one the slot stands for, even if
\* its process died before binding it; an admission is only ever bound to what
\* was created under its key; and a new key for the experiment recovers that
\* execution instead of starting another.
DemoOwnsTheSlot ==
    /\ \A x \in DemoExecutions : LiveDemo(x) =>
        /\ slot # NoDemo /\ BoundOrRecovered(slot) = x
        /\ \A k \in DemoKeys : admission[k] = NoDemo =>
                AdmitRequest(execution[x].experiment, k).execution = x
    /\ \A k \in DemoKeys : admission[k] # NoDemo /\ admission[k].execution # NoDemo =>
        /\ record[k] = admission[k].execution
        /\ execution[record[k]].experiment = admission[k].experiment
=============================================================================
