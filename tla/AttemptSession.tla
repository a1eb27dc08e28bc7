--------------------------- MODULE AttemptSession ---------------------------
(***************************************************************************)
(* One attempt inside a worker process: the asyncio tasks that             *)
(* DurableWorker._execute_supervised starts around a command adapter.      *)
(*   exec        CommandJsonlAdapter.execute_attempt: runs the command,    *)
(*               parses its output and emits trace events                  *)
(*   consumer    _collect_events: the channel's single consumer            *)
(*   supervisor  _supervise: heartbeats, watches for cancellation          *)
(*   main        waits for them, closes them down and cleans up            *)
(* Tasks interleave only where they await, so each step below runs from    *)
(* one await to the next.  Trace events are numbered by the channel.       *)
(***************************************************************************)
EXTENDS Integers

CONSTANTS
    MaxEvents,   \* limits.max_events
    MaxPending   \* limits.max_pending_events

ASSUME SessionAssumption ==
    /\ MaxPending \in Nat \ {0}
    /\ MaxEvents \in Nat
    /\ MaxPending <= MaxEvents

VARIABLES
    channel,     \* EventChannel of the attempt
    process,     \* the command: its life and what the adapter knows of it
    exec,        \* execute_attempt
    consumer,    \* _collect_events
    supervisor,  \* _supervise
    main,        \* run_lease from _execute_supervised on
    cancelled    \* the attempt is in the adapter's _cancelled set

vars == <<channel, process, exec, consumer, supervisor, main, cancelled>>

Outcomes == {"completed", "failed", "cancelled"}
Reasons == {"result", "timeout", "lease_lost", "cancel_requested", "partial_trace", "error"}

\* Where a task can end.
Ended == {"returned", "raised", "task_cancelled"}

\* execute_attempt waits for the command it has signalled; after stderr went
\* over its bound the reader of stdout goes on meanwhile.
Terminating == {"terminating", "overflow"}

Channels ==
    [emitted : 0..MaxEvents,   \* len(_events)
     consumed : 0..MaxEvents,  \* _consumed
     claimed : BOOLEAN,
     closed : BOOLEAN]

Processes ==
    [life : {"none", "running", "exited"},
     signalled : BOOLEAN,      \* SIGTERM was sent to its group
     registered : BOOLEAN]     \* in the adapter's _processes

ExecPcs == {"new", "spawning", "reading", "emitting"} \cup Terminating \cup Ended

Execs ==
    [pc : ExecPcs,
     outcome : Outcomes \cup {"none"},  \* of the result, once there is one
     parsed : BOOLEAN,                  \* parser.result is set
     cancel : BOOLEAN]                  \* task.cancel() was called

Consumers == [pc : {"new", "waiting"} \cup Ended, collected : 0..MaxEvents]

Supervisors ==
    [pc : {"sleeping", "cancelling"} \cup Ended,
     found : {"none", "lease_lost", "cancel_requested"}]

Mains ==
    [pc : {"executing", "draining", "closing", "cleaning", "waiting", "ended"},
     reason : Reasons \cup {"none"}]

Init ==
    /\ channel = [emitted |-> 0, consumed |-> 0, claimed |-> FALSE, closed |-> FALSE]
    /\ process = [life |-> "none", signalled |-> FALSE, registered |-> FALSE]
    /\ exec = [pc |-> "new", outcome |-> "none", parsed |-> FALSE, cancel |-> FALSE]
    /\ consumer = [pc |-> "new", collected |-> 0]
    /\ supervisor = [pc |-> "sleeping", found |-> "none"]
    /\ main = [pc |-> "executing", reason |-> "none"]
    /\ cancelled = FALSE

Done(task) == task.pc \in Ended
Signal(p) == IF p.life = "running" THEN [p EXCEPT !.signalled = TRUE] ELSE p

-----------------------------------------------------------------------------
(***************************************************************************)
(* The command.  It may exit at any time; once signalled it does, because  *)
(* _terminate_process follows SIGTERM by SIGKILL.                          *)
(***************************************************************************)
Exit ==
    /\ process.life = "running"
    /\ process' = [process EXCEPT !.life = "exited"]
    /\ UNCHANGED <<channel, exec, consumer, supervisor, main, cancelled>>

(***************************************************************************)
(* execute_attempt.                                                        *)
(***************************************************************************)
\* The event task was created first, so it has claimed the channel when this
\* task starts.
Start ==
    /\ exec.pc = "new"
    /\ ~ exec.cancel
    /\ channel.claimed
    /\ ~ cancelled
    /\ exec' = [exec EXCEPT !.pc = "spawning"]
    /\ UNCHANGED <<channel, process, consumer, supervisor, main, cancelled>>

\* Cancelled before dispatch.
StartCancelled ==
    /\ exec.pc = "new"
    /\ ~ exec.cancel
    /\ channel.claimed
    /\ cancelled
    /\ exec' = [exec EXCEPT !.pc = "returned", !.outcome = "cancelled"]
    /\ channel' = [channel EXCEPT !.closed = TRUE]
    /\ UNCHANGED <<process, consumer, supervisor, main, cancelled>>

\* A supervisor that has ended wakes main, which cancels this task, sooner than
\* a new command could write its first record.
Spawned ==
    /\ exec.pc = "spawning"
    /\ ~ exec.cancel
    /\ ~ Done(supervisor)
    /\ process' = [life |-> "running", signalled |-> FALSE, registered |-> TRUE]
    /\ exec' = [exec EXCEPT !.pc = "reading"]
    /\ UNCHANGED <<channel, consumer, supervisor, main, cancelled>>

\* Where the finally block leaves the adapter.
Leaving(p) == [p EXCEPT !.registered = FALSE]

\* Mutant: the command is left running.
ReadRefusedQuietly ==
    /\ exec.pc = "reading"
    /\ ~ exec.cancel
    /\ exec' = [exec EXCEPT !.pc = "raised"]
    /\ process' = Leaving(process)
    /\ UNCHANGED <<channel, consumer, supervisor, main, cancelled>>

\* A record the parser refuses: malformed, out of sequence, after the result,
\* or beyond a limit.  The command is terminated, then the error raised.
ReadRefused ==
    /\ exec.pc = "reading"
    /\ ~ exec.cancel
    /\ exec' = [exec EXCEPT !.pc = "terminating", !.outcome = "none"]
    /\ process' = Signal(process)
    /\ UNCHANGED <<channel, consumer, supervisor, main, cancelled>>

ReadEvent ==
    /\ exec.pc = "reading"
    /\ ~ exec.cancel
    /\ ~ exec.parsed
    /\ channel.emitted < MaxEvents
    /\ exec' = [exec EXCEPT !.pc = "emitting"]
    /\ UNCHANGED <<channel, process, consumer, supervisor, main, cancelled>>

ReadResult ==
    /\ exec.pc = "reading"
    /\ ~ exec.cancel
    /\ ~ exec.parsed
    /\ exec' = [exec EXCEPT !.parsed = TRUE]
    /\ UNCHANGED <<channel, process, consumer, supervisor, main, cancelled>>

Room == ~ channel.claimed \/ channel.emitted - channel.consumed < MaxPending

Emit ==
    /\ exec.pc = "emitting"
    /\ ~ exec.cancel
    /\ ~ channel.closed
    /\ Room
    /\ channel' = [channel EXCEPT !.emitted = @ + 1]
    /\ exec' = [exec EXCEPT !.pc = "reading"]
    /\ UNCHANGED <<process, consumer, supervisor, main, cancelled>>

\* A closed channel wakes the producer with RuntimeError, which no handler of
\* execute_attempt names, so the command is not terminated here.
EmitRefused ==
    /\ exec.pc = "emitting"
    /\ ~ exec.cancel
    /\ channel.closed
    /\ exec' = [exec EXCEPT !.pc = "raised"]
    /\ process' = Leaving(process)
    /\ UNCHANGED <<channel, consumer, supervisor, main, cancelled>>

\* stderr goes over its bound, also while an event waits for room.
StderrRefused ==
    /\ exec.pc \in {"reading", "emitting"}
    /\ ~ exec.cancel
    /\ exec' = [exec EXCEPT !.pc = "overflow", !.outcome = "none"]
    /\ process' = Signal(process)
    /\ UNCHANGED <<channel, consumer, supervisor, main, cancelled>>

EmitDying ==
    /\ exec.pc = "overflow"
    /\ ~ exec.cancel
    /\ channel.emitted < MaxEvents
    /\ ~ channel.closed
    /\ Room
    /\ channel' = [channel EXCEPT !.emitted = @ + 1]
    /\ UNCHANGED <<process, exec, consumer, supervisor, main, cancelled>>

\* The command's own result, a failure by its exit status, or cancelled.
FinalOutcome == IF cancelled THEN {"cancelled"} ELSE {"completed", "failed"}

\* End of output after a result.
ReadEnd(outcome) ==
    /\ exec.pc = "reading"
    /\ ~ exec.cancel
    /\ process.life = "exited"
    /\ exec.parsed
    /\ outcome \in FinalOutcome
    /\ exec' = [exec EXCEPT !.pc = "returned", !.outcome = outcome]
    /\ process' = Leaving(process)
    /\ channel' = [channel EXCEPT !.closed = TRUE]
    /\ UNCHANGED <<consumer, supervisor, main, cancelled>>

\* Without one the parser raises ValueError, cancelled or not.
ReadNothing ==
    /\ exec.pc = "reading"
    /\ ~ exec.cancel
    /\ process.life = "exited"
    /\ ~ exec.parsed
    /\ exec' = [exec EXCEPT !.pc = "raised"]
    /\ process' = Leaving(process)
    /\ channel' = [channel EXCEPT !.closed = TRUE]
    /\ UNCHANGED <<consumer, supervisor, main, cancelled>>

\* asyncio.CancelledError reaches the task around the gather: the command is
\* terminated and a cancelled result returned.
ExecInterrupted ==
    /\ exec.cancel
    /\ exec.pc \in {"reading", "emitting"}
    /\ exec' = [exec EXCEPT !.pc = "terminating", !.outcome = "cancelled", !.cancel = FALSE]
    /\ process' = Signal(process)
    /\ UNCHANGED <<channel, consumer, supervisor, main, cancelled>>

\* Before the gather it ends the task; creating the command kills what it had
\* started.
ExecCancelled ==
    /\ exec.cancel
    /\ exec.pc \in {"new", "spawning"}
    /\ exec' = [exec EXCEPT !.pc = "task_cancelled", !.outcome = "none", !.cancel = FALSE]
    /\ UNCHANGED <<channel, process, consumer, supervisor, main, cancelled>>

\* While the command is being terminated it ends the task by way of finally.
ExecAborted ==
    /\ exec.cancel
    /\ exec.pc \in Terminating
    /\ exec' = [exec EXCEPT !.pc = "task_cancelled", !.outcome = "none", !.cancel = FALSE]
    /\ process' = Leaving(process)
    /\ channel' = [channel EXCEPT !.closed = TRUE]
    /\ UNCHANGED <<consumer, supervisor, main, cancelled>>

Terminated ==
    /\ exec.pc \in Terminating
    /\ ~ exec.cancel
    /\ process.life = "exited"
    /\ exec' = [exec EXCEPT !.pc = IF exec.outcome = "none" THEN "raised" ELSE "returned"]
    /\ process' = Leaving(process)
    /\ channel' = [channel EXCEPT !.closed = TRUE]
    /\ UNCHANGED <<consumer, supervisor, main, cancelled>>

-----------------------------------------------------------------------------
(***************************************************************************)
(* _collect_events over EventChannel.iterate.                              *)
(***************************************************************************)
Claim ==
    /\ consumer.pc = "new"
    /\ channel' = [channel EXCEPT !.claimed = TRUE]
    /\ consumer' = [consumer EXCEPT !.pc = "waiting"]
    /\ UNCHANGED <<process, exec, supervisor, main, cancelled>>

\* One event is taken and stored.
Take ==
    /\ consumer.pc = "waiting"
    /\ channel.consumed < channel.emitted
    /\ channel' = [channel EXCEPT !.consumed = @ + 1]
    /\ consumer' = [consumer EXCEPT !.collected = @ + 1]
    /\ UNCHANGED <<process, exec, supervisor, main, cancelled>>

\* The event is taken but cannot be validated or stored: the task fails, and
\* nobody else may consume the channel.
TakeFails ==
    /\ consumer.pc = "waiting"
    /\ channel.consumed < channel.emitted
    /\ channel' = [channel EXCEPT !.consumed = @ + 1]
    /\ consumer' = [consumer EXCEPT !.pc = "raised"]
    /\ UNCHANGED <<process, exec, supervisor, main, cancelled>>

StreamEnds == channel.closed /\ channel.consumed = channel.emitted

StreamEnd ==
    /\ consumer.pc = "waiting"
    /\ StreamEnds
    /\ consumer' = [consumer EXCEPT !.pc = "returned"]
    /\ UNCHANGED <<channel, process, exec, supervisor, main, cancelled>>

-----------------------------------------------------------------------------
(***************************************************************************)
(* _supervise.  found is what the job row told it; cancel_attempt marks    *)
(* the attempt, terminates a registered command and closes the channel.    *)
(***************************************************************************)
Watch(found) ==
    /\ supervisor.pc = "sleeping"
    /\ main.pc \in {"executing", "draining"}
    /\ process.registered
    /\ cancelled' = TRUE
    /\ supervisor' = [pc |-> "cancelling", found |-> found]
    /\ process' = Signal(process)
    /\ UNCHANGED <<channel, exec, consumer, main>>

\* No command to terminate: none yet, or no longer.
WatchIdle(found) ==
    /\ supervisor.pc = "sleeping"
    /\ main.pc \in {"executing", "draining"}
    /\ ~ process.registered
    /\ cancelled' = TRUE
    /\ supervisor' = [pc |-> "returned", found |-> found]
    /\ channel' = [channel EXCEPT !.closed = TRUE]
    /\ UNCHANGED <<process, exec, consumer, main>>

Cancelled ==
    /\ supervisor.pc = "cancelling"
    /\ process.life = "exited"
    /\ supervisor' = [supervisor EXCEPT !.pc = "returned"]
    /\ channel' = [channel EXCEPT !.closed = TRUE]
    /\ UNCHANGED <<process, exec, consumer, main, cancelled>>

\* cancel_requested or heartbeat raised.
WatchFails ==
    /\ supervisor.pc = "sleeping"
    /\ main.pc \in {"executing", "draining"}
    /\ supervisor' = [supervisor EXCEPT !.pc = "raised"]
    /\ UNCHANGED <<channel, process, exec, consumer, main, cancelled>>

-----------------------------------------------------------------------------
(***************************************************************************)
(* _execute_supervised.  Entering the finally block cancels every task     *)
(* that has not ended; then the supervisor, the event task and the execute *)
(* task are awaited in this order.                                         *)
(***************************************************************************)
CancelTask(task) == IF Done(task) THEN task ELSE [task EXCEPT !.pc = "task_cancelled"]

Close(reason) ==
    /\ main' = [pc |-> "closing", reason |-> reason]
    /\ supervisor' = CancelTask(supervisor)
    /\ consumer' = CancelTask(consumer)
    /\ exec' = IF Done(exec) THEN exec ELSE [exec EXCEPT !.cancel = TRUE]

\* What a supervisor that has ended makes of the attempt.
Verdict == IF supervisor.pc = "raised" THEN "error" ELSE supervisor.found

MainSupervised ==
    /\ main.pc \in {"executing", "draining"}
    /\ Done(supervisor)
    /\ Close(Verdict)
    /\ UNCHANGED <<channel, process, cancelled>>

\* Mutant: only the draining is bounded by the deadline.
MainTimeoutDraining ==
    /\ main.pc = "draining"
    /\ ~ Done(supervisor)
    /\ ~ Done(consumer)
    /\ Close("partial_trace")
    /\ UNCHANGED <<channel, process, cancelled>>

\* No time may remain when draining begins, whatever the event task has done.
MainTimeout ==
    /\ main.pc \in {"executing", "draining"}
    /\ ~ Done(supervisor)
    /\ main.pc = "executing" => ~ Done(exec)
    /\ Close(IF main.pc = "executing" THEN "timeout" ELSE "partial_trace")
    /\ UNCHANGED <<channel, process, cancelled>>

\* The adapter has returned and a cancellation is on record: cancel_attempt,
\* whose command is gone, only closes the channel.
MainCancelRequested ==
    /\ main.pc = "executing"
    /\ ~ Done(supervisor)
    /\ Done(exec)
    /\ Close("cancel_requested")
    /\ cancelled' = TRUE
    /\ channel' = [channel EXCEPT !.closed = TRUE]
    /\ UNCHANGED process

\* The check for a cancellation raised.
MainCheckFails ==
    /\ main.pc = "executing"
    /\ ~ Done(supervisor)
    /\ Done(exec)
    /\ Close("error")
    /\ UNCHANGED <<channel, process, cancelled>>

\* execute_task.result(), then drain the events that are still buffered.
MainExecuted ==
    /\ main.pc = "executing"
    /\ ~ Done(supervisor)
    /\ Done(exec)
    /\ IF exec.pc = "returned"
       THEN main' = [main EXCEPT !.pc = "draining"] /\ UNCHANGED <<exec, consumer, supervisor>>
       ELSE Close("error")
    /\ UNCHANGED <<channel, process, cancelled>>

\* Mutant: the drained events are looked at before the supervisor.
MainDrainedFirst ==
    /\ main.pc = "draining"
    /\ Done(consumer)
    /\ Close(IF consumer.pc = "returned" THEN "result" ELSE "error")
    /\ UNCHANGED <<channel, process, cancelled>>

MainDrained ==
    /\ main.pc = "draining"
    /\ ~ Done(supervisor)
    /\ Done(consumer)
    /\ Close(IF consumer.pc = "returned" THEN "result" ELSE "error")
    /\ UNCHANGED <<channel, process, cancelled>>

\* The first task found to have raised replaces the reason, and the tasks
\* after it are not awaited.
MainClosed ==
    /\ main.pc = "closing"
    /\ main' = [pc |-> "cleaning",
                reason |-> IF "raised" \in {supervisor.pc, consumer.pc, exec.pc}
                           THEN "error" ELSE main.reason]
    /\ "raised" \in {supervisor.pc, consumer.pc} \/ Done(exec)
    /\ UNCHANGED <<channel, process, exec, consumer, supervisor, cancelled>>

\* _finish: cleanup_attempt cancels, waits for a registered command to exit,
\* and forgets the attempt.
Cleanup ==
    /\ main.pc = "cleaning"
    /\ cancelled' = TRUE
    /\ process' = IF process.registered THEN Signal(process) ELSE process
    /\ main' = [main EXCEPT !.pc = "waiting"]
    /\ UNCHANGED <<channel, exec, consumer, supervisor>>

Finish ==
    /\ main.pc = "waiting"
    /\ process.registered => process.life = "exited"
    /\ channel' = [channel EXCEPT !.closed = TRUE]
    /\ process' = Leaving(process)
    /\ main' = [main EXCEPT !.pc = "ended"]
    /\ cancelled' = FALSE
    /\ UNCHANGED <<exec, consumer, supervisor>>

-----------------------------------------------------------------------------
ExecNext ==
    \/ Start \/ StartCancelled \/ Spawned
    \/ ReadEvent \/ ReadResult \/ ReadRefused \/ ReadNothing
    \/ \E outcome \in Outcomes : ReadEnd(outcome)
    \/ Emit \/ EmitRefused \/ StderrRefused \/ EmitDying
    \/ ExecInterrupted \/ ExecCancelled \/ ExecAborted \/ Terminated
ConsumerNext == Claim \/ Take \/ TakeFails \/ StreamEnd
SupervisorNext ==
    \/ \E found \in {"lease_lost", "cancel_requested"} : Watch(found) \/ WatchIdle(found)
    \/ Cancelled \/ WatchFails
MainNext ==
    \/ MainSupervised \/ MainTimeout \/ MainCancelRequested \/ MainCheckFails \/ MainExecuted
    \/ MainDrained \/ MainClosed \/ Cleanup \/ Finish

Next == Exit \/ ExecNext \/ ConsumerNext \/ SupervisorNext \/ MainNext

Spec == Init /\ [][Next]_vars

(***************************************************************************)
(* The event loop runs every task that can run, main's timeout fires, and  *)
(* _terminate_process follows SIGTERM by SIGKILL while somebody waits for  *)
(* it.  The command need not write or exit by itself, and nobody need      *)
(* cancel.                                                                 *)
(***************************************************************************)
Killed ==
    /\ process.signalled
    /\ exec.pc \in Terminating \/ supervisor.pc = "cancelling" \/ main.pc = "waiting"
    /\ Exit

\* Steps of execute_attempt that do not wait for the command to write.
Awake ==
    \/ Start \/ StartCancelled \/ Spawned \/ Emit \/ EmitRefused
    \/ ReadNothing \/ (\E outcome \in Outcomes : ReadEnd(outcome))
    \/ ExecInterrupted \/ ExecCancelled \/ ExecAborted \/ Terminated

FairSpec ==
    /\ Spec
    /\ WF_vars(Killed)
    /\ WF_vars(Awake)
    /\ WF_vars(ConsumerNext)
    /\ WF_vars(Cancelled)
    /\ WF_vars(MainNext)

-----------------------------------------------------------------------------
(***************************************************************************)
(* Properties.                                                             *)
(***************************************************************************)
\* The channel stays within the parser's max_events, and every task is at one
\* of its awaits.
TypeOK ==
    /\ channel \in Channels
    /\ channel.consumed <= channel.emitted
    /\ process \in Processes
    /\ exec \in Execs
    /\ consumer \in Consumers
    /\ supervisor \in Supervisors
    /\ main \in Mains
    /\ cancelled \in BOOLEAN

\* Once a consumer is live, at most max_pending_events emitted events are
\* undelivered, however producer and consumer interleave.
Backpressure == channel.claimed => channel.emitted - channel.consumed <= MaxPending

\* A result is returned only with its whole trace: everything the adapter
\* emitted was stored before _execute_supervised returned, and nothing more
\* can be emitted.
ResultHasWholeTrace ==
    main.reason = "result" =>
        /\ exec.pc = "returned"
        /\ consumer.collected = channel.emitted
        /\ channel.closed

\* Once the supervisor has begun to cancel the attempt, the result main hands on
\* is a cancelled one or was complete before: however late the cancellation
\* comes, a completed result never overtakes it.
CancelledHasNoResult ==
    main.pc = "closing" /\ main.reason = "result" /\ exec.outcome # "cancelled" => ~ cancelled

\* What _execute_supervised hands on is fit to be stored: it has its whole
\* trace and no cancellation came before it.
ResultIsFit == TypeOK /\ ResultHasWholeTrace /\ CancelledHasNoResult

\* When the attempt is over its command has exited or was told to, also on the
\* paths where the adapter raises, and the adapter has forgotten it.
NoCommandLeftRunning ==
    main.pc = "ended" /\ Done(exec) =>
        /\ process.life = "running" => process.signalled
        /\ ~ process.registered

\* The attempt ends and its execute task with it, although the consumer may
\* have failed while the producer waits for room, or the command hangs.
SessionEnds == <>(main.pc = "ended" /\ Done(exec))

=============================================================================
