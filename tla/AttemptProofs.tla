--------------------------- MODULE AttemptProofs ----------------------------
(***************************************************************************)
(* An attempt, twice: the safety properties of its session inside a worker *)
(* (AttemptSession) for every max_events and max_pending_events, and those *)
(* of its lifecycle contract (LifecycleContract) for any number of         *)
(* generations and any set of results.                                     *)
(***************************************************************************)
EXTENDS AttemptSession, LifecycleContract, TLAPS

(***************************************************************************)
(* The inductive invariant, one part per pair of tasks.                    *)
(***************************************************************************)
\* What the consumer has stored, and what the end of its stream says of the
\* channel.
StreamShape ==
    /\ consumer.pc # "raised" => consumer.collected = channel.consumed
    /\ consumer.pc = "returned" => channel.closed /\ channel.consumed = channel.emitted
    /\ exec.pc = "emitting" => channel.emitted < MaxEvents
    /\ ~ channel.claimed => channel.emitted = 0 /\ exec.pc \in {"new", "task_cancelled"}

\* Where main is, what it knows of the other tasks.
MainShape ==
    /\ main.pc \in {"executing", "draining"} => main.reason = "none"
    /\ main.pc \notin {"executing", "draining"} => Done(supervisor) /\ Done(consumer)
    /\ main.pc = "draining" => exec.pc = "returned"
    /\ main.reason = "result" => exec.pc = "returned" /\ consumer.pc = "returned"

\* A cancellation under way is one the supervisor began, and a result that
\* comes after it says so.
CancelShape ==
    /\ main.pc \in {"executing", "draining"} /\ cancelled => supervisor.pc # "sleeping"
    /\ supervisor.pc = "cancelling" => cancelled /\ (exec.pc = "returned" => exec.outcome = "cancelled")
    /\ exec.pc \in Terminating => exec.outcome \in {"none", "cancelled"}

\* The adapter knows its command while it reads from it, and the channel of a
\* command that nobody has signalled is open.
CommandShape ==
    /\ process.registered => exec.pc \in {"reading", "emitting"} \cup Terminating
    /\ exec.pc \in {"reading", "emitting"} /\ main.pc # "ended" => process.registered
    /\ exec.pc \in {"new", "spawning"} => process.life = "none"
    /\ exec.pc \in {"new", "spawning"} /\ channel.closed => Done(supervisor)
    /\ exec.pc \in {"reading", "emitting"} /\ channel.closed /\ process.life = "running" =>
           process.signalled
    /\ exec.pc \in Terminating \cup Ended /\ process.life = "running" => process.signalled

SInv ==
    /\ TypeOK
    /\ Backpressure
    /\ StreamShape
    /\ MainShape
    /\ CancelShape
    /\ CommandShape
    /\ CancelledHasNoResult

(***************************************************************************)
(* Rows of the right shape.                                                *)
(***************************************************************************)
\* The channel after each kind of update.
LEMMA ChannelRows ==
    ASSUME NEW c \in Channels
    PROVE  /\ [c EXCEPT !.closed = TRUE] \in Channels
           /\ [c EXCEPT !.claimed = TRUE] \in Channels
           /\ \A n \in 0..MaxEvents : [c EXCEPT !.emitted = n] \in Channels
           /\ \A n \in 0..MaxEvents : [c EXCEPT !.consumed = n] \in Channels
BY DEF Channels

\* The command after it is signalled, forgotten or has exited.
LEMMA ProcessRows ==
    ASSUME NEW p \in Processes
    PROVE  /\ Signal(p) \in Processes
           /\ Leaving(p) \in Processes
           /\ [p EXCEPT !.life = "exited"] \in Processes
BY DEF Processes, Signal, Leaving

\* The execute task after each kind of update.
LEMMA ExecRows ==
    ASSUME NEW e \in Execs, NEW pc \in ExecPcs, NEW o \in Outcomes \cup {"none"}
    PROVE  /\ [e EXCEPT !.pc = pc] \in Execs
           /\ [e EXCEPT !.pc = pc, !.outcome = o] \in Execs
           /\ [e EXCEPT !.pc = pc, !.outcome = o, !.cancel = FALSE] \in Execs
           /\ [e EXCEPT !.parsed = TRUE] \in Execs
           /\ [e EXCEPT !.cancel = TRUE] \in Execs
BY DEF Execs

\* The states execute_attempt passes through.
LEMMA ExecStates ==
    /\ {"spawning", "reading", "emitting", "terminating", "overflow",
        "returned", "raised", "task_cancelled"} \subseteq ExecPcs
    /\ {"none", "cancelled"} \subseteq Outcomes \cup {"none"}
BY DEF ExecPcs, Terminating, Ended, Outcomes

\* The event task and the supervisor after they are cancelled.
LEMMA CancelledTasks ==
    /\ \A c \in Consumers : CancelTask(c) \in Consumers
    /\ \A s \in Supervisors : CancelTask(s) \in Supervisors
BY DEF CancelTask, Consumers, Supervisors, Done, Ended

\* Signalling or forgetting a command leaves the rest of it alone.
LEMMA CommandFields ==
    ASSUME NEW p \in Processes
    PROVE  /\ Signal(p).life = p.life
           /\ Signal(p).registered = p.registered
           /\ Signal(p).life = "running" => Signal(p).signalled
           /\ p.signalled => Signal(p).signalled
           /\ Leaving(p).life = p.life
           /\ Leaving(p).signalled = p.signalled
           /\ ~ Leaving(p).registered
BY DEF Processes, Signal, Leaving

\* SInv holds when the tasks are created.
LEMMA InitialSession == Init => SInv
<1> SUFFICES ASSUME Init PROVE SInv
  OBVIOUS
<1> USE SessionAssumption DEF Init
<1>1. channel \in Channels /\ channel.consumed <= channel.emitted
  BY DEF Channels
<1>2. process \in Processes /\ exec \in Execs
  BY DEF Processes, Execs, ExecPcs
<1>3. consumer \in Consumers /\ supervisor \in Supervisors /\ main \in Mains
  BY DEF Consumers, Supervisors, Mains
<1>4. TypeOK
  BY <1>1, <1>2, <1>3 DEF TypeOK
<1>5. Backpressure /\ StreamShape /\ MainShape
  BY DEF Backpressure, StreamShape, MainShape, Done
<1>6. CancelShape /\ CommandShape /\ CancelledHasNoResult
  BY DEF CancelShape, CommandShape, CancelledHasNoResult, Done, Terminating, Ended
<1> QED
  BY <1>4, <1>5, <1>6 DEF SInv

\* Every step keeps the channel within its bounds and every task at an await.
LEMMA TypeStep == SInv /\ [Next]_vars => TypeOK'
<1> SUFFICES ASSUME SInv, [Next]_vars PROVE TypeOK'
  OBVIOUS
<1> USE SessionAssumption DEF SInv, TypeOK
<1>1. CASE Exit
  BY <1>1, ProcessRows, ExecRows, ExecStates DEF Exit
<1>2. CASE Start
  BY <1>2, ProcessRows, ExecRows, ExecStates DEF Start
<1>3. CASE StartCancelled
  BY <1>3, ChannelRows, ProcessRows, ExecRows, ExecStates DEF StartCancelled, Channels
<1>4. CASE Spawned
  BY <1>4, ProcessRows, ExecRows, ExecStates DEF Spawned, Processes
<1>5. CASE ReadEvent
  BY <1>5, ProcessRows, ExecRows, ExecStates DEF ReadEvent
<1>6. CASE ReadResult
  BY <1>6, ProcessRows, ExecRows, ExecStates DEF ReadResult
<1>7. CASE ReadRefused
  BY <1>7, ProcessRows, ExecRows, ExecStates DEF ReadRefused
<1>8. CASE ReadNothing
  BY <1>8, ChannelRows, ProcessRows, ExecRows, ExecStates DEF ReadNothing, Channels
<1>9. ASSUME NEW outcome \in Outcomes, ReadEnd(outcome) PROVE TypeOK'
  BY <1>9, ChannelRows, ProcessRows, ExecRows, ExecStates
     DEF ReadEnd, FinalOutcome, Channels, Outcomes
<1>10. CASE Emit
  <2>1. channel' \in Channels /\ channel'.consumed <= channel'.emitted
    BY <1>10, ChannelRows DEF Emit, Room, Channels, StreamShape
  <2>2. process' \in Processes /\ exec' \in Execs
    BY <1>10, ProcessRows, ExecRows, ExecStates DEF Emit, Room
  <2>3. /\ consumer' \in Consumers /\ supervisor' \in Supervisors
        /\ main' \in Mains /\ cancelled' \in BOOLEAN
    BY <1>10 DEF Emit, Room
  <2> QED
    BY <2>1, <2>2, <2>3
<1>11. CASE EmitRefused
  BY <1>11, ProcessRows, ExecRows, ExecStates DEF EmitRefused
<1>12. CASE StderrRefused
  BY <1>12, ProcessRows, ExecRows, ExecStates DEF StderrRefused
<1>13. CASE EmitDying
  <2>1. channel' \in Channels /\ channel'.consumed <= channel'.emitted
    BY <1>13, ChannelRows DEF EmitDying, Room, Channels
  <2>2. process' \in Processes /\ exec' \in Execs
    BY <1>13, ProcessRows, ExecRows, ExecStates DEF EmitDying, Room
  <2>3. /\ consumer' \in Consumers /\ supervisor' \in Supervisors
        /\ main' \in Mains /\ cancelled' \in BOOLEAN
    BY <1>13 DEF EmitDying, Room
  <2> QED
    BY <2>1, <2>2, <2>3
<1>14. CASE ExecInterrupted
  BY <1>14, ProcessRows, ExecRows, ExecStates DEF ExecInterrupted
<1>15. CASE ExecCancelled
  BY <1>15, ProcessRows, ExecRows, ExecStates DEF ExecCancelled
<1>16. CASE ExecAborted
  BY <1>16, ChannelRows, ProcessRows, ExecRows, ExecStates DEF ExecAborted, Channels
<1>17. CASE Terminated
  BY <1>17, ChannelRows, ProcessRows, ExecRows, ExecStates DEF Terminated, Channels
<1>18. CASE Claim
  BY <1>18, ChannelRows, ProcessRows, ExecRows, ExecStates DEF Claim, Channels, Consumers
<1>19. CASE Take
  <2>1. channel' \in Channels /\ channel'.consumed <= channel'.emitted
    BY <1>19, ChannelRows DEF Take, Channels
  <2>2. process' \in Processes /\ exec' \in Execs
    BY <1>19, ProcessRows, ExecRows, ExecStates DEF Take
  <2>3. /\ consumer' \in Consumers /\ supervisor' \in Supervisors
        /\ main' \in Mains /\ cancelled' \in BOOLEAN
    BY <1>19 DEF Take, Consumers, Channels, StreamShape
  <2> QED
    BY <2>1, <2>2, <2>3
<1>20. CASE TakeFails
  <2>1. channel' \in Channels /\ channel'.consumed <= channel'.emitted
    BY <1>20, ChannelRows DEF TakeFails, Channels
  <2>2. process' \in Processes /\ exec' \in Execs
    BY <1>20, ProcessRows, ExecRows, ExecStates DEF TakeFails
  <2>3. /\ consumer' \in Consumers /\ supervisor' \in Supervisors
        /\ main' \in Mains /\ cancelled' \in BOOLEAN
    BY <1>20 DEF TakeFails, Consumers, Ended
  <2> QED
    BY <2>1, <2>2, <2>3
<1>21. CASE StreamEnd
  BY <1>21, ProcessRows, ExecRows, ExecStates DEF StreamEnd, StreamEnds, Consumers, Ended
<1>22. ASSUME NEW found \in {"lease_lost", "cancel_requested"}, Watch(found) PROVE TypeOK'
  BY <1>22, ProcessRows, ExecRows, ExecStates DEF Watch, Supervisors
<1>23. ASSUME NEW found \in {"lease_lost", "cancel_requested"}, WatchIdle(found) PROVE TypeOK'
  BY <1>23, ChannelRows, ProcessRows, ExecRows, ExecStates
     DEF WatchIdle, Channels, Supervisors, Ended
<1>24. CASE Cancelled
  BY <1>24, ChannelRows, ProcessRows, ExecRows, ExecStates
     DEF Cancelled, Channels, Supervisors, Ended
<1>25. CASE WatchFails
  BY <1>25, ProcessRows, ExecRows, ExecStates DEF WatchFails, Supervisors, Ended
<1>26. CASE MainSupervised
  BY <1>26, ProcessRows, ExecRows, ExecStates, CancelledTasks
     DEF MainSupervised, Close, Verdict, Supervisors, Mains, Reasons
<1>27. CASE MainTimeout
  BY <1>27, ProcessRows, ExecRows, ExecStates, CancelledTasks
     DEF MainTimeout, Close, Mains, Reasons
<1>28. CASE MainCancelRequested
  BY <1>28, ChannelRows, ProcessRows, ExecRows, ExecStates, CancelledTasks
     DEF MainCancelRequested, Close, Channels, Mains, Reasons
<1>29. CASE MainCheckFails
  BY <1>29, ProcessRows, ExecRows, ExecStates, CancelledTasks
     DEF MainCheckFails, Close, Mains, Reasons
<1>30. CASE MainExecuted
  <2>1. channel' \in Channels /\ channel'.consumed <= channel'.emitted
    BY <1>30 DEF MainExecuted, Close
  <2>2. process' \in Processes /\ exec' \in Execs
    BY <1>30, ProcessRows, ExecRows, ExecStates DEF MainExecuted, Close
  <2>3. /\ consumer' \in Consumers /\ supervisor' \in Supervisors
        /\ main' \in Mains /\ cancelled' \in BOOLEAN
    BY <1>30, CancelledTasks DEF MainExecuted, Close, Mains, Reasons
  <2> QED
    BY <2>1, <2>2, <2>3
<1>31. CASE MainDrained
  BY <1>31, ProcessRows, ExecRows, ExecStates, CancelledTasks
     DEF MainDrained, Close, Mains, Reasons
<1>32. CASE MainClosed
  BY <1>32, ProcessRows, ExecRows, ExecStates, CancelledTasks
     DEF MainClosed, Mains, Reasons
<1>33. CASE Cleanup
  BY <1>33, ProcessRows, ExecRows, ExecStates DEF Cleanup, Mains
<1>34. CASE Finish
  BY <1>34, ChannelRows, ProcessRows, ExecRows, ExecStates DEF Finish, Channels, Mains
<1>35. CASE UNCHANGED vars
  BY <1>35 DEF vars
<1> QED
  BY <1>1, <1>2, <1>3, <1>4, <1>5, <1>6, <1>7, <1>8, <1>9, <1>10, <1>11, <1>12,
     <1>13, <1>14, <1>15, <1>16, <1>17, <1>18, <1>19, <1>20, <1>21, <1>22, <1>23, <1>24,
     <1>25, <1>26, <1>27, <1>28, <1>29, <1>30, <1>31, <1>32, <1>33, <1>34, <1>35
  DEF Next, ExecNext, ConsumerNext, SupervisorNext, MainNext

\* Every step keeps the other parts of SInv.
LEMMA SessionStep == SInv /\ [Next]_vars => SInv'
<1> SUFFICES ASSUME SInv, [Next]_vars PROVE SInv'
  OBVIOUS
<1>0. TypeOK'
  BY TypeStep
<1> USE SessionAssumption
    DEF SInv, TypeOK, Channels, Execs, ExecPcs, Consumers,
        Supervisors, Mains, Terminating, Ended, Outcomes, Reasons, Done
<1>1. CASE Exit
  BY <1>0, <1>1
     DEF Exit, Processes, Backpressure, StreamShape, MainShape, CancelShape,
         CommandShape, CancelledHasNoResult
<1>2. CASE Start
  BY <1>0, <1>2
     DEF Start, Processes, Backpressure, StreamShape, MainShape, CancelShape,
         CommandShape, CancelledHasNoResult
<1>3. CASE StartCancelled
  BY <1>0, <1>3
     DEF StartCancelled, Processes, Backpressure, StreamShape, MainShape, CancelShape,
         CommandShape, CancelledHasNoResult
<1>4. CASE Spawned
  BY <1>0, <1>4
     DEF Spawned, Processes, Backpressure, StreamShape, MainShape, CancelShape,
         CommandShape, CancelledHasNoResult
<1>5. CASE ReadEvent
  BY <1>0, <1>5
     DEF ReadEvent, Processes, Backpressure, StreamShape, MainShape, CancelShape,
         CommandShape, CancelledHasNoResult
<1>6. CASE ReadResult
  BY <1>0, <1>6
     DEF ReadResult, Processes, Backpressure, StreamShape, MainShape, CancelShape,
         CommandShape, CancelledHasNoResult
<1>7. CASE ReadRefused
  BY <1>0, <1>7, CommandFields
     DEF ReadRefused, Backpressure, StreamShape, MainShape, CancelShape, CommandShape,
         CancelledHasNoResult
<1>8. CASE ReadNothing
  BY <1>0, <1>8, CommandFields
     DEF ReadNothing, Backpressure, StreamShape, MainShape, CancelShape, CommandShape,
         CancelledHasNoResult
<1>9. ASSUME NEW outcome \in Outcomes, ReadEnd(outcome) PROVE SInv'
  BY <1>0, <1>9, CommandFields
     DEF ReadEnd, FinalOutcome, Backpressure, StreamShape, MainShape, CancelShape,
         CommandShape, CancelledHasNoResult
<1>10. CASE Emit
  BY <1>0, <1>10
     DEF Emit, Room, Processes, Backpressure, StreamShape, MainShape, CancelShape,
         CommandShape, CancelledHasNoResult
<1>11. CASE EmitRefused
  BY <1>0, <1>11, CommandFields
     DEF EmitRefused, Backpressure, StreamShape, MainShape, CancelShape, CommandShape,
         CancelledHasNoResult
<1>12. CASE StderrRefused
  BY <1>0, <1>12, CommandFields
     DEF StderrRefused, Backpressure, StreamShape, MainShape, CancelShape, CommandShape,
         CancelledHasNoResult
<1>13. CASE EmitDying
  BY <1>0, <1>13
     DEF EmitDying, Room, Processes, Backpressure, StreamShape, MainShape, CancelShape,
         CommandShape, CancelledHasNoResult
<1>14. CASE ExecInterrupted
  BY <1>0, <1>14, CommandFields
     DEF ExecInterrupted, Backpressure, StreamShape, MainShape, CancelShape,
         CommandShape, CancelledHasNoResult
<1>15. CASE ExecCancelled
  BY <1>0, <1>15
     DEF ExecCancelled, Processes, Backpressure, StreamShape, MainShape, CancelShape,
         CommandShape, CancelledHasNoResult
<1>16. CASE ExecAborted
  BY <1>0, <1>16, CommandFields
     DEF ExecAborted, Backpressure, StreamShape, MainShape, CancelShape, CommandShape,
         CancelledHasNoResult
<1>17. CASE Terminated
  BY <1>0, <1>17, CommandFields
     DEF Terminated, Backpressure, StreamShape, MainShape, CancelShape, CommandShape,
         CancelledHasNoResult
<1>18. CASE Claim
  BY <1>0, <1>18
     DEF Claim, Processes, Backpressure, StreamShape, MainShape, CancelShape,
         CommandShape, CancelledHasNoResult
<1>19. CASE Take
  BY <1>0, <1>19
     DEF Take, Processes, Backpressure, StreamShape, MainShape, CancelShape,
         CommandShape, CancelledHasNoResult
<1>20. CASE TakeFails
  BY <1>0, <1>20
     DEF TakeFails, Processes, Backpressure, StreamShape, MainShape, CancelShape,
         CommandShape, CancelledHasNoResult
<1>21. CASE StreamEnd
  BY <1>0, <1>21
     DEF StreamEnd, StreamEnds, Processes, Backpressure, StreamShape, MainShape,
         CancelShape, CommandShape, CancelledHasNoResult
<1>22. ASSUME NEW found \in {"lease_lost", "cancel_requested"}, Watch(found) PROVE SInv'
  BY <1>0, <1>22, CommandFields
     DEF Watch, Backpressure, StreamShape, MainShape, CancelShape, CommandShape,
         CancelledHasNoResult
<1>23. ASSUME NEW found \in {"lease_lost", "cancel_requested"}, WatchIdle(found) PROVE SInv'
  BY <1>0, <1>23
     DEF WatchIdle, Processes, Backpressure, StreamShape, MainShape, CancelShape,
         CommandShape, CancelledHasNoResult
<1>24. CASE Cancelled
  BY <1>0, <1>24
     DEF Cancelled, Processes, Backpressure, StreamShape, MainShape, CancelShape,
         CommandShape, CancelledHasNoResult
<1>25. CASE WatchFails
  BY <1>0, <1>25
     DEF WatchFails, Processes, Backpressure, StreamShape, MainShape, CancelShape,
         CommandShape, CancelledHasNoResult
<1>26. CASE MainSupervised
  BY <1>0, <1>26
     DEF MainSupervised, Close, CancelTask, Verdict, Processes, Backpressure,
         StreamShape, MainShape, CancelShape, CommandShape, CancelledHasNoResult
<1>27. CASE MainTimeout
  BY <1>0, <1>27
     DEF MainTimeout, Close, CancelTask, Processes, Backpressure, StreamShape, MainShape,
         CancelShape, CommandShape, CancelledHasNoResult
<1>28. CASE MainCancelRequested
  BY <1>0, <1>28
     DEF MainCancelRequested, Close, CancelTask, Processes, Backpressure, StreamShape,
         MainShape, CancelShape, CommandShape, CancelledHasNoResult
<1>29. CASE MainCheckFails
  BY <1>0, <1>29
     DEF MainCheckFails, Close, CancelTask, Processes, Backpressure, StreamShape,
         MainShape, CancelShape, CommandShape, CancelledHasNoResult
<1>30. CASE MainExecuted
  BY <1>0, <1>30
     DEF MainExecuted, Close, CancelTask, Processes, Backpressure, StreamShape,
         MainShape, CancelShape, CommandShape, CancelledHasNoResult
<1>31. CASE MainDrained
  BY <1>0, <1>31
     DEF MainDrained, Close, CancelTask, Processes, Backpressure, StreamShape, MainShape,
         CancelShape, CommandShape, CancelledHasNoResult
<1>32. CASE MainClosed
  BY <1>0, <1>32
     DEF MainClosed, Processes, Backpressure, StreamShape, MainShape, CancelShape,
         CommandShape, CancelledHasNoResult
<1>33. CASE Cleanup
  BY <1>0, <1>33, CommandFields
     DEF Cleanup, Backpressure, StreamShape, MainShape, CancelShape, CommandShape,
         CancelledHasNoResult
<1>34. CASE Finish
  BY <1>0, <1>34, CommandFields
     DEF Finish, Backpressure, StreamShape, MainShape, CancelShape, CommandShape,
         CancelledHasNoResult
<1>35. CASE UNCHANGED vars
  BY <1>0, <1>35
     DEF vars, Processes, Backpressure, StreamShape, MainShape, CancelShape,
         CommandShape, CancelledHasNoResult
<1> QED
  BY <1>1, <1>2, <1>3, <1>4, <1>5, <1>6, <1>7, <1>8, <1>9, <1>10, <1>11, <1>12,
     <1>13, <1>14, <1>15, <1>16, <1>17, <1>18, <1>19, <1>20, <1>21, <1>22, <1>23, <1>24,
     <1>25, <1>26, <1>27, <1>28, <1>29, <1>30, <1>31, <1>32, <1>33, <1>34, <1>35
  DEF Next, ExecNext, ConsumerNext, SupervisorNext, MainNext

\* SInv is an invariant of the session.
THEOREM SessionInvariant == Spec => []SInv
<1> QED
  BY InitialSession, SessionStep, PTL DEF Spec

\* However producer, consumer and cancellation interleave, at most
\* max_pending_events events are undelivered once there is a consumer, and
\* never more than max_events are retained.
THEOREM ChannelIsBounded == Spec => [](TypeOK /\ Backpressure)
<1>1. SInv => TypeOK /\ Backpressure
  BY DEF SInv
<1> QED
  BY <1>1, SessionInvariant, PTL

\* A result leaves _execute_supervised only with everything the adapter emitted.
THEOREM TraceIsWhole == Spec => []ResultHasWholeTrace
<1>1. SInv => ResultHasWholeTrace
  BY DEF SInv, ResultHasWholeTrace, StreamShape, MainShape
<1> QED
  BY <1>1, SessionInvariant, PTL

\* A completed result never overtakes a cancellation.
THEOREM CancellationIsNotOvertaken == Spec => []CancelledHasNoResult
<1>1. SInv => CancelledHasNoResult
  BY DEF SInv
<1> QED
  BY <1>1, SessionInvariant, PTL

\* So whatever is handed on to be stored is whole and was not cancelled.
THEOREM ResultsAreFit == Spec => []ResultIsFit
<1>1. TypeOK /\ Backpressure /\ ResultHasWholeTrace /\ CancelledHasNoResult => ResultIsFit
  BY DEF ResultIsFit
<1> QED
  BY <1>1, ChannelIsBounded, TraceIsWhole, CancellationIsNotOvertaken, PTL

\* When the attempt is over its command has exited or was signalled.
THEOREM CommandIsStopped == Spec => []NoCommandLeftRunning
<1>1. SInv => NoCommandLeftRunning
  BY DEF SInv, NoCommandLeftRunning, CommandShape, Done, Ended, Terminating
<1> QED
  BY <1>1, SessionInvariant, PTL

-----------------------------------------------------------------------------
(***************************************************************************)
(* The lifecycle contract.                                                 *)
(***************************************************************************)
\* The conjunction is inductive: a result's owner must be known for the next
\* admission to be refused, and only the newest generation current for begin.
ContractInv == ContractTypes /\ NewestIsCurrent /\ ResultHasOneOwner /\ NoFreeDispatch

LEMMA InitialContract == ContractInit => ContractInv
BY ContractAssumption
   DEF ContractInit, ContractInv, ContractTypes, NewestIsCurrent, ResultHasOneOwner, NoFreeDispatch,
       Generations, Invocations, Absent, Exists, Current, TerminalReservations,
       TerminalCancellations

\* What a step may do to the row of an existing generation.
RowKept(old, new) ==
    /\ new.admission # "absent"
    /\ new.admission = "current" => old.admission = "current"
    /\ new.result = old.result
    /\ new.result # NoResult => new.admission # "duplicate"
    /\ ~ (new.dispatched /\ new.reservation = "released")
    /\ new.committed <=> new.reservation = "committed"
    /\ new.committed => new.result # NoResult

\* A step that only rewrites such a row keeps the contract.
LEMMA RowStep ==
    ASSUME ContractInv, NEW g \in Generations, Exists(g), NEW row \in Invocations,
           invocations' = [invocations EXCEPT ![g] = row],
           RowKept(invocations[g], row),
           begun' = begun, resultOwner' = resultOwner,
           requestOwner' \in Generations \cup {NoOwner}
    PROVE  ContractInv'
<1> USE DEF ContractInv, Generations, RowKept
<1>1. ContractTypes'
  BY ContractAssumption DEF ContractTypes, Exists
<1>2. NewestIsCurrent'
  BY DEF ContractTypes, NewestIsCurrent, Current, Exists
<1>3. ResultHasOneOwner'
  BY DEF ContractTypes, ResultHasOneOwner
<1>4. NoFreeDispatch'
  BY DEF ContractTypes, NoFreeDispatch
<1> QED BY <1>1, <1>2, <1>3, <1>4

LEMMA BeginStep == ContractInv /\ Begin => ContractInv'
<1> SUFFICES ASSUME ContractInv, Begin PROVE ContractInv'
  OBVIOUS
<1> USE ContractAssumption DEF ContractInv, Begin, Generations, owners
<1>1. begun + 1 \in Generations
  BY DEF ContractTypes
<1>2. invocations[begun + 1] = Absent
  BY <1>1 DEF ContractTypes
<1>3. ContractTypes'
  <2> DEFINE row == [Absent EXCEPT !.admission = "current"]
  <2>1. row \in Invocations /\ row.admission = "current"
    BY DEF Absent, Invocations, TerminalReservations, TerminalCancellations
  <2>2. invocations' = [invocations EXCEPT ![begun + 1] = row]
    BY <1>1, <1>2 DEF ContractTypes
  <2> HIDE DEF row
  <2> QED BY <1>1, <2>1, <2>2 DEF ContractTypes, Exists
<1>4. NewestIsCurrent'
  BY <1>1 DEF ContractTypes, NewestIsCurrent, Current
<1>5. ResultHasOneOwner'
  BY <1>1, <1>2 DEF ContractTypes, ResultHasOneOwner, Absent
<1>6. NoFreeDispatch'
  BY <1>1, <1>2 DEF ContractTypes, NoFreeDispatch, Absent
<1> QED BY <1>3, <1>4, <1>5, <1>6

LEMMA AdmitStep == ASSUME NEW g \in Generations, NEW d \in Results
                   PROVE  ContractInv /\ AdmitResult(g, d) => ContractInv'
<1> SUFFICES ASSUME ContractInv, AdmitResult(g, d) PROVE ContractInv'
  OBVIOUS
<1> USE ContractAssumption DEF ContractInv, AdmitResult, Generations
<1>1. Exists(g)
  BY DEF Exists, Current
<1>2. [invocations[g] EXCEPT !.result = d] \in Invocations
  <2>1. invocations[g] \in Invocations /\ d \in Results \cup {NoResult}
    BY DEF ContractTypes
  <2> QED BY <2>1 DEF Invocations
<1>3. ContractTypes'
  <2> DEFINE row == [invocations[g] EXCEPT !.result = d]
  <2>1. row \in Invocations /\ row.admission = invocations[g].admission
    BY <1>2 DEF ContractTypes, Invocations
  <2>2. invocations' = [invocations EXCEPT ![g] = row]
    BY DEF ContractTypes
  <2> HIDE DEF row
  <2> QED BY <1>1, <2>1, <2>2 DEF ContractTypes, Exists, Current
<1>4. NewestIsCurrent'
  BY DEF ContractTypes, NewestIsCurrent, Current
<1>5. ASSUME NEW h \in Generations, invocations'[h].result # NoResult
      PROVE  resultOwner'[invocations'[h].result] = h /\ invocations'[h].admission # "duplicate"
  <2>1. CASE h = g
    BY <2>1 DEF ContractTypes, Current, Invocations
  <2>2. CASE h # g
    BY <1>5, <2>2 DEF ContractTypes, ResultHasOneOwner, Invocations
  <2> QED BY <2>1, <2>2
<1>6. NoFreeDispatch'
  BY DEF ContractTypes, NoFreeDispatch, Invocations
<1> QED BY <1>3, <1>4, <1>5, <1>6 DEF ResultHasOneOwner

\* Every other action rewrites the row of one generation.
LEMMA OtherSteps ==
    ASSUME ContractInv, NEW g \in Generations,
           \/ ExpireLease(g) \/ Reserve(g) \/ Dispatch(g) \/ ObserveRequestIdentity(g)
           \/ CommitBudget(g) \/ SettleUnknownOrRelease(g) \/ DisputeBudget(g)
           \/ \E state \in {"requested", "dispatched"} \cup TerminalCancellations :
                AdvanceCancellation(g, state)
    PROVE  ContractInv'
<1> USE DEF owners
<1>0. invocations[g] \in Invocations /\ invocations \in [Generations -> Invocations]
  BY DEF ContractInv, ContractTypes
<1>1. Exists(g)
  BY ContractAssumption DEF ContractInv, ContractTypes, Exists, Current, Absent, ExpireLease, Reserve, Dispatch,
         ObserveRequestIdentity, CommitBudget, SettleUnknownOrRelease, DisputeBudget,
         AdvanceCancellation
<1>2. NoFreeDispatch /\ ResultHasOneOwner /\ requestOwner \in Generations \cup {NoOwner}
  BY DEF ContractInv, ContractTypes
<1>3. CASE ExpireLease(g)
  <2> DEFINE row == [invocations[g] EXCEPT !.admission = "stale"]
  <2>1. row \in Invocations
    BY <1>0 DEF Invocations, TerminalReservations, TerminalCancellations
  <2>2. invocations' = [invocations EXCEPT ![g] = row]
    BY <1>0, <1>3 DEF ExpireLease, Invocations
  <2>3. UNCHANGED <<begun, resultOwner, requestOwner>>
    BY <1>3 DEF ExpireLease
  <2>4. RowKept(invocations[g], row)
    BY <1>0, <1>1, <1>2, <1>3 DEF ExpireLease, RowKept, Exists, Current, Invocations, NoFreeDispatch,
         ResultHasOneOwner, TerminalReservations
  <2> QED BY <1>1, <1>2, <2>1, <2>2, <2>3, <2>4, RowStep
<1>4. CASE Reserve(g)
  <2> DEFINE row == [invocations[g] EXCEPT !.reservation = "reserved"]
  <2>1. row \in Invocations
    BY <1>0 DEF Invocations, TerminalReservations, TerminalCancellations
  <2>2. invocations' = [invocations EXCEPT ![g] = row]
    BY <1>0, <1>4 DEF Reserve, Invocations
  <2>3. UNCHANGED <<begun, resultOwner, requestOwner>>
    BY <1>4 DEF Reserve
  <2>4. RowKept(invocations[g], row)
    BY <1>0, <1>1, <1>2, <1>4 DEF Reserve, RowKept, Exists, Current, Invocations, NoFreeDispatch,
         ResultHasOneOwner, TerminalReservations
  <2> QED BY <1>1, <1>2, <2>1, <2>2, <2>3, <2>4, RowStep
<1>5. CASE Dispatch(g)
  <2> DEFINE row == [invocations[g] EXCEPT !.dispatched = TRUE]
  <2>1. row \in Invocations
    BY <1>0 DEF Invocations, TerminalReservations, TerminalCancellations
  <2>2. invocations' = [invocations EXCEPT ![g] = row]
    BY <1>0, <1>5 DEF Dispatch, Invocations
  <2>3. UNCHANGED <<begun, resultOwner, requestOwner>>
    BY <1>5 DEF Dispatch
  <2>4. RowKept(invocations[g], row)
    BY <1>0, <1>1, <1>2, <1>5 DEF Dispatch, RowKept, Exists, Current, Invocations, NoFreeDispatch,
         ResultHasOneOwner, TerminalReservations
  <2> QED BY <1>1, <1>2, <2>1, <2>2, <2>3, <2>4, RowStep
<1>6. CASE ObserveRequestIdentity(g)
  <2>1. CASE requestOwner = NoOwner
    <3> DEFINE row == [invocations[g] EXCEPT !.observed = TRUE]
    <3>1. row \in Invocations
      BY <1>0 DEF Invocations
    <3>2. invocations' = [invocations EXCEPT ![g] = row]
      BY <1>0, <1>6, <2>1 DEF ObserveRequestIdentity, Invocations
    <3>3. begun' = begun /\ resultOwner' = resultOwner /\ requestOwner' \in Generations \cup {NoOwner}
      BY <1>2, <1>6, <2>1 DEF ObserveRequestIdentity
    <3>4. RowKept(invocations[g], row)
      BY <1>0, <1>1, <1>2, <1>6, <2>1 DEF ObserveRequestIdentity, RowKept, Exists, Current, Invocations, NoFreeDispatch,
           ResultHasOneOwner
    <3> QED BY <1>1, <1>2, <3>1, <3>2, <3>3, <3>4, RowStep
  <2>2. CASE requestOwner # NoOwner
    <3> DEFINE row == [invocations[g] EXCEPT !.observed = TRUE, !.admission = "duplicate"]
    <3>1. row \in Invocations
      BY <1>0 DEF Invocations
    <3>2. invocations' = [invocations EXCEPT ![g] = row]
      BY <1>0, <1>6, <2>2 DEF ObserveRequestIdentity, Invocations
    <3>3. begun' = begun /\ resultOwner' = resultOwner /\ requestOwner' \in Generations \cup {NoOwner}
      BY <1>2, <1>6, <2>2 DEF ObserveRequestIdentity
    <3>4. RowKept(invocations[g], row)
      BY <1>0, <1>1, <1>2, <1>6, <2>2 DEF ObserveRequestIdentity, RowKept, Exists, Current, Invocations, NoFreeDispatch,
           ResultHasOneOwner
    <3> QED BY <1>1, <1>2, <3>1, <3>2, <3>3, <3>4, RowStep
  <2> QED BY <2>1, <2>2
<1>7. CASE CommitBudget(g)
  <2> DEFINE row == [invocations[g] EXCEPT !.reservation = "committed", !.committed = TRUE]
  <2>1. row \in Invocations
    BY <1>0 DEF Invocations, TerminalReservations, TerminalCancellations
  <2>2. invocations' = [invocations EXCEPT ![g] = row]
    BY <1>0, <1>7 DEF CommitBudget, Invocations
  <2>3. UNCHANGED <<begun, resultOwner, requestOwner>>
    BY <1>7 DEF CommitBudget
  <2>4. RowKept(invocations[g], row)
    BY <1>0, <1>1, <1>2, <1>7 DEF CommitBudget, RowKept, Exists, Current, Invocations, NoFreeDispatch,
         ResultHasOneOwner, TerminalReservations
  <2> QED BY <1>1, <1>2, <2>1, <2>2, <2>3, <2>4, RowStep
<1>8. CASE SettleUnknownOrRelease(g)
  <2> DEFINE row == [invocations[g] EXCEPT !.reservation = IF invocations[g].dispatched THEN "unknown_usage" ELSE "released"]
  <2>1. row \in Invocations
    BY <1>0 DEF Invocations, TerminalReservations, TerminalCancellations
  <2>2. invocations' = [invocations EXCEPT ![g] = row]
    BY <1>0, <1>8 DEF SettleUnknownOrRelease, Invocations
  <2>3. UNCHANGED <<begun, resultOwner, requestOwner>>
    BY <1>8 DEF SettleUnknownOrRelease
  <2>4. RowKept(invocations[g], row)
    BY <1>0, <1>1, <1>2, <1>8 DEF SettleUnknownOrRelease, RowKept, Exists, Current, Invocations, NoFreeDispatch,
         ResultHasOneOwner, TerminalReservations
  <2> QED BY <1>1, <1>2, <2>1, <2>2, <2>3, <2>4, RowStep
<1>9. CASE DisputeBudget(g)
  <2> DEFINE row == [invocations[g] EXCEPT !.reservation = "disputed"]
  <2>1. row \in Invocations
    BY <1>0 DEF Invocations, TerminalReservations, TerminalCancellations
  <2>2. invocations' = [invocations EXCEPT ![g] = row]
    BY <1>0, <1>9 DEF DisputeBudget, Invocations
  <2>3. UNCHANGED <<begun, resultOwner, requestOwner>>
    BY <1>9 DEF DisputeBudget
  <2>4. RowKept(invocations[g], row)
    BY <1>0, <1>1, <1>2, <1>9 DEF DisputeBudget, RowKept, Exists, Current, Invocations, NoFreeDispatch,
         ResultHasOneOwner, TerminalReservations
  <2> QED BY <1>1, <1>2, <2>1, <2>2, <2>3, <2>4, RowStep
<1>10. ASSUME NEW state \in {"requested", "dispatched"} \cup TerminalCancellations,
              AdvanceCancellation(g, state)
       PROVE  ContractInv'
  <2> DEFINE row == [invocations[g] EXCEPT !.cancellation = state]
  <2>1. row \in Invocations
    BY <1>0 DEF Invocations, TerminalReservations, TerminalCancellations
  <2>2. invocations' = [invocations EXCEPT ![g] = row]
    BY <1>0, <1>10 DEF AdvanceCancellation, Invocations
  <2>3. UNCHANGED <<begun, resultOwner, requestOwner>>
    BY <1>10 DEF AdvanceCancellation
  <2>4. RowKept(invocations[g], row)
    BY <1>0, <1>1, <1>2, <1>10 DEF AdvanceCancellation, RowKept, Exists, Current, Invocations, NoFreeDispatch,
         ResultHasOneOwner, TerminalReservations
  <2> QED BY <1>1, <1>2, <2>1, <2>2, <2>3, <2>4, RowStep
<1> QED BY <1>3, <1>4, <1>5, <1>6, <1>7, <1>8, <1>9, <1>10

LEMMA ContractStep == ContractInv /\ [ContractNext]_contractVars => ContractInv'
<1> SUFFICES ASSUME ContractInv, [ContractNext]_contractVars PROVE ContractInv'
  OBVIOUS
<1>1. CASE UNCHANGED contractVars
  BY <1>1 DEF contractVars, ContractInv, ContractTypes, NewestIsCurrent, ResultHasOneOwner, NoFreeDispatch, Exists, Current
<1>2. CASE Begin
  BY <1>2, BeginStep
<1>3. ASSUME NEW g \in Generations, NEW d \in Results, AdmitResult(g, d) PROVE ContractInv'
  BY <1>3, AdmitStep
<1> QED BY <1>1, <1>2, <1>3, OtherSteps DEF ContractNext

\* For every number of generations and every set of results, at every depth,
\* the state assertions of formal_model.py hold.
THEOREM ContractHolds == ContractSpec => []ContractIsKept
<1>1. ContractInv => ContractIsKept
  BY DEF ContractInv, ContractIsKept
<1> QED BY InitialContract, ContractStep, <1>1, PTL DEF ContractSpec

\* And so do its transition assertions: nothing settled, answered, admitted or
\* committed ever changes.
THEOREM ContractIsMonotone == ContractSpec => LifecycleIsMonotone
<1> DEFINE Mono ==
      \A g \in Generations :
         LET before == invocations[g]
             after == invocations'[g]
         IN  /\ before.reservation \in TerminalReservations =>
                    after.reservation = before.reservation
             /\ before.cancellation \in TerminalCancellations =>
                    after.cancellation = before.cancellation
             /\ before.result # NoResult => after.result = before.result
             /\ before.committed => after.committed
<1>1. ContractInv /\ [ContractNext]_contractVars => [Mono]_contractVars
  <2> SUFFICES ASSUME ContractInv, ContractNext PROVE Mono
    OBVIOUS
  <2> USE ContractAssumption DEF owners, Generations
  <2>0. invocations \in [Generations -> Invocations]
    BY DEF ContractInv, ContractTypes
  <2>1. CASE Begin
    <3>1. begun + 1 \in Generations /\ invocations[begun + 1] = Absent
      BY <2>1 DEF Begin, ContractInv, ContractTypes
    <3> QED BY <2>0, <2>1, <3>1 DEF Begin, Absent, Invocations
  <2>2. ASSUME NEW g \in Generations, NEW d \in Results, AdmitResult(g, d) PROVE Mono
    BY <2>0, <2>2 DEF AdmitResult, Invocations
  <2>3. ASSUME NEW g \in Generations,
               \/ ExpireLease(g) \/ Reserve(g) \/ Dispatch(g) \/ ObserveRequestIdentity(g)
        PROVE  Mono
    BY <2>0, <2>3 DEF ExpireLease, Reserve, Dispatch, ObserveRequestIdentity, Invocations,
                      TerminalReservations
  <2>4. ASSUME NEW g \in Generations,
               CommitBudget(g) \/ SettleUnknownOrRelease(g) \/ DisputeBudget(g)
        PROVE  Mono
    BY <2>0, <2>4 DEF CommitBudget, SettleUnknownOrRelease, DisputeBudget, Invocations,
                      TerminalReservations
  <2>5. ASSUME NEW g \in Generations,
               NEW state \in {"requested", "dispatched"} \cup TerminalCancellations,
               AdvanceCancellation(g, state)
        PROVE  Mono
    <3>1. invocations[g].cancellation \notin TerminalCancellations
      BY <2>5 DEF AdvanceCancellation, NextCancellations, TerminalCancellations
    <3> QED BY <2>0, <2>5, <3>1 DEF AdvanceCancellation, Invocations
  <2> QED BY <2>1, <2>2, <2>3, <2>4, <2>5 DEF ContractNext
<1> QED BY InitialContract, ContractStep, <1>1, PTL DEF ContractSpec, LifecycleIsMonotone

=============================================================================
