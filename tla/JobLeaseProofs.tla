--------------------------- MODULE JobLeaseProofs ---------------------------
(***************************************************************************)
(* Proofs about JobLease for every set of episodes and workers, every      *)
(* attempt budget, generation cap and timing: types first, then the        *)
(* inductive invariant and the safety properties that follow from it.      *)
(*                                                                         *)
(* The argument: an open job keeps its execution open (ExecutionTruth), so *)
(* whichever transaction closes the last job is free to close the          *)
(* execution too; a lease token is the generation it was drawn for, so a   *)
(* stale process cannot pass the compare-and-set; and a job leaves the     *)
(* queue below the generation cap only, so the cap is met exactly.         *)
(***************************************************************************)
EXTENDS JobLease, TLAPS

-----------------------------------------------------------------------------
(***************************************************************************)
(* Identifiers.  After these two lemmas the proofs treat job and attempt   *)
(* identifiers as opaque.                                                  *)
(***************************************************************************)
\* The two jobs an attempt may have are different rows of the jobs table.
LEMMA AttemptJobs ==
    ASSUME NEW a \in AttemptIds
    PROVE  /\ AttemptJob(a) \in JobIds
           /\ EvaluationJob(a) \in JobIds
           /\ AttemptJob(a) # EvaluationJob(a)
           /\ AttemptOf(AttemptJob(a)) = a
           /\ AttemptOf(EvaluationJob(a)) = a
           /\ KindOf(AttemptJob(a)) = "attempt"
           /\ KindOf(EvaluationJob(a)) = "evaluation"
BY DEF AttemptJob, EvaluationJob, AttemptOf, KindOf, JobIds, Kinds

\* A job row is the attempt job or the evaluation job of its attempt_id.
LEMMA JobAttempt ==
    ASSUME NEW j \in JobIds
    PROVE  /\ AttemptOf(j) \in AttemptIds
           /\ KindOf(j) \in Kinds
           /\ KindOf(j) = "attempt" => j = AttemptJob(AttemptOf(j))
           /\ KindOf(j) = "evaluation" => j = EvaluationJob(AttemptOf(j))
BY DEF AttemptJob, EvaluationJob, AttemptOf, KindOf, JobIds, Kinds

-----------------------------------------------------------------------------
(***************************************************************************)
(* Rows stay rows under the updates the operations make.                   *)
(***************************************************************************)
\* finalize and reclaim clear the lease columns of a row they end.
LEMMA UnleasedType ==
    ASSUME NEW row \in JobRows, NEW s \in JobStatuses
    PROVE  /\ Unleased(row, s) \in JobRows
           /\ Unleased(row, s).status = s
           /\ Unleased(row, s).count = row.count
           /\ Unleased(row, s).cancel = row.cancel
<1>1. NullLease \in LeaseColumns
  BY ConstantsAssumption DEF NullLease, LeaseColumns
<1> QED
  BY <1>1 DEF Unleased, JobRows

\* The delay before a reclaimed job can be leased again is capped.
LEMMA BackoffType ==
    ASSUME NEW g \in Nat
    PROVE  Backoff(g) \in 0..BackoffCap
BY BackoffAssumption DEF Backoff

\* Rows that do not exist yet, and rows just inserted.
LEMMA FreshRows ==
    /\ AbsentJob \in JobRows
    /\ QueuedJob \in JobRows
    /\ AbsentAttempt \in AttemptRows
    /\ QueuedAttempt \in AttemptRows
    /\ QueuedJob.status = "queued" /\ QueuedJob.count = 0 /\ ~ QueuedJob.cancel
    /\ QueuedAttempt.status = "queued" /\ QueuedAttempt.result = NoResult
<1>1. NullLease \in LeaseColumns /\ NoResult \in ResultColumns
  BY ConstantsAssumption DEF NullLease, LeaseColumns, NoResult, ResultColumns, Classifications
<1>2. AbsentJob \in JobRows /\ AbsentJob.count = 0 /\ ~ AbsentJob.cancel
  BY <1>1, BackoffAssumption DEF AbsentJob, JobRows
<1>3. AbsentAttempt \in AttemptRows /\ AbsentAttempt.result = NoResult
  BY <1>1 DEF AbsentAttempt, AttemptRows
<1>4. /\ QueuedJob \in JobRows
      /\ QueuedJob.status = "queued" /\ QueuedJob.count = 0 /\ ~ QueuedJob.cancel
  BY <1>2 DEF QueuedJob, JobRows, JobStatuses
<1>5. /\ QueuedAttempt \in AttemptRows
      /\ QueuedAttempt.status = "queued" /\ QueuedAttempt.result = NoResult
  BY <1>3 DEF QueuedAttempt, AttemptRows
<1> QED
  BY <1>2, <1>3, <1>4, <1>5

\* An attempt row with its status and result replaced and one more terminal
\* event, as finalize, reclaim and request_cancel write it.
LEMMA RecordedType ==
    ASSUME NEW row \in AttemptRows, NEW s \in TerminalAttemptStatuses, NEW r \in ResultColumns
    PROVE  /\ Recorded(row, s, r) \in AttemptRows
           /\ Recorded(row, s, r).status = s
           /\ Recorded(row, s, r).result = r
           /\ Recorded(row, s, r).evaluated = row.evaluated
<1> DEFINE first == [row EXCEPT !.status = s, !.result = r]
<1>1. /\ first \in AttemptRows /\ first.status = s /\ first.result = r
      /\ first.evaluated = row.evaluated /\ first.terminals = row.terminals
  BY DEF AttemptRows
<1>2. Recorded(row, s, r) = [first EXCEPT !.terminals = @ + 1]
  BY DEF Recorded
<1> HIDE DEF first
<1>3. first.terminals \in Nat
  BY <1>1 DEF AttemptRows
<1> QED
  BY <1>1, <1>2, <1>3 DEF AttemptRows

\* claim draws a token named by the new generation.
LEMMA LeasedType ==
    ASSUME NEW row \in JobRows, NEW o \in Owners
    PROVE  /\ LeasedTo(row, o) \in JobRows
           /\ LeasedTo(row, o).status = "running"
           /\ LeasedTo(row, o).lease.token = row.count + 1
           /\ LeasedTo(row, o).count = row.count + 1
           /\ LeasedTo(row, o).cancel = row.cancel
<1> DEFINE lease == [owner |-> o, token |-> row.count + 1, ttl |-> LeaseTicks + Grace]
<1>1. row.count \in Nat
  BY DEF JobRows
<1>2. lease \in LeaseColumns /\ lease.token = row.count + 1
  BY <1>1, ConstantsAssumption DEF LeaseColumns
<1> DEFINE first == [row EXCEPT !.status = "running", !.lease = lease]
<1>3. LeasedTo(row, o) = [first EXCEPT !.count = @ + 1]
  BY DEF LeasedTo
<1> HIDE DEF lease
<1>4. /\ first \in JobRows /\ first.status = "running" /\ first.lease = lease
      /\ first.count = row.count /\ first.cancel = row.cancel
  BY <1>2 DEF JobRows, JobStatuses
<1> HIDE DEF first
<1> QED
  BY <1>1, <1>2, <1>3, <1>4 DEF JobRows

\* request_cancel touches the status and the request of a row, nothing else.
LEMMA CancelledType ==
    ASSUME TypeOK, NEW j \in JobIds
    PROVE  /\ CancelledJob(j) \in JobRows
           /\ CancelledJob(j).status = IF jobs[j].status = "queued" THEN "cancelled"
                                       ELSE jobs[j].status
           /\ CancelledJob(j).cancel = IF jobs[j].status \in {"queued", "running"} THEN TRUE
                                       ELSE jobs[j].cancel
           /\ CancelledJob(j).count = jobs[j].count
           /\ CancelledJob(j).lease = jobs[j].lease
<1>1. jobs[j] \in JobRows
  BY DEF TypeOK
<1>2. CASE jobs[j].status = "queued"
  BY <1>1, <1>2 DEF CancelledJob, JobRows, JobStatuses, TerminalJobStatuses
<1>3. CASE jobs[j].status = "running"
  BY <1>1, <1>3 DEF CancelledJob, JobRows, JobStatuses, TerminalJobStatuses
<1>4. CASE jobs[j].status \notin {"queued", "running"}
  BY <1>1, <1>4 DEF CancelledJob
<1> QED
  BY <1>2, <1>3, <1>4

\* The passing of time changes only the two timers of a row.
LEMMA AgedType ==
    ASSUME NEW row \in JobRows
    PROVE  /\ Aged(row) \in JobRows
           /\ Aged(row).status = row.status
           /\ Aged(row).cancel = row.cancel
           /\ Aged(row).count = row.count
           /\ Aged(row).lease.token = row.lease.token
<1> DEFINE lease == [row.lease EXCEPT !.ttl = Less(row.lease.ttl)]
<1>1. row.lease \in LeaseColumns /\ row.lease.ttl \in 0..(LeaseTicks + Grace) /\ row.delay \in 0..BackoffCap
  BY DEF JobRows, LeaseColumns
<1>2. Less(row.lease.ttl) \in 0..(LeaseTicks + Grace) /\ Less(row.delay) \in 0..BackoffCap
  BY <1>1, ConstantsAssumption, BackoffAssumption DEF Less
<1>3. lease \in LeaseColumns /\ lease.token = row.lease.token
  BY <1>1, <1>2 DEF LeaseColumns
<1>4. Aged(row) = [row EXCEPT !.lease = lease, !.delay = Less(row.delay)]
  BY DEF Aged
<1> HIDE DEF lease
<1> QED
  BY <1>2, <1>3, <1>4 DEF JobRows

\* A heartbeat changes only the expiry of the lease.
LEMMA RenewedType ==
    ASSUME NEW row \in JobRows
    PROVE  LET new == [row EXCEPT !.lease.ttl = LeaseTicks + Grace]
           IN  /\ new \in JobRows
               /\ new.status = row.status
               /\ new.cancel = row.cancel
               /\ new.count = row.count
               /\ new.lease.token = row.lease.token
<1> DEFINE lease == [row.lease EXCEPT !.ttl = LeaseTicks + Grace]
<1>1. row.lease \in LeaseColumns
  BY DEF JobRows
<1>2. lease \in LeaseColumns /\ lease.token = row.lease.token
  BY <1>1, ConstantsAssumption DEF LeaseColumns
<1>3. [row EXCEPT !.lease.ttl = LeaseTicks + Grace] = [row EXCEPT !.lease = lease]
  OBVIOUS
<1> HIDE DEF lease
<1> QED
  BY <1>2, <1>3 DEF JobRows

\* Reclaiming rewrites rows of both tables into rows.
LEMMA ReclaimType ==
    ASSUME TypeOK
    PROVE  /\ ReclaimedJobs \in [JobIds -> JobRows]
           /\ ReclaimedAttempts \in [AttemptIds -> AttemptRows]
<1>1. ASSUME NEW j \in JobIds PROVE ReclaimedJob(j) \in JobRows
  <2>1. jobs[j] \in JobRows
    BY DEF TypeOK
  <2>2. jobs[j].count \in Nat
    BY <2>1 DEF JobRows
  <2>3. Unleased(jobs[j], "failed") \in JobRows /\ Unleased(jobs[j], "queued") \in JobRows
    BY <2>1, UnleasedType DEF JobStatuses, TerminalJobStatuses
  <2>4. [Unleased(jobs[j], "queued") EXCEPT !.delay = Backoff(jobs[j].count)] \in JobRows
    BY <2>2, <2>3, BackoffType DEF JobRows
  <2> QED
    BY <2>1, <2>3, <2>4 DEF ReclaimedJob
<1>2. ASSUME NEW a \in AttemptIds PROVE ReclaimedAttempt(a) \in AttemptRows
  <2>1. attempts[a] \in AttemptRows
    BY DEF TypeOK
  <2>2. [attempts[a].result EXCEPT !.class = "permanent"] \in ResultColumns
    BY <2>1 DEF AttemptRows, ResultColumns, Classifications
  <2> QED
    BY <2>1, <2>2, RecordedType DEF ReclaimedAttempt, TerminalAttemptStatuses, NonSuccess
<1> QED
  BY <1>1, <1>2 DEF ReclaimedJobs, ReclaimedAttempts

\* The status derived from the jobs is an execution status.
LEMMA FinalizedType ==
    ASSUME TypeOK, NEW rows
    PROVE  Finalized(rows) \in {"queued", "running"} \cup TerminalExecutionStatuses
BY DEF TypeOK, Finalized, TerminalExecutionStatuses

\* What a worker may report: the outcomes the job table accepts.
LEMMA ResultType ==
    ASSUME NEW r \in Results
    PROVE  /\ r.job \in TerminalJobStatuses
           /\ r.status \in TerminalAttemptStatuses
           /\ r.outcome \in TerminalAttemptStatuses \cup {"none"}
           /\ r.class \in Classifications
           /\ r.outcome # "none" => r.outcome = r.status
           /\ r.job = "completed" => r.outcome # "none"
           /\ r.job = "cancelled" <=> r.status = "cancelled"
<1>1. r \in AllResults
  BY ConstantsAssumption
<1>2. CASE r \in CapturedResults
  BY <1>2 DEF CapturedResults, TerminalJobStatuses, TerminalAttemptStatuses, NonSuccess, Classifications
<1>3. CASE r \in WorkerFailures
  BY <1>3 DEF WorkerFailures, EarlyFailures, Result, TerminalJobStatuses,
              TerminalAttemptStatuses, NonSuccess, Classifications, DeclaredTransient
<1> QED
  BY <1>1, <1>2, <1>3 DEF AllResults

-----------------------------------------------------------------------------
\* No action writes a malformed row.
LEMMA TypeStep == TypeOK /\ [Next]_vars => TypeOK'
<1> SUFFICES ASSUME TypeOK, [Next]_vars PROVE TypeOK'
  OBVIOUS
<1>1. ASSUME NEW w \in Workers, NEW j \in JobIds, Claim(w, j) PROVE TypeOK'
  <2>1. jobs[j] \in JobRows /\ OwnerOf[w] \in Owners
    BY ConstantsAssumption DEF TypeOK
  <2>2. LeasedTo(jobs[j], OwnerOf[w]) \in JobRows
    BY <2>1, LeasedType
  <2>3. jobs' \in [JobIds -> JobRows]
    BY <1>1, <2>2, ReclaimType DEF Claim
  <2>4. [job |-> j, token |-> jobs[j].count + 1] \in Leases
    BY <2>1 DEF Leases, JobRows
  <2> QED
    BY <1>1, <2>3, <2>4, ReclaimType DEF Claim, TypeOK, cancelVars
<1>2. ASSUME NEW w \in Workers, Heartbeat(w) PROVE TypeOK'
  <2>1. held[w].job \in JobIds /\ jobs[held[w].job] \in JobRows
    BY <1>2 DEF Heartbeat, OwnsLive, Owns, TypeOK, Leases
  <2>2. jobs' = [jobs EXCEPT ![held[w].job] = [jobs[held[w].job] EXCEPT !.lease.ttl = LeaseTicks + Grace]]
    BY <1>2 DEF Heartbeat
  <2>3. jobs' \in [JobIds -> JobRows]
    BY <2>1, <2>2, RenewedType DEF TypeOK
  <2> QED
    BY <1>2, <2>3 DEF Heartbeat, TypeOK, workerVars, cancelVars
<1>3. ASSUME NEW w \in Workers, Crash(w) PROVE TypeOK'
  BY <1>3 DEF Crash, TypeOK, cancelVars
<1>4. ASSUME NEW w \in Workers, MarkStarted(w) PROVE TypeOK'
  <2>1. ASSUME NEW a \in AttemptIds PROVE [attempts[a] EXCEPT !.status = "running"] \in AttemptRows
    BY DEF TypeOK, AttemptRows
  <2>2. attempts' \in [AttemptIds -> AttemptRows]
    BY <1>4, <2>1 DEF MarkStarted, TypeOK
  <2> QED
    BY <1>4, <2>2 DEF MarkStarted, TypeOK, cancelVars
<1>5. ASSUME NEW w \in Workers, NEW r \in Results, Finalize(w, r) PROVE TypeOK'
  <2> DEFINE j == held[w].job
  <2>1. j \in JobIds /\ jobs[j] \in JobRows /\ held[w].token \in Nat
    BY <1>5 DEF Finalize, OwnsLive, Owns, TypeOK, Leases
  <2>2. /\ r.job \in TerminalJobStatuses
        /\ r.status \in TerminalAttemptStatuses
        /\ r.outcome \in TerminalAttemptStatuses \cup {"none"}
        /\ r.class \in Classifications
    BY ResultType
  <2>3. Unleased(jobs[j], Winner(j, r.job)) \in JobRows
    BY <2>1, <2>2, UnleasedType DEF Winner, JobStatuses, TerminalJobStatuses
  <2>4. jobs' \in [JobIds -> JobRows]
    BY <1>5, <2>3, FreshRows DEF Finalize, FinalizedJobs, TypeOK
  <2>5. attempts' \in [AttemptIds -> AttemptRows]
    <3>1. AttemptOf(j) \in AttemptIds /\ attempts[AttemptOf(j)] \in AttemptRows
      BY <2>1, JobAttempt DEF TypeOK
    <3>2. [outcome |-> r.outcome, class |-> r.class, gen |-> held[w].token] \in ResultColumns
      BY <2>1, <2>2 DEF ResultColumns
    <3>3. (IF Winner(j, r.job) = "cancelled" THEN "cancelled" ELSE r.status) \in TerminalAttemptStatuses
      BY <2>2 DEF TerminalAttemptStatuses
    <3> QED
      BY <1>5, <3>1, <3>2, <3>3, RecordedType DEF Finalize, TypeOK
  <2> QED
    BY <1>5, <2>4, <2>5, FinalizedType DEF Finalize, Release, TypeOK, cancelVars
<1>6. ASSUME NEW w \in Workers, Fenced(w) PROVE TypeOK'
  BY <1>6 DEF Fenced, Release, TypeOK, cancelVars
<1>7. ASSUME NEW w \in Workers, Evaluate(w) PROVE TypeOK'
  <2>1. held[w].token \in Nat
    BY <1>7 DEF Evaluate, OwnsLive, Owns, TypeOK, Leases
  <2>2. ASSUME NEW a \in AttemptIds PROVE [attempts[a] EXCEPT !.evaluated = held[w].token] \in AttemptRows
    BY <2>1 DEF TypeOK, AttemptRows
  <2>3. attempts' \in [AttemptIds -> AttemptRows]
    BY <1>7, <2>2 DEF Evaluate, TypeOK
  <2> QED
    BY <1>7, <2>3 DEF Evaluate, TypeOK, cancelVars
<1>8. ASSUME NEW w \in Workers, FinalizeAuxiliary(w) PROVE TypeOK'
  <2> DEFINE j == held[w].job
             outcome == IF phase[w] = "evaluated" THEN "completed" ELSE "failed"
  <2>1. j \in JobIds /\ jobs[j] \in JobRows
    BY <1>8 DEF FinalizeAuxiliary, OwnsLive, Owns, TypeOK, Leases
  <2>2. Unleased(jobs[j], Winner(j, outcome)) \in JobRows
    BY <2>1, UnleasedType DEF Winner, JobStatuses, TerminalJobStatuses
  <2>3. jobs' \in [JobIds -> JobRows]
    BY <1>8, <2>1, <2>2 DEF FinalizeAuxiliary, TypeOK
  <2> QED
    BY <1>8, <2>3, FinalizedType DEF FinalizeAuxiliary, Release, TypeOK, cancelVars
<1>9. CASE Reclaim
  <2>1. execution' \in {"queued", "running"} \cup TerminalExecutionStatuses
    BY <1>9, FinalizedType DEF Reclaim, TypeOK
  <2> QED
    BY <1>9, <2>1, ReclaimType DEF Reclaim, TypeOK, workerVars, cancelVars
<1>10. CASE CancelBegin
  BY <1>10 DEF CancelBegin, TypeOK, workerVars
<1>11. ASSUME NEW j \in JobIds, RequestCancel(j) PROVE TypeOK'
  <2>1. jobs' \in [JobIds -> JobRows]
    BY <1>11, CancelledType DEF RequestCancel, TypeOK
  <2>2. attempts' \in [AttemptIds -> AttemptRows]
    <3>1. AttemptOf(j) \in AttemptIds /\ NoResult \in ResultColumns
      BY JobAttempt DEF NoResult, ResultColumns, Classifications
    <3> QED
      BY <1>11, <3>1, RecordedType DEF RequestCancel, TypeOK, TerminalAttemptStatuses
  <2> QED
    BY <1>11, <2>1, <2>2 DEF RequestCancel, TypeOK, workerVars
<1>12. CASE CancelRefresh
  BY <1>12, FinalizedType DEF CancelRefresh, TypeOK, workerVars
<1>13. CASE CancelCrash
  BY <1>13 DEF CancelCrash, TypeOK, workerVars
<1>14. ASSUME NEW a \in AttemptIds, NEW next \in AttemptIds, Retry(a, next) PROVE TypeOK'
  BY <1>14, FreshRows DEF Retry, TypeOK, workerVars, cancelVars
<1>15. CASE Tick
  <2>1. jobs' \in [JobIds -> JobRows]
    BY <1>15, AgedType DEF Tick, TypeOK
  <2> QED
    BY <1>15, <2>1 DEF Tick, TypeOK, workerVars, cancelVars
<1>16. CASE UNCHANGED vars
  BY <1>16 DEF vars, TypeOK
<1> QED
  BY <1>1, <1>2, <1>3, <1>4, <1>5, <1>6, <1>7, <1>8, <1>9, <1>10, <1>11,
     <1>12, <1>13, <1>14, <1>15, <1>16 DEF Next, WorkerNext

\* Every action keeps every row and process state well formed.
THEOREM TypeCorrect == Spec => []TypeOK
<1>1. Init => TypeOK
  BY FreshRows DEF Init, TypeOK, Leases
<1> QED
  BY <1>1, TypeStep, PTL DEF Spec

-----------------------------------------------------------------------------
(***************************************************************************)
(* Executions and the statuses of their jobs.                              *)
(***************************************************************************)
\* What the count of remaining jobs in _finalize_execution_if_terminal tests.
LEMMA RowsTerminal ==
    ASSUME NEW rows
    PROVE  StatusesOf(rows) \subseteq TerminalJobStatuses <=>
             \A j \in JobIds : rows[j].status \in TerminalJobStatuses \cup {"absent"}
BY DEF StatusesOf

\* An open job keeps its execution open.
LEMMA OpenJob ==
    ASSUME ExecutionTruth, NEW j \in JobIds, jobs[j].status \in {"queued", "running"}
    PROVE  execution \notin TerminalExecutionStatuses
<1>1. ~ AllJobsTerminal
  BY RowsTerminal DEF AllJobsTerminal, TerminalJobStatuses
<1> QED
  BY <1>1 DEF ExecutionTruth

\* A step that leaves a job open and the execution open.
LEMMA StillOpen ==
    ASSUME NEW j \in JobIds, jobs'[j].status \in {"queued", "running"},
           execution' \notin TerminalExecutionStatuses
    PROVE  ExecutionTruth' /\ NoOrphanedExecution'
<1>1. ~ AllJobsTerminal'
  BY RowsTerminal DEF AllJobsTerminal, TerminalJobStatuses
<1> QED
  BY <1>1 DEF ExecutionTruth, NoOrphanedExecution

\* A step that ends with _finalize_execution_if_terminal on an open execution.
LEMMA Settled ==
    ASSUME execution \notin TerminalExecutionStatuses, execution' = Finalized(jobs')
    PROVE  ExecutionTruth' /\ NoOrphanedExecution'
<1>1. CASE AllJobsTerminal'
  <2>1. Finalized(jobs') = Finalized(jobs)' /\ Finalized(jobs') \in TerminalExecutionStatuses
    BY <1>1 DEF Finalized, AllJobsTerminal, TerminalExecutionStatuses
  <2> QED
    BY <1>1, <2>1 DEF ExecutionTruth, NoOrphanedExecution
<1>2. CASE ~ AllJobsTerminal'
  <2>1. execution' = execution
    BY <1>2 DEF Finalized, AllJobsTerminal
  <2> QED
    BY <1>2, <2>1 DEF ExecutionTruth, NoOrphanedExecution
<1> QED
  BY <1>1, <1>2

\* A step that leaves every job's status and cancellation request alone, and
\* does not open or close the execution.
LEMMA SameStatuses ==
    ASSUME ExecutionTruth, NoOrphanedExecution,
           \A j \in JobIds : jobs'[j].status = jobs[j].status /\ jobs'[j].cancel = jobs[j].cancel,
           execution \in TerminalExecutionStatuses => execution' = execution,
           execution \notin TerminalExecutionStatuses => execution' \notin TerminalExecutionStatuses
    PROVE  ExecutionTruth' /\ NoOrphanedExecution'
<1>1. StatusesOf(jobs') = StatusesOf(jobs)
  BY DEF StatusesOf
<1>2. AllJobsTerminal' = AllJobsTerminal
  BY <1>1 DEF AllJobsTerminal, StatusesOf
<1>3. ExecutionTruth'
  BY <1>1, <1>2 DEF ExecutionTruth, Finalized, AllJobsTerminal, StatusesOf
<1>4. NoOrphanedExecution'
  BY <1>2 DEF NoOrphanedExecution
<1> QED
  BY <1>3, <1>4

-----------------------------------------------------------------------------
(***************************************************************************)
(* What the updates do to the columns the invariant speaks of.             *)
(***************************************************************************)
\* Reclaim requeues a row below the generation cap, fails it at the cap, and
\* never touches the request or the generation.
LEMMA ReclaimedJobFacts ==
    ASSUME TypeOK, NEW j \in JobIds
    PROVE  /\ ReclaimedJobs[j].count = jobs[j].count
           /\ ReclaimedJobs[j].cancel = jobs[j].cancel
           /\ Exhausted(j) => ReclaimedJobs[j].status = "failed"
           /\ Reclaimable(j) /\ ~ Exhausted(j) => ReclaimedJobs[j].status = "queued"
           /\ ~ Reclaimable(j) => ReclaimedJobs[j] = jobs[j]
<1>1. jobs[j] \in JobRows /\ jobs[j].count \in Nat
  BY DEF TypeOK, JobRows
<1>2. ReclaimedJobs[j] = ReclaimedJob(j)
  BY DEF ReclaimedJobs
<1>3. CASE Exhausted(j)
  <2>1. ReclaimedJob(j) = Unleased(jobs[j], "failed")
    BY <1>3 DEF ReclaimedJob
  <2>2. "failed" \in JobStatuses
    BY DEF JobStatuses, TerminalJobStatuses
  <2>3. Reclaimable(j)
    BY <1>3 DEF Exhausted
  <2> QED
    BY <1>1, <1>2, <1>3, <2>1, <2>2, <2>3, UnleasedType
<1>4. CASE Reclaimable(j) /\ ~ Exhausted(j)
  <2> DEFINE row == Unleased(jobs[j], "queued")
  <2>1. ReclaimedJob(j) = [row EXCEPT !.delay = Backoff(jobs[j].count)]
    BY <1>4 DEF ReclaimedJob
  <2>2. row \in JobRows /\ row.status = "queued" /\ row.count = jobs[j].count /\ row.cancel = jobs[j].cancel
    BY <1>1, UnleasedType DEF JobStatuses
  <2> HIDE DEF row
  <2>3. /\ ReclaimedJob(j).status = "queued"
        /\ ReclaimedJob(j).count = jobs[j].count
        /\ ReclaimedJob(j).cancel = jobs[j].cancel
    BY <2>1, <2>2 DEF JobRows
  <2> QED
    BY <1>2, <1>4, <2>3
<1>5. CASE ~ Reclaimable(j)
  BY <1>2, <1>5 DEF ReclaimedJob, Exhausted
<1> QED
  BY <1>3, <1>4, <1>5

\* Reclaim changes an attempt only when one of its jobs is exhausted, and then
\* neither its captured outcome nor its generation nor its evaluation.
LEMMA ReclaimedAttemptFacts ==
    ASSUME TypeOK, NEW a \in AttemptIds
    PROVE  /\ ReclaimedAttempts[a].evaluated = attempts[a].evaluated
           /\ ReclaimedAttempts[a].result.outcome = attempts[a].result.outcome
           /\ ReclaimedAttempts[a].result.gen = attempts[a].result.gen
           /\ IF Exhausted(AttemptJob(a)) \/ Exhausted(EvaluationJob(a))
              THEN ReclaimedAttempts[a].status = "incomplete"
              ELSE ReclaimedAttempts[a] = attempts[a]
<1> DEFINE result == [attempts[a].result EXCEPT !.class = "permanent"]
<1>1. attempts[a] \in AttemptRows /\ attempts[a].result \in ResultColumns
  BY DEF TypeOK, AttemptRows
<1>2. /\ result \in ResultColumns
      /\ result.outcome = attempts[a].result.outcome
      /\ result.gen = attempts[a].result.gen
  BY <1>1 DEF ResultColumns, Classifications
<1>3. ReclaimedAttempts[a] =
        IF Exhausted(AttemptJob(a)) \/ Exhausted(EvaluationJob(a))
        THEN Recorded(attempts[a], "incomplete", result) ELSE attempts[a]
  BY DEF ReclaimedAttempts, ReclaimedAttempt
<1> HIDE DEF result
<1>4. "incomplete" \in TerminalAttemptStatuses
  BY DEF TerminalAttemptStatuses, NonSuccess
<1> QED
  BY <1>1, <1>2, <1>3, <1>4, RecordedType

\* The parts of the invariant about rows survive a step that leaves the status,
\* request, generation and token of every job and every attempt row alone.
LEMMA SameRows ==
    ASSUME IInv, attempts' = attempts,
           \A j \in JobIds : /\ jobs'[j].status = jobs[j].status
                             /\ jobs'[j].cancel = jobs[j].cancel
                             /\ jobs'[j].count = jobs[j].count
                             /\ jobs'[j].lease.token = jobs[j].lease.token
    PROVE  /\ \A j \in JobIds : LeaseShape(j)'
           /\ \A a \in AttemptIds : PairShape(a)' /\ EvaluationShape(a)'
<1>1. ASSUME NEW j \in JobIds PROVE LeaseShape(j)'
  BY DEF IInv, LeaseShape, Terminal
<1>2. ASSUME NEW a \in AttemptIds PROVE PairShape(a)' /\ EvaluationShape(a)'
  BY AttemptJobs DEF IInv, PairShape, EvaluationShape, Terminal, Exists
<1> QED
  BY <1>1, <1>2

\* A process that a step leaves where it was, while no evaluation disappears.
LEMMA SameHeld ==
    ASSUME TypeOK, NEW w \in Workers, HeldShape(w), held'[w] = held[w], phase'[w] = phase[w],
           \A a \in AttemptIds : attempts[a].evaluated # 0 => attempts'[a].evaluated # 0
    PROVE  HeldShape(w)'
<1>1. held[w] # NoLease => AttemptOf(held[w].job) \in AttemptIds
  BY JobAttempt DEF TypeOK, Leases
<1> QED
  BY <1>1 DEF HeldShape

\* The holder of a live lease holds its row's last generation.
LEMMA OwnerFacts ==
    ASSUME IInv, NEW w \in Workers, OwnsLive(w)
    PROVE  /\ held[w] # NoLease
           /\ held[w].job \in JobIds
           /\ held[w].token = jobs[held[w].job].count
           /\ held[w].token \in Nat
           /\ held[w].token # 0
           /\ jobs[held[w].job].status = "running"
           /\ AttemptOf(held[w].job) \in AttemptIds
           /\ w \in AttemptWorkers => held[w].job = AttemptJob(AttemptOf(held[w].job))
           /\ w \in EvaluationWorkers => held[w].job = EvaluationJob(AttemptOf(held[w].job))
<1>1. held[w] # NoLease /\ held[w].job \in JobIds /\ held[w].token \in Nat
  BY DEF IInv, TypeOK, OwnsLive, Owns, Leases
<1>2. /\ jobs[held[w].job].status = "running"
      /\ held[w].token = jobs[held[w].job].lease.token
  BY DEF OwnsLive, Owns
<1>3. held[w].token = jobs[held[w].job].count /\ held[w].token # 0
  <2>1. jobs[held[w].job].count \in Nat
    BY <1>1 DEF IInv, TypeOK, JobRows
  <2> QED
    BY <1>1, <1>2, <2>1 DEF IInv, LeaseShape
<1>4. KindOf(held[w].job) = KindFor(w)
  BY <1>1 DEF IInv, HeldShape
<1> QED
  BY <1>1, <1>2, <1>3, <1>4, JobAttempt, ConstantsAssumption DEF KindFor

-----------------------------------------------------------------------------
(***************************************************************************)
(* One lemma per action: it preserves the inductive invariant.             *)
(***************************************************************************)
\* claim, with the reclaim it begins with.
LEMMA ClaimStep ==
    ASSUME IInv, TypeOK', NEW w \in Workers, NEW j \in JobIds, Claim(w, j)
    PROVE  IInv'
<1> USE DEF Claim
<1>1. jobs[j].status = "queued" /\ jobs[j] \in JobRows /\ jobs[j].count \in Nat /\ OwnerOf[w] \in Owners
  BY ConstantsAssumption DEF Claimable, IInv, TypeOK, JobRows
<1>2. /\ jobs'[j].status = "running"
      /\ jobs'[j].lease.token = jobs[j].count + 1
      /\ jobs'[j].count = jobs[j].count + 1
      /\ jobs'[j].cancel = jobs[j].cancel
  BY <1>1, LeasedType, ReclaimType DEF IInv
<1>3. \A i \in JobIds : i # j => jobs'[i] = ReclaimedJobs[i]
  BY ReclaimType DEF IInv
<1>4. \A i \in JobIds : Reclaimable(i) => jobs[i].status = "running"
  BY DEF Reclaimable
<1>5. \A i \in JobIds : LeaseShape(i)'
  <2>1. ASSUME NEW i \in JobIds, i # j PROVE LeaseShape(i)'
    <3>1. jobs'[i] = ReclaimedJobs[i] /\ jobs[i].count \in Nat /\ LeaseShape(i)
      BY <1>3, <2>1 DEF IInv, TypeOK, JobRows
    <3> QED
      BY <3>1, ReclaimedJobFacts, ConstantsAssumption
         DEF IInv, LeaseShape, Terminal, TerminalJobStatuses, Exhausted, Reclaimable
  <2>2. LeaseShape(j)'
    <3>1. LeaseShape(j)
      BY DEF IInv
    <3> QED
      BY <1>1, <1>2, <3>1, ConstantsAssumption DEF LeaseShape, Terminal, TerminalJobStatuses
  <2> QED
    BY <2>1, <2>2
<1>6. \A a \in AttemptIds : attempts'[a].evaluated = attempts[a].evaluated
  BY ReclaimedAttemptFacts DEF IInv
<1>7. \A v \in Workers : HeldShape(v)'
  <2>1. ASSUME NEW v \in Workers, v # w PROVE HeldShape(v)'
    BY <1>6, <2>1, SameHeld DEF IInv, TypeOK
  <2>2. HeldShape(w)'
    <3>1. held'[w] = [job |-> j, token |-> jobs[j].count + 1] /\ phase'[w] = "claimed"
      BY DEF IInv, TypeOK
    <3> QED
      BY <3>1 DEF HeldShape
  <2> QED
    BY <2>1, <2>2
<1>8. \A a \in AttemptIds : PairShape(a)' /\ EvaluationShape(a)'
  <2> SUFFICES ASSUME NEW a \in AttemptIds PROVE PairShape(a)' /\ EvaluationShape(a)'
    OBVIOUS
  <2> DEFINE aj == AttemptJob(a)
             ej == EvaluationJob(a)
  <2>1. aj \in JobIds /\ ej \in JobIds /\ aj # ej
    BY AttemptJobs
  <2>2. PairShape(a) /\ EvaluationShape(a)
    BY DEF IInv
  <2>3. /\ attempts'[a] = ReclaimedAttempts[a]
        /\ aj # j => jobs'[aj] = ReclaimedJobs[aj]
        /\ ej # j => jobs'[ej] = ReclaimedJobs[ej]
    BY <1>3, <2>1
  <2> HIDE DEF aj, ej
  <2>4. ~ Exhausted(j) /\ ~ Reclaimable(j)
    BY <1>1 DEF Exhausted, Reclaimable
  <2>5. \A i \in JobIds : Exhausted(i) => Reclaimable(i)
    BY DEF Exhausted
  <2>6. TypeOK
    BY DEF IInv
  <2> QED
    BY <1>1, <1>2, <1>4, <2>1, <2>2, <2>3, <2>4, <2>5, <2>6, ReclaimedJobFacts, ReclaimedAttemptFacts
       DEF PairShape, EvaluationShape, Terminal, Exists, TerminalJobStatuses, TerminalAttemptStatuses,
           NonSuccess, aj, ej
<1>9. ExecutionTruth' /\ NoOrphanedExecution'
  <2>1. execution \notin TerminalExecutionStatuses
    BY <1>1, OpenJob DEF IInv
  <2> QED
    BY <1>2, <2>1, StillOpen
<1> QED
  BY <1>5, <1>7, <1>8, <1>9 DEF IInv

\* reclaim_expired.
LEMMA ReclaimStep ==
    ASSUME IInv, TypeOK', Reclaim
    PROVE  IInv'
<1> USE DEF Reclaim
<1>1. jobs' = ReclaimedJobs /\ attempts' = ReclaimedAttempts /\ TypeOK
  BY DEF IInv
<1>2. \A i \in JobIds : /\ Reclaimable(i) => jobs[i].status = "running"
                        /\ Exhausted(i) => Reclaimable(i)
  BY DEF Reclaimable, Exhausted
<1>3. \A i \in JobIds : LeaseShape(i)'
  <2> SUFFICES ASSUME NEW i \in JobIds PROVE LeaseShape(i)'
    OBVIOUS
  <2>1. jobs[i].count \in Nat /\ LeaseShape(i)
    BY DEF IInv, TypeOK, JobRows
  <2> QED
    BY <1>1, <2>1, ReclaimedJobFacts, ConstantsAssumption
       DEF LeaseShape, Terminal, TerminalJobStatuses, Exhausted, Reclaimable
<1>4. \A v \in Workers : HeldShape(v)'
  BY <1>1, ReclaimedAttemptFacts, SameHeld DEF IInv, workerVars
<1>5. \A a \in AttemptIds : PairShape(a)' /\ EvaluationShape(a)'
  <2> SUFFICES ASSUME NEW a \in AttemptIds PROVE PairShape(a)' /\ EvaluationShape(a)'
    OBVIOUS
  <2> DEFINE aj == AttemptJob(a)
             ej == EvaluationJob(a)
  <2>1. aj \in JobIds /\ ej \in JobIds /\ aj # ej
    BY AttemptJobs
  <2>2. PairShape(a) /\ EvaluationShape(a)
    BY DEF IInv
  <2> HIDE DEF aj, ej
  <2> QED
    BY <1>1, <1>2, <2>1, <2>2, ReclaimedJobFacts, ReclaimedAttemptFacts
       DEF PairShape, EvaluationShape, Terminal, Exists, TerminalJobStatuses, TerminalAttemptStatuses,
           NonSuccess, aj, ej
<1>6. ExecutionTruth' /\ NoOrphanedExecution'
  <2>1. CASE \E i \in JobIds : Exhausted(i)
    <3>1. execution \notin TerminalExecutionStatuses
      BY <1>2, <2>1, OpenJob DEF IInv
    <3> QED
      BY <1>1, <2>1, <3>1, Settled
  <2>2. CASE ~ \E i \in JobIds : Exhausted(i)
    <3>1. PICK i \in JobIds : Reclaimable(i)
      OBVIOUS
    <3>2. execution \notin TerminalExecutionStatuses /\ execution' = execution
      BY <1>2, <2>2, <3>1, OpenJob DEF IInv
    <3>3. jobs'[i].status = "queued"
      BY <1>1, <2>2, <3>1, ReclaimedJobFacts
    <3> QED
      BY <3>2, <3>3, StillOpen
  <2> QED
    BY <2>1, <2>2
<1> QED
  BY <1>3, <1>4, <1>5, <1>6 DEF IInv

\* _mark_started, by any holder, fenced or not.
LEMMA MarkStartedStep ==
    ASSUME IInv, TypeOK', NEW w \in Workers, MarkStarted(w)
    PROVE  IInv'
<1> USE DEF MarkStarted
<1>1. jobs' = jobs /\ held' = held
  OBVIOUS
<1>2. \A a \in AttemptIds :
        /\ attempts'[a].result = attempts[a].result
        /\ attempts'[a].evaluated = attempts[a].evaluated
        /\ \/ attempts'[a].status = attempts[a].status
           \/ attempts[a].status = "queued" /\ attempts'[a].status = "running"
  <2>1. ASSUME NEW a \in AttemptIds
        PROVE  /\ [attempts[a] EXCEPT !.status = "running"].result = attempts[a].result
               /\ [attempts[a] EXCEPT !.status = "running"].evaluated = attempts[a].evaluated
               /\ [attempts[a] EXCEPT !.status = "running"].status = "running"
    BY DEF IInv, TypeOK, AttemptRows
  <2> QED
    BY <2>1 DEF IInv, TypeOK
<1>3. \A i \in JobIds : LeaseShape(i)'
  BY <1>1 DEF IInv, LeaseShape, Terminal
<1>4. \A v \in Workers : HeldShape(v)'
  <2>1. ASSUME NEW v \in Workers, v # w PROVE HeldShape(v)'
    BY <1>2, <2>1, SameHeld DEF IInv, TypeOK
  <2>2. HeldShape(w)'
    BY <1>1 DEF HeldShape, IInv, TypeOK
  <2> QED
    BY <2>1, <2>2
<1>5. \A a \in AttemptIds : PairShape(a)' /\ EvaluationShape(a)'
  <2> SUFFICES ASSUME NEW a \in AttemptIds PROVE PairShape(a)' /\ EvaluationShape(a)'
    OBVIOUS
  <2>1. PairShape(a) /\ EvaluationShape(a)
    BY DEF IInv
  <2> QED
    BY <1>1, <1>2, <2>1
       DEF PairShape, EvaluationShape, Terminal, Exists, TerminalJobStatuses,
           TerminalAttemptStatuses, NonSuccess
<1>6. ExecutionTruth' /\ NoOrphanedExecution'
  BY <1>1, SameStatuses DEF IInv, TerminalExecutionStatuses
<1> QED
  BY <1>3, <1>4, <1>5, <1>6 DEF IInv

\* finalize by the holder of a live lease.
LEMMA FinalizeStep ==
    ASSUME IInv, TypeOK', NEW w \in Workers, NEW r \in Results, Finalize(w, r)
    PROVE  IInv'
<1>1. OwnsLive(w) /\ w \in AttemptWorkers
  BY DEF Finalize
<1> PICK j \in JobIds : j = held[w].job
  BY <1>1, OwnerFacts
<1> DEFINE a == AttemptOf(j)
           ev == EvaluationJob(a)
           result == [outcome |-> r.outcome, class |-> r.class, gen |-> held[w].token]
           status == IF Winner(j, r.job) = "cancelled" THEN "cancelled" ELSE r.status
<1>2. /\ a \in AttemptIds /\ j = AttemptJob(a)
      /\ jobs[j].status = "running"
      /\ held[w].token = jobs[j].count /\ held[w].token \in Nat
  BY <1>1, OwnerFacts
<1>3. /\ ev \in JobIds /\ ev # j /\ jobs[j] \in JobRows /\ attempts[a] \in AttemptRows
      /\ AttemptOf(ev) = a
  BY <1>2, AttemptJobs DEF IInv, TypeOK
<1>4. /\ r.job \in TerminalJobStatuses
      /\ r.status \in TerminalAttemptStatuses
      /\ r.outcome \in TerminalAttemptStatuses \cup {"none"}
      /\ r.class \in Classifications
      /\ r.outcome # "none" => r.outcome = r.status
      /\ r.job = "completed" => r.outcome # "none"
      /\ r.job = "cancelled" <=> r.status = "cancelled"
  BY ResultType
<1>5. Winner(j, r.job) \in TerminalJobStatuses /\ (jobs[j].cancel => Winner(j, r.job) = "cancelled")
      /\ (Winner(j, r.job) # "cancelled" => Winner(j, r.job) = r.job)
  BY <1>4 DEF Winner, TerminalJobStatuses
<1>6. /\ jobs'[j].status = Winner(j, r.job)
      /\ jobs'[j].count = jobs[j].count
      /\ jobs'[j].cancel = jobs[j].cancel
  <2>1. jobs'[j] = Unleased(jobs[j], Winner(j, r.job))
    BY <1>2 DEF Finalize, FinalizedJobs
  <2>2. Winner(j, r.job) \in JobStatuses
    BY <1>5 DEF JobStatuses
  <2> QED
    BY <1>3, <2>1, <2>2, UnleasedType
<1>7. ~ Exists(ev)
  BY <1>2, <1>3 DEF IInv, PairShape, Exists, Terminal, TerminalJobStatuses
<1>8. /\ r.outcome # "none" => jobs'[ev] = QueuedJob
      /\ r.outcome = "none" => jobs'[ev] = jobs[ev]
      /\ \A i \in JobIds : i # j /\ i # ev => jobs'[i] = jobs[i]
  BY <1>2, <1>3, <1>7 DEF Finalize, FinalizedJobs
<1>9. /\ attempts' = [attempts EXCEPT ![a] = Recorded(attempts[a], status, result)]
      /\ execution' = Finalized(jobs')
      /\ held' = [held EXCEPT ![w] = NoLease]
      /\ phase' = [phase EXCEPT ![w] = "idle"]
  BY DEF Finalize, Release
<1>10. /\ result \in ResultColumns /\ result.outcome = r.outcome /\ result.gen = held[w].token
       /\ status \in TerminalAttemptStatuses
       /\ Winner(j, r.job) # "cancelled" => status = r.status
  BY <1>2, <1>4 DEF ResultColumns, TerminalAttemptStatuses
<1> HIDE DEF a, ev, result, status
<1>11. /\ attempts'[a].status = status
       /\ attempts'[a].result = result
       /\ attempts'[a].evaluated = attempts[a].evaluated
       /\ \A b \in AttemptIds : b # a => attempts'[b] = attempts[b]
  BY <1>2, <1>3, <1>9, <1>10, RecordedType DEF IInv, TypeOK
<1>12. \A i \in JobIds : LeaseShape(i)'
  <2>1. LeaseShape(j)'
    <3>1. LeaseShape(j)
      BY <1>2 DEF IInv
    <3> QED
      BY <1>5, <1>6, <3>1 DEF LeaseShape, Terminal, TerminalJobStatuses
  <2>2. LeaseShape(ev)'
    <3>1. LeaseShape(ev)
      BY <1>3 DEF IInv
    <3> QED
      BY <1>8, <3>1, FreshRows, ConstantsAssumption DEF LeaseShape, Terminal, TerminalJobStatuses
  <2>3. ASSUME NEW i \in JobIds, i # j, i # ev PROVE LeaseShape(i)'
    BY <1>8, <2>3 DEF IInv, LeaseShape, Terminal
  <2> QED
    BY <2>1, <2>2, <2>3
<1>13. \A v \in Workers : HeldShape(v)'
  <2>1. ASSUME NEW v \in Workers, v # w PROVE HeldShape(v)'
    BY <1>9, <1>11, <2>1, SameHeld DEF IInv, TypeOK
  <2>2. HeldShape(w)'
    BY <1>9 DEF HeldShape, IInv, TypeOK
  <2> QED
    BY <2>1, <2>2
<1>14. PairShape(a)' /\ EvaluationShape(a)'
  <2>1. PairShape(a) /\ EvaluationShape(a)
    BY <1>2 DEF IInv
  <2> QED
    BY <1>2, <1>3, <1>4, <1>5, <1>6, <1>7, <1>8, <1>10, <1>11, <2>1, FreshRows
       DEF PairShape, EvaluationShape, Terminal, Exists, TerminalJobStatuses,
           TerminalAttemptStatuses, NonSuccess, ev
<1>15. ASSUME NEW b \in AttemptIds, b # a PROVE PairShape(b)' /\ EvaluationShape(b)'
  <2>1. PairShape(b) /\ EvaluationShape(b)
    BY DEF IInv
  <2>2. /\ AttemptJob(b) \in JobIds /\ AttemptJob(b) # j /\ AttemptJob(b) # ev
        /\ EvaluationJob(b) \in JobIds /\ EvaluationJob(b) # j /\ EvaluationJob(b) # ev
    BY <1>2, <1>3, <1>15, AttemptJobs DEF ev
  <2> QED
    BY <1>8, <1>11, <1>15, <2>1, <2>2 DEF PairShape, EvaluationShape, Terminal, Exists
<1>16. ExecutionTruth' /\ NoOrphanedExecution'
  <2>1. execution \notin TerminalExecutionStatuses
    BY <1>2, OpenJob DEF IInv
  <2> QED
    BY <1>9, <2>1, Settled
<1> QED
  BY <1>12, <1>13, <1>14, <1>15, <1>16 DEF IInv

\* evaluate writes the evaluation under a live lease.
LEMMA EvaluateStep ==
    ASSUME IInv, TypeOK', NEW w \in Workers, Evaluate(w)
    PROVE  IInv'
<1>1. OwnsLive(w) /\ w \in EvaluationWorkers
  BY DEF Evaluate
<1> PICK j \in JobIds : j = held[w].job
  BY <1>1, OwnerFacts
<1> DEFINE a == AttemptOf(j)
<1>2. /\ a \in AttemptIds /\ j = EvaluationJob(a) /\ held[w] # NoLease
      /\ held[w].token \in Nat /\ held[w].token # 0
  BY <1>1, OwnerFacts
<1>3. /\ jobs' = jobs /\ execution' = execution /\ held' = held
      /\ phase' = [phase EXCEPT ![w] = "evaluated"]
      /\ attempts[a].result.outcome # "none"
  BY DEF Evaluate, Evaluable
<1>4. \A b \in AttemptIds :
        /\ attempts'[b].result = attempts[b].result
        /\ attempts'[b].status = attempts[b].status
        /\ attempts[b].evaluated # 0 => attempts'[b].evaluated # 0
        /\ b # a => attempts'[b].evaluated = attempts[b].evaluated
  <2>1. ASSUME NEW b \in AttemptIds
        PROVE  /\ [attempts[b] EXCEPT !.evaluated = held[w].token].result = attempts[b].result
               /\ [attempts[b] EXCEPT !.evaluated = held[w].token].status = attempts[b].status
    BY DEF IInv, TypeOK, AttemptRows
  <2> QED
    BY <2>1 DEF Evaluate, IInv, TypeOK
<1>5. attempts'[a].evaluated # 0
  <2>1. [attempts[a] EXCEPT !.evaluated = held[w].token].evaluated = held[w].token
    BY <1>2 DEF IInv, TypeOK, AttemptRows
  <2> QED
    BY <1>2, <2>1 DEF Evaluate, IInv, TypeOK
<1> HIDE DEF a
<1>6. \A i \in JobIds : LeaseShape(i)'
  BY <1>3 DEF IInv, LeaseShape, Terminal
<1>7. \A v \in Workers : HeldShape(v)'
  <2>1. ASSUME NEW v \in Workers, v # w PROVE HeldShape(v)'
    BY <1>3, <1>4, <2>1, SameHeld DEF IInv, TypeOK
  <2>2. HeldShape(w)'
    <3>1. HeldShape(w)
      BY DEF IInv
    <3> QED
      BY <1>2, <1>3, <1>5, <3>1 DEF HeldShape, a
  <2> QED
    BY <2>1, <2>2
<1>8. \A b \in AttemptIds : PairShape(b)' /\ EvaluationShape(b)'
  <2> SUFFICES ASSUME NEW b \in AttemptIds PROVE PairShape(b)' /\ EvaluationShape(b)'
    OBVIOUS
  <2>1. PairShape(b) /\ EvaluationShape(b)
    BY DEF IInv
  <2> QED
    BY <1>3, <1>4, <2>1 DEF PairShape, EvaluationShape, Terminal, Exists
<1>9. ExecutionTruth' /\ NoOrphanedExecution'
  BY <1>3, SameStatuses DEF IInv
<1> QED
  BY <1>6, <1>7, <1>8, <1>9 DEF IInv

\* finalize_auxiliary closes the evaluation job and leaves the attempt alone.
LEMMA FinalizeAuxiliaryStep ==
    ASSUME IInv, TypeOK', NEW w \in Workers, FinalizeAuxiliary(w)
    PROVE  IInv'
<1>1. OwnsLive(w) /\ w \in EvaluationWorkers
  BY DEF FinalizeAuxiliary
<1> PICK j \in JobIds : j = held[w].job
  BY <1>1, OwnerFacts
<1> DEFINE a == AttemptOf(j)
           outcome == IF phase[w] = "evaluated" THEN "completed" ELSE "failed"
<1>2. /\ a \in AttemptIds /\ j = EvaluationJob(a) /\ jobs[j].status = "running"
      /\ jobs[j] \in JobRows
  BY <1>1, OwnerFacts DEF IInv, TypeOK
<1>3. /\ jobs' = [jobs EXCEPT ![j] = Unleased(jobs[j], Winner(j, outcome))]
      /\ attempts' = attempts
      /\ execution' = Finalized(jobs')
      /\ held' = [held EXCEPT ![w] = NoLease]
      /\ phase' = [phase EXCEPT ![w] = "idle"]
  BY DEF FinalizeAuxiliary, Release
<1>4. /\ Winner(j, outcome) \in TerminalJobStatuses
      /\ jobs[j].cancel => Winner(j, outcome) = "cancelled"
      /\ Winner(j, outcome) = "completed" => phase[w] = "evaluated"
  BY DEF Winner, TerminalJobStatuses
<1>5. /\ jobs'[j].status = Winner(j, outcome)
      /\ jobs'[j].count = jobs[j].count
      /\ jobs'[j].cancel = jobs[j].cancel
      /\ \A i \in JobIds : i # j => jobs'[i] = jobs[i]
  <2>1. jobs'[j] = Unleased(jobs[j], Winner(j, outcome))
    BY <1>3 DEF IInv, TypeOK
  <2>2. Winner(j, outcome) \in JobStatuses
    BY <1>4 DEF JobStatuses
  <2> QED
    BY <1>2, <1>3, <2>1, <2>2, UnleasedType DEF IInv, TypeOK
<1>6. jobs'[j].status = "completed" => attempts[a].evaluated # 0
  BY <1>4, <1>5 DEF IInv, HeldShape
<1> HIDE DEF a, outcome
<1>7. \A i \in JobIds : LeaseShape(i)'
  <2>1. LeaseShape(j)'
    <3>1. LeaseShape(j)
      BY DEF IInv
    <3> QED
      BY <1>4, <1>5, <3>1 DEF LeaseShape, Terminal, TerminalJobStatuses
  <2>2. ASSUME NEW i \in JobIds, i # j PROVE LeaseShape(i)'
    BY <1>5, <2>2 DEF IInv, LeaseShape, Terminal
  <2> QED
    BY <2>1, <2>2
<1>8. \A v \in Workers : HeldShape(v)'
  <2>1. ASSUME NEW v \in Workers, v # w PROVE HeldShape(v)'
    BY <1>3, <2>1, SameHeld DEF IInv, TypeOK
  <2>2. HeldShape(w)'
    BY <1>3 DEF HeldShape, IInv, TypeOK
  <2> QED
    BY <2>1, <2>2
<1>9. \A b \in AttemptIds : PairShape(b)' /\ EvaluationShape(b)'
  <2> SUFFICES ASSUME NEW b \in AttemptIds PROVE PairShape(b)' /\ EvaluationShape(b)'
    OBVIOUS
  <2>1. PairShape(b) /\ EvaluationShape(b)
    BY DEF IInv
  <2>2. /\ AttemptJob(b) \in JobIds /\ AttemptJob(b) # j
        /\ EvaluationJob(b) \in JobIds /\ (EvaluationJob(b) = j => b = a)
    BY <1>2, AttemptJobs
  <2> QED
    BY <1>2, <1>3, <1>4, <1>5, <1>6, <2>1, <2>2
       DEF PairShape, EvaluationShape, Terminal, Exists, TerminalJobStatuses
<1>10. ExecutionTruth' /\ NoOrphanedExecution'
  <2>1. execution \notin TerminalExecutionStatuses
    BY <1>2, OpenJob DEF IInv
  <2> QED
    BY <1>3, <2>1, Settled
<1> QED
  BY <1>7, <1>8, <1>9, <1>10 DEF IInv

\* request_cancel, on a job that may have moved since it was listed.
LEMMA RequestCancelStep ==
    ASSUME IInv, TypeOK', NEW j \in JobIds, RequestCancel(j)
    PROVE  IInv'
<1> DEFINE a == AttemptOf(j)
<1>1. /\ jobs' = [jobs EXCEPT ![j] = CancelledJob(j)]
      /\ execution' = execution /\ held' = held /\ phase' = phase
      /\ TypeOK
  BY DEF RequestCancel, workerVars, IInv
<1>2. /\ jobs'[j] = CancelledJob(j)
      /\ \A i \in JobIds : i # j => jobs'[i] = jobs[i]
  BY <1>1 DEF TypeOK
<1>3. /\ jobs'[j].status = IF jobs[j].status = "queued" THEN "cancelled" ELSE jobs[j].status
      /\ jobs'[j].cancel = IF jobs[j].status \in {"queued", "running"} THEN TRUE ELSE jobs[j].cancel
      /\ jobs'[j].count = jobs[j].count
      /\ jobs'[j].lease = jobs[j].lease
  BY <1>1, <1>2, CancelledType
<1>4. a \in AttemptIds /\ (j = AttemptJob(a) \/ j = EvaluationJob(a))
  BY JobAttempt DEF Kinds
<1>5. /\ jobs[j].status # "queued" => attempts' = attempts
      /\ jobs[j].status = "queued" =>
           /\ attempts'[a].status = "cancelled" /\ attempts'[a].result = NoResult
           /\ attempts'[a].evaluated = attempts[a].evaluated
           /\ \A b \in AttemptIds : b # a => attempts'[b] = attempts[b]
  <2>1. attempts[a] \in AttemptRows /\ NoResult \in ResultColumns /\ "cancelled" \in TerminalAttemptStatuses
    BY <1>1, <1>4 DEF TypeOK, NoResult, ResultColumns, Classifications, TerminalAttemptStatuses
  <2>2. Recorded(attempts[a], "cancelled", NoResult).status = "cancelled"
        /\ Recorded(attempts[a], "cancelled", NoResult).result = NoResult
        /\ Recorded(attempts[a], "cancelled", NoResult).evaluated = attempts[a].evaluated
    BY <2>1, RecordedType
  <2> QED
    BY <1>1, <1>4, <2>2 DEF RequestCancel, TypeOK
<1>6. NoResult.gen = 0
  BY DEF NoResult
<1> HIDE DEF a
<1>7. \A i \in JobIds : LeaseShape(i)'
  <2>1. LeaseShape(j)'
    <3>1. LeaseShape(j)
      BY DEF IInv
    <3> QED
      BY <1>3, <3>1 DEF LeaseShape, Terminal, TerminalJobStatuses
  <2>2. ASSUME NEW i \in JobIds, i # j PROVE LeaseShape(i)'
    BY <1>2, <2>2 DEF IInv, LeaseShape, Terminal
  <2> QED
    BY <2>1, <2>2
<1>8. \A v \in Workers : HeldShape(v)'
  BY <1>1, <1>4, <1>5, SameHeld DEF IInv
<1>9. \A b \in AttemptIds : PairShape(b)' /\ EvaluationShape(b)'
  <2> SUFFICES ASSUME NEW b \in AttemptIds PROVE PairShape(b)' /\ EvaluationShape(b)'
    OBVIOUS
  <2>1. PairShape(b) /\ EvaluationShape(b)
    BY DEF IInv
  <2>2. /\ AttemptJob(b) \in JobIds /\ EvaluationJob(b) \in JobIds /\ AttemptJob(b) # EvaluationJob(b)
        /\ (AttemptJob(b) = j => b = a) /\ (EvaluationJob(b) = j => b = a)
    BY <1>4, AttemptJobs DEF a
  <2>3. CASE b # a
    BY <1>2, <1>5, <2>1, <2>2, <2>3 DEF PairShape, EvaluationShape, Terminal, Exists
  <2>4. CASE b = a /\ jobs[j].status # "queued"
    BY <1>2, <1>3, <1>5, <2>1, <2>2, <2>4
       DEF PairShape, EvaluationShape, Terminal, Exists, TerminalJobStatuses
  <2>5. CASE b = a /\ jobs[j].status = "queued" /\ j = AttemptJob(a)
    BY <1>2, <1>3, <1>5, <1>6, <2>1, <2>2, <2>5
       DEF PairShape, EvaluationShape, Terminal, Exists, TerminalJobStatuses, TerminalAttemptStatuses, NonSuccess
  <2>6. CASE b = a /\ jobs[j].status = "queued" /\ j = EvaluationJob(a)
    BY <1>2, <1>3, <1>5, <1>6, <2>1, <2>2, <2>6
       DEF PairShape, EvaluationShape, Terminal, Exists, TerminalJobStatuses, TerminalAttemptStatuses, NonSuccess
  <2> QED
    BY <1>4, <2>3, <2>4, <2>5, <2>6
<1>10. ExecutionTruth' /\ NoOrphanedExecution'
  <2>1. CASE jobs[j].status = "queued"
    <3>1. execution' \notin TerminalExecutionStatuses
      BY <1>1, <2>1, OpenJob DEF IInv
    <3>2. jobs'[j].status = "cancelled" /\ jobs'[j].cancel
      BY <1>3, <2>1
    <3> QED
      BY <3>1, <3>2 DEF ExecutionTruth, NoOrphanedExecution
  <2>2. CASE jobs[j].status = "running"
    <3>1. execution' \notin TerminalExecutionStatuses /\ jobs'[j].status = "running"
      BY <1>1, <1>3, <2>2, OpenJob DEF IInv
    <3> QED
      BY <3>1, StillOpen
  <2>3. CASE jobs[j].status \notin {"queued", "running"}
    <3>1. jobs'[j].status = jobs[j].status /\ jobs'[j].cancel = jobs[j].cancel
      BY <1>3, <2>3
    <3>2. \A i \in JobIds : jobs'[i].status = jobs[i].status /\ jobs'[i].cancel = jobs[i].cancel
      BY <1>2, <3>1
    <3> QED
      BY <1>1, <3>2, SameStatuses DEF IInv
  <2> QED
    BY <2>1, <2>2, <2>3
<1> QED
  BY <1>7, <1>8, <1>9, <1>10 DEF IInv

\* retry inserts a fresh attempt and job and reopens the execution.
LEMMA RetryStep ==
    ASSUME IInv, TypeOK', NEW a \in AttemptIds, NEW next \in AttemptIds, Retry(a, next)
    PROVE  IInv'
<1> DEFINE nj == AttemptJob(next)
<1>1. /\ attempts' = [attempts EXCEPT ![next] = QueuedAttempt]
      /\ jobs' = [jobs EXCEPT ![nj] = QueuedJob]
      /\ execution' = "queued" /\ held' = held /\ phase' = phase
      /\ attempts[next].status = "absent"
  BY DEF Retry, NextAttempt, workerVars
<1>2. nj \in JobIds
  BY AttemptJobs
<1>3. /\ jobs'[nj] = QueuedJob /\ \A i \in JobIds : i # nj => jobs'[i] = jobs[i]
      /\ attempts'[next] = QueuedAttempt
      /\ \A b \in AttemptIds : b # next => attempts'[b] = attempts[b]
  BY <1>1, <1>2 DEF IInv, TypeOK
<1>4. PairShape(next) /\ NoResult.gen = 0
  BY DEF IInv, NoResult
<1> HIDE DEF nj
<1>5. \A i \in JobIds : LeaseShape(i)'
  <2>1. LeaseShape(nj)'
    BY <1>3, FreshRows, ConstantsAssumption DEF LeaseShape, Terminal, TerminalJobStatuses
  <2>2. ASSUME NEW i \in JobIds, i # nj PROVE LeaseShape(i)'
    BY <1>3, <2>2 DEF IInv, LeaseShape, Terminal
  <2> QED
    BY <2>1, <2>2
<1>6. \A v \in Workers : HeldShape(v)'
  <2>1. \A b \in AttemptIds : attempts[b].evaluated # 0 => attempts'[b].evaluated # 0
    BY <1>1, <1>3, <1>4 DEF PairShape
  <2> QED
    BY <1>1, <2>1, SameHeld DEF IInv
<1>7. PairShape(next)' /\ EvaluationShape(next)'
  <2>1. EvaluationJob(next) \in JobIds /\ EvaluationJob(next) # nj
    BY AttemptJobs DEF nj
  <2>2. jobs'[EvaluationJob(next)] = jobs[EvaluationJob(next)]
    BY <1>3, <2>1
  <2> QED
    BY <1>1, <1>3, <1>4, <2>2, FreshRows
       DEF PairShape, EvaluationShape, Terminal, Exists, TerminalJobStatuses,
           TerminalAttemptStatuses, NonSuccess, nj
<1>8. ASSUME NEW b \in AttemptIds, b # next PROVE PairShape(b)' /\ EvaluationShape(b)'
  <2>1. PairShape(b) /\ EvaluationShape(b)
    BY DEF IInv
  <2>2. /\ AttemptJob(b) \in JobIds /\ AttemptJob(b) # nj
        /\ EvaluationJob(b) \in JobIds /\ EvaluationJob(b) # nj
    BY <1>8, AttemptJobs DEF nj
  <2> QED
    BY <1>3, <1>8, <2>1, <2>2 DEF PairShape, EvaluationShape, Terminal, Exists
<1>9. ExecutionTruth' /\ NoOrphanedExecution'
  <2>1. execution' \notin TerminalExecutionStatuses /\ jobs'[nj].status = "queued"
    BY <1>1, <1>3, FreshRows DEF TerminalExecutionStatuses
  <2> QED
    BY <1>2, <2>1, StillOpen
<1> QED
  BY <1>5, <1>6, <1>7, <1>8, <1>9 DEF IInv

\* The steps that change no status: heartbeats, losses of a process, the
\* bookkeeping of the cancel command, and time.
LEMMA QuietStep ==
    ASSUME IInv, TypeOK', attempts' = attempts, execution' = execution,
           \A j \in JobIds : /\ jobs'[j].status = jobs[j].status
                             /\ jobs'[j].cancel = jobs[j].cancel
                             /\ jobs'[j].count = jobs[j].count
                             /\ jobs'[j].lease.token = jobs[j].lease.token,
           \A w \in Workers : \/ held'[w] = held[w] /\ phase'[w] = phase[w]
                              \/ held'[w] = NoLease /\ phase'[w] = "idle"
    PROVE  IInv'
<1>1. \A w \in Workers : HeldShape(w)'
  <2> SUFFICES ASSUME NEW w \in Workers PROVE HeldShape(w)'
    OBVIOUS
  <2>1. CASE held'[w] = held[w] /\ phase'[w] = phase[w]
    BY <2>1, SameHeld DEF IInv
  <2>2. CASE held'[w] = NoLease /\ phase'[w] = "idle"
    BY <2>2 DEF HeldShape
  <2> QED
    BY <2>1, <2>2
<1> QED
  BY <1>1, SameRows, SameStatuses DEF IInv

\* heartbeat moves the expiry of a lease and nothing else.
LEMMA HeartbeatStep ==
    ASSUME IInv, TypeOK', NEW w \in Workers, Heartbeat(w)
    PROVE  IInv'
<1>1. PICK j \in JobIds : j = held[w].job
  BY OwnerFacts DEF Heartbeat
<1>2. jobs[j] \in JobRows
  BY DEF IInv, TypeOK
<1>3. jobs' = [jobs EXCEPT ![j] = [jobs[j] EXCEPT !.lease.ttl = LeaseTicks + Grace]]
  BY <1>1 DEF Heartbeat
<1>4. jobs'[j] = [jobs[j] EXCEPT !.lease.ttl = LeaseTicks + Grace]
      /\ \A i \in JobIds : i # j => jobs'[i] = jobs[i]
  BY <1>3 DEF IInv, TypeOK
<1>5. /\ jobs'[j].status = jobs[j].status
      /\ jobs'[j].cancel = jobs[j].cancel
      /\ jobs'[j].count = jobs[j].count
      /\ jobs'[j].lease.token = jobs[j].lease.token
  BY <1>2, <1>4, RenewedType
<1>6. attempts' = attempts /\ execution' = execution /\ held' = held /\ phase' = phase
  BY DEF Heartbeat, workerVars
<1> QED
  BY <1>4, <1>5, <1>6, QuietStep

\* Time passes for every row.
LEMMA TickStep ==
    ASSUME IInv, TypeOK', Tick
    PROVE  IInv'
<1>1. attempts' = attempts /\ execution' = execution /\ held' = held /\ phase' = phase
  BY DEF Tick, workerVars
<1>2. \A j \in JobIds : jobs'[j] = Aged(jobs[j]) /\ jobs[j] \in JobRows
  BY DEF Tick, IInv, TypeOK
<1>3. \A j \in JobIds : /\ jobs'[j].status = jobs[j].status
                        /\ jobs'[j].cancel = jobs[j].cancel
                        /\ jobs'[j].count = jobs[j].count
                        /\ jobs'[j].lease.token = jobs[j].lease.token
  BY <1>2, AgedType
<1> QED
  BY <1>1, <1>3, QuietStep

\* _refresh_execution_terminal: a terminal execution is what its jobs say, so
\* deriving it again changes nothing.
LEMMA CancelRefreshStep ==
    ASSUME IInv, TypeOK', CancelRefresh
    PROVE  IInv'
<1>1. jobs' = jobs /\ attempts' = attempts /\ held' = held /\ phase' = phase /\ execution' = Finalized(jobs)
  BY DEF CancelRefresh, workerVars
<1>2. CASE execution \in TerminalExecutionStatuses
  BY <1>1, <1>2, QuietStep DEF IInv, ExecutionTruth
<1>3. CASE execution \notin TerminalExecutionStatuses
  <2>1. ExecutionTruth' /\ NoOrphanedExecution'
    BY <1>1, <1>3, Settled
  <2>2. \A w \in Workers : HeldShape(w)'
    BY <1>1, SameHeld DEF IInv
  <2> QED
    BY <1>1, <2>1, <2>2, SameRows DEF IInv
<1> QED
  BY <1>2, <1>3

-----------------------------------------------------------------------------
(***************************************************************************)
(* The invariant.                                                          *)
(***************************************************************************)
\* The controller's transaction leaves one open job per episode.
LEMMA InitialInvariant == Init => IInv
<1> SUFFICES ASSUME Init PROVE IInv
  OBVIOUS
<1>1. TypeOK
  BY FreshRows DEF Init, TypeOK, Leases
<1>2. /\ AbsentJob.status = "absent" /\ AbsentJob.count = 0 /\ ~ AbsentJob.cancel
      /\ AbsentAttempt.status = "absent" /\ AbsentAttempt.evaluated = 0
      /\ AbsentAttempt.result = NoResult /\ NoResult.outcome = "none" /\ NoResult.gen = 0
  BY DEF AbsentJob, AbsentAttempt, NoResult
<1>3. \A j \in JobIds : jobs[j] = QueuedJob \/ jobs[j] = AbsentJob
  BY DEF Init
<1>4. \A j \in JobIds : LeaseShape(j)
  BY <1>2, <1>3, FreshRows, ConstantsAssumption DEF LeaseShape, Terminal, TerminalJobStatuses
<1>5. \A w \in Workers : HeldShape(w)
  BY DEF Init, HeldShape
<1>6. ASSUME NEW a \in AttemptIds PROVE PairShape(a) /\ EvaluationShape(a)
  <2>1. /\ jobs[AttemptJob(a)] = IF a[2] = 1 THEN QueuedJob ELSE AbsentJob
        /\ jobs[EvaluationJob(a)] = AbsentJob
    BY AttemptJobs DEF Init, AttemptOf
  <2>2. attempts[a] = IF a[2] = 1 THEN QueuedAttempt ELSE AbsentAttempt
    BY DEF Init
  <2> QED
    BY <1>2, <2>1, <2>2, FreshRows
       DEF PairShape, EvaluationShape, Terminal, Exists, TerminalJobStatuses, TerminalAttemptStatuses, NonSuccess
<1>7. ExecutionTruth
  BY DEF Init, ExecutionTruth, TerminalExecutionStatuses
<1>8. NoOrphanedExecution
  <2>1. PICK e \in Episodes : TRUE
    BY ConstantsAssumption
  <2>2. <<<<e, 1>>, "attempt">> \in JobIds /\ jobs[<<<<e, 1>>, "attempt">>].status = "queued"
    BY <2>1, FreshRows, ConstantsAssumption DEF JobIds, AttemptIds, Kinds, Init, KindOf
  <2>3. ~ AllJobsTerminal
    BY <2>2, RowsTerminal DEF AllJobsTerminal, TerminalJobStatuses
  <2> QED
    BY <2>3 DEF NoOrphanedExecution
<1> QED
  BY <1>1, <1>4, <1>5, <1>6, <1>7, <1>8 DEF IInv

\* Every step of every process preserves the invariant.
LEMMA InvariantStep == IInv /\ [Next]_vars => IInv'
<1> SUFFICES ASSUME IInv, [Next]_vars PROVE IInv'
  OBVIOUS
<1>1. TypeOK'
  BY TypeStep DEF IInv
<1>2. ASSUME NEW w \in Workers, WorkerNext(w) PROVE IInv'
  <2>1. ASSUME Crash(w) \/ Fenced(w) PROVE IInv'
    <3>1. /\ jobs' = jobs /\ attempts' = attempts /\ execution' = execution
          /\ held' = [held EXCEPT ![w] = NoLease] /\ phase' = [phase EXCEPT ![w] = "idle"]
      BY <2>1 DEF Crash, Fenced, Release
    <3> QED
      BY <1>1, <3>1, QuietStep DEF IInv, TypeOK
  <2> QED
    BY <1>1, <1>2, <2>1, ClaimStep, HeartbeatStep, MarkStartedStep, FinalizeStep, EvaluateStep,
       FinalizeAuxiliaryStep DEF WorkerNext
<1>3. CASE CancelBegin \/ CancelCrash \/ UNCHANGED vars
  <2>1. jobs' = jobs /\ attempts' = attempts /\ execution' = execution /\ held' = held /\ phase' = phase
    BY <1>3 DEF CancelBegin, CancelCrash, vars, workerVars
  <2> QED
    BY <1>1, <2>1, QuietStep
<1> QED
  BY <1>1, <1>2, <1>3, ReclaimStep, RequestCancelStep, CancelRefreshStep, RetryStep, TickStep DEF Next

\* The invariant holds of every reachable state of the queue.
THEOREM Invariant == Spec => []IInv
BY InitialInvariant, InvariantStep, PTL DEF Spec

-----------------------------------------------------------------------------
(***************************************************************************)
(* What the invariant gives.                                               *)
(***************************************************************************)
\* An execution's terminal status is never stale, whichever of finalize,
\* finalize_auxiliary, reclaim, cancel and retry wrote last.
THEOREM ExecutionStatusIsTrue == Spec => []ExecutionTruth
<1>1. IInv => ExecutionTruth
  BY DEF IInv
<1> QED
  BY <1>1, Invariant, PTL

\* The transaction that closes the last job closes the execution, unless a
\* queued job was cancelled.
THEOREM ExecutionIsClosed == Spec => []NoOrphanedExecution
<1>1. IInv => NoOrphanedExecution
  BY DEF IInv
<1> QED
  BY <1>1, Invariant, PTL

\* Attempt and attempt job become terminal together.
THEOREM AttemptAndJobAgree == Spec => []AttemptFollowsJob
<1>1. IInv => AttemptFollowsJob
  BY DEF IInv, PairShape, AttemptFollowsJob
<1> QED
  BY <1>1, Invariant, PTL

\* So the three tables never contradict one another, for any number of
\* episodes, workers, generations and ticks.
THEOREM RowsAlwaysAgree == Spec => []RowsAgree
<1>1. TypeOK /\ ExecutionTruth /\ NoOrphanedExecution /\ AttemptFollowsJob => RowsAgree
  BY DEF RowsAgree
<1> QED
  BY <1>1, TypeCorrect, ExecutionStatusIsTrue, ExecutionIsClosed, AttemptAndJobAgree, PTL

\* Fencing: a recorded result was written by the last lease generation.
THEOREM StaleResultsAreFenced == Spec => []ResultFromLastGeneration
<1>1. IInv => ResultFromLastGeneration
  BY DEF IInv, PairShape, ResultFromLastGeneration
<1> QED
  BY <1>1, Invariant, PTL

\* A recorded cancellation cannot lose to a worker's outcome.
THEOREM CancellationIsHonoured == Spec => []CancellationWins
<1>1. IInv => CancellationWins
  BY DEF IInv, LeaseShape, CancellationWins
<1> QED
  BY <1>1, Invariant, PTL

\* The generation cap of reclaim holds for every job.
THEOREM LeasesAreBounded == Spec => []GenerationsBounded
<1>1. IInv => GenerationsBounded
  BY DEF IInv, LeaseShape, GenerationsBounded
<1> QED
  BY <1>1, Invariant, PTL

\* A completed execution has a captured result and an evaluation for every
\* attempt.
THEOREM CompletionIsEvaluated == Spec => []CompletedMeansEvaluated
<1>1. IInv => CompletedMeansEvaluated
  <2> SUFFICES ASSUME IInv, execution = "completed",
                      NEW a \in AttemptIds, attempts[a].status # "absent"
               PROVE  /\ attempts[a].result.outcome = attempts[a].status
                      /\ attempts[a].evaluated # 0
    BY DEF CompletedMeansEvaluated
  <2>1. StatusesOf(jobs) = {"completed"}
    BY DEF IInv, ExecutionTruth, Finalized, TerminalExecutionStatuses, AllJobsTerminal
  <2>2. \A j \in JobIds : Exists(j) => jobs[j].status = "completed"
    BY <2>1 DEF StatusesOf, Exists
  <2>3. PairShape(a) /\ EvaluationShape(a) /\ AttemptJob(a) \in JobIds /\ EvaluationJob(a) \in JobIds
    BY AttemptJobs DEF IInv
  <2> QED
    BY <2>2, <2>3 DEF PairShape, EvaluationShape
<1> QED
  BY <1>1, Invariant, PTL

-----------------------------------------------------------------------------
(***************************************************************************)
(* Action properties.                                                      *)
(***************************************************************************)
\* A terminal job keeps its status and an evaluation is written once: every
\* update of a job row is conditional on an open status, and _mark_started,
\* reclaim, cancel and retry leave evaluations alone.
THEOREM TerminalRowsAreFinal == Spec => TerminalsAreFinal
<1> DEFINE Kept == /\ \A j \in JobIds : Terminal(j) => jobs'[j].status = jobs[j].status
                   /\ \A a \in AttemptIds : attempts[a].evaluated # 0 =>
                          attempts'[a].evaluated = attempts[a].evaluated
<1>1. IInv /\ [Next]_vars => [Kept]_vars
  <2> SUFFICES ASSUME IInv, Next PROVE Kept
    OBVIOUS
  <2>1. TypeOK /\ TypeOK'
    BY TypeStep DEF IInv
  <2>2. \A j \in JobIds : Terminal(j) =>
          /\ jobs[j].status \notin {"queued", "running", "absent"}
          /\ ReclaimedJobs[j] = jobs[j]
    BY <2>1, ReclaimedJobFacts DEF Terminal, TerminalJobStatuses, Reclaimable
  <2>3. ASSUME NEW w \in Workers, NEW j \in JobIds, Claim(w, j) PROVE Kept
    BY <2>1, <2>2, <2>3, ReclaimType, ReclaimedAttemptFacts DEF Claim, Claimable
  <2>4. ASSUME NEW w \in Workers, Heartbeat(w) PROVE Kept
    <3>1. PICK j \in JobIds : j = held[w].job /\ jobs[j].status = "running"
      BY <2>4, OwnerFacts DEF Heartbeat
    <3> QED
      BY <2>1, <2>2, <2>4, <3>1 DEF Heartbeat, TypeOK
  <2>5. ASSUME NEW w \in Workers, MarkStarted(w) PROVE Kept
    <3>1. ASSUME NEW a \in AttemptIds
          PROVE  [attempts[a] EXCEPT !.status = "running"].evaluated = attempts[a].evaluated
      BY <2>1 DEF TypeOK, AttemptRows
    <3> QED
      BY <2>1, <2>5, <3>1 DEF MarkStarted, TypeOK
  <2>6. ASSUME NEW w \in Workers, NEW r \in Results, Finalize(w, r) PROVE Kept
    <3>1. OwnsLive(w) /\ w \in AttemptWorkers
      BY <2>6 DEF Finalize
    <3>2. PICK j \in JobIds : j = held[w].job /\ jobs[j].status = "running" /\ AttemptOf(j) \in AttemptIds
      BY <3>1, OwnerFacts
    <3>3. \A i \in JobIds : Terminal(i) => jobs'[i] = jobs[i]
      BY <2>2, <2>6, <3>2 DEF Finalize, FinalizedJobs, Exists
    <3>4. \A a \in AttemptIds : attempts'[a].evaluated = attempts[a].evaluated
      <4> DEFINE a == AttemptOf(j)
                 result == [outcome |-> r.outcome, class |-> r.class, gen |-> held[w].token]
                 status == IF Winner(j, r.job) = "cancelled" THEN "cancelled" ELSE r.status
      <4>1. attempts' = [attempts EXCEPT ![a] = Recorded(attempts[a], status, result)]
        BY <2>6, <3>2 DEF Finalize
      <4>2. result \in ResultColumns /\ status \in TerminalAttemptStatuses
        BY <3>1, OwnerFacts, ResultType DEF ResultColumns, TerminalAttemptStatuses
      <4> HIDE DEF a, result, status
      <4>3. Recorded(attempts[a], status, result).evaluated = attempts[a].evaluated
        BY <2>1, <3>2, <4>2, RecordedType DEF TypeOK, a
      <4> QED
        BY <2>1, <4>1, <4>3 DEF TypeOK
    <3> QED
      BY <3>3, <3>4
  <2>7. ASSUME NEW w \in Workers, Evaluate(w) PROVE Kept
    BY <2>1, <2>7 DEF Evaluate, TypeOK
  <2>8. ASSUME NEW w \in Workers, FinalizeAuxiliary(w) PROVE Kept
    <3>1. PICK j \in JobIds : j = held[w].job /\ jobs[j].status = "running"
      BY <2>8, OwnerFacts DEF FinalizeAuxiliary
    <3> QED
      BY <2>1, <2>2, <2>8, <3>1 DEF FinalizeAuxiliary, TypeOK
  <2>9. CASE Reclaim
    BY <2>1, <2>2, <2>9, ReclaimedAttemptFacts DEF Reclaim
  <2>10. ASSUME NEW j \in JobIds, RequestCancel(j) PROVE Kept
    <3>1. \A i \in JobIds : Terminal(i) => jobs'[i].status = jobs[i].status
      <4>1. jobs' = [jobs EXCEPT ![j] = CancelledJob(j)]
        BY <2>10 DEF RequestCancel
      <4> QED
        BY <2>1, <2>2, <4>1, CancelledType DEF TypeOK
    <3>2. \A a \in AttemptIds : attempts'[a].evaluated = attempts[a].evaluated
      <4>1. AttemptOf(j) \in AttemptIds /\ NoResult \in ResultColumns /\ "cancelled" \in TerminalAttemptStatuses
        BY JobAttempt DEF NoResult, ResultColumns, Classifications, TerminalAttemptStatuses
      <4>2. Recorded(attempts[AttemptOf(j)], "cancelled", NoResult).evaluated = attempts[AttemptOf(j)].evaluated
        BY <2>1, <4>1, RecordedType DEF TypeOK
      <4> QED
        BY <2>1, <2>10, <4>1, <4>2 DEF RequestCancel, TypeOK
    <3> QED
      BY <3>1, <3>2
  <2>11. ASSUME NEW a \in AttemptIds, NEW next \in AttemptIds, Retry(a, next) PROVE Kept
    <3>1. /\ attempts[next].status = "absent" /\ AttemptJob(next) \in JobIds
          /\ attempts[next].evaluated = 0 /\ ~ Exists(AttemptJob(next))
      BY <2>11, AttemptJobs DEF Retry, NextAttempt, IInv, PairShape
    <3> QED
      BY <2>1, <2>2, <2>11, <3>1 DEF Retry, Exists, TypeOK
  <2>12. CASE Tick
    <3>1. \A j \in JobIds : jobs'[j] = Aged(jobs[j]) /\ jobs[j] \in JobRows
      BY <2>1, <2>12 DEF Tick, TypeOK
    <3> QED
      BY <2>12, <3>1, AgedType DEF Tick
  <2>13. ASSUME CancelBegin \/ CancelRefresh \/ CancelCrash \/ \E w \in Workers : Crash(w) \/ Fenced(w)
         PROVE Kept
    BY <2>13 DEF CancelBegin, CancelRefresh, CancelCrash, Crash, Fenced
  <2> QED
    BY <2>3, <2>4, <2>5, <2>6, <2>7, <2>8, <2>9, <2>10, <2>11, <2>12, <2>13 DEF Next, WorkerNext
<1> QED
  BY <1>1, Invariant, PTL DEF Spec, TerminalsAreFinal

\* The evidence of a terminal attempt (its status, result and terminal events)
\* is stable under every operation but two, both about its evaluation job: a
\* cancellation that finds it queued, and a reclaim that finds it exhausted.
\* The attempt job itself is terminal by then, so no lease of it is live.
THEOREM EvidenceIsLostOnlyWithItsJob == Spec => EvidenceChangesOnlyWithEvaluationJob
<1> DEFINE Changed(a) == \/ attempts'[a].status # attempts[a].status
                         \/ attempts'[a].result # attempts[a].result
                         \/ attempts'[a].terminals # attempts[a].terminals
           Excused(a) == \/ /\ jobs[EvaluationJob(a)].status = "queued"
                            /\ jobs'[EvaluationJob(a)].status = "cancelled"
                         \/ Exhausted(EvaluationJob(a))
           Kept == \A a \in AttemptIds :
                     /\ attempts[a].status \in TerminalAttemptStatuses
                     /\ \/ attempts'[a].status # attempts[a].status
                        \/ attempts'[a].result # attempts[a].result
                        \/ attempts'[a].terminals # attempts[a].terminals
                     => \/ /\ jobs[EvaluationJob(a)].status = "queued"
                           /\ jobs'[EvaluationJob(a)].status = "cancelled"
                        \/ Exhausted(EvaluationJob(a))
<1>1. IInv /\ [Next]_vars => [Kept]_vars
  <2> SUFFICES ASSUME IInv, Next,
                      NEW a \in AttemptIds, attempts[a].status \in TerminalAttemptStatuses,
                      Changed(a)
               PROVE  Excused(a)
    OBVIOUS
  <2>1. TypeOK
    BY DEF IInv
  <2>2. /\ AttemptJob(a) \in JobIds /\ EvaluationJob(a) \in JobIds
        /\ AttemptOf(AttemptJob(a)) = a /\ AttemptOf(EvaluationJob(a)) = a
    BY AttemptJobs
  <2>3. /\ attempts[a].status \notin {"absent", "queued"}
        /\ jobs[AttemptJob(a)].status \notin {"queued", "running"}
        /\ ~ Exhausted(AttemptJob(a))
    <3>1. PairShape(a)
      BY DEF IInv
    <3>2. jobs[AttemptJob(a)].status \in TerminalJobStatuses
      BY <3>1 DEF PairShape, Terminal
    <3> QED
      BY <3>2 DEF TerminalJobStatuses, TerminalAttemptStatuses, NonSuccess, Exhausted, Reclaimable
  <2>4. ReclaimedAttempts[a] = attempts[a] \/ Exhausted(EvaluationJob(a))
    BY <2>1, <2>3, ReclaimedAttemptFacts
  <2>5. ASSUME NEW w \in Workers, NEW j \in JobIds, Claim(w, j) PROVE Excused(a)
    BY <2>4, <2>5 DEF Claim
  <2>6. ASSUME NEW w \in Workers, MarkStarted(w) PROVE Excused(a)
    BY <2>1, <2>3, <2>6 DEF MarkStarted, TypeOK
  <2>7. ASSUME NEW w \in Workers, NEW r \in Results, Finalize(w, r) PROVE Excused(a)
    <3>1. PICK j \in JobIds : j = held[w].job
      BY <2>7, OwnerFacts DEF Finalize
    <3>2. jobs[j].status = "running" /\ j = AttemptJob(AttemptOf(j))
      BY <2>7, <3>1, OwnerFacts DEF Finalize
    <3>3. AttemptOf(j) # a
      BY <2>3, <3>2
    <3>4. attempts'[a] = attempts[a]
      BY <2>1, <2>7, <3>1, <3>3 DEF Finalize, TypeOK
    <3> QED
      BY <3>4
  <2>8. ASSUME NEW w \in Workers, Evaluate(w) PROVE Excused(a)
    <3>1. \A n : /\ [attempts[a] EXCEPT !.evaluated = n].status = attempts[a].status
                 /\ [attempts[a] EXCEPT !.evaluated = n].result = attempts[a].result
                 /\ [attempts[a] EXCEPT !.evaluated = n].terminals = attempts[a].terminals
      BY <2>1 DEF TypeOK, AttemptRows
    <3> QED
      BY <2>1, <2>8, <3>1 DEF Evaluate, TypeOK
  <2>9. CASE Reclaim
    BY <2>4, <2>9 DEF Reclaim
  <2>10. ASSUME NEW j \in JobIds, RequestCancel(j) PROVE Excused(a)
    <3>1. jobs[j].status = "queued" /\ AttemptOf(j) = a
      BY <2>1, <2>10 DEF RequestCancel, TypeOK
    <3>2. j = EvaluationJob(a)
      BY <2>3, <3>1, JobAttempt DEF Kinds
    <3>3. jobs'[j] = CancelledJob(j)
      BY <2>1, <2>10 DEF RequestCancel, TypeOK
    <3> QED
      BY <2>1, <3>1, <3>2, <3>3, CancelledType
  <2>11. ASSUME NEW b \in AttemptIds, NEW next \in AttemptIds, Retry(b, next) PROVE Excused(a)
    <3>1. next # a
      BY <2>3, <2>11 DEF Retry, NextAttempt
    <3> QED
      BY <2>1, <2>11, <3>1 DEF Retry, TypeOK
  <2>12. ASSUME \/ CancelBegin \/ CancelRefresh \/ CancelCrash \/ Tick
                \/ \E w \in Workers : Heartbeat(w) \/ FinalizeAuxiliary(w) \/ Crash(w) \/ Fenced(w)
         PROVE Excused(a)
    BY <2>12 DEF CancelBegin, CancelRefresh, CancelCrash, Tick, Heartbeat, FinalizeAuxiliary,
                 Crash, Fenced
  <2> QED
    BY <2>5, <2>6, <2>7, <2>8, <2>9, <2>10, <2>11, <2>12 DEF Next, WorkerNext
<1> QED
  BY <1>1, Invariant, PTL DEF Spec, EvidenceChangesOnlyWithEvaluationJob

=============================================================================
