--------------------------- MODULE EvidenceProofs ---------------------------
(***************************************************************************)
(* Rows of the evidence chain are written once, and a stored report        *)
(* describes attempts as they ended, for any number of executions,         *)
(* retries and requests.                                                   *)
(*                                                                         *)
(* The argument for the report: what an analysis has read is settled.      *)
(* Every attempt of the chain had ended, so no capture can touch it; the   *)
(* last one was evaluated, so no evaluation can; and a retry only appends. *)
(* This holds of the chain a request carries and of the one it stores.     *)
(***************************************************************************)
EXTENDS EvidenceChain, TLAPS, FiniteSetTheorems

EndedStatuses == {"completed", "failed", "timed_out", "incomplete", "cancelled"}

\* Two rows that differ at most in whether they were evaluated.
SameEnd(a, b) ==
    /\ a.status = b.status /\ a.output = b.output /\ a.transient = b.transient
    /\ a.severe = b.severe /\ a.mission = b.mission /\ a.cost = b.cost
    /\ a.usage = b.usage /\ a.prev = b.prev

\* A chain that an analysis accepted, seen against the rows as they are now.
Settled(chain, now) ==
    /\ chain \in Seq(AttemptRow) /\ Len(chain) \in 1..Len(now)
    /\ \A i \in 1..Len(chain) : chain[i].status \in EndedStatuses /\ SameEnd(chain[i], now[i])
    /\ now[Len(chain)].evaluations = 1 /\ chain[Len(chain)].evaluations = 1
    /\ \A i \in 1..Len(chain) : chain[i].prev = i - 1
    /\ \A i \in 1..(Len(chain) - 1) : chain[i].transient /\ ~ObservedOutput(chain[i])

RowTypes == attempts \in [Executions -> Seq(AttemptRow)]

\* What a request under analysis carries.
CarriedShape ==
    \A h \in Handlers :
        /\ handlers[h].op \in {"analyze", "report"} => handlers[h].on \in Executions
        /\ handlers[h].op = "report" => Settled(handlers[h].saw, attempts[handlers[h].on])

StoredShape ==
    \A x \in Executions : reports[x] # None => Settled(reports[x].chain, attempts[x])

HandlerFields ==
    /\ DOMAIN handlers = Handlers
    /\ \A h \in Handlers : DOMAIN handlers[h] = {"op", "on", "with", "saw"}

EInv ==
    /\ RowTypes
    /\ \A x \in Executions : Len(attempts[x]) > 0
    /\ HandlerFields
    /\ DOMAIN reports = Executions
    /\ CarriedShape
    /\ StoredShape

-----------------------------------------------------------------------------

\* Rows that agree on everything but their evaluation have the same end.
LEMMA SameEndIsEnded ==
  ASSUME NEW a \in AttemptRow, NEW b \in AttemptRow, SameEnd(a, b)
  PROVE  Ended(a) = Ended(b)
  BY DEF AttemptRow, SameEnd, Ended

\* Rows that agree on everything are one.
LEMMA SameRow ==
  ASSUME NEW a \in AttemptRow, NEW b \in AttemptRow, SameEnd(a, b), a.evaluations = b.evaluations
  PROVE  a = b
  BY DEF AttemptRow, SameEnd

\* A chain that _episode accepts is settled against the rows it was read from.
LEMMA AcceptedIsSettled ==
  ASSUME NEW x \in Executions, NEW chain \in Seq(AttemptRow), chain # <<>>,
         EpisodeAccepted(x, chain)
  PROVE  Settled(chain, chain)
<1>1. Len(chain) \in Nat \ {0}
  OBVIOUS
<1>2. \A i \in 1..Len(chain) : chain[i] \in AttemptRow
  OBVIOUS
<1>3. \A i \in 1..Len(chain) : chain[i].prev = i - 1
  BY DEF EpisodeAccepted
<1>4. \A i \in 1..(Len(chain) - 1) :
         chain[i].status \in EndedStatuses /\ chain[i].transient /\ ~ObservedOutput(chain[i])
  BY DEF EpisodeAccepted, RetryConstituent, Terminal, NonSuccess, EndedStatuses
<1>5. chain[Len(chain)].status \in EndedStatuses /\ chain[Len(chain)].evaluations = 1
  BY DEF EpisodeAccepted, FinalAttempt, Terminal, NonSuccess, EndedStatuses
<1>6. \A i \in 1..Len(chain) : chain[i].status \in EndedStatuses
  BY <1>1, <1>4, <1>5
<1> QED
  BY <1>1, <1>3, <1>4, <1>5, <1>6 DEF Settled, SameEnd

\* A settled chain stays settled as long as no row of it changes its end and
\* none loses its evaluation.
LEMMA SettledStays ==
  ASSUME NEW chain, NEW now \in Seq(AttemptRow), NEW later \in Seq(AttemptRow),
         Settled(chain, now),
         Len(now) <= Len(later),
         \A i \in 1..Len(now) : now[i].status \in EndedStatuses => SameEnd(now[i], later[i]),
         \A i \in 1..Len(now) :
            now[i].status \in EndedStatuses /\ now[i].evaluations = 1 => later[i].evaluations = 1
  PROVE  Settled(chain, later)
<1>1. Len(now) \in Nat /\ Len(later) \in Nat /\ Len(chain) \in 1..Len(now)
  BY DEF Settled
<1>2. ASSUME NEW i \in 1..Len(chain)
      PROVE  now[i].status \in EndedStatuses /\ SameEnd(chain[i], later[i])
  <2>1. i \in 1..Len(now)
    BY <1>1
  <2>2. SameEnd(chain[i], now[i]) /\ now[i].status \in EndedStatuses
    BY DEF Settled, SameEnd
  <2>3. SameEnd(now[i], later[i])
    BY <2>1, <2>2
  <2> QED
    BY <2>2, <2>3 DEF SameEnd
<1>3. later[Len(chain)].evaluations = 1
  <2>1. Len(chain) \in 1..Len(chain) /\ Len(chain) \in 1..Len(now)
    BY <1>1
  <2> QED
    BY <1>2, <2>1 DEF Settled
<1>4. Len(chain) \in 1..Len(later)
  BY <1>1
<1> QED
  BY <1>2, <1>3, <1>4 DEF Settled

\* What every step does to the rows of an execution.
RowsMoveOn(x) ==
    /\ Len(attempts[x]) <= Len(attempts'[x])
    /\ \A i \in 1..Len(attempts[x]) :
          /\ attempts[x][i].status \in EndedStatuses => SameEnd(attempts[x][i], attempts'[x][i])
          /\ attempts[x][i].status \in EndedStatuses /\ attempts[x][i].evaluations = 1
                => attempts'[x][i].evaluations = 1

\* finalize_with_followup writes a queued attempt only.
LEMMA CaptureMovesOn ==
  ASSUME EInv, NEW x \in Executions, NEW i \in DOMAIN attempts[x], NEW o \in Outcomes[x],
         Capture(x, i, o)
  PROVE  RowTypes' /\ \A y \in Executions : RowsMoveOn(y)
<1>1. attempts[x][i] \in AttemptRow /\ attempts[x][i].status = "queued" /\ attempts[x] \in Seq(AttemptRow)
  BY DEF EInv, RowTypes, Capture
<1>2. o \in AttemptRow
  BY OutcomeAssumption
<1> DEFINE new == [o EXCEPT !.prev = attempts[x][i].prev, !.evaluations = 0]
<1>3. new \in AttemptRow
  BY <1>1, <1>2 DEF AttemptRow
<1>4. attempts' = [attempts EXCEPT ![x] = [attempts[x] EXCEPT ![i] = new]]
  BY DEF Capture
<1> HIDE DEF new
<1>5. [attempts[x] EXCEPT ![i] = new] \in Seq(AttemptRow)
  BY <1>1, <1>3
<1>6. RowTypes'
  BY <1>4, <1>5 DEF EInv, RowTypes
<1>7. ASSUME NEW y \in Executions
      PROVE  RowsMoveOn(y)
  <2>1. CASE y # x
    BY <1>4, <2>1 DEF RowsMoveOn, EInv, RowTypes, SameEnd
  <2>2. CASE y = x
    <3>1. attempts'[x] = [attempts[x] EXCEPT ![i] = new]
      BY <1>4 DEF EInv, RowTypes
    <3>2. Len(attempts'[x]) = Len(attempts[x])
      BY <1>1, <3>1
    <3>3. \A j \in 1..Len(attempts[x]) : j # i => attempts'[x][j] = attempts[x][j]
      BY <1>1, <3>1
    <3> QED
      BY <1>1, <2>2, <3>2, <3>3 DEF RowsMoveOn, SameEnd, EndedStatuses
  <2> QED
    BY <2>1, <2>2
<1> QED
  BY <1>6, <1>7

\* evaluate adds the evaluation and leaves what the attempt ended with.
LEMMA EvaluateMovesOn ==
  ASSUME EInv, NEW x \in Executions, NEW i \in DOMAIN attempts[x], Evaluate(x, i)
  PROVE  RowTypes' /\ \A y \in Executions : RowsMoveOn(y)
<1>1. attempts[x][i] \in AttemptRow /\ attempts[x] \in Seq(AttemptRow)
  BY DEF EInv, RowTypes
<1> DEFINE new == [attempts[x][i] EXCEPT !.evaluations = 1]
<1>2. new \in AttemptRow /\ new.evaluations = 1 /\ SameEnd(attempts[x][i], new)
  BY <1>1 DEF AttemptRow, SameEnd
<1>3. attempts' = [attempts EXCEPT ![x] = [attempts[x] EXCEPT ![i] = new]]
  BY DEF Evaluate
<1> HIDE DEF new
<1>4. [attempts[x] EXCEPT ![i] = new] \in Seq(AttemptRow)
  BY <1>1, <1>2
<1>5. RowTypes'
  BY <1>3, <1>4 DEF EInv, RowTypes
<1>6. ASSUME NEW y \in Executions
      PROVE  RowsMoveOn(y)
  <2>1. CASE y # x
    BY <1>3, <2>1 DEF RowsMoveOn, EInv, RowTypes, SameEnd
  <2>2. CASE y = x
    <3>1. attempts'[x] = [attempts[x] EXCEPT ![i] = new]
      BY <1>3 DEF EInv, RowTypes
    <3>2. Len(attempts'[x]) = Len(attempts[x])
      BY <1>1, <3>1
    <3>3. \A j \in 1..Len(attempts[x]) : j # i => attempts'[x][j] = attempts[x][j]
      BY <1>1, <3>1
    <3>4. attempts'[x][i] = new
      BY <1>1, <3>1
    <3> QED
      BY <1>1, <1>2, <2>2, <3>2, <3>3, <3>4 DEF RowsMoveOn, SameEnd
  <2> QED
    BY <2>1, <2>2
<1> QED
  BY <1>5, <1>6

\* retry appends.
LEMMA RetryMovesOn ==
  ASSUME EInv, NEW x \in Executions, NEW i \in DOMAIN attempts[x], Retry(x, i)
  PROVE  RowTypes' /\ \A y \in Executions : RowsMoveOn(y)
<1>1. attempts[x] \in Seq(AttemptRow) /\ i \in Nat
  BY DEF EInv, RowTypes
<1>2. Queued(i) \in AttemptRow
  BY <1>1 DEF Queued, AttemptRow
<1>3. attempts' = [attempts EXCEPT ![x] = Append(attempts[x], Queued(i))]
  BY DEF Retry
<1>4. Append(attempts[x], Queued(i)) \in Seq(AttemptRow)
  BY <1>1, <1>2
<1>5. RowTypes'
  BY <1>3, <1>4 DEF EInv, RowTypes
<1>6. ASSUME NEW y \in Executions
      PROVE  RowsMoveOn(y)
  <2>1. CASE y # x
    BY <1>3, <2>1 DEF RowsMoveOn, EInv, RowTypes, SameEnd
  <2>2. CASE y = x
    <3>1. attempts'[x] = Append(attempts[x], Queued(i))
      BY <1>3 DEF EInv, RowTypes
    <3>2. Len(attempts'[x]) = Len(attempts[x]) + 1 /\ Len(attempts[x]) \in Nat
      BY <1>1, <3>1
    <3>3. \A j \in 1..Len(attempts[x]) : attempts'[x][j] = attempts[x][j]
      BY <1>1, <3>1
    <3> QED
      BY <2>2, <3>2, <3>3 DEF RowsMoveOn, SameEnd
  <2> QED
    BY <2>1, <2>2
<1> QED
  BY <1>5, <1>6

\* Steps that only move rows on.
LEMMA RowSteps ==
  ASSUME EInv, RowTypes', \A y \in Executions : RowsMoveOn(y), UNCHANGED <<reports, handlers>>
  PROVE  EInv'
<1>1. ASSUME NEW y \in Executions, NEW chain, Settled(chain, attempts[y])
      PROVE  Settled(chain, attempts'[y])
  <2>1. attempts[y] \in Seq(AttemptRow) /\ attempts'[y] \in Seq(AttemptRow)
    BY DEF EInv, RowTypes
  <2> QED
    BY <1>1, <2>1, SettledStays DEF RowsMoveOn
<1>2. \A x \in Executions : Len(attempts'[x]) > 0
  <2>1. SUFFICES ASSUME NEW x \in Executions PROVE Len(attempts'[x]) > 0
    OBVIOUS
  <2>2. attempts[x] \in Seq(AttemptRow) /\ attempts'[x] \in Seq(AttemptRow)
    BY DEF EInv, RowTypes
  <2> QED
    BY <2>2 DEF EInv, RowsMoveOn
<1>3. CarriedShape'
  BY <1>1 DEF EInv, CarriedShape
<1>4. StoredShape'
  BY <1>1 DEF EInv, StoredShape
<1> QED
  BY <1>2, <1>3, <1>4 DEF EInv, HandlerFields

\* Steps of a request that leave rows and reports alone: only what the request
\* carries afterwards has to be checked.
LEMMA HandlerSteps ==
  ASSUME EInv, UNCHANGED <<attempts, reports>>,
         NEW h \in Handlers, NEW next, handlers' = [handlers EXCEPT ![h] = next],
         DOMAIN next = {"op", "on", "with", "saw"},
         next.op \in {"analyze", "report"} => next.on \in Executions,
         next.op = "report" => Settled(next.saw, attempts[next.on])
  PROVE  EInv'
<1>1. handlers'[h] = next /\ \A g \in Handlers : g # h => handlers'[g] = handlers[g]
  BY DEF EInv, HandlerFields
<1>2. HandlerFields'
  BY <1>1 DEF EInv, HandlerFields
<1>3. CarriedShape'
  BY <1>1 DEF EInv, CarriedShape
<1> QED
  BY <1>2, <1>3 DEF EInv, RowTypes, StoredShape

\* Empty tables satisfy the invariant.
LEMMA EvidenceStarts == Init => EInv
<1> SUFFICES ASSUME Init PROVE EInv
  OBVIOUS
<1>1. Queued(0) \in AttemptRow
  BY DEF Queued, AttemptRow
<1>2. <<Queued(0)>> \in Seq(AttemptRow) /\ Len(<<Queued(0)>>) = 1
  BY <1>1
<1>3. RowTypes /\ \A x \in Executions : Len(attempts[x]) > 0
  BY <1>2 DEF Init, RowTypes
<1>4. \A h \in Handlers : handlers[h] = [op |-> "idle", on |-> None, with |-> None, saw |-> None]
  BY DEF Init, Idle
<1>5. HandlerFields /\ CarriedShape
  BY <1>4 DEF Init, HandlerFields, CarriedShape
<1> QED
  BY <1>3, <1>5 DEF Init, EInv, StoredShape

\* Attempts and their evaluations, and the artifact store.
LEMMA WorkStep ==
  ASSUME EInv, NEW x \in Executions, Work(x)
  PROVE  EInv'
<1>1. ASSUME NEW i \in DOMAIN attempts[x], NEW o \in Outcomes[x], Capture(x, i, o)
      PROVE  EInv'
  BY <1>1, CaptureMovesOn, RowSteps DEF Capture, records
<1>2. ASSUME NEW i \in DOMAIN attempts[x], Evaluate(x, i)
      PROVE  EInv'
  BY <1>2, EvaluateMovesOn, RowSteps DEF Evaluate, records
<1>3. ASSUME NEW i \in DOMAIN attempts[x], Retry(x, i)
      PROVE  EInv'
  BY <1>3, RetryMovesOn, RowSteps DEF Retry, records
<1>4. ASSUME NEW d, Lose(d)
      PROVE  EInv'
  BY <1>4 DEF Lose, rows, records, EInv, RowTypes, HandlerFields, CarriedShape, StoredShape
<1> QED
  BY <1>1, <1>2, <1>3, <1>4 DEF Work

\* Requests.
LEMMA HandleStep ==
  ASSUME EInv, NEW h \in Handlers, Handle(h)
  PROVE  EInv'
<1> USE DEF rows, records, Idle
<1>1. ASSUME NEW x \in Executions, AnalyzeBegin(h, x)
      PROVE  EInv'
  <2>1. handlers' = [handlers EXCEPT ![h] = [op |-> "analyze", on |-> x, with |-> None, saw |-> None]]
    BY <1>1 DEF AnalyzeBegin
  <2> QED
    BY <1>1, <2>1, HandlerSteps DEF AnalyzeBegin
<1>2. ASSUME NEW x \in Executions, NEW r \in RequestKeys, DeriveBegin(h, x, r)
      PROVE  EInv'
  <2>1. handlers' = [handlers EXCEPT ![h] = [op |-> "derive", on |-> x, with |-> r, saw |-> None]]
    BY <1>2 DEF DeriveBegin
  <2> QED
    BY <1>2, <2>1, HandlerSteps DEF DeriveBegin
<1>3. ASSUME NEW x \in Executions, NEW request \in Requests, BriefRead(h, x, request)
      PROVE  EInv'
  <2>1. \E brief : handlers' = [handlers EXCEPT ![h] =
              [op |-> "brief", on |-> x, with |-> request, saw |-> brief]]
    BY <1>3 DEF BriefRead
  <2> QED
    BY <1>3, <2>1, HandlerSteps DEF BriefRead
<1>4. ASSUME AnalyzeRows(h)
      PROVE  EInv'
  <2> DEFINE x == handlers[h].on
  <2>1. x \in Executions /\ attempts[x] \in Seq(AttemptRow) /\ Len(attempts[x]) > 0
    BY <1>4 DEF AnalyzeRows, EInv, CarriedShape, RowTypes
  <2>2. CASE EpisodeAccepted(x, attempts[x])
    <3> DEFINE next == [handlers[h] EXCEPT !.op = "report", !.saw = attempts[x]]
    <3>1. handlers' = [handlers EXCEPT ![h] = next]
      BY <1>4, <2>2 DEF AnalyzeRows
    <3>2. /\ DOMAIN next = {"op", "on", "with", "saw"}
          /\ next.op = "report" /\ next.on = x /\ next.saw = attempts[x]
      BY DEF EInv, HandlerFields
    <3>3. Settled(attempts[x], attempts[x])
      BY <2>1, <2>2, AcceptedIsSettled
    <3> HIDE DEF next
    <3> QED
      BY <1>4, <2>1, <3>1, <3>2, <3>3, HandlerSteps DEF AnalyzeRows
  <2>3. CASE ~EpisodeAccepted(x, attempts[x])
    <3>1. handlers' = [handlers EXCEPT ![h] = Idle]
      BY <1>4, <2>3 DEF AnalyzeRows
    <3> QED
      BY <1>4, <3>1, HandlerSteps DEF AnalyzeRows
  <2> QED
    BY <2>2, <2>3
<1>5. ASSUME AnalyzeCommit(h)
      PROVE  EInv'
  <2> DEFINE x == handlers[h].on
             report == [chain |-> handlers[h].saw, facts |-> Facts(handlers[h].saw)]
  <2>1. x \in Executions /\ Settled(report.chain, attempts[x])
    BY <1>5 DEF AnalyzeCommit, EInv, CarriedShape
  <2>2. /\ handlers' = [handlers EXCEPT ![h] = Idle]
        /\ attempts' = attempts
        /\ reports' = IF reports[x] = None THEN [reports EXCEPT ![x] = report] ELSE reports
    BY <1>5 DEF AnalyzeCommit, ReportInsert
  <2> HIDE DEF x, report
  <2>3. StoredShape' /\ DOMAIN reports' = Executions
    BY <2>1, <2>2 DEF EInv, StoredShape
  <2>4. handlers'[h] = Idle /\ \A g \in Handlers : g # h => handlers'[g] = handlers[g]
    BY <2>2 DEF EInv, HandlerFields
  <2>5. HandlerFields' /\ CarriedShape'
    BY <2>2, <2>4 DEF EInv, HandlerFields, CarriedShape
  <2> QED
    BY <2>2, <2>3, <2>5 DEF EInv, RowTypes
<1>6. ASSUME DeriveRows(h)
      PROVE  EInv'
  <2> DEFINE next == [handlers[h] EXCEPT !.op = "receipt", !.saw = attempts[handlers[h].on]]
  <2>1. DOMAIN next = {"op", "on", "with", "saw"} /\ next.op = "receipt"
    BY DEF EInv, HandlerFields
  <2>2. handlers' = [handlers EXCEPT ![h] = next] \/ handlers' = [handlers EXCEPT ![h] = Idle]
    BY <1>6 DEF DeriveRows
  <2> HIDE DEF next
  <2> QED
    BY <1>6, <2>1, <2>2, HandlerSteps DEF DeriveRows
<1>7. ASSUME DeriveCommit(h) \/ BriefCommit(h) \/ Abandon(h)
      PROVE  EInv'
  <2>1. handlers' = [handlers EXCEPT ![h] = Idle] /\ UNCHANGED <<attempts, reports>>
    BY <1>7 DEF DeriveCommit, BriefCommit, Abandon
  <2> QED
    BY <2>1, HandlerSteps
<1> QED
  BY <1>1, <1>2, <1>3, <1>4, <1>5, <1>6, <1>7 DEF Handle

\* Every step of workers, requests and custody preserves it.
LEMMA EvidenceStep == EInv /\ [Next]_vars => EInv'
<1> SUFFICES ASSUME EInv, [Next]_vars PROVE EInv'
  OBVIOUS
<1>1. CASE \E x \in Executions : Work(x)
  BY <1>1, WorkStep
<1>2. CASE \E h \in Handlers : Handle(h)
  BY <1>2, HandleStep
<1>3. CASE Custody
  <2>1. UNCHANGED <<attempts, reports, handlers>>
    BY <1>3 DEF Custody, Upload, Reproduce, rows
  <2> QED
    BY <2>1 DEF EInv, RowTypes, HandlerFields, CarriedShape, StoredShape
<1>4. CASE UNCHANGED vars
  BY <1>4 DEF vars, rows, records, EInv, RowTypes, HandlerFields, CarriedShape, StoredShape
<1> QED
  BY <1>1, <1>2, <1>3, <1>4 DEF Next

-----------------------------------------------------------------------------

\* services_v1/analysis: a stored report describes attempts as they ended,
\* although the retries, captures and evaluations of any length of episode
\* run between the reads it was built from and its insertion, and after it.
THEOREM ReportsMatchEvidence == Spec => []ReportMatchesEvidence
<1>1. EInv => ReportMatchesEvidence
  <2> SUFFICES ASSUME EInv, NEW x \in Executions, reports[x] # None
               PROVE  LET chain == reports[x].chain
                      IN  /\ Len(chain) <= Len(attempts[x])
                          /\ \A i \in DOMAIN chain : Ended(chain[i]) = Ended(attempts[x][i])
                          /\ chain[Len(chain)] = attempts[x][Len(chain)]
                          /\ chain[Len(chain)].evaluations = 1
                          /\ \A i \in DOMAIN chain :
                                i > 1 => chain[i - 1].transient /\ chain[i].prev = i - 1
    BY DEF ReportMatchesEvidence
  <2> DEFINE chain == reports[x].chain
  <2>1. Settled(chain, attempts[x]) /\ attempts[x] \in Seq(AttemptRow)
    BY DEF EInv, StoredShape, RowTypes
  <2> HIDE DEF chain
  <2>2. /\ chain \in Seq(AttemptRow) /\ Len(chain) \in 1..Len(attempts[x])
        /\ Len(attempts[x]) \in Nat /\ DOMAIN chain = 1..Len(chain)
    BY <2>1 DEF Settled
  <2>3. \A i \in 1..Len(chain) : chain[i] \in AttemptRow /\ attempts[x][i] \in AttemptRow
    BY <2>1, <2>2
  <2>4. \A i \in DOMAIN chain : Ended(chain[i]) = Ended(attempts[x][i])
    BY <2>1, <2>2, <2>3, SameEndIsEnded DEF Settled
  <2>5. chain[Len(chain)] = attempts[x][Len(chain)]
    BY <2>1, <2>2, <2>3, SameRow DEF Settled
  <2>6. \A i \in DOMAIN chain : i > 1 => chain[i - 1].transient /\ chain[i].prev = i - 1
    BY <2>1, <2>2 DEF Settled
  <2>7. chain[Len(chain)].evaluations = 1
    BY <2>1 DEF Settled
  <2> QED
    BY <2>2, <2>4, <2>5, <2>6, <2>7 DEF chain
<1> QED
  BY <1>1, EvidenceStarts, EvidenceStep, PTL DEF Spec

\* No step changes or removes a row that is stored.
LEMMA StepsKeep ==
  ASSUME [Next]_vars
  PROVE  Kept(reports, reports') /\ Kept(receipts, receipts')
         /\ Kept(briefs, briefs') /\ Kept(reproductions, reproductions')
<1> USE DEF Kept
<1>1. CASE UNCHANGED records
  BY <1>1 DEF records
<1>2. ASSUME NEW h \in Handlers, AnalyzeCommit(h)
      PROVE  Kept(reports, reports') /\ UNCHANGED <<receipts, briefs, reproductions>>
  BY <1>2 DEF AnalyzeCommit, ReportInsert
<1>3. ASSUME NEW h \in Handlers, DeriveCommit(h)
      PROVE  Kept(receipts, receipts') /\ UNCHANGED <<reports, briefs, reproductions>>
  BY <1>3 DEF DeriveCommit, ReceiptInsert
<1>4. ASSUME NEW h \in Handlers, BriefCommit(h)
      PROVE  Kept(briefs, briefs') /\ UNCHANGED <<reports, receipts, reproductions>>
  BY <1>4 DEF BriefCommit
<1>5. ASSUME NEW r, NEW x, NEW artifacts, Upload(r, x, artifacts)
      PROVE  Kept(receipts, receipts') /\ UNCHANGED <<reports, briefs, reproductions>>
  BY <1>5 DEF Upload, ReceiptInsert
<1>6. ASSUME NEW p, NEW r, NEW s, Reproduce(p, r, s)
      PROVE  Kept(reproductions, reproductions') /\ UNCHANGED <<reports, receipts, briefs>>
  BY <1>6 DEF Reproduce
<1>7. CASE \E x \in Executions : Work(x)
  <2>1. UNCHANGED records
    BY <1>7 DEF Work, Capture, Evaluate, Retry, Lose
  <2> QED
    BY <1>1, <2>1
<1>8. ASSUME NEW h \in Handlers, Handle(h)
      PROVE  UNCHANGED records \/ AnalyzeCommit(h) \/ DeriveCommit(h) \/ BriefCommit(h)
  BY <1>8 DEF Handle, AnalyzeBegin, DeriveBegin, BriefRead, AnalyzeRows, DeriveRows, Abandon
<1> QED
  BY <1>1, <1>2, <1>3, <1>4, <1>5, <1>6, <1>7, <1>8 DEF Next, Custody, vars

\* services_v1/analysis, evidence, decision: no step changes or removes a
\* report, receipt, brief or reproduction that is stored.
THEOREM RowsAreWrittenOnce == Spec => WriteOnce
<1>1. [Next]_vars => Kept(reports, reports') /\ Kept(receipts, receipts')
                     /\ Kept(briefs, briefs') /\ Kept(reproductions, reproductions')
  BY StepsKeep
<1> QED
  BY <1>1, PTL DEF Spec, WriteOnce

-----------------------------------------------------------------------------
(***************************************************************************)
(* What a brief may say, by the rules alone.  The analysis never reports   *)
(* more than descriptive evidence and a receipt carries fixture or         *)
(* local-live maturity, so a causal, generalized or later claim is always  *)
(* blocked; what remains has one of the first three ceilings.              *)
(***************************************************************************)

\* The first three ceilings in their order.
LEMMA FirstRanks ==
  /\ Rank("no_claim") = 1 /\ Rank("fixture_only") = 2 /\ Rank("local_live_only") = 3
  /\ Ceilings[1] = "no_claim" /\ Ceilings[2] = "fixture_only" /\ Ceilings[3] = "local_live_only"
<1>1. DOMAIN Ceilings = 1..8
  BY DEF Ceilings
<1>2. /\ Ceilings[1] = "no_claim" /\ Ceilings[2] = "fixture_only"
      /\ Ceilings[3] = "local_live_only" /\ Ceilings[4] = "confirmatory_analysis"
      /\ Ceilings[5] = "replicated" /\ Ceilings[6] = "cross_model"
      /\ Ceilings[7] = "human_calibrated" /\ Ceilings[8] = "independent"
  BY DEF Ceilings
<1>3. \A i \in 1..8 : i = 1 \/ i = 2 \/ i = 3 \/ i = 4 \/ i = 5 \/ i = 6 \/ i = 7 \/ i = 8
  OBVIOUS
<1>4. \A i \in DOMAIN Ceilings : /\ Ceilings[i] = "no_claim" <=> i = 1
                                 /\ Ceilings[i] = "fixture_only" <=> i = 2
                                 /\ Ceilings[i] = "local_live_only" <=> i = 3
  BY <1>1, <1>2, <1>3
<1>5. 1 \in DOMAIN Ceilings /\ 2 \in DOMAIN Ceilings /\ 3 \in DOMAIN Ceilings
  BY <1>1
<1> QED BY <1>2, <1>4, <1>5 DEF Rank

\* A report of this version is descriptive (comparison_invariants is given as a
\* reason whatever the input).
LEMMA ReportsAreDescriptive ==
  ASSUME NEW chain
  PROVE  Facts(chain).level = "DESCRIPTIVE_ONLY"
<1>1. ASSUME NEW a, NEW need
      PROVE  "comparison_invariants" \in AdequacyReasons(a, need)
  BY DEF AdequacyReasons
<1>2. ASSUME NEW a, NEW need
      PROVE  ClaimLevel(a, need) = "DESCRIPTIVE_ONLY"
  BY <1>1 DEF ClaimLevel
<1> QED BY <1>2 DEF Facts

\* The kinds of claim that local evidence can support.
LocalKinds ==
    {"fixture_observation", "local_live_observation", "cost_comparison", "pareto_comparison"}

\* Whatever a claim links carries fixture or local-live maturity.
LocalRefs(claim, refs) == \A r \in claim.links : refs[r] \in {"fixture", "local_live"}

\* build_decision_artifacts supports a claim only with a receipt of the maturity
\* its kind requires, and only claims of the local kinds.
LEMMA SupportNeedsReceipt ==
  ASSUME NEW claim, claim.kind \in ClaimKinds, NEW refs, LocalRefs(claim, refs),
         NEW facts, facts.level = "DESCRIPTIVE_ONLY", NEW risk,
         Disposition(claim, refs, facts, risk) = "SUPPORTED"
  PROVE  /\ \E r \in claim.links : refs[r] = RequiredMaturity(claim.kind)
         /\ claim.kind \in LocalKinds
<1>1. ClaimBlockers(claim, refs, facts, risk) = {}
  BY DEF Disposition
<1>2. \E r \in claim.links : refs[r] = RequiredMaturity(claim.kind)
  <2> SUFFICES ASSUME \A r \in claim.links : refs[r] # RequiredMaturity(claim.kind)
               PROVE  "receipt" \in ClaimBlockers(claim, refs, facts, risk)
    BY <1>1
  <2> QED BY DEF ClaimBlockers
<1>3. claim.kind \notin {"causal_effect", "generalized_effect"}
  <2> SUFFICES ASSUME claim.kind \in {"causal_effect", "generalized_effect"}
               PROVE  "adequacy" \in ClaimBlockers(claim, refs, facts, risk)
    BY <1>1
  <2> QED BY DEF ClaimBlockers
<1>4. RequiredMaturity(claim.kind) \in {"fixture", "local_live"}
  BY <1>2 DEF LocalRefs
<1>5. claim.kind \notin {"cross_model_replication", "human_calibrated_assessment",
                         "independent_validation"}
  BY <1>4 DEF RequiredMaturity
<1> QED BY <1>2, <1>3, <1>5 DEF ClaimKinds, LocalKinds

\* The ceilings of the local kinds.
LEMMA LocalCeilings ==
  ASSUME NEW kind \in LocalKinds
  PROVE  /\ Rank(CeilingFor(kind)) \in {2, 3}
         /\ Rank(CeilingFor(kind)) = 3 => RequiredMaturity(kind) = "local_live"
<1>1. CASE kind = "fixture_observation"
  <2>1. CeilingFor(kind) = "fixture_only"
    BY <1>1 DEF CeilingFor
  <2> QED BY <2>1, FirstRanks
<1>2. CASE kind # "fixture_observation"
  <2>1. CeilingFor(kind) = "local_live_only" /\ RequiredMaturity(kind) = "local_live"
    BY <1>2 DEF CeilingFor, LocalKinds, RequiredMaturity
  <2> QED BY <2>1, FirstRanks
<1> QED BY <1>1, <1>2

\* The ceiling of a brief is the highest one of a supported claim.
LEMMA CeilingIsEarned ==
  ASSUME NEW claims, NEW disposition,
         \A c \in DOMAIN claims :
            disposition[c] = "SUPPORTED" => Rank(CeilingFor(claims[c].kind)) \in {2, 3}
  PROVE  /\ Rank(SupportedCeiling(claims, disposition)) \in 1..3
         /\ SupportedCeiling(claims, disposition) = "local_live_only" =>
               \E c \in DOMAIN claims :
                  disposition[c] = "SUPPORTED" /\ Rank(CeilingFor(claims[c].kind)) = 3
<1> DEFINE supported == {c \in DOMAIN claims : disposition[c] = "SUPPORTED"}
           S == {1} \cup {Rank(CeilingFor(claims[c].kind)) : c \in supported}
<1>1. S \subseteq {1, 2, 3} /\ 1 \in S
  OBVIOUS
<1>2. 3 \in S => \E c \in DOMAIN claims :
                    disposition[c] = "SUPPORTED" /\ Rank(CeilingFor(claims[c].kind)) = 3
  OBVIOUS
<1>3. SupportedCeiling(claims, disposition) = Ceilings[Max(S)]
  BY DEF SupportedCeiling
<1> HIDE DEF S
<1>4. Max(S) \in S /\ Max(S) \in {1, 2, 3}
  <2>1. \E x \in S : \A y \in S : x >= y
    <3>1. CASE 3 \in S
      BY <1>1, <3>1
    <3>2. CASE 3 \notin S /\ 2 \in S
      BY <1>1, <3>2
    <3>3. CASE 3 \notin S /\ 2 \notin S
      BY <1>1, <3>3
    <3> QED BY <3>1, <3>2, <3>3
  <2>2. Max(S) \in S
    BY <2>1 DEF Max
  <2> QED BY <1>1, <2>2
<1>5. PICK m : m = Max(S)
  OBVIOUS
<1>6. m = 1 \/ m = 2 \/ m = 3
  BY <1>4, <1>5
<1>7. Rank(Ceilings[m]) = m
  BY <1>6, FirstRanks
<1>8. Ceilings[m] = "local_live_only" => m = 3
  BY <1>6, <1>7, FirstRanks
<1> QED BY <1>2, <1>3, <1>4, <1>5, <1>6, <1>7, <1>8

\* What create hands to its transaction.
BriefRules(claims, refs, held, brief) ==
    /\ brief.verdict \in {"PASS", "HOLD", "REJECT"}
    /\ \A c \in DOMAIN claims : brief.entries[c] = "SUPPORTED" =>
          /\ held = {}
          /\ \E r \in claims[c].links : refs[r] = RequiredMaturity(claims[c].kind)
    /\ Rank(brief.ceiling) \in 1..3
    /\ brief.ceiling = "local_live_only" =>
          /\ held = {}
          /\ \E c \in DOMAIN claims : \E r \in claims[c].links : refs[r] = "local_live"

\* The claims of a request, with what they link.
LocalClaims(claims, refs) ==
    \A c \in DOMAIN claims : claims[c].kind \in ClaimKinds /\ LocalRefs(claims[c], refs)

LEMMA BriefFollowsRules ==
  ASSUME NEW claims, NEW refs, LocalClaims(claims, refs),
         NEW facts, facts.level = "DESCRIPTIVE_ONLY", NEW risk, NEW held
  PROVE  BriefRules(claims, refs, held,
                    ApplyServiceHolds(Brief(claims, refs, facts, risk), claims, held))
<1>1. PICK d : d = [c \in DOMAIN claims |-> Disposition(claims[c], refs, facts, risk)]
  OBVIOUS
<1>2. ASSUME NEW c \in DOMAIN claims, d[c] = "SUPPORTED"
      PROVE  /\ \E r \in claims[c].links : refs[r] = RequiredMaturity(claims[c].kind)
             /\ claims[c].kind \in LocalKinds
  <2>1. claims[c].kind \in ClaimKinds /\ LocalRefs(claims[c], refs)
    BY DEF LocalClaims
  <2>2. Disposition(claims[c], refs, facts, risk) = "SUPPORTED"
    BY <1>1, <1>2
  <2>3. PICK claim : claim = claims[c]
    OBVIOUS
  <2> QED BY <2>1, <2>2, <2>3, SupportNeedsReceipt
<1>3. PICK b : b = Brief(claims, refs, facts, risk)
  OBVIOUS
<1>4. b.entries = d /\ b.ceiling = SupportedCeiling(claims, d) /\ b.verdict \in {"PASS", "HOLD", "REJECT"}
  BY <1>1, <1>3 DEF Brief
<1>5. DOMAIN b = {"entries", "ceiling", "verdict", "action"}
  BY <1>3 DEF Brief
<1>6. ASSUME NEW c \in DOMAIN claims, d[c] = "SUPPORTED"
      PROVE  /\ Rank(CeilingFor(claims[c].kind)) \in {2, 3}
             /\ Rank(CeilingFor(claims[c].kind)) = 3 =>
                   \E r \in claims[c].links : refs[r] = "local_live"
  BY <1>2, <1>6, LocalCeilings
<1>7. /\ Rank(SupportedCeiling(claims, d)) \in 1..3
      /\ SupportedCeiling(claims, d) = "local_live_only" =>
            \E c \in DOMAIN claims : \E r \in claims[c].links : refs[r] = "local_live"
  BY <1>6, CeilingIsEarned
<1>8. CASE held = {}
  <2>1. ApplyServiceHolds(b, claims, held) = b
    BY <1>8 DEF ApplyServiceHolds
  <2> QED BY <1>2, <1>3, <1>4, <1>7, <1>8, <2>1 DEF BriefRules
<1>9. CASE held # {}
  <2>1. PICK e : e = [c \in DOMAIN claims |->
                        IF b.entries[c] = "REJECTED" THEN "REJECTED" ELSE "HOLD"]
    OBVIOUS
  <2>2. \A c \in DOMAIN claims : e[c] # "SUPPORTED"
    BY <2>1
  <2>3. Rank(SupportedCeiling(claims, e)) \in 1..3 /\ SupportedCeiling(claims, e) # "local_live_only"
    BY <2>2, CeilingIsEarned
  <2>4. PICK a : a = ApplyServiceHolds(b, claims, held)
    OBVIOUS
  <2>5. /\ a.entries = e /\ a.ceiling = SupportedCeiling(claims, e)
        /\ a.verdict \in {"HOLD", "REJECT"}
    BY <1>5, <1>9, <2>1, <2>4 DEF ApplyServiceHolds
  <2> QED BY <1>3, <2>2, <2>3, <2>4, <2>5 DEF BriefRules
<1> QED BY <1>8, <1>9

-----------------------------------------------------------------------------
(***************************************************************************)
(* Published briefs.  A brief is backed at the moment it is computed; the  *)
(* receipts and the report it rests on are written once, so it is backed   *)
(* when it is stored and ever after.  That a local-live ceiling speaks     *)
(* about every analysed attempt needs both halves of the evidence chain: a *)
(* derived receipt has an output for every attempt it saw, the first one   *)
(* included, while a report that saw a retry has none for the first.  The  *)
(* two agree on the rows, so such a report has a single attempt.           *)
(***************************************************************************)

\* A chain that _derive_manifest accepted, seen against the rows as they are now.
Derived(x, chain, now) ==
    /\ chain \in Seq(AttemptRow) /\ Len(chain) \in 1..Len(now)
    /\ \A i \in 1..Len(chain) :
          /\ chain[i].status \in EndedStatuses /\ ObservedOutput(chain[i])
          /\ x \in LiveExecutions => chain[i].usage
          /\ SameEnd(chain[i], now[i])

\* A stored receipt of live evidence is of the attempts as they ended.
ReceiptRow(receipt) ==
    receipt.kind = "derived_local_live" =>
        /\ receipt.on \in LiveExecutions \cap Executions
        /\ Derived(receipt.on, receipt.chain, attempts[receipt.on])

\* What a brief about x says is backed by the receipts in stored.
Backed(x, request, brief, stored) ==
    /\ brief.verdict \in {"PASS", "HOLD", "REJECT"}
    /\ \A c \in DOMAIN request.claims : brief.entries[c] = "SUPPORTED" =>
          /\ \A r \in Linked(request) : stored[r] # None /\ stored[r].on = x
          /\ \E r \in request.claims[c].links :
                /\ stored[r] # None
                /\ ReceiptMaturity(stored[r]) = RequiredMaturity(request.claims[c].kind)
    /\ Rank(brief.ceiling) \in 1..3
    /\ brief.ceiling = "local_live_only" =>
          \E r \in ReceiptIds :
             stored[r] # None /\ stored[r].kind = "derived_local_live" /\ stored[r].on = x

TableShape ==
    /\ DOMAIN receipts = ReceiptIds /\ DOMAIN briefs = Executions
    /\ \A r \in ReceiptIds : receipts[r] # None => ReceiptRow(receipts[r])
    /\ \A x \in Executions : reports[x] # None => reports[x].facts.level = "DESCRIPTIVE_ONLY"
    /\ \A x \in Executions : briefs[x] # None =>
          /\ reports[x] # None /\ briefs[x].request \in Requests
          /\ Backed(x, briefs[x].request, briefs[x].brief, receipts)

\* What a request carries to its transaction.
Carries(handler) ==
    /\ handler.op \in {"derive", "receipt", "brief"} => handler.on \in Executions
    /\ handler.op \in {"derive", "receipt"} => handler.with \in RequestKeys
    /\ handler.op = "receipt" => Derived(handler.on, handler.saw, attempts[handler.on])
    /\ handler.op = "brief" =>
          /\ reports[handler.on] # None /\ handler.with \in Requests
          /\ Backed(handler.on, handler.with, handler.saw, receipts)

BriefInv == TableShape /\ \A h \in Handlers : Carries(handlers[h])

\* Steps on the rows of attempts let every chain that was read stand.
LEMMA RowsAlwaysMoveOn ==
  ASSUME EInv, [Next]_vars
  PROVE  \A y \in Executions : RowsMoveOn(y)
<1>1. ASSUME UNCHANGED attempts
      PROVE  \A y \in Executions : RowsMoveOn(y)
  <2>1. \A y \in Executions : Len(attempts[y]) \in Nat
    BY DEF EInv, RowTypes
  <2> QED BY <1>1, <2>1 DEF RowsMoveOn, SameEnd
<1>2. ASSUME NEW x \in Executions, Work(x)
      PROVE  \A y \in Executions : RowsMoveOn(y)
  <2>1. ASSUME NEW i \in DOMAIN attempts[x], NEW o \in Outcomes[x], Capture(x, i, o)
        PROVE  \A y \in Executions : RowsMoveOn(y)
    BY <2>1, CaptureMovesOn
  <2>2. ASSUME NEW i \in DOMAIN attempts[x], Evaluate(x, i)
        PROVE  \A y \in Executions : RowsMoveOn(y)
    BY <2>2, EvaluateMovesOn
  <2>3. ASSUME NEW i \in DOMAIN attempts[x], Retry(x, i)
        PROVE  \A y \in Executions : RowsMoveOn(y)
    BY <2>3, RetryMovesOn
  <2>4. ASSUME NEW d, Lose(d)
        PROVE  \A y \in Executions : RowsMoveOn(y)
    BY <1>1, <2>4 DEF Lose, rows
  <2> QED BY <1>2, <2>1, <2>2, <2>3, <2>4 DEF Work
<1>3. ASSUME NEW h \in Handlers, Handle(h)
      PROVE  UNCHANGED attempts
  BY <1>3 DEF Handle, AnalyzeBegin, DeriveBegin, BriefRead, AnalyzeRows, AnalyzeCommit,
     DeriveRows, DeriveCommit, BriefCommit, Abandon, rows
<1>4. CASE Custody
  <2>1. UNCHANGED attempts
    BY <1>4 DEF Custody, Upload, Reproduce, rows
  <2> QED BY <1>1, <2>1
<1>5. CASE UNCHANGED vars
  BY <1>1, <1>5 DEF vars, rows
<1> QED BY <1>1, <1>2, <1>3, <1>4, <1>5 DEF Next

\* A derived chain stays true of the rows.
LEMMA DerivedStays ==
  ASSUME EInv, EInv', NEW x \in Executions, RowsMoveOn(x), NEW chain,
         Derived(x, chain, attempts[x])
  PROVE  Derived(x, chain, attempts'[x])
<1>1. PICK now, later : now = attempts[x] /\ later = attempts'[x]
  OBVIOUS
<1>2. /\ now \in Seq(AttemptRow) /\ later \in Seq(AttemptRow)
      /\ Len(now) \in Nat /\ Len(later) \in Nat /\ Len(now) <= Len(later)
  BY <1>1 DEF EInv, RowTypes, RowsMoveOn
<1>3. Len(chain) \in 1..Len(now) /\ chain \in Seq(AttemptRow)
  BY <1>1 DEF Derived
<1>4. ASSUME NEW i \in 1..Len(chain)
      PROVE  SameEnd(chain[i], later[i])
  <2>1. i \in 1..Len(now)
    BY <1>2, <1>3
  <2>2. SameEnd(chain[i], now[i]) /\ now[i].status \in EndedStatuses
    BY <1>1 DEF Derived, SameEnd
  <2>3. SameEnd(now[i], later[i])
    BY <1>1, <2>1, <2>2 DEF RowsMoveOn
  <2> QED BY <2>2, <2>3 DEF SameEnd
<1>5. Len(chain) \in 1..Len(later)
  BY <1>2, <1>3
<1> QED BY <1>1, <1>3, <1>4, <1>5 DEF Derived

\* A backed brief stays backed as long as no receipt changes.
LEMMA BackedStays ==
  ASSUME NEW x, NEW request \in Requests, NEW brief, NEW stored, NEW later,
         DOMAIN stored = ReceiptIds, Kept(stored, later), Backed(x, request, brief, stored)
  PROVE  Backed(x, request, brief, later)
<1>1. \A r \in ReceiptIds : stored[r] # None => later[r] = stored[r]
  BY DEF Kept
<1>2. /\ Linked(request) \subseteq ReceiptIds
      /\ \A c \in DOMAIN request.claims : request.claims[c].links \subseteq ReceiptIds
  BY RequestAssumption DEF Linked, ReceiptIds
<1>3. ASSUME NEW c \in DOMAIN request.claims, brief.entries[c] = "SUPPORTED"
      PROVE  /\ \A r \in Linked(request) : later[r] # None /\ later[r].on = x
             /\ \E r \in request.claims[c].links :
                   /\ later[r] # None
                   /\ ReceiptMaturity(later[r]) = RequiredMaturity(request.claims[c].kind)
  <2>1. /\ \A r \in Linked(request) : stored[r] # None /\ stored[r].on = x
        /\ \E r \in request.claims[c].links :
              /\ stored[r] # None
              /\ ReceiptMaturity(stored[r]) = RequiredMaturity(request.claims[c].kind)
    BY <1>3 DEF Backed
  <2>2. PICK r \in request.claims[c].links :
              /\ stored[r] # None
              /\ ReceiptMaturity(stored[r]) = RequiredMaturity(request.claims[c].kind)
    BY <2>1
  <2>3. later[r] = stored[r]
    BY <1>1, <1>2, <2>2
  <2>4. \A s \in Linked(request) : later[s] = stored[s]
    BY <1>1, <1>2, <2>1
  <2> QED BY <2>1, <2>2, <2>3, <2>4
<1>4. brief.ceiling = "local_live_only" =>
         \E r \in ReceiptIds :
            later[r] # None /\ later[r].kind = "derived_local_live" /\ later[r].on = x
  BY <1>1 DEF Backed
<1> QED BY <1>3, <1>4 DEF Backed

\* What was true of a request that carries something stays true of it.
LEMMA CarriesStays ==
  ASSUME EInv, EInv', BriefInv, [Next]_vars,
         NEW h \in Handlers, handlers'[h] = handlers[h]
  PROVE  Carries(handlers[h])'
<1>1. PICK g : g = handlers[h]
  OBVIOUS
<1>2. Carries(g)
  BY <1>1 DEF BriefInv
<1>3. g.op = "receipt" => Derived(g.on, g.saw, attempts'[g.on])
  BY <1>2, RowsAlwaysMoveOn, DerivedStays DEF Carries
<1>4. g.op = "brief" => reports'[g.on] # None
  <2>1. DOMAIN reports = Executions
    BY DEF EInv
  <2> QED BY <1>2, <2>1, StepsKeep DEF Carries, Kept
<1>5. g.op = "brief" => Backed(g.on, g.with, g.saw, receipts')
  <2>1. DOMAIN receipts = ReceiptIds /\ Kept(receipts, receipts')
    BY StepsKeep DEF BriefInv, TableShape
  <2> QED BY <1>2, <2>1, BackedStays DEF Carries
<1>6. handlers'[h] = g
  BY <1>1
<1> QED BY <1>2, <1>3, <1>4, <1>5, <1>6 DEF Carries

\* A stored receipt, and a stored brief, stay what they are.
LEMMA StoredStays ==
  ASSUME EInv, EInv', BriefInv, [Next]_vars
  PROVE  /\ \A r \in ReceiptIds :
               receipts[r] # None => receipts'[r] = receipts[r] /\ ReceiptRow(receipts[r])'
         /\ \A x \in Executions : reports[x] # None => reports'[x] = reports[x]
         /\ \A x \in Executions : briefs[x] # None =>
               /\ briefs'[x] = briefs[x]
               /\ Backed(x, briefs[x].request, briefs[x].brief, receipts')
<1>1. /\ DOMAIN receipts = ReceiptIds /\ DOMAIN briefs = Executions /\ DOMAIN reports = Executions
      /\ Kept(receipts, receipts') /\ Kept(briefs, briefs') /\ Kept(reports, reports')
  BY StepsKeep DEF BriefInv, TableShape, EInv
<1>2. ASSUME NEW r \in ReceiptIds, receipts[r] # None
      PROVE  receipts'[r] = receipts[r] /\ ReceiptRow(receipts[r])'
  <2>1. receipts'[r] = receipts[r]
    BY <1>1, <1>2 DEF Kept
  <2>2. PICK s : s = receipts[r]
    OBVIOUS
  <2>3. ReceiptRow(s)
    BY <1>2, <2>2 DEF BriefInv, TableShape
  <2>4. s.kind = "derived_local_live" => Derived(s.on, s.chain, attempts'[s.on])
    BY <2>3, RowsAlwaysMoveOn, DerivedStays DEF ReceiptRow
  <2>5. receipts'[r] = s
    BY <2>1, <2>2
  <2> QED BY <2>1, <2>3, <2>4, <2>5 DEF ReceiptRow
<1>3. ASSUME NEW x \in Executions, briefs[x] # None
      PROVE  /\ briefs'[x] = briefs[x]
             /\ Backed(x, briefs[x].request, briefs[x].brief, receipts')
  <2>1. briefs'[x] = briefs[x]
    BY <1>1, <1>3 DEF Kept
  <2>2. briefs[x].request \in Requests /\ Backed(x, briefs[x].request, briefs[x].brief, receipts)
    BY <1>3 DEF BriefInv, TableShape
  <2> QED BY <1>1, <2>1, <2>2, BackedStays
<1>4. \A x \in Executions : reports[x] # None => reports'[x] = reports[x]
  BY <1>1 DEF Kept
<1> QED BY <1>2, <1>3, <1>4

\* Steps that write none of the tables a brief rests on.
LEMMA TablesStand ==
  ASSUME EInv, EInv', BriefInv, [Next]_vars, UNCHANGED <<receipts, briefs, reports>>
  PROVE  TableShape'
<1>1. \A r \in ReceiptIds : receipts'[r] # None => ReceiptRow(receipts[r])'
  BY StoredStays
<1>2. \A x \in Executions : reports'[x] # None => reports'[x].facts.level = "DESCRIPTIVE_ONLY"
  BY DEF BriefInv, TableShape
<1>3. \A x \in Executions : briefs'[x] # None =>
         /\ reports'[x] # None /\ briefs'[x].request \in Requests
         /\ Backed(x, briefs'[x].request, briefs'[x].brief, receipts')
  BY DEF BriefInv, TableShape
<1>4. DOMAIN receipts' = ReceiptIds /\ DOMAIN briefs' = Executions
  BY DEF BriefInv, TableShape
<1> QED BY <1>1, <1>2, <1>3, <1>4 DEF TableShape

\* Steps of a request that write none of the tables.
LEMMA RequestSteps ==
  ASSUME EInv, EInv', BriefInv, [Next]_vars, UNCHANGED <<receipts, briefs, reports>>,
         NEW h \in Handlers, NEW next, handlers' = [handlers EXCEPT ![h] = next],
         Carries(next)'
  PROVE  BriefInv'
<1>1. handlers'[h] = next /\ \A g \in Handlers : g # h => handlers'[g] = handlers[g]
  BY DEF EInv, HandlerFields
<1>2. \A g \in Handlers : g # h => Carries(handlers[g])'
  BY <1>1, CarriesStays
<1>3. Carries(handlers[h])'
  BY <1>1 DEF Carries
<1> QED BY <1>2, <1>3, TablesStand DEF BriefInv

\* An idle request carries nothing.
LEMMA IdleCarries ==
  ASSUME NEW h, handlers'[h] = Idle
  PROVE  Carries(handlers[h])'
<1>1. Idle.op = "idle"
  BY DEF Idle
<1> QED BY <1>1 DEF Carries

\* create, up to its transaction: the brief it computed is backed.
LEMMA BriefReadStep ==
  ASSUME EInv, EInv', BriefInv, [Next]_vars, NEW h \in Handlers, NEW x \in Executions,
         NEW request \in Requests, BriefRead(h, x, request)
  PROVE  BriefInv'
<1>1. PICK links, refs, held, brief :
         /\ links = Linked(request)
         /\ refs = [r \in links |-> ReceiptMaturity(receipts[r])]
         /\ held = {r \in links : ReceiptHeld(x, receipts[r])}
         /\ brief = ApplyServiceHolds(Brief(request.claims, refs, reports[x].facts, request.risk),
                                      request.claims, held)
  OBVIOUS
<1>2. /\ reports[x] # None /\ \A r \in links : receipts[r] # None
      /\ handlers' = [handlers EXCEPT ![h] =
            [op |-> "brief", on |-> x, with |-> request, saw |-> brief]]
      /\ UNCHANGED <<attempts, receipts, briefs, reports>>
  BY <1>1 DEF BriefRead, rows, records
<1>3. /\ links \subseteq ReceiptIds
      /\ \A c \in DOMAIN request.claims :
            request.claims[c].links \subseteq links /\ request.claims[c].kind \in ClaimKinds
  BY <1>1, RequestAssumption DEF Linked, ReceiptIds
<1>4. \A r \in links : refs[r] = ReceiptMaturity(receipts[r]) /\ refs[r] \in {"fixture", "local_live"}
  BY <1>1 DEF ReceiptMaturity
<1>5. BriefRules(request.claims, refs, held, brief)
  <2>1. LocalClaims(request.claims, refs)
    BY <1>3, <1>4 DEF LocalClaims, LocalRefs
  <2>2. reports[x].facts.level = "DESCRIPTIVE_ONLY"
    BY <1>2 DEF BriefInv, TableShape
  <2> QED BY <1>1, <2>1, <2>2, BriefFollowsRules
<1>6. held = {} => \A r \in links : receipts[r].on = x
  BY <1>1 DEF ReceiptHeld
<1>7. ASSUME NEW c \in DOMAIN request.claims, brief.entries[c] = "SUPPORTED"
      PROVE  /\ \A r \in links : receipts[r] # None /\ receipts[r].on = x
             /\ \E r \in request.claims[c].links :
                   /\ receipts[r] # None
                   /\ ReceiptMaturity(receipts[r]) = RequiredMaturity(request.claims[c].kind)
  <2>1. held = {} /\ \E r \in request.claims[c].links : refs[r] = RequiredMaturity(request.claims[c].kind)
    BY <1>5, <1>7 DEF BriefRules
  <2> QED BY <1>2, <1>3, <1>4, <1>6, <2>1
<1>8. ASSUME brief.ceiling = "local_live_only"
      PROVE  \E r \in ReceiptIds :
                receipts[r] # None /\ receipts[r].kind = "derived_local_live" /\ receipts[r].on = x
  <2>1. /\ held = {}
        /\ \E c \in DOMAIN request.claims :
              \E r \in request.claims[c].links : refs[r] = "local_live"
    BY <1>5, <1>8 DEF BriefRules
  <2>2. PICK r \in links : refs[r] = "local_live"
    BY <1>3, <2>1
  <2>3. receipts[r].kind = "derived_local_live"
    BY <1>4, <2>2 DEF ReceiptMaturity
  <2> QED BY <1>2, <1>3, <1>6, <2>1, <2>2, <2>3
<1>9. Backed(x, request, brief, receipts)
  BY <1>1, <1>5, <1>7, <1>8 DEF Backed, BriefRules
<1>10. PICK next : next = [op |-> "brief", on |-> x, with |-> request, saw |-> brief]
  OBVIOUS
<1>11. Carries(next)'
  BY <1>2, <1>9, <1>10 DEF Carries
<1> QED BY <1>2, <1>10, <1>11, RequestSteps

\* The other reads of a request.
LEMMA RequestReads ==
  ASSUME EInv, EInv', BriefInv, [Next]_vars, NEW h \in Handlers,
         \/ \E x \in Executions : AnalyzeBegin(h, x)
         \/ \E x \in Executions, r \in RequestKeys : DeriveBegin(h, x, r)
         \/ AnalyzeRows(h) \/ DeriveRows(h) \/ Abandon(h)
  PROVE  BriefInv'
<1> USE DEF rows, records
<1>1. PICK old : old = handlers[h] /\ DOMAIN old = {"op", "on", "with", "saw"} /\ Carries(old)
  BY DEF EInv, HandlerFields, BriefInv
<1>2. Carries(Idle)'
  BY DEF Carries, Idle
<1>3. PICK idle : idle = Idle
  OBVIOUS
<1>4. ASSUME handlers' = [handlers EXCEPT ![h] = Idle], UNCHANGED <<receipts, briefs, reports>>
      PROVE  BriefInv'
  <2>1. Carries(idle)'
    BY <1>2, <1>3
  <2> QED BY <1>3, <1>4, <2>1, RequestSteps
<1>5. ASSUME NEW x \in Executions, AnalyzeBegin(h, x)
      PROVE  BriefInv'
  <2>1. PICK next : next = [op |-> "analyze", on |-> x, with |-> None, saw |-> None]
    OBVIOUS
  <2>2. Carries(next)'
    BY <2>1 DEF Carries
  <2> QED BY <1>5, <2>1, <2>2, RequestSteps DEF AnalyzeBegin
<1>6. ASSUME NEW x \in Executions, NEW r \in RequestKeys, DeriveBegin(h, x, r)
      PROVE  BriefInv'
  <2>1. PICK next : next = [op |-> "derive", on |-> x, with |-> r, saw |-> None]
    OBVIOUS
  <2>2. Carries(next)'
    BY <2>1 DEF Carries
  <2> QED BY <1>6, <2>1, <2>2, RequestSteps DEF DeriveBegin
<1>7. ASSUME AnalyzeRows(h)
      PROVE  BriefInv'
  <2>1. CASE EpisodeAccepted(old.on, attempts[old.on])
    <3>1. PICK next : next = [old EXCEPT !.op = "report", !.saw = attempts[old.on]]
      OBVIOUS
    <3>2. next.op = "report"
      BY <1>1, <3>1
    <3>3. Carries(next)'
      BY <3>2 DEF Carries
    <3>4. handlers' = [handlers EXCEPT ![h] = next] /\ UNCHANGED <<receipts, briefs, reports>>
      BY <1>1, <1>7, <2>1, <3>1 DEF AnalyzeRows
    <3> QED BY <3>3, <3>4, RequestSteps
  <2>2. CASE ~EpisodeAccepted(old.on, attempts[old.on])
    BY <1>1, <1>4, <1>7, <2>2 DEF AnalyzeRows
  <2> QED BY <2>1, <2>2
<1>8. ASSUME DeriveRows(h)
      PROVE  BriefInv'
  <2>1. PICK x, chain : x = old.on /\ chain = attempts[x]
    OBVIOUS
  <2>2. x \in Executions /\ old.with \in RequestKeys
    BY <1>1, <1>8, <2>1 DEF DeriveRows, Carries
  <2>3. CASE ManifestAccepted(x, chain) /\ AttemptArtifacts(x, chain) \cap lost = {}
    <3>1. PICK next : next = [old EXCEPT !.op = "receipt", !.saw = chain]
      OBVIOUS
    <3>2. next.op = "receipt" /\ next.on = x /\ next.with = old.with /\ next.saw = chain
      BY <1>1, <2>1, <3>1
    <3>3. handlers' = [handlers EXCEPT ![h] = next] /\ UNCHANGED <<attempts, receipts, briefs, reports>>
      BY <1>1, <1>8, <2>1, <2>3, <3>1 DEF DeriveRows
    <3>4. Derived(x, chain, chain)
      <4>1. chain \in Seq(AttemptRow) /\ Len(chain) \in Nat /\ Len(chain) > 0
        BY <2>1, <2>2 DEF EInv, RowTypes
      <4>2. ASSUME NEW i \in 1..Len(chain)
            PROVE  /\ chain[i].status \in EndedStatuses /\ ObservedOutput(chain[i])
                   /\ x \in LiveExecutions => chain[i].usage
        BY <2>3, <4>1 DEF ManifestAccepted, LiveGates, Terminal, NonSuccess, EndedStatuses
      <4> QED BY <4>1, <4>2 DEF Derived, SameEnd
    <3>5. Carries(next)'
      BY <2>1, <2>2, <3>2, <3>3, <3>4 DEF Carries
    <3> QED BY <3>3, <3>5, RequestSteps
  <2>4. CASE ~(ManifestAccepted(x, chain) /\ AttemptArtifacts(x, chain) \cap lost = {})
    BY <1>1, <1>4, <1>8, <2>1, <2>4 DEF DeriveRows
  <2> QED BY <2>3, <2>4
<1>9. ASSUME Abandon(h)
      PROVE  BriefInv'
  BY <1>4, <1>9 DEF Abandon
<1> QED BY <1>5, <1>6, <1>7, <1>8, <1>9

\* Transactions: one row is written, and every other request keeps what it carries.
LEMMA RequestCommits ==
  ASSUME EInv, EInv', BriefInv, [Next]_vars, NEW h \in Handlers,
         AnalyzeCommit(h) \/ DeriveCommit(h) \/ BriefCommit(h)
  PROVE  BriefInv'
<1>1. /\ DOMAIN receipts = ReceiptIds /\ DOMAIN briefs = Executions /\ DOMAIN reports = Executions
      /\ Carries(handlers[h])
  BY DEF BriefInv, TableShape, EInv
<1>2. handlers' = [handlers EXCEPT ![h] = Idle]
  BY DEF AnalyzeCommit, DeriveCommit, BriefCommit
<1>3. \A g \in Handlers : Carries(handlers[g])'
  <2> SUFFICES ASSUME NEW g \in Handlers
               PROVE  Carries(handlers[g])'
    OBVIOUS
  <2>1. CASE g = h
    <3>1. handlers'[g] = Idle
      BY <1>2, <2>1 DEF EInv, HandlerFields
    <3> QED BY <3>1, IdleCarries
  <2>2. CASE g # h
    <3>1. handlers'[g] = handlers[g]
      BY <1>2, <2>2 DEF EInv, HandlerFields
    <3> QED BY <3>1, CarriesStays
  <2> QED BY <2>1, <2>2
<1>4. ASSUME AnalyzeCommit(h)
      PROVE  TableShape'
  <2>1. PICK x, report : /\ x = handlers[h].on
                         /\ report = [chain |-> handlers[h].saw, facts |-> Facts(handlers[h].saw)]
    OBVIOUS
  <2>2. /\ reports' = IF reports[x] = None THEN [reports EXCEPT ![x] = report] ELSE reports
        /\ UNCHANGED <<receipts, briefs>>
    BY <1>4, <2>1 DEF AnalyzeCommit, ReportInsert
  <2>3. report.facts.level = "DESCRIPTIVE_ONLY"
    BY <2>1, ReportsAreDescriptive
  <2>4. \A y \in Executions : reports'[y] = reports[y] \/ reports'[y] = report
    BY <1>1, <2>2
  <2>5. \A y \in Executions : reports'[y] # None => reports'[y].facts.level = "DESCRIPTIVE_ONLY"
    BY <2>3, <2>4 DEF BriefInv, TableShape
  <2>6. \A r \in ReceiptIds : receipts'[r] # None => ReceiptRow(receipts[r])'
    BY <2>2, StoredStays
  <2>7. \A y \in Executions : briefs'[y] # None =>
           /\ reports'[y] # None /\ briefs'[y].request \in Requests
           /\ Backed(y, briefs'[y].request, briefs'[y].brief, receipts')
    BY <2>2, StoredStays DEF BriefInv, TableShape
  <2> QED BY <1>1, <2>2, <2>5, <2>6, <2>7 DEF TableShape
<1>5. ASSUME DeriveCommit(h)
      PROVE  TableShape'
  <2>1. PICK x, id, receipt :
           /\ x = handlers[h].on /\ id = handlers[h].with
           /\ receipt = [kind |-> DerivedKind(x), on |-> x,
                         artifacts |-> AttemptArtifacts(x, handlers[h].saw),
                         chain |-> handlers[h].saw]
    OBVIOUS
  <2>2. /\ receipts' = IF receipts[id] = None THEN [receipts EXCEPT ![id] = receipt] ELSE receipts
        /\ UNCHANGED <<attempts, reports, briefs>>
    BY <1>5, <2>1 DEF DeriveCommit, ReceiptInsert, rows
  <2>3. x \in Executions /\ Derived(x, receipt.chain, attempts[x])
    BY <1>1, <1>5, <2>1 DEF DeriveCommit, Carries
  <2>4. ReceiptRow(receipt)'
    <3>1. receipt.on = x /\ (receipt.kind = "derived_local_live" => x \in LiveExecutions)
      BY <2>1 DEF DerivedKind
    <3> QED BY <2>2, <2>3, <3>1 DEF ReceiptRow
  <2>5. \A r \in ReceiptIds : receipts'[r] = receipts[r] \/ receipts'[r] = receipt
    BY <1>1, <2>2
  <2>6. \A r \in ReceiptIds : receipts'[r] # None => ReceiptRow(receipts[r])'
    <3> SUFFICES ASSUME NEW r \in ReceiptIds, receipts'[r] # None
                 PROVE  ReceiptRow(receipts[r])'
      OBVIOUS
    <3>1. CASE receipts'[r] = receipts[r]
      BY <3>1, StoredStays
    <3>2. CASE receipts'[r] = receipt
      BY <2>4, <3>2 DEF ReceiptRow
    <3> QED BY <2>5, <3>1, <3>2
  <2>7. \A y \in Executions : briefs'[y] # None =>
           /\ reports'[y] # None /\ briefs'[y].request \in Requests
           /\ Backed(y, briefs'[y].request, briefs'[y].brief, receipts')
    BY <2>2, StoredStays DEF BriefInv, TableShape
  <2>8. \A y \in Executions : reports'[y] # None => reports'[y].facts.level = "DESCRIPTIVE_ONLY"
    BY <2>2 DEF BriefInv, TableShape
  <2>9. DOMAIN receipts' = ReceiptIds
    BY <1>1, <2>2
  <2> QED BY <1>1, <2>2, <2>6, <2>7, <2>8, <2>9 DEF TableShape
<1>6. ASSUME BriefCommit(h)
      PROVE  TableShape'
  <2>1. PICK x, row : x = handlers[h].on /\ row = [request |-> handlers[h].with, brief |-> handlers[h].saw]
    OBVIOUS
  <2>2. /\ briefs' = IF briefs[x] = None THEN [briefs EXCEPT ![x] = row] ELSE briefs
        /\ UNCHANGED <<reports, receipts>>
    BY <1>6, <2>1 DEF BriefCommit
  <2>3. /\ x \in Executions /\ reports[x] # None /\ row.request \in Requests
        /\ Backed(x, row.request, row.brief, receipts)
    BY <1>1, <1>6, <2>1 DEF BriefCommit, Carries
  <2>4. \A y \in Executions : briefs'[y] = briefs[y] \/ (y = x /\ briefs'[y] = row)
    BY <1>1, <2>2
  <2>5. \A y \in Executions : briefs'[y] # None =>
           /\ reports'[y] # None /\ briefs'[y].request \in Requests
           /\ Backed(y, briefs'[y].request, briefs'[y].brief, receipts')
    <3> SUFFICES ASSUME NEW y \in Executions, briefs'[y] # None
                 PROVE  /\ reports'[y] # None /\ briefs'[y].request \in Requests
                        /\ Backed(y, briefs'[y].request, briefs'[y].brief, receipts')
      OBVIOUS
    <3>1. CASE briefs'[y] = briefs[y]
      BY <2>2, <3>1 DEF BriefInv, TableShape
    <3>2. CASE y = x /\ briefs'[y] = row
      BY <2>2, <2>3, <3>2
    <3> QED BY <2>4, <3>1, <3>2
  <2>6. \A r \in ReceiptIds : receipts'[r] # None => ReceiptRow(receipts[r])'
    BY <2>2, StoredStays
  <2>7. \A y \in Executions : reports'[y] # None => reports'[y].facts.level = "DESCRIPTIVE_ONLY"
    BY <2>2 DEF BriefInv, TableShape
  <2>8. DOMAIN briefs' = Executions
    BY <1>1, <2>2
  <2> QED BY <1>1, <2>2, <2>5, <2>6, <2>7, <2>8 DEF TableShape
<1> QED BY <1>3, <1>4, <1>5, <1>6 DEF BriefInv

\* Uploads write receipts of fixture evidence, which back no local-live ceiling.
LEMMA CustodySteps ==
  ASSUME EInv, EInv', BriefInv, [Next]_vars, Custody
  PROVE  BriefInv'
<1>1. UNCHANGED <<handlers, reports, briefs>>
  BY DEF Custody, Upload, Reproduce, rows
<1>2. \A g \in Handlers : Carries(handlers[g])'
  BY <1>1, CarriesStays
<1>3. ASSUME NEW p, NEW r, NEW s, Reproduce(p, r, s)
      PROVE  TableShape'
  BY <1>3, TablesStand DEF Reproduce
<1>4. ASSUME NEW id \in UploadIds, NEW on, NEW found, Upload(id, on, found)
      PROVE  TableShape'
  <2>1. PICK receipt : receipt = [kind |-> "fixture", on |-> on, artifacts |-> found, chain |-> None]
    OBVIOUS
  <2>2. receipts' = IF receipts[id] = None THEN [receipts EXCEPT ![id] = receipt] ELSE receipts
    BY <1>4, <2>1 DEF Upload, ReceiptInsert
  <2>3. ReceiptRow(receipt)'
    BY <2>1 DEF ReceiptRow
  <2>4. DOMAIN receipts = ReceiptIds /\ DOMAIN briefs = Executions
    BY DEF BriefInv, TableShape
  <2>5. /\ DOMAIN receipts' = ReceiptIds
        /\ \A r \in ReceiptIds : receipts'[r] = receipts[r] \/ receipts'[r] = receipt
    BY <2>2, <2>4
  <2>6. \A r \in ReceiptIds : receipts'[r] # None => ReceiptRow(receipts[r])'
    <3> SUFFICES ASSUME NEW r \in ReceiptIds, receipts'[r] # None
                 PROVE  ReceiptRow(receipts[r])'
      OBVIOUS
    <3>1. CASE receipts'[r] = receipts[r]
      BY <3>1, StoredStays
    <3>2. CASE receipts'[r] = receipt
      BY <2>3, <3>2 DEF ReceiptRow
    <3> QED BY <2>5, <3>1, <3>2
  <2>7. \A y \in Executions : briefs'[y] # None =>
           /\ reports'[y] # None /\ briefs'[y].request \in Requests
           /\ Backed(y, briefs'[y].request, briefs'[y].brief, receipts')
    BY <1>1, StoredStays DEF BriefInv, TableShape
  <2>8. \A y \in Executions : reports'[y] # None => reports'[y].facts.level = "DESCRIPTIVE_ONLY"
    BY <1>1 DEF BriefInv, TableShape
  <2> QED BY <1>1, <2>4, <2>5, <2>6, <2>7, <2>8 DEF TableShape
<1>5. TableShape'
  BY <1>3, <1>4 DEF Custody
<1> QED BY <1>2, <1>5 DEF BriefInv

LEMMA BriefStep ==
  ASSUME EInv, EInv', BriefInv, [Next]_vars
  PROVE  BriefInv'
<1>1. ASSUME UNCHANGED <<handlers, receipts, briefs, reports>>
      PROVE  BriefInv'
  <2>1. \A g \in Handlers : Carries(handlers[g])'
    BY <1>1, CarriesStays
  <2> QED BY <1>1, <2>1, TablesStand DEF BriefInv
<1>2. ASSUME NEW x \in Executions, Work(x)
      PROVE  BriefInv'
  <2>1. UNCHANGED <<handlers, receipts, briefs, reports>>
    BY <1>2 DEF Work, Capture, Evaluate, Retry, Lose, records
  <2> QED BY <1>1, <2>1
<1>3. ASSUME NEW h \in Handlers, Handle(h)
      PROVE  BriefInv'
  BY <1>3, BriefReadStep, RequestReads, RequestCommits DEF Handle
<1>4. CASE UNCHANGED vars
  BY <1>1, <1>4 DEF vars, records
<1> QED BY <1>2, <1>3, <1>4, CustodySteps DEF Next

-----------------------------------------------------------------------------
(* The shapes of the rows.                                                 *)

Ops == {"idle", "analyze", "report", "derive", "receipt", "brief"}

\* An attempt is evaluated at most once and retries an earlier one.
RowOK(a, i) == a.evaluations \in 0..1 /\ a.prev \in 0..(i - 1)

ChainOK(chain) == Len(chain) <= MaxAttempts /\ \A i \in 1..Len(chain) : RowOK(chain[i], i)

RowsOK ==
    /\ status \in [Executions -> {"queued", "completed"}]
    /\ \A x \in Executions : ChainOK(attempts[x])
    /\ IsFiniteSet(lost) /\ Cardinality(lost) <= MaxLost
    /\ \A h \in Handlers : handlers[h].op \in Ops

LEMMA RowsStart == Init => RowsOK
<1> SUFFICES ASSUME Init PROVE RowsOK
  OBVIOUS
<1>1. PICK q : q = Queued(0)
  OBVIOUS
<1>2. ChainOK(<<q>>)
  <2>1. RowOK(q, 1)
    BY <1>1 DEF Queued, RowOK
  <2> QED BY <2>1, BoundAssumption DEF ChainOK
<1>3. IsFiniteSet({}) /\ Cardinality({}) = 0
  BY FS_EmptySet
<1>4. \A h \in Handlers : handlers[h].op = "idle"
  BY DEF Init, Idle
<1> QED BY <1>1, <1>2, <1>3, <1>4, BoundAssumption DEF Init, RowsOK, Ops

\* Only the chain of one execution changes.
LEMMA OneChain ==
  ASSUME EInv, RowsOK, NEW x \in Executions, NEW chain, ChainOK(chain),
         attempts' = [attempts EXCEPT ![x] = chain],
         status' = status \/ \E s \in {"queued", "completed"} : status' = [status EXCEPT ![x] = s],
         UNCHANGED <<lost, handlers>>
  PROVE  RowsOK'
<1>1. \A y \in Executions : attempts'[y] = attempts[y] \/ attempts'[y] = chain
  BY DEF EInv, RowTypes
<1>2. \A y \in Executions : ChainOK(attempts'[y])
  BY <1>1 DEF RowsOK
<1> QED BY <1>2 DEF RowsOK

LEMMA WorkKeepsRows ==
  ASSUME EInv, RowsOK, NEW x \in Executions, Work(x)
  PROVE  RowsOK'
<1>1. PICK old : /\ old = attempts[x] /\ old \in Seq(AttemptRow) /\ ChainOK(old)
                 /\ Len(old) \in Nat /\ DOMAIN old = 1..Len(old)
  BY DEF EInv, RowTypes, RowsOK
<1>2. ASSUME NEW i \in DOMAIN old, NEW new, RowOK(new, i)
      PROVE  ChainOK([old EXCEPT ![i] = new])
  <2>1. PICK chain : chain = [old EXCEPT ![i] = new]
    OBVIOUS
  <2>2. Len(chain) = Len(old) /\ \A j \in 1..Len(old) : chain[j] = IF j = i THEN new ELSE old[j]
    BY <1>1, <2>1
  <2> QED BY <1>1, <1>2, <2>1, <2>2 DEF ChainOK
<1>3. ASSUME NEW i \in DOMAIN attempts[x], NEW o \in Outcomes[x], Capture(x, i, o)
      PROVE  RowsOK'
  <2>1. o \in AttemptRow /\ old[i] \in AttemptRow /\ RowOK(old[i], i) /\ i \in DOMAIN old
    BY <1>1, <1>3, OutcomeAssumption DEF ChainOK
  <2>2. PICK new : new = [o EXCEPT !.prev = old[i].prev, !.evaluations = 0]
    OBVIOUS
  <2>3. RowOK(new, i)
    BY <2>1, <2>2 DEF RowOK, AttemptRow
  <2>4. attempts' = [attempts EXCEPT ![x] = [old EXCEPT ![i] = new]] /\ UNCHANGED <<status, lost, handlers>>
    BY <1>1, <1>3, <2>2 DEF Capture
  <2>5. PICK chain : chain = [old EXCEPT ![i] = new]
    OBVIOUS
  <2>6. ChainOK(chain)
    BY <1>2, <2>1, <2>3, <2>5
  <2> QED BY <2>4, <2>5, <2>6, OneChain
<1>4. ASSUME NEW i \in DOMAIN attempts[x], Evaluate(x, i)
      PROVE  RowsOK'
  <2>1. old[i] \in AttemptRow /\ RowOK(old[i], i) /\ i \in DOMAIN old
    BY <1>1, <1>4 DEF ChainOK
  <2>2. PICK new : new = [old[i] EXCEPT !.evaluations = 1]
    OBVIOUS
  <2>3. RowOK(new, i)
    BY <2>1, <2>2 DEF RowOK, AttemptRow
  <2>4. /\ attempts' = [attempts EXCEPT ![x] = [old EXCEPT ![i] = new]]
        /\ UNCHANGED <<lost, handlers>>
        /\ status' = status \/ status' = [status EXCEPT ![x] = "completed"]
    BY <1>1, <1>4, <2>2 DEF Evaluate
  <2>5. PICK chain : chain = [old EXCEPT ![i] = new]
    OBVIOUS
  <2>6. ChainOK(chain)
    BY <1>2, <2>1, <2>3, <2>5
  <2> QED BY <2>4, <2>5, <2>6, OneChain
<1>5. ASSUME NEW i \in DOMAIN attempts[x], Retry(x, i)
      PROVE  RowsOK'
  <2>1. i \in 1..Len(old) /\ Len(old) < MaxAttempts
    BY <1>1, <1>5 DEF Retry
  <2>2. PICK chain : chain = Append(old, Queued(i))
    OBVIOUS
  <2>3. /\ attempts' = [attempts EXCEPT ![x] = chain] /\ UNCHANGED <<lost, handlers>>
        /\ status' = [status EXCEPT ![x] = "queued"]
    BY <1>1, <1>5, <2>2 DEF Retry
  <2>4. ChainOK(chain)
    <3>1. PICK n \in Nat : n = Len(old)
      BY <1>1
    <3>2. PICK q : q = Queued(i)
      OBVIOUS
    <3>3. /\ Len(chain) = n + 1 /\ chain[n + 1] = q
          /\ \A j \in 1..n : chain[j] = old[j]
      BY <1>1, <2>2, <3>1, <3>2
    <3>4. q.evaluations = 0 /\ q.prev = i
      BY <3>2 DEF Queued
    <3>5. RowOK(q, n + 1)
      BY <2>1, <3>1, <3>4 DEF RowOK
    <3>6. \A j \in 1..n + 1 : j \in 1..n \/ j = n + 1
      OBVIOUS
    <3>7. \A j \in 1..n : RowOK(old[j], j)
      BY <1>1, <3>1 DEF ChainOK
    <3>8. \A j \in 1..n + 1 : RowOK(chain[j], j)
      BY <3>3, <3>5, <3>6, <3>7, Zenon
    <3>9. n + 1 <= MaxAttempts
      BY <2>1, <3>1, BoundAssumption
    <3> QED BY <3>3, <3>8, <3>9 DEF ChainOK
  <2> QED BY <2>3, <2>4, OneChain
<1>6. ASSUME NEW d, Lose(d)
      PROVE  RowsOK'
  <2>1. Cardinality(lost) < MaxLost /\ lost' = lost \cup {d} /\ UNCHANGED <<status, attempts, handlers>>
    BY <1>6 DEF Lose, rows
  <2>2. PICK n \in Nat : n = Cardinality(lost)
    BY FS_CardinalityType DEF RowsOK
  <2>3. IsFiniteSet(lost') /\ (Cardinality(lost') = n \/ Cardinality(lost') = n + 1)
    <3>1. IsFiniteSet(lost)
      BY DEF RowsOK
    <3>2. CASE d \in lost
      <4>1. lost' = lost
        BY <2>1, <3>2
      <4> QED BY <2>2, <3>1, <4>1
    <3>3. CASE d \notin lost
      BY <2>1, <2>2, <3>1, <3>3, FS_AddElement
    <3> QED BY <3>2, <3>3
  <2>4. Cardinality(lost') <= MaxLost
    BY <2>1, <2>2, <2>3, BoundAssumption
  <2> QED BY <2>1, <2>3, <2>4 DEF RowsOK
<1> QED BY <1>3, <1>4, <1>5, <1>6 DEF Work

LEMMA RowsStep ==
  ASSUME EInv, RowsOK, [Next]_vars
  PROVE  RowsOK'
<1> USE DEF rows, records
<1>1. ASSUME NEW h \in Handlers, NEW next, handlers' = [handlers EXCEPT ![h] = next],
             next.op \in Ops, UNCHANGED <<status, attempts>>,
             lost' = lost \/ \E d : lost' = lost \ {d}
      PROVE  RowsOK'
  <2>1. \A g \in Handlers : handlers'[g].op \in Ops
    <3>1. \A g \in Handlers : handlers'[g] = handlers[g] \/ handlers'[g] = next
      BY <1>1 DEF EInv, HandlerFields
    <3> QED BY <1>1, <3>1 DEF RowsOK
  <2>2. IsFiniteSet(lost') /\ Cardinality(lost') <= MaxLost
    <3>1. PICK L, K : L = lost /\ K = lost'
      OBVIOUS
    <3>2. IsFiniteSet(L) /\ K \subseteq L /\ Cardinality(L) <= MaxLost
      BY <1>1, <3>1 DEF RowsOK
    <3>3. IsFiniteSet(K) /\ Cardinality(K) <= Cardinality(L)
      BY <3>2, FS_Subset
    <3>4. Cardinality(K) \in Nat /\ Cardinality(L) \in Nat
      BY <3>2, <3>3, FS_CardinalityType
    <3>5. PICK k \in Nat, l \in Nat : k = Cardinality(K) /\ l = Cardinality(L)
      BY <3>4
    <3>6. k <= MaxLost
      BY <3>2, <3>3, <3>5, BoundAssumption
    <3> QED BY <3>1, <3>3, <3>5, <3>6
  <2> QED BY <1>1, <2>1, <2>2 DEF RowsOK
<1>2. ASSUME UNCHANGED <<status, attempts, lost, handlers>>
      PROVE  RowsOK'
  BY <1>2 DEF RowsOK
<1>3. PICK idle : idle = Idle
  OBVIOUS
<1>a. idle.op \in Ops
  BY <1>3 DEF Idle, Ops
<1>4. ASSUME NEW h \in Handlers, Handle(h)
      PROVE  RowsOK'
  <2>1. ASSUME NEW x \in Executions, AnalyzeBegin(h, x)
        PROVE  RowsOK'
    <3>1. PICK next : next = [op |-> "analyze", on |-> x, with |-> None, saw |-> None]
      OBVIOUS
    <3>b. next.op \in Ops
      BY <3>1 DEF Ops
    <3> QED BY <1>1, <2>1, <3>1, <3>b DEF AnalyzeBegin
  <2>2. ASSUME NEW x \in Executions, NEW r \in RequestKeys, DeriveBegin(h, x, r)
        PROVE  RowsOK'
    <3>1. PICK next : next = [op |-> "derive", on |-> x, with |-> r, saw |-> None]
      OBVIOUS
    <3>b. next.op \in Ops
      BY <3>1 DEF Ops
    <3> QED BY <1>1, <2>2, <3>1, <3>b DEF DeriveBegin
  <2>3. ASSUME NEW x \in Executions, NEW request \in Requests, BriefRead(h, x, request)
        PROVE  RowsOK'
    <3>1. PICK brief : handlers' = [handlers EXCEPT ![h] =
                [op |-> "brief", on |-> x, with |-> request, saw |-> brief]]
      BY <2>3 DEF BriefRead
    <3>2. PICK next : next = [op |-> "brief", on |-> x, with |-> request, saw |-> brief]
      OBVIOUS
    <3>b. next.op \in Ops
      BY <3>2 DEF Ops
    <3> QED BY <1>1, <2>3, <3>1, <3>2, <3>b DEF BriefRead
  <2>4. ASSUME AnalyzeRows(h) \/ DeriveRows(h)
        PROVE  RowsOK'
    <3>1. PICK next, other : /\ next = [handlers[h] EXCEPT !.op = "report", !.saw = attempts[handlers[h].on]]
                             /\ other = [handlers[h] EXCEPT !.op = "receipt", !.saw = attempts[handlers[h].on]]
      OBVIOUS
    <3>2. next.op = "report" /\ other.op = "receipt"
      BY <3>1 DEF EInv, HandlerFields
    <3>3. /\ \E new \in {next, other, idle} : handlers' = [handlers EXCEPT ![h] = new]
          /\ UNCHANGED <<status, attempts, lost>>
      BY <1>3, <2>4, <3>1 DEF AnalyzeRows, DeriveRows
    <3> QED BY <1>1, <1>a, <3>2, <3>3 DEF Ops
  <2>5. ASSUME AnalyzeCommit(h)
        PROVE  RowsOK'
    <3>1. lost' = lost \/ \E d : lost' = lost \ {d}
      BY <2>5 DEF AnalyzeCommit
    <3> QED BY <1>1, <1>3, <1>a, <2>5, <3>1 DEF AnalyzeCommit
  <2>6. ASSUME DeriveCommit(h) \/ BriefCommit(h) \/ Abandon(h)
        PROVE  RowsOK'
    BY <1>1, <1>3, <1>a, <2>6 DEF DeriveCommit, BriefCommit, Abandon
  <2> QED BY <1>4, <2>1, <2>2, <2>3, <2>4, <2>5, <2>6 DEF Handle
<1>5. CASE Custody
  <2>1. UNCHANGED <<status, attempts, lost, handlers>>
    BY <1>5 DEF Custody, Upload, Reproduce
  <2> QED BY <1>2, <2>1
<1>6. CASE UNCHANGED vars
  BY <1>2, <1>6 DEF vars
<1> QED BY <1>4, <1>5, <1>6, WorkKeepsRows DEF Next

-----------------------------------------------------------------------------
\* A live receipt and a report of one execution: the report has one attempt, and
\* it reported its usage.
LEMMA LiveReportsUsage ==
  ASSUME NEW x \in LiveExecutions, NEW now \in Seq(AttemptRow), NEW chain, NEW report,
         Derived(x, chain, now), Settled(report, now)
  PROVE  \A i \in DOMAIN report : LiveGates(report[i])
<1>1. /\ Len(now) \in Nat /\ Len(chain) \in 1..Len(now) /\ Len(report) \in 1..Len(now)
      /\ report \in Seq(AttemptRow) /\ DOMAIN report = 1..Len(report)
  BY DEF Derived, Settled
<1>2. PICK m, n : m = Len(chain) /\ n = Len(report) /\ m \in Nat \ {0} /\ n \in Nat \ {0}
  <2>1. PICK m, n : m = Len(chain) /\ n = Len(report)
    OBVIOUS
  <2>2. m \in Nat \ {0} /\ n \in Nat \ {0}
    BY <1>1, <2>1
  <2> QED BY <2>1, <2>2
<1>3. 1 \in 1..m /\ 1 \in 1..n
  BY <1>2
<1>4. ObservedOutput(chain[1]) /\ chain[1].usage /\ SameEnd(chain[1], now[1])
  BY <1>2, <1>3 DEF Derived
<1>5. SameEnd(report[1], now[1])
  BY <1>2, <1>3 DEF Settled
<1>6. ObservedOutput(report[1]) /\ report[1].usage
  BY <1>4, <1>5 DEF SameEnd, ObservedOutput
<1>7. n = 1
  <2> SUFFICES ASSUME n # 1
               PROVE  FALSE
    OBVIOUS
  <2>1. 1 \in 1..(n - 1)
    BY <1>2
  <2> QED BY <1>2, <1>6, <2>1 DEF Settled
<1> QED BY <1>1, <1>2, <1>6, <1>7 DEF LiveGates

\* services_v1/decision, analysis/claims: whatever retries ran, artifacts were
\* lost and requests raced between its reads and its insert, a published brief
\* supports a claim only with stored receipts of its own execution, and reaches
\* local-live only where every analysed attempt reported provider usage.
THEOREM BriefsAreBacked == Spec => []BriefIsBacked
<1>1. Init => BriefInv
  <2> SUFFICES ASSUME Init PROVE BriefInv
    OBVIOUS
  <2>1. TableShape
    BY DEF Init, TableShape
  <2>2. \A h \in Handlers : handlers[h].op = "idle"
    BY DEF Init, Idle
  <2> QED BY <2>1, <2>2 DEF BriefInv, Carries
<1>2. EInv /\ EInv' /\ BriefInv /\ [Next]_vars => BriefInv'
  BY BriefStep
<1>3. EInv /\ RowsOK /\ [Next]_vars => RowsOK'
  BY RowsStep
<1>4. EInv /\ RowsOK /\ BriefInv => BriefIsBacked
  <2> SUFFICES ASSUME EInv, RowsOK, BriefInv
               PROVE  BriefIsBacked
    OBVIOUS
  <2>1. TypeOK
    <3>1. ASSUME NEW x \in Executions
          PROVE  /\ Len(attempts[x]) \in 1..MaxAttempts
                 /\ \A i \in DOMAIN attempts[x] :
                       /\ attempts[x][i].evaluations \in 0..1
                       /\ attempts[x][i].prev \in 0..(i - 1)
      <4>1. /\ attempts[x] \in Seq(AttemptRow) /\ Len(attempts[x]) > 0
            /\ Len(attempts[x]) \in Nat /\ DOMAIN attempts[x] = 1..Len(attempts[x])
        BY DEF EInv, RowTypes
      <4>2. ChainOK(attempts[x])
        BY DEF RowsOK
      <4>3. Len(attempts[x]) \in 1..MaxAttempts
        BY <4>1, <4>2, BoundAssumption DEF ChainOK
      <4> QED BY <4>1, <4>2, <4>3 DEF ChainOK, RowOK
    <3>2. \A x \in Executions : briefs[x] # None => briefs[x].brief.verdict \in {"PASS", "HOLD", "REJECT"}
      BY DEF BriefInv, TableShape, Backed
    <3> QED BY <3>1, <3>2 DEF RowsOK, Ops, TypeOK
  <2>2. ASSUME NEW x \in Executions, briefs[x] # None
        PROVE  Backed(x, briefs[x].request, briefs[x].brief, receipts) /\ reports[x] # None
    BY <2>2 DEF BriefInv, TableShape
  <2>3. ClaimsAreBacked
    BY <2>2 DEF ClaimsAreBacked, Backed
  <2>4. CeilingIsAttainable
    <3> SUFFICES ASSUME NEW x \in Executions, briefs[x] # None
                 PROVE  /\ Rank(briefs[x].brief.ceiling) <= Rank("local_live_only")
                        /\ briefs[x].brief.ceiling = "local_live_only" =>
                              /\ x \in LiveExecutions
                              /\ \A i \in DOMAIN reports[x].chain : LiveGates(reports[x].chain[i])
      BY DEF CeilingIsAttainable
    <3>1. Backed(x, briefs[x].request, briefs[x].brief, receipts) /\ reports[x] # None
      BY <2>2
    <3>2. Rank(briefs[x].brief.ceiling) \in 1..3
      BY <3>1 DEF Backed
    <3>3. ASSUME briefs[x].brief.ceiling = "local_live_only"
          PROVE  /\ x \in LiveExecutions
                 /\ \A i \in DOMAIN reports[x].chain : LiveGates(reports[x].chain[i])
      <4>1. PICK r \in ReceiptIds : /\ receipts[r] # None /\ receipts[r].on = x
                                    /\ receipts[r].kind = "derived_local_live"
        BY <3>1, <3>3 DEF Backed
      <4>2. ReceiptRow(receipts[r])
        BY <4>1 DEF BriefInv, TableShape
      <4>3. x \in LiveExecutions /\ Derived(x, receipts[r].chain, attempts[x])
        BY <4>1, <4>2 DEF ReceiptRow
      <4>4. Settled(reports[x].chain, attempts[x]) /\ attempts[x] \in Seq(AttemptRow)
        BY <3>1 DEF EInv, StoredShape, RowTypes
      <4>5. PICK now, chain, report : /\ now = attempts[x] /\ chain = receipts[r].chain
                                      /\ report = reports[x].chain
        OBVIOUS
      <4>6. \A i \in DOMAIN report : LiveGates(report[i])
        BY <4>3, <4>4, <4>5, LiveReportsUsage
      <4> QED BY <4>3, <4>5, <4>6
    <3>4. Rank(briefs[x].brief.ceiling) <= Rank("local_live_only")
      BY <3>2, FirstRanks
    <3> QED BY <3>3, <3>4
  <2> QED BY <2>1, <2>3, <2>4 DEF BriefIsBacked
<1> QED BY <1>1, <1>2, <1>3, <1>4, RowsStart, EvidenceStarts, EvidenceStep, PTL DEF Spec
=============================================================================
