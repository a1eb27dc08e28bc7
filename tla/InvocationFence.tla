-------------------------- MODULE InvocationFence --------------------------
(***************************************************************************)
(* The provider boundary of one execution: the invocation records and      *)
(* budget reservations that execution_v1/fenced_worker.py keeps around     *)
(* every external call, so that after crashes and reclaims the database    *)
(* still says what may have happened outside it.                           *)
(*                                                                         *)
(* The job table appears as far as the fence reads it (JobLease has the    *)
(* rest): a lease is live until it expires, and an expired running job     *)
(* may be reclaimed and leased again under the next generation.  "closed"  *)
(* stands for the job statuses failed and cancelled.  Every database       *)
(* transaction is one step; a worker may stall or crash between any two.   *)
(***************************************************************************)
EXTENDS Integers, FiniteSetsExt, Sequences

CONSTANTS
    Attempts,        \* attempts of the execution, one attempt job each
    Workers,         \* processes running the fenced DurableWorker
    MaxGenerations,  \* MAX_LEASE_GENERATIONS
    RequestIds,      \* provider request identities, one compatible namespace
    Digests,         \* digests of the results providers return
    ReserveCost,     \* budget.max_cost_usd of an attempt
    MaxTotalCost,    \* aggregate_budget.max_total_cost_usd
    MaxReservations, \* aggregate_budget.max_attempts
    MaxCancelCalls,  \* overlapping cancel_attempt calls of one worker
    Maintenance,     \* whether anyone calls release, expire, reconcile_stranded
    NoRequest,       \* a NULL provider_request_id
    NoDigest,        \* a NULL provider_result_digest
    NoCost,          \* a NULL actual_cost_usd
    NoAttempt        \* a worker without a lease

Generations == 1..MaxGenerations

ASSUME FenceAssumption ==
    /\ IsFiniteSet(Attempts)
    /\ MaxGenerations \in Nat \ {0}
    /\ ReserveCost \in Nat
    /\ MaxTotalCost \in Nat
    /\ MaxReservations \in Nat \ {0}
    /\ MaxCancelCalls \in Nat
    /\ Maintenance \in BOOLEAN
    /\ NoRequest \notin RequestIds
    /\ NoDigest \notin Digests
    /\ NoCost \notin Nat
    /\ NoAttempt \notin Attempts

VARIABLES
    job,     \* the attempt job of each attempt
    inv,     \* invocation_records, by attempt and generation
    ledger,  \* usage_ledger with budget_reservations, in order of insertion
    worker   \* what each process holds and how far it is

vars == <<job, inv, ledger, worker>>

-----------------------------------------------------------------------------
(***************************************************************************)
(* Rows.                                                                   *)
(***************************************************************************)
JobRows ==
    [status : {"queued", "running", "completed", "closed"},
     gen : 0..MaxGenerations,
     live : BOOLEAN]

CancelRank(state) ==
    CASE state = "not_requested" -> 0
      [] state = "requested" -> 1
      [] state = "dispatched" -> 2
      [] OTHER -> 3

TerminalCancels == {"acknowledged", "unknown"}
CancelStates == {"not_requested", "requested", "dispatched"} \cup TerminalCancels

InvocationRows ==
    [admission : {"absent", "current", "stale", "duplicate"},
     side : {"not_started", "possible", "observed", "reconciled", "ambiguous"},
     usage : {"not_observed", "observed", "reconciled", "unknown", "disputed"},
     dispatched : BOOLEAN,                \* dispatch_started_at is set
     cancel : CancelStates,
     request : RequestIds \cup {NoRequest},
     digest : Digests \cup {NoDigest}]

AbsentInvocation ==
    [admission |-> "absent", side |-> "not_started", usage |-> "not_observed",
     dispatched |-> FALSE, cancel |-> "not_requested",
     request |-> NoRequest, digest |-> NoDigest]
NewInvocation == [AbsentInvocation EXCEPT !.admission = "current"]

Settled == {"committed", "released", "expired"}
Unresolved == {"reserved", "unknown_usage", "disputed"}
ZeroCost == {"released", "expired"}

ReservationRows ==
    [state : Settled \cup Unresolved,
     bound : 0..MaxGenerations,           \* generation of invocation_id, 0 NULL
     cost : (0..ReserveCost) \cup {NoCost}]

\* pc is the next statement of run_lease; row is the reservation in use.
ActivePcs == {"begun", "unreserved", "reserved", "dispatched", "observed",
              "failing", "refused", "admitted", "reconciled"}
ExitPcs == {"lost", "settling", "syncing"}
WorkerStates ==
    [pc : {"idle", "claimed"} \cup ActivePcs \cup ExitPcs,
     attempt : Attempts \cup {NoAttempt},
     gen : 0..MaxGenerations,
     row : 0..MaxGenerations,
     calls : 0..MaxCancelCalls]

IdleWorker == [pc |-> "idle", attempt |-> NoAttempt, gen |-> 0, row |-> 0, calls |-> 0]

Active(w) == worker[w].pc \in ActivePcs
Mine(w) == <<worker[w].attempt, worker[w].gen>>
Invocation(w) == inv[Mine(w)]
IsCurrent(w) == Invocation(w).admission = "current"

\* The worker's lease still stands in the job table and has not expired.
OwnsLive(w) ==
    LET j == job[worker[w].attempt]
    IN  j.status = "running" /\ j.gen = worker[w].gen /\ j.live

Goto(w, pc) == worker' = [worker EXCEPT ![w].pc = pc]

Init ==
    /\ job = [a \in Attempts |-> [status |-> "queued", gen |-> 0, live |-> FALSE]]
    /\ inv = [x \in Attempts \X Generations |-> AbsentInvocation]
    /\ ledger = [a \in Attempts |-> << >>]
    /\ worker = [w \in Workers |-> IdleWorker]

-----------------------------------------------------------------------------
(***************************************************************************)
(* The job table around the fence.                                         *)
(***************************************************************************)
Claim(w, a) ==
    /\ worker[w].pc = "idle"
    /\ job[a].status = "queued"
    /\ job' = [job EXCEPT ![a] = [status |-> "running", gen |-> @.gen + 1, live |-> TRUE]]
    /\ worker' = [worker EXCEPT ![w] =
                    [IdleWorker EXCEPT !.pc = "claimed", !.attempt = a, !.gen = job[a].gen + 1]]
    /\ UNCHANGED <<inv, ledger>>

ExpireLease(a) ==
    /\ job[a].status = "running"
    /\ job[a].live
    /\ job' = [job EXCEPT ![a].live = FALSE]
    /\ UNCHANGED <<inv, ledger, worker>>

Reclaim(a) ==
    /\ job[a].status = "running"
    /\ ~ job[a].live
    /\ job' = [job EXCEPT ![a].status =
                    IF job[a].gen < MaxGenerations THEN "queued" ELSE "closed"]
    /\ UNCHANGED <<inv, ledger, worker>>

\* The process dies, or begin refuses a lease that is no longer live.
Crash(w) ==
    /\ worker[w].pc # "idle"
    /\ worker' = [worker EXCEPT ![w] = IdleWorker]
    /\ UNCHANGED <<job, inv, ledger>>

\* The aggregate deadline has passed: the job fails before any invocation.
HoldDeadline(w) ==
    /\ worker[w].pc = "claimed"
    /\ job' = IF OwnsLive(w)
              THEN [job EXCEPT ![worker[w].attempt].status = "closed"] ELSE job
    /\ worker' = [worker EXCEPT ![w] = IdleWorker]
    /\ UNCHANGED <<inv, ledger>>

-----------------------------------------------------------------------------
(***************************************************************************)
(* begin: the new generation's row, and every current row of an earlier    *)
(* generation made stale in the same transaction.                          *)
(***************************************************************************)
\* Mutant: the earlier generation is left current.
BeginBeside(w) ==
    /\ worker[w].pc = "claimed"
    /\ OwnsLive(w)
    /\ inv' = [inv EXCEPT ![Mine(w)] = NewInvocation]
    /\ Goto(w, "begun")
    /\ UNCHANGED <<job, ledger>>

\* A row whose generation has ended: what may have been sent is ambiguous.
Ambiguous(side) == IF side = "not_started" THEN "not_started" ELSE "ambiguous"

Begin(w) ==
    /\ worker[w].pc = "claimed"
    /\ OwnsLive(w)
    /\ inv' = [x \in Attempts \X Generations |->
                 IF x = Mine(w) THEN NewInvocation
                 ELSE IF x[1] = worker[w].attempt /\ inv[x].admission = "current"
                 THEN [inv[x] EXCEPT !.admission = "stale", !.side = Ambiguous(@)]
                 ELSE inv[x]]
    /\ Goto(w, "begun")
    /\ UNCHANGED <<job, ledger>>

(***************************************************************************)
(* _reserve_once: the attempt's latest ledger row is used whatever its     *)
(* state and generation; otherwise a row is reserved, in a second          *)
(* transaction, within the aggregate budget, and bound to whichever        *)
(* invocation of the attempt is current then.                              *)
(***************************************************************************)
LatestForAttempt(w) ==
    LET rows == ledger[worker[w].attempt]
    IN  /\ worker[w].pc = "begun"
        /\ worker' = [worker EXCEPT ![w].pc = IF rows = << >> THEN "unreserved" ELSE "reserved",
                                    ![w].row = Len(rows)]
        /\ UNCHANGED <<job, inv, ledger>>

Charge(row) == IF row.cost # NoCost THEN row.cost ELSE ReserveCost

\* Mutant: unknown usage is dropped from the aggregate like a release.
ChargedRowsForgetful(a) ==
    {i \in DOMAIN ledger[a] : ledger[a][i].state \notin ZeroCost \cup {"unknown_usage"}}

\* Rows that count against the aggregate budget.
ChargedRows(a) == {i \in DOMAIN ledger[a] : ledger[a][i].state \notin ZeroCost}

Charged == {x \in Attempts \X Generations : x[2] \in ChargedRows(x[1])}
TotalCharge == MapThenSumSet(LAMBDA x : Charge(ledger[x[1]][x[2]]), Charged)

CurrentGeneration(a) ==
    IF \E g \in Generations : inv[<<a, g>>].admission = "current"
    THEN CHOOSE g \in Generations : inv[<<a, g>>].admission = "current"
    ELSE 0

ReserveWithAggregate(w) ==
    LET a == worker[w].attempt
    IN  /\ worker[w].pc = "unreserved"
        /\ Cardinality(Charged) < MaxReservations
        /\ TotalCharge + ReserveCost <= MaxTotalCost
        /\ ledger' = [ledger EXCEPT ![a] =
              Append(@, [state |-> "reserved", bound |-> CurrentGeneration(a), cost |-> NoCost])]
        /\ worker' = [worker EXCEPT ![w].pc = "reserved", ![w].row = Len(ledger[a]) + 1]
        /\ UNCHANGED <<job, inv>>

-----------------------------------------------------------------------------
(***************************************************************************)
(* mark_dispatch_started, the last step before the adapter is called: the  *)
(* generation must be current and no reservation bound to it settled.      *)
(***************************************************************************)
BoundTo(a, g) == {i \in DOMAIN ledger[a] : ledger[a][i].bound = g}

\* Mutant: the bound reservations are not read.
MarkDispatchUnchecked(w) ==
    /\ worker[w].pc = "reserved"
    /\ IsCurrent(w)
    /\ Invocation(w).side \in {"not_started", "possible"}
    /\ inv' = [inv EXCEPT ![Mine(w)].dispatched = TRUE, ![Mine(w)].side = "possible"]
    /\ Goto(w, "dispatched")
    /\ UNCHANGED <<job, ledger>>

MarkDispatchStarted(w) ==
    LET a == worker[w].attempt
    IN  /\ worker[w].pc = "reserved"
        /\ IsCurrent(w)
        /\ Invocation(w).side \in {"not_started", "possible"}
        /\ \A i \in BoundTo(a, worker[w].gen) : ledger[a][i].state = "reserved"
        /\ inv' = [inv EXCEPT ![Mine(w)].dispatched = TRUE, ![Mine(w)].side = "possible"]
        /\ Goto(w, "dispatched")
        /\ UNCHANGED <<job, ledger>>

(***************************************************************************)
(* The adapter has returned.  A provider that honours the idempotency key, *)
(* which all generations of an attempt share, may answer two of them with  *)
(* one request identity.                                                   *)
(***************************************************************************)
SharingRequest(w, r) == {x \in DOMAIN inv : x # Mine(w) /\ inv[x].request = r}

\* observe_provider_request; a shared identity makes every holder ambiguous
\* and raises DuplicateProviderRequest.
ObserveProviderRequest(w, r) ==
    LET others == SharingRequest(w, r)
    IN  /\ worker[w].pc = "dispatched"
        /\ IsCurrent(w)
        /\ Invocation(w).digest = NoDigest
        /\ inv' = [x \in DOMAIN inv |->
              IF x = Mine(w)
              THEN [inv[x] EXCEPT !.request = r,
                                  !.side = IF others = {} THEN "observed" ELSE "ambiguous",
                                  !.admission = IF others = {} THEN @ ELSE "duplicate"]
              ELSE IF x \in others THEN [inv[x] EXCEPT !.side = "ambiguous"]
              ELSE inv[x]]
        /\ Goto(w, IF others = {} THEN "observed" ELSE "failing")
        /\ UNCHANGED <<job, ledger>>

SharingDigest(w, d) == {x \in DOMAIN inv : x # Mine(w) /\ inv[x].digest = d}

\* Mutant: a digest that another invocation owns is admitted again.
AdmitAgain(w, d, u) ==
    /\ worker[w].pc \in {"dispatched", "observed"}
    /\ OwnsLive(w) /\ IsCurrent(w)
    /\ inv' = [inv EXCEPT ![Mine(w)].digest = d, ![Mine(w)].usage = u, ![Mine(w)].side = "observed"]
    /\ Goto(w, "admitted")
    /\ UNCHANGED <<job, ledger>>

\* admit_terminal: the first owner of a digest keeps it; a generation that is
\* no longer live records its result as stale and is refused.
AdmitTerminal(w, d, u) ==
    LET others == SharingDigest(w, d)
        admitted == others = {} /\ IsCurrent(w) /\ OwnsLive(w)
        row == Invocation(w)
    IN  /\ worker[w].pc \in {"dispatched", "observed"}
        /\ inv' = [x \in DOMAIN inv |->
              IF x = Mine(w)
              THEN IF row.digest # NoDigest THEN row
                   ELSE IF others # {}
                   THEN [row EXCEPT !.side = "ambiguous", !.usage = u,
                                    !.admission = IF @ = "current" THEN "duplicate" ELSE @]
                   ELSE IF ~ admitted
                   THEN [row EXCEPT !.side = "ambiguous", !.usage = u, !.digest = d,
                                    !.admission = IF @ = "duplicate" THEN @ ELSE "stale"]
                   ELSE [row EXCEPT !.side = IF u = "unknown" THEN "ambiguous" ELSE "observed",
                                    !.usage = u, !.digest = d]
              ELSE IF x \in others /\ row.digest = NoDigest
              THEN [inv[x] EXCEPT !.side = "ambiguous"]
              ELSE inv[x]]
        /\ Goto(w, IF admitted /\ row.digest = NoDigest THEN "admitted" ELSE "refused")
        /\ UNCHANGED <<job, ledger>>

-----------------------------------------------------------------------------
(***************************************************************************)
(* cancel_attempt, called by the supervisor, by the deadline and by the    *)
(* timeout handlers of one worker; their calls overlap while the adapter   *)
(* answers.                                                                *)
(***************************************************************************)
Prepared == {"dispatched", "observed", "failing", "refused", "admitted", "reconciled"}

RequestCancel(w) ==
    /\ worker[w].pc \in Prepared
    /\ worker[w].calls < MaxCancelCalls
    /\ Invocation(w).cancel = "not_requested"
    /\ inv' = [inv EXCEPT ![Mine(w)].cancel = "requested"]
    /\ UNCHANGED <<job, ledger, worker>>

\* The adapter's cancel is called, by the first caller and by later ones.
DispatchCancel(w) ==
    /\ worker[w].pc \in Prepared
    /\ worker[w].calls < MaxCancelCalls
    /\ Invocation(w).cancel # "not_requested"
    /\ inv' = [inv EXCEPT ![Mine(w)].cancel = IF @ = "requested" THEN "dispatched" ELSE @]
    /\ worker' = [worker EXCEPT ![w].calls = @ + 1]
    /\ UNCHANGED <<job, ledger>>

\* The adapter has acknowledged, or raised; _cancel_transition only moves to a
\* higher rank.
AnswerCancel(w, answer) ==
    /\ worker[w].calls > 0
    /\ inv' = IF Invocation(w).cancel = "dispatched" /\ CancelRank(answer) > CancelRank("dispatched")
              THEN [inv EXCEPT ![Mine(w)].cancel = answer] ELSE inv
    /\ worker' = [worker EXCEPT ![w].calls = @ - 1]
    /\ UNCHANGED <<job, ledger>>

-----------------------------------------------------------------------------
(***************************************************************************)
(* Reservation settlement.                                                 *)
(***************************************************************************)
\* Mutant: a settled row may be settled again.
OpenAlways(row) == row.state # "none"

Open(row) == row.state \notin Settled

Settlement(state, cost) == [state |-> state, cost |-> cost]
Settlements ==
    {Settlement("unknown_usage", NoCost), Settlement("disputed", NoCost)} \cup
    {Settlement("committed", c) : c \in 0..ReserveCost}

\* unknown, mismatch or reconcile, by the price of the admitted result or by
\* the UsageMismatch and MissingUsageEvidence handlers; only complete usage is
\* committed.
Reconcile(w, s) ==
    LET a == worker[w].attempt
        i == worker[w].row
    IN  /\ worker[w].pc = "admitted"
        /\ Open(ledger[a][i])
        /\ s.state = "committed" => Invocation(w).usage = "observed"
        /\ ledger' = [ledger EXCEPT ![a][i].state = s.state, ![a][i].cost = s.cost]
        /\ Goto(w, "reconciled")
        /\ UNCHANGED <<job, inv>>

\* A reserved row when its invocation ends: free only if nothing was sent.
SettledFor(a, g, row) ==
    IF row.bound = g /\ row.state = "reserved"
    THEN [row EXCEPT !.state = IF inv[<<a, g>>].side = "not_started"
                               THEN "released" ELSE "unknown_usage"]
    ELSE row

Unsent(a, row) == row.bound # 0 => inv[<<a, row.bound>>].side = "not_started"

\* release, by whoever knows that the row's invocation sent nothing.
Release(a, i) ==
    /\ Maintenance
    /\ i \in DOMAIN ledger[a]
    /\ ledger[a][i].state = "reserved"
    /\ Unsent(a, ledger[a][i])
    /\ ledger' = [ledger EXCEPT ![a][i].state = "released"]
    /\ UNCHANGED <<job, inv, worker>>

\* expire, and reconcile_stranded on a row whose job has no live lease.
Expire(a, i) ==
    /\ Maintenance
    /\ i \in DOMAIN ledger[a]
    /\ ledger[a][i].state = "reserved"
    /\ ledger' = [ledger EXCEPT ![a][i].state =
                    IF Unsent(a, ledger[a][i]) THEN "expired" ELSE "unknown_usage"]
    /\ UNCHANGED <<job, inv, worker>>

-----------------------------------------------------------------------------
(***************************************************************************)
(* Leaving run_lease.  finalize is fenced by the lease; a worker that lost *)
(* it, or whose result was refused, marks its invocation.  Then the finally*)
(* block settles what is still reserved and synchronizes the usage state.  *)
(***************************************************************************)
Leave(w, marked) ==
    worker' = [worker EXCEPT ![w].pc = IF marked THEN "lost" ELSE "settling", ![w].calls = 0]

\* Mutant: finalize is not fenced by the lease.
ClosesAlways(w, status) == [job EXCEPT ![worker[w].attempt].status = status]

Closes(w, status) ==
    IF OwnsLive(w) THEN [job EXCEPT ![worker[w].attempt].status = status] ELSE job

\* _terminal after a captured result; "closed" when a cancellation wins.
FinishCaptured(w, status) ==
    /\ worker[w].pc = "reconciled"
    /\ status \in {"completed", "closed"}
    /\ job' = Closes(w, status)
    /\ Leave(w, ~ OwnsLive(w))
    /\ UNCHANGED <<inv, ledger>>

\* Any step of run_lease raised, the supervisor saw the lease go, or a
\* cancellation was requested.
Fail(w) ==
    /\ Active(w)
    /\ job' = Closes(w, "closed")
    /\ Leave(w, worker[w].pc = "refused" \/ ~ OwnsLive(w))
    /\ UNCHANGED <<inv, ledger>>

\* run_lease itself raised (the task was cancelled, or a handler failed).
Abandon(w) ==
    /\ Active(w)
    /\ Leave(w, FALSE)
    /\ UNCHANGED <<job, inv, ledger>>

MarkLeaseLost(w) ==
    /\ worker[w].pc = "lost"
    /\ inv' = [inv EXCEPT ![Mine(w)].admission = IF @ = "duplicate" THEN @ ELSE "stale",
                          ![Mine(w)].side = Ambiguous(@)]
    /\ Goto(w, "settling")
    /\ UNCHANGED <<job, ledger>>

SettleOpenForInvocation(w) ==
    LET a == worker[w].attempt
    IN  /\ worker[w].pc = "settling"
        /\ ledger' = [ledger EXCEPT ![a] =
              [i \in DOMAIN @ |-> SettledFor(a, worker[w].gen, @[i])]]
        /\ Goto(w, "syncing")
        /\ UNCHANGED <<job, inv>>

\* _synchronize_usage_state, from the rows bound to the invocation.
Synchronized(row, states) ==
    CASE "disputed" \in states ->
           [row EXCEPT !.usage = "disputed", !.side = "ambiguous"]
      [] "disputed" \notin states /\ "unknown_usage" \in states ->
           [row EXCEPT !.usage = "unknown", !.side = "ambiguous"]
      [] states \cap {"disputed", "unknown_usage"} = {} /\ "committed" \in states ->
           [row EXCEPT !.usage = "reconciled", !.side = "reconciled"]
      [] states # {} /\ states \subseteq ZeroCost ->
           [row EXCEPT !.usage = "not_observed", !.side = "not_started"]
      [] OTHER -> row

SynchronizeUsageState(w) ==
    LET a == worker[w].attempt
        states == {ledger[a][i].state : i \in BoundTo(a, worker[w].gen)}
    IN  /\ worker[w].pc = "syncing"
        /\ inv' = [inv EXCEPT ![Mine(w)] = Synchronized(@, states)]
        /\ worker' = [worker EXCEPT ![w] = IdleWorker]
        /\ UNCHANGED <<job, ledger>>

-----------------------------------------------------------------------------
WorkerNext(w) ==
    \/ \E a \in Attempts : Claim(w, a)
    \/ Crash(w)
    \/ HoldDeadline(w)
    \/ Begin(w)
    \/ LatestForAttempt(w)
    \/ ReserveWithAggregate(w)
    \/ MarkDispatchStarted(w)
    \/ \E r \in RequestIds : ObserveProviderRequest(w, r)
    \/ \E d \in Digests, u \in {"observed", "unknown"} : AdmitTerminal(w, d, u)
    \/ RequestCancel(w)
    \/ DispatchCancel(w)
    \/ \E answer \in TerminalCancels : AnswerCancel(w, answer)
    \/ \E s \in Settlements : Reconcile(w, s)
    \/ \E status \in {"completed", "closed"} : FinishCaptured(w, status)
    \/ Fail(w)
    \/ Abandon(w)
    \/ MarkLeaseLost(w)
    \/ SettleOpenForInvocation(w)
    \/ SynchronizeUsageState(w)

Next ==
    \/ \E w \in Workers : WorkerNext(w)
    \/ \E a \in Attempts : ExpireLease(a) \/ Reclaim(a)
    \/ \E a \in Attempts, i \in Generations : Release(a, i) \/ Expire(a, i)

Spec == Init /\ [][Next]_vars

-----------------------------------------------------------------------------
(***************************************************************************)
(* Properties.                                                             *)
(***************************************************************************)
\* Every table row and every worker has the shape the schema and run_lease
\* give it; no attempt ever has more reservations than generations.
TypeOK ==
    /\ job \in [Attempts -> JobRows]
    /\ inv \in [Attempts \X Generations -> InvocationRows]
    /\ \A a \in Attempts :
         /\ Len(ledger[a]) <= MaxGenerations
         /\ \A i \in DOMAIN ledger[a] : ledger[a][i] \in ReservationRows
    /\ worker \in [Workers -> WorkerStates]

\* Only the newest generation of an attempt is current: begin, mark_lease_lost
\* and the duplicate paths never leave an older one behind.
NewestIsCurrent ==
    \A a \in Attempts, g, h \in Generations :
        inv[<<a, g>>].admission = "current" /\ h > g => inv[<<a, h>>].admission = "absent"

\* One external result is stored by at most one invocation of the execution.
ResultStoredOnce ==
    \A x, y \in Attempts \X Generations :
        inv[x].digest # NoDigest /\ inv[x].digest = inv[y].digest => x = y

\* A takeover leaves one generation in charge and one owner of each external
\* result, whatever stale workers and provider replays of admit_terminal do.
OneGenerationRules == TypeOK /\ NewestIsCurrent /\ ResultStoredOnce

\* A job completes only with a result its own generation had admitted, and a
\* completed job's invocation is never fenced afterwards by a late worker.
CompletedFromCurrent ==
    \A a \in Attempts :
        job[a].status = "completed" =>
            /\ inv[<<a, job[a].gen>>].admission = "current"
            /\ inv[<<a, job[a].gen>>].digest # NoDigest

\* However reservations are settled, what is charged never exceeds the
\* aggregate budget.
BudgetRespected ==
    LET rows == {x \in Attempts \X Generations :
                   x[2] \in DOMAIN ledger[x[1]] /\ ledger[x[1]][x[2]].state \notin ZeroCost}
    IN  /\ Cardinality(rows) <= MaxReservations
        /\ MapThenSumSet(LAMBDA x : Charge(ledger[x[1]][x[2]]), rows) <= MaxTotalCost

\* The row bound to an invocation that was dispatched is never released or
\* expired: settlement and dispatch exclude each other in either order.
BoundDispatchIsCharged ==
    \A a \in Attempts : \A i \in DOMAIN ledger[a] :
        ledger[a][i].bound # 0 /\ inv[<<a, ledger[a][i].bound>>].dispatched =>
            ledger[a][i].state \notin ZeroCost

\* Committed, released and expired rows are immutable, unknown or disputed
\* usage never becomes free, and an answered cancellation keeps its answer: no
\* late settlement by a stale worker or by maintenance, and no overlapping
\* cancel call, rewrites them.
SettlementIsFinal ==
    [][/\ \A a \in Attempts : \A i \in DOMAIN ledger[a] :
            /\ ledger[a][i].state \in Settled => ledger'[a][i] = ledger[a][i]
            /\ ledger[a][i].state \in {"unknown_usage", "disputed"} =>
                   ledger'[a][i].state \notin ZeroCost
       /\ \A x \in DOMAIN inv :
            inv[x].cancel \in TerminalCancels => inv'[x].cancel = inv[x].cancel]_vars

\* What the lifecycle document and its tests say of a dispatch: usage after
\* dispatch is never released as zero.  Here: an attempt with a dispatched
\* generation has a reservation that still counts.
DispatchIsCharged ==
    \A a \in Attempts :
        (\E g \in Generations : inv[<<a, g>>].dispatched) => ChargedRows(a) # {}

(***************************************************************************)
(* The fence implements PublishedResult: the newest begun generation, and  *)
(* the result of the job's last generation once the job is completed.      *)
(***************************************************************************)
Begun(a) == {g \in Generations : inv[<<a, g>>].admission # "absent"}
Published ==
    INSTANCE PublishedResult WITH
        newest <- [a \in Attempts |-> IF Begun(a) = {} THEN 0 ELSE Max(Begun(a))],
        published <- [a \in Attempts |->
            IF job[a].status = "completed" THEN inv[<<a, job[a].gen>>].digest ELSE NoDigest]

\* Every attempt publishes at most one result, from its newest generation, and
\* no two attempts publish the same one, whatever stale workers do.
PublishesOnce == Published!Spec

=============================================================================
