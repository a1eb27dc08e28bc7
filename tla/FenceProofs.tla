---------------------------- MODULE FenceProofs ----------------------------
(***************************************************************************)
(* The invocation fence, for any attempts, workers, generations, results   *)
(* and prices: one generation rules an attempt, one invocation owns a      *)
(* result, a job completes only with the result its last generation        *)
(* admitted, a dispatched invocation keeps its reservation charged, what   *)
(* is charged stays within the aggregate budget, and the whole implements  *)
(* PublishedResult.                                                        *)
(*                                                                         *)
(* The inductive invariant FInv relates a worker to the rows it may write: *)
(* no two workers hold one generation of an attempt, so the row of an      *)
(* invocation is written by its own worker and made stale by a successor.  *)
(* Claim and Begin introduce generations and have proofs of their own;     *)
(* every other step is a move of existing rows (MovesKeep).                *)
(***************************************************************************)
EXTENDS InvocationFence, TLAPS, FiniteSetTheorems, SequenceTheorems, WellFoundedInduction

Cells == Attempts \X Generations

Types ==
    /\ job \in [Attempts -> JobRows]
    /\ inv \in [Cells -> InvocationRows]
    /\ ledger \in [Attempts -> Seq(ReservationRows)]
    /\ worker \in [Workers -> WorkerStates]

\* Statements before the attempt's reservation is made or found.
Reserving == {"claimed", "begun", "unreserved"}

\* What a worker holds: an invocation of its own once it has begun, a row once
\* it has reserved, a result once it was admitted, and nothing left to write
\* once its job is completed.
WorkerFits(w) ==
    LET a == worker[w].attempt
        g == worker[w].gen
    IN  /\ worker[w].pc = "idle" => worker[w] = IdleWorker
        /\ worker[w].pc # "idle" =>
              /\ a \in Attempts /\ g \in Generations /\ g <= job[a].gen
              /\ worker[w].pc = "claimed" <=> inv[<<a, g>>].admission = "absent"
              /\ worker[w].pc \in Prepared \cup {"reserved"} =>
                    worker[w].row \in 1..Len(ledger[a])
              /\ worker[w].pc \in {"admitted", "reconciled"} =>
                    /\ inv[<<a, g>>].digest # NoDigest
                    /\ inv[<<a, g>>].admission = "current" \/ g < job[a].gen
              /\ job[a].status = "completed" /\ g = job[a].gen =>
                    worker[w].pc \in {"settling", "syncing"}

\* No two workers hold one generation of an attempt.
OneHolder ==
    \A v, w \in Workers :
        /\ worker[v].pc # "idle" /\ worker[w].pc # "idle"
        /\ worker[v].attempt = worker[w].attempt /\ worker[v].gen = worker[w].gen
        => v = w

\* A row that exists was begun by a claimed generation, and one that was
\* dispatched says so.
InvocationFits ==
    \A a \in Attempts, g \in Generations :
        /\ inv[<<a, g>>].admission # "absent" => g <= job[a].gen
        /\ inv[<<a, g>>].admission = "absent" => inv[<<a, g>>] = AbsentInvocation
        /\ inv[<<a, g>>].dispatched => inv[<<a, g>>].side # "not_started"

\* A job has a generation once it was claimed, and another one to give while it
\* is queued.
JobFits ==
    \A a \in Attempts : IF job[a].status = "queued" THEN job[a].gen < MaxGenerations
                                                    ELSE job[a].gen > 0

\* Some begun generation is the newest.
NewestExists ==
    \A a \in Attempts :
        Begun(a) # {} => \E m \in Begun(a) : \A g \in Begun(a) : m >= g

\* Generations that may still insert a reservation, and those that may have.
ReservingGenerations(a) ==
    {g \in Generations : \E w \in Workers :
        worker[w].pc \in Reserving /\ worker[w].attempt = a /\ worker[w].gen = g}

RowsPerGeneration ==
    \A a \in Attempts :
        Cardinality(ReservingGenerations(a)) + Len(ledger[a]) <= job[a].gen

FInv ==
    /\ Types
    /\ \A w \in Workers : WorkerFits(w)
    /\ OneHolder
    /\ JobFits
    /\ InvocationFits
    /\ NewestExists
    /\ NewestIsCurrent
    /\ ResultStoredOnce
    /\ CompletedFromCurrent
    /\ BoundDispatchIsCharged
    /\ RowsPerGeneration

-----------------------------------------------------------------------------
(***************************************************************************)
(* Moves: steps that begin no generation.                                  *)
(***************************************************************************)
Completes(a) == job[a].status # "completed" /\ job'[a].status = "completed"

\* A job completes by the worker of its last generation, with its result.
CompletesWell(a) ==
    /\ job[a].gen \in Generations
    /\ inv'[<<a, job[a].gen>>].admission = "current"
    /\ inv'[<<a, job[a].gen>>].digest # NoDigest
    /\ \E w \in Workers : /\ worker[w].pc # "idle" /\ worker[w].attempt = a
                          /\ worker[w].gen = job[a].gen /\ worker'[w] # worker[w]

JobsMove ==
    /\ job' \in [Attempts -> JobRows]
    /\ \A a \in Attempts :
          /\ job'[a].gen = job[a].gen
          /\ job[a].status = "completed" => job'[a].status = "completed"
          /\ Completes(a) => CompletesWell(a)
    /\ \A a, b \in Attempts : Completes(a) /\ Completes(b) => a = b
    /\ JobFits'

\* The worker that makes a current row stale or duplicate has not finished.
Fenced(a, g) ==
    \E w \in Workers : /\ worker[w].pc \notin {"idle", "settling", "syncing"}
                       /\ worker[w].attempt = a /\ worker[w].gen = g
                       /\ worker'[w] # worker[w]

RowMoves(a, g) ==
    /\ inv'[<<a, g>>].admission = "absent" <=> inv[<<a, g>>].admission = "absent"
    /\ inv'[<<a, g>>].admission = "current" => inv[<<a, g>>].admission = "current"
    /\ inv[<<a, g>>].admission = "current" /\ inv'[<<a, g>>].admission # "current" =>
          Fenced(a, g)
    /\ inv[<<a, g>>].admission = "absent" => inv'[<<a, g>>] = inv[<<a, g>>]
    /\ inv[<<a, g>>].digest # NoDigest => inv'[<<a, g>>].digest = inv[<<a, g>>].digest
    /\ inv'[<<a, g>>].dispatched => inv'[<<a, g>>].side # "not_started"
    /\ inv[<<a, g>>].cancel \in TerminalCancels => inv'[<<a, g>>].cancel = inv[<<a, g>>].cancel

RowsMove ==
    /\ inv' \in [Cells -> InvocationRows]
    /\ \A a \in Attempts, g \in Generations : RowMoves(a, g)
    /\ ResultStoredOnce'

WorkersMove ==
    /\ worker' \in [Workers -> WorkerStates]
    /\ \A v \in Workers :
          /\ worker'[v] = worker[v] \/ WorkerFits(v)'
          /\ worker'[v].pc # "idle" =>
                /\ worker[v].pc # "idle"
                /\ worker'[v].attempt = worker[v].attempt
                /\ worker'[v].gen = worker[v].gen

\* What SettlementIsFinal says of the ledger in one step.
LedgerStands ==
    \A a \in Attempts : \A i \in DOMAIN ledger[a] :
        /\ ledger[a][i].state \in Settled => ledger'[a][i] = ledger[a][i]
        /\ ledger[a][i].state \in {"unknown_usage", "disputed"} =>
               ledger'[a][i].state \notin ZeroCost

LedgersMove ==
    /\ ledger' \in [Attempts -> Seq(ReservationRows)]
    /\ \A a \in Attempts : Len(ledger'[a]) >= Len(ledger[a])
    /\ LedgerStands
    /\ BoundDispatchIsCharged'
    /\ RowsPerGeneration'

\* What SettlementIsFinal says of cancellations in one step.
CancelStands ==
    \A x \in DOMAIN inv :
        inv[x].cancel \in TerminalCancels => inv'[x].cancel = inv[x].cancel

\* The abstract variables.
Newest(a) == IF Begun(a) = {} THEN 0 ELSE Max(Begun(a))
Result(a) == IF job[a].status = "completed" THEN inv[<<a, job[a].gen>>].digest ELSE NoDigest

\* A step of PublishedResult, or none.
Begins(a) ==
    /\ Result(a) = NoDigest
    /\ Newest(a)' \in (Newest(a) + 1)..MaxGenerations
    /\ \A b \in Attempts : /\ b # a => Newest(b)' = Newest(b)
                           /\ Result(b)' = Result(b)

Publishes(a) ==
    /\ Newest(a) > 0
    /\ Result(a) = NoDigest
    /\ Result(a)' \in Digests
    /\ \A b \in Attempts : /\ Result(b) # Result(a)'
                           /\ b # a => Result(b)' = Result(b)
                           /\ Newest(b)' = Newest(b)

Quiet == \A b \in Attempts : Newest(b)' = Newest(b) /\ Result(b)' = Result(b)

StepIsSound ==
    /\ LedgerStands
    /\ CancelStands
    /\ Quiet \/ \E a \in Attempts : Begins(a) \/ Publishes(a)

\* A completed job has a last generation.
LEMMA LastGenerationExists ==
  ASSUME FInv, NEW a \in Attempts, job[a].status # "queued"
  PROVE  job[a].gen \in Generations
  BY FenceAssumption DEF FInv, Types, JobRows, JobFits, Generations

\* The newest generation begun for an attempt.
LEMMA NewestIsMax ==
  ASSUME FInv, NEW a \in Attempts, Begun(a) # {}
  PROVE  Newest(a) \in Begun(a) /\ \A g \in Begun(a) : Newest(a) >= g
<1>1. \E m \in Begun(a) : \A g \in Begun(a) : m >= g
  BY DEF FInv, NewestExists
<1> QED BY <1>1 DEF Newest, Max

\* A worker that did not move still fits.
LEMMA OthersFit ==
  ASSUME FInv, JobsMove, RowsMove, WorkersMove, LedgersMove,
         NEW v \in Workers, worker'[v] = worker[v]
  PROVE  WorkerFits(v)'
<1> DEFINE a == worker[v].attempt
           g == worker[v].gen
<1>1. WorkerFits(v)
  BY DEF FInv
<1>2. CASE worker[v].pc = "idle"
  BY <1>1, <1>2 DEF WorkerFits
<1>3. CASE worker[v].pc # "idle"
  <2>1. /\ a \in Attempts /\ g \in Generations /\ g <= job[a].gen
        /\ worker[v].pc = "claimed" <=> inv[<<a, g>>].admission = "absent"
        /\ worker[v].pc \in Prepared \cup {"reserved"} => worker[v].row \in 1..Len(ledger[a])
        /\ worker[v].pc \in {"admitted", "reconciled"} =>
              /\ inv[<<a, g>>].digest # NoDigest
              /\ inv[<<a, g>>].admission = "current" \/ g < job[a].gen
        /\ job[a].status = "completed" /\ g = job[a].gen =>
              worker[v].pc \in {"settling", "syncing"}
    BY <1>1, <1>3 DEF WorkerFits
  <2>2. RowMoves(a, g) /\ job'[a].gen = job[a].gen
    BY <2>1 DEF RowsMove, JobsMove
  <2>3. ~ Fenced(a, g)
    BY <1>3 DEF FInv, OneHolder, Fenced
  <2>4. ~ (Completes(a) /\ g = job[a].gen)
    BY <1>3, <2>1 DEF FInv, OneHolder, JobsMove, CompletesWell
  <2>5. worker[v].row \in 1..Len(ledger[a]) => worker[v].row \in 1..Len(ledger'[a])
    <3>1. Len(ledger[a]) \in Nat /\ Len(ledger'[a]) \in Nat /\ Len(ledger'[a]) >= Len(ledger[a])
      BY <2>1 DEF FInv, Types, LedgersMove
    <3> QED BY <3>1
  <2>6. /\ worker[v].pc = "claimed" <=> inv'[<<a, g>>].admission = "absent"
        /\ worker[v].pc \in {"admitted", "reconciled"} =>
              /\ inv'[<<a, g>>].digest # NoDigest
              /\ inv'[<<a, g>>].admission = "current" \/ g < job'[a].gen
        /\ job'[a].status = "completed" /\ g = job'[a].gen =>
              worker[v].pc \in {"settling", "syncing"}
    BY <2>1, <2>2, <2>3, <2>4 DEF RowMoves, Completes
  <2> QED BY <1>3, <2>1, <2>2, <2>5, <2>6 DEF WorkerFits
<1> QED BY <1>2, <1>3

\* Every move keeps the invariant and is a step the fence promises.
LEMMA MovesKeep ==
  ASSUME FInv, JobsMove, RowsMove, WorkersMove, LedgersMove
  PROVE  FInv' /\ StepIsSound
<1>1. Types'
  BY DEF JobsMove, RowsMove, WorkersMove, LedgersMove, Types
<1>2. \A w \in Workers : WorkerFits(w)'
  BY OthersFit DEF WorkersMove
<1>3. OneHolder'
  BY DEF FInv, OneHolder, WorkersMove
<1>4. \A a \in Attempts, g \in Generations :
        RowMoves(a, g) /\ job'[a].gen = job[a].gen
  BY DEF RowsMove, JobsMove
<1>5. InvocationFits'
  <2> SUFFICES ASSUME NEW a \in Attempts, NEW g \in Generations
               PROVE  /\ inv'[<<a, g>>].admission # "absent" => g <= job'[a].gen
                      /\ inv'[<<a, g>>].admission = "absent" => inv'[<<a, g>>] = AbsentInvocation
                      /\ inv'[<<a, g>>].dispatched => inv'[<<a, g>>].side # "not_started"
    BY DEF InvocationFits, AbsentInvocation
  <2> QED BY <1>4 DEF FInv, InvocationFits, RowMoves
<1>6. NewestIsCurrent'
  BY <1>4 DEF FInv, NewestIsCurrent, RowMoves
<1>7. CompletedFromCurrent'
  <2> SUFFICES ASSUME NEW a \in Attempts, job'[a].status = "completed"
               PROVE  /\ inv'[<<a, job'[a].gen>>].admission = "current"
                      /\ inv'[<<a, job'[a].gen>>].digest # NoDigest
    BY DEF CompletedFromCurrent
  <2>1. CASE Completes(a)
    BY <2>1, <1>4 DEF JobsMove, CompletesWell
  <2>2. CASE job[a].status = "completed"
    <3> DEFINE g == job[a].gen
    <3>1. /\ inv[<<a, g>>].admission = "current" /\ inv[<<a, g>>].digest # NoDigest
      BY <2>2 DEF FInv, CompletedFromCurrent
    <3>2. g \in Generations
      BY <3>1, LastGenerationExists, <2>2
    <3>3. ~ Fenced(a, g)
      BY <2>2 DEF FInv, Fenced, WorkerFits
    <3> QED BY <1>4, <3>1, <3>2, <3>3 DEF RowMoves
  <2> QED BY <2>1, <2>2 DEF Completes
<1>8. CancelStands
  <2> SUFFICES ASSUME NEW x \in DOMAIN inv, inv[x].cancel \in TerminalCancels
               PROVE  inv'[x].cancel = inv[x].cancel
    BY DEF CancelStands
  <2>1. PICK a \in Attempts, g \in Generations : x = <<a, g>>
    BY DEF FInv, Types, Cells
  <2> QED BY <1>4, <2>1 DEF RowMoves
<1>9. \A b \in Attempts : Begun(b)' = Begun(b)
  BY <1>4 DEF Begun, RowMoves
<1>10. \A b \in Attempts : Newest(b)' = Newest(b)
  BY <1>9 DEF Newest
<1>11. NewestExists'
  BY <1>9 DEF FInv, NewestExists
<1>12. FInv'
  BY <1>1, <1>2, <1>3, <1>5, <1>6, <1>7, <1>11 DEF FInv, JobsMove, RowsMove, LedgersMove
<1>13. ASSUME NEW b \in Attempts, ~ Completes(b)
       PROVE  Result(b)' = Result(b)
  <2>1. CASE job[b].status # "completed"
    BY <1>13, <2>1 DEF Result, Completes
  <2>2. CASE job[b].status = "completed"
    <3>1. job'[b].status = "completed" /\ job'[b].gen = job[b].gen
      BY <2>2 DEF JobsMove
    <3>2. job[b].gen \in Generations /\ inv[<<b, job[b].gen>>].digest # NoDigest
      BY <2>2, LastGenerationExists DEF FInv, CompletedFromCurrent
    <3>3. inv'[<<b, job[b].gen>>].digest = inv[<<b, job[b].gen>>].digest
      BY <1>4, <3>2 DEF RowMoves
    <3> QED BY <2>2, <3>1, <3>3 DEF Result
  <2> QED BY <2>1, <2>2
<1>14. CASE \A a \in Attempts : ~ Completes(a)
  <2>1. Quiet
    BY <1>10, <1>13, <1>14 DEF Quiet
  <2> QED BY <1>8, <1>12, <2>1 DEF StepIsSound, LedgersMove
<1>15. ASSUME NEW a \in Attempts, Completes(a)
       PROVE  Publishes(a)
  <2> DEFINE g == job[a].gen
  <2>1. /\ g \in Generations /\ job'[a].gen = g
        /\ inv'[<<a, g>>].admission = "current" /\ inv'[<<a, g>>].digest # NoDigest
    BY <1>15 DEF JobsMove, CompletesWell
  <2>2. Result(a) = NoDigest /\ Result(a)' = inv'[<<a, g>>].digest
    BY <1>15, <2>1 DEF Result, Completes
  <2>3. inv'[<<a, g>>].digest \in Digests
    BY <1>1, <2>1 DEF Types, Cells, InvocationRows
  <2>4. Newest(a) > 0
    <3>1. g \in Begun(a)
      BY <1>4, <2>1 DEF Begun, RowMoves
    <3>2. Newest(a) \in Begun(a)
      BY <3>1, NewestIsMax
    <3> QED BY <3>2, FenceAssumption DEF Begun, Generations
  <2>5. ASSUME NEW b \in Attempts
        PROVE  Result(b) # Result(a)' /\ (b # a => Result(b)' = Result(b))
    <3>1. CASE b = a
      BY <2>1, <2>2, <3>1
    <3>2. CASE b # a
      <4>1. Result(b)' = Result(b)
        BY <1>13, <1>15, <3>2 DEF JobsMove
      <4>2. CASE job[b].status # "completed"
        BY <2>1, <2>2, <4>1, <4>2 DEF Result
      <4>3. CASE job[b].status = "completed"
        <5>1. /\ job'[b].status = "completed" /\ job'[b].gen = job[b].gen
              /\ job[b].gen \in Generations
          BY <4>3, LastGenerationExists DEF JobsMove
        <5>2. Result(b)' = inv'[<<b, job[b].gen>>].digest
          BY <5>1 DEF Result
        <5>3. <<a, g>> \in Cells /\ <<b, job[b].gen>> \in Cells /\ <<a, g>> # <<b, job[b].gen>>
          BY <2>1, <3>2, <5>1 DEF Cells
        <5>4. inv'[<<b, job[b].gen>>].digest # inv'[<<a, g>>].digest
          BY <2>1, <5>3 DEF RowsMove, ResultStoredOnce, Cells
        <5> QED BY <2>2, <4>1, <5>2, <5>4
      <4> QED BY <4>1, <4>2, <4>3
    <3> QED BY <3>1, <3>2
  <2> QED BY <1>10, <2>2, <2>3, <2>4, <2>5 DEF Publishes
<1>16. CASE \E a \in Attempts : Completes(a)
  BY <1>8, <1>15, <1>16, <1>12 DEF StepIsSound, LedgersMove
<1> QED BY <1>14, <1>16

-----------------------------------------------------------------------------
(***************************************************************************)
(* Frames: what a step leaves alone has moved.                             *)
(***************************************************************************)
\* A table that did not change.
LEMMA JobsStay ==
  ASSUME FInv, job' = job
  PROVE  JobsMove
  BY DEF FInv, Types, JobsMove, Completes, JobFits

\* Invocations that did not change.
LEMMA RowsStay ==
  ASSUME FInv, inv' = inv
  PROVE  RowsMove
<1>1. \A a \in Attempts, g \in Generations : RowMoves(a, g)
  BY DEF FInv, InvocationFits, RowMoves
<1>2. ResultStoredOnce'
  BY DEF FInv, ResultStoredOnce
<1> QED BY <1>1, <1>2 DEF FInv, Types, RowsMove

\* Reservations can only be inserted by generations that still reserve.
LEMMA ReservingGenerationsFinite ==
  ASSUME NEW a \in Attempts
  PROVE  /\ IsFiniteSet(ReservingGenerations(a))
         /\ IsFiniteSet(ReservingGenerations(a)')
<1>1. IsFiniteSet(Generations)
  BY FS_Interval, FenceAssumption DEF Generations
<1>2. ReservingGenerations(a) \subseteq Generations /\ ReservingGenerations(a)' \subseteq Generations
  BY DEF ReservingGenerations
<1> QED BY <1>1, <1>2, FS_Subset

LEMMA CountStays ==
  ASSUME FInv, WorkersMove,
         \A a \in Attempts : Len(ledger'[a]) = Len(ledger[a]) /\ job'[a].gen = job[a].gen,
         \A v \in Workers : worker'[v].pc \in Reserving => worker[v].pc \in Reserving
  PROVE  RowsPerGeneration'
<1> SUFFICES ASSUME NEW a \in Attempts
             PROVE  Cardinality(ReservingGenerations(a)') + Len(ledger'[a]) <= job'[a].gen
  BY DEF RowsPerGeneration
<1>1. ReservingGenerations(a)' \subseteq ReservingGenerations(a)
  BY DEF ReservingGenerations, WorkersMove, Reserving
<1>2. Cardinality(ReservingGenerations(a)') <= Cardinality(ReservingGenerations(a))
  BY <1>1, ReservingGenerationsFinite, FS_Subset
<1>3. /\ Cardinality(ReservingGenerations(a)') \in Nat
      /\ Cardinality(ReservingGenerations(a)) \in Nat
  BY ReservingGenerationsFinite, FS_CardinalityType
<1>4. Len(ledger[a]) \in Nat /\ job[a].gen \in Int
  BY DEF FInv, Types, JobRows
<1>5. Cardinality(ReservingGenerations(a)) + Len(ledger[a]) <= job[a].gen
  BY DEF FInv, RowsPerGeneration
<1> QED BY <1>2, <1>3, <1>4, <1>5

\* A reservation is bound to a generation or to none.
LEMMA ReservationTyped ==
  ASSUME FInv, NEW a \in Attempts, NEW i \in DOMAIN ledger[a]
  PROVE  /\ i \in 1..Len(ledger[a])
         /\ ledger[a][i] \in ReservationRows
         /\ ledger[a][i].bound # 0 => ledger[a][i].bound \in Generations
<1>1. ledger[a] \in Seq(ReservationRows)
  BY DEF FInv, Types
<1>2. i \in 1..Len(ledger[a]) /\ ledger[a][i] \in ReservationRows
  BY <1>1
<1> QED BY <1>2, FenceAssumption DEF ReservationRows, Generations

\* No attempt has more reservations than generations.
LEMMA LengthBounded ==
  ASSUME FInv, NEW a \in Attempts
  PROVE  Len(ledger[a]) \in 0..MaxGenerations /\ Len(ledger[a]) <= job[a].gen
<1>1. Cardinality(ReservingGenerations(a)) \in Nat
  BY ReservingGenerationsFinite, FS_CardinalityType
<1>2. Len(ledger[a]) \in Nat /\ job[a].gen \in 0..MaxGenerations
  BY DEF FInv, Types, JobRows
<1>3. Cardinality(ReservingGenerations(a)) + Len(ledger[a]) <= job[a].gen
  BY DEF FInv, RowsPerGeneration
<1> QED BY <1>1, <1>2, <1>3, FenceAssumption

\* No new invocation is dispatched.
LEMMA ChargedStays ==
  ASSUME FInv, ledger' = ledger,
         \A a \in Attempts, g \in Generations :
            inv'[<<a, g>>].dispatched => inv[<<a, g>>].dispatched
  PROVE  BoundDispatchIsCharged'
<1> SUFFICES ASSUME NEW a \in Attempts, NEW i \in DOMAIN ledger[a],
                    ledger[a][i].bound # 0,
                    inv'[<<a, ledger[a][i].bound>>].dispatched
             PROVE  ledger[a][i].state \notin ZeroCost
  BY DEF BoundDispatchIsCharged
<1>1. ledger[a][i].bound \in Generations
  BY ReservationTyped
<1> QED BY <1>1 DEF FInv, BoundDispatchIsCharged

\* A ledger that did not change.
LEMMA LedgersStay ==
  ASSUME FInv, ledger' = ledger, WorkersMove, JobsMove, BoundDispatchIsCharged',
         \A v \in Workers : worker'[v].pc \in Reserving => worker[v].pc \in Reserving
  PROVE  LedgersMove
<1>1. RowsPerGeneration'
  BY CountStays DEF JobsMove
<1>2. LedgerStands
  BY DEF LedgerStands, Settled, ZeroCost
<1>3. ledger' \in [Attempts -> Seq(ReservationRows)]
  BY DEF FInv, Types
<1>4. \A a \in Attempts : Len(ledger'[a]) >= Len(ledger[a])
  BY DEF FInv, Types
<1> QED BY <1>1, <1>2, <1>3, <1>4 DEF LedgersMove

\* One worker moves to a state that fits; the others stay.
LEMMA OneWorkerMoves ==
  ASSUME FInv, NEW w \in Workers, NEW next \in WorkerStates,
         worker' = [worker EXCEPT ![w] = next],
         next.pc # "idle" => /\ worker[w].pc # "idle"
                             /\ next.attempt = worker[w].attempt
                             /\ next.gen = worker[w].gen,
         worker'[w] = next => WorkerFits(w)'
  PROVE  /\ WorkersMove
         /\ worker'[w] = next
         /\ \A v \in Workers : v # w => worker'[v] = worker[v]
  BY DEF FInv, Types, WorkersMove

\* A worker that ends fits.
LEMMA IdleFits ==
  ASSUME NEW w \in Workers, worker'[w] = IdleWorker
  PROVE  WorkerFits(w)'
  BY DEF WorkerFits, IdleWorker

-----------------------------------------------------------------------------
(***************************************************************************)
(* Steps that write jobs and workers only.                                 *)
(***************************************************************************)
\* A step of one worker that leaves invocations and ledger alone and completes
\* no job.
LEMMA WorkerSteps ==
  ASSUME FInv, NEW w \in Workers, NEW next \in WorkerStates, JobsMove,
         worker' = [worker EXCEPT ![w] = next],
         next.pc # "idle" => /\ worker[w].pc # "idle"
                             /\ next.attempt = worker[w].attempt
                             /\ next.gen = worker[w].gen,
         worker'[w] = next => WorkerFits(w)',
         next.pc \in Reserving => worker[w].pc \in Reserving,
         UNCHANGED <<inv, ledger>>
  PROVE  FInv' /\ StepIsSound
<1>1. /\ WorkersMove
      /\ worker'[w] = next
      /\ \A v \in Workers : v # w => worker'[v] = worker[v]
  BY OneWorkerMoves
<1>2. \A v \in Workers : worker'[v].pc \in Reserving => worker[v].pc \in Reserving
  BY <1>1
<1>3. RowsMove
  BY RowsStay
<1>4. LedgersMove
  BY <1>1, <1>2, ChargedStays, LedgersStay
<1> QED BY <1>1, <1>3, <1>4, MovesKeep

\* The table moves when one job that is not completed gets a new status other
\* than completed, or loses its lease.
LEMMA JobCloses ==
  ASSUME FInv, NEW a \in Attempts, NEW row \in JobRows,
         job' = [job EXCEPT ![a] = row],
         row.gen = job[a].gen,
         job[a].status = "running", row.status # "completed",
         row.status = "queued" => row.gen < MaxGenerations
  PROVE  JobsMove
<1>1. /\ job' \in [Attempts -> JobRows]
      /\ \A b \in Attempts : job'[b] = IF b = a THEN row ELSE job[b]
  BY DEF FInv, Types
<1>2. job[a].gen > 0
  BY DEF FInv, JobFits
<1>3. JobFits'
  BY <1>1, <1>2 DEF FInv, JobFits
<1> QED BY <1>1, <1>3 DEF JobsMove, Completes

LEMMA CrashKeeps ==
  ASSUME FInv, NEW w \in Workers, Crash(w)
  PROVE  FInv' /\ StepIsSound
<1>1. IdleWorker \in WorkerStates /\ IdleWorker.pc = "idle"
  BY FenceAssumption DEF IdleWorker, WorkerStates
<1>2. JobsMove
  BY JobsStay DEF Crash
<1> QED BY <1>1, <1>2, IdleFits, WorkerSteps DEF Crash, Reserving

\* ExpireLease and Reclaim leave everything but the job table alone.
LEMMA TableKeeps ==
  ASSUME FInv, NEW a \in Attempts, ExpireLease(a) \/ Reclaim(a)
  PROVE  FInv' /\ StepIsSound
<1>1. JobsMove
  <2>1. CASE ExpireLease(a)
    <3> DEFINE row == [job[a] EXCEPT !.live = FALSE]
    <3>1. job[a] \in JobRows
      BY DEF FInv, Types
    <3>2. row \in JobRows /\ row.gen = job[a].gen /\ row.status = job[a].status
      BY <3>1 DEF JobRows
    <3>3. job' = [job EXCEPT ![a] = row] /\ job[a].status = "running"
      BY <2>1 DEF ExpireLease
    <3> HIDE DEF row
    <3> QED BY <3>2, <3>3, JobCloses
  <2>2. CASE Reclaim(a)
    <3> DEFINE status == IF job[a].gen < MaxGenerations THEN "queued" ELSE "closed"
               row == [job[a] EXCEPT !.status = status]
    <3>1. job[a] \in JobRows
      BY DEF FInv, Types
    <3>2. row \in JobRows /\ row.gen = job[a].gen /\ row.status = status
      BY <3>1 DEF JobRows
    <3>3. job' = [job EXCEPT ![a] = row] /\ job[a].status = "running"
      BY <2>2 DEF Reclaim
    <3>4. status # "completed" /\ (status = "queued" => job[a].gen < MaxGenerations)
      OBVIOUS
    <3> HIDE DEF row, status
    <3> QED BY <3>2, <3>3, <3>4, JobCloses
  <2> QED BY <2>1, <2>2
<1>2. UNCHANGED <<inv, ledger, worker>>
  BY DEF ExpireLease, Reclaim
<1>3. RowsMove
  BY <1>2, RowsStay
<1>4. WorkersMove
  BY <1>2 DEF FInv, Types, WorkersMove
<1>5. LedgersMove
  BY <1>1, <1>2, <1>4, ChargedStays, LedgersStay
<1> QED BY <1>1, <1>3, <1>4, <1>5, MovesKeep

\* What a worker in flight holds, unfolded.
LEMMA Held ==
  ASSUME FInv, NEW w \in Workers, worker[w].pc # "idle"
  PROVE  LET a == worker[w].attempt
             g == worker[w].gen
         IN  /\ a \in Attempts /\ g \in Generations /\ g <= job[a].gen
             /\ worker[w].pc = "claimed" <=> inv[<<a, g>>].admission = "absent"
             /\ worker[w].pc \in Prepared \cup {"reserved"} =>
                   worker[w].row \in 1..Len(ledger[a])
             /\ worker[w].pc \in {"admitted", "reconciled"} =>
                   /\ inv[<<a, g>>].digest # NoDigest
                   /\ inv[<<a, g>>].admission = "current" \/ g < job[a].gen
             /\ job[a].status = "completed" /\ g = job[a].gen =>
                   worker[w].pc \in {"settling", "syncing"}
  BY DEF FInv, WorkerFits

\* A worker on its way out fits.
LEMMA LeavingFits ==
  ASSUME FInv, NEW w \in Workers, Active(w), inv' = inv,
         \A a \in Attempts : job'[a].gen = job[a].gen,
         worker'[w].attempt = worker[w].attempt, worker'[w].gen = worker[w].gen,
         worker'[w].pc \in {"lost", "settling"},
         Completes(worker[w].attempt) => worker'[w].pc = "settling"
  PROVE  WorkerFits(w)'
<1> DEFINE a == worker[w].attempt
           g == worker[w].gen
<1>1. worker[w].pc \notin {"idle", "claimed", "settling", "syncing"}
  BY DEF Active, ActivePcs
<1>2. /\ a \in Attempts /\ g \in Generations /\ g <= job[a].gen
      /\ inv[<<a, g>>].admission # "absent"
      /\ ~ (job[a].status = "completed" /\ g = job[a].gen)
  BY <1>1, Held
<1> QED BY <1>2 DEF WorkerFits, Prepared, Completes

\* Leave, as a move of one worker.
LEMMA LeaveMoves ==
  ASSUME FInv, NEW w \in Workers, NEW marked \in BOOLEAN, Active(w), Leave(w, marked)
  PROVE  \E next \in WorkerStates :
            /\ worker' = [worker EXCEPT ![w] = next]
            /\ next.pc = IF marked THEN "lost" ELSE "settling"
            /\ next.attempt = worker[w].attempt /\ next.gen = worker[w].gen
            /\ worker'[w] = next
<1> DEFINE pc == IF marked THEN "lost" ELSE "settling"
           next == [worker[w] EXCEPT !.pc = pc, !.calls = 0]
<1>1. worker[w] \in WorkerStates /\ 0 \in 0..MaxCancelCalls /\ pc \in ExitPcs
  BY FenceAssumption DEF FInv, Types, ExitPcs
<1>2. /\ next \in WorkerStates /\ next.pc = pc
      /\ next.attempt = worker[w].attempt /\ next.gen = worker[w].gen
  BY <1>1 DEF WorkerStates
<1>3. worker' = [worker EXCEPT ![w] = next]
  BY DEF Leave
<1>4. worker'[w] = next
  BY <1>3 DEF FInv, Types
<1> HIDE DEF next
<1> QED BY <1>2, <1>3, <1>4

\* Closes with a status other than completed.
LEMMA ClosesMoves ==
  ASSUME FInv, NEW w \in Workers, worker[w].pc # "idle", job' = Closes(w, "closed")
  PROVE  JobsMove
<1> DEFINE a == worker[w].attempt
           row == [job[a] EXCEPT !.status = "closed"]
<1>1. CASE ~ OwnsLive(w)
  BY <1>1, JobsStay DEF Closes
<1>2. CASE OwnsLive(w)
  <2>1. a \in Attempts
    BY Held
  <2>2. job[a] \in JobRows /\ job[a].status = "running"
    BY <1>2, <2>1 DEF FInv, Types, OwnsLive
  <2>3. row \in JobRows /\ row.gen = job[a].gen /\ row.status = "closed"
    BY <2>2 DEF JobRows
  <2>4. job' = [job EXCEPT ![a] = row]
    BY <1>2 DEF Closes
  <2> HIDE DEF row, a
  <2> QED BY <2>1, <2>2, <2>3, <2>4, JobCloses
<1> QED BY <1>1, <1>2

LEMMA HoldKeeps ==
  ASSUME FInv, NEW w \in Workers, HoldDeadline(w)
  PROVE  FInv' /\ StepIsSound
<1>1. IdleWorker \in WorkerStates /\ IdleWorker.pc = "idle"
  BY FenceAssumption DEF IdleWorker, WorkerStates
<1>2. JobsMove
  BY ClosesMoves DEF HoldDeadline, Closes
<1> QED BY <1>1, <1>2, IdleFits, WorkerSteps DEF HoldDeadline, Reserving

\* Fail and Abandon, from any statement of run_lease.
LEMMA FailKeeps ==
  ASSUME FInv, NEW w \in Workers, Fail(w) \/ Abandon(w)
  PROVE  FInv' /\ StepIsSound
<1>1. Active(w) /\ worker[w].pc # "idle" /\ UNCHANGED <<inv, ledger>>
  BY DEF Fail, Abandon, Active, ActivePcs
<1>2. PICK marked \in BOOLEAN : Leave(w, marked)
  BY DEF Fail, Abandon, OwnsLive
<1>3. PICK next \in WorkerStates :
            /\ worker' = [worker EXCEPT ![w] = next]
            /\ next.pc = IF marked THEN "lost" ELSE "settling"
            /\ next.attempt = worker[w].attempt /\ next.gen = worker[w].gen
            /\ worker'[w] = next
  BY <1>1, <1>2, LeaveMoves
<1>4. JobsMove
  BY <1>1, ClosesMoves, JobsStay DEF Fail, Abandon
<1>5. ~ Completes(worker[w].attempt)
  <2>1. worker[w].attempt \in Attempts
    BY <1>1, Held
  <2>2. job \in [Attempts -> JobRows] /\ job[worker[w].attempt] \in JobRows
    BY <2>1 DEF FInv, Types
  <2>3. CASE job' = job
    BY <2>3 DEF Completes
  <2>4. CASE job' = [job EXCEPT ![worker[w].attempt].status = "closed"]
    <3>1. job'[worker[w].attempt].status = "closed"
      BY <2>1, <2>2, <2>4 DEF JobRows
    <3> QED BY <3>1 DEF Completes
  <2> QED BY <2>3, <2>4 DEF Fail, Abandon, Closes
<1>6. WorkerFits(w)'
  BY <1>1, <1>3, <1>4, <1>5, LeavingFits DEF JobsMove
<1>7. next.pc \notin Reserving
  BY <1>3 DEF Reserving
<1> QED BY <1>1, <1>3, <1>4, <1>6, <1>7, WorkerSteps

\* FinishCaptured: the worker owns the live lease, so its generation is the last
\* one, and its admitted result is still current.
LEMMA FinishKeeps ==
  ASSUME FInv, NEW w \in Workers, NEW status \in {"completed", "closed"},
         FinishCaptured(w, status)
  PROVE  FInv' /\ StepIsSound
<1> DEFINE a == worker[w].attempt
           row == [job[a] EXCEPT !.status = status]
<1>1. Active(w) /\ worker[w].pc = "reconciled" /\ UNCHANGED <<inv, ledger>>
  BY DEF FinishCaptured, Active, ActivePcs
<1>2. PICK marked \in BOOLEAN : Leave(w, marked) /\ marked = ~ OwnsLive(w)
  BY DEF FinishCaptured, OwnsLive
<1>3. PICK next \in WorkerStates :
            /\ worker' = [worker EXCEPT ![w] = next]
            /\ next.pc = IF marked THEN "lost" ELSE "settling"
            /\ next.attempt = worker[w].attempt /\ next.gen = worker[w].gen
            /\ worker'[w] = next
  BY <1>1, <1>2, LeaveMoves
<1>4. /\ a \in Attempts /\ worker[w].gen \in Generations
      /\ inv[<<a, worker[w].gen>>].digest # NoDigest
      /\ inv[<<a, worker[w].gen>>].admission = "current" \/ worker[w].gen < job[a].gen
  BY <1>1, Held
<1>5. job[a] \in JobRows /\ job[a].gen \in Int
  BY <1>4 DEF FInv, Types, JobRows
<1>6. row \in JobRows /\ row.gen = job[a].gen /\ row.status = status
  BY <1>5 DEF JobRows
<1>7. worker'[w] # worker[w]
  BY <1>1, <1>3
<1>8. JobsMove
  <2>1. CASE ~ OwnsLive(w)
    BY <2>1, JobsStay DEF FinishCaptured, Closes
  <2>2. CASE OwnsLive(w)
    <3>1. /\ job[a].status = "running" /\ job[a].gen = worker[w].gen
          /\ job' = [job EXCEPT ![a] = row]
      BY <2>2 DEF OwnsLive, FinishCaptured, Closes
    <3> HIDE DEF row, a
    <3>2. /\ job' \in [Attempts -> JobRows]
          /\ \A b \in Attempts : job'[b] = IF b = a THEN row ELSE job[b]
      BY <1>4, <1>6, <3>1 DEF FInv, Types
    <3>3. CompletesWell(a)
      <4>1. inv[<<a, job[a].gen>>].admission = "current"
        BY <1>4, <1>5, <3>1
      <4> QED BY <1>1, <1>4, <1>7, <3>1, <4>1 DEF CompletesWell, a
    <3>4. JobFits'
      BY <1>6, <3>1, <3>2 DEF FInv, JobFits
    <3> QED BY <1>6, <3>2, <3>3, <3>4, <3>1 DEF JobsMove, Completes
  <2> QED BY <2>1, <2>2
<1>9. Completes(a) => worker'[w].pc = "settling"
  BY <1>2, <1>3 DEF Completes, FinishCaptured, Closes
<1>10. WorkerFits(w)'
  BY <1>1, <1>3, <1>8, <1>9, LeavingFits DEF JobsMove
<1>11. next.pc \notin Reserving
  BY <1>3 DEF Reserving
<1> QED BY <1>1, <1>3, <1>8, <1>10, <1>11, WorkerSteps

\* LatestForAttempt looks up the attempt's last reservation.
LEMMA LatestKeeps ==
  ASSUME FInv, NEW w \in Workers, LatestForAttempt(w)
  PROVE  FInv' /\ StepIsSound
<1> DEFINE a == worker[w].attempt
           rows == ledger[a]
           pc == IF rows = << >> THEN "unreserved" ELSE "reserved"
           next == [worker[w] EXCEPT !.pc = pc, !.row = Len(rows)]
<1>1. /\ worker[w].pc = "begun" /\ UNCHANGED <<job, inv, ledger>>
      /\ worker' = [worker EXCEPT ![w] = next]
  BY DEF LatestForAttempt
<1>2. /\ a \in Attempts /\ worker[w].gen \in Generations /\ worker[w].gen <= job[a].gen
      /\ inv[<<a, worker[w].gen>>].admission # "absent"
      /\ ~ (job[a].status = "completed" /\ worker[w].gen = job[a].gen)
  BY <1>1, Held
<1>3. rows \in Seq(ReservationRows) /\ Len(rows) \in 0..MaxGenerations
  BY <1>2, LengthBounded DEF FInv, Types
<1>4. pc = "reserved" => Len(rows) \in 1..Len(rows)
  BY <1>3
<1>5. worker[w] \in WorkerStates /\ pc \in ActivePcs
  BY DEF FInv, Types, ActivePcs
<1>6. /\ next \in WorkerStates /\ next.pc = pc /\ next.row = Len(rows)
      /\ next.attempt = a /\ next.gen = worker[w].gen
  BY <1>3, <1>5 DEF WorkerStates
<1>7. pc \in {"unreserved", "reserved"}
  OBVIOUS
<1> HIDE DEF next, pc
<1>8. worker'[w] = next => WorkerFits(w)'
  BY <1>1, <1>2, <1>4, <1>6, <1>7 DEF WorkerFits, Prepared
<1>9. JobsMove
  BY <1>1, JobsStay
<1>10. worker[w].pc \in Reserving
  BY <1>1 DEF Reserving
<1> QED BY <1>1, <1>6, <1>8, <1>9, <1>10, WorkerSteps

-----------------------------------------------------------------------------
(***************************************************************************)
(* Steps that write invocations.                                           *)
(***************************************************************************)
\* A row of another invocation can only become ambiguous.
SideOnly(a, g) ==
    /\ inv'[<<a, g>>].admission = inv[<<a, g>>].admission
    /\ inv'[<<a, g>>].digest = inv[<<a, g>>].digest
    /\ inv'[<<a, g>>].dispatched = inv[<<a, g>>].dispatched
    /\ inv'[<<a, g>>].cancel = inv[<<a, g>>].cancel
    /\ \/ inv'[<<a, g>>] = inv[<<a, g>>]
       \/ inv'[<<a, g>>].side = "ambiguous" /\ inv[<<a, g>>].admission # "absent"

LEMMA InvocationSteps ==
  ASSUME FInv, NEW w \in Workers, NEW next \in WorkerStates,
         worker' = [worker EXCEPT ![w] = next],
         worker[w].pc # "idle",
         next.pc # "idle" => /\ next.attempt = worker[w].attempt
                             /\ next.gen = worker[w].gen,
         worker'[w] = next => WorkerFits(w)',
         next.pc \in Reserving => worker[w].pc \in Reserving,
         UNCHANGED <<job, ledger>>,
         inv' \in [Cells -> InvocationRows],
         worker'[w] = next => RowMoves(worker[w].attempt, worker[w].gen),
         \A a \in Attempts, g \in Generations :
            \/ a = worker[w].attempt /\ g = worker[w].gen
            \/ SideOnly(a, g),
         ResultStoredOnce', BoundDispatchIsCharged'
  PROVE  FInv' /\ StepIsSound
<1>1. /\ WorkersMove
      /\ worker'[w] = next
      /\ \A v \in Workers : v # w => worker'[v] = worker[v]
  BY OneWorkerMoves
<1>2. \A v \in Workers : worker'[v].pc \in Reserving => worker[v].pc \in Reserving
  BY <1>1
<1>3. JobsMove
  BY JobsStay
<1>4. RowsMove
  <2>1. ASSUME NEW a \in Attempts, NEW g \in Generations
        PROVE  RowMoves(a, g)
    <3>1. CASE a = worker[w].attempt /\ g = worker[w].gen
      BY <1>1, <3>1
    <3>2. CASE SideOnly(a, g)
      BY <3>2 DEF FInv, InvocationFits, SideOnly, RowMoves
    <3> QED BY <3>1, <3>2
  <2> QED BY <2>1 DEF RowsMove
<1>5. LedgersMove
  BY <1>1, <1>2, <1>3, LedgersStay
<1> QED BY <1>1, <1>3, <1>4, <1>5, MovesKeep

\* A write to the worker's own row.
LEMMA OwnRow ==
  ASSUME FInv, NEW w \in Workers, worker[w].pc # "idle",
         NEW row \in InvocationRows, inv' = [inv EXCEPT ![Mine(w)] = row]
  PROVE  /\ inv' \in [Cells -> InvocationRows]
         /\ inv'[<<worker[w].attempt, worker[w].gen>>] = row
         /\ \A a \in Attempts, g \in Generations :
               \/ a = worker[w].attempt /\ g = worker[w].gen
               \/ inv'[<<a, g>>] = inv[<<a, g>>] /\ SideOnly(a, g)
<1>1. worker[w].attempt \in Attempts /\ worker[w].gen \in Generations
  BY Held
<1>2. Mine(w) \in Cells /\ Mine(w) = <<worker[w].attempt, worker[w].gen>>
  BY <1>1 DEF Mine, Cells
<1>3. /\ inv' \in [Cells -> InvocationRows]
      /\ inv'[Mine(w)] = row
      /\ \A c \in Cells : c # Mine(w) => inv'[c] = inv[c]
  BY <1>2 DEF FInv, Types
<1>4. ASSUME NEW a \in Attempts, NEW g \in Generations,
             ~ (a = worker[w].attempt /\ g = worker[w].gen)
      PROVE  inv'[<<a, g>>] = inv[<<a, g>>]
  <2>1. <<a, g>> \in Cells /\ <<a, g>> # Mine(w)
    BY <1>2, <1>4 DEF Cells
  <2> QED BY <1>3, <2>1
<1>5. ASSUME NEW a \in Attempts, NEW g \in Generations, inv'[<<a, g>>] = inv[<<a, g>>]
      PROVE  SideOnly(a, g)
  BY <1>5 DEF SideOnly
<1>6. inv'[<<worker[w].attempt, worker[w].gen>>] = row
  BY <1>2, <1>3
<1> QED BY <1>3, <1>4, <1>5, <1>6

\* Digests that did not change are still stored once.
LEMMA DigestsStay ==
  ASSUME FInv, \A a \in Attempts, g \in Generations : inv'[<<a, g>>].digest = inv[<<a, g>>].digest
  PROVE  ResultStoredOnce'
<1> SUFFICES ASSUME NEW x \in Cells, NEW y \in Cells,
                    inv'[x].digest # NoDigest, inv'[x].digest = inv'[y].digest
             PROVE  x = y
  BY DEF ResultStoredOnce, Cells
<1>1. inv'[x].digest = inv[x].digest /\ inv'[y].digest = inv[y].digest
  BY DEF Cells
<1> QED BY <1>1 DEF FInv, ResultStoredOnce, Cells

\* A write to the worker's own row that leaves its digest alone.
LEMMA OwnRowSteps ==
  ASSUME FInv, NEW w \in Workers, NEW next \in WorkerStates, NEW row \in InvocationRows,
         worker' = [worker EXCEPT ![w] = next],
         worker[w].pc # "idle",
         next.pc # "idle" => /\ next.attempt = worker[w].attempt
                             /\ next.gen = worker[w].gen,
         worker'[w] = next /\ inv'[<<worker[w].attempt, worker[w].gen>>] = row => WorkerFits(w)',
         next.pc \in Reserving => worker[w].pc \in Reserving,
         UNCHANGED <<job, ledger>>,
         inv' = [inv EXCEPT ![Mine(w)] = row],
         row.digest = Invocation(w).digest,
         row.dispatched => row.side # "not_started",
         Invocation(w).admission = "absent" => row = Invocation(w),
         row.admission = Invocation(w).admission
            \/ /\ Invocation(w).admission # "absent"
               /\ row.admission \in {"stale", "duplicate"}
               /\ next # worker[w]
               /\ worker[w].pc \notin {"idle", "settling", "syncing"},
         Invocation(w).cancel \in TerminalCancels => row.cancel = Invocation(w).cancel,
         \/ row.dispatched = Invocation(w).dispatched
         \/ \A i \in BoundTo(worker[w].attempt, worker[w].gen) :
               ledger[worker[w].attempt][i].state \notin ZeroCost
  PROVE  FInv' /\ StepIsSound
<1> DEFINE a == worker[w].attempt
           g == worker[w].gen
<1>1. /\ inv' \in [Cells -> InvocationRows]
      /\ inv'[<<a, g>>] = row
      /\ \A b \in Attempts, h \in Generations :
            \/ b = a /\ h = g
            \/ inv'[<<b, h>>] = inv[<<b, h>>] /\ SideOnly(b, h)
  BY OwnRow
<1>2. a \in Attempts /\ g \in Generations /\ Invocation(w) = inv[<<a, g>>]
  BY Held DEF Invocation, Mine
<1>3. ResultStoredOnce'
  BY <1>1, <1>2, DigestsStay
<1>4. BoundDispatchIsCharged'
  <2> SUFFICES ASSUME NEW b \in Attempts, NEW i \in DOMAIN ledger[b],
                      ledger[b][i].bound # 0,
                      inv'[<<b, ledger[b][i].bound>>].dispatched
               PROVE  ledger[b][i].state \notin ZeroCost
    BY DEF BoundDispatchIsCharged
  <2>1. ledger[b][i].bound \in Generations
    BY ReservationTyped
  <2>2. CASE inv[<<b, ledger[b][i].bound>>].dispatched
    BY <2>2 DEF FInv, BoundDispatchIsCharged
  <2>3. CASE ~ inv[<<b, ledger[b][i].bound>>].dispatched
    <3>1. b = a /\ ledger[b][i].bound = g
      BY <1>1, <2>1, <2>3
    <3>2. i \in BoundTo(a, g)
      BY <3>1 DEF BoundTo
    <3> QED BY <1>1, <1>2, <2>3, <3>1, <3>2
  <2> QED BY <2>2, <2>3
<1>5. worker'[w] = next
  BY DEF FInv, Types
<1>6. RowMoves(a, g)
  BY <1>1, <1>2, <1>5 DEF RowMoves, Fenced
<1> HIDE DEF a, g
<1> QED BY <1>1, <1>3, <1>4, <1>6, InvocationSteps DEF a, g

\* Goto, as a move of one worker.
LEMMA GotoMoves ==
  ASSUME FInv, NEW w \in Workers,
         NEW pc \in {"idle", "claimed"} \cup ActivePcs \cup ExitPcs, Goto(w, pc)
  PROVE  \E next \in WorkerStates :
            /\ worker' = [worker EXCEPT ![w] = next]
            /\ next.pc = pc
            /\ next.attempt = worker[w].attempt /\ next.gen = worker[w].gen
            /\ next.row = worker[w].row
<1> DEFINE next == [worker[w] EXCEPT !.pc = pc]
<1>1. worker[w] \in WorkerStates
  BY DEF FInv, Types
<1>2. /\ next \in WorkerStates /\ next.pc = pc
      /\ next.attempt = worker[w].attempt /\ next.gen = worker[w].gen
      /\ next.row = worker[w].row
  BY <1>1 DEF WorkerStates
<1>3. worker' = [worker EXCEPT ![w] = next]
  BY DEF Goto
<1> HIDE DEF next
<1> QED BY <1>2, <1>3

\* The worker's own row is well formed.
LEMMA OwnRowTyped ==
  ASSUME FInv, NEW w \in Workers, worker[w].pc # "idle"
  PROVE  /\ Invocation(w) \in InvocationRows
         /\ Invocation(w) = inv[<<worker[w].attempt, worker[w].gen>>]
         /\ Invocation(w).dispatched => Invocation(w).side # "not_started"
         /\ Invocation(w).admission = "absent" => Invocation(w) = AbsentInvocation
<1>1. worker[w].attempt \in Attempts /\ worker[w].gen \in Generations
  BY Held
<1>2. Invocation(w) = inv[<<worker[w].attempt, worker[w].gen>>]
  BY DEF Invocation, Mine
<1>3. Invocation(w) \in InvocationRows
  BY <1>1, <1>2 DEF FInv, Types, Cells
<1> QED BY <1>1, <1>2, <1>3 DEF FInv, InvocationFits

\* MarkDispatchStarted: the rows bound to the generation are still reserved.
LEMMA DispatchKeeps ==
  ASSUME FInv, NEW w \in Workers, MarkDispatchStarted(w)
  PROVE  FInv' /\ StepIsSound
<1> DEFINE row == [Invocation(w) EXCEPT !.dispatched = TRUE, !.side = "possible"]
<1>1. /\ worker[w].pc = "reserved" /\ Goto(w, "dispatched") /\ IsCurrent(w)
      /\ UNCHANGED <<job, ledger>>
  BY DEF MarkDispatchStarted
<1>2. PICK next \in WorkerStates :
            /\ worker' = [worker EXCEPT ![w] = next]
            /\ next.pc = "dispatched"
            /\ next.attempt = worker[w].attempt /\ next.gen = worker[w].gen
            /\ next.row = worker[w].row
  BY <1>1, GotoMoves DEF ActivePcs
<1>3. Invocation(w) \in InvocationRows
  BY <1>1, OwnRowTyped
<1>4. /\ row \in InvocationRows /\ row.side = "possible"
      /\ row.admission = Invocation(w).admission /\ row.digest = Invocation(w).digest
      /\ row.cancel = Invocation(w).cancel
  BY <1>3 DEF InvocationRows
<1>5. inv' = [inv EXCEPT ![Mine(w)] = row]
  BY DEF MarkDispatchStarted, Invocation
<1> HIDE DEF row
<1>6. \A i \in BoundTo(worker[w].attempt, worker[w].gen) :
         ledger[worker[w].attempt][i].state \notin ZeroCost
  BY DEF MarkDispatchStarted, ZeroCost
<1>7. Invocation(w).admission = "current"
  BY <1>1 DEF IsCurrent
<1>8. ASSUME worker'[w] = next, inv'[<<worker[w].attempt, worker[w].gen>>] = row
      PROVE  WorkerFits(w)'
  BY <1>1, <1>2, <1>4, <1>7, <1>8, Held DEF WorkerFits, Prepared
<1>9. next.pc \notin Reserving /\ worker[w].pc # "idle"
  BY <1>1, <1>2 DEF Reserving
<1> QED BY <1>1, <1>2, <1>4, <1>5, <1>6, <1>7, <1>8, <1>9, OwnRowSteps

\* Cancellation only moves forward, and writes nothing else.
LEMMA CancelSteps ==
  ASSUME FInv, NEW w \in Workers, NEW next \in WorkerStates, NEW state \in CancelStates,
         worker[w].pc # "idle",
         worker' = [worker EXCEPT ![w] = next],
         next.pc = worker[w].pc, next.attempt = worker[w].attempt,
         next.gen = worker[w].gen, next.row = worker[w].row,
         Invocation(w).cancel \in TerminalCancels => state = Invocation(w).cancel,
         worker[w].pc = "claimed" => state = Invocation(w).cancel,
         inv' = [inv EXCEPT ![Mine(w)].cancel = state],
         UNCHANGED <<job, ledger>>
  PROVE  FInv' /\ StepIsSound
<1> DEFINE row == [Invocation(w) EXCEPT !.cancel = state]
<1>1. /\ Invocation(w) \in InvocationRows
      /\ Invocation(w) = inv[<<worker[w].attempt, worker[w].gen>>]
      /\ Invocation(w).dispatched => Invocation(w).side # "not_started"
  BY OwnRowTyped
<1>2. /\ row \in InvocationRows /\ row.cancel = state /\ row.side = Invocation(w).side
      /\ row.admission = Invocation(w).admission /\ row.digest = Invocation(w).digest
      /\ row.dispatched = Invocation(w).dispatched
      /\ row.request = Invocation(w).request /\ row.usage = Invocation(w).usage
  BY <1>1 DEF InvocationRows
<1>3. inv' = [inv EXCEPT ![Mine(w)] = row]
  BY DEF Invocation
<1>4. state = Invocation(w).cancel => row = Invocation(w)
  BY <1>1 DEF InvocationRows
<1> HIDE DEF row
<1>5. Invocation(w).admission = "absent" => row = Invocation(w)
  BY <1>1, <1>4, Held
<1>6. ASSUME worker'[w] = next, inv'[<<worker[w].attempt, worker[w].gen>>] = row
      PROVE  WorkerFits(w)'
  BY <1>1, <1>2, <1>6, Held DEF WorkerFits
<1> QED BY <1>1, <1>2, <1>3, <1>5, <1>6, OwnRowSteps

LEMMA RequestKeeps ==
  ASSUME FInv, NEW w \in Workers, RequestCancel(w)
  PROVE  FInv' /\ StepIsSound
<1>1. /\ worker[w].pc \notin {"idle", "claimed"} /\ worker[w] \in WorkerStates
      /\ worker' = [worker EXCEPT ![w] = worker[w]]
      /\ Invocation(w).cancel = "not_requested"
      /\ inv' = [inv EXCEPT ![Mine(w)].cancel = "requested"] /\ UNCHANGED <<job, ledger>>
  BY DEF RequestCancel, Prepared, FInv, Types
<1> QED BY <1>1, CancelSteps DEF CancelStates, TerminalCancels

LEMMA DispatchCancelKeeps ==
  ASSUME FInv, NEW w \in Workers, DispatchCancel(w)
  PROVE  FInv' /\ StepIsSound
<1> DEFINE next == [worker[w] EXCEPT !.calls = @ + 1]
           state == IF Invocation(w).cancel = "requested" THEN "dispatched"
                    ELSE Invocation(w).cancel
<1>1. worker[w].pc \notin {"idle", "claimed"} /\ worker[w] \in WorkerStates
  BY DEF DispatchCancel, Prepared, FInv, Types
<1>2. worker[w].calls + 1 \in 0..MaxCancelCalls
  BY <1>1, FenceAssumption DEF DispatchCancel, WorkerStates
<1>3. /\ next \in WorkerStates /\ next.pc = worker[w].pc /\ next.row = worker[w].row
      /\ next.attempt = worker[w].attempt /\ next.gen = worker[w].gen
  BY <1>1, <1>2 DEF WorkerStates
<1>4. Invocation(w) \in InvocationRows
  BY <1>1, OwnRowTyped
<1>5. state \in CancelStates
  BY <1>4 DEF InvocationRows, CancelStates
<1>6. /\ worker' = [worker EXCEPT ![w] = next] /\ UNCHANGED <<job, ledger>>
      /\ inv' = [inv EXCEPT ![Mine(w)].cancel = state]
  BY DEF DispatchCancel, Invocation
<1>7. Invocation(w).cancel \in TerminalCancels => state = Invocation(w).cancel
  BY DEF TerminalCancels
<1> HIDE DEF next, state
<1> QED BY <1>1, <1>3, <1>5, <1>6, <1>7, CancelSteps

LEMMA AnswerKeeps ==
  ASSUME FInv, NEW w \in Workers, NEW answer \in TerminalCancels, AnswerCancel(w, answer)
  PROVE  FInv' /\ StepIsSound
<1> DEFINE next == [worker[w] EXCEPT !.calls = @ - 1]
           open == Invocation(w).cancel = "dispatched" /\ CancelRank(answer) > CancelRank("dispatched")
           state == IF open THEN answer ELSE Invocation(w).cancel
<1>1. worker[w].pc # "idle" /\ worker[w] \in WorkerStates
  <2>1. IdleWorker.calls = 0
    BY DEF IdleWorker
  <2>2. worker[w].pc = "idle" => worker[w] = IdleWorker
    BY DEF FInv, WorkerFits
  <2>3. worker[w].calls > 0 /\ worker[w] \in WorkerStates
    BY DEF AnswerCancel, FInv, Types
  <2> QED BY <2>1, <2>2, <2>3
<1>2. worker[w].calls - 1 \in 0..MaxCancelCalls
  BY <1>1, FenceAssumption DEF AnswerCancel, WorkerStates
<1>3. /\ next \in WorkerStates /\ next.pc = worker[w].pc /\ next.row = worker[w].row
      /\ next.attempt = worker[w].attempt /\ next.gen = worker[w].gen
  BY <1>1, <1>2 DEF WorkerStates
<1>4. /\ Invocation(w) \in InvocationRows
      /\ Invocation(w) = inv[<<worker[w].attempt, worker[w].gen>>]
      /\ Invocation(w).admission = "absent" => Invocation(w) = AbsentInvocation
  BY <1>1, OwnRowTyped
<1>5. state \in CancelStates
  BY <1>4 DEF InvocationRows, CancelStates
<1>6. Mine(w) \in Cells
  BY <1>1, Held DEF Mine, Cells
<1>7. worker' = [worker EXCEPT ![w] = next] /\ UNCHANGED <<job, ledger>>
  BY DEF AnswerCancel
<1>8. inv' = [inv EXCEPT ![Mine(w)].cancel = state]
  <2>1. CASE open
    BY <2>1 DEF AnswerCancel
  <2>2. CASE ~ open
    <3>1. inv' = inv
      BY <2>2 DEF AnswerCancel
    <3>2. [Invocation(w) EXCEPT !.cancel = Invocation(w).cancel] = Invocation(w)
      BY <1>4 DEF InvocationRows
    <3>3. [inv EXCEPT ![Mine(w)] = inv[Mine(w)]] = inv
      BY <1>6 DEF FInv, Types
    <3> QED BY <2>2, <3>1, <3>2, <3>3 DEF Invocation
  <2> QED BY <2>1, <2>2
<1>9. Invocation(w).cancel \in TerminalCancels => state = Invocation(w).cancel
  BY DEF TerminalCancels
<1>10. worker[w].pc = "claimed" => state = Invocation(w).cancel
  <2>1. AbsentInvocation.cancel = "not_requested"
    BY DEF AbsentInvocation
  <2> QED BY <1>1, <1>4, <2>1, Held
<1> HIDE DEF next, state
<1> QED BY <1>1, <1>3, <1>5, <1>7, <1>8, <1>9, <1>10, CancelSteps

\* MarkLeaseLost: the worker fences its own invocation.
LEMMA LostKeeps ==
  ASSUME FInv, NEW w \in Workers, MarkLeaseLost(w)
  PROVE  FInv' /\ StepIsSound
<1> DEFINE old == Invocation(w)
           row == [old EXCEPT !.admission = IF @ = "duplicate" THEN @ ELSE "stale",
                              !.side = Ambiguous(@)]
<1>1. worker[w].pc = "lost" /\ Goto(w, "settling") /\ UNCHANGED <<job, ledger>>
  BY DEF MarkLeaseLost
<1>2. PICK next \in WorkerStates :
            /\ worker' = [worker EXCEPT ![w] = next]
            /\ next.pc = "settling"
            /\ next.attempt = worker[w].attempt /\ next.gen = worker[w].gen
            /\ next.row = worker[w].row
  BY <1>1, GotoMoves DEF ExitPcs
<1>3. /\ old \in InvocationRows /\ old = inv[<<worker[w].attempt, worker[w].gen>>]
      /\ old.dispatched => old.side # "not_started"
  BY <1>1, OwnRowTyped
<1>4. /\ row \in InvocationRows /\ row.admission \in {"stale", "duplicate"}
      /\ row.side = Ambiguous(old.side)
      /\ row.digest = old.digest /\ row.dispatched = old.dispatched /\ row.cancel = old.cancel
  BY <1>3 DEF InvocationRows, Ambiguous
<1>5. inv' = [inv EXCEPT ![Mine(w)] = row]
  BY DEF MarkLeaseLost, Invocation
<1>6. old.admission # "absent"
  BY <1>1, <1>3, Held
<1> HIDE DEF row
<1>7. row.dispatched => row.side # "not_started"
  BY <1>3, <1>4 DEF Ambiguous
<1>8. ASSUME worker'[w] = next, inv'[<<worker[w].attempt, worker[w].gen>>] = row
      PROVE  WorkerFits(w)'
  BY <1>1, <1>2, <1>4, <1>8, Held DEF WorkerFits, Prepared
<1>9. next.pc \notin Reserving /\ worker[w].pc \notin {"idle", "settling", "syncing"} /\ next # worker[w]
  BY <1>1, <1>2 DEF Reserving
<1> QED BY <1>1, <1>2, <1>4, <1>5, <1>6, <1>7, <1>8, <1>9, OwnRowSteps

\* SynchronizeUsageState: an invocation that was dispatched has no free row, so
\* it is never said not to have started.
LEMMA SynchronizeKeeps ==
  ASSUME FInv, NEW w \in Workers, SynchronizeUsageState(w)
  PROVE  FInv' /\ StepIsSound
<1> DEFINE a == worker[w].attempt
           g == worker[w].gen
           old == Invocation(w)
           states == {ledger[a][i].state : i \in BoundTo(a, g)}
           row == Synchronized(old, states)
<1>1. /\ worker[w].pc = "syncing" /\ worker' = [worker EXCEPT ![w] = IdleWorker]
      /\ inv' = [inv EXCEPT ![Mine(w)] = row] /\ UNCHANGED <<job, ledger>>
  BY DEF SynchronizeUsageState, Invocation
<1>2. /\ old \in InvocationRows /\ old = inv[<<a, g>>]
      /\ old.dispatched => old.side # "not_started"
  BY <1>1, OwnRowTyped
<1>3. a \in Attempts /\ g \in Generations /\ g # 0 /\ old.admission # "absent"
  BY <1>1, <1>2, Held, FenceAssumption DEF Generations
<1>4. old.dispatched => \A s \in states : s \notin ZeroCost
  BY <1>2, <1>3 DEF FInv, BoundDispatchIsCharged, BoundTo
<1> HIDE DEF states
<1>5. \/ row = old
      \/ \E u \in {"disputed", "unknown", "reconciled", "not_observed"},
            s \in {"ambiguous", "reconciled", "not_started"} :
            /\ row = [old EXCEPT !.usage = u, !.side = s]
            /\ s = "not_started" => states # {} /\ states \subseteq ZeroCost
  BY DEF Synchronized
<1>6. /\ row \in InvocationRows /\ row.admission = old.admission
      /\ row.digest = old.digest /\ row.dispatched = old.dispatched /\ row.cancel = old.cancel
      /\ row.side = "not_started" =>
            old.side = "not_started" \/ (states # {} /\ states \subseteq ZeroCost)
  <2> HIDE DEF row
  <2>1. CASE row = old
    BY <1>2, <2>1
  <2>2. ASSUME NEW u \in {"disputed", "unknown", "reconciled", "not_observed"},
               NEW s \in {"ambiguous", "reconciled", "not_started"},
               row = [old EXCEPT !.usage = u, !.side = s],
               s = "not_started" => states # {} /\ states \subseteq ZeroCost
        PROVE  <1>6!:
    BY <1>2, <2>2 DEF InvocationRows
  <2> QED BY <1>5, <2>1, <2>2
<1> HIDE DEF row
<1>7. row.dispatched => row.side # "not_started"
  BY <1>2, <1>4, <1>6
<1>8. IdleWorker \in WorkerStates /\ IdleWorker.pc = "idle"
  BY FenceAssumption DEF IdleWorker, WorkerStates
<1>9. "idle" \notin Reserving
  BY DEF Reserving
<1> QED BY <1>1, <1>3, <1>6, <1>7, <1>8, <1>9, IdleFits, OwnRowSteps

\* A write to one row that makes others ambiguous.
LEMMA AmbiguousOthers ==
  ASSUME FInv, NEW a \in Attempts, NEW g \in Generations, NEW row \in InvocationRows,
         inv' = [x \in Cells |-> inv'[x]], inv'[<<a, g>>] = row,
         \A x \in Cells : x # <<a, g>> =>
            \/ inv'[x] = inv[x]
            \/ /\ inv[x].admission # "absent"
               /\ inv'[x] = [inv[x] EXCEPT !.side = "ambiguous"]
  PROVE  /\ inv' \in [Cells -> InvocationRows]
         /\ \A b \in Attempts, h \in Generations : (b = a /\ h = g) \/ SideOnly(b, h)
<1>1. <<a, g>> \in Cells
  BY DEF Cells
<1>2. ASSUME NEW x \in Cells
      PROVE  /\ inv[x] \in InvocationRows
             /\ [inv[x] EXCEPT !.side = "ambiguous"] \in InvocationRows
  BY DEF FInv, Types, InvocationRows
<1>3. inv' \in [Cells -> InvocationRows]
  <2>1. \A x \in Cells : inv'[x] \in InvocationRows
    BY <1>1, <1>2
  <2> QED BY <2>1
<1>4. ASSUME NEW b \in Attempts, NEW h \in Generations, ~ (b = a /\ h = g)
      PROVE  SideOnly(b, h)
  <2> DEFINE c == <<b, h>>
  <2>1. c \in Cells /\ c # <<a, g>>
    BY <1>4 DEF Cells
  <2>2. CASE inv'[c] = inv[c]
    BY <2>2 DEF SideOnly
  <2>3. CASE inv'[c] = [inv[c] EXCEPT !.side = "ambiguous"] /\ inv[c].admission # "absent"
    <3>1. inv[c] \in InvocationRows
      BY <1>2, <2>1
    <3> QED BY <2>3, <3>1 DEF SideOnly, InvocationRows
  <2> QED BY <2>1, <2>2, <2>3
<1> QED BY <1>3, <1>4

\* ObserveProviderRequest: holders of a shared identity become ambiguous, and
\* the worker's own row is no longer current.
LEMMA ObserveKeeps ==
  ASSUME FInv, NEW w \in Workers, NEW r \in RequestIds, ObserveProviderRequest(w, r)
  PROVE  FInv' /\ StepIsSound
<1> DEFINE a == worker[w].attempt
           g == worker[w].gen
           old == Invocation(w)
           others == SharingRequest(w, r)
           pc == IF others = {} THEN "observed" ELSE "failing"
           row == [old EXCEPT !.request = r,
                              !.side = IF others = {} THEN "observed" ELSE "ambiguous",
                              !.admission = IF others = {} THEN @ ELSE "duplicate"]
<1>1. /\ worker[w].pc = "dispatched" /\ Goto(w, pc) /\ UNCHANGED <<job, ledger>>
      /\ old.admission = "current"
  BY DEF ObserveProviderRequest, IsCurrent
<1>2. pc \in {"observed", "failing"}
  OBVIOUS
<1>3. PICK next \in WorkerStates :
            /\ worker' = [worker EXCEPT ![w] = next]
            /\ next.pc = pc
            /\ next.attempt = a /\ next.gen = g
            /\ next.row = worker[w].row
  BY <1>1, <1>2, GotoMoves DEF ActivePcs
<1>4. /\ old \in InvocationRows /\ old = inv[<<a, g>>]
      /\ a \in Attempts /\ g \in Generations /\ Mine(w) = <<a, g>> /\ DOMAIN inv = Cells
  BY <1>1, OwnRowTyped, Held DEF Mine, FInv, Types
<1>5. /\ row \in InvocationRows /\ row.side # "not_started"
      /\ row.admission = (IF others = {} THEN "current" ELSE "duplicate")
      /\ row.digest = old.digest /\ row.dispatched = old.dispatched /\ row.cancel = old.cancel
  BY <1>1, <1>4 DEF InvocationRows
<1>6. \A x \in others : x \in Cells /\ inv[x].admission # "absent"
  <2>1. AbsentInvocation.request = NoRequest
    BY DEF AbsentInvocation
  <2>2. \A x \in Cells : inv[x].admission = "absent" => inv[x] = AbsentInvocation
    BY DEF FInv, InvocationFits, Cells
  <2> QED BY <1>4, <2>1, <2>2, FenceAssumption DEF SharingRequest
<1>7. /\ inv' = [x \in Cells |-> inv'[x]] /\ inv'[<<a, g>>] = row
      /\ \A x \in Cells : x # <<a, g>> =>
            \/ inv'[x] = inv[x]
            \/ /\ inv[x].admission # "absent"
               /\ inv'[x] = [inv[x] EXCEPT !.side = "ambiguous"]
  <2>1. inv' = [x \in Cells |-> IF x = <<a, g>> THEN row
                                ELSE IF x \in others THEN [inv[x] EXCEPT !.side = "ambiguous"]
                                ELSE inv[x]]
    BY <1>4 DEF ObserveProviderRequest
  <2>2. <<a, g>> \in Cells
    BY <1>4 DEF Cells
  <2> HIDE DEF row, others, a, g
  <2> QED BY <1>6, <2>1, <2>2
<1> HIDE DEF row, others
<1>8. /\ inv' \in [Cells -> InvocationRows]
      /\ \A b \in Attempts, h \in Generations : (b = a /\ h = g) \/ SideOnly(b, h)
  <2>1. a \in Attempts /\ g \in Generations /\ row \in InvocationRows
    BY <1>4, <1>5
  <2> HIDE DEF a, g
  <2> QED BY <1>7, <2>1, AmbiguousOthers
<1>9. RowMoves(a, g) \/ worker'[w] # next
  <2>1. next # worker[w]
    BY <1>1, <1>2, <1>3
  <2> QED BY <1>1, <1>4, <1>5, <1>7, <1>8, <2>1 DEF RowMoves, Fenced
<1>10. worker'[w] = next => WorkerFits(w)'
  <2> SUFFICES ASSUME worker'[w] = next
               PROVE  WorkerFits(w)'
    OBVIOUS
  <2> QED BY <1>1, <1>2, <1>3, <1>4, <1>5, <1>7, <1>8, Held DEF WorkerFits, Prepared
<1>11. \A b \in Attempts, h \in Generations :
          /\ inv'[<<b, h>>].digest = inv[<<b, h>>].digest
          /\ inv'[<<b, h>>].dispatched = inv[<<b, h>>].dispatched
  BY <1>4, <1>5, <1>7, <1>8 DEF SideOnly
<1>12. ResultStoredOnce' /\ BoundDispatchIsCharged'
  BY <1>1, <1>11, DigestsStay, ChargedStays
<1>13. next.pc \notin Reserving /\ worker[w].pc # "idle"
  BY <1>1, <1>2, <1>3 DEF Reserving
<1> HIDE DEF a, g
<1> QED BY <1>1, <1>3, <1>8, <1>9, <1>10, <1>12, <1>13, InvocationSteps DEF a, g

\* AdmitTerminal: a digest is stored only if no other invocation has it, and
\* the worker goes on only if its generation is current and owns the lease.
LEMMA AdmitKeeps ==
  ASSUME FInv, NEW w \in Workers, NEW d \in Digests, NEW u \in {"observed", "unknown"},
         AdmitTerminal(w, d, u)
  PROVE  FInv' /\ StepIsSound
<1> DEFINE a == worker[w].attempt
           g == worker[w].gen
           old == Invocation(w)
           sharing == SharingDigest(w, d)
           admitted == sharing = {} /\ IsCurrent(w) /\ OwnsLive(w)
           others == IF old.digest = NoDigest THEN sharing ELSE {}
           pc == IF admitted /\ old.digest = NoDigest THEN "admitted" ELSE "refused"
           row == IF old.digest # NoDigest THEN old
                  ELSE IF sharing # {}
                  THEN [old EXCEPT !.side = "ambiguous", !.usage = u,
                                   !.admission = IF @ = "current" THEN "duplicate" ELSE @]
                  ELSE IF ~ admitted
                  THEN [old EXCEPT !.side = "ambiguous", !.usage = u, !.digest = d,
                                   !.admission = IF @ = "duplicate" THEN @ ELSE "stale"]
                  ELSE [old EXCEPT !.side = IF u = "unknown" THEN "ambiguous" ELSE "observed",
                                   !.usage = u, !.digest = d]
<1>1. /\ worker[w].pc \in {"dispatched", "observed"} /\ Goto(w, pc) /\ UNCHANGED <<job, ledger>>
  BY DEF AdmitTerminal
<1>2. pc \in {"admitted", "refused"}
  OBVIOUS
<1>3. PICK next \in WorkerStates :
            /\ worker' = [worker EXCEPT ![w] = next]
            /\ next.pc = pc
            /\ next.attempt = a /\ next.gen = g
            /\ next.row = worker[w].row
  BY <1>1, <1>2, GotoMoves DEF ActivePcs
<1>4. /\ old \in InvocationRows /\ old = inv[<<a, g>>] /\ old.admission # "absent"
      /\ old.dispatched => old.side # "not_started"
      /\ a \in Attempts /\ g \in Generations /\ Mine(w) = <<a, g>> /\ DOMAIN inv = Cells
  BY <1>1, OwnRowTyped, Held DEF Mine, FInv, Types
<1>5. /\ row \in InvocationRows /\ row.admission # "absent"
      /\ row.admission = "current" => old.admission = "current"
      /\ row.dispatched = old.dispatched /\ row.cancel = old.cancel
      /\ row = old \/ row.side # "not_started"
      /\ row.digest = old.digest \/ (old.digest = NoDigest /\ sharing = {} /\ row.digest = d)
      /\ old.digest # NoDigest => row = old
      /\ pc = "admitted" => row.digest = d /\ row.admission = "current"
  <2>1. CASE old.digest # NoDigest
    BY <1>4, <2>1
  <2>2. CASE old.digest = NoDigest /\ sharing # {}
    BY <1>4, <2>2 DEF InvocationRows
  <2>3. CASE old.digest = NoDigest /\ sharing = {} /\ ~ admitted
    <3> DEFINE fenced == IF old.admission = "duplicate" THEN old.admission ELSE "stale"
    <3>1. row = [old EXCEPT !.side = "ambiguous", !.usage = u, !.digest = d,
                            !.admission = fenced]
      BY <2>3
    <3>2. pc = "refused" /\ fenced \in {"stale", "duplicate"}
      BY <2>3
    <3> HIDE DEF row, pc, old, fenced, admitted, sharing
    <3>3. /\ row \in InvocationRows /\ row.admission = fenced /\ row.side = "ambiguous"
          /\ row.digest = d /\ row.dispatched = old.dispatched /\ row.cancel = old.cancel
      <4>1. PICK o, z : o = old /\ z = fenced
        OBVIOUS
      <4>2. o \in InvocationRows /\ z \in {"stale", "duplicate"}
        BY <1>4, <3>2, <4>1
      <4>3. row = [o EXCEPT !.side = "ambiguous", !.usage = u, !.digest = d, !.admission = z]
        BY <3>1, <4>1
      <4>4. row \in InvocationRows
        <5>1. row = [admission |-> z, side |-> "ambiguous", usage |-> u, dispatched |-> o.dispatched,
                     cancel |-> o.cancel, request |-> o.request, digest |-> d]
          BY <4>2, <4>3 DEF InvocationRows
        <5>2. /\ o.dispatched \in BOOLEAN /\ o.cancel \in CancelStates
              /\ o.request \in RequestIds \cup {NoRequest}
          BY <4>2 DEF InvocationRows
        <5> QED
          BY <4>2, <5>1, <5>2 DEF InvocationRows
      <4>5. /\ row.admission = z /\ row.side = "ambiguous" /\ row.digest = d
            /\ row.dispatched = o.dispatched /\ row.cancel = o.cancel
        BY <4>2, <4>3, SMTT(30) DEF InvocationRows
      <4> QED
        BY <4>1, <4>4, <4>5
    <3> QED BY <2>3, <3>2, <3>3
  <2>4. CASE old.digest = NoDigest /\ admitted
    <3>1. old.admission = "current"
      BY <2>4 DEF IsCurrent
    <3> QED BY <1>4, <2>4, <3>1 DEF InvocationRows
  <2> QED BY <2>1, <2>2, <2>3, <2>4
<1>6. \A x \in others : x \in Cells /\ inv[x].admission # "absent"
  <2>1. AbsentInvocation.digest = NoDigest
    BY DEF AbsentInvocation
  <2>2. \A x \in Cells : inv[x].admission = "absent" => inv[x] = AbsentInvocation
    BY DEF FInv, InvocationFits, Cells
  <2> QED BY <1>4, <2>1, <2>2, FenceAssumption DEF SharingDigest
<1>7. /\ inv' = [x \in Cells |-> inv'[x]] /\ inv'[<<a, g>>] = row
      /\ \A x \in Cells : x # <<a, g>> =>
            \/ inv'[x] = inv[x]
            \/ /\ inv[x].admission # "absent"
               /\ inv'[x] = [inv[x] EXCEPT !.side = "ambiguous"]
  <2>1. inv' = [x \in Cells |-> IF x = <<a, g>> THEN row
                                ELSE IF x \in others THEN [inv[x] EXCEPT !.side = "ambiguous"]
                                ELSE inv[x]]
    BY <1>4 DEF AdmitTerminal
  <2>2. <<a, g>> \in Cells
    BY <1>4 DEF Cells
  <2> HIDE DEF row, others, a, g
  <2> QED BY <1>6, <2>1, <2>2
<1> HIDE DEF row, others, pc
<1>8. /\ inv' \in [Cells -> InvocationRows]
      /\ \A b \in Attempts, h \in Generations : (b = a /\ h = g) \/ SideOnly(b, h)
  <2>1. a \in Attempts /\ g \in Generations /\ row \in InvocationRows
    BY <1>4, <1>5
  <2> HIDE DEF a, g
  <2> QED BY <1>7, <2>1, AmbiguousOthers
<1>9. RowMoves(a, g) \/ worker'[w] # next
  <2>1. next # worker[w]
    BY <1>1, <1>2, <1>3
  <2> QED BY <1>1, <1>4, <1>5, <1>7, <1>8, <2>1 DEF RowMoves, Fenced
<1>10. worker'[w] = next => WorkerFits(w)'
  <2> SUFFICES ASSUME worker'[w] = next
               PROVE  WorkerFits(w)'
    OBVIOUS
  <2> QED BY <1>1, <1>2, <1>3, <1>4, <1>5, <1>7, <1>8, Held, FenceAssumption DEF WorkerFits, Prepared
<1>11. ResultStoredOnce'
  <2>1. CASE row.digest = old.digest
    <3>1. \A b \in Attempts, h \in Generations : inv'[<<b, h>>].digest = inv[<<b, h>>].digest
      BY <1>4, <1>7, <1>8, <2>1 DEF SideOnly
    <3> QED BY <3>1, DigestsStay
  <2>2. CASE sharing = {} /\ row.digest = d
    <3> SUFFICES ASSUME NEW x \in Cells, NEW y \in Cells,
                        inv'[x].digest # NoDigest, inv'[x].digest = inv'[y].digest
                 PROVE  x = y
      BY DEF ResultStoredOnce, Cells
    <3>1. \A z \in Cells : z # <<a, g>> =>
             inv'[z].digest = inv[z].digest /\ inv[z].digest # d
      BY <1>4, <1>7, <1>8, <2>2 DEF SideOnly, Cells, SharingDigest
    <3>2. inv'[<<a, g>>].digest = d
      BY <1>7, <2>2
    <3> QED BY <3>1, <3>2 DEF FInv, ResultStoredOnce, Cells
  <2> QED BY <1>5, <2>1, <2>2
<1>12. BoundDispatchIsCharged'
  <2>1. \A b \in Attempts, h \in Generations :
          inv'[<<b, h>>].dispatched = inv[<<b, h>>].dispatched
    BY <1>4, <1>5, <1>7, <1>8 DEF SideOnly
  <2> QED BY <1>1, <2>1, ChargedStays
<1>13. next.pc \notin Reserving /\ worker[w].pc # "idle"
  BY <1>1, <1>2, <1>3 DEF Reserving
<1> HIDE DEF a, g
<1> QED BY <1>1, <1>3, <1>8, <1>9, <1>10, <1>11, <1>12, <1>13, InvocationSteps DEF a, g

-----------------------------------------------------------------------------
(***************************************************************************)
(* Steps that write the ledger.                                            *)
(***************************************************************************)
\* Rows of one attempt are rewritten in place: open ones only, and free only
\* where nothing was dispatched.
LEMMA LedgerRewrites ==
  ASSUME FInv, NEW a \in Attempts, NEW rows \in Seq(ReservationRows),
         ledger' = [ledger EXCEPT ![a] = rows],
         Len(rows) = Len(ledger[a]),
         \A i \in 1..Len(ledger[a]) :
            \/ rows[i] = ledger[a][i]
            \/ /\ ledger[a][i].state \notin Settled
               /\ rows[i].bound = ledger[a][i].bound
               /\ rows[i].state \in ZeroCost =>
                     /\ ledger[a][i].state = "reserved"
                     /\ rows[i].bound # 0 => inv[<<a, rows[i].bound>>].side = "not_started",
         UNCHANGED <<job, inv>>, WorkersMove,
         \A v \in Workers : worker'[v].pc \in Reserving => worker[v].pc \in Reserving
  PROVE  LedgersMove
<1>1. /\ ledger' \in [Attempts -> Seq(ReservationRows)]
      /\ \A b \in Attempts : ledger'[b] = IF b = a THEN rows ELSE ledger[b]
  BY DEF FInv, Types
<1>2. \A b \in Attempts : Len(ledger'[b]) = Len(ledger[b]) /\ Len(ledger[b]) \in Nat
  BY <1>1 DEF FInv, Types
<1>3. RowsPerGeneration'
  BY <1>2, CountStays
<1>4. \A b \in Attempts : DOMAIN ledger[b] = 1..Len(ledger[b]) /\ DOMAIN ledger'[b] = DOMAIN ledger[b]
  BY <1>1, <1>2 DEF FInv, Types
<1>5. LedgerStands
  <2> SUFFICES ASSUME NEW b \in Attempts, NEW i \in DOMAIN ledger[b]
               PROVE  /\ ledger[b][i].state \in Settled => ledger'[b][i] = ledger[b][i]
                      /\ ledger[b][i].state \in {"unknown_usage", "disputed"} =>
                            ledger'[b][i].state \notin ZeroCost
    BY DEF LedgerStands
  <2>1. CASE ledger'[b][i] = ledger[b][i]
    BY <2>1 DEF ZeroCost
  <2>2. CASE b = a
    BY <1>1, <1>4, <2>2 DEF ZeroCost
  <2> QED BY <1>1, <2>1, <2>2
<1>6. BoundDispatchIsCharged'
  <2> SUFFICES ASSUME NEW b \in Attempts, NEW i \in DOMAIN ledger'[b],
                      ledger'[b][i].bound # 0,
                      inv[<<b, ledger'[b][i].bound>>].dispatched
               PROVE  ledger'[b][i].state \notin ZeroCost
    BY DEF BoundDispatchIsCharged
  <2>1. i \in DOMAIN ledger[b] /\ i \in 1..Len(ledger[b])
    BY <1>4
  <2>2. CASE ledger'[b][i] = ledger[b][i]
    BY <2>1, <2>2 DEF FInv, BoundDispatchIsCharged
  <2>3. CASE b = a /\ ledger'[b][i] # ledger[b][i]
    <3>1. ledger'[b][i] = rows[i] /\ rows[i].bound = ledger[b][i].bound
      BY <1>1, <2>1, <2>3
    <3>2. ledger[b][i].bound \in Generations
      BY <2>1, <3>1, ReservationTyped
    <3>3. inv[<<b, ledger[b][i].bound>>].side # "not_started"
      <4> DEFINE g == ledger[b][i].bound
      <4>1. inv[<<b, g>>].dispatched
        BY <3>1
      <4>2. g \in Generations
        BY <3>2
      <4> HIDE DEF g
      <4>3. inv[<<b, g>>].dispatched => inv[<<b, g>>].side # "not_started"
        BY <4>2 DEF FInv, InvocationFits
      <4> QED BY <4>1, <4>3 DEF g
    <3> QED BY <2>1, <2>3, <3>1, <3>3
  <2> QED BY <1>1, <2>2, <2>3
<1>7. \A b \in Attempts : Len(ledger'[b]) >= Len(ledger[b])
  BY <1>2
<1> QED BY <1>1, <1>3, <1>5, <1>6, <1>7 DEF LedgersMove

\* One row is rewritten.
LEMMA RowRewrites ==
  ASSUME FInv, NEW a \in Attempts, NEW i \in 1..Len(ledger[a]), NEW row \in ReservationRows,
         ledger' = [ledger EXCEPT ![a] = [ledger[a] EXCEPT ![i] = row]],
         ledger[a][i].state \notin Settled,
         row.bound = ledger[a][i].bound,
         row.state \in ZeroCost =>
            /\ ledger[a][i].state = "reserved"
            /\ row.bound # 0 => inv[<<a, row.bound>>].side = "not_started",
         UNCHANGED <<job, inv>>, WorkersMove,
         \A v \in Workers : worker'[v].pc \in Reserving => worker[v].pc \in Reserving
  PROVE  LedgersMove
<1> DEFINE rows == [ledger[a] EXCEPT ![i] = row]
<1>1. ledger[a] \in Seq(ReservationRows)
  BY DEF FInv, Types
<1>2. /\ rows \in Seq(ReservationRows) /\ Len(rows) = Len(ledger[a])
      /\ \A j \in 1..Len(ledger[a]) : rows[j] = IF j = i THEN row ELSE ledger[a][j]
  BY <1>1
<1> HIDE DEF rows
<1> QED BY <1>2, LedgerRewrites DEF rows

\* Release and Expire, which any process may call.
LEMMA MaintenanceKeeps ==
  ASSUME FInv, NEW a \in Attempts, NEW i \in Generations, Release(a, i) \/ Expire(a, i)
  PROVE  FInv' /\ StepIsSound
<1>1. /\ i \in DOMAIN ledger[a] /\ ledger[a][i].state = "reserved"
      /\ UNCHANGED <<job, inv, worker>>
  BY DEF Release, Expire
<1>2. /\ i \in 1..Len(ledger[a]) /\ ledger[a][i] \in ReservationRows
  BY <1>1, ReservationTyped
<1>3. PICK state \in {"released", "expired", "unknown_usage"} :
         /\ ledger' = [ledger EXCEPT ![a][i].state = state]
         /\ state # "unknown_usage" => Unsent(a, ledger[a][i])
  BY DEF Release, Expire
<1> DEFINE row == [ledger[a][i] EXCEPT !.state = state]
<1>4. /\ row \in ReservationRows /\ row.state = state /\ row.bound = ledger[a][i].bound
  BY <1>2 DEF ReservationRows, Settled, Unresolved
<1>5. ledger' = [ledger EXCEPT ![a] = [ledger[a] EXCEPT ![i] = row]]
  BY <1>3
<1> HIDE DEF row
<1>6. WorkersMove
  BY <1>1 DEF FInv, Types, WorkersMove
<1>7. LedgersMove
  <2>1. ledger[a][i].state \notin Settled
    BY <1>1 DEF Settled
  <2>2. row.state \in ZeroCost =>
            /\ ledger[a][i].state = "reserved"
            /\ row.bound # 0 => inv[<<a, row.bound>>].side = "not_started"
    BY <1>1, <1>3, <1>4 DEF Unsent, ZeroCost
  <2>3. \A v \in Workers : worker'[v].pc \in Reserving => worker[v].pc \in Reserving
    BY <1>1
  <2> QED BY <1>1, <1>2, <1>4, <1>5, <1>6, <2>1, <2>2, <2>3, RowRewrites
<1>8. JobsMove /\ RowsMove
  BY <1>1, JobsStay, RowsStay
<1> QED BY <1>6, <1>7, <1>8, MovesKeep

\* Reconcile settles the worker's row with a price or as unknown.
LEMMA ReconcileKeeps ==
  ASSUME FInv, NEW w \in Workers, NEW s \in Settlements, Reconcile(w, s)
  PROVE  FInv' /\ StepIsSound
<1> DEFINE a == worker[w].attempt
           i == worker[w].row
           row == [ledger[a][i] EXCEPT !.state = s.state, !.cost = s.cost]
<1>1. /\ worker[w].pc = "admitted" /\ Goto(w, "reconciled") /\ UNCHANGED <<job, inv>>
      /\ ledger[a][i].state \notin Settled
  BY DEF Reconcile, Open
<1>2. a \in Attempts /\ i \in 1..Len(ledger[a])
  BY <1>1, Held DEF Prepared
<1>3. PICK next \in WorkerStates :
            /\ worker' = [worker EXCEPT ![w] = next]
            /\ next.pc = "reconciled"
            /\ next.attempt = worker[w].attempt /\ next.gen = worker[w].gen
            /\ next.row = worker[w].row
  BY <1>1, GotoMoves DEF ActivePcs
<1>4. s.state \in {"unknown_usage", "disputed", "committed"} /\ s.cost \in (0..ReserveCost) \cup {NoCost}
  BY DEF Settlements, Settlement
<1>5. ledger[a] \in Seq(ReservationRows) /\ ledger[a][i] \in ReservationRows
  BY <1>2 DEF FInv, Types
<1>6. row \in ReservationRows /\ row.state = s.state /\ row.bound = ledger[a][i].bound
  BY <1>4, <1>5 DEF ReservationRows, Settled, Unresolved
<1>7. ledger' = [ledger EXCEPT ![a] = [ledger[a] EXCEPT ![i] = row]]
  BY DEF Reconcile
<1> HIDE DEF row
<1>8. worker'[w] = next => WorkerFits(w)'
  <2> SUFFICES ASSUME worker'[w] = next
               PROVE  WorkerFits(w)'
    OBVIOUS
  <2>1. Len(ledger'[a]) = Len(ledger[a])
    BY <1>2, <1>5, <1>7 DEF FInv, Types
  <2> QED BY <1>1, <1>2, <1>3, <2>1, Held DEF WorkerFits
<1>9. /\ WorkersMove /\ worker'[w] = next
      /\ \A v \in Workers : v # w => worker'[v] = worker[v]
  BY <1>1, <1>3, <1>8, OneWorkerMoves
<1>10. \A v \in Workers : worker'[v].pc \in Reserving => worker[v].pc \in Reserving
  BY <1>3, <1>9 DEF Reserving
<1> HIDE DEF a, i
<1>11. LedgersMove
  BY <1>1, <1>2, <1>4, <1>6, <1>7, <1>9, <1>10, RowRewrites DEF ZeroCost
<1>12. JobsMove /\ RowsMove
  BY <1>1, JobsStay, RowsStay
<1> QED BY <1>9, <1>11, <1>12, MovesKeep

\* SettleOpenForInvocation: what is still reserved becomes free only if the
\* invocation never started.
LEMMA SettleKeeps ==
  ASSUME FInv, NEW w \in Workers, SettleOpenForInvocation(w)
  PROVE  FInv' /\ StepIsSound
<1> DEFINE a == worker[w].attempt
           g == worker[w].gen
           old == ledger[a]
           rows == [i \in DOMAIN old |-> SettledFor(a, g, old[i])]
<1>1. /\ worker[w].pc = "settling" /\ Goto(w, "syncing") /\ UNCHANGED <<job, inv>>
      /\ ledger' = [ledger EXCEPT ![a] = rows]
  BY DEF SettleOpenForInvocation
<1>2. a \in Attempts /\ g \in Generations
  BY <1>1, Held
<1>3. PICK next \in WorkerStates :
            /\ worker' = [worker EXCEPT ![w] = next]
            /\ next.pc = "syncing"
            /\ next.attempt = worker[w].attempt /\ next.gen = worker[w].gen
            /\ next.row = worker[w].row
  BY <1>1, GotoMoves DEF ExitPcs
<1>4. /\ old \in Seq(ReservationRows) /\ DOMAIN old = 1..Len(old) /\ Len(old) \in Nat
      /\ \A i \in 1..Len(old) : old[i] \in ReservationRows
  BY <1>2 DEF FInv, Types
<1>5. ASSUME NEW row \in ReservationRows
      PROVE  /\ SettledFor(a, g, row) \in ReservationRows
             /\ \/ SettledFor(a, g, row) = row
                \/ /\ row.state = "reserved"
                   /\ SettledFor(a, g, row).bound = row.bound
                   /\ SettledFor(a, g, row).state \in ZeroCost =>
                         inv[<<a, SettledFor(a, g, row).bound>>].side = "not_started"
  <2>1. CASE ~ (row.bound = g /\ row.state = "reserved")
    BY <2>1 DEF SettledFor
  <2>2. CASE row.bound = g /\ row.state = "reserved"
    <3> DEFINE state == IF inv[<<a, g>>].side = "not_started" THEN "released" ELSE "unknown_usage"
               new == [row EXCEPT !.state = state]
    <3>1. SettledFor(a, g, row) = new
      BY <2>2 DEF SettledFor
    <3>2. state \in Settled \cup Unresolved
      BY DEF Settled, Unresolved
    <3>3. state \in ZeroCost => inv[<<a, g>>].side = "not_started"
      BY DEF ZeroCost
    <3> HIDE DEF state
    <3>4. new \in ReservationRows /\ new.state = state /\ new.bound = row.bound
      BY <3>2 DEF ReservationRows
    <3> HIDE DEF new
    <3> QED BY <2>2, <3>1, <3>3, <3>4
  <2> QED BY <2>1, <2>2
<1>6. rows \in Seq(ReservationRows) /\ Len(rows) = Len(old)
  <2>1. rows \in [1..Len(old) -> ReservationRows]
    BY <1>4, <1>5
  <2>2. rows \in Seq(ReservationRows)
    BY <1>4, <2>1, SeqDef
  <2>3. DOMAIN rows = 1..Len(rows) /\ Len(rows) \in Nat
    BY <2>2
  <2>4. DOMAIN rows = 1..Len(old)
    BY <2>1
  <2> HIDE DEF rows
  <2> QED BY <1>4, <2>2, <2>3, <2>4
<1>7. \A i \in 1..Len(old) : rows[i] = SettledFor(a, g, old[i])
  BY <1>4
<1> HIDE DEF rows
<1>8. \A i \in 1..Len(old) :
         \/ rows[i] = old[i]
         \/ /\ old[i].state \notin Settled
            /\ rows[i].bound = old[i].bound
            /\ rows[i].state \in ZeroCost =>
                  /\ old[i].state = "reserved"
                  /\ rows[i].bound # 0 => inv[<<a, rows[i].bound>>].side = "not_started"
  BY <1>4, <1>5, <1>7 DEF Settled
<1>9. worker'[w] = next => WorkerFits(w)'
  <2> SUFFICES ASSUME worker'[w] = next
               PROVE  WorkerFits(w)'
    OBVIOUS
  <2> QED BY <1>1, <1>2, <1>3, Held DEF WorkerFits, Prepared
<1>10. /\ WorkersMove /\ worker'[w] = next
       /\ \A v \in Workers : v # w => worker'[v] = worker[v]
  BY <1>1, <1>3, <1>9, OneWorkerMoves
<1>11. \A v \in Workers : worker'[v].pc \in Reserving => worker[v].pc \in Reserving
  BY <1>3, <1>10 DEF Reserving
<1>12. LedgersMove
  BY <1>1, <1>2, <1>6, <1>8, <1>10, <1>11, LedgerRewrites
<1>13. JobsMove /\ RowsMove
  BY <1>1, JobsStay, RowsStay
<1> QED BY <1>10, <1>12, <1>13, MovesKeep

\* ReserveWithAggregate: the generation inserts its one row and is no longer
\* among those that may.
LEMMA ReserveKeeps ==
  ASSUME FInv, NEW w \in Workers, ReserveWithAggregate(w)
  PROVE  FInv' /\ StepIsSound
<1> DEFINE a == worker[w].attempt
           g == worker[w].gen
           n == Len(ledger[a]) + 1
           row == [state |-> "reserved", bound |-> CurrentGeneration(a), cost |-> NoCost]
           next == [worker[w] EXCEPT !.pc = "reserved", !.row = n]
<1>1. /\ worker[w].pc = "unreserved" /\ UNCHANGED <<job, inv>>
      /\ ledger' = [ledger EXCEPT ![a] = Append(ledger[a], row)]
      /\ worker' = [worker EXCEPT ![w] = next]
  BY DEF ReserveWithAggregate
<1>2. /\ a \in Attempts /\ g \in Generations /\ g <= job[a].gen
      /\ inv[<<a, g>>].admission # "absent"
      /\ ~ (job[a].status = "completed" /\ g = job[a].gen)
  BY <1>1, Held
<1>3. ledger[a] \in Seq(ReservationRows) /\ Len(ledger[a]) \in Nat /\ worker[w] \in WorkerStates
      /\ job[a].gen \in 0..MaxGenerations
  BY <1>2 DEF FInv, Types, JobRows
<1>4. row \in ReservationRows
  <2>1. CurrentGeneration(a) \in 0..MaxGenerations
    <3>1. CASE \E h \in Generations : inv[<<a, h>>].admission = "current"
      <4>1. CurrentGeneration(a) \in Generations
        BY <3>1 DEF CurrentGeneration
      <4> QED BY <4>1, FenceAssumption DEF Generations
    <3>2. CASE ~ \E h \in Generations : inv[<<a, h>>].admission = "current"
      BY <3>2, FenceAssumption DEF CurrentGeneration
    <3> QED BY <3>1, <3>2
  <2> QED BY <2>1 DEF ReservationRows, Settled, Unresolved
<1>5. row.state = "reserved"
  OBVIOUS
<1> HIDE DEF row
<1>6. g \in ReservingGenerations(a)
  BY <1>1, <1>2 DEF ReservingGenerations, Reserving
<1>7. /\ Cardinality(ReservingGenerations(a)) \in Nat
      /\ Cardinality(ReservingGenerations(a) \ {g}) = Cardinality(ReservingGenerations(a)) - 1
      /\ IsFiniteSet(ReservingGenerations(a) \ {g})
  BY <1>2, <1>6, ReservingGenerationsFinite, FS_CardinalityType, FS_RemoveElement
<1>8. Cardinality(ReservingGenerations(a) \ {g}) \in Nat
  BY <1>7, FS_CardinalityType
<1>9. Cardinality(ReservingGenerations(a)) + Len(ledger[a]) <= job[a].gen
  BY <1>2 DEF FInv, RowsPerGeneration
<1>10. n \in 0..MaxGenerations
  <2>1. PICK c \in Nat : c = Cardinality(ReservingGenerations(a) \ {g})
    BY <1>8
  <2>2. PICK k \in Nat : k = Len(ledger[a])
    BY <1>3
  <2>3. PICK z \in 0..MaxGenerations : z = job[a].gen
    BY <1>3
  <2>4. PICK d \in Nat : d = Cardinality(ReservingGenerations(a))
    BY <1>7
  <2>5. c = d - 1
    BY <1>7, <2>1, <2>4
  <2>6. d + k <= z
    BY <1>9, <2>2, <2>3, <2>4
  <2>7. k + 1 \in 0..MaxGenerations
    BY <2>5, <2>6, FenceAssumption
  <2> QED
    BY <2>2, <2>7
<1>11. /\ next \in WorkerStates /\ next.pc = "reserved" /\ next.row = n
       /\ next.attempt = worker[w].attempt /\ next.gen = worker[w].gen
  <2> HIDE DEF n
  <2> QED BY <1>3, <1>10 DEF WorkerStates, ActivePcs
<1> HIDE DEF next
<1>12. /\ ledger' \in [Attempts -> Seq(ReservationRows)]
       /\ \A b \in Attempts : b # a => ledger'[b] = ledger[b]
       /\ ledger'[a] = Append(ledger[a], row)
  BY <1>1, <1>2, <1>3, <1>4 DEF FInv, Types
<1>13. /\ Len(ledger'[a]) = n /\ DOMAIN ledger'[a] = 1..n /\ DOMAIN ledger[a] = 1..Len(ledger[a])
       /\ ledger'[a][n] = row
       /\ \A i \in 1..Len(ledger[a]) : ledger'[a][i] = ledger[a][i]
  BY <1>3, <1>4, <1>12
<1>14. worker'[w] = next => WorkerFits(w)'
  <2> SUFFICES ASSUME worker'[w] = next
               PROVE  WorkerFits(w)'
    OBVIOUS
  <2>1. n \in 1..Len(ledger'[a])
    BY <1>3, <1>13
  <2> HIDE DEF n
  <2> QED BY <1>1, <1>2, <1>11, <2>1 DEF WorkerFits
<1>15. /\ WorkersMove /\ worker'[w] = next
       /\ \A v \in Workers : v # w => worker'[v] = worker[v]
  BY <1>1, <1>11, <1>14, OneWorkerMoves
<1>16. RowsPerGeneration'
  <2> SUFFICES ASSUME NEW b \in Attempts
               PROVE  Cardinality(ReservingGenerations(b)') + Len(ledger'[b]) <= job[b].gen
    BY <1>1 DEF RowsPerGeneration
  <2>1. ReservingGenerations(b)' \subseteq ReservingGenerations(b)
    BY <1>11, <1>15 DEF ReservingGenerations, Reserving
  <2>2. CASE b # a
    <3>1. Cardinality(ReservingGenerations(b)') <= Cardinality(ReservingGenerations(b))
      BY <2>1, ReservingGenerationsFinite, FS_Subset
    <3>2. /\ Cardinality(ReservingGenerations(b)') \in Nat
          /\ Cardinality(ReservingGenerations(b)) \in Nat
      BY ReservingGenerationsFinite, FS_CardinalityType
    <3>3. Cardinality(ReservingGenerations(b)) + Len(ledger[b]) <= job[b].gen
      BY DEF FInv, RowsPerGeneration
    <3>4. Len(ledger[b]) \in Nat /\ job[b].gen \in Int /\ ledger'[b] = ledger[b]
      BY <1>12, <2>2 DEF FInv, Types, JobRows
    <3> QED BY <3>1, <3>2, <3>3, <3>4
  <2>3. CASE b = a
    <3>1. g \notin ReservingGenerations(b)'
      <4> SUFFICES ASSUME NEW v \in Workers, worker'[v].pc \in Reserving,
                          worker'[v].attempt = b, worker'[v].gen = g
                   PROVE  FALSE
        BY DEF ReservingGenerations
      <4>1. v # w
        BY <1>11, <1>15 DEF Reserving
      <4>2. worker[v].pc # "idle" /\ worker[w].pc # "idle"
        BY <1>1, <1>15, <4>1 DEF Reserving
      <4> QED BY <1>15, <2>3, <4>1, <4>2 DEF FInv, OneHolder
    <3>2. ReservingGenerations(b)' \subseteq ReservingGenerations(b) \ {g}
      BY <2>1, <3>1
    <3>3. /\ Cardinality(ReservingGenerations(b)) \in Nat
          /\ Cardinality(ReservingGenerations(b) \ {g}) = Cardinality(ReservingGenerations(b)) - 1
          /\ IsFiniteSet(ReservingGenerations(b) \ {g})
          /\ Cardinality(ReservingGenerations(b)) + Len(ledger[b]) <= job[b].gen
      BY <1>7, <1>9, <2>3
    <3>4. Cardinality(ReservingGenerations(b)') <= Cardinality(ReservingGenerations(b) \ {g})
      BY <3>2, <3>3, FS_Subset
    <3>5. Cardinality(ReservingGenerations(b)') \in Nat
      BY ReservingGenerationsFinite, FS_CardinalityType
    <3>6. /\ Len(ledger[b]) \in Nat /\ job[b].gen \in Int
          /\ Len(ledger'[b]) = Len(ledger[b]) + 1
      BY <1>3, <1>13, <2>3
    <3> QED BY <3>3, <3>4, <3>5, <3>6
  <2> QED BY <2>2, <2>3
<1>17. LedgerStands
  BY <1>12, <1>13 DEF LedgerStands, ZeroCost
<1>18. BoundDispatchIsCharged'
  <2> SUFFICES ASSUME NEW b \in Attempts, NEW i \in DOMAIN ledger'[b],
                      ledger'[b][i].bound # 0,
                      inv[<<b, ledger'[b][i].bound>>].dispatched
               PROVE  ledger'[b][i].state \notin ZeroCost
    BY <1>1 DEF BoundDispatchIsCharged
  <2>1. CASE b = a /\ i = n
    BY <1>5, <1>13, <2>1 DEF ZeroCost
  <2>2. CASE ~ (b = a /\ i = n)
    <3>1. CASE b # a
      BY <1>12, <3>1 DEF FInv, BoundDispatchIsCharged
    <3>2. CASE b = a
      <4>1. i \in 1..n /\ i # n
        BY <1>13, <2>2, <3>2
      <4>2. i \in 1..Len(ledger[a])
        BY <1>3, <4>1
      <4>3. i \in DOMAIN ledger[b] /\ ledger'[b][i] = ledger[b][i]
        BY <1>13, <3>2, <4>2
      <4> QED BY <4>3 DEF FInv, BoundDispatchIsCharged
    <3> QED BY <3>1, <3>2
  <2> QED BY <2>1, <2>2
<1>19. \A b \in Attempts : Len(ledger'[b]) >= Len(ledger[b])
  <2> TAKE b \in Attempts
  <2>1. Len(ledger[b]) \in Nat
    BY DEF FInv, Types
  <2> QED BY <1>12, <1>13, <2>1
<1>20. LedgersMove
  BY <1>12, <1>16, <1>17, <1>18, <1>19 DEF LedgersMove
<1>21. JobsMove /\ RowsMove
  BY <1>1, JobsStay, RowsStay
<1> QED BY <1>15, <1>20, <1>21, MovesKeep

-----------------------------------------------------------------------------
(***************************************************************************)
(* Steps that introduce a generation.                                      *)
(***************************************************************************)
\* Claim: the generation is above every generation of the attempt that a worker
\* holds or a row names.
LEMMA ClaimKeeps ==
  ASSUME FInv, NEW w \in Workers, NEW a \in Attempts, Claim(w, a)
  PROVE  FInv' /\ StepIsSound
<1> DEFINE g == job[a].gen + 1
           row == [status |-> "running", gen |-> g, live |-> TRUE]
           next == [IdleWorker EXCEPT !.pc = "claimed", !.attempt = a, !.gen = g]
<1>1. /\ worker[w].pc = "idle" /\ job[a].status = "queued" /\ UNCHANGED <<inv, ledger>>
      /\ job' = [job EXCEPT ![a] = row]
      /\ worker' = [worker EXCEPT ![w] = next]
  BY DEF Claim
<1>2. job[a].gen \in 0..MaxGenerations /\ job[a].gen < MaxGenerations /\ job[a].gen \in Nat
  BY <1>1, FenceAssumption DEF FInv, Types, JobRows, JobFits
<1>3. g \in Generations /\ g \in 0..MaxGenerations /\ job[a].gen < g
  BY <1>2, FenceAssumption DEF Generations
<1>4. PICK k \in Generations : k = g
  BY <1>3
<1>5. k \in 0..MaxGenerations /\ k \in Int /\ job[a].gen < k /\ k > 0 /\ k = job[a].gen + 1
  BY <1>2, <1>3, <1>4
<1>6. /\ row \in JobRows /\ row.status = "running" /\ row.gen = k
      /\ next \in WorkerStates /\ next.pc = "claimed" /\ next.attempt = a /\ next.gen = k
  <2> HIDE DEF g
  <2>1. row \in JobRows /\ row.status = "running" /\ row.gen = k
    BY <1>4, <1>5 DEF JobRows
  <2>2. IdleWorker \in WorkerStates
    BY FenceAssumption DEF WorkerStates, IdleWorker
  <2>3. /\ next \in WorkerStates /\ next.pc = "claimed" /\ next.attempt = a /\ next.gen = g
    BY <1>4, <1>5, <2>2 DEF WorkerStates
  <2> QED BY <1>4, <2>1, <2>3
<1> HIDE DEF g, row, next
<1>7. /\ job' \in [Attempts -> JobRows] /\ job'[a] = row
      /\ \A b \in Attempts : b # a => job'[b] = job[b]
      /\ worker' \in [Workers -> WorkerStates] /\ worker'[w] = next
      /\ \A v \in Workers : v # w => worker'[v] = worker[v]
  BY <1>1, <1>6 DEF FInv, Types
<1>8. Types'
  BY <1>1, <1>7 DEF FInv, Types
<1>9. inv[<<a, k>>].admission = "absent"
  BY <1>2, <1>5 DEF FInv, InvocationFits
<1>10. \A b \in Attempts : job[b].gen \in Int /\ job[b].gen <= job'[b].gen
  <2> TAKE b \in Attempts
  <2>1. job[b].gen \in Int
    BY DEF FInv, Types, JobRows
  <2> QED BY <1>5, <1>6, <1>7, <2>1
<1>11. ASSUME NEW v \in Workers PROVE WorkerFits(v)'
  <2>1. CASE v = w
    BY <1>1, <1>5, <1>6, <1>7, <1>9, <2>1 DEF WorkerFits, Prepared
  <2>2. CASE v # w /\ worker[v].pc = "idle"
    BY <1>7, <2>2 DEF FInv, WorkerFits
  <2>3. CASE v # w /\ worker[v].pc # "idle"
    <3> DEFINE b == worker[v].attempt
               h == worker[v].gen
    <3>1. /\ b \in Attempts /\ h \in Generations /\ h <= job[b].gen
          /\ worker[v].pc = "claimed" <=> inv[<<b, h>>].admission = "absent"
          /\ worker[v].pc \in Prepared \cup {"reserved"} => worker[v].row \in 1..Len(ledger[b])
          /\ worker[v].pc \in {"admitted", "reconciled"} =>
                /\ inv[<<b, h>>].digest # NoDigest
                /\ inv[<<b, h>>].admission = "current" \/ h < job[b].gen
          /\ job[b].status = "completed" /\ h = job[b].gen =>
                worker[v].pc \in {"settling", "syncing"}
      BY <2>3, Held
    <3>2. h \in Int /\ job[b].gen \in Int /\ job'[b].gen \in Int /\ job[b].gen <= job'[b].gen
      BY <1>10, <1>7, <3>1 DEF Generations, JobRows
    <3>3. h <= job'[b].gen /\ (h < job[b].gen => h < job'[b].gen)
      BY <3>1, <3>2
    <3>4. job'[b].status = "completed" => job[b].status = "completed" /\ job'[b].gen = job[b].gen
      BY <1>6, <1>7, <3>1
    <3> QED BY <1>1, <1>7, <2>3, <3>1, <3>3, <3>4 DEF WorkerFits
  <2> QED BY <2>1, <2>2, <2>3
<1>12. OneHolder'
  <2>1. ASSUME NEW v \in Workers, v # w, worker[v].pc # "idle", worker[v].attempt = a
        PROVE  worker[v].gen # k
    <3>1. worker[v].gen <= job[a].gen /\ worker[v].gen \in Generations
      BY <2>1, Held
    <3> QED BY <1>2, <1>5, <3>1 DEF Generations
  <2> QED BY <1>6, <1>7, <2>1 DEF FInv, OneHolder
<1>13. JobFits'
  BY <1>5, <1>6, <1>7 DEF FInv, JobFits
<1>14. InvocationFits'
  <2> SUFFICES ASSUME NEW b \in Attempts, NEW h \in Generations,
                      inv[<<b, h>>].admission # "absent"
               PROVE  h <= job'[b].gen
    BY <1>1 DEF FInv, InvocationFits
  <2>1. h <= job[b].gen /\ h \in Int /\ job'[b].gen \in Int
    BY <1>7 DEF FInv, InvocationFits, Generations, JobRows
  <2> QED BY <1>10, <2>1
<1>15. \A b \in Attempts : Begun(b)' = Begun(b)
  BY <1>1 DEF Begun
<1>16. NewestExists' /\ NewestIsCurrent' /\ ResultStoredOnce' /\ BoundDispatchIsCharged'
  BY <1>1, <1>15 DEF FInv, NewestExists, NewestIsCurrent, ResultStoredOnce, BoundDispatchIsCharged
<1>17. CompletedFromCurrent'
  BY <1>1, <1>6, <1>7 DEF FInv, CompletedFromCurrent
<1>18. RowsPerGeneration'
  <2> SUFFICES ASSUME NEW b \in Attempts
               PROVE  Cardinality(ReservingGenerations(b)') + Len(ledger[b]) <= job'[b].gen
    BY <1>1 DEF RowsPerGeneration
  <2>1. /\ Cardinality(ReservingGenerations(b)') \in Nat
        /\ Cardinality(ReservingGenerations(b)) \in Nat
        /\ IsFiniteSet(ReservingGenerations(b))
    BY ReservingGenerationsFinite, FS_CardinalityType
  <2>2. Cardinality(ReservingGenerations(b)) + Len(ledger[b]) <= job[b].gen
    BY DEF FInv, RowsPerGeneration
  <2>3. Len(ledger[b]) \in Nat /\ job[b].gen \in Int
    BY DEF FInv, Types, JobRows
  <2>4. CASE b # a
    <3>1. ReservingGenerations(b)' \subseteq ReservingGenerations(b)
      BY <1>6, <1>7, <2>4 DEF ReservingGenerations
    <3>2. Cardinality(ReservingGenerations(b)') <= Cardinality(ReservingGenerations(b))
      BY <2>1, <3>1, FS_Subset
    <3> QED BY <1>7, <2>1, <2>2, <2>3, <2>4, <3>2
  <2>5. CASE b = a
    <3>1. ReservingGenerations(b)' \subseteq ReservingGenerations(b) \cup {k}
      BY <1>6, <1>7 DEF ReservingGenerations
    <3>2. /\ IsFiniteSet(ReservingGenerations(b) \cup {k})
          /\ Cardinality(ReservingGenerations(b) \cup {k}) \in Nat
          /\ Cardinality(ReservingGenerations(b) \cup {k}) <= Cardinality(ReservingGenerations(b)) + 1
      <4>1. /\ IsFiniteSet(ReservingGenerations(b) \cup {k})
            /\ Cardinality(ReservingGenerations(b) \cup {k}) =
                 IF k \in ReservingGenerations(b)
                 THEN Cardinality(ReservingGenerations(b))
                 ELSE Cardinality(ReservingGenerations(b)) + 1
        BY <2>1, FS_AddElement
      <4> QED BY <2>1, <4>1
    <3>3. Cardinality(ReservingGenerations(b)') <= Cardinality(ReservingGenerations(b) \cup {k})
      BY <3>1, <3>2, FS_Subset
    <3>4. job'[b].gen = job[b].gen + 1
      BY <1>5, <1>6, <1>7, <2>5
    <3> QED BY <2>1, <2>2, <2>3, <3>2, <3>3, <3>4
  <2> QED BY <2>4, <2>5
<1>19. FInv'
  BY <1>8, <1>11, <1>12, <1>13, <1>14, <1>16, <1>17, <1>18 DEF FInv
<1>20. Quiet
  <2> SUFFICES ASSUME NEW b \in Attempts
               PROVE  Newest(b)' = Newest(b) /\ Result(b)' = Result(b)
    BY DEF Quiet
  <2>1. Newest(b)' = Newest(b)
    BY <1>15 DEF Newest
  <2>2. CASE b = a
    BY <1>1, <1>6, <1>7, <2>1, <2>2 DEF Result
  <2>3. CASE b # a
    BY <1>1, <1>7, <2>1, <2>3 DEF Result
  <2> QED BY <2>2, <2>3
<1>21. LedgerStands /\ CancelStands
  BY <1>1 DEF LedgerStands, CancelStands, ZeroCost
<1> QED BY <1>19, <1>20, <1>21 DEF StepIsSound

LEMMA MaxIs ==
  ASSUME NEW S, NEW m \in S, \A y \in S : y \in Int /\ m >= y
  PROVE  Max(S) = m
<1>1. Max(S) \in S /\ \A y \in S : Max(S) >= y
  BY DEF Max
<1> QED BY <1>1

\* Begin: every other row of the attempt is older, and none stays current.
LEMMA BeginKeeps ==
  ASSUME FInv, NEW w \in Workers, Begin(w)
  PROVE  FInv' /\ StepIsSound
<1>1. /\ worker[w].pc = "claimed" /\ OwnsLive(w) /\ Goto(w, "begun")
      /\ UNCHANGED <<job, ledger>>
  BY DEF Begin
<1>2. PICK a \in Attempts, g \in Generations : a = worker[w].attempt /\ g = worker[w].gen
  BY <1>1, Held
<1>3. /\ inv[<<a, g>>].admission = "absent"
      /\ job[a].status = "running" /\ job[a].gen = g
      /\ g \in Int /\ g > 0 /\ g <= MaxGenerations
  BY <1>1, <1>2, Held, FenceAssumption DEF OwnsLive, Generations
<1>4. inv[<<a, g>>] = AbsentInvocation
  BY <1>3 DEF FInv, InvocationFits
<1>5. /\ AbsentInvocation \in InvocationRows /\ NewInvocation \in InvocationRows
      /\ NewInvocation.admission = "current" /\ NewInvocation.digest = AbsentInvocation.digest
      /\ NewInvocation.dispatched = AbsentInvocation.dispatched
      /\ NewInvocation.cancel = AbsentInvocation.cancel /\ ~ NewInvocation.dispatched
  BY DEF InvocationRows, AbsentInvocation, NewInvocation, CancelStates
<1> DEFINE Fence(x) == [inv[x] EXCEPT !.admission = "stale", !.side = Ambiguous(@)]
<1>6. \A x \in Cells :
        inv'[x] = IF x = <<a, g>> THEN NewInvocation
                  ELSE IF x[1] = a /\ inv[x].admission = "current" THEN Fence(x)
                  ELSE inv[x]
  BY <1>2 DEF Begin, Mine, Cells
<1>7. ASSUME NEW x \in Cells
      PROVE  /\ Fence(x) \in InvocationRows /\ Fence(x).admission = "stale"
             /\ Fence(x).digest = inv[x].digest /\ Fence(x).dispatched = inv[x].dispatched
             /\ Fence(x).cancel = inv[x].cancel /\ Fence(x).side = Ambiguous(inv[x].side)
  <2>1. inv[x] \in InvocationRows
    BY DEF FInv, Types
  <2> QED BY <2>1 DEF InvocationRows, Ambiguous
<1> HIDE DEF Fence
<1>8. inv' \in [Cells -> InvocationRows]
  <2>1. DOMAIN inv' = Cells /\ inv' = [x \in Cells |-> inv'[x]]
    BY DEF Begin, Cells
  <2>2. \A x \in Cells : inv'[x] \in InvocationRows
    BY <1>5, <1>6, <1>7 DEF FInv, Types
  <2> QED BY <2>1, <2>2
<1>9. ASSUME NEW b \in Attempts, NEW h \in Generations
      PROVE  /\ inv'[<<b, h>>].digest = inv[<<b, h>>].digest
             /\ inv'[<<b, h>>].dispatched = inv[<<b, h>>].dispatched
             /\ inv'[<<b, h>>].cancel = inv[<<b, h>>].cancel
             /\ b # a => inv'[<<b, h>>] = inv[<<b, h>>]
             /\ b = a /\ h # g =>
                   /\ inv'[<<b, h>>].admission # "current"
                   /\ inv'[<<b, h>>].admission = "absent" <=> inv[<<b, h>>].admission = "absent"
                   /\ inv[<<b, h>>].admission # "current" => inv'[<<b, h>>] = inv[<<b, h>>]
             /\ b = a /\ h = g => inv'[<<b, h>>] = NewInvocation
             /\ inv'[<<b, h>>].dispatched => inv'[<<b, h>>].side # "not_started"
  <2> DEFINE x == <<b, h>>
  <2>1. x \in Cells /\ x[1] = b /\ (x = <<a, g>> <=> b = a /\ h = g)
    BY DEF Cells
  <2>2. inv[x].dispatched => inv[x].side # "not_started"
    BY DEF FInv, InvocationFits
  <2> HIDE DEF x
  <2>3. inv'[x] = IF b = a /\ h = g THEN NewInvocation
                  ELSE IF b = a /\ inv[x].admission = "current" THEN Fence(x)
                  ELSE inv[x]
    BY <1>6, <2>1
  <2>4. CASE b = a /\ h = g
    BY <1>4, <1>5, <2>3, <2>4 DEF x
  <2>5. CASE ~ (b = a /\ h = g) /\ b = a /\ inv[x].admission = "current"
    <3>1. Ambiguous(inv[x].side) = "not_started" => inv[x].side = "not_started"
      BY DEF Ambiguous
    <3> QED BY <1>7, <2>1, <2>2, <2>3, <2>5, <3>1 DEF x
  <2>6. CASE ~ (b = a /\ h = g) /\ ~ (b = a /\ inv[x].admission = "current")
    BY <2>2, <2>3, <2>6 DEF x
  <2> QED BY <2>4, <2>5, <2>6
<1>10. \A h \in Generations : inv[<<a, h>>].admission # "absent" => h < g
  <2> SUFFICES ASSUME NEW h \in Generations, inv[<<a, h>>].admission # "absent"
               PROVE  h < g
    OBVIOUS
  <2>1. h <= g /\ h # g /\ h \in Int
    BY <1>3 DEF FInv, InvocationFits, Generations
  <2> QED BY <1>3, <2>1
<1>11. PICK next \in WorkerStates :
            /\ worker' = [worker EXCEPT ![w] = next]
            /\ next.pc = "begun"
            /\ next.attempt = worker[w].attempt /\ next.gen = worker[w].gen
            /\ next.row = worker[w].row
  BY <1>1, GotoMoves DEF ActivePcs
<1>12. inv'[<<a, g>>] = NewInvocation
  BY <1>9
<1>13. worker'[w] = next => WorkerFits(w)'
  BY <1>1, <1>2, <1>3, <1>5, <1>11, <1>12 DEF WorkerFits, Prepared
<1>14. /\ WorkersMove /\ worker'[w] = next
       /\ \A v \in Workers : v # w => worker'[v] = worker[v]
  BY <1>1, <1>11, <1>13, OneWorkerMoves
<1>15. ASSUME NEW v \in Workers PROVE WorkerFits(v)'
  <2>1. CASE v = w
    BY <1>13, <1>14, <2>1
  <2>2. CASE v # w /\ worker[v].pc = "idle"
    BY <1>14, <2>2 DEF FInv, WorkerFits
  <2>3. CASE v # w /\ worker[v].pc # "idle"
    <3>1. PICK b \in Attempts, h \in Generations : b = worker[v].attempt /\ h = worker[v].gen
      BY <2>3, Held
    <3>2. /\ h <= job[b].gen
          /\ worker[v].pc = "claimed" <=> inv[<<b, h>>].admission = "absent"
          /\ worker[v].pc \in Prepared \cup {"reserved"} => worker[v].row \in 1..Len(ledger[b])
          /\ worker[v].pc \in {"admitted", "reconciled"} =>
                /\ inv[<<b, h>>].digest # NoDigest
                /\ inv[<<b, h>>].admission = "current" \/ h < job[b].gen
          /\ job[b].status = "completed" /\ h = job[b].gen =>
                worker[v].pc \in {"settling", "syncing"}
      BY <2>3, <3>1, Held
    <3>3. ~ (b = a /\ h = g)
      BY <1>1, <1>2, <2>3, <3>1 DEF FInv, OneHolder
    <3>4. /\ inv'[<<b, h>>].admission = "absent" <=> inv[<<b, h>>].admission = "absent"
          /\ inv'[<<b, h>>].digest = inv[<<b, h>>].digest
      BY <1>9, <3>3
    <3>5. inv[<<b, h>>].admission = "current" =>
            inv'[<<b, h>>].admission = "current" \/ h < job[b].gen
      BY <1>3, <1>9, <1>10, <3>3
    <3> QED BY <1>1, <1>14, <2>3, <3>1, <3>2, <3>4, <3>5 DEF WorkerFits
  <2> QED BY <2>1, <2>2, <2>3
<1>16. Types'
  BY <1>1, <1>8, <1>14 DEF FInv, Types, WorkersMove
<1>17. OneHolder'
  BY <1>14 DEF FInv, OneHolder, WorkersMove
<1>18. JobFits'
  BY <1>1 DEF FInv, JobFits
<1>19. InvocationFits'
  <2> SUFFICES ASSUME NEW b \in Attempts, NEW h \in Generations
               PROVE  /\ inv'[<<b, h>>].admission # "absent" => h <= job[b].gen
                      /\ inv'[<<b, h>>].admission = "absent" => inv'[<<b, h>>] = AbsentInvocation
                      /\ inv'[<<b, h>>].dispatched => inv'[<<b, h>>].side # "not_started"
    BY <1>1 DEF InvocationFits, AbsentInvocation
  <2>1. CASE b = a /\ h = g
    BY <1>3, <1>5, <1>9, <2>1
  <2>2. CASE ~ (b = a /\ h = g)
    <3>1. /\ inv'[<<b, h>>].admission = "absent" <=> inv[<<b, h>>].admission = "absent"
          /\ inv[<<b, h>>].admission = "absent" => inv'[<<b, h>>] = inv[<<b, h>>]
          /\ inv'[<<b, h>>].dispatched => inv'[<<b, h>>].side # "not_started"
      BY <1>9, <2>2
    <3> QED BY <3>1 DEF FInv, InvocationFits
  <2> QED BY <2>1, <2>2
<1>20. \A b \in Attempts : b # a => Begun(b)' = Begun(b)
  BY <1>9 DEF Begun
<1>21. /\ g \in Begun(a)' /\ \A h \in Begun(a)' : h \in Int /\ g >= h
       /\ \A h \in Begun(a) : h \in Int /\ h < g
  <2>1. g \in Begun(a)'
    BY <1>5, <1>12 DEF Begun
  <2>2. \A h \in Begun(a) : h \in Int /\ h < g
    BY <1>10 DEF Begun, Generations
  <2>3. \A h \in Begun(a)' : h = g \/ h \in Begun(a)
    BY <1>9 DEF Begun
  <2> QED BY <1>3, <2>1, <2>2, <2>3
<1>22. NewestExists'
  BY <1>20, <1>21 DEF FInv, NewestExists
<1>23. NewestIsCurrent'
  <2> SUFFICES ASSUME NEW b \in Attempts, NEW h \in Generations, NEW k \in Generations,
                      inv'[<<b, h>>].admission = "current", k > h
               PROVE  inv'[<<b, k>>].admission = "absent"
    BY DEF NewestIsCurrent
  <2>1. CASE b # a
    BY <1>9, <2>1 DEF FInv, NewestIsCurrent
  <2>2. CASE b = a
    <3>1. h = g
      BY <1>9, <2>2
    <3>2. k # g /\ ~ (k < g)
      BY <1>3, <3>1 DEF Generations
    <3>3. inv[<<a, k>>].admission = "absent"
      BY <1>10, <3>2
    <3> QED BY <1>9, <2>2, <3>2, <3>3
  <2> QED BY <2>1, <2>2
<1>24. ResultStoredOnce'
  BY <1>9, DigestsStay
<1>25. CompletedFromCurrent'
  <2> SUFFICES ASSUME NEW b \in Attempts, job[b].status = "completed"
               PROVE  /\ inv'[<<b, job[b].gen>>].admission = "current"
                      /\ inv'[<<b, job[b].gen>>].digest # NoDigest
    BY <1>1 DEF CompletedFromCurrent
  <2>1. b # a /\ job[b].gen \in Generations
    BY <1>3, LastGenerationExists
  <2> QED BY <1>9, <2>1 DEF FInv, CompletedFromCurrent
<1>26. BoundDispatchIsCharged'
  BY <1>1, <1>9, ChargedStays
<1>27. RowsPerGeneration'
  <2>1. \A v \in Workers : worker'[v].pc \in Reserving => worker[v].pc \in Reserving
    BY <1>1, <1>14 DEF Reserving
  <2> QED BY <1>1, <1>14, <2>1, CountStays
<1>28. FInv'
  BY <1>15, <1>16, <1>17, <1>18, <1>19, <1>22, <1>23, <1>24, <1>25, <1>26, <1>27 DEF FInv
<1>29. LedgerStands
  BY <1>1 DEF LedgerStands, ZeroCost
<1>30. CancelStands
  <2> SUFFICES ASSUME NEW x \in DOMAIN inv
               PROVE  inv'[x].cancel = inv[x].cancel
    BY DEF CancelStands
  <2>1. PICK b \in Attempts, h \in Generations : x = <<b, h>>
    BY DEF FInv, Types, Cells
  <2> QED BY <1>9, <2>1
<1>31. Newest(a)' = g
  <2>1. PICK begun : begun = Begun(a)'
    OBVIOUS
  <2>2. g \in begun /\ Max(begun) = g
    BY <1>21, <2>1, MaxIs
  <2> QED BY <2>1, <2>2 DEF Newest
<1>32. Newest(a) \in Int /\ Newest(a) < g
  <2>1. CASE Begun(a) = {}
    BY <1>3, <2>1 DEF Newest
  <2>2. CASE Begun(a) # {}
    BY <1>21, <2>2, NewestIsMax
  <2> QED BY <2>1, <2>2
<1>33. ASSUME NEW b \in Attempts PROVE Result(b)' = Result(b)
  <2>1. CASE job[b].status = "completed"
    <3>1. job[b].gen \in Generations
      BY <2>1, LastGenerationExists
    <3> QED BY <1>1, <1>9, <2>1, <3>1 DEF Result
  <2>2. CASE job[b].status # "completed"
    BY <1>1, <2>2 DEF Result
  <2> QED BY <2>1, <2>2
<1>34. Begins(a)
  <2>1. Newest(a)' \in (Newest(a) + 1)..MaxGenerations
    BY <1>3, <1>31, <1>32, FenceAssumption
  <2>2. Result(a) = NoDigest
    BY <1>3 DEF Result
  <2>3. \A b \in Attempts : b # a => Newest(b)' = Newest(b)
    BY <1>20 DEF Newest
  <2> QED BY <1>33, <2>1, <2>2, <2>3 DEF Begins
<1> QED BY <1>28, <1>29, <1>30, <1>34 DEF StepIsSound

-----------------------------------------------------------------------------
(***************************************************************************)
(* The theorems.                                                           *)
(***************************************************************************)
LEMMA InitFits ==
  ASSUME Init
  PROVE  FInv
<1>1. /\ IdleWorker \in WorkerStates /\ IdleWorker.pc = "idle"
      /\ AbsentInvocation \in InvocationRows /\ AbsentInvocation.admission = "absent"
      /\ AbsentInvocation.digest = NoDigest /\ ~ AbsentInvocation.dispatched
  BY FenceAssumption
  DEF IdleWorker, WorkerStates, AbsentInvocation, InvocationRows, CancelStates
<1>2. Types
  <2>1. \A a \in Attempts : job[a] \in JobRows
    BY FenceAssumption DEF Init, JobRows
  <2>2. << >> \in Seq(ReservationRows)
    OBVIOUS
  <2> QED BY <1>1, <2>1, <2>2 DEF Init, Types, Cells
<1>3. /\ \A a \in Attempts : /\ job[a].status = "queued" /\ job[a].gen = 0
                             /\ ledger[a] = << >>
                             /\ Begun(a) = {}
      /\ \A a \in Attempts, g \in Generations : inv[<<a, g>>] = AbsentInvocation
      /\ \A x \in Cells : inv[x] = AbsentInvocation
      /\ \A w \in Workers : worker[w] = IdleWorker
  BY <1>1 DEF Init, Cells, Begun
<1>4. \A w \in Workers : WorkerFits(w)
  BY <1>1, <1>3 DEF WorkerFits
<1>5. OneHolder
  BY <1>1, <1>3 DEF OneHolder
<1>6. JobFits
  BY <1>3, FenceAssumption DEF JobFits
<1>7. InvocationFits
  BY <1>1, <1>3 DEF InvocationFits
<1>8. NewestExists /\ NewestIsCurrent /\ CompletedFromCurrent
  BY <1>1, <1>3 DEF NewestExists, NewestIsCurrent, CompletedFromCurrent
<1>9. ResultStoredOnce
  BY <1>1, <1>3 DEF ResultStoredOnce, Cells
<1>10. BoundDispatchIsCharged
  BY <1>3 DEF BoundDispatchIsCharged
<1>11. RowsPerGeneration
  <2> SUFFICES ASSUME NEW a \in Attempts
               PROVE  Cardinality(ReservingGenerations(a)) + Len(ledger[a]) <= job[a].gen
    BY DEF RowsPerGeneration
  <2>1. ReservingGenerations(a) = {}
    BY <1>1, <1>3 DEF ReservingGenerations, Reserving
  <2>2. Cardinality(ReservingGenerations(a)) = 0
    BY <2>1, FS_EmptySet
  <2> QED BY <1>3, <2>2
<1> QED BY <1>2, <1>4, <1>5, <1>6, <1>7, <1>8, <1>9, <1>10, <1>11 DEF FInv

LEMMA WorkerKeeps ==
  ASSUME FInv, NEW w \in Workers, WorkerNext(w)
  PROVE  FInv' /\ StepIsSound
<1>1. CASE \E a \in Attempts : Claim(w, a)
  BY <1>1, ClaimKeeps
<1>2. CASE Crash(w) \/ HoldDeadline(w) \/ Begin(w) \/ LatestForAttempt(w)
  BY <1>2, CrashKeeps, HoldKeeps, BeginKeeps, LatestKeeps
<1>3. CASE ReserveWithAggregate(w) \/ MarkDispatchStarted(w)
  BY <1>3, ReserveKeeps, DispatchKeeps
<1>4. CASE \E r \in RequestIds : ObserveProviderRequest(w, r)
  BY <1>4, ObserveKeeps
<1>5. CASE \E d \in Digests, u \in {"observed", "unknown"} : AdmitTerminal(w, d, u)
  BY <1>5, AdmitKeeps
<1>6. CASE RequestCancel(w) \/ DispatchCancel(w)
  BY <1>6, RequestKeeps, DispatchCancelKeeps
<1>7. CASE \E answer \in TerminalCancels : AnswerCancel(w, answer)
  BY <1>7, AnswerKeeps
<1>8. CASE \E s \in Settlements : Reconcile(w, s)
  BY <1>8, ReconcileKeeps
<1>9. CASE \E status \in {"completed", "closed"} : FinishCaptured(w, status)
  BY <1>9, FinishKeeps
<1>10. CASE Fail(w) \/ Abandon(w)
  BY <1>10, FailKeeps
<1>11. CASE MarkLeaseLost(w) \/ SettleOpenForInvocation(w) \/ SynchronizeUsageState(w)
  BY <1>11, LostKeeps, SettleKeeps, SynchronizeKeeps
<1> QED BY <1>1, <1>2, <1>3, <1>4, <1>5, <1>6, <1>7, <1>8, <1>9, <1>10, <1>11 DEF WorkerNext

\* Every step, and doing nothing, keeps the invariant and is sound.
LEMMA StepKeeps ==
  ASSUME FInv, [Next]_vars
  PROVE  FInv' /\ StepIsSound
<1>1. CASE \E w \in Workers : WorkerNext(w)
  BY <1>1, WorkerKeeps
<1>2. CASE \E a \in Attempts : ExpireLease(a) \/ Reclaim(a)
  BY <1>2, TableKeeps
<1>3. CASE \E a \in Attempts, i \in Generations : Release(a, i) \/ Expire(a, i)
  BY <1>3, MaintenanceKeeps
<1>4. CASE UNCHANGED vars
  <2>1. UNCHANGED <<job, inv, ledger, worker>>
    BY <1>4 DEF vars
  <2>2. JobsMove /\ RowsMove
    BY <2>1, JobsStay, RowsStay
  <2>3. WorkersMove
    BY <2>1 DEF FInv, Types, WorkersMove
  <2>4. LedgersMove
    BY <2>1, <2>2, <2>3, ChargedStays, LedgersStay
  <2> QED BY <2>2, <2>3, <2>4, MovesKeep
<1> QED BY <1>1, <1>2, <1>3, <1>4 DEF Next

\* The inductive invariant of the fence: who may write which row, and how many
\* reservations the claimed generations of an attempt can still make.
THEOREM FenceInvariant == Spec => []FInv
<1>1. Init => FInv
  BY InitFits
<1>2. FInv /\ [Next]_vars => FInv'
  BY StepKeeps
<1> QED BY <1>1, <1>2, PTL DEF Spec

\* After any crashes, reclaims and provider replays an attempt has one
\* generation in charge, a result one owner, and every row its shape.
THEOREM OneGenerationAlwaysRules == Spec => []OneGenerationRules
<1>1. FInv => OneGenerationRules
  <2> SUFFICES ASSUME FInv
               PROVE  TypeOK
    BY DEF FInv, OneGenerationRules
  <2>1. ASSUME NEW a \in Attempts
        PROVE  /\ Len(ledger[a]) <= MaxGenerations
               /\ \A i \in DOMAIN ledger[a] : ledger[a][i] \in ReservationRows
    <3>1. Len(ledger[a]) \in 0..MaxGenerations
      BY LengthBounded
    <3> QED BY <3>1, ReservationTyped, FenceAssumption
  <2> QED BY <2>1 DEF FInv, Types, TypeOK, Cells
<1> QED BY <1>1, FenceInvariant, PTL

\* A completed job has the result its last generation admitted, and no late
\* worker fences that generation afterwards.
THEOREM CompletionsAreCurrent == Spec => []CompletedFromCurrent
<1>1. FInv => CompletedFromCurrent
  BY DEF FInv
<1> QED BY <1>1, FenceInvariant, PTL

\* The reservation bound to a dispatched invocation stays charged, whatever
\* settles it.
THEOREM DispatchesStayCharged == Spec => []BoundDispatchIsCharged
<1>1. FInv => BoundDispatchIsCharged
  BY DEF FInv
<1> QED BY <1>1, FenceInvariant, PTL

\* No late settlement or overlapping cancel call rewrites what was settled.
THEOREM SettlementsAreFinal == Spec => SettlementIsFinal
<1>1. FInv /\ [Next]_vars =>
        [/\ \A a \in Attempts : \A i \in DOMAIN ledger[a] :
              /\ ledger[a][i].state \in Settled => ledger'[a][i] = ledger[a][i]
              /\ ledger[a][i].state \in {"unknown_usage", "disputed"} =>
                     ledger'[a][i].state \notin ZeroCost
         /\ \A x \in DOMAIN inv :
              inv[x].cancel \in TerminalCancels => inv'[x].cancel = inv[x].cancel]_vars
  BY StepKeeps DEF StepIsSound, LedgerStands, CancelStands
<1> QED BY <1>1, FenceInvariant, PTL DEF Spec, SettlementIsFinal

\* The fence implements PublishedResult: one result per attempt, from its newest
\* generation, and no result published twice.
THEOREM FencePublishesOnce == Spec => PublishesOnce
<1>1. Init => Published!Init
  <2> SUFFICES ASSUME Init
               PROVE  Published!Init
    OBVIOUS
  <2>1. \A a \in Attempts : Begun(a) = {} /\ job[a].status = "queued"
    BY DEF Init, Begun, AbsentInvocation
  <2> QED BY <2>1 DEF Published!Init
<1>2. FInv /\ [Next]_vars => [Published!Next]_Published!abstractVars
  <2> SUFFICES ASSUME FInv, [Next]_vars
               PROVE  [Published!Next]_Published!abstractVars
    OBVIOUS
  <2>1. StepIsSound
    BY StepKeeps
  <2>2. CASE Quiet
    BY <2>2 DEF Quiet, Newest, Result, Published!abstractVars
  <2>3. ASSUME NEW a \in Attempts, Begins(a)
        PROVE  Published!Begin(a)
    BY <2>3 DEF Begins, Newest, Result, Published!Begin
  <2>4. ASSUME NEW a \in Attempts, Publishes(a)
        PROVE  \E d \in Digests : Published!Publish(a, d)
    <3>1. PICK d \in Digests : d = Result(a)'
      BY <2>4 DEF Publishes
    <3>2. /\ Newest(a) > 0 /\ Result(a) = NoDigest
          /\ \A b \in Attempts : Result(b) # d
          /\ \A b \in Attempts : Result(b)' = IF b = a THEN d ELSE Result(b)
          /\ \A b \in Attempts : Newest(b)' = Newest(b)
      BY <2>4, <3>1 DEF Publishes
    <3>3. Published!Publish(a, d)
      BY <3>2 DEF Newest, Result, Published!Publish
    <3> QED BY <3>1, <3>3
  <2> QED BY <2>1, <2>2, <2>3, <2>4 DEF StepIsSound, Published!Next
<1> QED BY <1>1, <1>2, FenceInvariant, PTL DEF Spec, PublishesOnce, Published!Spec

-----------------------------------------------------------------------------
(***************************************************************************)
(* Sums over finite sets.  The prover has no induction on a formula, so    *)
(* it is used in the form of SetInduction, about a set of numbers; and the *)
(* sum, a recursive function, has to be shown to exist before it can be    *)
(* unfolded (SumIs).                                                       *)
(***************************************************************************)
LEMMA SetInduction ==
  ASSUME NEW S \in SUBSET Nat, 0 \in S, \A n \in S : n + 1 \in S
  PROVE  S = Nat
<1> SUFFICES ASSUME NEW m \in Nat \ S
             PROVE  FALSE
  OBVIOUS
<1> DEFINE B == 0 .. m
           T == {0 .. n - 1 : n \in B \ S}
<1>1. IsWellFoundedOn(StrictSubsetOrdering(B), FiniteSubsetsOf(B))
  BY FS_StrictSubsetOrderingWellFounded
<1>2. T \subseteq FiniteSubsetsOf(B) /\ T # {}
  <2>1. \A n \in B : 0 .. n - 1 \in SUBSET B /\ IsFiniteSet(0 .. n - 1)
    BY FS_Interval
  <2> QED BY <2>1 DEF FiniteSubsetsOf
<1> HIDE DEF T
<1>3. PICK t \in T : \A u \in T : ~ (<<u, t>> \in StrictSubsetOrdering(B))
  BY <1>1, <1>2, WFMin
<1>4. PICK n \in B \ S : t = 0 .. n - 1
  BY DEF T
<1>5. n # 0 /\ n - 1 \in B \ S
  <2>1. n # 0 /\ n - 1 \in Nat /\ n - 1 \in B /\ (n - 1) + 1 = n
    BY <1>4
  <2> QED BY <1>4, <2>1
<1>6. PICK k : k = n - 1
  OBVIOUS
<1>7. /\ 0 .. k - 1 \in T /\ 0 .. k - 1 \subseteq 0 .. n - 1 /\ k \in 0 .. n - 1 /\ k \notin 0 .. k - 1
      /\ 0 .. k - 1 \in SUBSET B /\ 0 .. n - 1 \in SUBSET B
  BY <1>4, <1>5, <1>6 DEF T
<1>8. PICK x, y : x = 0 .. k - 1 /\ y = 0 .. n - 1
  OBVIOUS
<1>9. x \in SUBSET B /\ y \in SUBSET B /\ x \subseteq y /\ x # y
  BY <1>7, <1>8
<1> HIDE DEF B
<1>10. <<x, y>> \in StrictSubsetOrdering(B)
  BY <1>9 DEF StrictSubsetOrdering
<1> QED BY <1>3, <1>4, <1>7, <1>8, <1>10

\* The member MapThenSumSet takes out of a set first.
Pick(s) == CHOOSE x \in s : TRUE

\* One unfolding of the sum of f over the subsets of G.
Unfolds(f, G, g) == g = [s \in SUBSET G |-> IF s = {} THEN 0 ELSE f[Pick(s)] + g[s \ {Pick(s)}]]

Sum(f, G) == CHOOSE g : Unfolds(f, G, g)

\* Sums of the subsets with at most n members.
Small(G, n) == {s \in SUBSET G : Cardinality(s) <= n}

SmallSum(f, G, n, g) ==
    /\ g \in [Small(G, n) -> Nat]
    /\ \A s \in Small(G, n) : g[s] = IF s = {} THEN 0 ELSE f[Pick(s)] + g[s \ {Pick(s)}]

LEMMA PickOne ==
  ASSUME NEW G, IsFiniteSet(G), NEW s \in SUBSET G, s # {}
  PROVE  /\ Pick(s) \in s /\ s \ {Pick(s)} \in SUBSET G /\ IsFiniteSet(s) /\ IsFiniteSet(s \ {Pick(s)})
         /\ Cardinality(s) \in Nat /\ Cardinality(s \ {Pick(s)}) \in Nat
         /\ Cardinality(s \ {Pick(s)}) = Cardinality(s) - 1
<1>1. Pick(s) \in s
  BY DEF Pick
<1>2. IsFiniteSet(s) /\ Cardinality(s) \in Nat
  BY FS_Subset, FS_CardinalityType
<1> QED
  BY <1>1, <1>2, FS_RemoveElement, FS_CardinalityType

LEMMA NoneSmaller ==
  ASSUME NEW G, IsFiniteSet(G), NEW s \in Small(G, 0)
  PROVE  s = {}
<1>1. s \in SUBSET G /\ Cardinality(s) <= 0 /\ IsFiniteSet(s)
  BY FS_Subset DEF Small
<1>2. Cardinality(s) = 0
  BY <1>1, FS_CardinalityType
<1> QED
  BY <1>1, <1>2, FS_EmptySet

LEMMA SmallSums ==
  ASSUME NEW G, IsFiniteSet(G), NEW f \in [G -> Nat], NEW n \in Nat
  PROVE  \E g : SmallSum(f, G, n, g)
<1> DEFINE S == {k \in Nat : \E g : SmallSum(f, G, k, g)}
<1>1. 0 \in S
  <2> DEFINE g == [s \in Small(G, 0) |-> 0]
  <2>1. ASSUME NEW s \in Small(G, 0) PROVE s = {}
    BY NoneSmaller
  <2>2. SmallSum(f, G, 0, g)
    BY <2>1 DEF SmallSum
  <2> QED
    BY <2>2
<1>2. ASSUME NEW k \in S PROVE k + 1 \in S
  <2>1. PICK g : SmallSum(f, G, k, g)
    OBVIOUS
  <2> DEFINE h == [s \in Small(G, k + 1) |-> IF s = {} THEN 0 ELSE f[Pick(s)] + g[s \ {Pick(s)}]]
  <2>2. ASSUME NEW s \in Small(G, k + 1), s # {}
        PROVE  s \ {Pick(s)} \in Small(G, k) /\ s \ {Pick(s)} \in Small(G, k + 1)
    <3>1. s \in SUBSET G /\ Cardinality(s) <= k + 1
      BY DEF Small
    <3>2. PICK c \in Nat, d \in Nat : c = Cardinality(s) /\ d = Cardinality(s \ {Pick(s)}) /\ d = c - 1
      BY <2>2, <3>1, PickOne
    <3>3. d <= k /\ d <= k + 1
      BY <3>1, <3>2
    <3> QED
      BY <2>2, <3>1, <3>2, <3>3, PickOne DEF Small
  <2>3. h \in [Small(G, k + 1) -> Nat]
    <3> SUFFICES ASSUME NEW s \in Small(G, k + 1), s # {}
                 PROVE  f[Pick(s)] + g[s \ {Pick(s)}] \in Nat
      OBVIOUS
    <3>1. f[Pick(s)] \in Nat
      BY PickOne DEF Small
    <3>2. g[s \ {Pick(s)}] \in Nat
      BY <2>1, <2>2 DEF SmallSum
    <3> QED
      BY <3>1, <3>2
  <2>4. ASSUME NEW s \in Small(G, k) PROVE s \in Small(G, k + 1) /\ h[s] = g[s]
    <3>1. s \in Small(G, k + 1)
      <4>1. Cardinality(s) \in Nat /\ Cardinality(s) <= k
        BY FS_Subset, FS_CardinalityType DEF Small
      <4> QED
        BY <4>1 DEF Small
    <3> QED
      BY <2>1, <3>1 DEF SmallSum
  <2>5. \A s \in Small(G, k + 1) : h[s] = IF s = {} THEN 0 ELSE f[Pick(s)] + h[s \ {Pick(s)}]
    BY <2>2, <2>4
  <2> HIDE DEF h
  <2>6. SmallSum(f, G, k + 1, h)
    BY <2>3, <2>5 DEF SmallSum
  <2> QED
    BY <2>6
<1>3. S = Nat
  <2>1. S \in SUBSET Nat
    OBVIOUS
  <2> HIDE DEF S
  <2> QED
    BY <1>1, <1>2, <2>1, SetInduction
<1> QED
  BY <1>3

\* The sum exists, and its terms are its own.
LEMMA SumIs ==
  ASSUME NEW G, IsFiniteSet(G), NEW f \in [G -> Nat]
  PROVE  /\ Sum(f, G) \in [SUBSET G -> Nat]
         /\ Unfolds(f, G, Sum(f, G))
<1>1. Cardinality(G) \in Nat
  BY FS_CardinalityType
<1>2. PICK g : SmallSum(f, G, Cardinality(G), g)
  BY <1>1, SmallSums
<1>3. Small(G, Cardinality(G)) = SUBSET G
  BY FS_Subset DEF Small
<1>4. g = [s \in SUBSET G |-> g[s]]
  BY <1>2, <1>3 DEF SmallSum
<1>5. Unfolds(f, G, g)
  BY <1>2, <1>3, <1>4 DEF SmallSum, Unfolds
<1>6. Unfolds(f, G, Sum(f, G))
  BY <1>5 DEF Sum
<1>7. PICK h : h = Sum(f, G)
  OBVIOUS
<1>8. \A s \in SUBSET G : h[s] = IF s = {} THEN 0 ELSE f[Pick(s)] + h[s \ {Pick(s)}]
  BY <1>6, <1>7 DEF Unfolds
<1> DEFINE S == {n \in Nat : \A s \in Small(G, n) : h[s] \in Nat}
<1>9. 0 \in S
  <2>1. \A s \in Small(G, 0) : s = {} /\ s \in SUBSET G
    BY NoneSmaller DEF Small
  <2>2. \A s \in Small(G, 0) : h[s] = 0
    BY <2>1, <1>8, Zenon
  <2>3. \A s \in Small(G, 0) : h[s] \in Nat
    BY <2>2
  <2> QED
    BY <2>3
<1>10. ASSUME NEW n \in S PROVE n + 1 \in S
  <2> SUFFICES ASSUME NEW s \in Small(G, n + 1) PROVE h[s] \in Nat
    OBVIOUS
  <2>1. CASE s = {}
    BY <2>1, <1>8
  <2>2. CASE s # {}
    <3>1. s \in SUBSET G /\ Cardinality(s) <= n + 1
      BY DEF Small
    <3>2. /\ s \ {Pick(s)} \in SUBSET G /\ Cardinality(s) \in Nat /\ f[Pick(s)] \in Nat
          /\ Cardinality(s \ {Pick(s)}) = Cardinality(s) - 1
      BY <2>2, <3>1, PickOne
    <3>3. s \ {Pick(s)} \in Small(G, n)
      BY <3>1, <3>2 DEF Small
    <3>4. h[s \ {Pick(s)}] \in Nat
      BY <3>3
    <3>5. h[s] = f[Pick(s)] + h[s \ {Pick(s)}]
      BY <2>2, <3>1, <1>8
    <3> QED
      BY <3>2, <3>4, <3>5
  <2> QED
    BY <2>1, <2>2
<1>11. S = Nat
  <2>1. S \in SUBSET Nat
    OBVIOUS
  <2> HIDE DEF S
  <2> QED
    BY <1>9, <1>10, <2>1, SetInduction
<1>12. \A s \in SUBSET G : h[s] \in Nat
  BY <1>1, <1>3, <1>11
<1>13. h = [s \in SUBSET G |-> h[s]]
  BY <1>6, <1>7 DEF Unfolds
<1> QED
  BY <1>6, <1>7, <1>12, <1>13

LEMMA SumStep ==
  ASSUME NEW G, IsFiniteSet(G), NEW f \in [G -> Nat], NEW s \in SUBSET G
  PROVE  /\ Sum(f, G)[s] \in Nat
         /\ s = {} => Sum(f, G)[s] = 0
         /\ s # {} => Sum(f, G)[s] = f[Pick(s)] + Sum(f, G)[s \ {Pick(s)}]
<1>1. PICK h : h = Sum(f, G)
  OBVIOUS
<1>2. h \in [SUBSET G -> Nat] /\ Unfolds(f, G, h)
  BY <1>1, SumIs
<1>3. h[s] \in Nat /\ (s = {} => h[s] = 0) /\ (s # {} => h[s] = f[Pick(s)] + h[s \ {Pick(s)}])
  BY <1>2 DEF Unfolds
<1> QED
  BY <1>1, <1>3

LEMMA SumIsUnique ==
  ASSUME NEW G, IsFiniteSet(G), NEW f \in [G -> Nat], NEW g, Unfolds(f, G, g)
  PROVE  g = Sum(f, G)
<1>1. PICK h : h = Sum(f, G)
  OBVIOUS
<1>2. Unfolds(f, G, h) /\ IsFiniteSet(G) /\ Cardinality(G) \in Nat
  BY <1>1, SumIs, FS_CardinalityType
<1>3. /\ \A s \in SUBSET G : g[s] = IF s = {} THEN 0 ELSE f[Pick(s)] + g[s \ {Pick(s)}]
      /\ \A s \in SUBSET G : h[s] = IF s = {} THEN 0 ELSE f[Pick(s)] + h[s \ {Pick(s)}]
  BY <1>2 DEF Unfolds
<1> DEFINE S == {n \in Nat : \A s \in Small(G, n) : g[s] = h[s]}
<1>4. 0 \in S
  <2>1. \A s \in Small(G, 0) : s = {} /\ s \in SUBSET G
    BY NoneSmaller DEF Small
  <2> QED
    BY <2>1, <1>3
<1>5. ASSUME NEW n \in S PROVE n + 1 \in S
  <2> SUFFICES ASSUME NEW s \in Small(G, n + 1) PROVE g[s] = h[s]
    OBVIOUS
  <2>1. s \in SUBSET G /\ Cardinality(s) <= n + 1
    BY DEF Small
  <2>5. CASE s = {}
    BY <2>1, <2>5, <1>3
  <2> SUFFICES ASSUME s # {} PROVE g[s] = h[s]
    BY <2>5
  <2>2. /\ s \ {Pick(s)} \in SUBSET G /\ Cardinality(s) \in Nat
        /\ Cardinality(s \ {Pick(s)}) = Cardinality(s) - 1
    BY <2>1, PickOne
  <2>3. s \ {Pick(s)} \in Small(G, n)
    BY <2>1, <2>2 DEF Small
  <2>4. g[s \ {Pick(s)}] = h[s \ {Pick(s)}]
    BY <2>3
  <2> QED
    BY <2>1, <2>4, <1>3
<1>6. S = Nat
  <2>1. S \in SUBSET Nat
    OBVIOUS
  <2> HIDE DEF S
  <2> QED
    BY <1>4, <1>5, <2>1, SetInduction
<1>7. \A s \in SUBSET G : s \in Small(G, Cardinality(G))
  BY FS_Subset DEF Small
<1>8. \A s \in SUBSET G : g[s] = h[s]
  BY <1>2, <1>6, <1>7
<1>9. g = [s \in SUBSET G |-> g[s]] /\ h = [s \in SUBSET G |-> h[s]]
  BY <1>2 DEF Unfolds
<1> QED
  BY <1>1, <1>8, <1>9

Below(f, g, s) == \A x \in s : f[x] <= g[x]

\* Smaller terms give a smaller sum.
LEMMA SumCompares ==
  ASSUME NEW G, IsFiniteSet(G), NEW f \in [G -> Nat],
         NEW H, IsFiniteSet(H), NEW g \in [H -> Nat],
         NEW t \in SUBSET G, t \in SUBSET H, Below(f, g, t)
  PROVE  Sum(f, G)[t] <= Sum(g, H)[t]
<1> DEFINE S == {n \in Nat : \A s \in Small(t, n) : Sum(f, G)[s] <= Sum(g, H)[s]}
<1>1. IsFiniteSet(t) /\ Cardinality(t) \in Nat
  BY FS_Subset, FS_CardinalityType
<1>2. 0 \in S
  <2>1. ASSUME NEW s \in Small(t, 0) PROVE Sum(f, G)[s] <= Sum(g, H)[s]
    <3>1. s = {} /\ s \in SUBSET G /\ s \in SUBSET H
      BY <1>1, NoneSmaller DEF Small
    <3>2. Sum(f, G)[s] = 0 /\ Sum(g, H)[s] = 0
      BY <3>1, SumStep
    <3> QED
      BY <3>2
  <2> QED
    BY <2>1
<1>3. ASSUME NEW n \in S PROVE n + 1 \in S
  <2> SUFFICES ASSUME NEW s \in Small(t, n + 1) PROVE Sum(f, G)[s] <= Sum(g, H)[s]
    OBVIOUS
  <2>0. s \in SUBSET t /\ s \in SUBSET G /\ s \in SUBSET H /\ Cardinality(s) <= n + 1
    BY DEF Small
  <2>1. CASE s = {}
    <3>1. Sum(f, G)[s] = 0 /\ Sum(g, H)[s] = 0
      BY <2>0, <2>1, SumStep
    <3> QED
      BY <3>1
  <2>2. CASE s # {}
    <3>1. /\ Pick(s) \in s /\ Cardinality(s) \in Nat /\ s \ {Pick(s)} \in SUBSET t
          /\ Cardinality(s \ {Pick(s)}) = Cardinality(s) - 1
      BY <1>1, <2>0, <2>2, PickOne
    <3>2. s \ {Pick(s)} \in Small(t, n)
      BY <2>0, <3>1 DEF Small
    <3>3. Sum(f, G)[s \ {Pick(s)}] <= Sum(g, H)[s \ {Pick(s)}]
      BY <3>2
    <3>4. /\ Sum(f, G)[s \ {Pick(s)}] \in Nat /\ Sum(g, H)[s \ {Pick(s)}] \in Nat
          /\ f[Pick(s)] \in Nat /\ g[Pick(s)] \in Nat
      BY <2>0, <3>1, SumStep
    <3>5. f[Pick(s)] <= g[Pick(s)]
      BY <2>0, <3>1 DEF Below
    <3>6. /\ Sum(f, G)[s] = f[Pick(s)] + Sum(f, G)[s \ {Pick(s)}]
          /\ Sum(g, H)[s] = g[Pick(s)] + Sum(g, H)[s \ {Pick(s)}]
      BY <2>0, <2>2, SumStep
    <3> QED
      BY <3>3, <3>4, <3>5, <3>6
  <2> QED
    BY <2>1, <2>2
<1>4. S = Nat
  <2>1. S \in SUBSET Nat
    OBVIOUS
  <2> HIDE DEF S
  <2> QED
    BY <1>2, <1>3, <2>1, SetInduction
<1>5. t \in Small(t, Cardinality(t))
  BY <1>1 DEF Small
<1> QED
  BY <1>1, <1>4, <1>5

\* The order of summation does not matter: any member can be taken out first.
LEMMA SumTakesOut ==
  ASSUME NEW G, IsFiniteSet(G), NEW f \in [G -> Nat], NEW t \in SUBSET G, NEW z \in t
  PROVE  Sum(f, G)[t] = f[z] + Sum(f, G)[t \ {z}]
<1> DEFINE S == {n \in Nat : \A s \in Small(G, n) : \A y \in s : Sum(f, G)[s] = f[y] + Sum(f, G)[s \ {y}]}
<1>1. 0 \in S
  BY NoneSmaller
<1>2. ASSUME NEW n \in S PROVE n + 1 \in S
  <2> SUFFICES ASSUME NEW s \in Small(G, n + 1), NEW y \in s PROVE Sum(f, G)[s] = f[y] + Sum(f, G)[s \ {y}]
    OBVIOUS
  <2>0. s \in SUBSET G /\ s # {} /\ Cardinality(s) <= n + 1 /\ IsFiniteSet(s) /\ Cardinality(s) \in Nat
    BY FS_Subset, FS_CardinalityType DEF Small
  <2>1. PICK x : x = Pick(s)
    OBVIOUS
  <2>2. x \in s /\ Sum(f, G)[s] = f[x] + Sum(f, G)[s \ {x}]
    BY <2>0, <2>1, PickOne, SumStep
  <2>3. CASE y = x
    BY <2>2, <2>3
  <2>4. CASE y # x
    <3>1. PICK a, b, c : a = s \ {x} /\ b = s \ {y} /\ c = s \ {x, y}
      OBVIOUS
    <3>2. /\ a \in SUBSET G /\ b \in SUBSET G /\ c \in SUBSET G
          /\ y \in a /\ x \in b /\ a \ {y} = c /\ b \ {x} = c
      BY <2>0, <2>2, <2>4, <3>1
    <3>3. Cardinality(a) = Cardinality(s) - 1 /\ Cardinality(b) = Cardinality(s) - 1
      BY <2>0, <2>2, <3>1, FS_RemoveElement
    <3>4. a \in Small(G, n) /\ b \in Small(G, n)
      BY <2>0, <3>2, <3>3 DEF Small
    <3>5. Sum(f, G)[a] = f[y] + Sum(f, G)[c] /\ Sum(f, G)[b] = f[x] + Sum(f, G)[c]
      BY <3>2, <3>4
    <3>6. Sum(f, G)[c] \in Nat /\ f[x] \in Nat /\ f[y] \in Nat
      BY <3>2, <2>0, <2>2, SumStep
    <3> QED
      BY <2>2, <3>1, <3>5, <3>6
  <2> QED
    BY <2>3, <2>4
<1>3. S = Nat
  <2>1. S \in SUBSET Nat
    OBVIOUS
  <2> HIDE DEF S
  <2> QED
    BY <1>1, <1>2, <2>1, SetInduction
<1>4. Cardinality(t) \in Nat /\ t \in Small(G, Cardinality(t))
  BY FS_Subset, FS_CardinalityType DEF Small
<1> QED
  BY <1>3, <1>4

\* A part sums to no more than the whole.
LEMMA SumGrows ==
  ASSUME NEW G, IsFiniteSet(G), NEW f \in [G -> Nat], NEW t \in SUBSET G, NEW r \in SUBSET t
  PROVE  Sum(f, G)[r] <= Sum(f, G)[t]
<1> DEFINE S == {n \in Nat : \A s \in SUBSET t : Cardinality(s) = n => Sum(f, G)[t \ s] <= Sum(f, G)[t]}
<1>0. IsFiniteSet(t)
  BY FS_Subset
<1>1. 0 \in S
  <2> SUFFICES ASSUME NEW s \in SUBSET t, Cardinality(s) = 0 PROVE Sum(f, G)[t \ s] <= Sum(f, G)[t]
    OBVIOUS
  <2>1. s = {}
    BY <1>0, FS_Subset, FS_EmptySet
  <2>2. t \ s = t /\ Sum(f, G)[t] \in Nat
    BY <2>1, SumStep
  <2> QED
    BY <2>2
<1>2. ASSUME NEW n \in S PROVE n + 1 \in S
  <2> SUFFICES ASSUME NEW s \in SUBSET t, Cardinality(s) = n + 1 PROVE Sum(f, G)[t \ s] <= Sum(f, G)[t]
    OBVIOUS
  <2>1. IsFiniteSet(s) /\ s # {}
    BY <1>0, FS_Subset, FS_EmptySet
  <2>2. PICK y \in s : TRUE
    BY <2>1
  <2>3. PICK u : u = s \ {y}
    OBVIOUS
  <2>4. u \in SUBSET t /\ Cardinality(u) = n
    <3>1. u \in SUBSET t /\ Cardinality(u) = Cardinality(s) - 1
      BY <2>1, <2>2, <2>3, FS_RemoveElement
    <3> QED
      BY <3>1
  <2>5. Sum(f, G)[t \ u] <= Sum(f, G)[t]
    BY <2>4
  <2>6. PICK a, b : a = t \ u /\ b = t \ s
    OBVIOUS
  <2>7. a \in SUBSET G /\ b \in SUBSET G /\ y \in a /\ a \ {y} = b
    BY <2>2, <2>3, <2>6
  <2>8. Sum(f, G)[a] = f[y] + Sum(f, G)[b]
    BY <2>7, SumTakesOut
  <2>9. Sum(f, G)[a] \in Nat /\ Sum(f, G)[b] \in Nat /\ f[y] \in Nat /\ Sum(f, G)[t] \in Nat
    BY <2>7, SumStep
  <2> QED
    BY <2>5, <2>6, <2>8, <2>9
<1>3. S = Nat
  <2>1. S \in SUBSET Nat
    OBVIOUS
  <2> HIDE DEF S
  <2> QED
    BY <1>1, <1>2, <2>1, SetInduction
<1>4. PICK u : u = t \ r
  OBVIOUS
<1>5. u \in SUBSET t /\ Cardinality(u) \in Nat /\ t \ u = r
  <2>1. u \in SUBSET t /\ t \ u = r
    BY <1>4
  <2> QED
    BY <2>1, <1>0, FS_Subset, FS_CardinalityType
<1> QED
  BY <1>3, <1>5

-----------------------------------------------------------------------------
(***************************************************************************)
(* The aggregate budget.                                                   *)
(***************************************************************************)
ChargeSum(L, S) == MapThenSumSet(LAMBDA x : Charge(L[x[1]][x[2]]), S)

ChargeUnfolds(L, S, g) ==
    g = [s \in SUBSET S |-> IF s = {} THEN 0
                            ELSE LET x == CHOOSE x \in s : TRUE
                                 IN  Charge(L[x[1]][x[2]]) + g[s \ {x}]]
Charges(L, S, f) == f \in [S -> Nat] /\ \A x \in S : f[x] = Charge(L[x[1]][x[2]])

LEMMA ChargeSumIs ==
  ASSUME NEW L, NEW S, IsFiniteSet(S), NEW f, Charges(L, S, f)
  PROVE  ChargeSum(L, S) = Sum(f, S)[S]
<1>1. ChargeSum(L, S) = (CHOOSE g : ChargeUnfolds(L, S, g))[S]
  BY DEF ChargeSum, ChargeUnfolds, MapThenSumSet, MapThenFoldSet
<1>2. ASSUME NEW g PROVE Unfolds(f, S, g) <=> ChargeUnfolds(L, S, g)
  <2>1. ASSUME NEW s \in SUBSET S, s # {}
        PROVE  f[Pick(s)] = LET x == CHOOSE x \in s : TRUE IN Charge(L[x[1]][x[2]])
    <3>1. Pick(s) \in S
      BY <2>1, PickOne
    <3> QED
      BY <3>1 DEF Charges, Pick
  <2> QED
    BY <2>1 DEF Unfolds, ChargeUnfolds, Pick
<1>3. Unfolds(f, S, Sum(f, S))
  BY SumIs DEF Charges
<1>4. PICK h : h = CHOOSE g : ChargeUnfolds(L, S, g)
  OBVIOUS
<1>5. ChargeUnfolds(L, S, h)
  BY <1>2, <1>3, <1>4
<1>6. h = Sum(f, S)
  BY <1>2, <1>5, SumIsUnique DEF Charges
<1> QED
  BY <1>1, <1>4, <1>6

\* An open row has no price yet, so its charge is the whole reservation.
OpenRowsUnpriced ==
    \A a \in Attempts : \A i \in DOMAIN ledger[a] :
        ledger[a][i].state \in Unresolved => ledger[a][i].cost = NoCost

BudgetInv ==
    /\ OpenRowsUnpriced
    /\ Cardinality(Charged) <= MaxReservations
    /\ ChargeSum(ledger, Charged) <= MaxTotalCost

\* Rows that a settlement may replace, and by what.
RowSettles(old, new) ==
    \/ new = old
    \/ /\ old.state \in Unresolved
       /\ new.state \in Unresolved => new.cost = NoCost

LedgerSettles ==
    \A a \in Attempts :
        /\ DOMAIN ledger'[a] = DOMAIN ledger[a]
        /\ \A i \in DOMAIN ledger[a] : RowSettles(ledger[a][i], ledger'[a][i])

LEMMA ChargeTyped ==
  ASSUME NEW row \in ReservationRows
  PROVE  /\ Charge(row) \in Nat /\ Charge(row) <= ReserveCost
         /\ row.cost = NoCost => Charge(row) = ReserveCost
<1>1. row.cost \in (0..ReserveCost) \cup {NoCost} /\ ReserveCost \in Nat
  BY FenceAssumption DEF ReservationRows
<1> QED BY <1>1 DEF Charge

\* The charges of some rows of a ledger.
ChargesOf(L, C) == [x \in C |-> Charge(L[x[1]][x[2]])]

Ledgers == [Attempts -> Seq(ReservationRows)]
RowsOf(L) == {x \in Cells : x[2] \in DOMAIN L[x[1]]}

LEMMA ChargesTyped ==
  ASSUME NEW L \in Ledgers, NEW C \in SUBSET RowsOf(L)
  PROVE  IsFiniteSet(C) /\ Charges(L, C, ChargesOf(L, C))
<1>1. IsFiniteSet(Attempts) /\ IsFiniteSet(Generations)
  BY FenceAssumption, FS_Interval DEF Generations
<1>2. IsFiniteSet(Cells)
  BY <1>1, FS_Product DEF Cells
<1>3. C \subseteq Cells
  BY DEF RowsOf
<1>4. ASSUME NEW x \in C
      PROVE  Charge(L[x[1]][x[2]]) \in Nat
  <2>1. x[1] \in Attempts /\ x[2] \in DOMAIN L[x[1]]
    BY DEF RowsOf, Cells
  <2>2. L[x[1]] \in Seq(ReservationRows)
    BY <2>1 DEF Ledgers
  <2>3. L[x[1]][x[2]] \in ReservationRows
    BY <2>1, <2>2
  <2> QED BY <2>3, ChargeTyped
<1>5. IsFiniteSet(C)
  BY <1>2, <1>3, FS_Subset
<1> QED BY <1>4, <1>5 DEF Charges, ChargesOf

\* Rows that settle charge no more than before.
LEMMA SettlingKeeps ==
  ASSUME FInv, FInv', BudgetInv, LedgerSettles
  PROVE  BudgetInv'
<1>1. PICK L, M, C, D, f, g :
          /\ L = ledger /\ M = ledger' /\ C = Charged /\ D = Charged'
          /\ f = ChargesOf(L, C) /\ g = ChargesOf(M, D)
  OBVIOUS
<1>2. IsFiniteSet(C) /\ Charges(L, C, f)
  <2>1. L \in Ledgers /\ C \in SUBSET RowsOf(L)
    BY <1>1 DEF FInv, Types, Ledgers, Charged, ChargedRows, RowsOf, Cells
  <2> QED BY <1>1, <2>1, ChargesTyped
<1>3. IsFiniteSet(D) /\ Charges(M, D, g)
  <2>1. M \in Ledgers /\ D \in SUBSET RowsOf(M)
    BY <1>1 DEF FInv, Types, Ledgers, Charged, ChargedRows, RowsOf, Cells
  <2> QED BY <1>1, <2>1, ChargesTyped
<1>4. ASSUME NEW x \in D
      PROVE  x \in C /\ g[x] <= f[x]
  <2>1. PICK a \in Attempts, i \in Generations : x = <<a, i>> /\ i \in DOMAIN M[a] /\ M[a][i].state \notin ZeroCost
    BY <1>1 DEF Charged, ChargedRows
  <2>2. i \in DOMAIN L[a] /\ RowSettles(L[a][i], M[a][i])
    BY <1>1, <2>1 DEF LedgerSettles
  <2>3. L[a][i] \in ReservationRows
    BY <1>1, <2>2, ReservationTyped
  <2>4. M[a][i] \in ReservationRows
    <3>1. M[a] \in Seq(ReservationRows)
      BY <1>1 DEF FInv, Types
    <3> QED BY <2>1, <3>1
  <2>5. L[a][i].state \notin ZeroCost
    BY <2>1, <2>2 DEF RowSettles, Unresolved, ZeroCost
  <2>6. x \in C
    BY <1>1, <2>1, <2>2, <2>5 DEF Charged, ChargedRows
  <2>7. f[x] = Charge(L[a][i]) /\ g[x] = Charge(M[a][i])
    <3>1. x[1] = a /\ x[2] = i
      BY <2>1
    <3> QED BY <1>2, <1>3, <2>6, <3>1 DEF Charges
  <2>8. /\ Charge(L[a][i]) \in Nat /\ Charge(M[a][i]) \in Nat /\ Charge(M[a][i]) <= ReserveCost
        /\ L[a][i].cost = NoCost => Charge(L[a][i]) = ReserveCost
    BY <2>3, <2>4, ChargeTyped
  <2>9. Charge(M[a][i]) <= Charge(L[a][i])
    <3>1. CASE M[a][i] = L[a][i]
      BY <3>1, <2>8
    <3>2. CASE L[a][i].state \in Unresolved
      <4>1. L[a][i].cost = NoCost
        BY <1>1, <2>2, <3>2 DEF BudgetInv, OpenRowsUnpriced
      <4> QED BY <4>1, <2>8
    <3> QED BY <2>2, <3>1, <3>2 DEF RowSettles
  <2> QED BY <2>6, <2>7, <2>9
<1>5. D \in SUBSET C /\ Below(g, f, D)
  BY <1>4 DEF Below
<1>6. Cardinality(D) <= Cardinality(C) /\ Cardinality(D) \in Nat /\ Cardinality(C) \in Nat
  BY <1>2, <1>3, <1>5, FS_Subset, FS_CardinalityType
<1>7. f \in [C -> Nat] /\ g \in [D -> Nat]
  BY <1>2, <1>3 DEF Charges
<1>8. Sum(g, D)[D] <= Sum(f, C)[D] /\ Sum(f, C)[D] <= Sum(f, C)[C]
  BY <1>2, <1>3, <1>5, <1>7, SumCompares, SumGrows
<1>9. Sum(g, D)[D] \in Nat /\ Sum(f, C)[D] \in Nat /\ Sum(f, C)[C] \in Nat
  BY <1>2, <1>3, <1>5, <1>7, SumStep
<1>10. ChargeSum(L, C) = Sum(f, C)[C] /\ ChargeSum(M, D) = Sum(g, D)[D]
  BY <1>2, <1>3, ChargeSumIs
<1>11. ChargeSum(L, C) <= MaxTotalCost /\ Cardinality(C) <= MaxReservations
  BY <1>1 DEF BudgetInv
<1>12. ChargeSum(M, D) <= MaxTotalCost /\ Cardinality(D) <= MaxReservations
  BY <1>6, <1>8, <1>9, <1>10, <1>11, FenceAssumption
<1>13. OpenRowsUnpriced'
  <2> SUFFICES ASSUME NEW a \in Attempts, NEW i \in DOMAIN ledger'[a], ledger'[a][i].state \in Unresolved
               PROVE  ledger'[a][i].cost = NoCost
    BY DEF OpenRowsUnpriced
  <2>1. i \in DOMAIN ledger[a] /\ RowSettles(ledger[a][i], ledger'[a][i])
    BY DEF LedgerSettles
  <2> QED BY <2>1 DEF RowSettles, BudgetInv, OpenRowsUnpriced
<1> QED BY <1>1, <1>12, <1>13 DEF BudgetInv

\* A reservation is charged in full, and only if that fits.
LEMMA ReservingKeeps ==
  ASSUME FInv, FInv', BudgetInv, NEW w \in Workers, ReserveWithAggregate(w)
  PROVE  BudgetInv'
<1>1. PICK L, M, C, D, f, g :
          /\ L = ledger /\ M = ledger' /\ C = Charged /\ D = Charged'
          /\ f = ChargesOf(L, C) /\ g = ChargesOf(M, D)
  OBVIOUS
<1>2. L \in Ledgers /\ C \in SUBSET RowsOf(L) /\ M \in Ledgers /\ D \in SUBSET RowsOf(M)
  BY <1>1 DEF FInv, Types, Ledgers, Charged, ChargedRows, RowsOf, Cells
<1>3. /\ IsFiniteSet(C) /\ Charges(L, C, f) /\ IsFiniteSet(D) /\ Charges(M, D, g)
      /\ f \in [C -> Nat] /\ g \in [D -> Nat]
  <2>1. IsFiniteSet(C) /\ Charges(L, C, f) /\ IsFiniteSet(D) /\ Charges(M, D, g)
    BY <1>1, <1>2, ChargesTyped
  <2> QED BY <2>1 DEF Charges
<1>4. PICK a, n, row : /\ a = worker[w].attempt /\ n = Len(L[a]) + 1
                       /\ row = [state |-> "reserved", bound |-> CurrentGeneration(a), cost |-> NoCost]
  OBVIOUS
<1>5. /\ worker[w].pc = "unreserved" /\ Cardinality(C) < MaxReservations
      /\ M = [L EXCEPT ![a] = Append(L[a], row)]
  BY <1>1, <1>4 DEF ReserveWithAggregate
<1>6. ChargeSum(L, C) + ReserveCost <= MaxTotalCost
  <2>1. ChargeSum(ledger, Charged) + ReserveCost <= MaxTotalCost
    BY DEF ReserveWithAggregate, TotalCharge, ChargeSum
  <2> QED BY <1>1, <2>1
<1>7. a \in Attempts
  BY <1>4, <1>5, Held
<1>8. row.state = "reserved" /\ row.cost = NoCost
  BY <1>4
<1>9. L[a] \in Seq(ReservationRows) /\ M[a] \in Seq(ReservationRows)
  BY <1>2, <1>7 DEF Ledgers
<1>10. M[a] = Append(L[a], row) /\ \A b \in Attempts : b # a => M[b] = L[b]
  BY <1>2, <1>5, <1>7 DEF Ledgers
<1>11. /\ Len(M[a]) = n /\ n \in Nat /\ DOMAIN M[a] = 1..n /\ DOMAIN L[a] = 1..(n - 1) /\ M[a][n] = row
       /\ \A i \in 1..(n - 1) : M[a][i] = L[a][i]
  BY <1>4, <1>9, <1>10
<1>12. n \in Generations
  <2>1. FInv' => Len(ledger'[a]) <= MaxGenerations
    <3>1. FInv' => Cardinality(ReservingGenerations(a)') + Len(ledger'[a]) <= job'[a].gen /\ job'[a].gen \in 0..MaxGenerations
      BY <1>7 DEF FInv, RowsPerGeneration, Types, JobRows
    <3>2. Cardinality(ReservingGenerations(a)') \in Nat
      BY <1>7, ReservingGenerationsFinite, FS_CardinalityType
    <3>3. Len(ledger'[a]) \in Nat
      BY <1>1, <1>11
    <3> QED BY <3>1, <3>2, <3>3, FenceAssumption
  <2>2. n >= 1 /\ n <= MaxGenerations
    BY <1>1, <1>4, <1>9, <1>11, <2>1
  <2> QED BY <1>11, <2>2, FenceAssumption DEF Generations
<1>13. PICK z : z = <<a, n>>
  OBVIOUS
<1>14. z \in D /\ z \notin C /\ D \ {z} = C
  <2>1. z \in D
    <3>1. z \in Attempts \X Generations /\ z[1] = a /\ z[2] = n
      BY <1>7, <1>12, <1>13
    <3>2. n \in DOMAIN M[a] /\ M[a][n].state \notin ZeroCost
      BY <1>8, <1>11, <1>12 DEF ZeroCost, Generations
    <3> QED BY <1>1, <3>1, <3>2 DEF Charged, ChargedRows
  <2>2. z \notin C
    <3>1. n \notin DOMAIN L[a]
      BY <1>11
    <3> QED BY <1>1, <1>13, <3>1 DEF Charged, ChargedRows
  <2>3. ASSUME NEW x \in Attempts \X Generations, x # z
        PROVE  x \in D <=> x \in C
    <3>1. PICK b \in Attempts, i \in Generations : x = <<b, i>>
      OBVIOUS
    <3>2. CASE b # a
      <4>1. M[b] = L[b]
        BY <1>10, <3>2
      <4> QED BY <1>1, <3>1, <4>1 DEF Charged, ChargedRows
    <3>3. CASE b = a
      <4>1. i # n
        BY <1>13, <2>3, <3>1, <3>3
      <4>2. i \in DOMAIN M[a] <=> i \in DOMAIN L[a]
        BY <1>11, <4>1 DEF Generations
      <4>3. i \in DOMAIN L[a] => M[a][i] = L[a][i]
        BY <1>11
      <4> QED BY <1>1, <3>1, <3>3, <4>2, <4>3 DEF Charged, ChargedRows
    <3> QED BY <3>2, <3>3
  <2>4. C \subseteq Attempts \X Generations /\ D \subseteq Attempts \X Generations
    BY <1>1 DEF Charged
  <2> QED BY <2>1, <2>2, <2>3, <2>4
<1>15. C \in SUBSET D
  BY <1>14
<1>16. g[z] = ReserveCost /\ ReserveCost \in Nat
  <2>1. z[1] = a /\ z[2] = n
    BY <1>13
  <2>2. g[z] = Charge(row)
    BY <1>3, <1>11, <1>14, <2>1 DEF Charges
  <2> QED BY <1>8, <2>2, FenceAssumption DEF Charge
<1>17. Below(g, f, C)
  <2> SUFFICES ASSUME NEW x \in C
               PROVE  g[x] <= f[x]
    BY DEF Below
  <2>1. PICK b \in Attempts, i \in Generations : x = <<b, i>> /\ i \in DOMAIN L[b]
    BY <1>2 DEF RowsOf, Cells
  <2>2. M[b][i] = L[b][i]
    BY <1>10, <1>11, <2>1
  <2>3. x[1] = b /\ x[2] = i
    BY <2>1
  <2>4. f[x] = Charge(L[b][i]) /\ g[x] = Charge(M[b][i])
    BY <1>3, <1>15, <2>3 DEF Charges
  <2>5. f[x] \in Nat
    BY <1>3
  <2> QED BY <2>2, <2>4, <2>5
<1>18. Sum(g, D)[D] = g[z] + Sum(g, D)[C]
  BY <1>3, <1>14, SumTakesOut
<1>19. Sum(g, D)[C] <= Sum(f, C)[C]
  BY <1>3, <1>15, <1>17, SumCompares
<1>20. Sum(g, D)[D] \in Nat /\ Sum(g, D)[C] \in Nat /\ Sum(f, C)[C] \in Nat
  BY <1>3, <1>15, SumStep
<1>21. ChargeSum(L, C) = Sum(f, C)[C] /\ ChargeSum(M, D) = Sum(g, D)[D]
  BY <1>3, ChargeSumIs
<1>22. ChargeSum(M, D) <= MaxTotalCost
  BY <1>6, <1>16, <1>18, <1>19, <1>20, <1>21, FenceAssumption
<1>23. Cardinality(D) <= MaxReservations
  <2>1. Cardinality(D \ {z}) = Cardinality(D) - 1 /\ Cardinality(D) \in Nat /\ Cardinality(C) \in Nat
    BY <1>3, <1>14, FS_RemoveElement, FS_CardinalityType
  <2>2. PICK c, d \in Nat : c = Cardinality(C) /\ d = Cardinality(D)
    BY <2>1
  <2>3. c = d - 1 /\ c < MaxReservations /\ MaxReservations \in Nat
    BY <1>5, <1>14, <2>1, <2>2, FenceAssumption
  <2> QED BY <2>2, <2>3
<1>24. OpenRowsUnpriced'
  <2> SUFFICES ASSUME NEW b \in Attempts, NEW i \in DOMAIN M[b], M[b][i].state \in Unresolved
               PROVE  M[b][i].cost = NoCost
    BY <1>1 DEF OpenRowsUnpriced
  <2>1. CASE b = a /\ i = n
    BY <1>8, <1>11, <2>1
  <2>2. CASE ~ (b = a /\ i = n)
    <3>1. i \in DOMAIN L[b] /\ M[b][i] = L[b][i]
      BY <1>10, <1>11, <2>2
    <3> QED BY <1>1, <3>1 DEF BudgetInv, OpenRowsUnpriced
  <2> QED BY <2>1, <2>2
<1> QED BY <1>1, <1>22, <1>23, <1>24 DEF BudgetInv

LEMMA OneRowSettles ==
  ASSUME FInv, NEW a \in Attempts, NEW i \in 1..Len(ledger[a]), NEW row,
         ledger' = [ledger EXCEPT ![a] = [ledger[a] EXCEPT ![i] = row]],
         RowSettles(ledger[a][i], row)
  PROVE  LedgerSettles
<1>1. ledger \in Ledgers /\ DOMAIN ledger[a] = 1..Len(ledger[a])
  BY DEF FInv, Types, Ledgers
<1>2. PICK rows : rows = [ledger[a] EXCEPT ![i] = row]
  OBVIOUS
<1>3. /\ DOMAIN rows = DOMAIN ledger[a] /\ rows[i] = row
      /\ \A j \in DOMAIN ledger[a] : j # i => rows[j] = ledger[a][j]
  BY <1>1, <1>2
<1>4. ledger'[a] = rows /\ \A b \in Attempts : b # a => ledger'[b] = ledger[b]
  BY <1>1, <1>2 DEF Ledgers
<1> QED BY <1>3, <1>4 DEF LedgerSettles, RowSettles

\* Reconcile, settlement and maintenance settle open rows and nothing else.
LEMMA ReconcileSettles ==
  ASSUME FInv, BudgetInv, NEW w \in Workers, NEW s \in Settlements, Reconcile(w, s)
  PROVE  LedgerSettles
<1>1. PICK a, i : a = worker[w].attempt /\ i = worker[w].row
  OBVIOUS
<1>2. /\ worker[w].pc = "admitted" /\ ledger[a][i].state \notin Settled
      /\ ledger' = [ledger EXCEPT ![a][i].state = s.state, ![a][i].cost = s.cost]
  BY <1>1 DEF Reconcile, Open
<1>3. a \in Attempts /\ i \in 1..Len(ledger[a])
  BY <1>1, <1>2, Held DEF Prepared
<1>4. ledger[a] \in Seq(ReservationRows) /\ ledger[a][i] \in ReservationRows /\ ledger \in Ledgers
  BY <1>3 DEF FInv, Types, Ledgers
<1>5. s.state \in Unresolved => s.cost = NoCost
  BY DEF Settlements, Settlement, Unresolved
<1>6. PICK row : row = [ledger[a][i] EXCEPT !.state = s.state, !.cost = s.cost]
  OBVIOUS
<1>7. row.state = s.state /\ row.cost = s.cost /\ ledger[a][i].state \in Unresolved
  BY <1>2, <1>4, <1>6 DEF ReservationRows
<1>8. ledger' = [ledger EXCEPT ![a] = [ledger[a] EXCEPT ![i] = row]]
  BY <1>2, <1>6
<1>9. RowSettles(ledger[a][i], row)
  BY <1>5, <1>7 DEF RowSettles
<1> QED BY <1>3, <1>4, <1>8, <1>9, OneRowSettles

LEMMA MaintenanceSettles ==
  ASSUME FInv, BudgetInv, NEW a \in Attempts, NEW i \in Generations, Release(a, i) \/ Expire(a, i)
  PROVE  LedgerSettles
<1>1. i \in DOMAIN ledger[a] /\ ledger[a][i].state = "reserved"
  BY DEF Release, Expire
<1>2. PICK state : ledger' = [ledger EXCEPT ![a][i].state = state]
  BY DEF Release, Expire
<1>3. i \in 1..Len(ledger[a]) /\ ledger[a][i] \in ReservationRows
  BY <1>1, ReservationTyped
<1>4. PICK row : row = [ledger[a][i] EXCEPT !.state = state]
  OBVIOUS
<1>5. row.cost = ledger[a][i].cost /\ ledger[a][i].state \in Unresolved
  BY <1>1, <1>3, <1>4 DEF ReservationRows, Unresolved
<1>6. ledger[a][i].cost = NoCost
  BY <1>1, <1>5 DEF BudgetInv, OpenRowsUnpriced
<1>7. ledger' = [ledger EXCEPT ![a] = [ledger[a] EXCEPT ![i] = row]]
  BY <1>2, <1>4
<1>8. RowSettles(ledger[a][i], row)
  BY <1>5, <1>6 DEF RowSettles
<1> QED BY <1>3, <1>7, <1>8, OneRowSettles

LEMMA SettleSettles ==
  ASSUME FInv, BudgetInv, NEW w \in Workers, SettleOpenForInvocation(w)
  PROVE  LedgerSettles
<1>1. PICK a, old, rows : /\ a = worker[w].attempt /\ old = ledger[a]
                          /\ rows = [i \in DOMAIN old |-> SettledFor(a, worker[w].gen, old[i])]
  OBVIOUS
<1>2. worker[w].pc = "settling" /\ ledger' = [ledger EXCEPT ![a] = rows]
  BY <1>1 DEF SettleOpenForInvocation
<1>3. a \in Attempts /\ ledger \in Ledgers
  BY <1>1, <1>2, Held DEF FInv, Types, Ledgers
<1>4. ASSUME NEW i \in DOMAIN old
      PROVE  RowSettles(old[i], rows[i])
  <2>1. old[i] \in ReservationRows
    BY <1>1, <1>3, ReservationTyped
  <2>2. rows[i] = SettledFor(a, worker[w].gen, old[i])
    BY <1>1
  <2>3. PICK state : \/ rows[i] = old[i]
                     \/ old[i].state = "reserved" /\ rows[i] = [old[i] EXCEPT !.state = state]
    BY <2>2 DEF SettledFor
  <2>4. CASE old[i].state = "reserved" /\ rows[i] = [old[i] EXCEPT !.state = state]
    <3>1. rows[i].cost = old[i].cost /\ old[i].state \in Unresolved
      BY <2>1, <2>4 DEF ReservationRows, Unresolved
    <3>2. old[i].cost = NoCost
      BY <1>1, <1>3, <3>1 DEF BudgetInv, OpenRowsUnpriced
    <3> QED BY <3>1, <3>2 DEF RowSettles
  <2> QED BY <2>3, <2>4 DEF RowSettles
<1>5. /\ ledger'[a] = rows /\ DOMAIN rows = DOMAIN old
      /\ \A b \in Attempts : b # a => ledger'[b] = ledger[b]
  BY <1>1, <1>2, <1>3 DEF Ledgers
<1> QED BY <1>1, <1>4, <1>5 DEF LedgerSettles, RowSettles

\* However reservations are settled, replaced or abandoned, what is charged stays
\* within the aggregate budget, in rows and in money.
THEOREM BudgetIsRespected == Spec => []BudgetRespected
<1>1. Init => BudgetInv
  <2> SUFFICES ASSUME Init
               PROVE  BudgetInv
    OBVIOUS
  <2>1. \A a \in Attempts : ledger[a] = << >> /\ DOMAIN ledger[a] = {}
    BY DEF Init
  <2>2. Charged = {}
    BY <2>1 DEF Charged, ChargedRows
  <2>3. IsFiniteSet({}) /\ Cardinality({}) = 0
    BY FS_EmptySet
  <2>4. PICK f : f = [x \in {} |-> 0]
    OBVIOUS
  <2>5. f \in [{} -> Nat] /\ Charges(ledger, {}, f)
    BY <2>4 DEF Charges
  <2>6. ChargeSum(ledger, {}) = 0
    <3>1. Sum(f, {})[{}] = 0
      BY <2>3, <2>5, SumStep
    <3> QED BY <2>3, <2>5, <3>1, ChargeSumIs
  <2> QED BY <2>1, <2>2, <2>3, <2>6, FenceAssumption DEF BudgetInv, OpenRowsUnpriced
<1>2. FInv /\ FInv' /\ BudgetInv /\ [Next]_vars => BudgetInv'
  <2> SUFFICES ASSUME FInv, FInv', BudgetInv, [Next]_vars
               PROVE  BudgetInv'
    OBVIOUS
  <2>1. CASE UNCHANGED ledger
    <3>1. LedgerSettles
      BY <2>1 DEF LedgerSettles, RowSettles
    <3> QED BY <3>1, SettlingKeeps
  <2>2. CASE \E w \in Workers : ReserveWithAggregate(w)
    BY <2>2, ReservingKeeps
  <2>3. CASE \E w \in Workers : SettleOpenForInvocation(w) \/ \E s \in Settlements : Reconcile(w, s)
    BY <2>3, SettleSettles, ReconcileSettles, SettlingKeeps
  <2>4. CASE \E a \in Attempts, i \in Generations : Release(a, i) \/ Expire(a, i)
    BY <2>4, MaintenanceSettles, SettlingKeeps
  <2>5. ASSUME NEW w \in Workers, WorkerNext(w)
        PROVE  \/ UNCHANGED ledger
               \/ ReserveWithAggregate(w)
               \/ SettleOpenForInvocation(w) \/ \E s \in Settlements : Reconcile(w, s)
    BY <2>5
    DEF WorkerNext, Claim, Crash, HoldDeadline, Begin, LatestForAttempt, MarkDispatchStarted,
        ObserveProviderRequest, AdmitTerminal, RequestCancel, DispatchCancel, AnswerCancel,
        FinishCaptured, Fail, Abandon, MarkLeaseLost, SynchronizeUsageState
  <2>6. ASSUME NEW a \in Attempts, ExpireLease(a) \/ Reclaim(a)
        PROVE  UNCHANGED ledger
    BY <2>6 DEF ExpireLease, Reclaim
  <2> QED BY <2>1, <2>2, <2>3, <2>4, <2>5, <2>6 DEF Next, vars
<1>3. BudgetInv => BudgetRespected
  BY DEF BudgetInv, BudgetRespected, Charged, ChargedRows, ChargeSum
<1> QED BY <1>1, <1>2, <1>3, FenceInvariant, PTL DEF Spec

=============================================================================
