---------------------------- MODULE FactorAdapter ----------------------------
(***************************************************************************)
(* The factorial treatments (factors_v1): recipes over planning,           *)
(* verification, recovery and memory, the adapter that decorates a trusted *)
(* one with a recipe and refuses a result whose treatment was not          *)
(* delivered, and the bounded episode memory with its compaction.          *)
(*                                                                         *)
(* A worker prepares an attempt, executes and follows it concurrently, may *)
(* cancel it, and prepares it again only when its own calls are over. The  *)
(* runtime that performs the treatment is external: any report. The memory *)
(* is a value the runtime keeps, updated by its pure operations.           *)
(***************************************************************************)
EXTENDS Integers, Sequences, FiniteSets

CONSTANTS
    Profiles,       \* adapter capabilities: subsets of {"state", "checkpoint", "memory"}
    Arms,           \* assignments tried: factor -> BOOLEAN
    Reports,        \* what the runtime may report
    BaseOutcomes,   \* what the decorated adapter may answer
    MaxSessions,    \* bound: preparations
    MaxItems, MaxBytes,             \* EpisodeMemory.max_items, max_bytes
    ItemSizes, MaxAppends,          \* bounds: sizes and number of memory items
    HeaderBytes, SeparatorBytes     \* of a compacted item

ASSUME FactorAssumption ==
    /\ [outcome |-> "none", response |-> 0] \notin BaseOutcomes
    /\ MaxItems \in Nat \ {0} /\ MaxBytes \in Nat \ {0} /\ ItemSizes \subseteq Nat \ {0}
    /\ HeaderBytes \in Nat /\ SeparatorBytes \in Nat

VARIABLES
    attempt,    \* what the adapter keeps of the attempt
    caller,     \* execute_attempt calls: caller -> where it is
    follower,   \* stream_events: [pc, session, fidelity, outcome]
    memory      \* [items, appended]: EpisodeMemory, and what was ever appended

factorVars == <<attempt, caller, follower>>
memoryVars == <<memory>>

FactorIds == {"planning", "verification", "recovery", "memory"}
Callers == 1 .. 2
NoReport == [session |-> 0]
NoResult == [outcome |-> "none", response |-> 0]
Following == [pc |-> "idle", fidelity |-> FALSE, outcome |-> "none"]

FactorInit ==
    /\ attempt = [session |-> 0, arm |-> [f \in FactorIds |-> FALSE], result |-> NoResult, report |-> NoReport,
                  done |-> FALSE, locked |-> FALSE, cancelled |-> FALSE, cleaned |-> FALSE]
    /\ caller = [c \in Callers |-> [pc |-> "idle", result |-> NoResult]]
    /\ follower = Following

MemoryInit == memory = [items |-> <<>>, appended |-> <<>>]

-----------------------------------------------------------------------------
(* Recipes. *)

\* FLAGSHIP_FACTORS: the capability each factor needs, active or sham.
Required(factor) ==
    CASE factor \in {"planning", "verification"} -> "state"
      [] factor = "recovery"                     -> "checkpoint"
      [] factor = "memory"                       -> "memory"

\* compile_recipe: the flagship declarations mutate different targets and have
\* no incompatibilities, so only strictness and capabilities can fail.
Compiles(arm, profile) == DOMAIN arm = FactorIds /\ \A f \in FactorIds : Required(f) \in profile

\* check_manipulation_fidelity: the observed level and the matched budget of
\* every mechanism, sham ones too.
Faithful(arm, report) ==
    /\ report.evidence
    /\ DOMAIN report.observed = FactorIds
    /\ \A f \in FactorIds : report.observed[f] = arm[f] /\ report.matched

-----------------------------------------------------------------------------
(* Delivery evidence. *)

Transitions(state) ==
    CASE state = "pending"     -> {"in_progress"}
      [] state = "in_progress" -> {"completed", "failed"}
      [] OTHER                 -> {}

\* _validate_plan: one step moves, legally, from each plan to the next, and
\* the last one is settled.
ValidPlan(history) ==
    /\ Len(history) >= 3
    /\ \A i \in 1 .. Len(history) - 1 :
        LET before == history[i]
            after  == history[i + 1]
        IN  /\ DOMAIN before = DOMAIN after
            /\ \E s \in DOMAIN before :
                /\ after[s] \in Transitions(before[s])
                /\ \A t \in DOMAIN before \ {s} : after[t] = before[t]
    /\ \A s \in DOMAIN history[Len(history)] : history[Len(history)][s] \in {"completed", "failed"}

\* authorize_recovery: a declared transient failure, a retry left, a key not
\* used, and a checkpoint of this attempt that was observed.
AuthorizeRecovery(r) ==
    r.unused /\ r.class = "transient" /\ r.declared /\ r.used < r.max /\ r.checkpoint = "observed"

ValidRecovery(observations) == \A r \in observations : r.bound /\ r.decision = AuthorizeRecovery(r)

\* verify_before_finalization: the checks pass, or the one repair's checks do,
\* and it is a different response. 0 stands for no response.
Verified(candidate, checks, repair) ==
    CASE checks = "passed"                                        -> candidate
      [] checks = "failed" /\ repair.tried /\ repair.checks = "passed" /\ repair.response # candidate -> repair.response
      [] OTHER                                                    -> 0

\* _validate_verification: only a completed answer needs it; it must permit the
\* very response that was returned.
ValidVerification(verification, result) ==
    result.outcome = "completed" /\ result.response # 0 =>
        /\ verification.given
        /\ verification.candidate = result.response
        /\ Verified(verification.candidate, verification.checks, verification.repair) = result.response

\* _validate_delivery
Delivered(arm, report, final, result) ==
    /\ Faithful(arm, report)
    /\ arm["planning"] => ValidPlan(report.plan)
    /\ arm["memory"] => report.remembered
    /\ arm["recovery"] => ValidRecovery(report.recovery)
    /\ final /\ arm["verification"] => ValidVerification(report.verification, result)

-----------------------------------------------------------------------------
(* The adapter. *)

CallersIdle == \A c \in Callers : caller[c].pc = "idle"

\* Mutant: the report of an earlier preparation is kept.
PrepareAttemptKeepingReport(arm, profile, initial) ==
    /\ CallersIdle /\ follower.pc \in {"idle", "ended"}
    /\ attempt.session < MaxSessions
    /\ Compiles(arm, profile)
    /\ Delivered(arm, initial, FALSE, NoResult)
    /\ attempt' = [session |-> attempt.session + 1, arm |-> arm, result |-> NoResult, report |-> attempt.report,
                   done |-> FALSE, locked |-> FALSE, cancelled |-> FALSE, cleaned |-> FALSE]
    /\ follower' = Following
    /\ UNCHANGED caller

\* The router picks the recipe of the assignment; a preparation that is refused
\* leaves nothing. What an earlier one left is forgotten.
PrepareAttempt(arm, profile, initial) ==
    /\ CallersIdle /\ follower.pc \in {"idle", "ended"}
    /\ attempt.session < MaxSessions
    /\ Compiles(arm, profile)
    /\ Delivered(arm, initial, FALSE, NoResult)
    /\ attempt' = [session |-> attempt.session + 1, arm |-> arm, result |-> NoResult, report |-> NoReport,
                   done |-> FALSE, locked |-> FALSE, cancelled |-> FALSE, cleaned |-> FALSE]
    /\ follower' = Following
    /\ UNCHANGED caller

\* execute_attempt: a result is answered again; otherwise one call at a time.
Execute(c) ==
    /\ attempt.session > 0 /\ caller[c].pc = "idle"
    /\ \/ /\ attempt.result # NoResult
          /\ attempt' = [attempt EXCEPT !.done = TRUE]
          /\ UNCHANGED caller
       \/ /\ attempt.result = NoResult
          /\ caller' = [caller EXCEPT ![c].pc = "lock"]
          /\ UNCHANGED attempt
    /\ UNCHANGED follower

TakeExecutionLock(c) ==
    /\ caller[c].pc = "lock" /\ ~attempt.locked
    /\ \/ /\ attempt.result # NoResult
          /\ attempt' = [attempt EXCEPT !.done = TRUE]
          /\ caller' = [caller EXCEPT ![c].pc = "idle"]
       \/ /\ attempt.result = NoResult
          /\ attempt' = [attempt EXCEPT !.locked = TRUE]
          /\ caller' = [caller EXCEPT ![c].pc = "base"]
    /\ UNCHANGED follower

Held == [outcome |-> "incomplete", response |-> 0]

\* The finally block: the result is stored before the followers are released.
Store(c, result, report) ==
    /\ attempt' = [attempt EXCEPT !.result = result, !.report = report, !.done = TRUE, !.locked = FALSE]
    /\ caller' = [caller EXCEPT ![c] = [pc |-> "idle", result |-> NoResult]]

\* The decorated adapter answers, or raises and the attempt is held.
BaseAnswers(c) ==
    /\ caller[c].pc = "base"
    /\ \/ /\ \E result \in BaseOutcomes : caller' = [caller EXCEPT ![c] = [pc |-> "finalize", result |-> result]]
          /\ UNCHANGED attempt
       \/ Store(c, Held, attempt.report)
    /\ UNCHANGED follower

\* The runtime reports; an undelivered treatment holds the attempt.
Finalize(c) ==
    /\ caller[c].pc = "finalize"
    /\ \E report \in Reports :
        IF Delivered(attempt.arm, report, TRUE, caller[c].result)
        THEN Store(c, caller[c].result, [session |-> attempt.session])
        ELSE Store(c, Held, attempt.report)
    /\ UNCHANGED follower

\* The worker cancels the task: CancelledError is not an Exception, so there is
\* no result, and the followers are not released.
FactorAborted(c) ==
    /\ caller[c].pc # "idle"
    /\ attempt' = [attempt EXCEPT !.locked = IF caller[c].pc = "lock" THEN @ ELSE FALSE]
    /\ caller' = [caller EXCEPT ![c] = [pc |-> "idle", result |-> NoResult]]
    /\ UNCHANGED follower

\* stream_events: the binding event and the decorated adapter's trace, then the
\* factor events once the attempt is done.
Follow ==
    /\ attempt.session > 0 /\ follower.pc = "idle"
    /\ follower' = [follower EXCEPT !.pc = "base"]
    /\ UNCHANGED <<attempt, caller>>

FollowFinal ==
    /\ follower.pc = "base" /\ attempt.done
    /\ follower' = [pc |-> "ended", fidelity |-> attempt.report # NoReport, outcome |-> attempt.result.outcome]
    /\ UNCHANGED <<attempt, caller>>

FollowAborted ==
    /\ follower.pc = "base"
    /\ follower' = Following
    /\ UNCHANGED <<attempt, caller>>

\* cancel_attempt and cleanup_attempt: at most once each; what is stored stays.
CancelFactors ==
    /\ attempt.session > 0 /\ ~attempt.cancelled
    /\ attempt' = [attempt EXCEPT !.cancelled = TRUE]
    /\ UNCHANGED <<caller, follower>>

CleanupFactors ==
    /\ attempt.session > 0 /\ ~attempt.cleaned /\ CallersIdle
    /\ attempt' = [attempt EXCEPT !.cancelled = TRUE, !.cleaned = TRUE]
    /\ UNCHANGED <<caller, follower>>

-----------------------------------------------------------------------------
(* Episode memory. An item is known by the set of items it stands for; its     *)
(* text is so many bytes, of which a compacted one keeps an extract.           *)

\* Of a number of bytes, in decimal: exact below ten thousand million.
Digits(n) == 1 + Cardinality({k \in 1 .. 9 : 10 ^ k <= n})

Header(lineage, omitted) == HeaderBytes + Cardinality(lineage) + Digits(omitted)

Size(item) == item.text + IF item.lineage = {} THEN 0 ELSE Header(item.lineage, item.omitted)

Total(items) == LET sum[n \in 0 .. Len(items)] == IF n = 0 THEN 0 ELSE sum[n - 1] + Size(items[n]) IN sum[Len(items)]

TooSmall == [raws |-> {}, lineage |-> {}, text |-> 0, omitted |-> 0]

AtMost(n, limit) == IF n <= limit THEN n ELSE limit

\* One round of _compact: extracts of both, under a header whose length depends
\* on how much is omitted, until what is omitted is what the header said.
CompactRound(left, right, lineage, bound, last) ==
    LET original == left.text + right.text + left.omitted + right.omitted
        room     == bound - Header(lineage, last.omitted) - SeparatorBytes
        kept     == AtMost(left.text, room \div 2) + AtMost(right.text, room - (room \div 2))
    IN  IF last.stable \/ ~last.ok THEN last
        ELSE IF room < 2 THEN [last EXCEPT !.ok = FALSE]
        ELSE [ok |-> TRUE, stable |-> original - kept = last.omitted, kept |-> kept, omitted |-> original - kept]

\* _compact: at most eight rounds to agree with itself.
Compact(left, right, bound) ==
    LET lineage == left.lineage \union right.lineage \union {left.raws, right.raws}
        round[n \in 0 .. 8] ==
            IF n = 0 THEN [ok |-> TRUE, stable |-> FALSE, kept |-> 0, omitted |-> left.omitted + right.omitted]
            ELSE CompactRound(left, right, lineage, bound, round[n - 1])
        item == [raws |-> left.raws \union right.raws, lineage |-> lineage,
                 text |-> round[8].kept + SeparatorBytes, omitted |-> round[8].omitted]
    IN  IF ~round[8].ok \/ Size(item) > bound THEN TooSmall ELSE item

\* append_memory: while the bounds do not hold the two oldest are compacted;
\* <<>> is a refusal.
FitOnce(items) ==
    LET rest == SubSeq(items, 3, Len(items))
        room == AtMost(Size(items[1]) + Size(items[2]) - 1, MaxBytes - Total(rest))
        compacted == Compact(items[1], items[2], room)
    IN  IF items = <<>> \/ (Len(items) <= MaxItems /\ Total(items) <= MaxBytes) THEN items
        ELSE IF Len(items) < 2 \/ room < 1 \/ compacted = TooSmall THEN <<>>
        ELSE <<compacted>> \o rest

Fitted(all) ==
    LET fit[n \in 0 .. Len(all)] == IF n = 0 THEN all ELSE FitOnce(fit[n - 1])
    IN  fit[Len(all)]

AppendMemory(size) ==
    LET id    == Len(memory.appended) + 1
        items == Fitted(Append(memory.items, [raws |-> {id}, lineage |-> {}, text |-> size, omitted |-> 0]))
    IN
    /\ Len(memory.appended) < MaxAppends /\ size <= MaxBytes
    /\ items # <<>>
    /\ memory' = [items |-> items, appended |-> Append(memory.appended, size)]

MemoryNext == \E size \in ItemSizes : AppendMemory(size)

MemorySpec == MemoryInit /\ [][MemoryNext]_memoryVars

FactorNext ==
    \/ \E arm \in Arms, profile \in Profiles, initial \in Reports : PrepareAttempt(arm, profile, initial)
    \/ \E c \in Callers : Execute(c) \/ TakeExecutionLock(c) \/ BaseAnswers(c) \/ Finalize(c) \/ FactorAborted(c)
    \/ Follow \/ FollowFinal \/ FollowAborted \/ CancelFactors \/ CleanupFactors

FactorSpec == FactorInit /\ [][FactorNext]_factorVars

-----------------------------------------------------------------------------
\* The treatment behind a result (factors_v1/adapter 186, 218, 287): whatever is
\* stored as completed was delivered in this very preparation, however calls
\* overlapped, were aborted or repeated, and a trace that ended says of the
\* outcome and of the delivery what the adapter answers.
ResultWasDelivered ==
    /\ attempt.result.outcome = "completed" => attempt.report.session = attempt.session
    /\ attempt.report.session \in {0, attempt.session}
    /\ follower.pc = "ended" => /\ follower.outcome = attempt.result.outcome
                                /\ follower.fidelity = (attempt.report # NoReport)

Sum(f, S) == LET sum[T \in SUBSET S] == IF T = {} THEN 0
                                        ELSE LET x == CHOOSE x \in T : TRUE IN f[x] + sum[T \ {x}]
             IN  sum[S]

\* Nothing is lost silently (factors_v1/memory 40, 76): the memory keeps its
\* bounds, every item appended is present or in the lineage of exactly one,
\* and each byte of it is kept or counted as omitted, through any number of
\* compactions of compacted items.
MemoryAccountsForAll ==
    /\ Len(memory.items) <= MaxItems /\ Total(memory.items) <= MaxBytes
    /\ \A id \in DOMAIN memory.appended : Cardinality({i \in DOMAIN memory.items : id \in memory.items[i].raws}) = 1
    /\ \A i \in DOMAIN memory.items :
        LET item == memory.items[i] IN
        item.text + item.omitted = Sum(memory.appended, item.raws) + SeparatorBytes * (Cardinality(item.raws) - 1)

\* The treatment really given (factors_v1): the result of an attempt and the
\* memory it was given are accounted for.
TreatmentIsAccounted == ResultWasDelivered /\ MemoryAccountsForAll
=============================================================================
