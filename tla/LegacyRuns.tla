---------------------------- MODULE LegacyRuns ----------------------------
(***************************************************************************)
(* The in-memory arena runs: scaffolds that run concurrently and call one  *)
(* shared provider, the spend tracker, the event queue each run shares     *)
(* among its subscribers, eviction, persistence and shutdown               *)
(* (core/run_engine, core/run_lifecycle, core/budget, core/provider,       *)
(* core/storage, api/runs, api/comparison, scaffolds).                     *)
(*                                                                         *)
(* asyncio is cooperative: an action is what a task does between two       *)
(* awaits that suspend. Putting to an unbounded queue never suspends, so   *)
(* an event, the result it reports and what follows are one step. Text is  *)
(* present or absent ("text", ""); phase, delta and case events are left   *)
(* out.                                                                    *)
(***************************************************************************)
EXTENDS Integers, Sequences, FiniteSets, SequencesExt

CONSTANTS
    Runs,           \* run identifiers, handed out once
    Keys,           \* idempotency keys
    Subscribers,    \* event streams
    Watched,        \* bound: the kinds of run whose streams are modelled
    CostOf,         \* scaffold -> what one of its calls costs
    RunLimit,       \* settings.max_cost_per_run_usd
    DailyLimit,     \* settings.daily_budget_usd
    MaxRetries,     \* settings.provider_max_retries
    MaxSubtasks,    \* bound: subtasks a decomposition may name
    Scores,         \* scores the evaluation may give
    Requests,       \* [kind, scaffolds, vendor, valid] a client may post
    NoRun

\* Costs and scores are in whole units; a valid request names known scaffolds.
ASSUME LegacyAssumption ==
    /\ CostOf \in [DOMAIN CostOf -> Nat] /\ IsFiniteSet(DOMAIN CostOf)
    /\ DOMAIN CostOf # {} /\ "none" \notin DOMAIN CostOf
    /\ RunLimit \in Nat \ {0} /\ Scores \subseteq Nat
    /\ \A req \in Requests : req.valid => req.scaffolds \in Seq(DOMAIN CostOf)

VARIABLES
    run,        \* run -> what _runs, _evicted_runs and its RunState hold
    task,       \* run -> the coroutines of _run_single_scaffold, in the order requested
    emitted,    \* run -> events put to its queue, in order
    taken,      \* run -> how many of them have been taken off it
    sub,        \* subscriber -> the run it follows and the events it got
    spend,      \* [daily, perRun] of the BudgetTracker
    usage,      \* run -> the provider's _last_usage
    stored,     \* run -> row of the runs table, or NoRun
    idem,       \* key -> [request, run] of the idempotency cache, or NoRun
    stopping    \* the lifespan's finally block has begun

legacyVars == <<run, task, emitted, taken, sub, spend, usage, stored, idem, stopping>>

Scaffolds == DOMAIN CostOf

Absent == [state |-> "absent", req |-> NoRun, cancelled |-> FALSE, expired |-> FALSE,
           results |-> <<>>]
IdleTask == [pc |-> "none", program |-> <<>>, phase |-> 1, retries |-> 0, output |-> "",
             tokens |-> 0, own |-> 0]
Returned == [IdleTask EXCEPT !.pc = "done"]

LegacyInit ==
    /\ run = [r \in Runs |-> Absent]
    /\ task = [r \in Runs |-> <<>>]
    /\ emitted = [r \in Runs |-> <<>>]
    /\ taken = [r \in Runs |-> 0]
    /\ sub = [u \in Subscribers |-> [run |-> NoRun, got |-> <<>>, open |-> FALSE]]
    /\ spend = [daily |-> 0, perRun |-> [r \in Runs |-> 0]]
    /\ usage = [r \in Runs |-> 0]
    /\ stored = [r \in Runs |-> NoRun]
    /\ idem = [k \in Keys |-> NoRun]
    /\ stopping = FALSE

-----------------------------------------------------------------------------
(* The calls a scaffold makes, in order. *)

Bare == {<<"stream">>}

PlanExecuteVerify == {<<"complete", "stream", "complete">>}

\* One repair at most, and only of a draft that does not parse or validate.
ToolErrorRecovery == {<<"stream">>, <<"stream", "stream">>}

MemoryCritique ==
    {<<"complete">> \o [i \in 1..n |-> "complete"] \o <<"stream", "complete", "stream">> :
        n \in 1..MaxSubtasks}

Programs(s) ==
    CASE s = "bare" -> Bare
      [] s = "plan_execute_verify" -> PlanExecuteVerify
      [] s = "tool_error_recovery" -> ToolErrorRecovery
      [] OTHER -> MemoryCritique

-----------------------------------------------------------------------------
(* The spend tracker and the provider. *)

\* Mutant: only the daily limit is checked.
WithinDailyLimit(r) == spend.daily < DailyLimit

\* A call is refused once the spend has reached a limit; its own cost is not
\* known before it has been made.
CallAllowed(r) == spend.perRun[r] < RunLimit /\ spend.daily < DailyLimit

NewRunAllowed == spend.daily < DailyLimit

RecordSpend(r, cost) ==
    spend' = [daily |-> spend.daily + cost, perRun |-> [spend.perRun EXCEPT ![r] = @ + cost]]

\* Midnight: the first tracker call of a new day clears both counters.
Rollover ==
    /\ spend.daily > 0
    /\ spend' = [daily |-> 0, perRun |-> [r \in Runs |-> 0]]
    /\ UNCHANGED <<run, task, emitted, taken, sub, usage, stored, idem, stopping>>

\* 429 and 5xx are retried up to the limit, unless text has been passed on.
MayRetry(t, status, yielded) ==
    status \in {"429", "5xx"} /\ t.retries < MaxRetries /\ ~yielded

-----------------------------------------------------------------------------
(* Events and results. *)

Event(type, s) == [type |-> type, scaffold |-> s]

Emit(r, events) == emitted' = [emitted EXCEPT ![r] = @ \o events]

\* Comparison cases run in a RunState of their own: their events go to a queue
\* nobody reads, and cancelling the comparison does not reach them.
IsComparison(r) == run[r].req.kind = "comparison"

Cancelled(r) == run[r].cancelled /\ ~IsComparison(r)

EmitScaffold(r, events) == IF IsComparison(r) THEN UNCHANGED emitted ELSE Emit(r, events)

\* One coroutine for each scaffold requested. A request may name one twice.
ScaffoldSeq(r) == run[r].req.scaffolds

CallCost(r, i) == CostOf[ScaffoldSeq(r)[i]]

SetTask(r, i, t) == task' = [task EXCEPT ![r][i] = t]

\* results[s] = ..., in a dict that keeps the place of a key assigned before. The
\* cases of a comparison have keys of their own.
WithResult(results, s, score) ==
    IF \E i \in DOMAIN results : results[i].scaffold = s
    THEN [i \in DOMAIN results |->
            IF results[i].scaffold = s THEN [scaffold |-> s, score |-> score] ELSE results[i]]
    ELSE Append(results, [scaffold |-> s, score |-> score])

AddResult(r, i, score) ==
    run' = [run EXCEPT ![r].results =
                IF IsComparison(r) THEN Append(@, [scaffold |-> ScaffoldSeq(r)[i], score |-> score])
                ELSE WithResult(@, ScaffoldSeq(r)[i], score)]

Failure == -1     \* results[s] = {"error": ...}

\* Strictly the best score, the first of equals in the order they finished.
Winner(results) ==
    LET scored == {i \in DOMAIN results : results[i].score # Failure}
        best   == {i \in scored : \A j \in scored :
                        /\ results[j].score <= results[i].score
                        /\ j < i => results[j].score < results[i].score}
    IN  IF scored = {} THEN "none" ELSE results[CHOOSE i \in best : TRUE].scaffold

\* run_complete is emitted, the run is done and its spend forgotten; a failure
\* to persist is swallowed.
FinalizeRun(r, results, events, status) ==
    /\ Emit(r, events \o <<Event("run_complete", Winner(results))>>)
    /\ run' = [run EXCEPT ![r].state = "done", ![r].results = results]
    /\ spend' = [spend EXCEPT !.perRun[r] = 0]
    /\ \E row \in {stored[r], [status |-> status, winner |-> Winner(results), results |-> results]} :
            stored' = [stored EXCEPT ![r] = row]

-----------------------------------------------------------------------------
(* One scaffold: _run_single_scaffold and the scaffold generators. *)

Live(r) == run[r].state = "running"

StartScaffold(r, i) ==
    /\ task[r][i].pc = "ready" /\ Live(r)
    /\ \E p \in Programs(ScaffoldSeq(r)[i]) : SetTask(r, i, [task[r][i] EXCEPT !.pc = "gap", !.program = p])
    /\ EmitScaffold(r, <<Event("scaffold_started", ScaffoldSeq(r)[i])>>)
    /\ UNCHANGED <<run, taken, sub, spend, usage, stored, idem, stopping>>

\* Any exception, a refused budget included: one event and one error result.
ScaffoldFailed(r, i) ==
    /\ SetTask(r, i, Returned)
    /\ EmitScaffold(r, <<Event("scaffold_failed", ScaffoldSeq(r)[i])>>)
    /\ AddResult(r, i, Failure)
    /\ UNCHANGED <<taken, sub, spend, usage, stored, idem, stopping>>

\* The generator has ended, or the engine left its loop because the run is
\* cancelled: the output is what final_output delivered, if it was reached.
ScaffoldCompleted(r, i, output) ==
    /\ SetTask(r, i, [task[r][i] EXCEPT !.pc = "evaluate", !.output = output])
    /\ EmitScaffold(r, <<Event("scaffold_completed", ScaffoldSeq(r)[i])>>)
    /\ UNCHANGED <<run, taken, sub, spend, usage, stored, idem, stopping>>

BeginCall(r, i) ==
    /\ task[r][i].pc \in {"gap", "retry"} /\ Live(r)
    /\ task[r][i].phase <= Len(task[r][i].program)
    /\ task[r][i].pc = "gap" => ~Cancelled(r)
    /\ IF CallAllowed(r)
       THEN /\ SetTask(r, i, [task[r][i] EXCEPT !.pc = "call"])
            /\ UNCHANGED <<run, emitted, taken, sub, spend, usage, stored, idem, stopping>>
       ELSE ScaffoldFailed(r, i)

\* complete(): the usage comes back with the text. The OpenAI client also
\* leaves it in _last_usage.
CompleteCall(r, i) ==
    LET t == task[r][i] IN
    /\ t.pc = "call" /\ Live(r)
    /\ t.program[t.phase] = "complete"
    /\ RecordSpend(r, CallCost(r, i))
    /\ usage' = IF run[r].req.vendor = "openai" THEN [usage EXCEPT ![r] = CallCost(r, i)] ELSE usage
    /\ SetTask(r, i, [t EXCEPT !.pc = "gap", !.phase = @ + 1, !.retries = 0,
                               !.tokens = @ + CallCost(r, i), !.own = @ + CallCost(r, i)])
    /\ UNCHANGED <<run, emitted, taken, sub, stored, idem, stopping>>

\* The OpenAI stream stores its usage after the connection is closed: the
\* scaffold reads get_last_usage() before any other task runs.
OpenAIStream(r, i) ==
    LET t == task[r][i] IN
    /\ t.pc = "call" /\ Live(r)
    /\ t.program[t.phase] = "stream" /\ run[r].req.vendor = "openai" /\ ~Cancelled(r)
    /\ RecordSpend(r, CallCost(r, i))
    /\ usage' = [usage EXCEPT ![r] = CallCost(r, i)]
    /\ SetTask(r, i, [t EXCEPT !.pc = "gap", !.phase = @ + 1, !.retries = 0,
                               !.tokens = @ + usage'[r], !.own = @ + CallCost(r, i)])
    /\ UNCHANGED <<run, emitted, taken, sub, stored, idem, stopping>>

\* The Anthropic stream stores it before it closes the connection, and closing
\* suspends.
AnthropicStream(r, i) ==
    LET t == task[r][i] IN
    /\ t.pc = "call" /\ Live(r)
    /\ t.program[t.phase] = "stream" /\ run[r].req.vendor = "anthropic" /\ ~Cancelled(r)
    /\ RecordSpend(r, CallCost(r, i))
    /\ usage' = [usage EXCEPT ![r] = CallCost(r, i)]
    /\ SetTask(r, i, [t EXCEPT !.pc = "closing", !.own = @ + CallCost(r, i)])
    /\ UNCHANGED <<run, emitted, taken, sub, stored, idem, stopping>>

ReadLastUsage(r, i) ==
    LET t == task[r][i] IN
    /\ t.pc = "closing" /\ Live(r)
    /\ SetTask(r, i, [t EXCEPT !.pc = "gap", !.phase = @ + 1, !.retries = 0,
                               !.tokens = IF Cancelled(r) THEN @ ELSE @ + usage[r]])
    /\ UNCHANGED <<run, emitted, taken, sub, spend, usage, stored, idem, stopping>>

\* The engine breaks at the next delta of a cancelled run: the stream is
\* closed and nothing is recorded.
CutStream(r, i) ==
    LET t == task[r][i] IN
    /\ t.pc = "call" /\ Live(r)
    /\ t.program[t.phase] = "stream" /\ Cancelled(r)
    /\ ScaffoldCompleted(r, i, "")

CallFails(r, i) ==
    LET t == task[r][i] IN
    /\ t.pc = "call" /\ Live(r)
    /\ \E status \in {"401", "429", "other"}, yielded \in BOOLEAN :
        /\ yielded => t.program[t.phase] = "stream"
        /\ IF MayRetry(t, status, yielded)
           THEN /\ SetTask(r, i, [t EXCEPT !.pc = "retry", !.retries = @ + 1])
                /\ UNCHANGED <<run, emitted, taken, sub, spend, usage, stored, idem, stopping>>
           ELSE ScaffoldFailed(r, i)

\* wait_for cancels the scaffold wherever it is waiting.
ScaffoldTimeout(r, i) ==
    /\ task[r][i].pc \in {"call", "retry", "closing"} /\ Live(r)
    /\ ScaffoldFailed(r, i)

ScaffoldEnds(r, i) ==
    LET t == task[r][i] IN
    /\ t.pc = "gap" /\ Live(r)
    /\ \/ Cancelled(r) /\ ScaffoldCompleted(r, i, "")
       \/ t.phase > Len(t.program) /\ ~Cancelled(r) /\ ScaffoldCompleted(r, i, "text")

\* The optional judge is one more call.
BeginJudge(r, i) ==
    /\ task[r][i].pc = "evaluate" /\ Live(r)
    /\ CallAllowed(r)
    /\ SetTask(r, i, [task[r][i] EXCEPT !.pc = "judging"])
    /\ UNCHANGED <<run, emitted, taken, sub, spend, usage, stored, idem, stopping>>

\* Its absence, its failure or its refusal by the budget never fails the
\* evaluation.
EvaluateScaffold(r, i) ==
    /\ task[r][i].pc \in {"evaluate", "judging"} /\ Live(r)
    /\ \/ task[r][i].pc = "judging" /\ RecordSpend(r, CallCost(r, i))
       \/ UNCHANGED spend
    /\ SetTask(r, i, Returned)
    /\ EmitScaffold(r, <<Event("evaluation_completed", ScaffoldSeq(r)[i])>>)
    /\ \E score \in Scores : AddResult(r, i, score)
    /\ UNCHANGED <<taken, sub, usage, stored, idem, stopping>>

-----------------------------------------------------------------------------
(* One run: start_arena_run, start_patch_rerun and _start_comparison. *)

StartRun(r) ==
    /\ run[r].state = "created" /\ ~IsComparison(r)
    /\ Emit(r, <<Event("run_started", "none")>>)
    /\ run' = [run EXCEPT ![r].state = "running"]
    /\ task' = [task EXCEPT ![r] = [i \in DOMAIN ScaffoldSeq(r) |-> [IdleTask EXCEPT !.pc = "ready"]]]
    /\ UNCHANGED <<taken, sub, spend, usage, stored, idem, stopping>>

\* No provider: every scaffold fails and the run is finalized as failed.
StartRunWithoutProvider(r) ==
    /\ run[r].state = "created" /\ ~IsComparison(r)
    /\ LET named  == SetToSeq(ToSet(ScaffoldSeq(r)))
           errors == [i \in DOMAIN named |-> [scaffold |-> named[i], score |-> Failure]]
           failed == [i \in DOMAIN ScaffoldSeq(r) |-> Event("scaffold_failed", ScaffoldSeq(r)[i])]
       IN  FinalizeRun(r, errors, <<Event("run_started", "none")>> \o failed, "failed")
    /\ UNCHANGED <<task, taken, sub, usage, idem, stopping>>

\* Mutant: the run goes on when the first scaffold has returned.
AnyTaskDone(r) == \E i \in DOMAIN task[r] : task[r][i].pc = "done"

TasksDone(r) == \A i \in DOMAIN task[r] : task[r][i].pc = "done"

\* gather() returns when every scaffold has, whatever became of it.
FinishRun(r) ==
    /\ Live(r) /\ ~IsComparison(r) /\ TasksDone(r)
    /\ FinalizeRun(r, run[r].results, <<>>, "completed")
    /\ usage' = [usage EXCEPT ![r] = 0]
    /\ UNCHANGED <<task, taken, sub, idem, stopping>>

\* Cases run one after the other; a provider that cannot be made ends the
\* coroutine, and nothing marks the run done.
NextCase(r) ==
    /\ run[r].state \in {"created", "running"} /\ IsComparison(r)
    /\ \E i \in DOMAIN task[r] :
        /\ task[r][i].pc = "none"
        /\ \A j \in 1..(i - 1) : task[r][j].pc = "done"
        /\ Emit(r, IF i = 1 THEN <<Event("comparison_started", "none")>> ELSE <<>>)
        /\ \/ /\ SetTask(r, i, [IdleTask EXCEPT !.pc = "ready"])
              /\ run' = [run EXCEPT ![r].state = "running"]
           \/ /\ run' = [run EXCEPT ![r].state = "abandoned"]
              /\ UNCHANGED task
    /\ UNCHANGED <<taken, sub, spend, usage, stored, idem, stopping>>

\* A case without an evaluation counts as 0: it wins over later cases that
\* scored 0.
ComparisonWinner(results) ==
    Winner([i \in DOMAIN results |-> [results[i] EXCEPT !.score = IF @ = Failure THEN 0 ELSE @]])

\* comparison_complete, then the row, then done; the spend is not closed. A row
\* that cannot be written ends the coroutine as well.
FinishComparison(r) ==
    /\ Live(r) /\ IsComparison(r) /\ TasksDone(r)
    /\ Emit(r, <<Event("comparison_complete", ComparisonWinner(run[r].results))>>)
    /\ \/ /\ stored' = [stored EXCEPT ![r] = [status |-> "completed", results |-> run[r].results,
                                               winner |-> ComparisonWinner(run[r].results)]]
          /\ run' = [run EXCEPT ![r].state = "done"]
       \/ /\ run' = [run EXCEPT ![r].state = "abandoned"]
          /\ UNCHANGED stored
    /\ UNCHANGED <<task, taken, sub, spend, usage, idem, stopping>>

-----------------------------------------------------------------------------
(* The handlers. *)

\* Done runs whose time is up are evicted by the next create or lookup.
Evict(rs) == [r \in Runs |-> IF rs[r].state = "done" /\ rs[r].expired
                             THEN [Absent EXCEPT !.state = "evicted"] ELSE rs[r]]

RunExpires(r) ==
    /\ run[r].state = "done" /\ ~run[r].expired
    /\ run' = [run EXCEPT ![r].expired = TRUE]
    /\ UNCHANGED <<task, emitted, taken, sub, spend, usage, stored, idem, stopping>>

Accepted(req) == req.valid /\ NewRunAllowed

\* A key seen within the hour is answered from the cache, or refused with 409
\* when the payload differs: no run is created either way.
Cached(key) == idem[key] # NoRun

KeyExpires(key) ==
    /\ Cached(key)
    /\ idem' = [idem EXCEPT ![key] = NoRun]
    /\ UNCHANGED <<run, task, emitted, taken, sub, spend, usage, stored, stopping>>

\* Lookup, creation and the cache entry happen without a suspension.
CreateRun(req) ==
    /\ ~stopping /\ Accepted(req)
    /\ \E r \in Runs, key \in Keys \union {NoRun} :
        /\ run[r].state = "absent"
        /\ key # NoRun => (req.kind = "arena" /\ ~Cached(key))
        /\ run' = [Evict(run) EXCEPT ![r] = [Absent EXCEPT !.state = "created", !.req = req]]
        /\ task' = [task EXCEPT ![r] = [i \in DOMAIN req.scaffolds |-> IdleTask]]
        /\ idem' = IF key = NoRun THEN idem ELSE [idem EXCEPT ![key] = [req |-> req, run |-> r]]
    /\ UNCHANGED <<emitted, taken, sub, spend, usage, stored, stopping>>

Cancel(r) ==
    /\ ~stopping
    /\ run' = [Evict(run) EXCEPT ![r].cancelled = Evict(run)[r].state \notin {"absent", "evicted"}]
    /\ run' # run
    /\ UNCHANGED <<task, emitted, taken, sub, spend, usage, stored, idem, stopping>>

Subscribe(u, r) ==
    /\ ~stopping /\ sub[u].run = NoRun
    /\ run' = Evict(run)
    /\ run'[r].state \notin {"absent", "evicted"} /\ run[r].req.kind \in Watched
    /\ sub' = [sub EXCEPT ![u] = [run |-> r, got |-> <<>>, open |-> TRUE]]
    /\ UNCHANGED <<task, emitted, taken, spend, usage, stored, idem, stopping>>

\* Subscribers of one run take events off the same queue; each goes to one.
TakeEvent(u) ==
    /\ sub[u].open
    /\ LET r == sub[u].run
           n == taken[r] + 1
       IN  /\ n <= Len(emitted[r])
           /\ taken' = [taken EXCEPT ![r] = n]
           /\ sub' = [sub EXCEPT ![u].got = Append(@, n),
                        ![u].open = emitted[r][n].type \notin {"run_complete", "comparison_complete"}]
    /\ UNCHANGED <<run, task, emitted, spend, usage, stored, idem, stopping>>

\* get_run_details: the live run, else the row, else 404. A comparison has its
\* results only once it is done.
Details(r) ==
    IF run[r].state \notin {"absent", "evicted"}
    THEN [status |-> IF run[r].state = "done" THEN "completed" ELSE "running",
          results |-> IF IsComparison(r) /\ run[r].state # "done" THEN <<>> ELSE run[r].results]
    ELSE IF stored[r] # NoRun THEN [status |-> stored[r].status, results |-> stored[r].results]
    ELSE [status |-> "not_found", results |-> <<>>]

\* build_run_diagnostics and build_stored_run_diagnostics.
DiagnosedStatus(r) ==
    IF run[r].state \in {"absent", "evicted"} THEN Details(r).status
    ELSE IF run[r].state # "done" THEN "running"
    ELSE IF \E i \in DOMAIN run[r].results : run[r].results[i].score = Failure THEN "failed"
    ELSE "completed"

\* Shutdown cancels what is running and waits ten seconds; tasks go on.
Shutdown ==
    /\ ~stopping
    /\ stopping' = TRUE
    /\ run' = [r \in Runs |-> [run[r] EXCEPT !.cancelled =
                    @ \/ run[r].state \in {"created", "running", "abandoned"}]]
    /\ UNCHANGED <<task, emitted, taken, sub, spend, usage, stored, idem>>

-----------------------------------------------------------------------------
ScaffoldStep(r, i) ==
    \/ StartScaffold(r, i) \/ BeginCall(r, i) \/ CompleteCall(r, i)
    \/ OpenAIStream(r, i) \/ AnthropicStream(r, i) \/ ReadLastUsage(r, i)
    \/ CutStream(r, i) \/ CallFails(r, i) \/ ScaffoldTimeout(r, i)
    \/ ScaffoldEnds(r, i) \/ BeginJudge(r, i) \/ EvaluateScaffold(r, i)

RunStep(r) ==
    \/ StartRun(r) \/ StartRunWithoutProvider(r) \/ FinishRun(r)
    \/ NextCase(r) \/ FinishComparison(r)

LegacyNext ==
    \/ \E r \in Runs : RunStep(r) \/ RunExpires(r) \/ Cancel(r)
    \/ \E r \in Runs : \E i \in DOMAIN task[r] : ScaffoldStep(r, i)
    \/ \E req \in Requests : CreateRun(req)
    \/ \E key \in Keys : KeyExpires(key)
    \/ \E u \in Subscribers : TakeEvent(u) \/ (\E r \in Runs : Subscribe(u, r))
    \/ Rollover \/ Shutdown

LegacySpec == LegacyInit /\ [][LegacyNext]_legacyVars

-----------------------------------------------------------------------------
Terminal == {"run_complete", "comparison_complete"}

\* The last thing the events say of a scaffold is that it failed.
ShownFailed(r, s) ==
    \E i \in DOMAIN emitted[r] :
        /\ emitted[r][i] = Event("scaffold_failed", s)
        /\ \A j \in i + 1 .. Len(emitted[r]) : emitted[r][j] # Event("evaluation_completed", s)

\* A run that says it is complete is: run_complete (core/run_engine 66) is the
\* last event of its queue, every requested scaffold has exactly one result, a
\* scaffold that failed is never the winner of an arena run, whose diagnosis is
\* "failed" exactly when some scaffold was last shown to fail, and the row, when
\* it could be written, tells the same story as the event.
CompleteIsTruthful ==
    \A r \in Runs : \A i \in DOMAIN emitted[r] :
        emitted[r][i].type \in Terminal =>
            /\ i = Len(emitted[r])
            /\ run[r].state = "done" =>
                 /\ ToSet(ScaffoldSeq(r)) = {x.scaffold : x \in ToSet(run[r].results)}
                 /\ IF IsComparison(r) THEN Len(run[r].results) = Len(ScaffoldSeq(r))
                    ELSE /\ \A j, k \in DOMAIN run[r].results :
                              run[r].results[j].scaffold = run[r].results[k].scaffold => j = k
                         /\ \A x \in ToSet(run[r].results) :
                              x.scaffold = emitted[r][i].scaffold => x.score # Failure
                         /\ DiagnosedStatus(r) = "failed" <=> \E s \in Scaffolds : ShownFailed(r, s)
                 /\ stored[r] # NoRun => Details(r).results = stored[r].results
            /\ stored[r] # NoRun => stored[r].winner = emitted[r][i].scaffold

CallCeiling == Max({CostOf[s] : s \in Scaffolds})

\* Checking and spending are apart, so coroutines that call at the same time
\* pass the same check (core/budget 61 and 80): a run may overshoot its limit
\* by one call of each of them, and by no more.
OvershootIsBounded ==
    \A r \in Runs : spend.perRun[r] < RunLimit + CallCeiling * Len(task[r])
=============================================================================
