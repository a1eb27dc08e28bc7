----------------------------- MODULE Adapters -----------------------------
(***************************************************************************)
(* The installed harness adapters (adapters_v1): what each admits, sends,  *)
(* accepts as an answer and keeps, over the life of one attempt that the   *)
(* worker prepares, executes, streams, cancels and cleans up, and may      *)
(* prepare again under a later lease in the same process.                  *)
(*                                                                         *)
(* The worker executes a preparation once and awaits that task before it   *)
(* cleans up, so no execution is in flight across a cleanup. An action is  *)
(* what the adapter does between two awaits. Payloads are reduced to what  *)
(* the checks tell apart.                                                  *)
(***************************************************************************)
EXTENDS Integers, Sequences, FiniteSets, SequencesExt

CONSTANTS
    Kinds,          \* adapters exercised
    Offers,         \* [harness, input] pairs the worker may bring to prepare
    Replies,        \* answers of a provider
    RuntimeIds,     \* identities a local runtime may present; "frozen" is the study's
    MaxPrepares,    \* bound on preparations of the attempt
    NoAnswer

VARIABLES
    kind,       \* the adapter installed for the attempt
    runtime,    \* identity the local runtime presents now
    row,        \* the adapter's dictionaries, at the attempt's key
    exec,       \* the execute coroutine
    shown,      \* the events a finished stream has yielded, or NoAnswer
    prepares    \* preparations so far

adapterVars == <<kind, runtime, row, exec, shown, prepares>>

\* Adapters that compare the runtime's identity before and after.
Identified == {"ollama", "lm_studio", "handoff"}
\* Adapters whose cleanup forgets the attempt.
Forgetful == Identified \union {"http"}
\* Adapters that keep no result of their own.
Stateless == {"fixture", "recorded", "external"}

EmptyRow == [held |-> FALSE, generation |-> 0, input |-> NoAnswer, before |-> NoAnswer,
             trace |-> <<>>, ready |-> FALSE, cancelled |-> FALSE, cleaned |-> FALSE,
             result |-> NoAnswer, artifacts |-> {}]

\* The results an adapter may keep.
Outcomes == {"completed", "incomplete", "failed", "timed_out", "cancelled"}
FailureClasses == {"none", "transient_provider", "permanent_provider", "permanent_protocol", "permanent_adapter"}
KeptResults == [answer : [outcome : Outcomes, class : FailureClasses, output : BOOLEAN], generation : Nat,
                before : RuntimeIds \union {"unread", NoAnswer}, after : RuntimeIds \union {"unread", NoAnswer}]

ASSUME AdapterAssumption ==
    /\ NoAnswer \notin KeptResults
    /\ \A reply \in Replies : reply.large \in BOOLEAN

Idle(g) == [pc |-> "idle", generation |-> g, before |-> NoAnswer, reply |-> NoAnswer]

AdaptersInit ==
    /\ kind \in Kinds
    /\ runtime \in RuntimeIds
    /\ row = EmptyRow
    /\ exec = Idle(0)
    /\ shown = NoAnswer
    /\ prepares = 0

-----------------------------------------------------------------------------
(* Admission. *)

ClaimRank(c) == CASE c = "fixture_only" -> 0 [] c = "protocol_only" -> 1
                  [] c = "live_provider" -> 2 [] OTHER -> 3

Offer(adapter, isolation, claim) == [adapter |-> adapter, isolation |-> isolation, claim |-> claim]

LMStudioCapabilities == Offer("http", {"none"}, "live_provider")
OllamaCapabilities == Offer("http", {"none"}, "live_provider")
OpenAICapabilities == Offer("http", {"none"}, "live_provider")
HttpCapabilities == Offer("http", {"remote_sandbox"}, "protocol_only")
NativeCapabilities == Offer("in_process", {"none", "process"}, "protocol_only")
FixtureCapabilities == Offer("recorded", {"none"}, "fixture_only")
RecordedCapabilities == Offer("recorded", {"none"}, "fixture_only")
\* Without verified OCI evidence an external harness is protocol-only.
ExternalCapabilities == Offer("cli", {"none", "process"}, "protocol_only")

Capabilities(k) ==
    CASE k = "lm_studio" -> LMStudioCapabilities
      [] k \in {"ollama", "handoff"} -> OllamaCapabilities
      [] k = "openai" -> OpenAICapabilities
      [] k = "http" -> HttpCapabilities
      [] k = "native" -> NativeCapabilities
      [] k = "fixture" -> FixtureCapabilities
      [] k = "recorded" -> RecordedCapabilities
      [] OTHER -> ExternalCapabilities

Preflight(k, harness) ==
    /\ harness.adapter = Capabilities(k).adapter
    /\ harness.digest = k
    /\ harness.isolation \in Capabilities(k).isolation
    /\ ClaimRank(harness.claim) <= ClaimRank(Capabilities(k).claim)
    /\ harness.timeout <= harness.latency

\* Controls: compatibility defaults or the frozen declaration, never above the
\* immutable budget of the attempt.
ExecutionControls(input) ==
    IF input.overlay = NoAnswer
    THEN [tools |-> input.budget.tools, context |-> input.budget.context]
    ELSE input.overlay

ControlsWithinBudget(input) ==
    /\ ExecutionControls(input).tools <= input.budget.tools
    /\ ExecutionControls(input).context <= input.budget.context

\* A live endpoint is pinned by digest and takes no harness configuration.
EndpointPinned(harness, input) == input.pinned /\ ~harness.configured

\* The closed study: frozen model, one of three policies, a closed packet.
HandoffAdmits(input) == input.policy \in {"isolated", "full_inherited", "curated"}

\* The exact bundled harness, scenario, endpoint, budget and assignment.
FixtureAdmits(harness, input) == harness.bundled /\ input.bundled

Admits(k, harness, input) ==
    /\ Preflight(k, harness) /\ ControlsWithinBudget(input)
    /\ k \in Identified \union {"openai"} => EndpointPinned(harness, input)
    /\ k \in {"http"} => ~harness.configured
    /\ k = "handoff" => HandoffAdmits(input)
    /\ k = "fixture" => FixtureAdmits(harness, input)

\* _runtime_identity: the bound model is present once, its context window is
\* wide enough, and the study's own adapter insists on the frozen one.
LMStudioIdentity == IF runtime = "absent" THEN NoAnswer ELSE runtime
OllamaIdentity == IF runtime = "absent" THEN NoAnswer ELSE runtime
HandoffIdentity == IF runtime = "frozen" THEN runtime ELSE NoAnswer

Identity(k) ==
    CASE k = "lm_studio" -> LMStudioIdentity
      [] k = "ollama" -> OllamaIdentity
      [] k = "handoff" -> HandoffIdentity
      [] OTHER -> "unread"

\* The worker cleans up before it prepares again. A second preparation starts a
\* new trace; only the HTTP adapter also resets the result and the
\* cancellation, elsewhere they are what cleanup left.
Prepare(offer) ==
    /\ exec.pc = "idle" /\ prepares < MaxPrepares
    /\ Admits(kind, offer.harness, offer.input)
    /\ Identity(kind) # NoAnswer
    /\ ~row.held \/ row.cleaned
    /\ row' = [row EXCEPT !.held = TRUE, !.generation = prepares + 1, !.input = offer.input,
                          !.before = Identity(kind), !.trace = <<>>, !.ready = FALSE,
                          !.cleaned = FALSE,
                          !.result = IF kind = "http" THEN NoAnswer ELSE @,
                          !.cancelled = IF kind = "http" THEN FALSE ELSE @]
    /\ prepares' = prepares + 1
    /\ shown' = NoAnswer
    /\ UNCHANGED <<kind, runtime, exec>>

-----------------------------------------------------------------------------
(* Answers. *)

Answer(outcome, class, output) == [outcome |-> outcome, class |-> class, output |-> output]

\* A typed hold is incomplete evidence and is never retried.
Hold == Answer("incomplete", "permanent_protocol", FALSE)

\* ResultBundle.bind_response_artifact: a completed result has an output and no
\* failure class; every other one but a cancelled one has a class.
BoundResult(a) ==
    /\ a.outcome = "completed" => a.output /\ a.class = "none"
    /\ a.outcome = "cancelled" => a.class = "none"
    /\ a.outcome \notin {"completed", "cancelled"} => a.class # "none"

StatusAnswer(fault) ==
    Answer("failed", IF fault = "5xx" THEN "transient_provider" ELSE "permanent_provider", FALSE)

\* LM Studio and Ollama: redirects, sizes and shapes are holds; an unreachable
\* runtime is a permanent failure.
LocalRuntimeFault(fault) ==
    CASE fault \in {"redirect", "oversize", "shape", "tools"} -> Hold
      [] fault = "timeout" -> Answer("timed_out", "transient_provider", FALSE)
      [] fault \in {"4xx", "5xx"} -> StatusAnswer(fault)
      [] OTHER -> Answer("failed", "permanent_provider", FALSE)

\* An unreachable endpoint may be tried again; what it says wrongly may not.
OpenAIFault(fault) ==
    CASE fault = "timeout" -> Answer("timed_out", "transient_provider", FALSE)
      [] fault \in {"4xx", "5xx"} -> StatusAnswer(fault)
      [] fault = "request" -> Answer("failed", "transient_provider", FALSE)
      [] OTHER -> Answer("failed", "permanent_provider", FALSE)

\* Contract violations are not answers: they leave execute_attempt.
HttpFault(fault) ==
    CASE fault = "timeout" -> Answer("timed_out", "transient_provider", FALSE)
      [] fault \in {"4xx", "5xx"} -> StatusAnswer(fault)
      [] fault = "request" -> Answer("failed", "transient_provider", FALSE)
      [] OTHER -> NoAnswer

FaultAnswer(k, fault) ==
    CASE k \in Identified -> LocalRuntimeFault(fault)
      [] k = "openai" -> OpenAIFault(fault)
      [] k = "http" -> HttpFault(fault)
      [] k = "native" -> Answer("failed", "permanent_adapter", FALSE)
      [] OTHER -> NoAnswer

\* Only text is read from an OpenAI-compatible answer: tool calls beside it and
\* its size are not looked at.
Faulty(k, reply) ==
    /\ reply.fault # "none"
    /\ k = "openai" => reply.fault \notin {"oversize", "tools"}

\* An answer that passed every check, while nobody has cancelled.
LMStudioAnswer == Answer("incomplete", "permanent_protocol", TRUE)

OllamaAnswer == Answer("completed", "none", TRUE)

EvidenceAnswer(reply) ==
    IF reply.usage = "complete" THEN Answer("completed", "none", TRUE)
    ELSE Answer("incomplete", "permanent_protocol", TRUE)

\* The study's token ceilings hold even a cancelled answer.
HandoffAnswer(reply, cancelled) ==
    CASE reply.large -> Hold
      [] ~reply.large /\ cancelled -> Answer("cancelled", "none", FALSE)
      [] OTHER -> OllamaAnswer

NativeAnswer(reply) == EvidenceAnswer(reply)

SoundAnswer(k, reply, cancelled) ==
    CASE k = "handoff" -> HandoffAnswer(reply, cancelled)
      [] k # "handoff" /\ cancelled -> Answer("cancelled", "none", FALSE)
      [] k = "lm_studio" /\ ~cancelled -> LMStudioAnswer
      [] k = "ollama" /\ ~cancelled -> OllamaAnswer
      [] k = "openai" /\ ~cancelled -> EvidenceAnswer(reply)
      [] k = "native" /\ ~cancelled -> NativeAnswer(reply)
      [] OTHER -> OllamaAnswer

ResponseArtifacts(k) ==
    {"output"} \union (CASE k \in Identified -> {"summary", "identity", "usage", "controls"}
                         [] k = "openai" -> {"provider-response"}
                         [] OTHER -> {})
               \union (IF k = "handoff" THEN {"renderer-receipt", "prompt", "terminal-receipt"} ELSE {})

-----------------------------------------------------------------------------
(* Execution. *)

\* Ends the coroutine with an answer: the stream is released and the result
\* kept, unless the attempt binds another response hash (replays): then
\* validate_result_for_attempt raises after the stream was released.
Finish(events, answer, artifacts) ==
    /\ BoundResult(answer)
    /\ row' = [row EXCEPT !.trace = @ \o events, !.ready = TRUE,
                          !.artifacts = artifacts,
                          !.result = IF row.input.replay /\ answer.output THEN @
                                     ELSE [answer |-> answer, generation |-> row.generation,
                                           before |-> exec.before, after |-> Identity(kind)]]
    /\ exec' = Idle(row.generation)
    /\ UNCHANGED <<kind, runtime, shown, prepares>>

\* A kept result is returned as it is, whatever has been prepared since.
Executable ==
    /\ exec.pc = "idle" /\ exec.generation < row.generation
    /\ row.held /\ row.result = NoAnswer /\ kind \notin Stateless

ExecuteCancelled ==
    /\ Executable /\ row.cancelled
    /\ Finish(IF kind = "http" THEN <<>> ELSE <<"cancelled_before_request">>,
              Answer("cancelled", "none", FALSE), row.artifacts)

\* _request: the native local protocols admit no tool calls and LM Studio no
\* prompt longer than its context allows.
Requestable(k, input) ==
    /\ k \in Identified => ExecutionControls(input).tools = 0
    /\ k = "lm_studio" => ~input.long

ExecuteUnrequestable ==
    /\ Executable /\ ~row.cancelled /\ ~Requestable(kind, row.input)
    /\ Finish(<<"error">>, Hold, row.artifacts)

ExecuteRequest ==
    /\ Executable /\ ~row.cancelled /\ Requestable(kind, row.input)
    /\ row' = [row EXCEPT !.trace = IF kind = "http" THEN @ ELSE Append(@, "request")]
    /\ exec' = [exec EXCEPT !.pc = "sent", !.before = row.before]
    /\ UNCHANGED <<kind, runtime, shown, prepares>>

\* A faulty answer. The HTTP adapter lets contract violations out: its channel
\* is closed and no result is kept.
ReplyFault(reply) ==
    /\ exec.pc = "sent" /\ Faulty(kind, reply)
    /\ \/ /\ FaultAnswer(kind, reply.fault) # NoAnswer
          /\ Finish(IF kind = "http" THEN <<>> ELSE <<"error">>,
                    FaultAnswer(kind, reply.fault), row.artifacts)
       \/ /\ FaultAnswer(kind, reply.fault) = NoAnswer
          /\ row' = [row EXCEPT !.ready = TRUE]
          /\ exec' = Idle(row.generation)
          /\ UNCHANGED <<kind, runtime, shown, prepares>>

\* An answer in order. The local runtimes are asked who they are once more.
ReplySound(reply) ==
    /\ exec.pc = "sent" /\ ~Faulty(kind, reply)
    /\ IF kind \in Identified
       THEN /\ exec' = [exec EXCEPT !.pc = "identity", !.reply = reply]
            /\ UNCHANGED <<kind, runtime, row, shown, prepares>>
       ELSE Finish(<<"response">>, SoundAnswer(kind, reply, row.cancelled), ResponseArtifacts(kind))

\* Mutant: the identity after the call is not compared.
AnyIdentity(before, after) == TRUE

\* A runtime that cannot be identified, or is not the one it was, is a hold.
SameIdentity(before, after) == before = after

ReadIdentity ==
    /\ exec.pc = "identity"
    /\ IF Identity(kind) # NoAnswer /\ SameIdentity(exec.before, Identity(kind))
       THEN Finish(IF kind = "handoff" THEN <<"response", "fidelity">> ELSE <<"response">>,
                   SoundAnswer(kind, exec.reply, row.cancelled), ResponseArtifacts(kind))
       ELSE Finish(<<"error">>, Hold, row.artifacts)

ReadIdentityFault(fault) ==
    /\ exec.pc = "identity" /\ fault \in {"timeout", "5xx", "request"}
    /\ Finish(<<"error">>, LocalRuntimeFault(fault), row.artifacts)

\* The worker cancels its task: the stream is released and nothing is kept,
\* but the HTTP adapter swallows the cancellation and answers "cancelled".
ExecuteAborted ==
    /\ exec.pc \in {"sent", "identity"}
    /\ IF kind = "http"
       THEN Finish(<<>>, Answer("cancelled", "none", FALSE), row.artifacts)
       ELSE /\ row' = [row EXCEPT !.ready = TRUE]
            /\ exec' = Idle(row.generation)
            /\ UNCHANGED <<kind, runtime, shown, prepares>>

\* Fixtures answer at once and bridged harnesses pass the bridge's answer on.
\* A cancelled external attempt is refused.
StatelessExecute(outcome) ==
    /\ exec.pc = "idle" /\ row.held /\ kind \in Stateless
    /\ row.cancelled => (kind # "external" /\ outcome = "cancelled")
    /\ ~row.cancelled => outcome = "completed" \/ (kind = "external" /\ outcome = "failed")
    /\ row' = [row EXCEPT !.trace = <<"request", "response">>, !.ready = TRUE,
                          !.artifacts = {"output"},
                          !.result = [answer |-> Answer(outcome, IF outcome = "failed"
                                                        THEN "permanent_adapter" ELSE "none",
                                                        outcome = "completed"),
                                      generation |-> row.generation,
                                      before |-> row.before, after |-> row.before]]
    /\ UNCHANGED <<kind, runtime, exec, shown, prepares>>

-----------------------------------------------------------------------------
(* Streaming, cancellation, cleanup. *)

StreamEvents ==
    /\ row.held /\ row.ready /\ shown = NoAnswer
    /\ shown' = row.trace
    /\ UNCHANGED <<kind, runtime, row, exec, prepares>>

Cancelling(r) ==
    [r EXCEPT !.cancelled = TRUE,
              !.trace = IF r.result = NoAnswer /\ kind \notin Stateless \union {"http"}
                        THEN Append(@, "cancellation_requested") ELSE @]

CancelAttempt ==
    /\ row.held /\ ~row.cancelled
    /\ row' = Cancelling(row)
    /\ UNCHANGED <<kind, runtime, exec, shown, prepares>>

\* What cleanup leaves of the attempt.
Forgotten(r) == [EmptyRow EXCEPT !.cleaned = TRUE]

CleanupAttempt ==
    /\ exec.pc = "idle" /\ row.held /\ ~row.cleaned
    /\ row' = CASE kind \in Forgetful -> Forgotten(row)
                [] kind \in {"fixture", "recorded"} -> [row EXCEPT !.cleaned = TRUE]
                [] OTHER -> [Cancelling(row) EXCEPT !.cleaned = TRUE]
    /\ shown' = NoAnswer
    /\ UNCHANGED <<kind, runtime, exec, prepares>>

\* The runtime is restarted, or serves another model.
RuntimeChanges(id) ==
    /\ runtime # id /\ kind \in Identified
    /\ runtime' = id
    /\ UNCHANGED <<kind, row, exec, shown, prepares>>

AdaptersNext ==
    \/ \E o \in Offers : Prepare(o)
    \/ ExecuteCancelled \/ ExecuteUnrequestable \/ ExecuteRequest
    \/ \E r \in Replies : ReplyFault(r) \/ ReplySound(r)
    \/ ReadIdentity \/ (\E f \in {"timeout", "5xx", "request"} : ReadIdentityFault(f))
    \/ ExecuteAborted
    \/ \E o \in {"completed", "failed", "cancelled"} : StatelessExecute(o)
    \/ StreamEvents \/ CancelAttempt \/ CleanupAttempt
    \/ \E id \in RuntimeIds : RuntimeChanges(id)

AdaptersSpec == AdaptersInit /\ [][AdaptersNext]_adapterVars

-----------------------------------------------------------------------------
Positions(e) == {i \in DOMAIN row.trace : row.trace[i] = e}

\* A completed result stands on its own trace: the request came before the
\* response, no cancellation was recorded, the runtime that answered is the one
\* that was prepared (adapters_v1/ollama/adapter 344), the output is among the
\* artifacts, and what a finished stream showed is all of it, for a
\* cancellation that comes later adds nothing (ollama/adapter 286). An adapter
\* that forgets an attempt at cleanup keeps no result of an earlier
\* preparation.
ResultMatchesTrace ==
    row.result # NoAnswer =>
        /\ kind \in Forgetful => row.result.generation = row.generation
        /\ row.result.generation = row.generation =>
            /\ kind \notin Stateless /\ shown # NoAnswer => shown = row.trace
            /\ row.result.answer.outcome = "completed" =>
                /\ row.result.before = row.result.after
                /\ "output" \in row.artifacts
                /\ kind \notin {"http", "fixture", "recorded"} =>
                    /\ Positions("cancellation_requested") = {}
                    /\ \E i \in Positions("request"), j \in Positions("response") : i < j
=============================================================================
