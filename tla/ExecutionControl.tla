-------------------------- MODULE ExecutionControl --------------------------
(***************************************************************************)
(* The Run Cockpit: the browser hook useExecutionControl, the SSE client   *)
(* that follows one execution (api/v1/client), and the API that answers    *)
(* them (api/v1/execution, services_v1/execution).                         *)
(*                                                                         *)
(* The hook runs any number of asynchronous requests at once. A request is *)
(* sent, served and delivered in three steps, so an answer may be stale    *)
(* when it arrives; the hook's defence is a generation number. Setting     *)
(* state, rendering and running the effects it triggers are one step. An   *)
(* event is its execution_sequence; the page keeps the visible ones, which *)
(* the surface shows once each.                                            *)
(***************************************************************************)
EXTENDS Integers, Sequences, FiniteSets

CONSTANTS
    Executions,           \* execution identifiers
    OwnRuns,        \* those of the frozen experiment on the page
    FirstRuns,      \* those that exist when the page is opened
    NoExecution,
    MaxEvents,      \* bound: execution -> events recorded
    MaxRequests,    \* bound: requests under way when the user sends another
    MaxReconnects   \* reconnectAttempts of the event stream

\* The experiment's executions, and those a route may name, are executions.
ASSUME ControlAssumption ==
    OwnRuns \subseteq Executions /\ FirstRuns \subseteq Executions /\ NoExecution \notin Executions

VARIABLES
    server,     \* execution -> [born, log, over, ends]
    page,       \* state and refs of the hook
    requests,   \* requests under way
    feed        \* the event stream of the selected execution, or NoFeed

controlVars == <<server, page, requests, feed>>

NoFeed == [run |-> NoExecution, cursor |-> 0, sent |-> 0, open |-> FALSE, frames |-> <<>>,
           reconnects |-> 0, refreshing |-> FALSE]
NoDetail == [run |-> NoExecution, over |-> FALSE]

\* A request: what was asked, whether loadGeneration has moved on since, and the
\* answer if served.
Request(kind, x) ==
    [kind |-> kind, run |-> x, stale |-> FALSE,
     served |-> kind \in {"inspect", "cancel"}, listed |-> {}, over |-> FALSE, select |-> FALSE]

ControlInit ==
    /\ server = [x \in Executions |-> [born |-> x \in FirstRuns, log |-> 0, over |-> FALSE, ends |-> {}]]
    /\ \E route \in FirstRuns \union {NoExecution} :
        /\ page = [route |-> route, selectedId |-> route,
                   selected |-> NoDetail, state |-> "loading", shown |-> <<>>, inspected |-> NoExecution,
                   busy |-> FALSE]
        /\ requests = {Request("list", route)}
    /\ feed = NoFeed

-----------------------------------------------------------------------------
(* The service. *)

\* append_attempt_event_in_transaction; a diagnostic may still follow the end.
AppendEvent(x) ==
    /\ server[x].born /\ server[x].log < MaxEvents[x]
    /\ server' = [server EXCEPT ![x].log = @ + 1,
                                ![x].ends = IF server[x].over THEN @ \union {server[x].log + 1} ELSE @]
    /\ UNCHANGED <<page, requests, feed>>

\* The jobs settle; the last event and the terminal status commit together.
RunEnds(x) ==
    /\ server[x].born /\ ~server[x].over
    /\ server' = [server EXCEPT ![x].over = TRUE, ![x].ends = @ \union {server[x].log}]
    /\ UNCHANGED <<page, requests, feed>>

\* list_executions, within the project and experiment.
ListExecutions == {x \in OwnRuns : server[x].born}

\* execution: the row and its records.
ExecutionDetail(x) == [run |-> x, over |-> server[x].over]

\* Mutant: one event at a time, and the end marker with it.
FirstEventAfter(x, cursor) ==
    [n \in 1 .. (IF server[x].log > cursor THEN 1 ELSE 0) |-> [n |-> cursor + n, end |-> FALSE]]
        \o IF server[x].over THEN <<[n |-> server[x].log, end |-> TRUE]>> ELSE <<>>

\* list_execution_events_with_status_after: one statement reads both the events
\* past the cursor and the status.
EventsAfter(x, cursor) ==
    [n \in 1 .. server[x].log - cursor |-> [n |-> cursor + n, end |-> FALSE]]
        \o IF server[x].over THEN <<[n |-> server[x].log, end |-> TRUE]>> ELSE <<>>

\* create_execution starts a run; the offline demonstration may also answer with
\* the one its admission is bound to (module OfflineDemo).
Created(kind) == {x \in OwnRuns : kind = "demo" \/ ~server[x].born}

\* Each endpoint, as one transaction. Cancelling settles nothing by itself; the
\* shipped service has no ResumeService, so a resume is always refused.
Serve(q) ==
    LET answered(answer) == requests' = (requests \ {q}) \union IF q.stale THEN {} ELSE {answer} IN
    /\ ~q.served
    /\ \/ /\ q.kind = "list"
          /\ answered([q EXCEPT !.served = TRUE, !.listed = ListExecutions])
          /\ UNCHANGED server
       \/ /\ q.kind \in {"get", "choose", "watch"}
          /\ answered([q EXCEPT !.served = TRUE, !.over = ExecutionDetail(q.run).over])
          /\ UNCHANGED server
       \/ /\ q.kind \in {"create", "demo"}
          /\ \E x \in Created(q.kind) :
                /\ server' = [server EXCEPT ![x].born = TRUE]
                /\ answered([q EXCEPT !.served = TRUE, !.run = x])
    /\ UNCHANGED <<page, feed>>

-----------------------------------------------------------------------------
(* Rendering. *)

\* captureCurrent: when the generation moves on, the answers still to come change
\* nothing, so all that is left of a request is what it does to the service.
Outdated(rest) ==
    {[q EXCEPT !.stale = TRUE] : q \in {w \in rest : ~w.served /\ w.kind \in {"create", "demo"}}}

\* The stream effect: it runs for the selected execution while the page is ready.
Followed(p) == IF p.state = "ready" THEN p.selected.run ELSE NoExecution

Render(p) ==
    /\ page' = p
    /\ feed' = IF Followed(p) = Followed(page) THEN feed ELSE [NoFeed EXCEPT !.run = Followed(p)]

\* load: the busy flag and the state are reset.
Reset(p) == [p EXCEPT !.busy = FALSE, !.state = "loading"]

\* The default argument of load.
Target(p) == IF p.route # NoExecution THEN p.route ELSE p.selectedId

\* navigate: the effect of the new route forgets what was shown and loads again.
Navigated(p, x) ==
    [Reset(p) EXCEPT !.route = x, !.selectedId = x, !.selected = NoDetail, !.shown = <<>>, !.inspected = NoExecution]

\* onExecutionSelected: nothing changes when the route already names the run.
SelectRoute(p, x, rest) ==
    IF p.route = x THEN Render(p) /\ requests' = rest
    ELSE Render(Navigated(p, x)) /\ requests' = Outdated(rest) \union {Request("list", x)}

-----------------------------------------------------------------------------
(* Answers. *)

\* load after the list: the requested run, or the selected one, or the first.
Listed(q) ==
    LET next(x) == requests' = (requests \ {q}) \union {[Request("get", x) EXCEPT !.select = q.select]}
    IN
    /\ q.kind = "list" /\ q.served
    /\ \/ /\ q.run # NoExecution
          /\ next(q.run) /\ UNCHANGED <<page, feed>>
       \/ /\ q.run = NoExecution /\ q.listed = {}
          /\ Render([page EXCEPT !.selected = NoDetail, !.state = "empty"])
          /\ requests' = requests \ {q}
       \/ /\ q.run = NoExecution /\ q.listed # {}
          /\ \E x \in q.listed : (page.selectedId \in q.listed => x = page.selectedId) /\ next(x)
          /\ UNCHANGED <<page, feed>>
    /\ UNCHANGED server

\* load after the detail; a run of another experiment is refused.
Loaded(q) ==
    /\ q.kind = "get" /\ q.served
    /\ \/ /\ q.run \notin OwnRuns
          /\ Render([page EXCEPT !.selected = NoDetail, !.state = "error"])
          /\ requests' = requests \ {q}
       \/ /\ q.run \in OwnRuns
          /\ LET p == [page EXCEPT !.selectedId = q.run, !.selected = [run |-> q.run, over |-> q.over],
                                   !.state = "ready"]
             IN  IF q.select THEN SelectRoute(p, q.run, requests \ {q})
                 ELSE Render(p) /\ requests' = requests \ {q}
    /\ UNCHANGED server

Chosen(q) ==
    /\ q.kind = "choose" /\ q.served
    /\ SelectRoute([page EXCEPT !.selectedId = q.run, !.selected = [run |-> q.run, over |-> q.over],
                                !.state = "ready"], q.run, requests \ {q})
    /\ UNCHANGED server

\* create, createOfflineDemo and cancel load the run they acted on.
Acted(q) ==
    /\ q.kind \in {"create", "demo", "cancel"} /\ q.served
    /\ Render(Reset(page))
    /\ requests' = Outdated(requests \ {q}) \union
          {[Request("list", q.run) EXCEPT !.select = q.kind \in {"create", "demo"}]}
    /\ UNCHANGED server

Inspected(q) ==
    /\ q.kind = "inspect" /\ q.served
    /\ Render([page EXCEPT !.inspected = q.run])
    /\ requests' = requests \ {q}
    /\ UNCHANGED server

\* A load or a choice that fails leaves the page in error; another request
\* only says so.
Failed(q) ==
    /\ requests' = requests \ {q}
    /\ IF q.stale THEN UNCHANGED <<page, feed>>
       ELSE Render(IF q.kind \in {"list", "get", "choose"} THEN [page EXCEPT !.state = "error"]
                   ELSE [page EXCEPT !.busy = FALSE])
    /\ UNCHANGED server

Arrives(q) ==
    \/ Listed(q) \/ Loaded(q) \/ Chosen(q) \/ Acted(q) \/ Inspected(q)
    \/ q.kind # "watch" /\ Failed(q)

-----------------------------------------------------------------------------
(* The user. *)

Send(q, under) ==
    /\ Cardinality(requests) < MaxRequests
    /\ requests' = under \union {q} /\ UNCHANGED server

\* The rows on offer were listed at some time, so they exist.
Choose(x) ==
    /\ x \in ListExecutions /\ x # page.selected.run
    /\ Render([page EXCEPT !.selectedId = x, !.selected = NoDetail, !.state = "loading", !.busy = FALSE,
                           !.inspected = NoExecution, !.shown = <<>>])
    /\ Send(Request("choose", x), Outdated(requests))

Reload ==
    /\ Render(Reset(page))
    /\ Send(Request("list", Target(page)), Outdated(requests))

\* popstate, or another surface naming an execution.
Navigate(x) ==
    /\ x # page.route /\ Cardinality(requests) < MaxRequests
    /\ SelectRoute(page, x, requests) /\ UNCHANGED server

\* The buttons are disabled while one of them is under way.
Act(kind, x) ==
    /\ ~page.busy
    /\ Render([page EXCEPT !.busy = TRUE]) /\ Send(Request(kind, x), requests)

CancelRun == page.selected.run # NoExecution /\ ~page.selected.over /\ Act("cancel", page.selected.run)

ResumeRun == page.selected.run # NoExecution /\ page.selected.over /\ Act("resume", page.selected.run)

LaunchExecution == Act("create", NoExecution)

CreateOfflineDemo == Act("demo", NoExecution)

\* inspectAttempt and inspectTrace, of an attempt of the selected run.
Inspect ==
    /\ page.selected.run # NoExecution
    /\ Send(Request("inspect", page.selected.run), requests)
    /\ UNCHANGED <<page, feed>>

-----------------------------------------------------------------------------
(* The event stream. *)

FeedUp == feed.run # NoExecution /\ ~feed.refreshing

\* Connecting, from the last cursor delivered.
Connect ==
    /\ FeedUp /\ ~feed.open
    /\ feed' = [feed EXCEPT !.open = TRUE, !.sent = feed.cursor, !.frames = <<>>]
    /\ UNCHANGED <<server, page, requests>>

\* execution_events: the events read, then the terminal marker.
Poll ==
    /\ FeedUp /\ feed.open /\ feed.frames = <<>>
    /\ EventsAfter(feed.run, feed.sent) # <<>>
    /\ LET frames == EventsAfter(feed.run, feed.sent)
       IN  feed' = [feed EXCEPT !.frames = frames, !.sent = frames[Len(frames)].n]
    /\ UNCHANGED <<server, page, requests>>

Visible(entry) == \E i \in DOMAIN page.shown : page.shown[i] = entry

\* The next frame, shown once; the marker asks for the detail again.
TakeFrame ==
    LET frame == feed.frames[1]
        entry == [run |-> feed.run, n |-> frame.n, end |-> frame.end]
    IN
    /\ FeedUp /\ feed.open /\ feed.frames # <<>>
    /\ page' = IF Visible(entry) THEN page ELSE [page EXCEPT !.shown = Append(@, entry)]
    /\ feed' = [feed EXCEPT !.frames = Tail(@), !.cursor = frame.n, !.refreshing = frame.end]
    /\ requests' = IF frame.end THEN requests \union {Request("watch", feed.run)} ELSE requests
    /\ UNCHANGED server

\* refreshSelected of the stream: only while it is still the selected run's.
Refreshed(q) ==
    /\ q.kind = "watch" /\ q.served
    /\ requests' = requests \ {q}
    /\ IF feed.refreshing /\ page.selectedId = q.run
       THEN page' = [page EXCEPT !.selected = [run |-> q.run, over |-> q.over]]
       ELSE UNCHANGED page
    /\ UNCHANGED <<server, feed>>

\* The connection breaks or the refresh fails: reconnect a few times, then the
\* page is in error. What was in flight is lost.
Disconnect ==
    /\ FeedUp /\ feed.open
    /\ IF feed.reconnects < MaxReconnects
       THEN feed' = [feed EXCEPT !.open = FALSE, !.frames = <<>>, !.reconnects = @ + 1] /\ UNCHANGED page
       ELSE Render([page EXCEPT !.state = "error"])
    /\ UNCHANGED <<server, requests>>

RefreshFails(q) ==
    /\ q.kind = "watch"
    /\ requests' = requests \ {q}
    /\ IF feed.refreshing THEN Render([page EXCEPT !.state = "error"]) ELSE UNCHANGED <<page, feed>>
    /\ UNCHANGED server

ControlNext ==
    \/ \E x \in OwnRuns : AppendEvent(x) \/ RunEnds(x) \/ Choose(x)
    \/ \E x \in Executions \union {NoExecution} : Navigate(x)
    \/ \E q \in requests : Serve(q) \/ Arrives(q) \/ Refreshed(q) \/ RefreshFails(q)
    \/ Reload \/ CancelRun \/ ResumeRun \/ LaunchExecution \/ CreateOfflineDemo
    \/ Inspect \/ Connect \/ Poll \/ TakeFrame \/ Disconnect

ControlSpec == ControlInit /\ [][ControlNext]_controlVars

-----------------------------------------------------------------------------
\* Whatever order the answers arrive in (useExecutionControl 43, 55, 137, 151):
\* the page shows the execution it has selected, one of this experiment, and
\* the events, attempt and trace beside it are that execution's, never those
\* of one selected before.
ShownIsSelected ==
    /\ page.selected.run # NoExecution => page.selected.run = page.selectedId /\ page.selectedId \in OwnRuns
    /\ \A i \in DOMAIN page.shown : page.shown[i].run = page.selectedId
    /\ page.inspected \in {page.selectedId, NoExecution}
    /\ feed.run \in {page.selected.run, NoExecution}

\* The visible log is the persisted one (client 178, repository 1765): in order
\* and without gaps through every reconnection, reload and replay, and an end
\* marker only after everything the execution had recorded when it ended.
StreamIsWhole ==
    \A i \in DOMAIN page.shown :
        LET entry == page.shown[i] IN
        /\ \A n \in 1 .. entry.n - 1 : \E j \in 1 .. i - 1 : page.shown[j].n = n /\ ~page.shown[j].end
        /\ entry.end => /\ entry.n \in server[entry.run].ends
                        /\ entry.n > 0 => \E j \in 1 .. i - 1 : page.shown[j].n = entry.n /\ ~page.shown[j].end

\* The page tells the truth about the execution it shows (useExecutionControl,
\* client, repository 1765), whatever was selected, cancelled, reloaded or
\* reconnected in between: the right execution, and all of its log.
PageIsTrue == ShownIsSelected /\ StreamIsWhole
=============================================================================
