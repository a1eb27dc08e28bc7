----------------------------- MODULE TraceLab -----------------------------
(***************************************************************************)
(* Trace Lab (services_v1/trace_lab, analysis_v1/trace): two persisted     *)
(* attempts are compared while their workers may still be writing. Each    *)
(* attempt is read in two transactions, its row and then its events; the   *)
(* traces are put in order, aligned by a two-row dynamic program and       *)
(* searched for the first difference that means something.                 *)
(*                                                                         *)
(* An event is [seq, type, digest, ref]: the durable sequence number, the  *)
(* protocol's type, the payload hash and the state reference it carries.   *)
(* Ordinals count from 0, as in the code; -1 is None.                      *)
(***************************************************************************)
EXTENDS Integers, Sequences, FiniteSets, SequencesExt

CONSTANTS
    LabAttempts,    \* attempts
    Traces,         \* event sequences a worker may persist
    Enrolments,     \* maps from attempts to the experiments they may belong to
    LabRequests,    \* [left, right, partial, declared] a client may send
    MaxTraceEvents, \* _MAX_TRACE_EVENTS
    NoLab

\* Workers persist sequences of numbered events, and a request names attempts.
ASSUME LabAssumption ==
    /\ \A plan \in Traces :
        plan \in Seq([seq : Nat, type : {e.type : e \in ToSet(plan)},
                     digest : {e.digest : e \in ToSet(plan)}, ref : BOOLEAN])
    /\ \A req \in LabRequests : req.left \in LabAttempts /\ req.right \in LabAttempts

VARIABLES
    written,    \* attempt -> [experiment, plan, n, status, complete]
    lab         \* the request: where it is, what it read, what it answered

labVars == <<written, lab>>

Sides == {"left", "right"}
Unread == [status |-> "unread", complete |-> FALSE, events |-> <<>>]

LabInit ==
    /\ \E plan \in [LabAttempts -> Traces], enrolled \in Enrolments :
        written = [a \in LabAttempts |-> [experiment |-> enrolled[a], plan |-> plan[a], n |-> 0,
                                          status |-> "running", complete |-> FALSE]]
    /\ lab = [pc |-> "idle", request |-> NoLab, read |-> [s \in Sides |-> Unread], answer |-> NoLab]

-----------------------------------------------------------------------------
(* The worker: events in the order it sends them, then the terminal row. *)

PersistEvent(a) ==
    /\ written[a].status = "running"
    /\ written[a].n < Len(written[a].plan)
    /\ written' = [written EXCEPT ![a].n = @ + 1]
    /\ UNCHANGED lab

\* A completed result carries a complete trace; any other may stop anywhere.
AttemptEnds(a) ==
    /\ written[a].status = "running"
    /\ \E status \in {"completed", "failed"} :
        /\ status = "completed" => written[a].n = Len(written[a].plan)
        /\ written' = [written EXCEPT ![a].status = status, ![a].complete = (status = "completed")]
    /\ UNCHANGED lab

-----------------------------------------------------------------------------
(* Normalisation: the durable sequence decides, clocks never do. *)

\* Only used where no two events have the same sequence number (ReadEvents).
NormalizeTrace(events) ==
    LET place(j) == Cardinality({k \in DOMAIN events : events[k].seq < events[j].seq}) + 1
    IN  [i \in DOMAIN events |-> events[CHOOSE j \in DOMAIN events : place(j) = i]]

Anchors == [request |-> "request", response |-> "model_response", tool_call |-> "tool_call",
            tool_result |-> "tool_result", state |-> "state_change", error |-> "error"]

\* _analysis_events: a declared anchor replaces the one of the event's type.
AnalysisEvents(events, declared) ==
    [i \in DOMAIN events |->
        [seq    |-> events[i].seq, digest |-> events[i].digest, ref |-> events[i].ref,
         anchor |-> IF events[i].seq \in DOMAIN declared THEN declared[events[i].seq]
                    ELSE Anchors[events[i].type]]]

-----------------------------------------------------------------------------
(* align_traces *)

GapScore == -2

\* Mutant: equal anchors score the same whatever their content.
FlatScore(x, y) == 8

DiagonalScore(x, y) == IF x.digest = y.digest THEN 8 ELSE 1

\* Cell <<i, j>>: the best score of the first i and the first j events.
ScoreTable(left, right) ==
    LET cell[p \in (0..Len(left)) \X (0..Len(right))] ==
            LET i == p[1]
                j == p[2]
                up       == IF i > 0 THEN {cell[<<i - 1, j>>] + GapScore} ELSE {}
                across   == IF j > 0 THEN {cell[<<i, j - 1>>] + GapScore} ELSE {}
                diagonal == IF i > 0 /\ j > 0 /\ left[i].anchor = right[j].anchor
                            THEN {cell[<<i - 1, j - 1>>] + DiagonalScore(left[i], right[j])} ELSE {}
            IN  IF i = 0 /\ j = 0 THEN 0 ELSE Max(up \union across \union diagonal)
    IN  cell

\* Ties: the diagonal, then an event of the left trace, then one of the right.
Direction(table, left, right, i, j) ==
    IF /\ i > 0 /\ j > 0 /\ left[i].anchor = right[j].anchor
       /\ table[<<i, j>>] = table[<<i - 1, j - 1>>] + DiagonalScore(left[i], right[j])
    THEN "diagonal"
    ELSE IF i > 0 /\ (j = 0 \/ table[<<i, j>>] = table[<<i - 1, j>>] + GapScore)
    THEN "up"
    ELSE "left"

AlignedStatus(x, y) == IF x.digest # y.digest THEN "CONTENT_DIFFERENCE" ELSE "MATCH"

AlignTraces(left, right) ==
    LET table == ScoreTable(left, right)
        rows[p \in (0..Len(left)) \X (0..Len(right))] ==
            LET i == p[1]
                j == p[2]
            IN  IF i = 0 /\ j = 0 THEN <<>>
                ELSE CASE Direction(table, left, right, i, j) = "diagonal" ->
                            Append(rows[<<i - 1, j - 1>>],
                                [left |-> i - 1, right |-> j - 1, anchor |-> left[i].anchor,
                                 status |-> AlignedStatus(left[i], right[j])])
                       [] Direction(table, left, right, i, j) = "up" ->
                            Append(rows[<<i - 1, j>>],
                                [left |-> i - 1, right |-> -1, anchor |-> left[i].anchor,
                                 status |-> "LEFT_ONLY"])
                       [] OTHER ->
                            Append(rows[<<i, j - 1>>],
                                [left |-> -1, right |-> j - 1, anchor |-> right[j].anchor,
                                 status |-> "RIGHT_ONLY"])
    IN  rows[<<Len(left), Len(right)>>]

-----------------------------------------------------------------------------
(* first_meaningful_divergence and its context *)

Meaningful(row) ==
    \/ row.status = "CONTENT_DIFFERENCE"
    \/ row.status # "MATCH" /\ row.anchor \notin {"start", "request"}

\* The first such row, or 0.
FirstDivergence(rows) ==
    LET found == {k \in DOMAIN rows : Meaningful(rows[k])}
    IN  IF found = {} THEN 0 ELSE Min(found)

\* The event of a side at the divergence; on the absent side the nearest event
\* that has a reference, the following one first.
NearestReference(rows, k, side, events) ==
    LET withRef == {m \in DOMAIN rows : rows[m][side] >= 0 /\ events[rows[m][side] + 1].ref}
        distance(m) == IF m >= k THEN 2 * (m - k) ELSE 2 * (k - m) + 1
    IN  IF withRef = {} THEN -1
        ELSE rows[CHOOSE m \in withRef : \A o \in withRef : distance(m) <= distance(o)][side]

\* _context_ordinal: on the absent side, one past the nearest event before, or
\* the nearest one after.
ContextOrdinal(rows, k, side, before) ==
    LET earlier == {m \in 1..(k - 1) : rows[m][side] >= 0}
        later   == {m \in (k + 1)..Len(rows) : rows[m][side] >= 0}
    IN  IF rows[k][side] >= 0 THEN rows[k][side]
        ELSE IF before THEN IF earlier = {} THEN 0 ELSE rows[Max(earlier)][side] + 1
        ELSE IF later = {} THEN -1 ELSE rows[Min(later)][side]

\* _observed_state_ref: the last reference before the ordinal, or the first one
\* from it on.
ObservedStateRef(events, ordinal, before) ==
    LET refs == {i \in 0..(Len(events) - 1) : events[i + 1].ref /\
                    IF before THEN i < ordinal ELSE ordinal >= 0 /\ i >= ordinal}
    IN  IF refs = {} THEN -1 ELSE IF before THEN Max(refs) ELSE Min(refs)

StateContext(rows, k, events) ==
    [s \in Sides |->
        IF k = 0 THEN [before |-> -1, after |-> -1]
        ELSE [before |-> ObservedStateRef(events[s], ContextOrdinal(rows, k, s, TRUE), TRUE),
              after  |-> ObservedStateRef(events[s], ContextOrdinal(rows, k, s, FALSE), FALSE)]]

-----------------------------------------------------------------------------
(* The request. *)

BeginLab ==
    /\ lab.pc = "idle"
    /\ \E req \in LabRequests :
        lab' = [lab EXCEPT !.request = req, !.pc = IF req.left = req.right THEN "refused" ELSE "row_left"]
    /\ UNCHANGED written

\* attempt_evaluation_source: status and result metadata.
ReadRow(side) ==
    /\ lab.pc = (IF side = "left" THEN "row_left" ELSE "row_right")
    /\ LET w == written[lab.request[side]] IN
       lab' = [lab EXCEPT !.read[side] = [status |-> w.status, complete |-> w.complete, events |-> <<>>],
                          !.pc = IF side = "left" THEN "events_left" ELSE "events_right"]
    /\ UNCHANGED written

\* list_attempt_events: refused when empty, too long or ambiguous.
ReadEvents(side) ==
    /\ lab.pc = (IF side = "left" THEN "events_left" ELSE "events_right")
    /\ LET w      == written[lab.request[side]]
           events == SubSeq(w.plan, 1, w.n)
           seqs   == {e.seq : e \in ToSet(events)}
       IN  lab' = [lab EXCEPT !.read[side].events = events,
                        !.pc = IF events = <<>> \/ Len(events) > MaxTraceEvents
                                  \/ Cardinality(seqs) # Len(events)
                               THEN "refused"
                               ELSE IF side = "left" THEN "row_right" ELSE "loaded"]
    /\ UNCHANGED written

\* Why a trace is only good for a partial diagnosis.
Exclusions(read) ==
    {x \in {"attempt_status", "completeness_unverified", "sequence_gap", "reordered"} :
        LET seqs == [i \in DOMAIN read.events |-> read.events[i].seq] IN
        CASE x = "attempt_status"          -> read.status # "completed"
          [] x = "completeness_unverified" -> ~read.complete
          [] x = "sequence_gap"            -> ToSet(seqs) # 0..(Len(seqs) - 1)
          [] x = "reordered"               -> \E i, j \in DOMAIN seqs : i < j /\ seqs[i] > seqs[j]}

Diagnosis(left, right, exclusions) ==
    LET rows == AlignTraces(left, right)
        k    == FirstDivergence(rows)
        both == [s \in Sides |-> IF s = "left" THEN left ELSE right]
    IN  [mode  |-> IF exclusions = {} THEN "COMPLETE_TRACE_DIAGNOSTIC" ELSE "DIAGNOSTIC_PARTIAL",
         rows  |-> rows, position |-> k,
         refs  |-> IF k = 0 THEN {} ELSE {NearestReference(rows, k, s, both[s]) : s \in Sides} \ {-1},
         state |-> StateContext(rows, k, both)]

Analyze ==
    /\ lab.pc = "loaded"
    /\ LET req        == lab.request
           events     == [s \in Sides |-> NormalizeTrace(AnalysisEvents(lab.read[s].events, req.declared))]
           exclusions == Exclusions(lab.read["left"]) \union Exclusions(lab.read["right"])
           known      == UNION {{e.seq : e \in ToSet(lab.read[s].events)} : s \in Sides}
       IN  IF \/ written[req.left].experiment # written[req.right].experiment
              \/ ~(DOMAIN req.declared \subseteq known)
              \/ exclusions # {} /\ ~req.partial
           THEN lab' = [lab EXCEPT !.pc = "refused"]
           ELSE lab' = [lab EXCEPT !.pc = "answered",
                            !.answer = Diagnosis(events["left"], events["right"], exclusions)]
    /\ UNCHANGED written

LabNext ==
    \/ \E a \in LabAttempts : PersistEvent(a) \/ AttemptEnds(a)
    \/ BeginLab
    \/ \E s \in Sides : ReadRow(s) \/ ReadEvents(s)
    \/ Analyze

LabSpec == LabInit /\ [][LabNext]_labVars

-----------------------------------------------------------------------------
AlignedTrace(side) == NormalizeTrace(AnalysisEvents(lab.read[side].events, lab.request.declared))

\* Every way of pairing equal anchors in order.
Matchings(left, right) ==
    {m \in SUBSET ((1..Len(left)) \X (1..Len(right))) :
        /\ \A p \in m : left[p[1]].anchor = right[p[2]].anchor
        /\ \A p, q \in m : p # q => (p[1] < q[1] /\ p[2] < q[2]) \/ (p[1] > q[1] /\ p[2] > q[2])}

MatchingScore(m, left, right) ==
    8 * Cardinality({p \in m : left[p[1]].digest = right[p[2]].digest})
    + Cardinality({p \in m : left[p[1]].digest # right[p[2]].digest})
    + GapScore * (Len(left) + Len(right) - 2 * Cardinality(m))

\* The rows hold the events 0..(n - 1) of a side, each once and in order.
RunsThrough(rows, side, n) ==
    /\ \A k, m \in DOMAIN rows :
        k < m /\ rows[k][side] >= 0 /\ rows[m][side] >= 0 => rows[k][side] < rows[m][side]
    /\ {rows[k][side] : k \in DOMAIN rows} \ {-1} = 0..(n - 1)

Paired(rows) ==
    {<<rows[k].left + 1, rows[k].right + 1>> :
        k \in {k \in DOMAIN rows : rows[k].left >= 0 /\ rows[k].right >= 0}}

\* The dynamic program of align_traces (trace 187) does find a best alignment:
\* the rows run through both traces in order, every event once, and no other
\* order-preserving pairing of equal anchors scores more.
AlignmentIsBest ==
    lab.pc = "answered" =>
        LET left  == AlignedTrace("left")
            right == AlignedTrace("right")
            rows  == lab.answer.rows
        IN  /\ RunsThrough(rows, "left", Len(left))
            /\ RunsThrough(rows, "right", Len(right))
            /\ Paired(rows) \in Matchings(left, right)
            /\ \A m \in Matchings(left, right) :
                    MatchingScore(m, left, right) <= MatchingScore(Paired(rows), left, right)

\* A diagnosis called complete compares all that the two attempts will ever
\* persist, although rows and events are read apart and while workers write
\* (trace_lab 266: the row is read first); it reports a divergence exactly when
\* the traces differ in more than unmatched requests, and the states it shows
\* as before and after lie on their side of it.
DiagnosisIsSound ==
    lab.pc = "answered" =>
        LET rows == lab.answer.rows
            k    == lab.answer.position
            \* the row that holds ordinal o of side s
            row(s, o) == CHOOSE i \in DOMAIN rows : rows[i][s] = o
        IN  /\ lab.answer.mode = "COMPLETE_TRACE_DIAGNOSTIC" =>
                 \A s \in Sides : /\ lab.read[s].events = written[lab.request[s]].plan
                                  /\ written[lab.request[s]].status = "completed"
            /\ k = 0 => \A i \in DOMAIN rows :
                            rows[i].status # "MATCH" => rows[i].anchor \in {"start", "request"}
            /\ k > 0 => \A s \in Sides :
                 /\ lab.answer.state[s].before >= 0 => row(s, lab.answer.state[s].before) < k
                 /\ lab.answer.state[s].after >= 0 => row(s, lab.answer.state[s].after) >= k

\* What the laboratory answers is right (trace 187, trace_lab 266): the
\* alignment is a best one, and the diagnosis drawn from it is sound although
\* the traces it reads are still being written.
LabIsSound == AlignmentIsBest /\ DiagnosisIsSound
=============================================================================
