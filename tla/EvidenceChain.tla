---------------------------- MODULE EvidenceChain ----------------------------
(***************************************************************************)
(* From captured attempts to a published decision: evaluations, the one    *)
(* analysis report of an execution, custody receipts uploaded or derived,  *)
(* decision briefs and reproduction records.  All of them are write-once   *)
(* rows built from reads made before the transaction that inserts them,    *)
(* while a retry may reopen the execution they describe and the artifact   *)
(* store may lose bytes.                                                   *)
(*                                                                         *)
(* An execution has one episode, whose attempts form a retry chain.  A     *)
(* digest is modelled by what it is the digest of.                         *)
(***************************************************************************)
EXTENDS ClaimRules

CONSTANTS
    Executions,
    LiveExecutions,   \* those whose harness is not fixture_only
    Outcomes,         \* Outcomes[x]: what the adapter may return for an attempt of x
    MaxAttempts,      \* budget.max_attempts of the attempt envelope
    RequestKeys,      \* a derived receipt has the id of its request key
    UploadIds,        \* an uploaded receipt names its own id
    Requests,         \* decision requests: claims and risk constraints
    ReproductionIds,
    Handlers,
    MaxLost,          \* bound on the artifacts the store loses
    None

\* A row of the attempts table with what the services read of its evidence.
AttemptRow ==
    [status : {"queued", "completed", "failed", "timed_out", "incomplete", "cancelled"},
     output : BOOLEAN, transient : BOOLEAN, severe : Nat, mission : Nat,
     cost : {"unknown", "reconciled"}, usage : BOOLEAN, evaluations : Nat, prev : Nat]

\* What an adapter returns has ended.
ASSUME OutcomeAssumption ==
    \A x \in Executions : \A o \in Outcomes[x] : o \in AttemptRow /\ o.status # "queued"

\* budget.max_attempts is at least one.
ASSUME BoundAssumption == MaxAttempts \in Nat \ {0} /\ MaxLost \in Nat

\* A request proposes claims of the known kinds and links receipts by id.
ASSUME RequestAssumption ==
    \A request \in Requests : \A c \in DOMAIN request.claims :
        /\ request.claims[c].kind \in ClaimKinds
        /\ request.claims[c].links \subseteq RequestKeys \cup UploadIds

VARIABLES
    status,           \* executions.status
    attempts,         \* the episode's attempts in ordinal order
    lost,             \* artifacts whose bytes can no longer be read
    reports,          \* analysis_reports by execution
    receipts,         \* evidence_receipts by id
    briefs,           \* decision_briefs by the execution of their report
    reproductions,
    handlers

ReceiptIds == RequestKeys \cup UploadIds

rows == <<status, attempts>>
records == <<reports, receipts, briefs, reproductions>>
vars == <<rows, lost, records, handlers>>

Queued(prev) == [status |-> "queued", output |-> FALSE, transient |-> FALSE, severe |-> 0,
                 mission |-> 0, cost |-> "unknown", usage |-> FALSE, evaluations |-> 0,
                 prev |-> prev]

Idle == [op |-> "idle", on |-> None, with |-> None, saw |-> None]

Init ==
    /\ status = [x \in Executions |-> "queued"]
    /\ attempts = [x \in Executions |-> <<Queued(0)>>]
    /\ lost = {}
    /\ reports = [x \in Executions |-> None]
    /\ receipts = [r \in ReceiptIds |-> None]
    /\ briefs = [x \in Executions |-> None]
    /\ reproductions = [p \in ReproductionIds |-> None]
    /\ handlers = [h \in Handlers |-> Idle]

-----------------------------------------------------------------------------
(* Attempts and their evaluations                                          *)

NonSuccess == {"failed", "timed_out", "incomplete"}
Terminal == NonSuccess \cup {"completed", "cancelled"}

AllEvaluated(chain) == \A i \in DOMAIN chain : chain[i].evaluations = 1

\* Artifacts: the input, output, trace and evaluation result of attempt i of
\* an execution are one artifact; a report is another.
Evidence(x, i) == <<"attempt", x, i>>
ReportArtifact(x) == <<"report", x, 0>>
AttemptArtifacts(x, chain) == {Evidence(x, i) : i \in DOMAIN chain}

\* finalize_with_followup: a captured terminal attempt and its evaluation job.
Capture(x, i, o) ==
    /\ attempts[x][i].status = "queued"
    /\ attempts' = [attempts EXCEPT ![x][i] =
          [o EXCEPT !.prev = attempts[x][i].prev, !.evaluations = 0]]
    /\ UNCHANGED <<status, lost, records, handlers>>

\* evaluate and finalize_auxiliary: one immutable record per attempt, read
\* from re-readable evidence; the last job completes the execution.
Evaluate(x, i) ==
    /\ attempts[x][i].status \in Terminal
    /\ attempts[x][i].evaluations = 0
    /\ Evidence(x, i) \notin lost
    /\ attempts' = [attempts EXCEPT ![x][i].evaluations = 1]
    /\ status' = IF AllEvaluated(attempts'[x])
                 THEN [status EXCEPT ![x] = "completed"] ELSE status
    /\ UNCHANGED <<lost, records, handlers>>

\* retry of a captured attempt: it is not asked whether the attempt is the
\* last one, nor whether the execution already has a report.
Retry(x, i) ==
    /\ attempts[x][i].status \in NonSuccess
    /\ attempts[x][i].transient
    /\ Len(attempts[x]) < MaxAttempts
    /\ attempts' = [attempts EXCEPT ![x] = Append(@, Queued(i))]
    /\ status' = [status EXCEPT ![x] = "queued"]
    /\ UNCHANGED <<lost, records, handlers>>

Lose(d) ==
    /\ Cardinality(lost) < MaxLost
    /\ lost' = lost \cup {d}
    /\ UNCHANGED <<rows, records, handlers>>

-----------------------------------------------------------------------------
(* Analysis                                                                *)

\* _require_terminal_output_binding: an observed output is bound by both the
\* attempt and its evaluation; _retry_constituent passes no evaluation.
ObservedOutput(a) == a.status = "completed" \/ (a.status = "incomplete" /\ a.output)

RetryConstituent(a) ==
    /\ a.status \in Terminal \ {"completed"}
    /\ a.evaluations <= 1
    /\ ~ObservedOutput(a)
    /\ a.transient

FinalAttemptUnfinished(x, i, a) == Evidence(x, i) \notin lost

\* _attempt: exactly one evaluation, artifacts that can be read again, and
\* for an attempt without output a severe failure below full success.
FinalAttempt(x, i, a) ==
    /\ a.status \in Terminal
    /\ a.evaluations = 1
    /\ Evidence(x, i) \notin lost
    /\ ~ObservedOutput(a) => a.severe > 0 /\ a.mission = 0

\* _episode: one contiguous chain, each retry bound to its predecessor.
EpisodeAccepted(x, chain) ==
    LET n == Len(chain)
    IN  /\ \A i \in 1..n : chain[i].prev = i - 1
        /\ \A i \in 1..(n - 1) : RetryConstituent(chain[i])
        /\ FinalAttempt(x, n, chain[n])

\* build_analysis_report of the one episode: what a decision reads off it.
Facts(chain) ==
    LET final == chain[Len(chain)]
        adequacy == [attempts |-> 1, clusters |-> 1, control |-> 0, treatment |-> 0,
                     fidelity |-> 100, trace |-> 100, preregistered |-> TRUE,
                     independent |-> TRUE, heldOut |-> TRUE, externalFit |-> FALSE]
        need == [attempts |-> 1, clusters |-> 1, perArm |-> 0, balance |-> 0,
                 fidelity |-> 0, trace |-> 0]
    IN  [severe |-> final.severe,
         exclusions |-> {},
         level |-> ClaimLevel(adequacy, need),
         estimated |-> 0,
         unknownCost |-> \E i \in DOMAIN chain : chain[i].cost # "reconciled"]

\* The three SELECTs of analysis_execution_rows are separate statements: the
\* status first ...
AnalyzeBegin(h, x) ==
    /\ handlers[h].op = "idle"
    /\ status[x] = "completed"
    /\ handlers' = [handlers EXCEPT ![h] =
          [op |-> "analyze", on |-> x, with |-> None, saw |-> None]]
    /\ UNCHANGED <<rows, lost, records>>

\* ... then the attempts with their evaluations and usage.
AnalyzeRows(h) ==
    LET x == handlers[h].on
    IN  /\ handlers[h].op = "analyze"
        /\ handlers' = [handlers EXCEPT ![h] =
              IF EpisodeAccepted(x, attempts[x])
              THEN [@ EXCEPT !.op = "report", !.saw = attempts[x]] ELSE Idle]
        /\ UNCHANGED <<rows, lost, records>>

ReportReplace(x, report) == reports' = [reports EXCEPT ![x] = report]

\* create_analysis_report: only an identical replay is accepted.
ReportInsert(x, report) ==
    reports' = IF reports[x] = None THEN [reports EXCEPT ![x] = report] ELSE reports

\* put_bytes stores the report again if its bytes were lost.
AnalyzeCommit(h) ==
    LET x == handlers[h].on
        report == [chain |-> handlers[h].saw, facts |-> Facts(handlers[h].saw)]
    IN  /\ handlers[h].op = "report"
        /\ ReportInsert(x, report)
        /\ lost' = IF reports[x] \in {None, report} THEN lost \ {ReportArtifact(x)} ELSE lost
        /\ handlers' = [handlers EXCEPT ![h] = Idle]
        /\ UNCHANGED <<rows, receipts, briefs, reproductions>>

-----------------------------------------------------------------------------
(* Custody receipts                                                        *)

ReceiptInsert(r, receipt) ==
    receipts' = IF receipts[r] = None THEN [receipts EXCEPT ![r] = receipt] ELSE receipts

Verified(receipt) == receipt.artifacts \cap lost = {}

\* record_receipt: a fixture manifest, bound to a frozen execution or none.
Upload(r, x, artifacts) ==
    /\ artifacts # {} /\ artifacts \cap lost = {}
    /\ ReceiptInsert(r, [kind |-> "fixture", on |-> x, artifacts |-> artifacts, chain |-> None])
    /\ UNCHANGED <<rows, lost, reports, briefs, reproductions, handlers>>

\* _live_attempt_gates: provider usage and the pinned endpoint's identity.
LiveGates(a) == a.usage

\* _derive_manifest: every attempt of the chain, retried ones included, has a
\* completed evaluation and bound input, output and trace artifacts.
ManifestAccepted(x, chain) ==
    \A i \in DOMAIN chain :
        /\ chain[i].status \in Terminal
        /\ chain[i].evaluations = 1
        /\ ObservedOutput(chain[i])
        /\ x \in LiveExecutions => LiveGates(chain[i])

DerivedKind(x) == IF x \in LiveExecutions THEN "derived_local_live" ELSE "derived_fixture"

DeriveBegin(h, x, r) ==
    /\ handlers[h].op = "idle"
    /\ status[x] = "completed"
    /\ handlers' = [handlers EXCEPT ![h] =
          [op |-> "derive", on |-> x, with |-> r, saw |-> None]]
    /\ UNCHANGED <<rows, lost, records>>

DeriveRows(h) ==
    LET x == handlers[h].on
        chain == attempts[x]
    IN  /\ handlers[h].op = "derive"
        /\ handlers' = [handlers EXCEPT ![h] =
              IF ManifestAccepted(x, chain) /\ AttemptArtifacts(x, chain) \cap lost = {}
              THEN [@ EXCEPT !.op = "receipt", !.saw = chain] ELSE Idle]
        /\ UNCHANGED <<rows, lost, records>>

DeriveCommit(h) ==
    LET x == handlers[h].on
        chain == handlers[h].saw
    IN  /\ handlers[h].op = "receipt"
        /\ ReceiptInsert(handlers[h].with,
              [kind |-> DerivedKind(x), on |-> x, artifacts |-> AttemptArtifacts(x, chain),
               chain |-> chain])
        /\ handlers' = [handlers EXCEPT ![h] = Idle]
        /\ UNCHANGED <<rows, lost, reports, briefs, reproductions>>

\* create_reproduction: two distinct receipts, both verified afresh.
Reproduce(p, original, reproduced) ==
    /\ original # reproduced
    /\ receipts[original] # None /\ receipts[reproduced] # None
    /\ Verified(receipts[original]) /\ Verified(receipts[reproduced])
    /\ reproductions[p] = None
    /\ \A q \in ReproductionIds :
          reproductions[q] # [original |-> original, reproduced |-> reproduced]
    /\ reproductions' = [reproductions EXCEPT ![p] =
          [original |-> original, reproduced |-> reproduced]]
    /\ UNCHANGED <<rows, lost, reports, receipts, briefs, handlers>>

-----------------------------------------------------------------------------
(* Decision briefs                                                         *)

\* _receipt_maturity: no workflow admits more than local-live evidence.
ReceiptMaturity(receipt) ==
    IF receipt.kind = "derived_local_live" THEN "local_live" ELSE "fixture"

ReceiptHeldUnbound(x, receipt) == status[x] # "completed" \/ ~Verified(receipt)

\* _verify_receipt with _receipt_binding_error.
ReceiptHeld(x, receipt) ==
    \/ receipt.on # x
    \/ status[x] # "completed"
    \/ ~Verified(receipt)

Linked(request) == UNION {request.claims[c].links : c \in DOMAIN request.claims}

\* create up to the transaction: the report and every linked receipt exist.
BriefRead(h, x, request) ==
    LET links == Linked(request)
        refs == [r \in links |-> ReceiptMaturity(receipts[r])]
        held == {r \in links : ReceiptHeld(x, receipts[r])}
        brief == ApplyServiceHolds(Brief(request.claims, refs, reports[x].facts, request.risk),
                                   request.claims, held)
    IN  /\ handlers[h].op = "idle"
        /\ reports[x] # None
        /\ ReportArtifact(x) \notin lost
        /\ \A r \in links : receipts[r] # None
        /\ handlers' = [handlers EXCEPT ![h] =
              [op |-> "brief", on |-> x, with |-> request, saw |-> brief]]
        /\ UNCHANGED <<rows, lost, records>>

\* create_decision_brief.
BriefCommit(h) ==
    LET x == handlers[h].on
    IN  /\ handlers[h].op = "brief"
        /\ briefs' = IF briefs[x] = None
                     THEN [briefs EXCEPT ![x] =
                             [request |-> handlers[h].with, brief |-> handlers[h].saw]]
                     ELSE briefs
        /\ handlers' = [handlers EXCEPT ![h] = Idle]
        /\ UNCHANGED <<rows, lost, reports, receipts, reproductions>>

-----------------------------------------------------------------------------

\* A request fails, or its process dies, between two of its steps.
Abandon(h) ==
    /\ handlers[h].op # "idle"
    /\ handlers' = [handlers EXCEPT ![h] = Idle]
    /\ UNCHANGED <<rows, lost, records>>

Work(x) ==
    \/ \E i \in DOMAIN attempts[x] :
          \/ \E o \in Outcomes[x] : Capture(x, i, o)
          \/ Evaluate(x, i)
          \/ Retry(x, i)
          \/ attempts[x][i].status \in Terminal /\ Lose(Evidence(x, i))
    \/ reports[x] # None /\ Lose(ReportArtifact(x))

Handle(h) ==
    \/ \E x \in Executions :
          \/ AnalyzeBegin(h, x)
          \/ \E r \in RequestKeys : DeriveBegin(h, x, r)
          \/ \E request \in Requests : BriefRead(h, x, request)
    \/ AnalyzeRows(h) \/ AnalyzeCommit(h)
    \/ DeriveRows(h) \/ DeriveCommit(h)
    \/ BriefCommit(h)
    \/ Abandon(h)

Custody ==
    \/ \E r \in UploadIds, x \in Executions : \E i \in DOMAIN attempts[x] :
          /\ attempts[x][i].status \in Terminal
          /\ \E on \in {x, None} : Upload(r, on, {Evidence(x, i)})
    \/ \E p \in ReproductionIds, r, s \in ReceiptIds : Reproduce(p, r, s)

Next ==
    \/ \E x \in Executions : Work(x)
    \/ \E h \in Handlers : Handle(h)
    \/ Custody

Spec == Init /\ [][Next]_vars

-----------------------------------------------------------------------------
(* Properties                                                              *)

\* The tables hold rows of the shapes the services write.
TypeOK ==
    /\ status \in [Executions -> {"queued", "completed"}]
    /\ \A x \in Executions :
          /\ Len(attempts[x]) \in 1..MaxAttempts
          /\ \A i \in DOMAIN attempts[x] :
                /\ attempts[x][i].evaluations \in 0..1
                /\ attempts[x][i].prev \in 0..(i - 1)
          /\ briefs[x] # None => briefs[x].brief.verdict \in {"PASS", "HOLD", "REJECT"}
    /\ Cardinality(lost) <= MaxLost
    /\ \A h \in Handlers : handlers[h].op \in
          {"idle", "analyze", "report", "derive", "receipt", "brief"}

\* What an attempt ended with, whether or not its evaluation has run yet.
Ended(a) == [a EXCEPT !.evaluations = 0]

\* A stored report describes attempts that really ended that way: its chain is
\* a prefix of the episode, each link the evidence of the attempt before it,
\* whatever retries ran between the reads and the insert (analysis.py _episode).
\* Only the last attempt need be evaluated: the evaluation of a retried one may
\* still be queued when the report is built.
ReportMatchesEvidence ==
    \A x \in Executions : reports[x] # None =>
        LET chain == reports[x].chain
        IN  /\ Len(chain) <= Len(attempts[x])
            /\ \A i \in DOMAIN chain : Ended(chain[i]) = Ended(attempts[x][i])
            /\ chain[Len(chain)] = attempts[x][Len(chain)]
            /\ chain[Len(chain)].evaluations = 1
            /\ \A i \in DOMAIN chain : i > 1 => chain[i - 1].transient /\ chain[i].prev = i - 1

\* A supported claim of a published brief rests on a stored receipt of the very
\* execution it speaks about, carrying exactly the maturity its kind requires;
\* one foreign or unverified link holds every claim (decision.py, claims.py).
ClaimsAreBacked ==
    \A x \in Executions : briefs[x] # None =>
        LET claims == briefs[x].request.claims
        IN  \A c \in DOMAIN claims : briefs[x].brief.entries[c] = "SUPPORTED" =>
                /\ \A r \in Linked(briefs[x].request) : receipts[r].on = x
                /\ \E r \in claims[c].links :
                      ReceiptMaturity(receipts[r]) = RequiredMaturity(claims[c].kind)

\* No brief reaches beyond a local live observation, and reaches that only for
\* a live execution all of whose analysed attempts reported provider usage.
CeilingIsAttainable ==
    \A x \in Executions : briefs[x] # None =>
        /\ Rank(briefs[x].brief.ceiling) <= Rank("local_live_only")
        /\ briefs[x].brief.ceiling = "local_live_only" =>
              /\ x \in LiveExecutions
              /\ \A i \in DOMAIN reports[x].chain : LiveGates(reports[x].chain[i])

\* What a reader of a published brief may rely on (decision.py, claims.py): each
\* supported claim and the claim ceiling follow from stored evidence, although
\* retries and lost artifacts overtake the reads the brief was built from.
BriefIsBacked == TypeOK /\ ClaimsAreBacked /\ CeilingIsAttainable

\* A row once written never changes or disappears, however many requests built
\* different content for it from different reads.
Kept(table, later) == \A k \in DOMAIN table : table[k] = None \/ later[k] = table[k]

WriteOnce ==
    [][/\ Kept(reports, reports') /\ Kept(receipts, receipts')
       /\ Kept(briefs, briefs') /\ Kept(reproductions, reproductions')]_vars

=============================================================================
