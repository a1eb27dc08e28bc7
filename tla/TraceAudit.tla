---------------------------- MODULE TraceAudit ----------------------------
(***************************************************************************)
(* The offline audit of saved runs (audit/trace_audit, scripts/            *)
(* trace-audit): every record raises findings about its winner, its        *)
(* results, their metrics, evaluations and notes; findings with the same   *)
(* run, scaffold, type and regression key become one, per record and again *)
(* over all records. The audit is a pure function of the records it loads, *)
(* so a behaviour is one report.                                           *)
(*                                                                         *)
(* Scores are in tenths of a point. A text is the set of phrases it is     *)
(* searched for; the evidence of a finding is the sequence of the causes   *)
(* it quotes. Recommendations, suggested fixtures and the layout of the    *)
(* Markdown report are left out.                                           *)
(***************************************************************************)
EXTENDS Integers, Sequences, FiniteSets, SequencesExt

CONSTANTS
    TraceFiles,   \* inputs: sequences of [shape, records]
    SlugOf,       \* the slug of each task id
    Position,     \* the place of each run and scaffold id in alphabetical order
    NoAudit       \* an absent field

\* A record of a run: a run id, the id of its winner or none, and an id for each
\* of its results.
RunRecord(r) ==
    /\ r # NoAudit /\ r.run \in DOMAIN Position /\ r.winner \in DOMAIN Position \union {NoAudit}
    /\ r.results \in Seq(ToSet(r.results))
    /\ \A i \in DOMAIN r.results : r.results[i].scaffold \in DOMAIN Position

\* A file holds a list; an entry of a list of runs may be no run, but every run
\* has its ids. Ids are comparable.
ASSUME AuditAssumption ==
    /\ Position \in [DOMAIN Position -> Nat]
    /\ \A files \in TraceFiles :
        /\ files \in Seq(ToSet(files))
        /\ \A i \in DOMAIN files :
            LET records == files[i].records
            IN  /\ records \in Seq(ToSet(records))
                /\ \A n \in DOMAIN records : RunRecord(records[n]) \/ (records[n] = NoAudit /\ files[i].shape # "run")

VARIABLES
    inputs,       \* the files named on the command line
    audit         \* the report, NoAudit before it is built

auditVars == <<inputs, audit>>

AuditInit == inputs \in TraceFiles /\ audit = NoAudit

SeverityRank == [critical |-> 5, high |-> 4, medium |-> 3, low |-> 2, info |-> 1]

\* The task metrics, in the order they are looked at, and the finding each raises
\* below the threshold.
TaskMetricFindings ==
    << <<"schema_validity", "schema_validity_low">>, <<"field_accuracy", "extraction_wrong_values">>,
       <<"must_flag_hit_rate", "risk_missed_must_flag">>, <<"risk_level_accuracy", "risk_level_mismatch">>,
       <<"false_positive_rate", "risk_false_positives_high">>,
       <<"citation_coverage", "research_missing_citations">>,
       <<"required_findings_coverage", "research_missing_required_findings">>,
       <<"word_count_compliance", "research_word_count_noncompliance">>,
       <<"tool_selection_accuracy", "tool_selection_gap">>,
       <<"forbidden_tool_avoidance", "scaffold_overreach">>,
       <<"recovery_step_coverage", "tool_recovery_gap">>,
       <<"privacy_boundary_compliance", "privacy_boundary_violation">>,
       <<"data_minimization_coverage", "data_minimization_gap">>,
       <<"required_section_coverage", "strategy_missing_sections">>,
       <<"required_term_coverage", "strategy_required_terms_missing">>,
       <<"unsupported_claim_avoidance", "unsupported_claims">> >>

\* A finding under construction: where it was raised is added by Located.
Raise(type, severity, cause, score) == [type |-> type, severity |-> severity, cause |-> cause, score |-> score]
Flag(type, severity) == Raise(type, severity, <<type, NoAudit>>, NoAudit)

\* One finding when the condition holds, none otherwise.
When(condition, finding) == IF condition THEN <<finding>> ELSE <<>>

RegressionTask(task) == IF task = NoAudit THEN "unknown_task" ELSE SlugOf[task]

Located(record, scaffold, raised) ==
    [i \in DOMAIN raised |->
        [run |-> record.run, task |-> record.task, scaffold |-> scaffold, type |-> raised[i].type,
         severity |-> raised[i].severity, evidence |-> <<raised[i].cause>>, score |-> raised[i].score,
         key |-> <<record.run, scaffold, raised[i].type, RegressionTask(record.task)>>]]

-----------------------------------------------------------------------------
(* One scaffold result. *)

AuditMetrics(metrics) ==
    IF metrics = NoAudit THEN <<Flag("missing_metrics", "medium")>>
    ELSE When(metrics.tokens > 0 /\ (metrics.cost = NoAudit \/ metrics.cost <= 0),
              Flag("zero_cost_with_token_usage", "high"))
         \o When(metrics.calls > 0 /\ metrics.tokens <= 0, Flag("missing_token_usage", "high"))

AuditEvidenceTrail(result) == When(~result.evidence, Flag("weak_evidence_trail", "medium"))

MetricFailureSeverity(metric, value) ==
    IF metric = "privacy_boundary_compliance" /\ value < 1000 THEN "critical"
    ELSE IF value < 250 THEN "critical" ELSE "high"

AuditMetricBreakdown(breakdown) ==
    FlattenSeq([i \in DOMAIN TaskMetricFindings |->
        LET m     == TaskMetricFindings[i][1]
            value == breakdown[m]
        IN  When(m \in DOMAIN breakdown /\ value < 700,
                 Raise(TaskMetricFindings[i][2], MetricFailureSeverity(m, value), <<m, value>>, value))])

\* What the joined notes of an evaluation mention.
AuditNotes(notes) ==
    LET note(type, severity) == Raise(type, severity, <<"notes", notes>>, NoAudit)
        any(phrases) == phrases \intersect notes # {}
    IN  When("missing required" \in notes, note("schema_missing_required_fields", "high"))
        \o When("citation" \in notes /\ any({"missing", "no "}), note("research_missing_citations", "high"))
        \o When(any({"unsupported", "unsubstantiated", "not grounded"}), note("unsupported_claims", "high"))
        \o When("forbidden data" \in notes \/ {"privacy", "violation"} \subseteq notes,
                note("privacy_boundary_violation", "critical"))
        \o When(any({"unavailable tool", "forbidden tool", "invented tool", "overreach"}),
                note("scaffold_overreach", "high"))

ScoreSeverity(score) == IF score < 300 THEN "critical" ELSE IF score < 500 THEN "high" ELSE "medium"

AuditScore(evaluation, won) ==
    LET score == evaluation.score
        best  == evaluation.previousBest
    IN  IF score = NoAudit THEN <<Flag("missing_total_score", "medium")>>
        ELSE When(score < 700, Raise("low_total_score", ScoreSeverity(score), <<"score", score>>, score))
             \o When(score < 700 /\ ~won, Raise("patch_rerun_candidate", "medium", <<"score", score>>, score))
             \o When(best # NoAudit /\ best - score > 1,
                     Raise("regression_from_previous_best", "high", <<"best", score, best>>, score))

AuditEvaluation(evaluation, won) ==
    AuditScore(evaluation, won) \o AuditMetricBreakdown(evaluation.breakdown) \o AuditNotes(evaluation.notes)

AuditScaffoldResult(result, won) ==
    IF ~result.shaped THEN <<Flag("invalid_result_shape", "critical")>>
    ELSE When(result.error, Flag("scaffold_provider_error", "high"))
         \o When(~result.output /\ ~result.error, Flag("missing_output", "high"))
         \o When(result.output /\ result.evaluation = NoAudit, Flag("missing_evaluation", "high"))
         \o AuditMetrics(result.metrics)
         \o AuditEvidenceTrail(result)
         \o (IF result.evaluation = NoAudit THEN <<>> ELSE AuditEvaluation(result.evaluation, won))

-----------------------------------------------------------------------------
(* Merging and sorting. *)

JoinUnique(first, second) == IF first = second THEN first ELSE first \o second

\* Mutant: the first finding of a key keeps its severity.
FirstWith(existing, finding) ==
    [existing EXCEPT !.evidence = JoinUnique(existing.evidence, finding.evidence)]

\* The more severe of two findings, the earlier of equals, with the evidence of
\* both.
MergedWith(existing, finding) ==
    LET primary == IF SeverityRank[finding.severity] > SeverityRank[existing.severity] THEN finding ELSE existing
    IN  [primary EXCEPT !.evidence = JoinUnique(existing.evidence, finding.evidence),
                        !.score = IF primary.score # NoAudit THEN primary.score ELSE existing.score]

\* merged[key] = ..., in a dict that keeps the place of a key assigned before.
MergeInto(merged, f) ==
    LET same == {i \in DOMAIN merged : merged[i].key = f.key}
    IN  IF same = {} THEN Append(merged, f)
        ELSE [i \in DOMAIN merged |-> IF i \in same THEN MergedWith(merged[i], f) ELSE merged[i]]

MergeDuplicateFindings(findings) ==
    LET merged[n \in 0 .. Len(findings)] ==
            IF n = 0 THEN <<>> ELSE MergeInto(merged[n - 1], findings[n])
    IN  merged[Len(findings)]

FindingTypes ==    \* in alphabetical order
    <<"data_minimization_gap", "extraction_wrong_values", "invalid_result_shape", "low_total_score",
      "missing_evaluation", "missing_metrics", "missing_output", "missing_token_usage", "missing_total_score",
      "missing_winner", "no_scaffold_results", "patch_rerun_candidate", "privacy_boundary_violation",
      "regression_from_previous_best", "research_missing_citations", "research_missing_required_findings",
      "research_word_count_noncompliance", "risk_false_positives_high", "risk_level_mismatch",
      "risk_missed_must_flag", "scaffold_overreach", "scaffold_provider_error", "schema_missing_required_fields",
      "schema_validity_low", "strategy_missing_sections", "strategy_required_terms_missing",
      "tool_recovery_gap", "tool_selection_gap", "unsupported_claims", "weak_evidence_trail",
      "winner_missing_result", "winner_not_highest_score", "zero_cost_with_token_usage">>

\* Findings are shown by severity, run, scaffold (none first) and type.
SortKey(f) ==
    <<-SeverityRank[f.severity], Position[f.run], IF f.scaffold = NoAudit THEN 0 ELSE Position[f.scaffold],
      CHOOSE n \in DOMAIN FindingTypes : FindingTypes[n] = f.type>>

Before(a, b) == \E n \in 1 .. 4 : a[n] < b[n] /\ \A m \in 1 .. (n - 1) : a[m] = b[m]

\* The sort is stable.
InOrder(keys, j, i) == Before(keys[j], keys[i]) \/ (j <= i /\ ~Before(keys[i], keys[j]))

SortFindings(findings) ==
    LET merged   == MergeDuplicateFindings(findings)
        keys     == [i \in DOMAIN merged |-> SortKey(merged[i])]
        place(i) == Cardinality({j \in DOMAIN merged : InOrder(keys, j, i)})
    IN  [n \in DOMAIN merged |-> merged[CHOOSE i \in DOMAIN merged : place(i) = n]]

-----------------------------------------------------------------------------
(* A run record, and all of them. *)

ResultScore(result) == IF result.shaped /\ result.evaluation # NoAudit THEN result.evaluation.score ELSE NoAudit

\* The scaffold with the highest score, the first of equals.
BestScored(results, scored) ==
    CHOOSE i \in scored : \A j \in scored :
        /\ ResultScore(results[j].result) <= ResultScore(results[i].result)
        /\ j < i => ResultScore(results[j].result) < ResultScore(results[i].result)

AuditWinner(record) ==
    LET results == record.results
        scored  == {i \in DOMAIN results : ResultScore(results[i].result) # NoAudit}
        won     == {i \in DOMAIN results : results[i].scaffold = record.winner}
    IN  IF record.status = "completed" /\ scored # {} /\ record.winner = NoAudit
        THEN Located(record, NoAudit, <<Flag("missing_winner", "high")>>)
        ELSE IF record.winner # NoAudit /\ won = {}
        THEN Located(record, record.winner, <<Flag("winner_missing_result", "high")>>)
        ELSE IF won \subseteq scored /\ won # {}
        THEN LET best == BestScored(results, scored)
                 own  == ResultScore(results[CHOOSE i \in won : TRUE].result)
                 top  == ResultScore(results[best].result)
             IN  Located(record, record.winner,
                         When(best \notin won /\ top - own > 1,
                              Raise("winner_not_highest_score", "high", <<"winner", own, top>>, own)))
        ELSE <<>>

RaisedBy(record) ==
    IF record.results = <<>> THEN Located(record, NoAudit, <<Flag("no_scaffold_results", "critical")>>)
    ELSE FlattenSeq(<<AuditWinner(record)>> \o
            [i \in DOMAIN record.results |->
                LET own == record.results[i]
                IN  Located(record, own.scaffold, AuditScaffoldResult(own.result, own.scaffold = record.winner))])

AuditRunRecord(record) == SortFindings(RaisedBy(record))

AuditRecords(records) ==
    LET findings == SortFindings(FlattenSeq([i \in DOMAIN records |-> AuditRunRecord(records[i])]))
        shown    == DOMAIN findings
    IN  [runs       |-> Len(records),
         scaffolds  |-> Cardinality(UNION {{i} \X DOMAIN records[i].results : i \in DOMAIN records}),
         findings   |-> findings,
         severities |-> [s \in DOMAIN SeverityRank |-> Cardinality({i \in shown : findings[i].severity = s})],
         taxonomy   |-> [t \in {findings[i].type : i \in shown} |-> Cardinality({i \in shown : findings[i].type = t})]]

-----------------------------------------------------------------------------
\* load_trace_records: a run, a list of runs or an object with a list of runs,
\* every one of them an object.
Loadable(file) ==
    \/ file.shape \in {"list", "runs"} /\ \A i \in DOMAIN file.records : file.records[i] # NoAudit
    \/ file.shape = "run"

LoadedRecords(files) == FlattenSeq([i \in DOMAIN files |-> files[i].records])

\* scripts/trace-audit: one file that cannot be loaded ends the audit.
RunAudit ==
    /\ audit = NoAudit
    /\ audit' = IF \E i \in DOMAIN inputs : ~Loadable(inputs[i]) THEN [refused |-> TRUE, report |-> NoAudit]
                ELSE [refused |-> FALSE, report |-> AuditRecords(LoadedRecords(inputs))]
    /\ UNCHANGED inputs

AuditNext == RunAudit

AuditSpec == AuditInit /\ [][AuditNext]_auditVars

-----------------------------------------------------------------------------
AllCounted(counts) == FoldSet(LAMBDA x, n : counts[x] + n, 0, DOMAIN counts)

\* What a reader of the report relies on (trace_audit 698, 711), although
\* findings are merged once per record and once more over all of them: each
\* finding raised by any record appears exactly once, as severe as the most
\* severe of those it stands for and with the evidence of every one of them;
\* none is invented; and the summary counts add up to the list.
AuditIsComplete ==
    audit # NoAudit /\ ~audit.refused =>
        LET records == LoadedRecords(inputs)
            raised  == UNION {ToSet(RaisedBy(records[i])) : i \in DOMAIN records}
            shown   == audit.report.findings
            merged(f) == {g \in raised : g.key = f.key}
        IN  /\ {shown[i].key : i \in DOMAIN shown} = {f.key : f \in raised}
            /\ \A i, j \in DOMAIN shown : i < j =>
                 /\ shown[i].key # shown[j].key
                 /\ SeverityRank[shown[i].severity] >= SeverityRank[shown[j].severity]
            /\ \A i \in DOMAIN shown :
                 /\ \A f \in merged(shown[i]) : SeverityRank[f.severity] <= SeverityRank[shown[i].severity]
                 /\ \E f \in merged(shown[i]) : f.severity = shown[i].severity
                 /\ ToSet(shown[i].evidence) = UNION {ToSet(f.evidence) : f \in merged(shown[i])}
            /\ AllCounted(audit.report.severities) = Len(shown) /\ AllCounted(audit.report.taxonomy) = Len(shown)
=============================================================================
