------------------------------ MODULE ReplayCI ------------------------------
(***************************************************************************)
(* Counterfactual replay and Harness CI (services_v1/counterfactual,       *)
(* replay_v1/models): a replay report computed from recorded paired        *)
(* outcomes, and the gate that judges a change of source by such a report. *)
(* Scores, costs and latencies are integers; -1 is unknown; a mean is kept *)
(* as its sum over the pairs. A source change is the set of mechanism      *)
(* classes its changed lines mention.                                      *)
(***************************************************************************)
EXTENDS Integers, Sequences, FiniteSets

CONSTANTS
    ReplayRequests,     \* replay contracts that may be submitted
    Policies,           \* CI policies
    SourceChanges,      \* sets of mechanism classes a diff may mention
    Gates,              \* clients
    MaxReports          \* bound: no request is accepted past this many reports of its kind

VARIABLES
    replays,    \* counterfactual_replays: requests reported
    gates,      \* harness_ci_reports: [request, report]
    gate        \* client -> the request under way

Unknown == -1

\* ReplayOutcome and HarnessCIPolicy: the values a recorded branch and a policy carry.
ASSUME ReplayAssumption ==
    /\ \A r \in ReplayRequests :
        /\ Len(r.pairs) \in Nat /\ DOMAIN r.pairs = 1 .. Len(r.pairs)
        /\ \A i \in DOMAIN r.pairs : \A b \in {r.pairs[i].base, r.pairs[i].candidate} :
            /\ b.quality \in Nat /\ b.fidelity \in Nat \cup {Unknown}
            /\ b.cost \in Nat \cup {Unknown} /\ b.latency \in Nat \cup {Unknown}
            /\ b.safety \in {"pass", "fail", "unknown"}
    /\ \A policy \in Policies : policy.ratio \in Nat /\ policy.regression \in Nat /\ policy.fidelity \in Nat
                               /\ policy.repetitions \in Nat

replayVars == <<replays, gates, gate>>

NoGate == [kind |-> "idle"]

ReplayInit ==
    /\ replays = {} /\ gates = {}
    /\ gate = [g \in Gates |-> NoGate]

Branches(r) == {r.pairs[i].base : i \in DOMAIN r.pairs} \union {r.pairs[i].candidate : i \in DOMAIN r.pairs}

\* The bound contract: the diff names the one intervention, and the replayed
\* items are development items, never holdout ones.
ValidContract(r) ==
    /\ r.diff = {r.mechanism}
    /\ r.items \subseteq r.development /\ r.items \cap r.holdout = {}

\* CounterfactualReplayRequest: repetitions are the planned ones, live work is
\* authorized, and a fixture observes no usage.
ValidReplay(r) ==
    /\ ValidContract(r)
    /\ \A i \in DOMAIN r.pairs :
        /\ r.pairs[i].item \in r.items
        /\ r.pairs[i].base # r.pairs[i].candidate
        /\ \A j \in DOMAIN r.pairs : r.pairs[i].repetition = r.pairs[j].repetition => i = j
    /\ Len(r.pairs) \in 1 .. r.planned
    /\ r.authorized = (r.mode = "live")
    /\ r.mode = "fixture" => \A b \in Branches(r) : b.cost = Unknown

-----------------------------------------------------------------------------
(* The replay report. *)

\* math.fsum, kept exact.
SumOf(values) ==
    LET sum[n \in 0 .. Len(values)] == IF n = 0 THEN 0 ELSE sum[n - 1] + values[n]
    IN  sum[Len(values)]

\* _estimate, of the values of both branches: unknown as soon as one is.
Estimate(r, field) ==
    LET base      == SumOf([i \in DOMAIN r.pairs |-> r.pairs[i].base[field]])
        candidate == SumOf([i \in DOMAIN r.pairs |-> r.pairs[i].candidate[field]])
    IN  IF \E b \in Branches(r) : b[field] = Unknown THEN [known |-> FALSE, base |-> 0, delta |-> 0]
        ELSE [known |-> TRUE, base |-> base, delta |-> candidate - base]

Lowest(S) == CHOOSE x \in S : \A y \in S : x <= y

\* _fidelity: the least of all branches, unknown as soon as one is.
Fidelity(r) ==
    LET levels == {b.fidelity : b \in Branches(r)}
    IN  IF Unknown \in levels THEN Unknown ELSE Lowest(levels)

\* _maturity: 3 paired replay, 4 replicated intervention, 5 confirmatory eligibility.
Maturity(r) ==
    LET repeated == Len(r.pairs) >= 2 /\ Len(r.pairs) >= r.planned
    IN  IF repeated THEN (IF r.holdoutDeclared THEN 5 ELSE 4) ELSE 3

NewSevere(r) ==
    (UNION {r.pairs[i].candidate.severe : i \in DOMAIN r.pairs}) \ (UNION {r.pairs[i].base.severe : i \in DOMAIN r.pairs})

Worst(states) == IF "fail" \in states THEN "fail" ELSE IF "unknown" \in states THEN "unknown" ELSE "pass"

\* CounterfactualReplayService._raw; fidelity 5 is "applied".
ReplayReport(r) ==
    LET report == [request |-> r, mode |-> r.mode, mechanism |-> r.mechanism, pairs |-> Len(r.pairs),
                   quality |-> Estimate(r, "quality"), cost |-> Estimate(r, "cost"),
                   latency |-> Estimate(r, "latency"),
                   usage |-> \A b \in Branches(r) : b.cost # Unknown,
                   fidelity |-> Fidelity(r), maturity |-> Maturity(r), severe |-> NewSevere(r),
                   safety |-> Worst({b.safety : b \in Branches(r)})]
    IN  [report |-> report,
         verdict |-> CASE r.mode = "live" -> "HOLD"
                       [] r.mode # "live" /\ (report.severe # {} \/ report.safety = "fail") -> "FAIL"
                       [] OTHER -> IF \/ ~report.usage \/ report.fidelity < 5 \/ report.safety = "unknown"
                                      \/ Len(r.pairs) < r.planned
                                   THEN "HOLD" ELSE "PASS"]

-----------------------------------------------------------------------------
(* The gate. *)

\* semantic_code_to_mechanisms
Affected(changes) == UNION changes

\* Mutant: a free base has no ceiling.
ExceedsUnlessFree(estimate, ratio) == estimate.base # 0 /\ 4 * estimate.delta > ratio * estimate.base

\* More than the ratio, in quarters, of a base that may be zero.
Exceeds(estimate, ratio) ==
    IF estimate.base = 0 THEN estimate.delta > 0 ELSE 4 * estimate.delta > ratio * estimate.base

\* HarnessCIService._checks: check -> verdict.
Checks(report, q) ==
    LET policy   == q.policy
        affected == Affected(q.changes)
        unknown  == IF policy.failUnknown THEN "FAIL" ELSE "HOLD"
        hold(b)  == IF b THEN "HOLD" ELSE "PASS"
        fail(b)  == IF b THEN "FAIL" ELSE "PASS"
    IN  [single_mechanism     |-> IF Cardinality(affected) > 1 THEN "FAIL" ELSE hold(affected # {report.mechanism}),
         new_severe_failures  |-> IF policy.failSevere THEN fail(report.severe # {}) ELSE hold(report.severe # {}),
         quality_regression   |-> fail(report.quality.delta < 0 - policy.regression * report.pairs),
         cost_ceiling         |-> IF report.cost.known THEN fail(Exceeds(report.cost, policy.ratio)) ELSE unknown,
         latency_ceiling      |-> IF report.latency.known THEN fail(Exceeds(report.latency, policy.ratio)) ELSE "HOLD",
         required_cohorts     |-> hold(policy.holdout),
         evidence_maturity    |-> hold(report.maturity < policy.maturity \/ (report.mode = "fixture" /\ ~policy.fixtures)),
         statistical_adequacy |-> hold(report.pairs < policy.repetitions \/ report.pairs < 2),
         fidelity             |-> hold(report.fidelity < policy.fidelity),
         process_safety       |-> CASE ~policy.safety -> "PASS"
                                    [] policy.safety /\ report.safety = "fail" -> "FAIL"
                                    [] OTHER -> hold(report.safety = "unknown")]

Verdict(checks) ==
    LET verdicts == {checks[k] : k \in DOMAIN checks}
    IN  IF "FAIL" \in verdicts THEN "FAIL" ELSE IF "HOLD" \in verdicts THEN "HOLD" ELSE "PASS"

\* HarnessCIService._raw: the report does not name the request it answers.
GateReport(q) ==
    LET replay == ReplayReport(q.replay).report
        checks == Checks(replay, q)
    IN  [replay |-> q.replay, checks |-> checks, verdict |-> Verdict(checks), affected |-> Affected(q.changes)]

-----------------------------------------------------------------------------

CreateReplay(g, r) ==
    /\ Cardinality(replays) < MaxReports
    /\ gate[g] = NoGate /\ ValidReplay(r)
    /\ gate' = [gate EXCEPT ![g] = [kind |-> "replay", item |-> r]]
    /\ UNCHANGED <<replays, gates>>

CommitReplay(g) ==
    /\ gate[g].kind = "replay"
    /\ replays' = replays \union {gate[g].item}
    /\ gate' = [gate EXCEPT ![g] = NoGate]
    /\ UNCHANGED gates

\* _raw_for_report: a report of the project, read back under its own digest.
StoredReplay(r) == r \in replays

\* Only a stored report is judged.
CreateGate(g, r, policy, changes) ==
    /\ Cardinality(gates) < MaxReports
    /\ gate[g] = NoGate /\ StoredReplay(r)
    /\ gate' = [gate EXCEPT ![g] = [kind |-> "gate", item |-> [replay |-> r, policy |-> policy, changes |-> changes]]]
    /\ UNCHANGED <<replays, gates>>

\* A request is answered once; a report that another request already has
\* violates uq_harness_ci_project_report, and the request fails.
CommitGate(g) ==
    LET q      == gate[g].item
        report == GateReport(q)
    IN
    /\ gate[g].kind = "gate"
    /\ gates' = IF \E row \in gates : row.request = q \/ row.report = report THEN gates
                ELSE gates \union {[request |-> q, report |-> report]}
    /\ gate' = [gate EXCEPT ![g] = NoGate]
    /\ UNCHANGED replays

AbandonGate(g) ==
    /\ gate[g] # NoGate
    /\ gate' = [gate EXCEPT ![g] = NoGate]
    /\ UNCHANGED <<replays, gates>>

ReplayNext ==
    \E g \in Gates :
        \/ \E r \in ReplayRequests : CreateReplay(g, r)
        \/ \E r \in ReplayRequests, policy \in Policies, changes \in SourceChanges : CreateGate(g, r, policy, changes)
        \/ CommitReplay(g) \/ CommitGate(g) \/ AbandonGate(g)

ReplaySpec == ReplayInit /\ [][ReplayNext]_replayVars

-----------------------------------------------------------------------------
\* A PASS is earned by the recorded pairs (services_v1/counterfactual 154, 305):
\* read off the pairs themselves, the candidate has no severe failure the base
\* lacks, no unknown cost, costs and takes at most the ceiling more even when
\* the base is free, loses at most the ceiling in quality, every branch
\* reached the required fidelity, and the source touches the intervention only.
PassIsEarned ==
    \A row \in gates : row.report.verdict = "PASS" =>
        LET r      == row.request.replay
            policy == row.request.policy
            gain(i) == r.pairs[i].candidate.quality - r.pairs[i].base.quality
            excess(i, field) == 4 * r.pairs[i].candidate[field] - (4 + policy.ratio) * r.pairs[i].base[field]
        IN
        /\ r \in replays /\ Len(r.pairs) >= policy.repetitions
        /\ SumOf([i \in DOMAIN r.pairs |-> gain(i) + policy.regression]) >= 0
        /\ \A field \in {"cost", "latency"} : SumOf([i \in DOMAIN r.pairs |-> excess(i, field)]) <= 0
        /\ \A i \in DOMAIN r.pairs : \A x \in r.pairs[i].candidate.severe :
            \E j \in DOMAIN r.pairs : x \in r.pairs[j].base.severe
        /\ \A b \in Branches(r) : b.cost >= 0 /\ b.fidelity >= policy.fidelity /\ (policy.safety => b.safety = "pass")
        /\ UNION row.request.changes = {r.mechanism}
=============================================================================
