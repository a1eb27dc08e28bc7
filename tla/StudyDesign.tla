---------------------------- MODULE StudyDesign ----------------------------
(***************************************************************************)
(* What a study pack and an experiment definition say, and the pure        *)
(* computations the registry and the execution controller make on them:    *)
(* the treatment arms of a design, the matrix of attempts, the readiness   *)
(* of a pack and the blockers of a preflight.                              *)
(*   spec   an ExperimentSpec: design, factors (by id: levels, baseline,   *)
(*          incompatible ids, forbidden level combinations), custom        *)
(*          assignments, scenarios, harnesses, endpoints, repetitions,     *)
(*          budgets, checks, claim, outcomes                               *)
(*   pack   a StudyPack: scenarios and harnesses by id                     *)
(* Weights are in hundredths, identifiers are strings.                     *)
(***************************************************************************)
EXTENDS Integers, FiniteSets, Sequences, FiniteSetsExt

CONSTANT Adapters   \* adapters the deployment trusts and has installed

\* A factor off its baseline meets no incompatible factor off its baseline and
\* none of its forbidden combinations of levels.
ValidAssignment(assignment, factors) ==
    \A f \in DOMAIN factors :
        assignment[f] # factors[f].baseline =>
            /\ \A g \in factors[f].incompatible : assignment[g] = factors[g].baseline
            /\ \A levels \in factors[f].forbidden :
                   \E g \in DOMAIN levels : assignment[g] # levels[g]

AllAssignments(factors) ==
    {a \in [DOMAIN factors -> UNION {factors[f].levels : f \in DOMAIN factors}] :
        \A f \in DOMAIN factors : a[f] \in factors[f].levels}

AtBaseline(assignment, factors) ==
    Cardinality({f \in DOMAIN factors : assignment[f] = factors[f].baseline})

\* Defining relation I=AB...: the half of the assignments with even parity.
HalfFraction(factors) ==
    {a \in AllAssignments(factors) : AtBaseline(a, factors) % 2 = 0}

DesignAccepted(spec) ==
    CASE spec.design = "fractional" ->
            /\ Cardinality(DOMAIN spec.factors) >= 2
            /\ \A f \in DOMAIN spec.factors : Cardinality(spec.factors[f].levels) = 2
      [] spec.design = "custom" ->
            \* every treatment assigns every factor a declared level, once
            /\ \A i \in DOMAIN spec.custom :
                   spec.custom[i] \in AllAssignments(spec.factors)
            /\ \A i, j \in DOMAIN spec.custom :
                   /\ i # j
                   /\ ValidAssignment(spec.custom[i], spec.factors)
                   => spec.custom[i] # spec.custom[j]
      [] OTHER -> TRUE

Candidates(spec) ==
    CASE spec.design = "custom" -> {spec.custom[i] : i \in DOMAIN spec.custom}
      [] spec.design = "fractional" -> HalfFraction(spec.factors)
      [] OTHER -> AllAssignments(spec.factors)

\* The treatment arms; none when the design cannot be expanded.
ExpandDesign(spec) ==
    {a \in Candidates(spec) : DesignAccepted(spec) /\ ValidAssignment(a, spec.factors)}

\* An experiment without pinned endpoints runs on the recorded one.
EndpointValues(spec) == IF spec.endpoints = {} THEN {"recorded"} ELSE spec.endpoints

\* One unit, and so one attempt and one job, for every cell of the product.
Matrix(spec) ==
    [scenario : spec.scenarios, harness : spec.harnesses, endpoint : EndpointValues(spec),
     treatment : ExpandDesign(spec), repetition : 1..spec.repetitions]

ExpectedAttemptsBareEndpoints(spec) ==
    Cardinality(ExpandDesign(spec)) * Cardinality(spec.scenarios)
        * Cardinality(spec.harnesses) * Cardinality(spec.endpoints) * spec.repetitions

\* The registry's own count of the attempts an execution would create.
ExpectedAttempts(spec) ==
    Cardinality(ExpandDesign(spec)) * Cardinality(spec.scenarios)
        * Cardinality(spec.harnesses) * Max({Cardinality(spec.endpoints), 1})
        * spec.repetitions

-----------------------------------------------------------------------------
Families(pack) == {pack.scenarios[s].family : s \in DOMAIN pack.scenarios}

OfFamily(pack, family) ==
    {s \in DOMAIN pack.scenarios : pack.scenarios[s].family = family}

\* assess_study_pack_readiness: the pack-level issues.
ReadinessIssues(pack, claim) ==
    UNION {
        {"deterministic-weight" : s \in {t \in OfFamily(pack, family) :
                                            pack.scenarios[t].weight < 70}}
        \cup {role \in {"positive", "negative", "anti_cheat"} :
                \A s \in OfFamily(pack, family) : pack.scenarios[s].role # role}
        : family \in Families(pack)}
    \cup {"scenario-reference-gap" : s \in {t \in DOMAIN pack.scenarios :
                                              claim /\ ~pack.scenarios[t].complete}}

BudgetBlockers(spec) ==
    {b \in {"per_attempt_budget_required"} : spec.budget = 0}
    \cup {b \in {"aggregate_attempts_insufficient"} :
            spec.aggregate.attempts < ExpectedAttempts(spec)}
    \cup {b \in {"aggregate_cost_insufficient"} :
            spec.aggregate.cost < ExpectedAttempts(spec) * spec.budget}

HarnessBlockers(spec, harness) ==
    {b \in {"fixture_harness_claim_ineligible"} :
            spec.claim /\ harness.eligibility = "fixture_only"}
    \cup {b \in {"harness_isolation_ineligible"} :
            spec.claim /\ harness.tools /\ ~harness.isolated}
    \cup {b \in {"trusted_adapter_missing"} : harness.adapter \notin Adapters}

\* Every varied factor, and every check a chosen scenario requires, has a
\* declared manipulation check.
ManipulationChecked(spec, pack) ==
    DOMAIN spec.factors \cup UNION {pack.scenarios[s].checks : s \in spec.scenarios}
        \subseteq spec.checks

FixtureOnly(spec, pack) ==
    \A h \in spec.harnesses : pack.harnesses[h].eligibility = "fixture_only"

\* preflight's blockers, apart from "experiment_not_frozen".
Blockers(spec, pack) ==
    ReadinessIssues(pack, spec.claim)
    \cup {b \in {"design_invalid"} : ExpandDesign(spec) = {}}
    \cup BudgetBlockers(spec)
    \cup UNION {HarnessBlockers(spec, pack.harnesses[h]) : h \in spec.harnesses}
    \cup {b \in {"manipulation_checks_missing"} : ~ManipulationChecked(spec, pack)}
    \cup {b \in {"primary_outcomes_required"} : spec.claim /\ spec.outcomes = {}}
    \cup {b \in {"endpoint_pins_required"} :
            spec.claim /\ (spec.endpoints = {} \/ ~spec.pinned)}
    \cup {b \in {"exploration_claim_ceiling"} : ~spec.claim /\ ~FixtureOnly(spec, pack)}

\* The identifiers a definition uses are the pack's.
WithinPack(spec, pack) ==
    /\ spec.scenarios \subseteq DOMAIN pack.scenarios
    /\ spec.harnesses \subseteq DOMAIN pack.harnesses
=============================================================================
