---------------------------- MODULE ForgeCustody ----------------------------
(***************************************************************************)
(* Arena Forge (services_v1/forge, forge_v1/models): the custody of        *)
(* proposals, owner decisions, evaluations and evolution receipts, the     *)
(* process-safety report an evaluation needs, and the experiment planner.  *)
(* All of it within one project; a digest is the record it identifies.     *)
(*                                                                         *)
(* A request validates and reads first, puts its artifact, and commits in  *)
(* a transaction later: other requests commit in between, and a request    *)
(* that dies leaves its artifact without a row.                            *)
(***************************************************************************)
EXTENDS Integers, Sequences, FiniteSets

CONSTANTS
    Proposals,          \* proposals that may be submitted
    Approvals,          \* owner decisions
    Evaluations,        \* captured evaluations
    SafetyRequests,     \* process-safety requests
    PlanRequests,       \* next-best-experiment requests
    Clients

\* The literal types of the contracts.
ASSUME CustodyAssumption ==
    /\ \A a \in Approvals : a.proposal \in Proposals /\ a.decision \in {"APPROVED", "REJECTED"}
    /\ \A e \in Evaluations :
        /\ e.proposal \in Proposals
        /\ e.outcome \in {"ADMITTED", "REJECTED", "QUARANTINED", "INCONCLUSIVE"}
        /\ e.workflow.state \in {"completed", "interrupted", "cancelled", "recovered"}

\* The numbers of a plan request; a design costs something, and designs are
\* numbered in the order of their identifiers, those with one identifier in
\* the order of the request (the sort is stable).
ASSUME PlanAssumption ==
    \A r \in PlanRequests :
        /\ IsFiniteSet(r.designs) /\ \A d, x \in r.designs : d.id = x.id => d = x
        /\ r.budget \in Nat /\ r.risk \in Nat /\ r.detectable \in Nat
        /\ \A i \in DOMAIN r.coverage : r.coverage[i] \in Nat
        /\ \A k \in DOMAIN r.mechanisms :
            /\ r.mechanisms[k].effect \in Nat /\ r.mechanisms[k].uncertainty \in Nat
            /\ r.mechanisms[k].interaction \in Nat /\ r.prior[k] \in Seq(Nat)
        /\ \A d \in r.designs :
            /\ d.id \in Nat /\ d.risk \in Nat /\ d.min \in Nat /\ d.max \in Nat /\ d.cost \in Nat \ {0}
            /\ Len(d.coverage) \in Nat /\ DOMAIN d.coverage = 1 .. Len(d.coverage)

VARIABLES
    blobs,      \* the artifact store: kind of artifact -> its contents
    proposals,  \* forge_proposals: proposal -> state, "none" without a row
    approvals,  \* forge_approvals: proposal -> decision
    receipts,   \* forge_evaluations: [evaluation, approval] the receipt binds
    safety,     \* process_safety_reports: [request, verdict]
    plans,      \* forge_planner_reports: [request, report]
    client      \* client -> the request under way

forgeVars == <<blobs, proposals, approvals, receipts, safety, plans, client>>

ArtifactKinds == {"proposal", "approval", "evaluation", "receipt", "safety", "plan"}

NoApproval == [decision |-> "none"]
NoRequest == [kind |-> "idle"]

ForgeInit ==
    /\ blobs = [k \in ArtifactKinds |-> {}]
    /\ proposals = [p \in Proposals |-> "none"]
    /\ approvals = [p \in Proposals |-> NoApproval]
    /\ receipts = {} /\ safety = {} /\ plans = {}
    /\ client = [c \in Clients |-> NoRequest]

-----------------------------------------------------------------------------
(* Contracts. *)

Unique(s) == \A i, j \in DOMAIN s : s[i] = s[j] => i = j

\* MechanismChange and ForgeProposal: one mechanism really changes.
ValidProposal(p) == p.base # p.candidate /\ p.mechanism[1] # p.mechanism[2] /\ Unique(p.evidence)

\* EvaluationCohorts: development, safety and transfer items are disjoint.
DisjointCohorts(cohorts) ==
    \A i, j \in DOMAIN cohorts : Unique(cohorts[i]) /\ (i # j => \A x \in DOMAIN cohorts[i], y \in DOMAIN cohorts[j] :
        cohorts[i][x] # cohorts[j][y])

\* EvaluationWorkflow: interruption and recovery are evidenced.
ValidWorkflow(w) ==
    CASE w.state \in {"interrupted", "cancelled"} -> w.interruption /\ ~w.recovery
      [] w.state = "recovered"                    -> w.interruption /\ w.recovery
      [] w.state = "completed"                    -> ~w.interruption /\ ~w.recovery

Controls == {"random_search", "heuristic_edits", "no_change", "matched_compute_test_time_search"}

\* ForgeEvaluation: the four controls under the frozen budget and evaluator;
\* unfinished work is not admitted.
ValidEvaluation(e) ==
    /\ Unique(e.evidence) /\ DisjointCohorts(e.cohorts) /\ ValidWorkflow(e.workflow)
    /\ DOMAIN e.controls = Controls /\ \A k \in Controls : e.controls[k] = e.plan
    /\ e.admission = e.outcome
    /\ e.workflow.state \in {"interrupted", "cancelled"} => e.outcome # "ADMITTED"

Rank(sensitivity) ==
    CASE sensitivity = "PUBLIC" -> 0 [] sensitivity = "INTERNAL" -> 1 [] sensitivity = "CONFIDENTIAL" -> 2
      [] sensitivity = "RESTRICTED" -> 3 [] sensitivity = "SECRET" -> 4

\* InformationFlow and ProcessSafetyRequest: content by digest only, redacted
\* when restricted, every typed outcome answered, cleanup evidenced.
ValidSafety(r) ==
    /\ \A f \in r.flows : (f.content \/ f.redacted) /\ (Rank(f.sensitivity) >= Rank("RESTRICTED") => f.redacted)
    /\ DOMAIN r.outcomes = r.types
    /\ r.cleanup

\* CandidateDesign and NextBestExperimentRequest.
ValidPlanRequest(r) ==
    /\ \A d \in r.designs : d.max >= d.min /\ d.mechanism \in DOMAIN r.mechanisms
                          /\ Unique(d.coverage) /\ \A i \in DOMAIN d.coverage : d.coverage[i] \in DOMAIN r.coverage
    /\ r.mode = "confirmatory" => r.frozen /\ ~r.adaptive
    /\ r.mode = "exploratory" => ~r.frozen

-----------------------------------------------------------------------------
(* Process safety. *)

\* _ALLOWED_TRANSITIONS
AllowedTransitions ==
    {<<"DRAFT", "PENDING_APPROVAL">>, <<"PENDING_APPROVAL", "APPROVED">>, <<"PENDING_APPROVAL", "REJECTED">>,
     <<"APPROVED", "EVALUATED">>} \union
    ({"EVALUATED"} \X {"ADMITTED", "REJECTED", "QUARANTINED", "INCONCLUSIVE"})

\* ProcessSafetyService._raw: the flows that fail a check of the policy.
ProhibitedFlows(r) ==
    {f \in r.flows :
        \/ Rank(f.sensitivity) > Rank(r.policy.maximum)
        \/ "tool" \in {f.source, f.destination} /\ f.tool \notin r.policy.tools
        \/ f.destination = "external"
        \/ f.depth > r.policy.depth
        \/ f.sensitivity = "SECRET" /\ f.destination # "artifact"}

SafetyVerdict(r) ==
    CASE \/ ProhibitedFlows(r) # {}
         \/ ~ r.transitions \subseteq AllowedTransitions
         \/ \E o \in r.types : r.outcomes[o] = "DETECTED"    -> "FAIL"
      [] OTHER -> IF \E o \in r.types : r.outcomes[o] = "UNKNOWN" THEN "HOLD" ELSE "PASS"

ProcessSafetyPasses(r) == \E row \in safety : row.request = r /\ row.verdict = "PASS"

-----------------------------------------------------------------------------
(* The planner, in integers: probabilities and fractions in tenths. *)

Affordable(r, d) == r.budget \div d.cost

Smaller(a, b) == IF a <= b THEN a ELSE b

Larger(a, b) == IF a >= b THEN a ELSE b

\* The minimum, scaled by the square of detectable over expected effect; no
\* expected effect asks for more attempts than there can be.
PlannedAttempts(r, d) ==
    LET signal == r.mechanisms[d.mechanism].effect
        wanted == IF signal = 0 THEN d.max
                  ELSE (d.min * r.detectable * r.detectable + signal * signal - 1) \div (signal * signal)
    IN  Smaller(Smaller(Larger(d.min, wanted), d.max), Affordable(r, d))

Excluded(r, d) == d.risk > r.risk \/ Affordable(r, d) < d.min \/ PlannedAttempts(r, d) < d.min

\* A mean of tenths in 1/60s, exact for up to six values.
Mean(values) ==
    LET sum[n \in 0 .. Len(values)] == IF n = 0 THEN 0 ELSE sum[n - 1] + values[n]
    IN  IF values = <<>> THEN 0 ELSE (60 * sum[Len(values)]) \div Len(values)

\* expected_information_gain, up to a factor common to the request.
Gain(r, d) ==
    LET m == r.mechanisms[d.mechanism]
    IN  m.uncertainty * (1200 - Mean(r.prior[d.mechanism])) * Mean([i \in DOMAIN d.coverage |-> r.coverage[d.coverage[i]]])
            * Smaller(r.detectable, m.effect) * (20 - m.interaction)

\* The sort key: gain, then risk, then the lower cost, then the identifier.
Precedes(r, a, b) ==
    LET key(d) == <<0 - Gain(r, d), d.risk, PlannedAttempts(r, d) * d.cost, d.id>>
    IN  \E i \in 1 .. 4 : key(a)[i] < key(b)[i] /\ \A j \in 1 .. i - 1 : key(a)[j] = key(b)[j]

\* ExperimentPlannerService._raw
PlanReport(r) ==
    LET chosen == {d \in r.designs : ~Excluded(r, d)}
    IN  [verdict  |-> IF chosen = {} THEN "HOLD" ELSE "READY",
         excluded |-> r.designs \ chosen,
         ranked   |-> [d \in chosen |->
                        [rank     |-> 1 + Cardinality({x \in chosen : Precedes(r, x, d)}),
                         attempts |-> PlannedAttempts(r, d),
                         lower    |-> PlannedAttempts(r, d) * d.cost,
                         upper    |-> Smaller(d.max, Affordable(r, d)) * d.cost]]]

-----------------------------------------------------------------------------
(* Requests. *)

\* Validated, read and put; the rows wait for the transaction.
Put(c, kind, item, seen, artifacts) ==
    /\ client[c].kind = "idle"
    /\ blobs' = [k \in ArtifactKinds |-> IF k \in DOMAIN artifacts THEN blobs[k] \union {artifacts[k]} ELSE blobs[k]]
    /\ client' = [client EXCEPT ![c] = [kind |-> kind, item |-> item, seen |-> seen]]
    /\ UNCHANGED <<proposals, approvals, receipts, safety, plans>>

Done(c, kind) ==
    /\ client[c].kind = kind
    /\ client' = [client EXCEPT ![c] = NoRequest]
    /\ UNCHANGED blobs

CreateProposal(c, p) == ValidProposal(p) /\ Put(c, "propose", p, NoApproval, [proposal |-> p])

CommitProposal(c) ==
    LET p == client[c].item IN
    /\ Done(c, "propose")
    /\ proposals' = [proposals EXCEPT ![p] = IF @ = "none" THEN "PENDING_APPROVAL" ELSE @]
    /\ UNCHANGED <<approvals, receipts, safety, plans>>

Approve(c, a) ==
    /\ proposals[a.proposal] # "none"
    /\ a.approver # a.proposal.proposer
    /\ Put(c, "approve", a, NoApproval, [approval |-> a])

\* A decision is immutable: a second one is refused.
CommitApproval(c) ==
    LET a == client[c].item IN
    /\ Done(c, "approve")
    /\ IF approvals[a.proposal].decision = "none"
       THEN /\ approvals' = [approvals EXCEPT ![a.proposal] = a]
            /\ proposals' = [proposals EXCEPT ![a.proposal] = a.decision]
       ELSE UNCHANGED <<approvals, proposals>>
    /\ UNCHANGED <<receipts, safety, plans>>

\* _approved_proposal
ApprovedProposal(p) == proposals[p] # "none" /\ approvals[p].decision = "APPROVED"

Separated(e) ==
    /\ e.evaluator # e.proposal.proposer
    /\ e.admitter \notin {e.proposal.proposer, e.evaluator}

BlockedByFailure(e) ==
    e.outcome = "ADMITTED" /\ \E f \in e.failures : f.severity = "severe" \/ f.disposition = "blocks_admission"

Receipt(e, a) == [evaluation |-> e, approval |-> a]

CreateEvaluation(c, e) ==
    /\ ValidEvaluation(e) /\ ApprovedProposal(e.proposal)
    /\ Separated(e) /\ ~BlockedByFailure(e) /\ ProcessSafetyPasses(e.safety)
    /\ Put(c, "evaluate", e, approvals[e.proposal], [evaluation |-> e, receipt |-> Receipt(e, approvals[e.proposal])])

\* Mutant: the update is not conditional.
AlwaysAwaits(p) == TRUE

\* The conditional update: the proposal leaves APPROVED exactly once.
AwaitsOutcome(p) == proposals[p] = "APPROVED"

CommitEvaluation(c) ==
    LET e == client[c].item IN
    /\ Done(c, "evaluate")
    /\ IF (\A row \in receipts : row.evaluation # e) /\ AwaitsOutcome(e.proposal)
       THEN /\ proposals' = [proposals EXCEPT ![e.proposal] = e.outcome]
            /\ receipts' = receipts \union {Receipt(e, client[c].seen)}
       ELSE UNCHANGED <<proposals, receipts>>
    /\ UNCHANGED <<approvals, safety, plans>>

CreateSafety(c, r) == ValidSafety(r) /\ Put(c, "safety", r, NoApproval, [safety |-> [request |-> r, verdict |-> SafetyVerdict(r)]])

CommitSafety(c) ==
    /\ Done(c, "safety")
    /\ safety' = safety \union {[request |-> client[c].item, verdict |-> SafetyVerdict(client[c].item)]}
    /\ UNCHANGED <<proposals, approvals, receipts, plans>>

CreatePlan(c, r) == ValidPlanRequest(r) /\ Put(c, "plan", r, NoApproval, [plan |-> [request |-> r, report |-> PlanReport(r)]])

CommitPlan(c) ==
    /\ Done(c, "plan")
    /\ plans' = plans \union {[request |-> client[c].item, report |-> PlanReport(client[c].item)]}
    /\ UNCHANGED <<proposals, approvals, receipts, safety>>

\* The process dies, or the transaction fails: the artifact stays.
AbandonForge(c) ==
    /\ client[c].kind # "idle"
    /\ client' = [client EXCEPT ![c] = NoRequest]
    /\ UNCHANGED <<blobs, proposals, approvals, receipts, safety, plans>>

CustodyNext ==
    \E c \in Clients :
        \/ \E p \in Proposals : CreateProposal(c, p)
        \/ \E a \in Approvals : Approve(c, a)
        \/ \E e \in Evaluations : CreateEvaluation(c, e)
        \/ \E r \in SafetyRequests : CreateSafety(c, r)
        \/ CommitProposal(c) \/ CommitApproval(c) \/ CommitEvaluation(c) \/ CommitSafety(c)
        \/ AbandonForge(c)

\* The planner shares the clients and the store with the custody, no table.
PlannerNext ==
    \E c \in Clients :
        \/ \E r \in PlanRequests : CreatePlan(c, r)
        \/ CommitPlan(c) \/ AbandonForge(c)

ForgeNext == CustodyNext \/ PlannerNext

ForgeSpec == ForgeInit /\ [][ForgeNext]_forgeVars

-----------------------------------------------------------------------------
\* What a receipt attests (services_v1/forge 209, 251, 276, 323), however the
\* requests interleave: a proposal leaves APPROVED through one evaluation, whose
\* outcome is its state; the receipt binds the decision in force, made by
\* someone else than the proposer; and an admission was by a third party, of
\* finished work without a blocking failure, over flows that stay inside.
ReceiptsAreEarned ==
    /\ \A p \in Proposals :
        LET own == {row \in receipts : row.evaluation.proposal = p} IN
        /\ Cardinality(own) <= 1
        /\ own # {} => \A row \in own : row.evaluation.outcome = proposals[p]
        /\ own = {} => proposals[p] \in {"none", "PENDING_APPROVAL", "APPROVED", "REJECTED"}
    /\ \A row \in receipts :
        LET e == row.evaluation
            p == e.proposal
        IN
        /\ row.approval = approvals[p] /\ row.approval.decision = "APPROVED" /\ row \in blobs["receipt"]
        /\ Cardinality({p.proposer, e.evaluator, e.admitter}) = 3 /\ row.approval.approver # p.proposer
        /\ \A f \in e.safety.flows : f.destination # "external" /\ (f.sensitivity = "SECRET" => f.destination = "artifact")
        /\ e.outcome = "ADMITTED" => /\ e.workflow.state \in {"completed", "recovered"}
                                     /\ \A f \in e.failures : f.severity # "severe"

\* A plan can be paid for (services_v1/forge 391): every design is ranked or
\* excluded, the ranks are a total order whose first has the largest gain, a
\* ranked design stays between its own bounds and the budget, and no design
\* that the budget and the risk allow is left out.
PlanIsAffordable ==
    \A row \in plans :
        LET r      == row.request
            ranked == row.report.ranked
        IN
        /\ {ranked[d].rank : d \in DOMAIN ranked} = 1 .. Cardinality(DOMAIN ranked)
        /\ DOMAIN ranked \union row.report.excluded = r.designs
        /\ \A d \in DOMAIN ranked :
            /\ d.min <= ranked[d].attempts /\ ranked[d].attempts <= d.max
            /\ ranked[d].lower <= ranked[d].upper /\ ranked[d].upper <= r.budget
            /\ ranked[d].rank = 1 => \A x \in DOMAIN ranked : Gain(r, x) <= Gain(r, d)
        /\ \A d \in row.report.excluded : d.risk > r.risk \/ d.min * d.cost > r.budget

\* Both halves of the forge (services_v1/forge): receipts and plans.
ForgeIsSound == ReceiptsAreEarned /\ PlanIsAffordable
=============================================================================
