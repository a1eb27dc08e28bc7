----------------------------- MODULE ClaimRules -----------------------------
(***************************************************************************)
(* What may be claimed from an analysed execution: the adequacy gates of   *)
(* a report, the ledger entry and verdict each proposed claim receives,    *)
(* and the holds the decision service adds when a linked receipt does not  *)
(* verify.  Rates and costs are integers in one unit; messages are short   *)
(* strings.                                                                *)
(***************************************************************************)
EXTENDS Integers, Sequences, FiniteSets, FiniteSetsExt

ClaimKinds ==
    {"fixture_observation", "local_live_observation", "causal_effect",
     "generalized_effect", "cost_comparison", "pareto_comparison",
     "cross_model_replication", "human_calibrated_assessment",
     "independent_validation"}

Maturities == {"fixture", "local_live", "replicated", "cross_model",
               "human_calibrated", "independent"}

Ceilings == <<"no_claim", "fixture_only", "local_live_only",
              "confirmatory_analysis", "replicated", "cross_model",
              "human_calibrated", "independent">>

Rank(ceiling) == CHOOSE i \in DOMAIN Ceilings : Ceilings[i] = ceiling

RequiredMaturity(kind) ==
    CASE kind = "fixture_observation" -> "fixture"
      [] kind = "generalized_effect" -> "replicated"
      [] kind = "cross_model_replication" -> "cross_model"
      [] kind = "human_calibrated_assessment" -> "human_calibrated"
      [] kind = "independent_validation" -> "independent"
      [] OTHER -> "local_live"

CeilingFor(kind) ==
    CASE kind = "causal_effect" -> "confirmatory_analysis"
      [] kind \in {"local_live_observation", "cost_comparison",
                   "pareto_comparison"} -> "local_live_only"
      [] kind = "fixture_observation" -> "fixture_only"
      [] OTHER -> RequiredMaturity(kind)

-----------------------------------------------------------------------------
(* Adequacy of an analysis                                                 *)

\* assess_analysis_adequacy: the last reason is given whatever the input.
AdequacyReasons(a, need) ==
    LET low == Min({a.control, a.treatment})
        high == Max({a.control, a.treatment})
        failed ==
            [attempts |-> a.attempts < need.attempts,
             clusters |-> a.clusters < need.clusters,
             per_arm |-> low < need.perArm,
             \* low / high < balance / 100, and a zero high counts as 0.
             balance |-> high = 0 \/ low * 100 < need.balance * high,
             fidelity |-> a.fidelity < need.fidelity,
             trace |-> a.trace < need.trace,
             preregistered |-> ~a.preregistered,
             manipulation |-> a.fidelity < need.fidelity,
             independence |-> ~a.independent,
             held_out |-> ~a.heldOut,
             comparison_invariants |-> TRUE,
             external_fit |-> a.externalFit]
    IN  {r \in DOMAIN failed : failed[r]}

ClaimLevel(a, need) ==
    IF AdequacyReasons(a, need) = {} THEN "CONFIRMATORY_ANALYSIS_ELIGIBLE"
    ELSE "DESCRIPTIVE_ONLY"

-----------------------------------------------------------------------------
(* One claim of a decision request.  facts are read off the report; refs   *)
(* maps the receipts the request links to the maturity each one carries.   *)

ClaimBlockers(claim, refs, facts, risk) ==
    LET causal == claim.kind \in {"causal_effect", "generalized_effect"}
        costed == claim.kind \in {"cost_comparison", "pareto_comparison"}
        blocked ==
            [receipt |-> \A r \in claim.links : refs[r] # RequiredMaturity(claim.kind),
             severe |-> facts.severe > 0,
             excluded |-> facts.exclusions # {},
             adequacy |-> causal /\ facts.level # "CONFIRMATORY_ANALYSIS_ELIGIBLE",
             effect |-> causal /\ facts.estimated = 0,
             cost |-> costed /\ facts.unknownCost,
             risk |-> Rank(CeilingFor(claim.kind)) > Rank(risk.maximum)]
    IN  {b \in DOMAIN blocked : blocked[b]}

Disposition(claim, refs, facts, risk) ==
    IF facts.severe > 0
    THEN IF risk.severe = "REJECT" THEN "REJECTED" ELSE "HOLD"
    ELSE IF ClaimBlockers(claim, refs, facts, risk) = {} THEN "SUPPORTED" ELSE "HOLD"

SupportedCeiling(claims, disposition) ==
    LET supported == {c \in DOMAIN claims : disposition[c] = "SUPPORTED"}
    IN  Ceilings[Max({1} \cup {Rank(CeilingFor(claims[c].kind)) : c \in supported})]

\* _brief_blockers: what the whole brief is blocked by.
BriefBlockers(claims, refs, facts, risk) ==
    {b \in {"severe"} : facts.severe > 0}
    \cup {b \in {"excluded"} : facts.exclusions # {}}
    \cup {b \in {"adequacy"} : facts.level # "CONFIRMATORY_ANALYSIS_ELIGIBLE"}
    \cup {b \in {"unknown_cost"} : facts.unknownCost}
    \cup UNION {ClaimBlockers(claims[c], refs, facts, risk) \ {"severe"} : c \in DOMAIN claims}

\* _next_lawful_action follows the first blocker in the order above.
NextLawfulAction(blockers) ==
    CASE "severe" \in blockers -> "resolve_severe_failures"
      [] "excluded" \in blockers -> "resolve_exclusions"
      [] "adequacy" \in blockers -> "meet_adequacy_gates"
      [] "unknown_cost" \in blockers -> "attach_usage_and_prices"
      [] blockers = {} -> "publish_supported_claims"
      [] OTHER -> "attach_missing_receipt"

\* build_decision_artifacts.
Brief(claims, refs, facts, risk) ==
    LET disposition == [c \in DOMAIN claims |-> Disposition(claims[c], refs, facts, risk)]
    IN  [entries |-> disposition,
         ceiling |-> SupportedCeiling(claims, disposition),
         verdict |-> CASE facts.severe > 0 /\ risk.severe = "REJECT" -> "REJECT"
                       [] facts.severe = 0
                          /\ \A c \in DOMAIN claims : disposition[c] = "SUPPORTED" -> "PASS"
                       [] OTHER -> "HOLD",
         action |-> NextLawfulAction(BriefBlockers(claims, refs, facts, risk))]

\* _apply_service_holds: one receipt that does not verify holds every claim.
ApplyServiceHolds(brief, claims, holds) ==
    IF holds = {} THEN brief
    ELSE LET held == [c \in DOMAIN claims |->
                        IF brief.entries[c] = "REJECTED" THEN "REJECTED" ELSE "HOLD"]
         IN  [brief EXCEPT !.entries = held,
                           !.ceiling = SupportedCeiling(claims, held),
                           !.verdict = IF @ = "REJECT" THEN "REJECT" ELSE "HOLD"]

=============================================================================
