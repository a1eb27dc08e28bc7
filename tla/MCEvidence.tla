----------------------------- MODULE MCEvidence -----------------------------
(***************************************************************************)
(* One live and one fixture execution, a clean outcome and, for the live   *)
(* one, a transient failure.                                               *)
(***************************************************************************)
EXTENDS EvidenceChain, TLC

CONSTANTS Live, Fixture, Receipt1, Receipt2

Outcome(st, output, transient, severe, cost) ==
    [status |-> st, output |-> output, transient |-> transient, severe |-> severe,
     mission |-> IF severe = 0 THEN 1 ELSE 0, cost |-> cost, usage |-> output,
     evaluations |-> 0, prev |-> 0]

MCExecutions == {Live, Fixture}
MCLive == {Live}

Clean == Outcome("completed", TRUE, FALSE, 0, "unknown")

MCOutcomes ==
    [x \in MCExecutions |->
        IF x = Fixture THEN {Clean}
        ELSE {Clean,
              Outcome("failed", FALSE, TRUE, 1, "unknown")}]

Risk(maximum, severe) == [maximum |-> maximum, severe |-> severe]

MCRequests ==
    {[claims |-> <<[kind |-> "local_live_observation", links |-> {Receipt1}]>>,
      risk |-> Risk("independent", "REJECT")],
     [claims |-> <<[kind |-> "causal_effect", links |-> {Receipt1}],
                   [kind |-> "fixture_observation", links |-> {Receipt2}]>>,
      risk |-> Risk("independent", "HOLD")]}

Symmetry == Permutations(Handlers)

=============================================================================
