------------------------- MODULE LifecycleContract -------------------------
(***************************************************************************)
(* The lifecycle model that the repository itself checks to depth eight    *)
(* (execution_v1/formal_model.py): generations of one attempt, their       *)
(* dispatch, reservation, cancellation, request identity and result.       *)
(* Here it is explored and proved without a depth bound.                   *)
(***************************************************************************)
EXTENDS Integers

CONSTANTS
    MaxGenerations,  \* LifecycleModel.max_generations
    Results,         \* result digests
    NoResult,        \* result_digest is None
    NoOwner          \* a digest or request identity without an owner

Generations == 1..MaxGenerations

ASSUME ContractAssumption ==
    /\ MaxGenerations \in Nat \ {0}
    /\ NoResult \notin Results
    /\ NoOwner \notin Generations

VARIABLES
    begun,         \* len(state.invocations)
    invocations,   \* state.invocations, by generation
    requestOwner,  \* state.request_owner_generation
    resultOwner    \* state.result_owners

contractVars == <<begun, invocations, requestOwner, resultOwner>>
owners == <<requestOwner, resultOwner>>

TerminalReservations == {"committed", "released", "expired", "unknown_usage", "disputed"}
TerminalCancellations == {"acknowledged", "unsupported", "unknown"}

Invocations ==
    [admission : {"absent", "current", "stale", "duplicate"},
     dispatched : BOOLEAN,
     cancellation : {"not_requested", "requested", "dispatched"} \cup TerminalCancellations,
     reservation : {"none", "reserved"} \cup TerminalReservations,
     result : Results \cup {NoResult},
     committed : BOOLEAN,
     observed : BOOLEAN]

Absent ==
    [admission |-> "absent", dispatched |-> FALSE, cancellation |-> "not_requested",
     reservation |-> "none", result |-> NoResult, committed |-> FALSE, observed |-> FALSE]

ContractInit ==
    /\ begun = 0
    /\ invocations = [g \in Generations |-> Absent]
    /\ requestOwner = NoOwner
    /\ resultOwner = [d \in Results |-> NoOwner]

Current(g) == invocations[g].admission = "current"
Exists(g) == invocations[g].admission # "absent"

-----------------------------------------------------------------------------
Begin ==
    /\ begun < MaxGenerations
    /\ \A g \in Generations : ~ Current(g)
    /\ begun' = begun + 1
    /\ invocations' = [invocations EXCEPT ![begun + 1].admission = "current"]
    /\ UNCHANGED owners

ExpireLease(g) ==
    /\ Current(g)
    /\ invocations' = [invocations EXCEPT ![g].admission = "stale"]
    /\ UNCHANGED <<begun, owners>>

Reserve(g) ==
    /\ Current(g)
    /\ invocations[g].reservation = "none"
    /\ invocations' = [invocations EXCEPT ![g].reservation = "reserved"]
    /\ UNCHANGED <<begun, owners>>

Dispatch(g) ==
    /\ Current(g)
    /\ ~ invocations[g].dispatched
    /\ invocations[g].reservation \notin TerminalReservations
    /\ invocations' = [invocations EXCEPT ![g].dispatched = TRUE]
    /\ UNCHANGED <<begun, owners>>

\* Mutant: the owner of the digest is not looked up.
AdmitResultAgain(g, d) ==
    /\ Current(g)
    /\ invocations[g].result = NoResult
    /\ invocations' = [invocations EXCEPT ![g].result = d]
    /\ resultOwner' = [resultOwner EXCEPT ![d] = g]
    /\ UNCHANGED <<begun, requestOwner>>

AdmitResult(g, d) ==
    /\ Current(g)
    /\ invocations[g].result = NoResult
    /\ resultOwner[d] = NoOwner
    /\ invocations' = [invocations EXCEPT ![g].result = d]
    /\ resultOwner' = [resultOwner EXCEPT ![d] = g]
    /\ UNCHANGED <<begun, requestOwner>>

CommitBudget(g) ==
    /\ invocations[g].reservation = "reserved"
    /\ invocations[g].result # NoResult
    /\ ~ invocations[g].committed
    /\ invocations' = [invocations EXCEPT ![g].reservation = "committed", ![g].committed = TRUE]
    /\ UNCHANGED <<begun, owners>>

SettleUnknownOrRelease(g) ==
    /\ invocations[g].reservation = "reserved"
    /\ invocations' = [invocations EXCEPT ![g].reservation =
                         IF invocations[g].dispatched THEN "unknown_usage" ELSE "released"]
    /\ UNCHANGED <<begun, owners>>

\* Mutant: a settled reservation can still be disputed.
DisputeSettled(g) ==
    /\ invocations[g].reservation # "none"
    /\ invocations' = [invocations EXCEPT ![g].reservation = "disputed", ![g].committed = FALSE]
    /\ UNCHANGED <<begun, owners>>

DisputeBudget(g) ==
    /\ invocations[g].reservation = "reserved"
    /\ invocations' = [invocations EXCEPT ![g].reservation = "disputed"]
    /\ UNCHANGED <<begun, owners>>

ObserveRequestIdentity(g) ==
    /\ Exists(g)
    /\ ~ invocations[g].observed
    /\ invocations[g].result = NoResult
    /\ requestOwner # g
    /\ IF requestOwner = NoOwner
       THEN /\ invocations' = [invocations EXCEPT ![g].observed = TRUE]
            /\ requestOwner' = g
       ELSE /\ invocations' = [invocations EXCEPT ![g].observed = TRUE, ![g].admission = "duplicate"]
            /\ UNCHANGED requestOwner
    /\ UNCHANGED <<begun, resultOwner>>

NextCancellations(state) ==
    CASE state = "not_requested" -> {"requested"}
      [] state = "requested" -> {"dispatched"}
      [] state = "dispatched" -> TerminalCancellations
      [] OTHER -> {}

AdvanceCancellation(g, state) ==
    /\ Exists(g)
    /\ state \in NextCancellations(invocations[g].cancellation)
    /\ invocations' = [invocations EXCEPT ![g].cancellation = state]
    /\ UNCHANGED <<begun, owners>>

ContractNext ==
    \/ Begin
    \/ \E g \in Generations :
         \/ ExpireLease(g)
         \/ Reserve(g)
         \/ Dispatch(g)
         \/ ObserveRequestIdentity(g)
         \/ \E d \in Results : AdmitResult(g, d)
         \/ CommitBudget(g)
         \/ SettleUnknownOrRelease(g)
         \/ DisputeBudget(g)
         \/ \E state \in {"requested", "dispatched"} \cup TerminalCancellations :
              AdvanceCancellation(g, state)

ContractSpec == ContractInit /\ [][ContractNext]_contractVars

-----------------------------------------------------------------------------
\* Rows, counter and owners are well formed, and exactly the first begun
\* generations exist.
ContractTypes ==
    /\ begun \in 0..MaxGenerations
    /\ invocations \in [Generations -> Invocations]
    /\ requestOwner \in Generations \cup {NoOwner}
    /\ resultOwner \in [Results -> Generations \cup {NoOwner}]
    /\ \A g \in Generations : Exists(g) <=> g <= begun
    /\ \A g \in Generations : ~ Exists(g) => invocations[g] = Absent

\* Only the newest generation is current.
NewestIsCurrent == \A g \in Generations : Current(g) => g = begun

\* A result belongs to the one generation that owns its digest, and to no
\* generation whose request identity was a duplicate.
ResultHasOneOwner ==
    \A g \in Generations : invocations[g].result # NoResult =>
        /\ resultOwner[invocations[g].result] = g
        /\ invocations[g].admission # "duplicate"

\* Usage after dispatch is never released, and only a generation with an
\* admitted result has committed budget.
NoFreeDispatch ==
    \A g \in Generations :
        /\ ~ (invocations[g].dispatched /\ invocations[g].reservation = "released")
        /\ invocations[g].committed <=> invocations[g].reservation = "committed"
        /\ invocations[g].committed => invocations[g].result # NoResult

\* The repository's own invariants of its lifecycle model, which its
\* depth-bounded search checks and this one exhausts.
ContractIsKept == ContractTypes /\ NewestIsCurrent /\ ResultHasOneOwner /\ NoFreeDispatch

\* Settled reservations, terminal cancellations, admitted results and committed
\* budget never change.
LifecycleIsMonotone ==
    [][\A g \in Generations :
         LET before == invocations[g]
             after == invocations'[g]
         IN  /\ before.reservation \in TerminalReservations =>
                    after.reservation = before.reservation
             /\ before.cancellation \in TerminalCancellations =>
                    after.cancellation = before.cancellation
             /\ before.result # NoResult => after.result = before.result
             /\ before.committed => after.committed]_contractVars

=============================================================================
