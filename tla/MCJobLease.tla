---------------------------- MODULE MCJobLease ----------------------------
(***************************************************************************)
(* Instances of JobLease: one episode that may be retried, or two that     *)
(* finish together; two attempt workers under one owner name.              *)
(***************************************************************************)
EXTENDS JobLease

CONSTANTS aw1, aw2, ew1

MCAttemptWorkers == {aw1, aw2}
MCEvaluationWorkers == {ew1}
MCOneAttemptWorker == {aw1}
MCOwners == {"arena"}
MCOwnerOf == [w \in Workers |-> "arena"]

\* One captured success, one captured and one uncaptured retryable failure,
\* one permanent failure, and the worker's own cancellation.
MCResults ==
    {[job |-> "completed", status |-> "completed", outcome |-> "completed", class |-> "none"],
     [job |-> "completed", status |-> "failed", outcome |-> "failed", class |-> "transient_adapter"],
     Result("failed", "incomplete", "transient"),
     Result("failed", "failed", "permanent"),
     Result("cancelled", "cancelled", "none")}

\* The two results that matter when two episodes finish together.
MCFewResults ==
    {[job |-> "completed", status |-> "completed", outcome |-> "completed", class |-> "none"],
     Result("failed", "failed", "permanent")}

=============================================================================
