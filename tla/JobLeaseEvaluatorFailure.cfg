SPECIFICATION Spec
CONSTANTS
    aw1 = aw1
    aw2 = aw2
    ew1 = ew1
    NoOwner = NoOwner
    NoLease = NoLease
    Episodes = {1}
    MaxAttempts = 1
    AttemptWorkers <- MCOneAttemptWorker
    EvaluationWorkers <- MCEvaluationWorkers
    Owners <- MCOwners
    OwnerOf <- MCOwnerOf
    LeaseTicks = 1
    Grace = 1
    BackoffBase = 1
    BackoffCap = 1
    MaxLeaseGenerations = 2
    Results <- MCFewResults
PROPERTIES
    EvaluatorFailureKeepsAttempt
