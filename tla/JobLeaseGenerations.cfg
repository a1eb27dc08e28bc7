SPECIFICATION FairSpec
CONSTANTS
    aw1 = aw1
    aw2 = aw2
    ew1 = ew1
    NoOwner = NoOwner
    NoLease = NoLease
    Episodes = {1}
    MaxAttempts = 1
    AttemptWorkers <- MCAttemptWorkers
    EvaluationWorkers <- MCEvaluationWorkers
    Owners <- MCOwners
    OwnerOf <- MCOwnerOf
    LeaseTicks = 1
    Grace = 1
    BackoffBase = 2
    BackoffCap = 3
    MaxLeaseGenerations = 3
    Results <- MCResults
INVARIANTS
    ResultFromLastGeneration
    CancellationWins
PROPERTIES
    JobsSettle
