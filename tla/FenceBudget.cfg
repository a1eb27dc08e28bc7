SPECIFICATION Spec
CONSTANTS
    w1 = w1
    w2 = w2
    NoRequest = NoRequest
    NoDigest = NoDigest
    NoCost = NoCost
    NoAttempt = NoAttempt
    Workers <- MCWorkers
    Attempts = {1, 2}
    MaxGenerations = 1
    RequestIds = {"r1"}
    Digests = {"d1"}
    ReserveCost = 2
    MaxTotalCost = 3
    MaxReservations = 2
    MaxCancelCalls = 0
    Maintenance = FALSE
CHECK_DEADLOCK FALSE

    
PROPERTY
    PublishesOnce
