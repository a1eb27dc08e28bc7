SPECIFICATION Spec
CONSTANTS
    w1 = w1
    w2 = w2
    NoRequest = NoRequest
    NoDigest = NoDigest
    NoCost = NoCost
    NoAttempt = NoAttempt
    Workers <- MCWorkers
    Attempts = {1}
    MaxGenerations = 2
    RequestIds = {}
    Digests = {"d1"}
    ReserveCost = 1
    MaxTotalCost = 2
    MaxReservations = 2
    MaxCancelCalls = 0
    Maintenance = FALSE
CHECK_DEADLOCK FALSE
INVARIANT
    DispatchIsCharged
