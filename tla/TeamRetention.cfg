SPECIFICATION TeamSpec
CONSTANTS
    None = None
    h1 = h1
    h2 = h2
    Handlers = {h1, h2}
    Users = {"owner"}
    Founder = "owner"
    Logins = {"l1"}
    Sessions = {"s1", "s2"}
    Keys = {"k1"}
    Plans = {"p1"}
    MaxDays = 2
    Grace = 1
    LoginTTL = 1
    SessionTTL = 3
    MaxTime = 3
    MaxRevision = 1
CHECK_DEADLOCK FALSE
SYMMETRY Symmetry
INVARIANTS
    LoginsAreSound
    ExecutedOnce
    
