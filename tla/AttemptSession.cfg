SPECIFICATION FairSpec
CONSTANTS
    MaxEvents = 3
    MaxPending = 1
CHECK_DEADLOCK FALSE
INVARIANTS
    ResultIsFit
    
PROPERTIES
    SessionEnds
