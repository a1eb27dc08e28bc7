SPECIFICATION ContractSpec
CONSTANTS
    MaxGenerations = 2
    Results = {"rA", "rB"}
    NoResult = NoResult
    NoOwner = NoOwner
CHECK_DEADLOCK FALSE
INVARIANTS
    ContractIsKept

    
