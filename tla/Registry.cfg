SPECIFICATION RegistrySpec
CONSTANTS
    None = None
    b1 = b1
    b2 = b2
    v1 = v1
    v2 = v2
    d1 = d1
    d2 = d2
    d3 = d3
    e1 = e1
    e2 = e2
    h1 = h1
    h2 = h2
    Adapters = {"offline"}
    Handlers = {h1, h2}
    Uploads <- MCUploads
    Versions = {v1, v2}
    PackOf <- MCPack
    Experiments = {e1, e2}
    Definitions = {d1, d2, d3}
    SpecOf <- MCSpec
    Keys = {"k1"}
    Provenances = {"p1", "p2"}
    MaxExecutions = 2
    MaxBody = 2
    MaxZipFiles = 2
    MaxZipBytes = 8
    MaxZipRatio = 4
CHECK_DEADLOCK FALSE
SYMMETRY Symmetry
INVARIANTS
    RegistryIsSound
    
    JobsWithinBudget
PROPERTIES
    FrozenIsFinal
