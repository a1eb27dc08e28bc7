SPECIFICATION Spec
CONSTANTS
    Live = Live
    Fixture = Fixture
    Receipt1 = Receipt1
    Receipt2 = Receipt2
    None = None
    Executions <- MCExecutions
    LiveExecutions <- MCLive
    Outcomes <- MCOutcomes
    MaxAttempts = 2
    RequestKeys = {Receipt1}
    UploadIds = {Receipt2}
    Requests <- MCRequests
    ReproductionIds = {p1}
    Handlers = {h1, h2}
    MaxLost = 1
CHECK_DEADLOCK FALSE
SYMMETRY Symmetry
INVARIANTS
    ReportMatchesEvidence
    BriefIsBacked
PROPERTIES
    WriteOnce
