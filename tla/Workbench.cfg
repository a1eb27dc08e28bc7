SPECIFICATION Spec
CONSTANTS
    Runs = {r1}
    Watched = {"patch_rerun"}
    Keys = {"key"}
    Subscribers = {u1, u2}
    CostOf <- MCCost
    RunLimit = 2
    DailyLimit = 4
    MaxRetries = 1
    MaxSubtasks = 1
    Scores = {0, 1}
    Requests <- MCRequests
    NoRun = NoRun
    BatchIds = {"b"}
    BatchBodies <- MCBodies
    Attempts = {"a1"}
    ReviewHandlers = {"h1", "h2"}
    Tenths = {0, 2, 5}
    FinalTenths = {0}
    NoReview = NoReview
    Kinds = {"ollama", "lm_studio", "handoff", "openai", "http", "native", "fixture", "recorded", "external"}
    Offers <- MCOffers
    Replies <- MCReplies
    RuntimeIds = {"frozen", "other", "absent"}
    MaxPrepares = 2
    NoAnswer = NoAnswer
    Installers = {i1, i2}
    ArchiveForms <- MCForms
    Nobody = Nobody
    LabAttempts = {"a", "b"}
    Enrolments <- MCEnrolments
    Traces <- MCTraces
    LabRequests <- MCLabRequests
    MaxTraceEvents = 3
    NoLab = NoLab
    Studies <- MCStudies
    Alpha <- MCAlpha
    NoValue = NoValue
    Processes = {p1, p2}
    DemoKeys = {k1, k2}
    DemoExperiments <- MCExperiments
    DemoExecutions = {1, 2}
    Deployments <- MCDeployments
    NoDemo = NoDemo
    Own = Own
    Sibling = Sibling
    Foreign = Foreign
    NoExecution = NoExecution
    Executions <- MCPageExecutions
    OwnRuns <- MCOwnRuns
    FirstRuns <- MCFirstRuns
    MaxEvents <- MCMaxEvents
    MaxRequests = 1
    MaxReconnects = 1
    Profiles <- MCProfiles
    Arms <- MCArms
    Reports <- MCReports
    BaseOutcomes <- MCBaseOutcomes
    MaxSessions = 2
    MaxItems = 3
    MaxBytes = 24
    ItemSizes = {4, 9, 14}
    MaxAppends = 6
    HeaderBytes = 1
    SeparatorBytes = 1
    Proposals <- MCProposals
    Approvals <- MCApprovals
    Evaluations <- MCEvaluations
    SafetyRequests <- MCSafety
    PlanRequests <- MCPlans
    Clients = {c1, c2}
    ReplayRequests <- MCReplays
    Policies <- MCPolicies
    SourceChanges <- MCChanges
    Gates = {g1, g2}
    MaxReports = 1
    TraceFiles <- MCTraceFiles
    SlugOf <- MCSlug
    Position <- MCPosition
    NoAudit = NoAudit
INVARIANTS
    CompleteIsTruthful
    OvershootIsBounded
    ReviewIsSettled
    
    InstalledStays
    
    AnalysisIsExact
    DemoOwnsTheSlot
    
    TreatmentIsAccounted
    
    PassIsEarned
    AuditIsSound
CHECK_DEADLOCK FALSE
