SPECIFICATION MCSpec
CONSTANTS
    c1 = c1
    c2 = c2
    c3 = c3
    Callers = {c1, c2, c3}
    FailureThreshold = 2
    SuccessThreshold = 2
    HalfOpenMaxCalls = 2
    Outcomes = {"success", "failure", "undecided"}
    s1 = s1
    s2 = s2
    s3 = s3
    named = named
    unnamed = unnamed
    Sends = {s1, s2, s3}
    Ids = {named, unnamed}
    NoTask = NoTask
    N = 3
    Protocols = {"sequential", "parallel", "coordinator"}
    MaxReplies = 2
    SavedRuns <- MCSavedRuns
    MaxRuns = 2
    Budgets = {100, 170, 300}
    Caps = {2, 3, 5, 100}
    ToolLimit = 500
    Suffix = 15
    v1 = v1
    v2 = v2
    v3 = v3
    Resolvers = {v1, v2, v3}
    revise = revise
    h1 = h1
    h2 = h2
    Proposals = {revise}
    ModelProposals = {revise}
    ToolProposals = {}
    Handlers = {h1, h2}
    MaxVersions = 3
INVARIANTS
    VersionsInOrder
    PeriodUndecided
    ProbesBounded
    TeamWhole
    TrimSound
    DecisionMeant
    Settled
    SoleVoterHeeded
PROPERTIES
    OpenHolds
    LifecycleSpec
    CancelEndsTeam
    HandlerEnds
CHECK_DEADLOCK FALSE
