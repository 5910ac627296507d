SPECIFICATION RunSpec
CONSTANTS
    triage = triage
    writer = writer
    Agents = {triage, writer}
    Root = triage
    Handoffs <- OneHandoff
    MaxTurns = 2
    MaxRetries = 0
    Modes = {"run", "stream"}
    Guarded = TRUE
    MaxRuns = 3
    CallCounts = {0, 2}
    MaxLost = 1
    CallsAfter = FALSE
    Filtered = FALSE
    HasSession = TRUE
    Backend = "postgres"
    Interval = 1
    SavesFail = FALSE
    Findable = {triage, writer}
INVARIANTS
    CallsAnswered
PROPERTIES
    LogSpec
    ResumeLatest
    LittleLost
CHECK_DEADLOCK FALSE
