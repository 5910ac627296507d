SPECIFICATION RunSpec
CONSTANTS
    triage = triage
    writer = writer
    Agents = {triage, writer}
    Root = triage
    Handoffs <- OneHandoff
    MaxTurns = 3
    MaxRetries = 0
    Modes = {"run", "debug", "stream"}
    Guarded = FALSE
    MaxRuns = 2
    CallCounts = {0, 2}
    MaxLost = 1
    CallsAfter = FALSE
    Filtered = FALSE
    HasSession = FALSE
    Backend = "memory"
    Interval = 1
    SavesFail = FALSE
    Findable = {triage, writer}
PROPERTIES
    ResumeNewest
CHECK_DEADLOCK FALSE
