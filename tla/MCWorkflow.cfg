SPECIFICATION FairSpec
CONSTANTS
    Steps <- MCSteps
    Workflows <- MCWorkflows
    Attempts = 2
INVARIANTS
    InOrder
    SkippedIdle
    CompletedWhole
    FailureShows
PROPERTIES
    TakenOnce
    WorkflowEnds
CHECK_DEADLOCK FALSE
