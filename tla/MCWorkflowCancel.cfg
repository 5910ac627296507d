SPECIFICATION Spec
CONSTANTS
    Steps <- MCSteps
    Workflows <- MCWorkflows
    Attempts = 2
INVARIANTS
    CancelShows
CHECK_DEADLOCK FALSE
