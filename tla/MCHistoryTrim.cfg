SPECIFICATION TrimSpec
CONSTANTS
    SavedRuns <- MCSavedRuns
    MaxRuns = 2
    Budgets = {100, 170, 300}
    Caps = {2, 3, 5, 100}
    ToolLimit = 500
    Suffix = 15
INVARIANTS
    ProgressiveKeepsMore
CHECK_DEADLOCK FALSE
