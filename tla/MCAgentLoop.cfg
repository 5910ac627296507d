SPECIFICATION FairDebuggedSpec
CONSTANTS
    triage = triage
    writer = writer
    critic = critic
    Agents = {triage, writer, critic}
    Root = triage
    Handoffs <- Pairs
    MaxTurns = 2
    MaxRetries = 1
    Modes = {"run", "debug", "stream"}
    Guarded = TRUE
    DebugModes = {"step_turn", "step_tool", "continue"}
    MaxOperators = 2
INVARIANTS
    
    StateTells
PROPERTIES
    RunsEnd
    CancelEndsRun
    StopHonoured
