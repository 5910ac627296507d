SPECIFICATION MCSpec
CONSTANTS
    r1 = r1
    r2 = r2
    r3 = r3
    Runs = {r1, r2, r3}
    Streamed = {r3}
    nightly = nightly
    hourly = hourly
    evolve = evolve
    Tasks = {nightly, hourly, evolve}
    Fragile = {evolve}
    MaxCrashes = 1
    chat1 = chat1
    chat2 = chat2
    N = 2
    Guarded = {1, 2}
    Reliable = {2}
    Requests = {chat1, chat2}
    Cancellable = TRUE
    FailureThreshold = 2
    SuccessThreshold = 2
    HalfOpenMaxCalls = 2
INVARIANTS
    SavedAsAnswered
    CountUnder
    RegistryReleased
    NeverExhausted
PROPERTIES
    RequestsEnd
    DueRuns
    PrimaryReturns
    ChatEnds
CHECK_DEADLOCK FALSE
