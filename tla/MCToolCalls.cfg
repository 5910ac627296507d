SPECIFICATION FairSpec
CONSTANTS
    look = look
    send = send
    lost = lost
    Calls <- MCCalls
    Replies <- MCReplies
    Settings <- MCSettings
    Known = {look, send}
    Risky = {send}
    MaxCalls = 2
    MaxRepeats = 1
    LoopKeys = 2
    RateCalls = 1
    Window = 2
    RateKeys = 1
    Ttl = 1
    CacheSize = 1
    MaxBatches = 2
    MaxTime = 3
INVARIANTS RepeatsBounded RateBounded CacheSound
PROPERTIES BatchSpec BatchEnds
CHECK_DEADLOCK FALSE
