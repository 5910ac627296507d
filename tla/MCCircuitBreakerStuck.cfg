SPECIFICATION FairSpec
CONSTANTS
    Callers = {c1, c2}
    FailureThreshold = 1
    SuccessThreshold = 1
    HalfOpenMaxCalls = 1
    Outcomes = {"success", "failure", "undecided"}
PROPERTIES
    HalfOpenResolves
