SPECIFICATION ApprovalSpec
CONSTANTS
    Resolvers = {r1, r2}
PROPERTIES
    ResolvedOnce
CHECK_DEADLOCK FALSE
