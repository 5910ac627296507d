SPECIFICATION EvolutionSpec
CONSTANTS
    Proposals = {revise}
    ModelProposals = {revise}
    ToolProposals = {}
    Handlers = {h1}
    MaxVersions = 3
PROPERTIES
    RollbackRestores
CHECK_DEADLOCK FALSE
