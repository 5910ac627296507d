------------------------------ MODULE MCLibrary ------------------------------
\* Six parts that share no state, each on an instance of its own.  A behaviour
\* is one of the part its first state picks: checking them apart leaves nothing
\* out, as none can disable or change another.
EXTENDS CircuitBreaker, A2ATasks, TeamRun, MCHistoryTrim, Approval, Evolution

CONSTANTS
    c1, c2, c3,     \* callers of a circuit breaker
    s1, s2, s3,     \* tasks/send requests
    named, unnamed, \* ids: one a caller chose, and "" of those who chose none
    v1, v2, v3,     \* API calls that resolve an approval request
    revise,         \* a proposal to change an agent's model
    h1, h2          \* requests about that agent

VARIABLE part

Parts == {"breaker", "tasks", "team", "trim", "approval", "evolution"}

\* A part that stands still needs no more than one initial state.
MCInit ==
    /\ part \in Parts
    /\ Init
    /\ TasksInit
    /\ TeamInit
    /\ TrimInit
    /\ ApprovalInit
    /\ EvolutionInit
    /\ part # "team" => protocol = "parallel"
    /\ part # "trim" =>
          /\ strategy = "progressive"
          /\ budget = CHOOSE b \in Budgets : TRUE
          /\ cap = CHOOSE c \in Caps : TRUE
    /\ part # "approval" => verdict = [r \in Resolvers |-> "approved"]

\* The next state of one part, when it is the part that moves.
Moves(p, next, v) == IF part = p THEN next ELSE UNCHANGED v

MCNext ==
    /\ Moves("breaker", Next, vars)
    /\ Moves("tasks", TasksNext, taskVars)
    /\ Moves("team", TeamNext, teamVars)
    /\ Moves("trim", TrimNext, trimVars)
    /\ Moves("approval", ApprovalNext, approvalVars)
    /\ Moves("evolution", EvolutionNext, evolutionVars)
    /\ UNCHANGED part

allParts == <<part, vars, taskVars, teamVars, trimVars, approvalVars, evolutionVars>>

\* What is fair of a part is fair when it is the part that moves.
MCSpec ==
    /\ MCInit
    /\ [][MCNext]_allParts
    /\ TeamFairness
    /\ part = "approval" => ApprovalFairness
=============================================================================
