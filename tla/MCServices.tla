------------------------------ MODULE MCServices ------------------------------
\* Three parts that share no state, each on an instance of its own.  A
\* behaviour is one of the part its first state picks: checking them apart
\* leaves nothing out, as none can disable or change another.
EXTENDS SessionRuns, Scheduler, FallbackChain

CONSTANTS
    r1, r2, r3,     \* runs on a session
    nightly, hourly, evolve,
    chat1, chat2    \* requests to a chain of providers

VARIABLE part

MCInit ==
    /\ part \in {"sessions", "scheduler", "fallback"}
    /\ SessionInit
    /\ SchedulerInit
    /\ Init

\* The next state of one part, when it is the part that moves.
Moves(p, next, v) == IF part = p THEN next ELSE UNCHANGED v

MCNext ==
    /\ Moves("sessions", SessionNext, sessionVars)
    /\ Moves("scheduler", SchedulerNext, schedulerVars)
    /\ Moves("fallback", Next, vars)
    /\ UNCHANGED part

allParts == <<part, sessionVars, schedulerVars, vars>>

\* The fairness of FallbackChain, where it is the part that moves.
ChainFairness ==
    /\ \A r \in Requests : /\ WF_vars(part = "fallback" /\ Chat(r))
                           /\ WF_vars(part = "fallback" /\ CallEnds(r))
    /\ \A p \in Chain : WF_vars(part = "fallback" /\ TimePasses(p))

\* Where a session or the scheduler does not move, no step that its fairness
\* is about is enabled.
MCSpec ==
    /\ MCInit
    /\ [][MCNext]_allParts
    /\ SessionFairness
    /\ SchedulerFairness
    /\ ChainFairness
=============================================================================
