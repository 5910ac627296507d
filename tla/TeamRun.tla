-------------------------------- MODULE TeamRun --------------------------------
(*****************************************************************************)
(* One run of a team (kasaya/kasaya/team/team_runner.py): its members' runs  *)
(* one after another, side by side in a TaskGroup, or as tools of a          *)
(* coordinator's run; and the tree of cancellation tokens that joins them    *)
(* (kasaya/kasaya/runner/cancellation.py).                                   *)
(*                                                                           *)
(* A member's run is AgentLoop seen from outside: it returns, raises, or is  *)
(* cancelled, by its token at the head of its loop or with its task wherever *)
(* it awaits.  A member that hands over for ever does none of that by itself.*)
(*****************************************************************************)
EXTENDS Naturals, FiniteSets, SequencesExt

CONSTANTS
    N,          \* the number of members; none leave nothing to do
    Protocols,  \* the protocols considered
    MaxReplies  \* bound of the model: replies of a coordinator with calls

ASSUME TeamAssumption ==
    /\ N \in Nat \ {0}
    /\ Protocols \subseteq {"sequential", "parallel", "coordinator"}
    /\ MaxReplies \in Nat

Members == 1 .. N
Lead == 0       \* the coordinator

VARIABLES
    protocol,   \* team.protocol
    team,       \* "idle", "running", "returned" or "raised"
    run,        \* the run of each member and of the coordinator
    results,    \* all_results: whose they are
    aborting,   \* the tasks of the members are being cancelled
    children,   \* tokens made by create_child, by their runs
    cancelled,  \* the team's own token is set
    set,        \* the others that are set, by their runs
    replies     \* replies of the coordinator with calls

teamVars == <<protocol, team, run, results, aborting, children, cancelled, set, replies>>

Unfinished(m) == run[m] \in {"queued", "running"}
AllDone == \A m \in Members : ~Unfinished(m)

TeamInit ==
    /\ protocol \in Protocols
    /\ team = "idle"
    /\ run = [m \in Members \cup {Lead} |-> "none"]
    /\ results = <<>>
    /\ aborting = FALSE
    /\ children = {}
    /\ cancelled = FALSE
    /\ set = {}
    /\ replies = 0

-----------------------------------------------------------------------------
(* Tokens.                                                                   *)

\* A child of a token that is set is set from the start.
NewChildren(ms) ==
    /\ children' = children \cup ms
    /\ set' = IF cancelled THEN set \cup ms ELSE set
    /\ UNCHANGED cancelled

\* Mutant: cancel() is not passed on.
CancelTeamOnly ==
    /\ ~cancelled
    /\ cancelled' = TRUE
    /\ UNCHANGED <<protocol, team, run, results, aborting, children, set, replies>>

\* cancel() of the team's token, all its children with it.
CancelTeam ==
    /\ ~cancelled
    /\ cancelled' = TRUE
    /\ set' = set \cup children
    /\ UNCHANGED <<protocol, team, run, results, aborting, children, replies>>

-----------------------------------------------------------------------------
(* The beginning.                                                            *)

\* The runs of ms come to be, with tokens of their own, in state s.
Launch(ms, s) ==
    /\ run' = [m \in DOMAIN run |-> IF m \in ms THEN s ELSE run[m]]
    /\ NewChildren(ms)

\* parent_token.check() raises before anything is started.
BeginCancelled ==
    /\ team = "idle"
    /\ cancelled
    /\ team' = "raised"
    /\ UNCHANGED <<protocol, run, results, aborting, children, cancelled, set, replies>>

\* The tasks of a parallel team are made at once and start one by one.
Begin ==
    /\ team = "idle"
    /\ ~cancelled
    /\ team' = "running"
    /\ CASE protocol = "sequential" -> Launch({1}, "running")
         [] protocol = "parallel" -> Launch(Members, "queued")
         [] protocol = "coordinator" -> Launch({Lead}, "running")
    /\ UNCHANGED <<protocol, results, aborting, replies>>

TaskStarts(m) ==
    /\ run[m] = "queued"
    /\ ~aborting
    /\ run' = [run EXCEPT ![m] = "running"]
    /\ UNCHANGED <<protocol, team, results, aborting, children, cancelled, set, replies>>

-----------------------------------------------------------------------------
(* How one run ends.                                                         *)

Ends(m, s) == run' = [run EXCEPT ![m] = s]

\* The team is over with a run it awaits directly.
Leaves(m) ==
    team' = IF m = Lead \/ protocol = "sequential" THEN "raised" ELSE team

\* A sequential team goes on with the next member, unless its token is set.
\* The others wait for all that is in flight.
RunReturnsInTurn(m) ==
    /\ protocol = "sequential" /\ ~aborting
    /\ run[m] = "running"
    /\ results' = Append(results, m)
    /\ IF m = N \/ cancelled
       THEN /\ Ends(m, "ok")
            /\ team' = IF m = N THEN "returned" ELSE "raised"
            /\ UNCHANGED <<children, cancelled, set>>
       ELSE /\ run' = [run EXCEPT ![m] = "ok", ![m + 1] = "running"]
            /\ NewChildren({m + 1})
            /\ UNCHANGED team
    /\ UNCHANGED <<protocol, aborting, replies>>

RunReturns(m) ==
    /\ protocol # "sequential"
    /\ m \in Members
    /\ run[m] = "running"
    /\ Ends(m, "ok")
    /\ UNCHANGED <<protocol, team, results, aborting, children, cancelled, set, replies>>

\* An exception of a member leaves a sequential team, makes the TaskGroup of
\* a parallel one cancel the other tasks, and becomes the result of the
\* coordinator's tool.
RunRaises(m) ==
    /\ m \in Members
    /\ run[m] = "running"
    /\ Ends(m, "raised")
    /\ Leaves(m)
    /\ aborting' = (aborting \/ protocol = "parallel")
    /\ UNCHANGED <<protocol, results, children, cancelled, set, replies>>

\* The run sees its token.  A TaskGroup takes the CancelledError for that of
\* its task and lets the others go on.
RunSeesToken(m) ==
    /\ m \in children \cap set
    /\ run[m] = "running"
    /\ AllDone \/ m # Lead
    /\ Ends(m, "cancelled")
    /\ Leaves(m)
    /\ UNCHANGED <<protocol, results, aborting, children, cancelled, set, replies>>

\* The task of the team is cancelled: so is what it awaits.
AbortTeam ==
    /\ team = "running"
    /\ ~aborting
    /\ aborting' = TRUE
    /\ UNCHANGED <<protocol, team, run, results, children, cancelled, set, replies>>

RunAborted(m) ==
    /\ aborting
    /\ Unfinished(m)
    /\ AllDone \/ m # Lead
    /\ Ends(m, "aborted")
    /\ Leaves(m)
    /\ UNCHANGED <<protocol, results, aborting, children, cancelled, set, replies>>

-----------------------------------------------------------------------------
(* The end of a parallel team and the replies of a coordinator.              *)

\* Mutant: asyncio.gather, which raises as soon as one member has.
GroupFailsAtOnce ==
    /\ protocol = "parallel" /\ team = "running"
    /\ \E m \in Members : run[m] \notin {"queued", "running", "ok"}
    /\ team' = "raised"
    /\ UNCHANGED <<protocol, run, results, aborting, children, cancelled, set, replies>>

\* The TaskGroup raises what its members raised, or task.result() the
\* CancelledError of one that saw its token.
GroupFails ==
    /\ protocol = "parallel" /\ team = "running"
    /\ AllDone
    /\ aborting \/ \E m \in Members : run[m] # "ok"
    /\ team' = "raised"
    /\ UNCHANGED <<protocol, run, results, aborting, children, cancelled, set, replies>>

GroupReturns ==
    /\ protocol = "parallel" /\ team = "running"
    /\ ~aborting
    /\ \A m \in Members : run[m] = "ok"
    /\ team' = "returned"
    /\ results' = [m \in Members |-> m]
    /\ UNCHANGED <<protocol, run, aborting, children, cancelled, set, replies>>

\* The coordinator calls members; their tools give them no token at all.
LeadCalls(ms) ==
    /\ run[Lead] = "running" /\ AllDone /\ ~aborting
    /\ ms # {}
    /\ replies < MaxReplies
    /\ replies' = replies + 1
    /\ run' = [m \in DOMAIN run |-> IF m \in ms THEN "queued" ELSE run[m]]
    /\ UNCHANGED <<protocol, team, results, aborting, children, cancelled, set>>

LeadEnds ==
    /\ run[Lead] = "running" /\ AllDone /\ ~aborting
    /\ \/ Ends(Lead, "ok") /\ team' = "returned" /\ results' = <<Lead>>
       \/ Ends(Lead, "raised") /\ team' = "raised" /\ UNCHANGED results
    /\ UNCHANGED <<protocol, aborting, children, cancelled, set, replies>>

RunEnds(m) == RunReturnsInTurn(m) \/ RunReturns(m) \/ RunRaises(m)

\* What a run does without its LLM.
RunStopped(m) == TaskStarts(m) \/ RunSeesToken(m) \/ RunAborted(m)

TeamEnds == BeginCancelled \/ GroupFails \/ GroupReturns

TeamNext ==
    \/ Begin \/ TeamEnds
    \/ \E m \in Members : RunEnds(m)
    \/ \E m \in Members \cup {Lead} : RunStopped(m)
    \/ \E ms \in SUBSET Members : LeadCalls(ms)
    \/ LeadEnds
    \/ CancelTeam \/ AbortTeam

TeamSpec == TeamInit /\ [][TeamNext]_teamVars

\* Tasks start, a set token is seen at the next turn (CancelEndsRun of
\* AgentLoop), a cancelled task ends; a member need not end by itself.
TeamFairness ==
    /\ \A m \in Members \cup {Lead} : WF_teamVars(RunStopped(m))
    /\ WF_teamVars(TeamEnds)

-----------------------------------------------------------------------------
TeamTypeOK ==
    /\ protocol \in Protocols
    /\ team \in {"idle", "running", "returned", "raised"}
    /\ run \in [Members \cup {Lead} ->
                  {"none", "queued", "running", "ok", "raised", "cancelled", "aborted"}]
    /\ results \in Seq(Members \cup {Lead})
    /\ aborting \in BOOLEAN
    /\ children \subseteq Members \cup {Lead}
    /\ cancelled \in BOOLEAN
    /\ set \subseteq children
    /\ replies \in 0 .. MaxReplies

\* A team that is over has left no run behind, however it ended; one that
\* returned has the results of all its members in their order, and each
\* member of a sequential team had the result of the one before.
TeamWhole ==
    /\ team \in {"returned", "raised"} => \A m \in DOMAIN run : ~Unfinished(m)
    /\ team = "returned" /\ protocol # "coordinator" =>
          /\ results = [m \in Members |-> m]
          /\ \A m \in Members : run[m] = "ok"
    /\ protocol = "sequential" =>
          \A m \in Members \ {1} : run[m] # "none" => run[m - 1] = "ok"

\* Cancelling the token of a sequential or parallel team ends it, even if no
\* member would ever end by itself.
CancelEndsTeam ==
    cancelled /\ team = "running" /\ protocol # "coordinator"
        ~> team \in {"returned", "raised"}

=============================================================================
