------------------------------- MODULE Approval --------------------------------
(*****************************************************************************)
(* One approval request of the backend: the run that asks for it             *)
(* (HttpApprovalHandler.request_approval), the users who resolve it through  *)
(* the API (resolve_approval_request), the in-process ApprovalManager that   *)
(* joins them and the row of approval_requests they both write.              *)
(*                                                                           *)
(* A step is the code between two awaits.  The database is READ COMMITTED:   *)
(* a flushed UPDATE locks the row until the transaction ends, a SELECT sees  *)
(* the committed value.  Requests are keyed by a fresh uuid throughout, so   *)
(* one of them shows what any number does.                                   *)
(*****************************************************************************)
CONSTANT Resolvers      \* API calls that resolve the request

VARIABLES
    handler,    \* where request_approval is
    decision,   \* what it returns to the run
    row,        \* the committed status of the row
    lock,       \* the resolver whose UPDATE holds the row, if any
    event,      \* the request's entry of _pending: absent, unset or set
    told,       \* its entry of _decisions
    call,       \* call[r]: where the API call r is
    verdict,    \* verdict[r]: what r asks for
    notified    \* history: the resolvers that found an event to set

approvalVars == <<handler, decision, row, lock, event, told, call, verdict, notified>>

None == "none"
Verdicts == {"approved", "rejected"}
Statuses == Verdicts \cup {"pending", "timeout"}

ApprovalInit ==
    /\ handler = "start"
    /\ decision = None
    /\ row = None
    /\ lock = None
    /\ event = "absent"
    /\ told = None
    /\ call = [r \in Resolvers |-> "idle"]
    /\ verdict \in [Resolvers -> Verdicts]
    /\ notified = {}

-----------------------------------------------------------------------------
(* request_approval *)

\* The row is committed, then published and announced through IM; the event
\* does not exist yet.
Create ==
    /\ handler = "start"
    /\ handler' = "created"
    /\ row' = "pending"
    /\ UNCHANGED <<decision, lock, event, told, call, verdict, notified>>

\* register, and wait_for_decision up to its await.
Register ==
    /\ handler = "created"
    /\ handler' = "waiting"
    /\ event' = "unset"
    /\ UNCHANGED <<decision, row, lock, told, call, verdict, notified>>

\* wait_for_decision returns d after cleanup.
Return(d) ==
    /\ handler' = "decided"
    /\ decision' = d
    /\ event' = "absent"
    /\ UNCHANGED <<row, lock, call, verdict, notified>>

Wake ==
    /\ handler = "waiting"
    /\ event = "set"
    /\ Return(told)
    /\ told' = None

\* Mutant: only a request that was never registered times out.
ExpireUnregistered ==
    /\ handler = "waiting"
    /\ event = "absent"
    /\ Return("timeout")
    /\ UNCHANGED told

\* The timer may also fire between event.set() and the waiting task's next
\* step: the decision then stays behind in _decisions.
Expire ==
    /\ handler = "waiting"
    /\ Return("timeout")
    /\ UNCHANGED told

\* Mutant: the handler only writes a timeout.
LookTimeout ==
    /\ handler = "decided"
    /\ handler' = IF row = "pending" /\ decision = "timeout" THEN "writing" ELSE "done"
    /\ UNCHANGED <<decision, row, lock, event, told, call, verdict, notified>>

\* The handler's SELECT: the status is its own to write only if it is pending.
Look ==
    /\ handler = "decided"
    /\ handler' = IF row = "pending" THEN "writing" ELSE "done"
    /\ UNCHANGED <<decision, row, lock, event, told, call, verdict, notified>>

\* Its UPDATE waits for the row and overwrites whatever is there by then.
Record ==
    /\ handler = "writing"
    /\ lock = None
    /\ handler' = "done"
    /\ row' = decision
    /\ UNCHANGED <<decision, lock, event, told, call, verdict, notified>>

\* The run is cancelled while it waits, or the process restarts: the manager
\* forgets the request, the row stays.
Lose ==
    /\ handler \in {"created", "waiting", "decided", "writing"}
    /\ handler' = "lost"
    /\ event' = "absent"
    /\ UNCHANGED <<decision, row, lock, told, call, verdict, notified>>

-----------------------------------------------------------------------------
(* resolve_approval_request *)

\* Mutant: the status is not checked.
CheckNot(r) ==
    /\ call[r] = "idle"
    /\ row # None
    /\ call' = [call EXCEPT ![r] = "checked"]
    /\ UNCHANGED <<handler, decision, row, lock, event, told, verdict, notified>>

\* Only a pending request may be resolved.
Check(r) ==
    /\ call[r] = "idle"
    /\ row # None
    /\ call' = [call EXCEPT ![r] = IF row = "pending" THEN "checked" ELSE "refused"]
    /\ UNCHANGED <<handler, decision, row, lock, event, told, verdict, notified>>

Flush(r) ==
    /\ call[r] = "checked"
    /\ lock = None
    /\ lock' = r
    /\ call' = [call EXCEPT ![r] = "flushed"]
    /\ UNCHANGED <<handler, decision, row, event, told, verdict, notified>>

\* Mutant: the manager is told of an approval whatever was asked for.
NotifyApproves(r) ==
    /\ call[r] = "flushed"
    /\ call' = [call EXCEPT ![r] = "told"]
    /\ IF event = "absent"
       THEN UNCHANGED <<event, told, notified>>
       ELSE /\ event' = "set"
            /\ told' = "approved"
            /\ notified' = notified \cup {r}
    /\ UNCHANGED <<handler, decision, row, lock, verdict>>

\* ApprovalManager.resolve: without an event nobody is told.
Notify(r) ==
    /\ call[r] = "flushed"
    /\ call' = [call EXCEPT ![r] = "told"]
    /\ IF event = "absent"
       THEN UNCHANGED <<event, told, notified>>
       ELSE /\ event' = "set"
            /\ told' = verdict[r]
            /\ notified' = notified \cup {r}
    /\ UNCHANGED <<handler, decision, row, lock, verdict>>

Commit(r) ==
    /\ call[r] = "told"
    /\ call' = [call EXCEPT ![r] = "done"]
    /\ row' = verdict[r]
    /\ lock' = None
    /\ UNCHANGED <<handler, decision, event, told, verdict, notified>>

\* The commit fails and the transaction is rolled back: the run was told.
Rollback(r) ==
    /\ call[r] = "told"
    /\ call' = [call EXCEPT ![r] = "failed"]
    /\ lock' = None
    /\ UNCHANGED <<handler, decision, row, event, told, verdict, notified>>

-----------------------------------------------------------------------------
HandlerStep == Create \/ Register \/ Wake \/ Expire \/ Look \/ Record
ResolverStep(r) ==
    Check(r) \/ Flush(r) \/ Notify(r) \/ Commit(r) \/ Rollback(r)

ApprovalNext == HandlerStep \/ Lose \/ \E r \in Resolvers : ResolverStep(r)

ApprovalSpec == ApprovalInit /\ [][ApprovalNext]_approvalVars

\* Queries return, the wait has a timeout, and an API call that has flushed
\* goes on to commit or roll back.
ApprovalFairness ==
    /\ WF_approvalVars(HandlerStep)
    /\ \A r \in Resolvers : WF_approvalVars(ResolverStep(r))

FairApprovalSpec == ApprovalSpec /\ ApprovalFairness

-----------------------------------------------------------------------------
\* Types; and there is a row from the moment the handler has created it.
ApprovalTypeOK ==
    /\ handler \in {"start", "created", "waiting", "decided", "writing", "done", "lost"}
    /\ decision \in Verdicts \cup {None, "timeout"}
    /\ row \in Statuses \cup {None}
    /\ (row = None) = (handler = "start")
    /\ lock \in Resolvers \cup {None}
    /\ event \in {"absent", "unset", "set"}
    /\ told \in Verdicts \cup {None}
    /\ call \in [Resolvers -> {"idle", "checked", "refused", "flushed", "told", "done", "failed"}]
    /\ verdict \in [Resolvers -> Verdicts]
    /\ notified \subseteq Resolvers

\* The run acts on what a resolver that found the request pending has asked
\* for, or on a timeout: no tool runs that nobody approved.
DecisionMeant ==
    decision \in Verdicts => \E r \in notified : verdict[r] = decision

\* A request that has run its course is not left pending: whoever comes too
\* late, fails to commit or is overtaken, the row gets a final status.
Settled == handler = "done" => row # "pending"

\* The API calls that passed the check.
Voters == {r \in Resolvers : call[r] \notin {"idle", "refused"}}

\* With one voter, a run that was told a verdict and the row agree when the
\* handler is done, even if the voter's own commit fails.
SoleVoterHeeded ==
    \A r \in Resolvers :
        handler = "done" /\ decision \in Verdicts /\ Voters = {r} => row = decision

\* resolve_approval_request's docstring: the request must be pending.  Refuted:
\* a status that is final is overwritten by a second caller, or the handler,
\* that read it before.
ResolvedOnce == [][(row \in Verdicts) => row' = row]_approvalVars

\* A run that asks for approval goes on, whether anyone answers or not.
HandlerEnds == handler = "created" ~> handler \in {"done", "lost"}
=============================================================================
