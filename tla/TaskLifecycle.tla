---------------------------- MODULE TaskLifecycle ----------------------------
(*****************************************************************************)
(* What an agent-to-agent server promises of its tasks: each is settled at   *)
(* most once and for good, a task that is completed has its artifact, and a  *)
(* request is answered only with a task that is completed or failed.         *)
(* A2ATasks implements it.                                                   *)
(*****************************************************************************)
CONSTANTS Sends     \* the requests, each of which makes a task

VARIABLES
    status,     \* of the task of each request
    delivered,  \* tasks that have an artifact
    answered    \* requests answered with their task

lifecycleVars == <<status, delivered, answered>>

LifecycleInit ==
    /\ status = [s \in Sends |-> "none"]
    /\ delivered = {}
    /\ answered = {}

Begin(s) ==
    /\ status[s] = "none"
    /\ status' = [status EXCEPT ![s] = "working"]
    /\ UNCHANGED <<delivered, answered>>

Complete(s) ==
    /\ status[s] = "working"
    /\ status' = [status EXCEPT ![s] = "completed"]
    /\ delivered' = delivered \cup {s}
    /\ answered' = answered \cup {s}

Fail(s) ==
    /\ status[s] = "working"
    /\ status' = [status EXCEPT ![s] = "failed"]
    /\ answered' = answered \cup {s}
    /\ UNCHANGED delivered

Cancel(s) ==
    /\ status[s] = "working"
    /\ status' = [status EXCEPT ![s] = "canceled"]
    /\ UNCHANGED <<delivered, answered>>

\* A result that comes too late is kept, but changes nothing else.
DeliverLate(s) ==
    /\ status[s] = "canceled"
    /\ delivered' = delivered \cup {s}
    /\ UNCHANGED <<status, answered>>

LifecycleNext ==
    \E s \in Sends : Begin(s) \/ Complete(s) \/ Fail(s) \/ Cancel(s) \/ DeliverLate(s)

LifecycleSpec == LifecycleInit /\ [][LifecycleNext]_lifecycleVars

=============================================================================
