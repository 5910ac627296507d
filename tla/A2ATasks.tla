------------------------------- MODULE A2ATasks -------------------------------
(*****************************************************************************)
(* The agent-to-agent server (kasaya/a2a/server.py) and the life cycle of    *)
(* its tasks (task.py, adapter.py).  tasks/send makes a task under the id    *)
(* the caller chose ("" if it chose none), replacing any task of that id,    *)
(* and awaits the handler; tasks/cancel of that id may come meanwhile.  The  *)
(* other steps of a request have no await, so each is one action.            *)
(*****************************************************************************)
EXTENDS Naturals

CONSTANTS
    Sends,      \* tasks/send requests
    Ids,        \* ids callers choose
    NoTask      \* the value of an id that names no task

ASSUME TasksAssumption == NoTask \notin Sends

VARIABLES
    status,     \* A2ATask.status of the task each request made
    artifacts,  \* the number of its artifacts
    tasks,      \* A2AServer._tasks
    send        \* where each request is

taskVars == <<status, artifacts, tasks, send>>

\* Mutant: a canceled task may still be completed.
AllowedLate ==
    [none |-> {}, submitted |-> {"working", "canceled"},
     working |-> {"completed", "failed", "canceled"},
     completed |-> {}, failed |-> {}, canceled |-> {"completed"}]

\* transition() raises ValueError for any other change.
Allowed ==
    [none |-> {}, submitted |-> {"working", "canceled"},
     working |-> {"completed", "failed", "canceled"},
     completed |-> {}, failed |-> {}, canceled |-> {}]

TasksInit ==
    /\ status = [s \in Sends |-> "none"]
    /\ artifacts = [s \in Sends |-> 0]
    /\ tasks = [i \in Ids |-> NoTask]
    /\ send = [s \in Sends |-> "idle"]

\* _handle_send up to the call of the handler: the task has gone from
\* submitted to working.
Send(s, i) ==
    /\ send[s] = "idle"
    /\ send' = [send EXCEPT ![s] = "handling"]
    /\ status' = [status EXCEPT ![s] = "working"]
    /\ tasks' = [tasks EXCEPT ![i] = s]
    /\ UNCHANGED artifacts

\* apply_result_to_task: the artifact is added first, then the status changed.
HandlerReturns(s) ==
    /\ send[s] = "handling"
    /\ "completed" \in Allowed[status[s]]
    /\ artifacts' = [artifacts EXCEPT ![s] = @ + 1]
    /\ status' = [status EXCEPT ![s] = "completed"]
    /\ send' = [send EXCEPT ![s] = "answered"]
    /\ UNCHANGED tasks

\* The change raises, and so does mark_failed in the except clause: the
\* ValueError leaves handle_request.
ResultComesLate(s) ==
    /\ send[s] = "handling"
    /\ "completed" \notin Allowed[status[s]]
    /\ artifacts' = [artifacts EXCEPT ![s] = @ + 1]
    /\ send' = [send EXCEPT ![s] = "raised"]
    /\ UNCHANGED <<status, tasks>>

HandlerRaises(s) ==
    /\ send[s] = "handling"
    /\ "failed" \in Allowed[status[s]]
    /\ status' = [status EXCEPT ![s] = "failed"]
    /\ send' = [send EXCEPT ![s] = "answered"]
    /\ UNCHANGED <<artifacts, tasks>>

FailureComesLate(s) ==
    /\ send[s] = "handling"
    /\ "failed" \notin Allowed[status[s]]
    /\ send' = [send EXCEPT ![s] = "raised"]
    /\ UNCHANGED <<status, artifacts, tasks>>

\* CancelledError is no Exception: the request goes, the task stays working.
SendAborted(s) ==
    /\ send[s] = "handling"
    /\ send' = [send EXCEPT ![s] = "raised"]
    /\ UNCHANGED <<status, artifacts, tasks>>

\* _handle_cancel of an id whose task can be canceled; else an error response.
CancelTask(i) ==
    /\ tasks[i] # NoTask
    /\ "canceled" \in Allowed[status[tasks[i]]]
    /\ status' = [status EXCEPT ![tasks[i]] = "canceled"]
    /\ UNCHANGED <<artifacts, tasks, send>>

TasksNext ==
    \/ \E s \in Sends :
          \/ \E i \in Ids : Send(s, i)
          \/ HandlerReturns(s) \/ ResultComesLate(s)
          \/ HandlerRaises(s) \/ FailureComesLate(s)
          \/ SendAborted(s)
    \/ \E i \in Ids : CancelTask(i)

TasksSpec == TasksInit /\ [][TasksNext]_taskVars

TasksTypeOK ==
    /\ status \in [Sends -> DOMAIN Allowed]
    /\ artifacts \in [Sends -> Nat]
    /\ tasks \in [Ids -> Sends \cup {NoTask}]
    /\ send \in [Sends -> {"idle", "handling", "answered", "raised"}]

Lifecycle == INSTANCE TaskLifecycle WITH
    delivered <- {s \in Sends : artifacts[s] > 0},
    answered <- {s \in Sends : send[s] = "answered"}

\* However cancellations, results, failures and reused ids race, the server
\* keeps its promise: TaskLifecycle is implemented.
LifecycleSpec == Lifecycle!LifecycleSpec

=============================================================================
