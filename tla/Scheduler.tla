------------------------------ MODULE Scheduler ------------------------------
(*****************************************************************************)
(* The scheduler of the service (app/services/scheduler_engine.py): one loop *)
(* polls for due tasks and executes them one after another in one database   *)
(* session, while users change, disable and trigger tasks                    *)
(* (scheduled_task.py, api/scheduled_tasks.py) and the process may die.      *)
(* The time of a task is abstract: due or not.                               *)
(*****************************************************************************)
EXTENDS Naturals, Sequences, FiniteSets

CONSTANTS
    Tasks,
    Fragile,        \* tasks whose work may break the database session
    MaxCrashes      \* how often the process dies

ASSUME SchedulerAssumption == Fragile \subseteq Tasks /\ MaxCrashes \in Nat

VARIABLES
    due,        \* next_run_at <= now
    enabled,    \* is_enabled and not is_deleted
    batch,      \* the due_tasks of this poll not yet executed
    executing,  \* the first of them is being executed
    broken,     \* a task of the last poll broke the session
    crashes

schedulerVars == <<due, enabled, batch, executing, broken, crashes>>

SchedulerInit ==
    /\ due = {}
    /\ enabled = Tasks
    /\ batch = <<>>
    /\ executing = FALSE
    /\ broken = FALSE
    /\ crashes = 0

Ready == due \cap enabled

\* The query has no ORDER BY.
Orders(S) ==
    {b \in [1 .. Cardinality(S) -> S] : \A t \in S : \E i \in DOMAIN b : b[i] = t}

\* poll_and_execute reads the due tasks, once for the whole batch.
Poll ==
    /\ batch = <<>>
    /\ Ready # {} \/ broken
    /\ batch' \in Orders(Ready)
    /\ broken' = FALSE
    /\ UNCHANGED <<due, enabled, executing, crashes>>

\* execute_task writes its run as "running", uncommitted, and does the work,
\* of a task that may no longer be enabled, nor due.
Execute ==
    /\ batch # <<>>
    /\ ~executing
    /\ executing' = TRUE
    /\ UNCHANGED <<due, enabled, batch, broken, crashes>>

\* The run is a success: next_run_at moves on, and all is committed.
Succeeds ==
    /\ executing
    /\ executing' = FALSE
    /\ due' = due \ {Head(batch)}
    /\ batch' = Tail(batch)
    /\ UNCHANGED <<enabled, broken, crashes>>

\* Mutant: next_run_at moves on after a success only.
FailsAgain ==
    /\ executing
    /\ executing' = FALSE
    /\ batch' = Tail(batch)
    /\ UNCHANGED <<due, enabled, broken, crashes>>

\* So it does after a failure.
Fails ==
    /\ executing
    /\ executing' = FALSE
    /\ due' = due \ {Head(batch)}
    /\ batch' = Tail(batch)
    /\ UNCHANGED <<enabled, broken, crashes>>

\* The work leaves the session unusable: its commit fails, and so does
\* everything else of this poll.
Breaks ==
    /\ executing
    /\ Head(batch) \in Fragile
    /\ executing' = FALSE
    /\ batch' = <<>>
    /\ broken' = TRUE
    /\ UNCHANGED <<due, enabled, crashes>>

\* The process dies and is started again: nothing of the running task is
\* committed.
Die ==
    /\ crashes < MaxCrashes
    /\ crashes' = crashes + 1
    /\ executing' = FALSE
    /\ batch' = <<>>
    /\ UNCHANGED <<due, enabled, broken>>

DueComes(t) ==
    /\ due' = due \cup {t}
    /\ UNCHANGED <<enabled, batch, executing, broken, crashes>>

\* update_scheduled_task and delete_scheduled_task.
Enable(t) ==
    /\ enabled' = enabled \cup {t}
    /\ UNCHANGED <<due, batch, executing, broken, crashes>>

Disable(t) ==
    /\ enabled' = enabled \ {t}
    /\ UNCHANGED <<due, batch, executing, broken, crashes>>

\* A new cron expression, or a manual run in a session of its own: the next
\* time lies ahead.
Reschedule(t) ==
    /\ due' = due \ {t}
    /\ UNCHANGED <<enabled, batch, executing, broken, crashes>>

SchedulerStep == Poll \/ Execute \/ Succeeds \/ Fails \/ Breaks

SchedulerNext ==
    \/ SchedulerStep
    \/ Die
    \/ \E t \in Tasks : DueComes(t) \/ Enable(t) \/ Disable(t) \/ Reschedule(t)

SchedulerSpec == SchedulerInit /\ [][SchedulerNext]_schedulerVars

\* The loop goes on for ever and the work of a task ends.
SchedulerFairness == WF_schedulerVars(SchedulerStep)

-----------------------------------------------------------------------------
SchedulerTypeOK ==
    /\ due \subseteq Tasks
    /\ enabled \subseteq Tasks
    /\ batch \in Seq(Tasks)
    /\ executing \in BOOLEAN
    /\ broken \in BOOLEAN
    /\ crashes \in 0 .. MaxCrashes

\* Every due task has its turn, whatever users change during the batch and
\* wherever the process dies, unless some task goes on breaking the session:
\* that one is due at once again, and may come before it each time.
DueRuns ==
    (\A t \in Tasks : t \in Ready ~> t \notin Ready) \/ []<>broken

=============================================================================
