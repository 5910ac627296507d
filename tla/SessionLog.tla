------------------------------- MODULE SessionLog ------------------------------
(*****************************************************************************)
(* What the owner of a session relies on when it is handed to Runner.run     *)
(* (kasaya/kasaya/runner/runner.py): a run adds to it what was said, all of  *)
(* it, at one point and in order, or nothing; it has done so when it ends by *)
(* itself; and no message enters the session twice.  Whoever called it then  *)
(* keeps that or takes it back, all of it, before the next run begins.  How  *)
(* a run comes to say what it says, and what it resumes from, is in          *)
(* AgentRun.                                                                 *)
(*****************************************************************************)
EXTENDS Naturals, SequencesExt

VARIABLES
    log,        \* what the session holds
    was,        \* what it held when the latest run began
    said,       \* what that run has said, in order
    run,        \* that run is "open", has been "kept", was "left" by an abort,
                \* or is "over" and its caller has kept it or taken it back
    again       \* a run went on, from a checkpoint, in a session already used

logVars == <<log, was, said, run, again>>

LogInit ==
    /\ log = <<>>
    /\ was = <<>>
    /\ said = <<>>
    /\ run = "over"
    /\ again = FALSE

\* No message is said twice, or has been said before.  The exception is known:
\* a run that goes on from a checkpoint in a session that is not empty may say
\* what is there already.
SaysAnew == again' \/ IsInjective(log \o said')

\* A run is begun, with something said.
Enters ==
    /\ run = "over"
    /\ SaysAnew
    /\ again => again'
    /\ again' => again \/ log # <<>>
    /\ was' = log

Begin ==
    /\ Enters
    /\ run' = "open"
    /\ UNCHANGED log

\* The run is refused: what it was given is all that is said.
Refuse ==
    /\ Enters
    /\ run' = "kept"
    /\ log' = log \o said'

Say ==
    /\ run = "open"
    /\ IsPrefix(said, said')
    /\ SaysAnew
    /\ UNCHANGED <<log, was, run, again>>

Keep ==
    /\ run = "open"
    /\ run' = "kept"
    /\ log' = log \o said
    /\ UNCHANGED <<was, said, again>>

\* The run is aborted, before or after it was kept: nobody is told which.
Leave ==
    /\ run \in {"open", "kept"}
    /\ run' = "left"
    /\ UNCHANGED <<log, was, said, again>>

\* The caller's transaction is committed, or rolled back.
Settle ==
    /\ run \in {"kept", "left"}
    /\ run' = "over"
    /\ log' \in {log, was}
    /\ UNCHANGED <<was, said, again>>

LogNext == Begin \/ Refuse \/ Say \/ Keep \/ Leave \/ Settle

Spec == LogInit /\ [][LogNext]_logVars

-----------------------------------------------------------------------------
\* No message is in the session twice, unless it was gone on in.
Once == again \/ IsInjective(log)
=============================================================================
