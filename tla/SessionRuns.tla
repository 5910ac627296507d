----------------------------- MODULE SessionRuns -----------------------------
(*****************************************************************************)
(* The runs of one session in the service: execute_run and                   *)
(* execute_run_stream (app/services/session.py), the registry of their       *)
(* cancellation tokens (run_registry.py), and the transaction in which a run *)
(* saves its messages and adds to message_count (session_backend.py).        *)
(*                                                                           *)
(* The runner is AgentRun seen from outside: it saves once, as its last act, *)
(* unless it is cancelled or fails.  What it saves is flushed, not           *)
(* committed: the request's transaction is, by the token audit or at the end *)
(* of the post-processing.  A streamed run is a generator, suspended at      *)
(* each event until the client has taken it; a client that goes away closes  *)
(* the generator where it stands.  PostgreSQL reads what is committed and    *)
(* holds the lock of a written row until the transaction ends.               *)
(*****************************************************************************)
EXTENDS Naturals, FiniteSets

CONSTANTS
    Runs,           \* the requests on the session
    Streamed        \* those with config.stream

ASSUME RunsAssumption == IsFiniteSet(Runs) /\ Streamed \subseteq Runs

VARIABLES
    stage,      \* where each request is
    result,     \* what its runner came to
    answer,     \* what its client was told at last
    tokens,     \* run_registry._tokens
    cancelled,  \* tokens that are set
    base,       \* the message_count each run read, 0 for no row
    dirty,      \* runs whose save is flushed and not committed: at most one,
                \* for it holds the lock of the session's row
    rows,       \* runs whose messages are committed
    count,      \* the committed message_count, in saves; 0 for no row
    logs,       \* runs whose token usage is committed
    abandoned,  \* history: streams whose client left at run_start
    spoiled,    \* history: runs rolled back while being post-processed
    overlapped  \* history: two runs were saving at once

sessionVars == <<stage, result, answer, tokens, cancelled, base, dirty, rows, count,
                 logs, abandoned, spoiled, overlapped>>
databaseVars == <<dirty, rows, count, logs>>
historyVars == <<abandoned, spoiled, overlapped>>

Registered == {"started", "running", "read", "saved", "told"}
Posting == {"auditing", "closing"}

SessionInit ==
    /\ stage = [r \in Runs |-> "idle"]
    /\ result = [r \in Runs |-> "none"]
    /\ answer = [r \in Runs |-> "none"]
    /\ tokens = {}
    /\ cancelled = {}
    /\ base = [r \in Runs |-> 0]
    /\ dirty = {}
    /\ rows = {}
    /\ count = 0
    /\ logs = {}
    /\ abandoned = {}
    /\ spoiled = {}
    /\ overlapped = FALSE

To(r, s) == stage' = [stage EXCEPT ![r] = s]

\* The request is done and its variables are gone.
Over(r) ==
    /\ To(r, "over")
    /\ result' = [result EXCEPT ![r] = "none"]

Answer(r, a) == answer' = [answer EXCEPT ![r] = a]

-----------------------------------------------------------------------------
(* The request's transaction.                                                *)

\* What a run has read it forgets with its transaction.
Forget(r) == base' = [base EXCEPT ![r] = 0]

Commit(r) ==
    /\ rows' = IF r \in dirty THEN rows \cup {r} ELSE rows
    /\ count' = IF r \in dirty THEN base[r] + 1 ELSE count
    /\ dirty' = dirty \ {r}
    /\ Forget(r)

\* Mutant: the connection goes back to the pool with its transaction open.
RollbackNever(r) ==
    /\ Forget(r)
    /\ UNCHANGED <<dirty, rows, count>>

\* Mutant: message_count was written through a connection of its own.
RollbackHalf(r) ==
    /\ dirty' = dirty \ {r}
    /\ Forget(r)
    /\ count' = IF r \in dirty THEN base[r] + 1 ELSE count
    /\ UNCHANGED rows

Rollback(r) ==
    /\ dirty' = dirty \ {r}
    /\ Forget(r)
    /\ UNCHANGED <<rows, count>>

-----------------------------------------------------------------------------
(* From the request to the end of the runner.                                *)

\* Agent, provider and tools are resolved; the token is registered.  A stream
\* is now suspended at run_start, outside its try block.
Request(r) ==
    /\ stage[r] = "idle"
    /\ To(r, IF r \in Streamed THEN "started" ELSE "running")
    /\ tokens' = tokens \cup {r}
    /\ UNCHANGED <<result, answer, cancelled, base, databaseVars, historyVars>>

StartTaken(r) ==
    /\ stage[r] = "started"
    /\ To(r, "running")
    /\ UNCHANGED <<result, answer, tokens, cancelled, base, databaseVars, historyVars>>

\* The runner raises before it saves: its token was set, or something failed.
RunnerRaises(r) ==
    /\ stage[r] = "running"
    /\ \E how \in IF r \in cancelled THEN {"cancelled", "failed"} ELSE {"failed"} :
           result' = [result EXCEPT ![r] = how]
    /\ To(r, "saved")
    /\ UNCHANGED <<answer, tokens, cancelled, base, databaseVars, historyVars>>

Saves(r) == stage[r] = "read" \/ r \in dirty

\* session.append: the messages are flushed and message_count is read.  A run
\* that tripped a guardrail saves as well.
ReadCount(r) ==
    /\ stage[r] = "running"
    /\ \E how \in {"ok", "tripped"} : result' = [result EXCEPT ![r] = how]
    /\ To(r, "read")
    /\ base' = [base EXCEPT ![r] = count]
    /\ overlapped' = (overlapped \/ \E s \in Runs \ {r} : Saves(s))
    /\ UNCHANGED <<answer, tokens, cancelled, databaseVars, abandoned, spoiled>>

\* Both a first row and a change of the row wait for whoever wrote it.
WriteCount(r) ==
    /\ stage[r] = "read"
    /\ dirty = {}
    /\ ~(base[r] = 0 /\ count > 0)
    /\ To(r, "saved")
    /\ dirty' = {r}
    /\ UNCHANGED <<result, answer, tokens, cancelled, base, rows, count, logs, historyVars>>

\* Someone else's first row has been committed: IntegrityError out of the
\* runner, and the flushed messages are rolled back.
CountCollides(r) ==
    /\ stage[r] = "read"
    /\ dirty = {}
    /\ base[r] = 0 /\ count > 0
    /\ To(r, "saved")
    /\ result' = [result EXCEPT ![r] = "failed"]
    /\ UNCHANGED <<answer, tokens, cancelled, base, databaseVars, historyVars>>

-----------------------------------------------------------------------------
(* What execute_run makes of it.                                             *)

\* run_registry.unregister, in the finally clause.
Unregister(r) ==
    /\ tokens' = tokens \ {r}
    /\ cancelled' = cancelled \ {r}

Outcome == [ok |-> "completed", tripped |-> "blocked", cancelled |-> "cancelled",
            failed |-> "error"]

\* A completed run is post-processed.
RunReturns(r) ==
    /\ r \notin Streamed
    /\ stage[r] = "saved"
    /\ result[r] = "ok"
    /\ To(r, "auditing")
    /\ Unregister(r)
    /\ UNCHANGED <<result, answer, base, databaseVars, historyVars>>

\* Any other is answered at once, and the transaction dropped.
RunAnswersEarly(r) ==
    /\ r \notin Streamed
    /\ stage[r] = "saved"
    /\ result[r] # "ok"
    /\ Over(r)
    /\ Answer(r, Outcome[result[r]])
    /\ Unregister(r)
    /\ Rollback(r)
    /\ UNCHANGED <<logs, historyVars>>

\* A stream sends run_end or an error event, inside its try block ...
Tell(r) ==
    /\ r \in Streamed
    /\ stage[r] = "saved"
    /\ To(r, "told")
    /\ Answer(r, Outcome[result[r]])
    /\ UNCHANGED <<result, tokens, cancelled, base, databaseVars, historyVars>>

\* ... and goes on with the post-processing, however the run ended, once the
\* client has taken it.
EndTaken(r) ==
    /\ stage[r] = "told"
    /\ To(r, "auditing")
    /\ Unregister(r)
    /\ UNCHANGED <<result, answer, base, databaseVars, historyVars>>

-----------------------------------------------------------------------------
(* Post-processing.                                                          *)

\* Mutant: the audit commits through a connection of its own.
AuditApart(r) ==
    /\ stage[r] = "auditing"
    /\ result[r] = "ok"
    /\ To(r, "closing")
    /\ logs' = logs \cup {r}
    /\ UNCHANGED <<result, answer, tokens, cancelled, base, dirty, rows, count,
                   historyVars>>

\* _save_token_usage_from_trace: its commit takes the messages along.
Audit(r) ==
    /\ stage[r] = "auditing"
    /\ result[r] = "ok"
    /\ To(r, "closing")
    /\ Commit(r)
    /\ logs' = logs \cup {r}
    /\ UNCHANGED <<result, answer, tokens, cancelled, historyVars>>

\* A failure rolls everything back and is logged.
AuditFails(r) ==
    /\ stage[r] = "auditing"
    /\ result[r] = "ok"
    /\ To(r, "closing")
    /\ Rollback(r)
    /\ spoiled' = spoiled \cup {r}
    /\ UNCHANGED <<result, answer, tokens, cancelled, logs, abandoned, overlapped>>

\* There is no result, or no usage in its trace.
AuditNothing(r) ==
    /\ stage[r] = "auditing"
    /\ To(r, "closing")
    /\ UNCHANGED <<result, answer, tokens, cancelled, base, databaseVars, historyVars>>

\* Only after the last commit is a run that is not streamed answered.
AnswerLast(r, a) == IF r \in Streamed THEN UNCHANGED answer ELSE Answer(r, a)

\* _save_trace_from_processor flushes, the journal has a savepoint of its own,
\* and the last commit takes it all.
Finish(r) ==
    /\ stage[r] = "closing"
    /\ Over(r)
    /\ Commit(r)
    /\ AnswerLast(r, "completed")
    /\ UNCHANGED <<tokens, cancelled, logs, historyVars>>

\* The trace cannot be written: that is logged and rolled back, with whatever
\* was not yet committed, and the last commit has nothing to do.
FinishSpoiled(r) ==
    /\ stage[r] = "closing"
    /\ Over(r)
    /\ Rollback(r)
    /\ AnswerLast(r, "completed")
    /\ spoiled' = spoiled \cup {r}
    /\ UNCHANGED <<tokens, cancelled, logs, abandoned, overlapped>>

FinishFails(r) ==
    /\ stage[r] = "closing"
    /\ Over(r)
    /\ Rollback(r)
    /\ AnswerLast(r, "error")
    /\ UNCHANGED <<tokens, cancelled, logs, historyVars>>

-----------------------------------------------------------------------------
(* Clients, operators and the process.                                       *)

\* Mutant: the finally clause is missed when the generator is closed.
ClientLeavesRegistered(r) ==
    /\ r \in Streamed
    /\ stage[r] \in Registered \cup Posting
    /\ Over(r)
    /\ Rollback(r)
    /\ abandoned' = IF stage[r] = "started" THEN abandoned \cup {r} ELSE abandoned
    /\ UNCHANGED <<answer, tokens, cancelled, logs, spoiled, overlapped>>

\* The client of a stream goes away.  At run_start the generator is not yet
\* in the try block whose finally clause unregisters the run.
ClientLeaves(r) ==
    /\ r \in Streamed
    /\ stage[r] \in Registered \cup Posting
    /\ Over(r)
    /\ Rollback(r)
    /\ IF stage[r] = "started"
       THEN abandoned' = abandoned \cup {r} /\ UNCHANGED <<tokens, cancelled>>
       ELSE Unregister(r) /\ UNCHANGED abandoned
    /\ UNCHANGED <<answer, logs, spoiled, overlapped>>

\* cancel_run of a run it finds.
CancelRun(r) ==
    /\ r \in tokens \ cancelled
    /\ cancelled' = cancelled \cup {r}
    /\ UNCHANGED <<stage, result, answer, tokens, base, databaseVars, historyVars>>

\* The process dies; what it had not committed is rolled back.
Crash ==
    /\ \E r \in Runs : stage[r] \in Registered \cup Posting
    /\ stage' = [r \in Runs |-> IF stage[r] = "idle" THEN "idle" ELSE "over"]
    /\ tokens' = {}
    /\ cancelled' = {}
    /\ dirty' = {}
    /\ abandoned' = {}
    /\ result' = [r \in Runs |-> "none"]
    /\ base' = [r \in Runs |-> 0]
    /\ UNCHANGED <<answer, rows, count, logs, spoiled, overlapped>>

\* What the code does by itself.
RequestStep(r) ==
    \/ RunnerRaises(r) \/ ReadCount(r) \/ WriteCount(r) \/ CountCollides(r)
    \/ RunReturns(r) \/ RunAnswersEarly(r) \/ Tell(r)
    \/ Audit(r) \/ AuditFails(r) \/ AuditNothing(r)
    \/ Finish(r) \/ FinishSpoiled(r) \/ FinishFails(r)

\* What the client of a stream does: it takes an event, or leaves.
ClientStep(r) == StartTaken(r) \/ EndTaken(r) \/ ClientLeaves(r)

SessionNext ==
    \/ \E r \in Runs : Request(r) \/ RequestStep(r) \/ ClientStep(r) \/ CancelRun(r)
    \/ Crash

SessionSpec == SessionInit /\ [][SessionNext]_sessionVars

\* Runners end (RunsEnd of AgentLoop), and a client takes its events or its
\* connection breaks: nobody keeps a stream, and the lock it may hold, for
\* ever.
SessionFairness ==
    \A r \in Runs : WF_sessionVars(RequestStep(r)) /\ WF_sessionVars(ClientStep(r))

-----------------------------------------------------------------------------
SessionTypeOK ==
    /\ stage \in [Runs -> Registered \cup Posting \cup {"idle", "over"}]
    /\ result \in [Runs -> {"none", "ok", "tripped", "cancelled", "failed"}]
    /\ answer \in [Runs -> {"none", "completed", "blocked", "cancelled", "error"}]
    /\ tokens \subseteq Runs
    /\ cancelled \subseteq Runs
    /\ base \in [Runs -> Nat]
    /\ dirty \subseteq Runs
    /\ rows \subseteq Runs
    /\ count \in Nat
    /\ logs \subseteq Runs
    /\ abandoned \subseteq Runs
    /\ spoiled \subseteq Runs
    /\ overlapped \in BOOLEAN

\* The database agrees with what clients are told: tokens are never charged
\* for messages that were lost, a completed answer means the messages are
\* there (unless the audit or the trace failed and took them along), and a
\* run that answered blocked or cancelled leaves none.
SavedAsAnswered ==
    /\ logs \subseteq rows
    /\ \A r \in Runs \ Streamed :
          /\ answer[r] = "completed" => r \in rows \cup spoiled
          /\ answer[r] \in {"blocked", "cancelled"} => r \notin rows

\* message_count never exceeds the messages, is absent only when they are,
\* and is right unless two runs of the session were saving at once.
CountUnder ==
    /\ count <= Cardinality(rows)
    /\ count = 0 <=> rows = {}
    /\ ~overlapped => count = Cardinality(rows)

\* A token is registered exactly as long as its run can be cancelled, on
\* every way out, but for the streams whose client left at run_start.
RegistryReleased ==
    tokens = {r \in Runs : stage[r] \in Registered} \cup abandoned

\* Every request ends, though runs wait for each other's lock while a stream
\* that holds it is suspended.
RequestsEnd ==
    \A r \in Runs : stage[r] \in Registered \cup Posting ~> stage[r] = "over"

=============================================================================
