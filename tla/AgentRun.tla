------------------------------- MODULE AgentRun --------------------------------
(*****************************************************************************)
(* What a run says, saves and resumes from: the transcript that Runner.run   *)
(* hands to the LLM, the session it is appended to when the run ends, and    *)
(* the checkpoints a later run(resume_from=...) starts from.  Every step is  *)
(* a step of AgentLoop that also moves messages.                             *)
(*                                                                           *)
(* One session, one run at a time; a run may end in any way AgentLoop        *)
(* knows, and its run_id may be resumed as long as no other run has begun.   *)
(*                                                                           *)
(* In the database the session's messages and the checkpoints are flushed    *)
(* to a transaction of the caller (app/services/checkpoint_backend.py,       *)
(* session_backend.py): whoever called run() commits it or rolls it back     *)
(* when the run has ended.  A process that dies is an abort and a rollback.  *)
(* The memory backend forgets with its process, so there an abort is only    *)
(* a task that was cancelled.                                                *)
(*****************************************************************************)
EXTENDS AgentLoop, Sequences, SequencesExt

CONSTANTS
    MaxRuns,        \* bound on the calls of run()
    CallCounts,     \* how many tool calls a reply may have
    MaxLost,        \* bound on the calls that are left without a result
    CallsAfter,     \* an LLM may ask for more calls after a handoff
    Filtered,       \* handoffs have an input_filter that keeps the last message
    HasSession,     \* run() is given a session
    Backend,        \* checkpoint_backend: "none", "memory" or "postgres"
    Interval,       \* config.checkpoint_interval
    SavesFail,      \* saving a checkpoint may raise and do no other harm; in
                    \* the database it breaks the transaction, which is not
                    \* modelled
    Findable        \* the agents _find_agent_by_name finds from Root: those
                    \* reached through Handoff objects, not bare agents

ASSUME RunAssumption ==
    /\ MaxRuns \in Nat
    /\ CallCounts \subseteq Nat
    /\ MaxLost \in Nat
    /\ {CallsAfter, Filtered, HasSession, SavesFail} \subseteq BOOLEAN
    /\ Backend \in {"none", "memory", "postgres"}
    /\ Interval \in Nat \ {0}
    /\ SavesFail => Backend # "postgres"
    /\ Root \in Findable /\ Findable \subseteq Agents

VARIABLES
    messages,   \* the transcript
    offset,     \* history_offset: where this run's own messages begin
    upto,       \* how many calls of the reply are executed
    session,    \* what the session holds
    saved,      \* the checkpoints of the present run_id, oldest first
    alias,      \* the checkpoint whose list object messages is, 0 if none
    found,      \* how many of them are older than the run
    settled,    \* the caller's transaction: "open", "committed", "undone"
    runs,       \* runs begun
    clock,      \* makes messages distinct
    lost,       \* history: the results that never came
    reached,    \* history: the turn at which the run_id's work was last
                \* committed
    before,     \* history: the session when the run began
    produced,   \* history: what has been said since then, in order
    newest,     \* history: the checkpoint that was saved last, of those that
                \* are not rolled back, as it was saved
    rejoined    \* history: a run was resumed in a session that was not empty

\* Those that a turn leaves alone.
lastingVars == <<found, settled, runs, before, reached, rejoined>>
talkVars == <<messages, offset, upto, session, saved, alias, clock, lost,
              produced, newest, lastingVars>>
runVars == <<loopVars, talkVars>>

\* A message: an assistant's carries the number of its tool calls, a tool's
\* result the number of its call.
Message(role, id, call) == [role |-> role, id |-> id, call |-> call]
User(id) == Message("user", id, 0)
Messages == [role : {"user", "assistant", "tool"}, id : Nat, call : Nat]
Transcripts == Seq(Messages)

Checkpoints == [turn : 0 .. MaxTurns, agent : Agents, messages : Transcripts]
NoCheckpoint == [turn |-> 0, agent |-> Root, messages |-> <<>>]

RunInit ==
    /\ LoopInit
    /\ messages = <<>>
    /\ offset = 0
    /\ upto = 0
    /\ session = <<>>
    /\ saved = <<>>
    /\ alias = 0
    /\ found = 0
    /\ settled = "committed"
    /\ runs = 0
    /\ clock = 0
    /\ lost = {}
    /\ reached = 0
    /\ before = <<>>
    /\ produced = <<>>
    /\ newest = NoCheckpoint
    /\ rejoined = FALSE

-----------------------------------------------------------------------------
(* The transcript *)

\* messages.append: a checkpoint that is the same list object grows too.
Append_(new) ==
    /\ messages' = messages \o new
    /\ produced' = produced \o new
    /\ saved' = IF alias = 0 THEN saved
                ELSE [saved EXCEPT ![alias].messages = messages \o new]

\* Mutant: the history that was loaded is saved again.
SaveSessionWhole ==
    session' = IF HasSession THEN session \o messages ELSE session

\* await session.append(messages[history_offset:])
SaveSession ==
    session' = IF HasSession
               THEN session \o SubSeq(messages, offset + 1, Len(messages))
               ELSE session

-----------------------------------------------------------------------------
(* Beginning and resuming *)

\* The loaded history comes first, the run's own messages m after it.
Load(m) ==
    /\ runs < MaxRuns
    /\ settled # "open"
    /\ runs' = runs + 1
    /\ settled' = "open"
    /\ messages' = session \o m
    /\ produced' = m
    /\ offset' = Len(session)
    /\ before' = session
    /\ upto' = 0
    /\ UNCHANGED lost

\* run() without resume_from: a new run_id, nothing saved under it.
Begin ==
    /\ Load(<<User(clock)>>)
    /\ clock' = clock + 1
    /\ saved' = <<>>
    /\ alias' = 0
    /\ found' = 0
    /\ reached' = 0
    /\ newest' = NoCheckpoint
    /\ UNCHANGED rejoined

Run ==
    /\ StartAt(0, Root)
    /\ Begin
    /\ UNCHANGED session

\* An input guardrail trips: the input goes to the session all the same.
RunTrips ==
    /\ TripAt(0, Root)
    /\ Begin
    /\ session' = IF HasSession THEN Append(session, User(clock)) ELSE session

\* Mutant: the checkpoints are ordered the wrong way.
LatestOldest(k) ==
    /\ k \in DOMAIN saved
    /\ \A j \in DOMAIN saved : saved[j].turn >= saved[k].turn

\* load_latest: the memory backend takes the first checkpoint with the
\* greatest turn count, the database any of them.
Latest(k) ==
    LET Greatest(i) == \A j \in DOMAIN saved : saved[j].turn <= saved[i].turn
    IN  /\ k \in DOMAIN saved
        /\ Greatest(k)
        /\ Backend = "memory" => \A i \in 1 .. k - 1 : ~Greatest(i)

\* run(resume_from = run_id): the input is dropped for the checkpoint's
\* messages.  Only the list of an in-memory checkpoint is the same object, and
\* only when there is no history to put before it.
Rejoin(k) ==
    /\ phase = "ended"
    /\ Latest(k)
    /\ mode' # "stream"
    /\ Load(saved[k].messages)
    /\ alias' = IF Backend = "memory" /\ session = <<>> THEN k ELSE 0
    /\ found' = Len(saved)
    /\ rejoined' = (rejoined \/ session # <<>>)
    /\ UNCHANGED <<saved, clock, reached, newest>>

\* Whom the checkpoint's agent is resumed as.
Finds(k) == IF saved[k].agent \in Findable THEN saved[k].agent ELSE Root

Resume ==
    /\ \E k \in DOMAIN saved : StartAt(saved[k].turn, Finds(k)) /\ Rejoin(k)
    /\ UNCHANGED session

\* The input guardrails look at a resumed run too, at the last words of a user
\* in what was loaded; if they trip, the checkpoint's messages are what goes to
\* the session.
ResumeTrips ==
    \E k \in DOMAIN saved :
        /\ TripAt(saved[k].turn, Finds(k))
        /\ Rejoin(k)
        /\ session' = IF HasSession THEN session \o saved[k].messages ELSE session

-----------------------------------------------------------------------------
(* A turn *)

Reply(kind, to, calls, executed) ==
    /\ LlmReplies(kind, to)
    /\ kind = "final" => calls = 0 /\ executed = 0
    /\ kind = "tools" => calls > 0 /\ executed = calls
    /\ kind = "handoff" => executed > 0 /\ (executed = calls \/ CallsAfter)
    /\ Append_(<<Message("assistant", clock, calls)>>)
    /\ upto' = executed
    /\ clock' = clock + 1
    /\ UNCHANGED <<offset, session, alias, lost, newest, lastingVars>>

\* Mutant: the last call that was executed gets no result.
AnswerShort ==
    /\ ToolsDone
    /\ LET id == Last(messages).id
       IN  Append_([i \in 1 .. upto - 1 |-> Message("tool", id, i)])
    /\ UNCHANGED <<offset, upto, session, alias, clock, lost, newest, lastingVars>>

\* The calls before a handoff, or all; two or more run side by side in a task
\* group, which says nothing when one of them raises CancelledError by itself.
SideBySide ==
    LET calls == IF reply.kind = "handoff" THEN upto - 1 ELSE upto
    IN  IF calls >= 2 THEN 1 .. calls ELSE {}

\* The results follow in the order of the calls, got being those that have
\* one; a call after a handoff is never looked at.
Answer ==
    /\ ToolsDone
    /\ \E n \in 0 .. upto : \E got \in [1 .. n -> 1 .. upto] :
        LET id == Last(messages).id
            missing == {c \in 1 .. upto : \A i \in 1 .. n : got[i] # c}
        IN  /\ \A i, j \in 1 .. n : i < j => got[i] < got[j]
            /\ missing \subseteq SideBySide
            /\ Append_([i \in 1 .. n |-> Message("tool", id, got[i])])
            /\ lost' = lost \cup {Message("tool", id, c) : c \in missing}
            /\ missing # {} => Cardinality(lost') <= MaxLost
    /\ UNCHANGED <<offset, upto, session, alias, clock, newest, lastingVars>>

\* input_filter makes a new list.
Transfer ==
    /\ HandOver
    /\ messages' = IF Filtered THEN <<Last(messages)>> ELSE messages
    /\ alias' = IF Filtered THEN 0 ELSE alias
    /\ UNCHANGED <<offset, upto, session, saved, clock, lost, produced, newest,
                   lastingVars>>

\* Mutant: the interval is exceeded.
DueRarely == mode # "stream" /\ Backend # "none" /\ turn % (2 * Interval) = 0

\* run_streamed makes no checkpoints.
Due == mode # "stream" /\ Backend # "none" /\ turn % Interval = 0

\* A checkpoint with a copy of the transcript, flushed and not committed.
Save ==
    /\ EndTurn
    /\ Due
    /\ newest' = [turn |-> turn, agent |-> agent, messages |-> messages]
    /\ saved' = Append(saved, newest')
    /\ UNCHANGED <<messages, offset, upto, session, alias, clock, lost, produced,
                   lastingVars>>

\* None is due, or saving it raised and was only logged.
SaveNot ==
    /\ EndTurn
    /\ ~Due \/ SavesFail
    /\ UNCHANGED talkVars

-----------------------------------------------------------------------------
(* The end *)

\* A way out of the loop that saves the session.
Finish ==
    /\ RunOutOfTurns \/ LlmGivesUp \/ Conclude \/ OutputTrips \/ DebugStops
    /\ SaveSession
    /\ UNCHANGED <<messages, offset, upto, saved, alias, clock, lost, produced,
                   newest, lastingVars>>

\* The steps that say and save nothing.
Silent ==
    /\ \/ BeginTurn \/ SeeToken \/ LlmRaises \/ StreamOpens \/ StreamBreaks
       \/ CallTools \/ CallRunEnd \/ Return \/ CancelToken \/ Abort
    /\ UNCHANGED talkVars

\* The caller commits: execute_run does so when run() has returned a result,
\* a stream's post-processing however the stream ended.
Commit ==
    /\ phase = "ended" /\ settled = "open"
    /\ Backend = "postgres" => outcome \in Returned \/ mode = "stream"
    /\ settled' = "committed"
    /\ reached' = turn
    /\ UNCHANGED <<loopVars, messages, offset, upto, session, saved, alias, found,
                   runs, clock, lost, before, produced, newest, rejoined>>

\* The request fails, or it or the process is no more.
Rollback ==
    /\ phase = "ended" /\ settled = "open"
    /\ Backend # "memory"
    /\ settled' = "undone"
    /\ session' = before
    /\ saved' = SubSeq(saved, 1, found)
    /\ newest' = IF found = 0 THEN NoCheckpoint ELSE saved[found]
    /\ alias' = 0
    /\ UNCHANGED <<loopVars, messages, offset, upto, found, runs, clock, lost, reached,
                   before, produced, rejoined>>

RunNext ==
    \/ Run
    \/ RunTrips
    \/ Resume
    \/ ResumeTrips
    \/ \E kind \in {"final", "tools", "handoff"}, to \in Agents,
          calls \in CallCounts : \E executed \in 0 .. calls :
            Reply(kind, to, calls, executed)
    \/ Answer
    \/ Transfer
    \/ Save
    \/ SaveNot
    \/ Finish
    \/ Silent
    \/ Commit
    \/ Rollback

RunSpec == RunInit /\ [][RunNext]_runVars

-----------------------------------------------------------------------------
\* Transcripts are sequences of messages, and the list a run shares with an
\* in-memory checkpoint belongs to one that exists.
RunTypeOK ==
    /\ LoopTypeOK
    /\ messages \in Transcripts /\ session \in Transcripts
    /\ before \in Transcripts /\ produced \in Transcripts
    /\ offset \in Nat
    /\ upto \in Nat
    /\ saved \in Seq(Checkpoints)
    /\ alias \in 0 .. Len(saved)
    /\ found \in 0 .. Len(saved)
    /\ settled \in {"open", "committed", "undone"}
    /\ runs \in 0 .. MaxRuns
    /\ clock \in Nat
    /\ lost \subseteq Messages
    /\ reached \in 0 .. MaxTurns
    /\ newest \in Checkpoints
    /\ rejoined \in BOOLEAN

\* Call c of the i-th message has its result further on, or it never came.
Answered(i, c) ==
    LET result == Message("tool", messages[i].id, c)
    IN  result \in lost \/ \E j \in i + 1 .. Len(messages) : messages[j] = result

\* Every tool call in the transcript an LLM is given has its result after it,
\* over handoffs, aborted, rolled back and resumed runs and what earlier runs
\* left in the session, unless the tool raised CancelledError at the side of
\* others, which leaves its call without one for good.  (A debug stop before
\* the tools leaves unanswered calls too, and so do calls after a handoff:
\* "debug" and CallsAfter are outside the run.)
CallsAnswered ==
    phase \in {"llm", "stream"} =>
        \A i \in DOMAIN messages :
            messages[i].role = "assistant" =>
                \A c \in 1 .. messages[i].call : Answered(i, c)

\* A run that has been kept: what it said is in the session.
Kept ==
    \/ phase \in {"closing", "ending"}
    \/ phase = "ended" /\ outcome \in Returned \cup {"tripped"}

Log == INSTANCE SessionLog WITH
    log <- session,
    was <- before,
    said <- produced,
    run <- IF settled # "open" THEN "over"
           ELSE IF Kept THEN "kept"
           ELSE IF phase \in Active THEN "open" ELSE "left",
    again <- rejoined

\* Runner.run keeps the session as SessionLog promises: over tools, handoffs,
\* every way out of the loop, aborts, resumptions and the guardrails that
\* refuse them, commits and rollbacks.
LogSpec == Log!Spec

\* No message is in the session twice, whatever runs are aborted, rolled back
\* and resumed, unless one was resumed in a session that already held something:
\* then what the checkpoint had of it is saved once more.
SavedOnce == rejoined \/ IsInjective(session)

\* Runner.run's docstring: "loads the history and saves the new messages when
\* the run ends": a run that ended by itself has added to the session what
\* was said in it, all of it, once and in order, until it is rolled back.
SessionComplete ==
    HasSession /\ phase = "ended" /\ settled # "undone"
        /\ outcome \in Returned \cup {"tripped"} =>
            session = before \o produced

AtNewest ==
    /\ turn' = newest.turn
    /\ agent' = newest.agent
    /\ SubSeq(messages', offset' + 1, Len(messages')) = newest.messages

\* Checkpoint's docstring: a run is resumed "from the most recent checkpoint":
\* same turn, same agent, same messages.  Refuted once agents hand over.
ResumeNewest == [][Resume => AtNewest]_runVars

\* A resumed run begins where the last checkpoint was made, of those that were
\* not rolled back, as long as no handoff took its turn back.
ResumeLatest ==
    [][Resume /\ Cardinality({i \in DOMAIN saved : saved[i].turn = newest.turn}) = 1
         => AtNewest]_runVars

\* A resumed run repeats at most the turns of one interval of what had been
\* committed of it; what was rolled back it has to do again.
LittleLost == [][Resume => reached - turn' <= Interval]_runVars
=============================================================================
