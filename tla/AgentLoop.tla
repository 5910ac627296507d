------------------------------- MODULE AgentLoop -------------------------------
(*****************************************************************************)
(* The control of Runner.run and Runner.run_streamed                         *)
(* (kasaya/kasaya/runner/runner.py): turns, LLM retries, tool turns,         *)
(* handoffs, guardrails, debug stops, the cancellation token and the ways a  *)
(* run ends.  What the run says and saves is in AgentRun, which refines      *)
(* these actions.                                                            *)
(*                                                                           *)
(* A phase is a place where the run awaits something, so one step is the     *)
(* code between two awaits that matter; an abort (the task is cancelled, or  *)
(* the consumer of the stream goes away) can come at each of them.           *)
(*****************************************************************************)
EXTENDS Naturals

CONSTANTS
    Agents,
    Root,           \* the agent run() is called with
    Handoffs,       \* pairs <<from, to>>: the handoffs each agent offers
    MaxTurns,       \* max_turns
    MaxRetries,     \* config.max_retries
    Modes,          \* of "run", "debug" (run with a debug_controller) and
                    \* "stream" (run_streamed, which ignores the controller)
    Guarded         \* there are input and output guardrails

ASSUME LoopAssumption ==
    /\ Root \in Agents
    /\ Handoffs \subseteq Agents \X Agents
    /\ MaxTurns \in Nat
    /\ MaxRetries \in Nat
    /\ Modes \subseteq {"run", "debug", "stream"} /\ Modes # {}
    /\ Guarded \in BOOLEAN

VARIABLES
    mode,       \* how the run was called
    phase,      \* where the run is
    turn,       \* turn_count
    agent,      \* current_agent
    attempt,    \* failed attempts of the present LLM call
    reply,      \* the kind of the LLM's last reply and the handoff target
    token,      \* the cancellation token is set
    outcome,    \* how the run ends, "none" until that is settled
    hook        \* lifecycle hooks: on_run_start called, on_run_end called

loopVars == <<mode, phase, turn, agent, attempt, reply, token, outcome, hook>>

Phases == {"idle", "ready", "llm", "stream", "replied", "tools", "handing",
           "saving", "closing", "ending", "ended"}
Outcomes == {"none", "ok", "max_turns", "llm_error", "tripped", "stopped",
             "cancelled", "broken"}
\* Those of a run that returns a result.
Returned == {"ok", "max_turns", "llm_error", "stopped"}
Replies == [kind : {"none", "final", "tools", "handoff"}, to : Agents]
NoReply == [kind |-> "none", to |-> Root]

\* The phases in which the loop has begun a turn.
InTurn == {"llm", "stream", "replied", "tools", "handing"}
Active == InTurn \cup {"ready", "saving", "closing", "ending"}

LoopInit ==
    /\ mode \in Modes
    /\ phase = "idle"
    /\ turn = 0
    /\ agent = Root
    /\ attempt = 0
    /\ reply = NoReply
    /\ token = FALSE
    /\ outcome = "none"
    /\ hook = "none"

\* A run starts with t turns counted, at agent a: 0 and Root unless a
\* checkpoint says otherwise.  The input passes the guardrails.
StartAt(t, a) ==
    /\ phase \in {"idle", "ended"}
    /\ mode' \in Modes
    /\ phase' = "ready"
    /\ turn' = t
    /\ agent' = a
    /\ attempt' = 0
    /\ reply' = NoReply
    /\ token' = FALSE
    /\ outcome' = "none"
    /\ hook' = "started"

\* The input trips a guardrail: the transcript is saved, the error raised.
\* on_run_start has not been called.
TripAt(t, a) ==
    /\ Guarded
    /\ phase \in {"idle", "ended"}
    /\ mode' \in Modes
    /\ phase' = "closing"
    /\ turn' = t
    /\ agent' = a
    /\ attempt' = 0
    /\ reply' = NoReply
    /\ token' = FALSE
    /\ outcome' = "tripped"
    /\ hook' = "none"

\* Mutant: the check of the token is left out.
BeginTurnBlind ==
    /\ phase = "ready"
    /\ turn < MaxTurns
    /\ phase' = "llm"
    /\ turn' = turn + 1
    /\ attempt' = 0
    /\ UNCHANGED <<mode, agent, reply, token, outcome, hook>>

BeginTurn ==
    /\ phase = "ready"
    /\ turn < MaxTurns
    /\ ~token
    /\ phase' = "llm"
    /\ turn' = turn + 1
    /\ attempt' = 0
    /\ UNCHANGED <<mode, agent, reply, token, outcome, hook>>

\* _cancel_token.check() at the head of the loop raises CancelledError out of
\* run(): nothing is saved, no hook is called.
SeeToken ==
    /\ phase = "ready"
    /\ turn < MaxTurns
    /\ token
    /\ phase' = "ended"
    /\ outcome' = "cancelled"
    /\ UNCHANGED <<mode, turn, agent, attempt, reply, token, hook>>

\* The run settles on outcome o, saves the transcript and is about to return.
Close(o) ==
    /\ phase' = "closing"
    /\ outcome' = o
    /\ UNCHANGED <<mode, turn, agent, attempt, reply, token, hook>>

RunOutOfTurns ==
    /\ phase = "ready"
    /\ turn >= MaxTurns
    /\ Close("max_turns")

LlmRaises ==
    /\ phase = "llm"
    /\ attempt < MaxRetries
    /\ attempt' = attempt + 1
    /\ UNCHANGED <<mode, phase, turn, agent, reply, token, outcome, hook>>

LlmGivesUp ==
    /\ phase = "llm"
    /\ attempt = MaxRetries
    /\ Close("llm_error")

\* run_streamed has the stream; what follows is not retried.
StreamOpens ==
    /\ mode = "stream"
    /\ phase = "llm"
    /\ phase' = "stream"
    /\ UNCHANGED <<mode, turn, agent, attempt, reply, token, outcome, hook>>

\* An exception while the chunks are consumed leaves run_streamed at once.
StreamBreaks ==
    /\ phase = "stream"
    /\ phase' = "ended"
    /\ outcome' = "broken"
    /\ UNCHANGED <<mode, turn, agent, attempt, reply, token, hook>>

LlmReplies(kind, to) ==
    /\ phase = IF mode = "stream" THEN "stream" ELSE "llm"
    /\ kind = "handoff" => <<agent, to>> \in Handoffs
    /\ kind # "handoff" => to = Root
    /\ phase' = "replied"
    /\ reply' = [kind |-> kind, to |-> to]
    /\ UNCHANGED <<mode, turn, agent, attempt, token, outcome, hook>>

Conclude ==
    /\ phase = "replied"
    /\ reply.kind = "final"
    /\ Close("ok")

OutputTrips ==
    /\ Guarded
    /\ phase = "replied"
    /\ reply.kind = "final"
    /\ Close("tripped")

CallTools ==
    /\ phase = "replied"
    /\ reply.kind \in {"tools", "handoff"}
    /\ phase' = "tools"
    /\ UNCHANGED <<mode, turn, agent, attempt, reply, token, outcome, hook>>

\* Mutant: a turn with ordinary tools is uncounted like a handoff.
ToolsDoneUncounts ==
    /\ phase = "tools"
    /\ phase' = IF reply.kind = "handoff" THEN "handing" ELSE "saving"
    /\ turn' = IF reply.kind = "handoff" THEN turn ELSE turn - 1
    /\ UNCHANGED <<mode, agent, attempt, reply, token, outcome, hook>>

ToolsDone ==
    /\ phase = "tools"
    /\ phase' = IF reply.kind = "handoff" THEN "handing" ELSE "saving"
    /\ UNCHANGED <<mode, turn, agent, attempt, reply, token, outcome, hook>>

\* The target takes over; a handoff does not count as a turn.
HandOver ==
    /\ phase = "handing"
    /\ phase' = "saving"
    /\ agent' = reply.to
    /\ turn' = turn - 1
    /\ UNCHANGED <<mode, attempt, reply, token, outcome, hook>>

\* The end of the loop's body: the checkpoint has been saved, if one is due.
EndTurn ==
    /\ phase = "saving"
    /\ phase' = "ready"
    /\ UNCHANGED <<mode, turn, agent, attempt, reply, token, outcome, hook>>

\* DebugStoppedError at one of the three debug checkpoints of a turn:
\* turn_end and before_tool after the reply, before_handoff after the tools.
DebugStops ==
    /\ mode = "debug"
    /\ phase \in {"replied", "handing"}
    /\ Close("stopped")

\* Mutant: on_run_end is skipped when the LLM gave up.
ReturnQuietly ==
    /\ phase = "ending" \/ (phase = "closing" /\ outcome \in {"tripped", "llm_error"})
    /\ phase' = "ended"
    /\ UNCHANGED <<mode, turn, agent, attempt, reply, token, outcome, hook>>

\* on_run_end is called, and awaited.
CallRunEnd ==
    /\ phase = "closing"
    /\ outcome \in Returned
    /\ phase' = "ending"
    /\ hook' = "ended"
    /\ UNCHANGED <<mode, turn, agent, attempt, reply, token, outcome>>

\* The hook is done (what it raised is logged), a stream has delivered
\* run_complete; or a guardrail's error is on its way out.
Return ==
    /\ phase = "ending" \/ (phase = "closing" /\ outcome = "tripped")
    /\ phase' = "ended"
    /\ UNCHANGED <<mode, turn, agent, attempt, reply, token, outcome, hook>>

\* Someone sets the token.
CancelToken ==
    /\ phase \in Active
    /\ ~token
    /\ token' = TRUE
    /\ UNCHANGED <<mode, phase, turn, agent, attempt, reply, outcome, hook>>

\* The task is cancelled where it awaits, the hooks' calls included: an
\* exception comes out of run() whatever it had settled on.
Abort ==
    /\ phase \in Active
    /\ phase' = "ended"
    /\ outcome' = "cancelled"
    /\ UNCHANGED <<mode, turn, agent, attempt, reply, token, hook>>

\* The steps the run takes by itself once its awaits return.
LoopStep ==
    \/ BeginTurn \/ SeeToken \/ RunOutOfTurns
    \/ LlmRaises \/ LlmGivesUp \/ StreamOpens \/ StreamBreaks
    \/ \E kind \in {"final", "tools", "handoff"}, to \in Agents : LlmReplies(kind, to)
    \/ Conclude \/ OutputTrips
    \/ CallTools \/ ToolsDone \/ HandOver \/ EndTurn
    \/ DebugStops
    \/ CallRunEnd \/ Return

LoopNext ==
    \/ StartAt(0, Root)
    \/ TripAt(0, Root)
    \/ LoopStep
    \/ CancelToken
    \/ Abort

LoopSpec == LoopInit /\ [][LoopNext]_loopVars

\* LLM calls, tools and debug pauses end (the last by a timeout), so a run
\* that can go on does.
FairLoopSpec == LoopSpec /\ WF_loopVars(LoopStep)

-----------------------------------------------------------------------------
\* Types; above all turn_count, which goes up and down, stays within 0 and
\* max_turns, and the failed attempts within max_retries.
LoopTypeOK ==
    /\ mode \in Modes
    /\ phase \in Phases
    /\ turn \in 0 .. MaxTurns
    /\ agent \in Agents
    /\ attempt \in 0 .. MaxRetries
    /\ reply \in Replies
    /\ token \in BOOLEAN
    /\ outcome \in Outcomes
    /\ hook \in {"none", "started", "ended"}

\* A run past its loop has settled on an outcome, and a run in a turn has
\* counted it, so that the uncounting of a handoff never goes below zero.
PhaseConsistent ==
    /\ phase \in InTurn => turn >= 1
    /\ phase \in {"closing", "ending", "ended"} <=> outcome # "none"
    /\ phase \in {"handing"} => reply.kind = "handoff"

\* A run that returns a result has told its hooks so.  on_run_end may also
\* have been called for one that was cancelled before it could return, and
\* is called for no other: a tripped guardrail and a broken stream end a run
\* without it.
HookEndsRun ==
    /\ phase = "ended" /\ outcome \in Returned => hook = "ended"
    /\ hook = "ended" =>
          \/ phase \in {"ending", "ended"} /\ outcome \in Returned
          \/ phase = "ended" /\ outcome = "cancelled"

\* Every run ends, unless its agents hand to each other for ever: turns,
\* retries and the three debug pauses of a turn are all used up.
RunsEnd == (phase \in Active ~> phase = "ended") \/ []<>(phase = "handing")

\* A run whose token is set ends, even one whose agents hand to each other
\* for ever.
CancelEndsRun == token /\ phase \in Active ~> phase = "ended"

=============================================================================
