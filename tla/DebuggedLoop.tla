----------------------------- MODULE DebuggedLoop -----------------------------
(*****************************************************************************)
(* AgentLoop under a DebugController (kasaya/kasaya/debug/controller.py).    *)
(*                                                                           *)
(* In mode "debug" the run calls checkpoint() after each reply ("turn_end"), *)
(* before the tools of the turn ("before_tool") and before a handoff         *)
(* ("before_handoff").  A checkpoint stops the run, pauses it until an       *)
(* operator's word or a timeout, or lets it pass.  Operators work through    *)
(* the HTTP endpoints and the WebSocket, each a task of its own, so their    *)
(* calls interleave with the run and with each other wherever one awaits.    *)
(*                                                                           *)
(* Each run has a controller of its own, the way the debug service makes     *)
(* them.  A checkpoint that lets the run pass has no await in it: Yields     *)
(* says where an operator may come in.                                       *)
(*****************************************************************************)
EXTENDS AgentLoop

CONSTANTS
    DebugModes,     \* the modes a controller may start in
    MaxOperators    \* step() and resume() calls awaiting their event callback

ASSUME DebugAssumption ==
    /\ DebugModes \subseteq {"step_turn", "step_tool", "continue"}
    /\ DebugModes # {}
    /\ MaxOperators \in Nat

VARIABLES
    debugMode,  \* _mode
    state,      \* _state
    pending,    \* _pending_action
    awake,      \* _resume_event is set
    point,      \* the checkpoint the run comes to next in this phase
    waiting,    \* the run waits inside that checkpoint
    emitting,   \* how many calls of step() or resume() have yet to set awake
    halted      \* history: stop() was called and no later word overrode it;
                \* "late" if the handoff was under way, past its checkpoint

debugVars == <<debugMode, state, pending, awake, point, waiting, emitting, halted>>
allVars == <<loopVars, debugVars>>

States == {"idle", "running", "paused", "completed", "failed", "timeout"}
Points == {"none", "turn_end", "before_tool", "before_handoff"}

\* A new controller.
Fresh ==
    /\ debugMode' \in DebugModes
    /\ state' = "idle"
    /\ pending' = "none"
    /\ awake' = FALSE
    /\ point' = "none"
    /\ waiting' = FALSE
    /\ emitting' = 0
    /\ halted' = "no"

DebugInit ==
    /\ LoopInit
    /\ debugMode \in DebugModes
    /\ state = "idle"
    /\ pending = "none"
    /\ awake = FALSE
    /\ point = "none"
    /\ waiting = FALSE
    /\ emitting = 0
    /\ halted = "no"

-----------------------------------------------------------------------------
(* checkpoint().                                                             *)

\* The checkpoint after p, if the run may go on.
After(p) ==
    IF p = "turn_end" /\ reply.kind # "final" THEN "before_tool" ELSE "none"

\* The checkpoint p makes the run pause; a pending "step" makes any.
Pauses(p) ==
    \/ p \in {"turn_end", "before_handoff"} /\ debugMode \in {"step_turn", "step_tool"}
    \/ p = "before_tool" /\ debugMode = "step_tool"
    \/ pending = "step"

AtPoint == mode = "debug" /\ phase \in {"replied", "handing"} /\ point # "none"

\* DebugStoppedError leaves the checkpoint; s is the controller's state.
StopRun(s) ==
    /\ DebugStops
    /\ state' = s
    /\ point' = "none"
    /\ waiting' = FALSE
    /\ UNCHANGED <<debugMode, awake, emitting, halted>>

\* stop() came while the run was running.
CheckpointStops ==
    /\ AtPoint /\ ~waiting
    /\ pending = "stop"
    /\ pending' = "none"
    /\ StopRun("failed")

CheckpointPauses ==
    /\ AtPoint /\ ~waiting
    /\ pending # "stop"
    /\ Pauses(point)
    /\ state' = "paused"
    /\ pending' = "none"
    /\ awake' = FALSE
    /\ waiting' = TRUE
    /\ UNCHANGED <<loopVars, debugMode, point, emitting, halted>>

\* Mutant: stop() is looked for only after a pause.
CheckpointPassesBlind ==
    /\ AtPoint /\ ~waiting
    /\ ~Pauses(point)
    /\ state' = "running"
    /\ point' = After(point)
    /\ UNCHANGED <<loopVars, debugMode, pending, awake, waiting, emitting, halted>>

CheckpointPasses ==
    /\ AtPoint /\ ~waiting
    /\ pending # "stop"
    /\ ~Pauses(point)
    /\ state' = "running"
    /\ point' = After(point)
    /\ UNCHANGED <<loopVars, debugMode, pending, awake, waiting, emitting, halted>>

\* The pause is over and nobody said stop.  A pending "step" stays pending
\* for the next checkpoint.
WakeGoesOn ==
    /\ waiting /\ awake
    /\ pending # "stop"
    /\ state' = "running"
    /\ point' = After(point)
    /\ waiting' = FALSE
    /\ UNCHANGED <<loopVars, debugMode, pending, awake, emitting, halted>>

WakeStops ==
    /\ waiting /\ awake
    /\ pending = "stop"
    /\ pending' = "none"
    /\ StopRun("failed")

\* Mutant: the timeout leaves the controller's state alone.
PauseTimesOutQuietly ==
    /\ waiting
    /\ UNCHANGED pending
    /\ StopRun(state)

\* Also possible when the event was set at the last moment.
PauseTimesOut ==
    /\ waiting
    /\ UNCHANGED pending
    /\ StopRun("timeout")

-----------------------------------------------------------------------------
(* The operators.                                                            *)

\* The handoff has passed its checkpoint; on_agent_end and the end of the
\* span are awaited before the target takes over.
Leaving == phase = "handing" /\ point = "none"

\* The run awaits something: tasks of the event loop other than it may move.
\* A final reply has its guardrails and hooks before it; nothing is awaited
\* between a checkpoint that lets the run pass and the tools.
Yields ==
    \/ waiting
    \/ phase \notin {"replied", "handing"}
    \/ phase = "replied" /\ point = "turn_end"
    \/ phase = "replied" /\ point = "none" /\ reply.kind = "final"
    \/ Leaving

Operable == mode = "debug" /\ phase \in Active /\ Yields

\* step() up to its await of the event callback.
StepAsked ==
    /\ Operable /\ emitting < MaxOperators
    /\ state = "paused"
    /\ pending' = "step"
    /\ emitting' = emitting + 1
    /\ halted' = "no"
    /\ UNCHANGED <<loopVars, debugMode, state, awake, point, waiting>>

\* resume() up to its await of the event callback.
ResumeAsked ==
    /\ Operable /\ emitting < MaxOperators
    /\ state = "paused"
    /\ debugMode' = "continue"
    /\ pending' = "none"
    /\ emitting' = emitting + 1
    /\ halted' = "no"
    /\ UNCHANGED <<loopVars, state, awake, point, waiting>>

\* A step() or resume() sets the event: perhaps that of a later pause.
SetEvent ==
    /\ Operable /\ emitting > 0
    /\ awake' = TRUE
    /\ emitting' = emitting - 1
    /\ UNCHANGED <<loopVars, debugMode, state, pending, point, waiting, halted>>

\* stop() works in every state and wakes a paused run.
Stop ==
    /\ Operable
    /\ pending' = "stop"
    /\ awake' = (awake \/ state = "paused")
    /\ halted' = IF Leaving THEN "late" ELSE "asked"
    /\ UNCHANGED <<loopVars, debugMode, state, point, waiting, emitting>>

-----------------------------------------------------------------------------
(* The steps of AgentLoop.                                                   *)

\* The run is past the checkpoints of the phase it is in.
Passed == point = "none"

\* mark_completed() and mark_failed(); a debug stop has set the state before,
\* and a tripped guardrail leaves it "running".
\* Mutant: a run out of turns is forgotten.
MarkSome ==
    IF mode = "debug" /\ outcome = "ok" THEN "completed"
    ELSE IF mode = "debug" /\ outcome = "llm_error" THEN "failed"
    ELSE state

Mark ==
    IF mode = "debug" /\ outcome \in {"ok", "max_turns"} THEN "completed"
    ELSE IF mode = "debug" /\ outcome = "llm_error" THEN "failed"
    ELSE state

\* What follows the checkpoints of a reply.
GoesOn ==
    /\ Passed
    /\ Conclude \/ OutputTrips \/ CallTools
    /\ UNCHANGED debugVars

\* A stop that came too late for this handoff is in time for what follows.
HandsOver ==
    /\ Passed
    /\ HandOver
    /\ halted' = IF halted = "late" THEN "asked" ELSE halted
    /\ UNCHANGED <<debugMode, state, pending, awake, point, waiting, emitting>>

RepliesTo(kind, to) ==
    /\ LlmReplies(kind, to)
    /\ point' = IF mode = "debug" THEN "turn_end" ELSE "none"
    /\ UNCHANGED <<debugMode, state, pending, awake, waiting, emitting, halted>>

ToolsReturn ==
    /\ ToolsDone
    /\ point' = IF mode = "debug" /\ reply.kind = "handoff"
                THEN "before_handoff" ELSE "none"
    /\ UNCHANGED <<debugMode, state, pending, awake, waiting, emitting, halted>>

MarkAndReturn ==
    /\ Return
    /\ state' = Mark
    /\ UNCHANGED <<debugMode, pending, awake, point, waiting, emitting, halted>>

\* The task is cancelled; a controller that was paused stays so.
AbortRun ==
    /\ Abort
    /\ point' = "none"
    /\ waiting' = FALSE
    /\ UNCHANGED <<debugMode, state, pending, awake, emitting, halted>>

Elsewhere ==
    /\ \/ BeginTurn \/ SeeToken \/ RunOutOfTurns
       \/ LlmRaises \/ LlmGivesUp \/ StreamOpens \/ StreamBreaks
       \/ EndTurn \/ CallRunEnd
    /\ UNCHANGED debugVars

DebuggedStep ==
    \/ Elsewhere
    \/ \E kind \in {"final", "tools", "handoff"}, to \in Agents : RepliesTo(kind, to)
    \/ CheckpointStops \/ CheckpointPauses \/ CheckpointPasses
    \/ WakeGoesOn \/ WakeStops \/ PauseTimesOut
    \/ GoesOn \/ HandsOver \/ ToolsReturn
    \/ MarkAndReturn

Operator == StepAsked \/ ResumeAsked \/ SetEvent \/ Stop

Calls ==
    \/ (StartAt(0, Root) \/ TripAt(0, Root)) /\ Fresh
    \/ CancelToken /\ UNCHANGED debugVars
    \/ AbortRun

DebuggedNext == DebuggedStep \/ Operator \/ Calls

DebuggedSpec == DebugInit /\ [][DebuggedNext]_allVars

\* As FairLoopSpec; a pause that nobody ends is ended by its timeout.  The
\* operators may or may not say anything.
FairDebuggedSpec == DebuggedSpec /\ WF_allVars(DebuggedStep)

-----------------------------------------------------------------------------
DebugTypeOK ==
    /\ debugMode \in {"step_turn", "step_tool", "continue"}
    /\ state \in States
    /\ pending \in {"none", "step", "stop"}
    /\ awake \in BOOLEAN
    /\ point \in Points
    /\ waiting \in BOOLEAN
    /\ emitting \in 0 .. MaxOperators
    /\ halted \in {"no", "asked", "late"}

\* What the controller shows is true: it is paused only while its run waits
\* at a checkpoint (or was cancelled there), and a run that returned a result
\* left it in a final state, whichever of the five ways out it took.
StateTells ==
    /\ state = "paused" => waiting \/ (phase = "ended" /\ outcome = "cancelled")
    /\ waiting => state = "paused" /\ AtPoint
    /\ mode = "debug" /\ phase = "ended" /\ outcome \in Returned =>
          state \in {"completed", "failed", "timeout"}

\* After stop() the run starts no tools and hands over to nobody, whether it
\* was running, calling tools, paused or between being woken and waking; only
\* a step() or resume() accepted before it saw the stop can undo that, and a
\* handoff past its checkpoint is still made: that one, and nothing after it.
StopHonoured ==
    [][halted # "no" /\ halted' # "no" =>
         /\ ~(phase # "tools" /\ phase' = "tools")
         /\ agent' # agent => halted = "late" /\ halted' = "asked"]_allVars

=============================================================================
