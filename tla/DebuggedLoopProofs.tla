-------------------------- MODULE DebuggedLoopProofs --------------------------
(*****************************************************************************)
(* A debug controller only ever delays or stops a run: DebuggedSpec          *)
(* implements LoopSpec, so what AgentRunProofs shows of the loop holds too.  *)
(* And it tells the truth and keeps its promise to stop.  DebugInv says      *)
(* where a checkpoint can be (point is set only in the phases that have      *)
(* one), which is what makes StateTells inductive, and that a stop() that    *)
(* nothing overrode is still pending, which gives StopHonoured.              *)
(*****************************************************************************)
EXTENDS DebuggedLoop, TLAPS

\* A run under way that was told to stop still has "stop" pending, and is at
\* no place where it could start tools or hand over, but for the handoff that
\* was under way; one that stopped has left its controller in a final state.
DebugInv ==
    /\ DebugTypeOK
    /\ StateTells
    /\ phase \in Phases
    /\ outcome # "none" <=> phase \in {"closing", "ending", "ended"}
    /\ phase = "closing" => outcome \in Returned \cup {"tripped"}
    /\ phase = "ending" => outcome \in Returned
    /\ mode = "debug" /\ outcome = "stopped" => state \in {"failed", "timeout"}
    /\ halted # "no" /\ phase \in InTurn \cup {"ready", "saving"} => pending = "stop"
    /\ halted # "no" /\ phase = "replied" /\ point = "none" => reply.kind = "final"
    /\ halted = "asked" => ~Leaving
    /\ halted = "late" => mode = "debug" /\ (Leaving \/ phase = "ended")
    /\ mode # "debug" => halted = "no"
    /\ phase \notin {"replied", "handing"} => point = "none"

\* Every step is a step of AgentLoop or leaves its variables alone.
LEMMA StepsAreLoopSteps == [DebuggedNext]_allVars => [LoopNext]_loopVars
<1> SUFFICES ASSUME [DebuggedNext]_allVars
             PROVE  [LoopNext]_loopVars
    OBVIOUS
<1>1. CASE DebuggedStep
    <2>1. CASE Elsewhere
        BY <2>1 DEF Elsewhere, LoopNext, LoopStep
    <2>2. ASSUME NEW kind \in {"final", "tools", "handoff"}, NEW to \in Agents,
                 RepliesTo(kind, to)
          PROVE  [LoopNext]_loopVars
        BY <2>2 DEF RepliesTo, LoopNext, LoopStep
    <2>3. CASE CheckpointStops \/ WakeStops \/ PauseTimesOut
        BY <2>3 DEF CheckpointStops, WakeStops, PauseTimesOut, StopRun, LoopNext, LoopStep
    <2>4. CASE CheckpointPauses \/ CheckpointPasses \/ WakeGoesOn
        BY <2>4 DEF CheckpointPauses, CheckpointPasses, WakeGoesOn
    <2>5. CASE GoesOn \/ HandsOver
        BY <2>5 DEF GoesOn, HandsOver, LoopNext, LoopStep
    <2>6. CASE ToolsReturn
        BY <2>6 DEF ToolsReturn, LoopNext, LoopStep
    <2>7. CASE MarkAndReturn
        BY <2>7 DEF MarkAndReturn, LoopNext, LoopStep
    <2> QED
        BY <1>1, <2>1, <2>2, <2>3, <2>4, <2>5, <2>6, <2>7 DEF DebuggedStep
<1>2. CASE Operator
    BY <1>2 DEF Operator, StepAsked, ResumeAsked, SetEvent, Stop
<1>3. CASE Calls
    BY <1>3 DEF Calls, AbortRun, LoopNext
<1>4. CASE UNCHANGED allVars
    BY <1>4 DEF allVars, loopVars
<1> QED
    BY <1>1, <1>2, <1>3, <1>4 DEF DebuggedNext

\* Under a debug controller a run does nothing that it could not do alone.
THEOREM DebuggedRunsAreRuns == DebuggedSpec => LoopSpec
<1>1. DebugInit => LoopInit
    BY DEF DebugInit
<1> QED
    BY <1>1, StepsAreLoopSteps, PTL DEF DebuggedSpec, LoopSpec

\* The calls awaiting their callback stay within their bound.
LEMMA EmittingCounts ==
    /\ 0 \in 0 .. MaxOperators
    /\ \A n \in 0 .. MaxOperators :
          /\ n < MaxOperators => n + 1 \in 0 .. MaxOperators
          /\ n > 0 => n - 1 \in 0 .. MaxOperators
<1>1. MaxOperators \in Nat
    BY DebugAssumption
<1> QED
    BY <1>1

\* The first run and its controller.
LEMMA DebugInitial == DebugInit => DebugInv
BY DebugAssumption, EmittingCounts DEF DebugInit, LoopInit, DebugInv, DebugTypeOK, States, Points,
    StateTells, Active, InTurn, Phases, AtPoint, Returned, Leaving

\* One step, by the action that takes it.
LEMMA DebugInductive == DebugInv /\ [DebuggedNext]_allVars => DebugInv'
<1> SUFFICES ASSUME DebugInv, [DebuggedNext]_allVars
             PROVE  DebugInv'
    OBVIOUS
<1> USE DebugAssumption DEF DebugInv, DebugTypeOK, States, Points, StateTells,
        Active, InTurn, Phases, AtPoint, Returned, Leaving
<1>1. CASE Elsewhere
    BY <1>1 DEF Elsewhere, debugVars, BeginTurn, SeeToken, RunOutOfTurns, LlmRaises,
        LlmGivesUp, StreamOpens, StreamBreaks, EndTurn, CallRunEnd, Close
<1>2. ASSUME NEW kind \in {"final", "tools", "handoff"}, NEW to \in Agents,
             RepliesTo(kind, to)
      PROVE  DebugInv'
    BY <1>2 DEF RepliesTo, LlmReplies
<1>3. CASE CheckpointStops
    BY <1>3 DEF CheckpointStops, StopRun, DebugStops, Close
<1>4. CASE CheckpointPauses
    BY <1>4 DEF CheckpointPauses, loopVars
<1>5. CASE CheckpointPasses
    BY <1>5 DEF CheckpointPasses, loopVars, After
<1>6. CASE WakeGoesOn
    BY <1>6 DEF WakeGoesOn, loopVars, After
<1>7. CASE WakeStops
    BY <1>7 DEF WakeStops, StopRun, DebugStops, Close
<1>8. CASE PauseTimesOut
    BY <1>8 DEF PauseTimesOut, StopRun, DebugStops, Close
<1>9. CASE GoesOn
    BY <1>9 DEF GoesOn, Passed, debugVars, Conclude, OutputTrips, CallTools, Close
<1>17. CASE HandsOver
    BY <1>17 DEF HandsOver, Passed, HandOver
<1>10. CASE ToolsReturn
    BY <1>10 DEF ToolsReturn, ToolsDone
<1>11. CASE MarkAndReturn
    BY <1>11 DEF MarkAndReturn, Return, Mark
<1>12. CASE Operator
    <2>1. CASE StepAsked
        BY <2>1, EmittingCounts DEF StepAsked, Operable, loopVars
    <2>2. CASE ResumeAsked
        BY <2>2, EmittingCounts DEF ResumeAsked, Operable, loopVars
    <2>3. CASE SetEvent
        BY <2>3, EmittingCounts DEF SetEvent, Operable, loopVars
    <2>4. CASE Stop
        BY <2>4 DEF Stop, Operable, Yields, loopVars
    <2> QED
        BY <1>12, <2>1, <2>2, <2>3, <2>4 DEF Operator
<1>13. CASE (StartAt(0, Root) \/ TripAt(0, Root)) /\ Fresh
    BY <1>13, EmittingCounts DEF StartAt, TripAt, Fresh
<1>14. CASE CancelToken /\ UNCHANGED debugVars
    BY <1>14 DEF CancelToken, debugVars
<1>15. CASE AbortRun
    BY <1>15 DEF AbortRun, Abort
<1>16. CASE UNCHANGED allVars
    BY <1>16 DEF allVars, loopVars, debugVars
<1> QED
    BY <1>1, <1>2, <1>3, <1>4, <1>5, <1>6, <1>7, <1>8, <1>9, <1>10, <1>11,
       <1>12, <1>13, <1>14, <1>15, <1>16, <1>17 DEF DebuggedNext, DebuggedStep, Calls

\* The controller's state is true in every state of every run.
THEOREM StatesTell == DebuggedSpec => []StateTells
<1>1. DebugInv => StateTells
    BY DEF DebugInv
<1> QED
    BY <1>1, DebugInitial, DebugInductive, PTL DEF DebuggedSpec

\* A run told to stop starts no tools and hands over to nobody, but for the
\* one handoff that has passed its checkpoint.
THEOREM StopsAreHonoured == DebuggedSpec => StopHonoured
<1> DEFINE Heeds == /\ ~(phase # "tools" /\ phase' = "tools")
                    /\ agent' # agent => halted = "late" /\ halted' = "asked"
<1>1. DebugInv /\ [DebuggedNext]_allVars
          => [halted # "no" /\ halted' # "no" => Heeds]_allVars
    <2> SUFFICES ASSUME DebugInv, DebuggedNext, halted # "no", halted' # "no"
                 PROVE  Heeds
        BY DEF allVars
    <2> USE DEF DebugInv, DebugTypeOK, Leaving, InTurn
    <2>1. CASE Elsewhere
        BY <2>1 DEF Elsewhere, BeginTurn, SeeToken, RunOutOfTurns, LlmRaises,
            LlmGivesUp, StreamOpens, StreamBreaks, EndTurn, CallRunEnd, Close
    <2>2. ASSUME NEW kind \in {"final", "tools", "handoff"}, NEW to \in Agents,
                 RepliesTo(kind, to)
          PROVE  Heeds
        BY <2>2 DEF RepliesTo, LlmReplies
    <2>3. CASE CheckpointStops \/ WakeStops \/ PauseTimesOut
        BY <2>3 DEF CheckpointStops, WakeStops, PauseTimesOut, StopRun, DebugStops, Close
    <2>4. CASE CheckpointPauses \/ CheckpointPasses \/ WakeGoesOn
        BY <2>4 DEF CheckpointPauses, CheckpointPasses, WakeGoesOn, loopVars
    <2>5. CASE GoesOn
        BY <2>5 DEF GoesOn, Passed, Conclude, OutputTrips, CallTools, Close
    <2>6. CASE HandsOver
        BY <2>6 DEF HandsOver, Passed, HandOver
    <2>7. CASE ToolsReturn
        BY <2>7 DEF ToolsReturn, ToolsDone
    <2>8. CASE MarkAndReturn
        BY <2>8 DEF MarkAndReturn, Return
    <2>9. CASE Operator
        BY <2>9 DEF Operator, StepAsked, ResumeAsked, SetEvent, Stop, loopVars
    <2>10. CASE Calls
        BY <2>10 DEF Calls, Fresh, CancelToken, AbortRun, Abort
    <2> QED
        BY <2>1, <2>2, <2>3, <2>4, <2>5, <2>6, <2>7, <2>8, <2>9, <2>10
           DEF DebuggedNext, DebuggedStep
<1> QED
    BY <1>1, DebugInitial, DebugInductive, PTL DEF DebuggedSpec, StopHonoured
=============================================================================
