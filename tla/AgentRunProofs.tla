----------------------------- MODULE AgentRunProofs ----------------------------
(*****************************************************************************)
(* Safety of the agent loop and of what a run leaves in its session, for any *)
(* agents, handoffs, bounds and modes and however often a run is aborted,    *)
(* committed, rolled back and resumed.                                       *)
(*                                                                           *)
(* The loop: PhaseConsistent is what makes LoopTypeOK inductive, for a       *)
(* handoff takes its turn back, and only the turn that was counted before    *)
(* the LLM call keeps turn_count from going below zero.  HookInv adds where  *)
(* on_run_start has been called, which HookEndsRun rests on.                 *)
(*                                                                           *)
(* The session: it holds exactly what was said, once and in order, as long   *)
(* as no handoff filters the transcript.  The invariant behind it is that    *)
(* the transcript is the history followed by what was said since, and that   *)
(* history_offset is where the two meet.                                     *)
(*                                                                           *)
(* Once: the messages of the session, the transcript and the checkpoints are *)
(* all different (OnceInv), as long as no run is resumed in a session that   *)
(* already holds something.  Both together make AgentRun implement           *)
(* SessionLog, which is all that the owner of a session relies on.           *)
(*                                                                           *)
(* The calls: between a reply and its results only that reply's own calls    *)
(* have none, or results that never came (AnswerInv).  The checkpoints: they *)
(* keep up with the turns of the run that makes them, and those it found     *)
(* with what was committed before it (KeepsUp); they come in their order     *)
(* (InOrder), of which a rollback takes only the end.                        *)
(*****************************************************************************)
EXTENDS AgentRun, SequenceTheorems, FiniteSetTheorems, TLAPS

-----------------------------------------------------------------------------
(* The loop *)

\* The phases of a run that has not settled on how it ends.
InLoop == Active \ {"closing", "ending"}

\* The hooks of a run that has not ended, and of one that has.
HookInv ==
    /\ phase \in InLoop => hook = "started"
    /\ phase = "closing" =>
          \/ outcome \in Returned /\ hook = "started"
          \/ outcome = "tripped" /\ hook # "ended"
    /\ phase = "ending" => outcome \in Returned /\ hook = "ended"
    /\ HookEndsRun

LoopInv ==
    /\ LoopTypeOK
    /\ PhaseConsistent
    /\ HookInv

\* What a run starts with has the right type.
LEMMA StartTypes == NoReply \in Replies /\ 0 \in 0 .. MaxTurns /\ 0 \in 0 .. MaxRetries
<1>1. NoReply \in Replies
    BY LoopAssumption DEF NoReply, Replies
<1>2. 0 \in 0 .. MaxTurns /\ 0 \in 0 .. MaxRetries
    BY LoopAssumption
<1> QED
    BY <1>1, <1>2

\* No run has begun: the invariant holds.
LEMMA LoopInitial == LoopInit => LoopInv
BY LoopAssumption, StartTypes DEF LoopInit, LoopInv, LoopTypeOK,
    PhaseConsistent, HookInv, HookEndsRun, Returned, Phases, Outcomes, InTurn, InLoop, Active

\* A run may begin at any turn and agent: a resumed one does.
LEMMA Starting ==
    ASSUME NEW t \in 0 .. MaxTurns, NEW a \in Agents,
           StartAt(t, a) \/ TripAt(t, a)
    PROVE  LoopInv'
BY StartTypes, LoopAssumption DEF StartAt, TripAt, LoopInv, LoopTypeOK,
    PhaseConsistent, HookInv, HookEndsRun, Returned, Phases, Outcomes, InTurn, InLoop, Active

\* One step of the loop, by the action that takes it.
LEMMA LoopInductive == LoopInv /\ [LoopNext]_loopVars => LoopInv'
<1> SUFFICES ASSUME LoopInv, [LoopNext]_loopVars
             PROVE  LoopInv'
    OBVIOUS
<1> USE LoopAssumption DEF LoopInv, LoopTypeOK, PhaseConsistent, HookInv,
        HookEndsRun, Returned, Phases, Outcomes, InTurn, InLoop, Active
<1>1. CASE StartAt(0, Root)
    BY <1>1, StartTypes, Starting
<1>2. CASE TripAt(0, Root)
    BY <1>2, StartTypes, Starting
<1>3. CASE BeginTurn
    BY <1>3 DEF BeginTurn
<1>4. CASE SeeToken
    BY <1>4 DEF SeeToken
<1>5. CASE RunOutOfTurns
    BY <1>5 DEF RunOutOfTurns, Close
<1>6. CASE LlmRaises
    BY <1>6 DEF LlmRaises
<1>7. CASE LlmGivesUp
    BY <1>7 DEF LlmGivesUp, Close
<1>8. CASE StreamOpens
    BY <1>8 DEF StreamOpens
<1>9. CASE StreamBreaks
    BY <1>9 DEF StreamBreaks
<1>10. ASSUME NEW kind \in {"final", "tools", "handoff"}, NEW to \in Agents,
              LlmReplies(kind, to)
       PROVE  LoopInv'
    BY <1>10 DEF LlmReplies, Replies
<1>11. CASE Conclude
    BY <1>11 DEF Conclude, Close
<1>12. CASE OutputTrips
    BY <1>12 DEF OutputTrips, Close
<1>13. CASE CallTools
    BY <1>13 DEF CallTools
<1>14. CASE ToolsDone
    BY <1>14 DEF ToolsDone
<1>15. CASE HandOver
    <2>1. turn >= 1 /\ turn - 1 \in 0 .. MaxTurns
        BY <1>15 DEF HandOver
    <2>2. reply.to \in Agents
        BY DEF Replies
    <2> QED
        BY <1>15, <2>1, <2>2 DEF HandOver
<1>16. CASE EndTurn
    BY <1>16 DEF EndTurn
<1>17. CASE DebugStops
    BY <1>17 DEF DebugStops, Close
<1>18. CASE Return
    BY <1>18 DEF Return
<1>19. CASE CancelToken
    BY <1>19 DEF CancelToken
<1>20. CASE Abort
    BY <1>20 DEF Abort
<1>21. CASE CallRunEnd
    BY <1>21 DEF CallRunEnd
<1>22. CASE UNCHANGED loopVars
    BY <1>22 DEF loopVars
<1> QED
    BY <1>1, <1>2, <1>3, <1>4, <1>5, <1>6, <1>7, <1>8, <1>9, <1>10, <1>11,
       <1>12, <1>13, <1>14, <1>15, <1>16, <1>17, <1>18, <1>19, <1>20, <1>21,
       <1>22
       DEF LoopNext, LoopStep

\* The loop's variables keep their types: attempt never passes max_retries, and
\* turn_count stays between 0 and max_turns though every handoff lowers it.
THEOREM LoopTypeCorrect == LoopSpec => []LoopTypeOK
<1>1. LoopInv => LoopTypeOK
    BY DEF LoopInv
<1> QED
    BY <1>1, LoopInitial, LoopInductive, PTL DEF LoopSpec

\* A run in a turn has counted it, and a run has an outcome exactly when it is
\* past its loop.
THEOREM PhasesConsistent == LoopSpec => []PhaseConsistent
<1>1. LoopInv => PhaseConsistent
    BY DEF LoopInv
<1> QED
    BY <1>1, LoopInitial, LoopInductive, PTL DEF LoopSpec

\* HookEndsRun: on_run_end is called for every run that returns a result; of
\* those that end by an exception only one that was cancelled while or after it
\* was called has seen it.
THEOREM HooksEndRuns == LoopSpec => []HookEndsRun
<1>1. LoopInv => HookEndsRun
    BY DEF LoopInv, HookInv
<1> QED
    BY <1>1, LoopInitial, LoopInductive, PTL DEF LoopSpec

-----------------------------------------------------------------------------
(* The transcript *)

\* The part of RunTypeOK that AgentRun adds to the loop's.
TalkTypeOK ==
    /\ messages \in Transcripts /\ session \in Transcripts
    /\ before \in Transcripts /\ produced \in Transcripts
    /\ offset \in Nat
    /\ upto \in Nat
    /\ saved \in Seq(Checkpoints)
    /\ alias \in 0 .. Len(saved)
    /\ found \in 0 .. Len(saved)
    /\ settled \in {"open", "committed", "undone"}
    /\ runs \in 0 .. MaxRuns
    /\ clock \in Nat
    /\ lost \subseteq Messages
    /\ reached \in 0 .. MaxTurns
    /\ newest \in Checkpoints
    /\ rejoined \in BOOLEAN

\* The tools run on a reply, so there is a last message to answer.
Spoken == phase \in InTurn \ {"llm", "stream"} => messages # <<>>

\* The transcript is the history and what was said since; the session is the
\* history until the run is closed, and has both from then on, unless its
\* transaction is rolled back.
Joined ==
    /\ messages = before \o produced
    /\ offset = Len(before)
    /\ phase \in InLoop => session = before
    /\ phase \in {"closing", "ending"} /\ HasSession => session = before \o produced
    /\ SessionComplete

\* A run goes on in an open transaction.
Transacted == phase \in Active => settled = "open"

TypeInv == LoopInv /\ TalkTypeOK /\ Spoken /\ Transacted

\* The steps that neither begin a run, nor save, nor settle.
GoesOn ==
    \/ \E kind \in {"final", "tools", "handoff"}, to \in Agents,
          calls \in CallCounts : \E executed \in 0 .. calls :
            Reply(kind, to, calls, executed)
    \/ Answer \/ Transfer \/ SaveNot \/ Finish \/ Silent
    \/ UNCHANGED runVars

\* They leave what lasts alone, and all but a stutter are of a run that goes on.
LEMMA GoingOn ==
    ASSUME GoesOn
    PROVE  /\ UNCHANGED <<lastingVars, mode>>
           /\ \/ phase \in Active /\ phase' \in Active \cup {"ended"}
              \/ UNCHANGED runVars
<1>1. ASSUME NEW kind, NEW to, NEW calls, NEW executed, Reply(kind, to, calls, executed)
      PROVE  UNCHANGED <<lastingVars, mode>> /\ phase \in Active /\ phase' \in Active
    BY <1>1 DEF Reply, LlmReplies, Active, InTurn
<1>2. CASE Answer \/ Transfer \/ SaveNot
    BY <1>2 DEF Answer, ToolsDone, Transfer, HandOver, SaveNot, EndTurn, talkVars,
                Active, InTurn
<1>3. CASE Finish
    BY <1>3 DEF Finish, RunOutOfTurns, LlmGivesUp, Conclude, OutputTrips, DebugStops,
                Close, Active, InTurn
<1>4. CASE Silent
    BY <1>4 DEF Silent, talkVars, BeginTurn, SeeToken, LlmRaises, StreamOpens,
                StreamBreaks, CallTools, CallRunEnd, Return, CancelToken, Abort,
                Active, InTurn
<1>5. CASE UNCHANGED runVars
    BY <1>5 DEF runVars, loopVars, talkVars
<1> QED
    BY <1>1, <1>2, <1>3, <1>4, <1>5 DEF GoesOn

\* A run is begun, resumed, saved, goes on or is settled.
LEMMA Steps ==
    ASSUME [RunNext]_runVars
    PROVE  \/ Run \/ RunTrips \/ Resume \/ ResumeTrips
           \/ Save \/ Commit \/ Rollback \/ GoesOn
BY DEF RunNext, GoesOn

\* A run begins by opening a transaction, which is settled when it has ended.
LEMMA TransactedStep == TypeInv /\ [RunNext]_runVars => Transacted'
<1> SUFFICES ASSUME TypeInv, [RunNext]_runVars
             PROVE  Transacted'
    OBVIOUS
<1>1. CASE Run \/ RunTrips
    BY <1>1 DEF Run, RunTrips, Begin, Load, Transacted
<1>2. CASE Resume \/ ResumeTrips
    BY <1>2 DEF Resume, ResumeTrips, Rejoin, Load, Transacted
<1>3. CASE Save
    BY <1>3 DEF Save, EndTurn, lastingVars, TypeInv, Transacted, Active
<1>4. CASE Commit \/ Rollback
    BY <1>4 DEF Commit, Rollback, loopVars, Transacted, Active, InTurn
<1>5. CASE GoesOn
    BY <1>5, GoingOn DEF lastingVars, runVars, loopVars, TypeInv, Transacted, Active, InTurn
<1> QED
    BY <1>1, <1>2, <1>3, <1>4, <1>5, Steps

-----------------------------------------------------------------------------
(* What the operators on the transcript do *)

\* A message made by Message is one, alone and as a transcript of its own.
LEMMA MessageType ==
    ASSUME NEW role \in {"user", "assistant", "tool"}, NEW id \in Nat, NEW call \in Nat
    PROVE  /\ Message(role, id, call) \in Messages
           /\ <<Message(role, id, call)>> \in Transcripts
BY DEF Message, Messages, Transcripts

\* A checkpoint of what a run has at hand is well formed.
LEMMA CheckpointType ==
    ASSUME NEW t \in 0 .. MaxTurns, NEW a \in Agents, NEW m \in Transcripts
    PROVE  [turn |-> t, agent |-> a, messages |-> m] \in Checkpoints
BY DEF Checkpoints

\* Appending to the transcript keeps the types, also of an aliased checkpoint.
LEMMA AppendKeeps ==
    ASSUME TalkTypeOK, NEW new \in Transcripts, Append_(new)
    PROVE  /\ messages' \in Transcripts
           /\ produced' \in Transcripts
           /\ saved' \in Seq(Checkpoints)
           /\ Len(saved') = Len(saved)
<1>1. messages' \in Transcripts /\ produced' \in Transcripts
    BY ConcatProperties DEF TalkTypeOK, Append_, Transcripts
<1>2. CASE alias = 0
    BY <1>1, <1>2 DEF TalkTypeOK, Append_
<1>3. CASE alias # 0
    <2> DEFINE cp == saved[alias]
               longer == [cp EXCEPT !.messages = messages \o new]
    <2>1. Len(saved) \in Nat
        BY LenProperties DEF TalkTypeOK
    <2>2. alias \in 1 .. Len(saved)
        BY <1>3, <2>1 DEF TalkTypeOK
    <2>3. cp \in Checkpoints
        BY <2>2, ElementOfSeq DEF TalkTypeOK
    <2>4. messages \o new \in Transcripts
        BY <1>1 DEF Append_
    <2>5. longer \in Checkpoints
        BY <2>3, <2>4 DEF Checkpoints
    <2>6. saved' = [saved EXCEPT ![alias] = longer]
        BY <1>3 DEF Append_
    <2>7. saved \in Seq(Checkpoints)
        BY DEF TalkTypeOK
    <2> HIDE DEF longer
    <2> QED
        BY <1>1, <2>2, <2>5, <2>6, <2>7, ExceptSeq
<1> QED
    BY <1>2, <1>3

\* What the session is given when the run is closed.
LEMMA SaveKeeps ==
    ASSUME TalkTypeOK, SaveSession
    PROVE  session' \in Transcripts
<1>1. Len(messages) \in Nat
    BY LenProperties DEF TalkTypeOK, Transcripts
<1>2. \A i \in offset + 1 .. Len(messages) : messages[i] \in Messages
    BY <1>1, ElementOfSeq DEF TalkTypeOK, Transcripts
<1>3. SubSeq(messages, offset + 1, Len(messages)) \in Transcripts
    BY <1>1, <1>2, SubSeqProperties DEF TalkTypeOK, Transcripts
<1>4. session \o SubSeq(messages, offset + 1, Len(messages)) \in Transcripts
    BY <1>3, ConcatProperties DEF TalkTypeOK, Transcripts
<1> QED
    BY <1>4 DEF SaveSession, TalkTypeOK

\* Beginning with the messages m after the history.
LEMMA LoadKeeps ==
    ASSUME TalkTypeOK, NEW m \in Transcripts, Load(m)
    PROVE  /\ messages' \in Transcripts
           /\ before' \in Transcripts
           /\ produced' \in Transcripts
           /\ offset' \in Nat
           /\ upto' \in Nat
           /\ runs' \in 0 .. MaxRuns
           /\ settled' = "open"
           /\ lost' = lost
<1>1. messages' \in Transcripts
    BY ConcatProperties DEF TalkTypeOK, Load, Transcripts
<1>2. offset' \in Nat
    BY LenProperties DEF TalkTypeOK, Load, Transcripts
<1> QED
    BY <1>1, <1>2, RunAssumption DEF TalkTypeOK, Load

\* The messages from just behind a prefix on are the rest.
LEMMA RestOfConcat ==
    ASSUME NEW s \in Transcripts, NEW t \in Transcripts
    PROVE  SubSeq(s \o t, Len(s) + 1, Len(s \o t)) = t
<1>1. /\ Len(s) \in Nat /\ Len(t) \in Nat
      /\ Len(s \o t) = Len(s) + Len(t)
      /\ \A i \in 1 .. Len(s) + Len(t) :
            (s \o t)[i] = IF i <= Len(s) THEN s[i] ELSE t[i - Len(s)]
    BY LenProperties, ConcatProperties DEF Transcripts
<1> DEFINE rest == SubSeq(s \o t, Len(s) + 1, Len(s \o t))
<1>2. \A i \in Len(s) + 1 .. Len(s) + Len(t) : (s \o t)[i] \in Messages
    BY <1>1, ElementOfSeq DEF Transcripts
<1>3. /\ rest \in Transcripts
      /\ Len(rest) = Len(t)
      /\ \A i \in 1 .. Len(t) : rest[i] = (s \o t)[Len(s) + 1 + i - 1]
    <2>1. Len(s) + 1 \in Int /\ Len(s) + Len(t) \in Int
        BY <1>1
    <2>2. /\ rest \in Transcripts
          /\ Len(rest) = IF Len(s) + 1 <= Len(s) + Len(t)
                         THEN (Len(s) + Len(t)) - (Len(s) + 1) + 1 ELSE 0
          /\ \A i \in 1 .. (Len(s) + Len(t)) - (Len(s) + 1) + 1 :
                rest[i] = (s \o t)[Len(s) + 1 + i - 1]
        BY <1>1, <1>2, <2>1, SubSeqProperties DEF Transcripts
    <2> QED
        BY <1>1, <2>2
<1>4. ASSUME NEW i \in 1 .. Len(rest)
      PROVE  rest[i] = t[i]
    <2>1. i \in 1 .. Len(t) /\ i \in Nat /\ i >= 1 /\ Len(s) \in Nat
        BY <1>1, <1>3
    <2> DEFINE k == Len(s) + 1 + i - 1
    <2>2. k \in 1 .. Len(s) + Len(t) /\ ~(k <= Len(s)) /\ k - Len(s) = i
        BY <1>1, <2>1
    <2>3. rest[i] = (s \o t)[k]
        BY <1>3, <2>1
    <2> HIDE DEF k
    <2> QED
        BY <1>1, <2>2, <2>3
<1> HIDE DEF rest
<1> QED
    BY <1>3, <1>4, SeqEqual DEF rest, Transcripts

-----------------------------------------------------------------------------
(* Types *)

\* An empty transcript joins an empty session.
LEMMA RunInitial == RunInit => TypeInv /\ Joined
<1> SUFFICES ASSUME RunInit
             PROVE  TypeInv /\ Joined
    OBVIOUS
<1>1. <<>> \in Transcripts /\ <<>> \in Seq(Checkpoints) /\ Len(<<>>) = 0
    BY EmptySeq DEF Transcripts
<1>2. NoCheckpoint \in Checkpoints
    <2>1. 0 \in 0 .. MaxTurns /\ Root \in Agents
        BY LoopAssumption
    <2> QED
        BY <2>1, <1>1, CheckpointType DEF NoCheckpoint
<1>3. LoopInv
    BY LoopInitial DEF RunInit
<1>4. TalkTypeOK
  <2>1. rejoined \in BOOLEAN /\ lost \subseteq Messages
      BY DEF RunInit
  <2>2. 0 \in 0 .. MaxTurns /\ 0 \in 0 .. MaxRuns /\ 0 \in 0 .. 0 /\ 0 \in Nat
      BY LoopAssumption, RunAssumption
  <2> QED
      BY <1>1, <1>2, <2>1, <2>2 DEF RunInit, TalkTypeOK
<1>5. phase = "idle" /\ <<>> \o <<>> = <<>>
    BY <1>1, ConcatEmptySeq DEF RunInit, LoopInit, Transcripts
<1> QED
    BY <1>1, <1>3, <1>4, <1>5
       DEF RunInit, TypeInv, Spoken, Transacted, Joined, SessionComplete, InTurn,
           InLoop, Active

\* What a resumption starts from is a checkpoint.
LEMMA Resumption ==
    ASSUME TypeInv, Resume \/ ResumeTrips
    PROVE  \E k \in 1 .. Len(saved) :
              /\ k \in DOMAIN saved /\ Latest(k) /\ Rejoin(k)
              /\ saved[k].turn \in 0 .. MaxTurns /\ saved[k].messages \in Transcripts
              /\ Finds(k) \in Agents
              /\ Resume => StartAt(saved[k].turn, Finds(k)) /\ session' = session
              /\ ~Resume =>
                    /\ TripAt(saved[k].turn, Finds(k))
                    /\ session' = IF HasSession THEN session \o saved[k].messages ELSE session
<1>1. saved \in Seq(Checkpoints) /\ DOMAIN saved = 1 .. Len(saved)
    BY LenProperties DEF TypeInv, TalkTypeOK
<1>2. ASSUME NEW k \in DOMAIN saved
      PROVE  /\ saved[k].turn \in 0 .. MaxTurns /\ saved[k].messages \in Transcripts
             /\ Finds(k) \in Agents
  <2>1. saved[k] \in Checkpoints
      BY <1>1, ElementOfSeq
  <2> QED
      BY <2>1, LoopAssumption DEF Checkpoints, Finds
<1> QED
    BY <1>1, <1>2 DEF Resume, ResumeTrips, Rejoin

\* The loop's part of a step: that of AgentLoop, or a start at a checkpoint.
LEMMA LoopSteps ==
    ASSUME TypeInv, [RunNext]_runVars
    PROVE  [LoopNext \/ \E t \in 0 .. MaxTurns, a \in Agents :
                           StartAt(t, a) \/ TripAt(t, a)]_loopVars
<1>1. CASE Resume \/ ResumeTrips
    BY <1>1, Resumption
<1>2. RunNext => Resume \/ ResumeTrips \/ LoopNext \/ UNCHANGED loopVars
    BY DEF RunNext, Run, RunTrips, Reply, Answer, Transfer, Save, SaveNot, Finish,
           Silent, Commit, Rollback, LoopNext, LoopStep
<1> QED
    BY <1>1, <1>2 DEF runVars

\* Either keeps the loop's invariant.
LEMMA LoopPart == TypeInv /\ [RunNext]_runVars => LoopInv'
<1> SUFFICES ASSUME TypeInv, [RunNext]_runVars
             PROVE  LoopInv'
    OBVIOUS
<1>1. LoopInv
    BY DEF TypeInv
<1> QED
    BY <1>1, LoopSteps, Starting, LoopInductive

\* The results of n calls, those that got numbers, of the reply id; and the
\* calls that have none.
Results(id, n, got) == [i \in 1 .. n |-> Message("tool", id, got[i])]
Missing(n, got) == {c \in 1 .. upto : \A i \in 1 .. n : got[i] # c}

\* The results of a reply's calls are messages.
LEMMA AnswerType ==
    ASSUME TypeInv, Answer
    PROVE  LET id == Last(messages).id
           IN  /\ phase = "tools" /\ phase' \in {"handing", "saving"}
               /\ messages # <<>> /\ id \in Nat
               /\ \E n \in Nat : \E got \in [1 .. n -> 1 .. upto] :
                     /\ \A i, j \in 1 .. n : i < j => got[i] < got[j]
                     /\ Results(id, n, got) \in Transcripts
                     /\ Append_(Results(id, n, got))
                     /\ lost' = lost \cup {Message("tool", id, c) : c \in Missing(n, got)}
<1>1. phase = "tools" /\ phase' \in {"handing", "saving"} /\ messages # <<>>
    BY DEF Answer, ToolsDone, TypeInv, Spoken, InTurn
<1>2. Last(messages).id \in Nat
  <2>1. Len(messages) \in 1 .. Len(messages)
      BY <1>1, EmptySeq DEF TypeInv, TalkTypeOK, Transcripts
  <2>2. Last(messages) \in Messages
      BY <2>1, ElementOfSeq DEF TypeInv, TalkTypeOK, Transcripts, Last
  <2> QED
      BY <2>2 DEF Messages
<1>3. upto \in Nat
    BY DEF TypeInv, TalkTypeOK
<1>4. ASSUME NEW n \in Nat, NEW got \in [1 .. n -> 1 .. upto]
      PROVE  Results(Last(messages).id, n, got) \in Transcripts
  <2>1. ASSUME NEW i \in 1 .. n
        PROVE  Message("tool", Last(messages).id, got[i]) \in Messages
    <3>1. got[i] \in Nat
        BY <1>3
    <3> QED
        BY <1>2, <3>1, MessageType
  <2> QED
      BY <2>1 DEF Results, Transcripts
<1>5. 0 .. upto \subseteq Nat
    BY <1>3
<1>6. \E n \in 0 .. upto : \E got \in [1 .. n -> 1 .. upto] :
         /\ \A i, j \in 1 .. n : i < j => got[i] < got[j]
         /\ Append_(Results(Last(messages).id, n, got))
         /\ lost' = lost \cup {Message("tool", Last(messages).id, c) : c \in Missing(n, got)}
    BY DEF Answer, Results, Missing
<1> QED
    BY <1>1, <1>2, <1>4, <1>5, <1>6

\* What a rollback leaves of the checkpoints: those that were there before the
\* run.
LEMMA RolledBack ==
    ASSUME TypeInv, Rollback
    PROVE  /\ found \in Nat /\ found <= Len(saved) /\ Len(saved) \in Nat
           /\ saved' \in Seq(Checkpoints) /\ Len(saved') = found
           /\ \A i \in 1 .. found : saved'[i] = saved[i] /\ i \in 1 .. Len(saved)
           /\ newest' \in Checkpoints
           /\ found > 0 => newest' = saved'[found]
<1>1. /\ saved \in Seq(Checkpoints) /\ Len(saved) \in Nat /\ found \in 0 .. Len(saved)
      /\ \A i \in 1 .. Len(saved) : saved[i] \in Checkpoints
    BY LenProperties, ElementOfSeq DEF TypeInv, TalkTypeOK
<1>2. saved' = SubSeq(saved, 1, found)
    BY DEF Rollback
<1>3. /\ saved' \in Seq(Checkpoints)
      /\ Len(saved') = IF 1 <= found THEN found - 1 + 1 ELSE 0
      /\ \A i \in 1 .. found - 1 + 1 : saved'[i] = saved[1 + i - 1]
  <2>1. 1 \in Int /\ found \in Int /\ \A i \in 1 .. found : saved[i] \in Checkpoints
      BY <1>1
  <2> QED
      BY <1>1, <1>2, <2>1, SubSeqProperties
<1>4. /\ found \in Nat /\ Len(saved') = found
      /\ \A i \in 1 .. found : saved'[i] = saved[i] /\ i \in 1 .. Len(saved)
    BY <1>1, <1>3
<1>5. newest' \in Checkpoints /\ (found > 0 => newest' = saved'[found])
  <2>1. NoCheckpoint \in Checkpoints
    <3>1. 0 \in 0 .. MaxTurns /\ Root \in Agents /\ <<>> \in Transcripts
        BY LoopAssumption, EmptySeq DEF Transcripts
    <3> QED
        BY <3>1, CheckpointType DEF NoCheckpoint
  <2>2. newest' = IF found = 0 THEN NoCheckpoint ELSE saved[found]
      BY DEF Rollback
  <2>3. found > 0 => found \in 1 .. found /\ found \in 1 .. Len(saved)
      BY <1>1
  <2> QED
      BY <1>1, <1>4, <2>1, <2>2, <2>3
<1> QED
    BY <1>1, <1>3, <1>4, <1>5

\* Every step keeps the types of transcript, session and checkpoints, and
\* leaves a message to answer while the tools of a reply run.
LEMMA TalkTypes == TypeInv /\ [RunNext]_runVars => TalkTypeOK' /\ Spoken'
<1> SUFFICES ASSUME TypeInv, [RunNext]_runVars
             PROVE  TalkTypeOK' /\ Spoken'
    OBVIOUS
<1>0. TalkTypeOK /\ LoopInv /\ Spoken
    BY DEF TypeInv
<1>1. ASSUME Begin
      PROVE  /\ messages' \in Transcripts /\ before' \in Transcripts
             /\ produced' \in Transcripts /\ offset' \in Nat
             /\ upto' \in Nat /\ runs' \in 0 .. MaxRuns
             /\ saved' \in Seq(Checkpoints) /\ alias' \in 0 .. Len(saved')
             /\ found' \in 0 .. Len(saved') /\ settled' = "open" /\ lost' = lost
             /\ reached' \in 0 .. MaxTurns
             /\ clock' \in Nat /\ newest' \in Checkpoints
             /\ rejoined' \in BOOLEAN
    <2>1. <<User(clock)>> \in Transcripts
        BY <1>0, MessageType DEF TalkTypeOK, User
    <2>2. NoCheckpoint \in Checkpoints /\ <<>> \in Seq(Checkpoints) /\ Len(<<>>) = 0
          /\ 0 \in 0 .. MaxTurns
        <3>1. 0 \in 0 .. MaxTurns /\ Root \in Agents
            BY LoopAssumption
        <3> QED
            BY <3>1, EmptySeq, CheckpointType DEF NoCheckpoint, Transcripts
    <2> QED
        BY <1>0, <1>1, <2>1, <2>2, LoadKeeps DEF Begin, TalkTypeOK
<1>2. CASE Run
    BY <1>0, <1>1, <1>2 DEF Run, StartAt, TalkTypeOK, Spoken, InTurn
<1>3. CASE RunTrips
    <2>1. User(clock) \in Messages
        BY <1>0, MessageType DEF TalkTypeOK, User
    <2>2. session' \in Transcripts
        BY <1>0, <1>3, <2>1, AppendProperties DEF RunTrips, TalkTypeOK, Transcripts
    <2> QED
        BY <1>0, <1>1, <1>3, <2>2 DEF RunTrips, TripAt, TalkTypeOK, Spoken, InTurn
<1>4. CASE Resume \/ ResumeTrips
    <2>1. PICK k \in 1 .. Len(saved) :
            /\ Rejoin(k) /\ saved[k].messages \in Transcripts
            /\ phase' \in {"ready", "closing"}
            /\ session' = session \/ session' = session \o saved[k].messages
        BY <1>4, Resumption DEF StartAt, TripAt
    <2>2. session' \in Transcripts
      <3>1. session \in Transcripts
          BY <1>0 DEF TalkTypeOK
      <3>2. session \o saved[k].messages \in Transcripts
          BY <2>1, <3>1, ConcatProperties DEF Transcripts
      <3> QED
          BY <2>1, <3>1, <3>2
    <2>3. /\ Load(saved[k].messages)
          /\ alias' = IF Backend = "memory" /\ session = <<>> THEN k ELSE 0
          /\ found' = Len(saved) /\ rejoined' = (rejoined \/ session # <<>>)
          /\ UNCHANGED <<saved, clock, reached, newest>>
        BY <2>1 DEF Rejoin
    <2>4. Len(saved) \in Nat
        BY <1>0, LenProperties DEF TalkTypeOK
    <2>5. alias' \in 0 .. Len(saved) /\ found' \in 0 .. Len(saved)
        BY <2>1, <2>3, <2>4
    <2> QED
        BY <1>0, <2>1, <2>2, <2>3, <2>5, LoadKeeps DEF TalkTypeOK, Spoken, InTurn
<1>5. ASSUME NEW kind \in {"final", "tools", "handoff"}, NEW to \in Agents,
             NEW calls \in CallCounts, NEW executed \in 0 .. calls,
             Reply(kind, to, calls, executed)
      PROVE  TalkTypeOK' /\ Spoken'
    <2> DEFINE new == <<Message("assistant", clock, calls)>>
    <2>1. new \in Transcripts
      <3>1. clock \in Nat /\ calls \in Nat
          BY <1>0, RunAssumption DEF TalkTypeOK
      <3> QED
          BY <3>1, MessageType
    <2>2. Append_(new)
        BY <1>5 DEF Reply
    <2>3. messages' # <<>>
        <3>1. Len(new) = 1
            OBVIOUS
        <3>2. Len(messages \o new) = Len(messages) + 1 /\ Len(messages) \in Nat
            BY <1>0, <2>1, <3>1, ConcatProperties, LenProperties DEF TalkTypeOK, Transcripts
        <3>3. Len(messages') # 0
            BY <2>2, <3>2 DEF Append_
        <3> QED
            BY <3>3
    <2>4. upto' \in Nat /\ clock' \in Nat
        BY <1>0, <1>5, RunAssumption DEF Reply, TalkTypeOK
    <2> HIDE DEF new
    <2> QED
        BY <1>0, <1>5, <2>1, <2>2, <2>3, <2>4, AppendKeeps
        DEF Reply, lastingVars, TalkTypeOK, Spoken
<1>6. CASE Answer
    <2>1. PICK new \in Transcripts, out \in SUBSET (1 .. upto) :
            /\ Append_(new)
            /\ lost' = lost \cup {Message("tool", Last(messages).id, c) : c \in out}
        BY <1>6, AnswerType DEF Missing
    <2>2. messages # <<>> /\ Last(messages).id \in Nat /\ upto \in Nat
        BY <1>0, <1>6, AnswerType DEF TalkTypeOK
    <2>3. messages' # <<>>
        BY <1>0, <2>1, <2>2, ConcatEqualIffEmpty DEF Append_, TalkTypeOK, Transcripts
    <2>4. lost' \subseteq Messages
      <3>1. ASSUME NEW c \in out
            PROVE  Message("tool", Last(messages).id, c) \in Messages
        <4>1. c \in Nat
            BY <2>2
        <4> QED
            BY <2>2, <4>1, MessageType
      <3>2. lost \subseteq Messages
          BY <1>0 DEF TalkTypeOK
      <3> QED
          BY <2>1, <3>1, <3>2
    <2> QED
        BY <1>0, <1>6, <2>1, <2>3, <2>4, AppendKeeps
        DEF Answer, lastingVars, TalkTypeOK, Spoken
<1>7. CASE Transfer
    <2>1. phase = "handing" /\ messages # <<>> /\ phase' = "saving"
        BY <1>0, <1>7 DEF Transfer, HandOver, Spoken, InTurn
    <2>2. <<Last(messages)>> \in Transcripts
        <3>1. Len(messages) \in 1 .. Len(messages)
            BY <1>0, <2>1, EmptySeq DEF TalkTypeOK, Transcripts
        <3>2. Last(messages) \in Messages
            BY <1>0, <3>1, ElementOfSeq DEF TalkTypeOK, Transcripts, Last
        <3> QED
            BY <3>2 DEF Transcripts
    <2>3. Len(saved) \in Nat
        BY <1>0, LenProperties DEF TalkTypeOK
    <2> QED
        BY <1>0, <1>7, <2>1, <2>2, <2>3 DEF Transfer, lastingVars, TalkTypeOK, Spoken, InTurn
<1>8. CASE Save
    <2>1. newest' \in Checkpoints
        <3>1. turn \in 0 .. MaxTurns /\ agent \in Agents
            BY <1>0 DEF LoopInv, LoopTypeOK
        <3> QED
            BY <1>0, <1>8, <3>1, CheckpointType DEF Save, TalkTypeOK
    <2>2. saved' \in Seq(Checkpoints) /\ Len(saved') = Len(saved) + 1 /\ Len(saved) \in Nat
        BY <1>0, <1>8, <2>1, AppendProperties, LenProperties DEF Save, TalkTypeOK
    <2>3. alias' \in 0 .. Len(saved') /\ found' \in 0 .. Len(saved')
        BY <1>0, <1>8, <2>2 DEF Save, lastingVars, TalkTypeOK
    <2> QED
        BY <1>0, <1>8, <2>1, <2>2, <2>3
        DEF Save, EndTurn, lastingVars, TalkTypeOK, Spoken, InTurn
<1>9. CASE SaveNot
    BY <1>0, <1>9 DEF SaveNot, EndTurn, talkVars, lastingVars, TalkTypeOK, Spoken, InTurn
<1>10. CASE Finish
    <2>1. session' \in Transcripts
        BY <1>0, <1>10, SaveKeeps DEF Finish
    <2>2. phase' = "closing"
        BY <1>10 DEF Finish, RunOutOfTurns, LlmGivesUp, Conclude, OutputTrips,
                     DebugStops, Close
    <2> QED
        BY <1>0, <1>10, <2>1, <2>2 DEF Finish, lastingVars, TalkTypeOK, Spoken, InTurn
<1>11. CASE Silent
    <2>1. TalkTypeOK'
        BY <1>0, <1>11 DEF Silent, talkVars, lastingVars, TalkTypeOK
    <2>2. phase' \in InTurn \ {"llm", "stream"} => phase \in InTurn \ {"llm", "stream"}
        BY <1>11 DEF Silent, BeginTurn, SeeToken, LlmRaises, StreamOpens, StreamBreaks,
                     CallTools, CallRunEnd, Return, CancelToken, Abort, InTurn
    <2> QED
        BY <1>0, <1>11, <2>1, <2>2 DEF Silent, talkVars, lastingVars, Spoken
<1>12. CASE UNCHANGED runVars
    BY <1>0, <1>12 DEF runVars, loopVars, talkVars, lastingVars, TalkTypeOK, Spoken
<1>13. CASE Commit
    BY <1>0, <1>13 DEF Commit, loopVars, LoopInv, LoopTypeOK, TalkTypeOK, Spoken, InTurn
<1>14. CASE Rollback
    <2>1. found \in 0 .. found
        BY <1>14, RolledBack
    <2> QED
        BY <1>0, <1>14, <2>1, RolledBack DEF Rollback, loopVars, TalkTypeOK, Spoken, InTurn
<1> QED
    BY <1>2, <1>3, <1>4, <1>5, <1>6, <1>7, <1>8, <1>9, <1>10, <1>11, <1>12, <1>13, <1>14
    DEF RunNext

\* The loop's part and the transcript's part together.
LEMMA TypeInductive == TypeInv /\ [RunNext]_runVars => TypeInv'
BY LoopPart, TalkTypes, TransactedStep DEF TypeInv

-----------------------------------------------------------------------------
(* The session *)

\* Closing the run joins the session and what was said.
LEMMA Closing ==
    ASSUME TypeInv, Joined, phase \in InLoop, SaveSession, HasSession
    PROVE  session' = before \o produced
<1>1. before \in Transcripts /\ produced \in Transcripts
    BY DEF TypeInv, TalkTypeOK
<1>2. SubSeq(messages, offset + 1, Len(messages)) = produced
    BY <1>1, RestOfConcat DEF Joined
<1>3. session = before
    BY DEF Joined
<1> QED
    BY <1>2, <1>3 DEF SaveSession

\* Every step keeps transcript, session and offset joined, when no filter cuts
\* the transcript.
LEMMA JoinedInductive ==
    ASSUME ~Filtered, TypeInv, Joined, [RunNext]_runVars
    PROVE  Joined'
<1>1. /\ messages \in Transcripts /\ session \in Transcripts
      /\ before \in Transcripts /\ produced \in Transcripts
      /\ PhaseConsistent /\ HookInv
    BY DEF TypeInv, TalkTypeOK, LoopInv
<1>2. CASE Run
    BY <1>2 DEF Run, StartAt, Begin, Load, Joined, SessionComplete, InLoop, Active, InTurn
<1>3. CASE RunTrips
    <2>1. <<User(clock)>> \in Transcripts /\ User(clock) \in Messages
        BY MessageType DEF TypeInv, TalkTypeOK, User
    <2>2. Append(session, User(clock)) = session \o <<User(clock)>>
        BY <1>1, <2>1, AppendIsConcat DEF Transcripts
    <2> QED
        BY <1>3, <2>2 DEF RunTrips, TripAt, Begin, Load, Joined, SessionComplete, InLoop, Active, InTurn
<1>4. CASE Resume \/ ResumeTrips
    <2>1. PICK m : /\ Load(m)
                   /\ \/ phase' = "ready" /\ session' = session
                      \/ /\ phase' = "closing"
                         /\ session' = IF HasSession THEN session \o m ELSE session
        BY <1>4, Resumption DEF Rejoin, StartAt, TripAt
    <2> QED
        BY <2>1 DEF Load, Joined, SessionComplete, InLoop, Active, InTurn
\* Saying something more.
<1>5. ASSUME NEW new \in Transcripts, Append_(new)
      PROVE  messages = before \o produced => messages' = before \o produced'
    <2>1. (before \o produced) \o new = before \o (produced \o new)
        <3>1. before \in Seq(Messages) /\ produced \in Seq(Messages) /\ new \in Seq(Messages)
            BY <1>1, <1>5 DEF Transcripts
        <3> QED
            BY <3>1, ConcatAssociative
    <2> QED
        BY <1>5, <2>1 DEF Append_
<1>6. ASSUME NEW kind \in {"final", "tools", "handoff"}, NEW to \in Agents,
             NEW calls \in CallCounts, NEW executed \in 0 .. calls,
             Reply(kind, to, calls, executed)
      PROVE  Joined'
    <2>1. <<Message("assistant", clock, calls)>> \in Transcripts
      <3>1. clock \in Nat /\ calls \in Nat
          BY RunAssumption DEF TypeInv, TalkTypeOK
      <3> QED
          BY <3>1, MessageType
    <2>2. Append_(<<Message("assistant", clock, calls)>>)
        BY <1>6 DEF Reply
    <2>3. messages' = before \o produced'
        BY <1>5, <2>1, <2>2 DEF Joined
    <2> QED
        BY <1>6, <2>3 DEF Reply, LlmReplies, lastingVars, Joined, SessionComplete, InLoop, Active, InTurn
<1>7. CASE Answer
    <2>1. phase = "tools" /\ phase' \in {"handing", "saving"}
        BY <1>7, AnswerType
    <2>2. messages' = before \o produced'
        BY <1>5, <1>7, AnswerType DEF Joined
    <2> QED
        BY <1>7, <2>1, <2>2
        DEF Answer, lastingVars, Joined, SessionComplete, InLoop, Active, InTurn
<1>8. CASE Transfer
    BY <1>8, ~Filtered DEF Transfer, HandOver, lastingVars, Joined, SessionComplete, InLoop, Active, InTurn
<1>9. CASE Save
    BY <1>9 DEF Save, EndTurn, lastingVars, Joined, SessionComplete, InLoop, Active, InTurn
<1>10. CASE SaveNot
    BY <1>10 DEF SaveNot, EndTurn, talkVars, lastingVars, Joined, SessionComplete, InLoop, Active, InTurn
<1>11. CASE Finish
    <2>1. /\ phase \in InLoop
          /\ phase' = "closing"
          /\ UNCHANGED <<messages, offset, before, produced>>
          /\ SaveSession
        BY <1>11 DEF Finish, RunOutOfTurns, LlmGivesUp, Conclude, OutputTrips,
                     DebugStops, Close, lastingVars, InLoop, Active, InTurn
    <2> QED
        BY <2>1, Closing DEF Joined, SessionComplete, InLoop, Active, InTurn
<1>12. CASE Silent
    <2>1. UNCHANGED <<messages, offset, before, produced, session, settled>>
        BY <1>12 DEF Silent, talkVars, lastingVars
    <2>2. \/ phase \in InLoop /\ phase' \in InLoop
          \/ phase' = "ended" /\ outcome' \in {"cancelled", "broken"}
          \/ /\ phase \in {"closing", "ending"}
             /\ phase' \in {"closing", "ending", "ended"}
        BY <1>12 DEF Silent, BeginTurn, SeeToken, LlmRaises, StreamOpens, StreamBreaks,
                     CallTools, CallRunEnd, Return, CancelToken, Abort, InLoop, Active,
                     InTurn
    <2> QED
        BY <2>1, <2>2 DEF Joined, SessionComplete, Returned, InLoop, Active, InTurn
<1>13. CASE Commit
    BY <1>13 DEF Commit, loopVars, Joined, SessionComplete, InLoop, Active, InTurn
<1>14. CASE Rollback
    BY <1>14 DEF Rollback, loopVars, Joined, SessionComplete, InLoop, Active, InTurn
<1>15. CASE UNCHANGED runVars
    BY <1>15 DEF runVars, loopVars, talkVars, lastingVars, Joined, SessionComplete
<1> QED
    BY <1>2, <1>3, <1>4, <1>6, <1>7, <1>8, <1>9, <1>10, <1>11, <1>12, <1>13, <1>14, <1>15
    DEF RunNext

-----------------------------------------------------------------------------
(* The theorems *)

\* The variables of a run, of the session and of the stored checkpoints keep
\* their types, whatever is aborted, resumed, filtered or shared.
THEOREM RunTypeCorrect == RunSpec => []RunTypeOK
<1>1. TypeInv => RunTypeOK
    BY DEF TypeInv, TalkTypeOK, LoopInv, RunTypeOK
<1> QED
    BY <1>1, RunInitial, TypeInductive, PTL DEF RunSpec

\* SessionComplete: the session gains each run that ends by itself once and
\* whole, when no handoff filters the transcript, and keeps it unless the
\* transaction is rolled back; aborted and resumed runs included.
THEOREM SessionsComplete ==
    ASSUME ~Filtered
    PROVE  RunSpec => []SessionComplete
<1>1. TypeInv /\ Joined /\ [RunNext]_runVars => (TypeInv /\ Joined)'
    BY TypeInductive, JoinedInductive, ~Filtered
<1>2. TypeInv /\ Joined => SessionComplete
    BY DEF Joined
<1> QED
    BY <1>1, <1>2, RunInitial, PTL DEF RunSpec

\* HookEndsRun, of the runs that are resumed too: one that returns a result has
\* called on_run_end, and of the others only one that was cancelled then.
THEOREM ResumedHooksEndRuns == RunSpec => []HookEndsRun
<1>1. TypeInv => HookEndsRun
    BY DEF TypeInv, LoopInv, HookInv
<1> QED
    BY <1>1, RunInitial, TypeInductive, PTL DEF RunSpec

\* The loop with a resumption from anywhere.
ResumableLoop ==
    LoopInit /\ [][LoopNext \/ \E t \in 0 .. MaxTurns, a \in Agents :
                                 StartAt(t, a) \/ TripAt(t, a)]_loopVars

\* What runs say, save and resume from never makes them leave the loop: every
\* run is one of AgentLoop that may begin at some turn with some agent.
THEOREM RunsAreLoops == RunSpec => ResumableLoop
<1>1. RunInit => LoopInit
    BY DEF RunInit
<1>2. TypeInv /\ [RunNext]_runVars =>
        [LoopNext \/ \E t \in 0 .. MaxTurns, a \in Agents :
                        StartAt(t, a) \/ TripAt(t, a)]_loopVars
    BY LoopSteps
<1> QED
    BY <1>1, <1>2, RunInitial, TypeInductive, PTL DEF RunSpec, ResumableLoop

-----------------------------------------------------------------------------
(* The tool calls and their results *)

\* Every tool call in the transcript s has its result further on in it, or in
\* l, the results that never came.
WholeTalk(s, l) ==
    \A i \in 1 .. Len(s) : s[i].role = "assistant" =>
        \A c \in 1 .. s[i].call :
            LET result == Message("tool", s[i].id, c)
            IN  result \in l \/ \E j \in i + 1 .. Len(s) : s[j] = result

\* Between the reply and the results its calls are all that is unanswered, and
\* upto is how many they are.
AnswerInv ==
    /\ alias = 0
    /\ WholeTalk(session, lost) /\ WholeTalk(before, lost)
    /\ \A k \in 1 .. Len(saved) : WholeTalk(saved[k].messages, lost)
    /\ phase \in {"ready", "llm", "stream", "handing", "saving"} => WholeTalk(messages, lost)
    /\ phase \in {"replied", "tools"} =>
          \E s \in Transcripts, id \in Nat :
              /\ WholeTalk(s, lost)
              /\ messages = Append(s, Message("assistant", id, upto))
    /\ phase = "replied" /\ reply.kind = "final" => upto = 0

\* More that never came leaves a transcript whole.
LEMMA WholeStill ==
    ASSUME NEW s, NEW l, NEW m, l \subseteq m, WholeTalk(s, l)
    PROVE  WholeTalk(s, m)
BY DEF WholeTalk

\* Transcripts that are whole are so together.
LEMMA WholeConcat ==
    ASSUME NEW s \in Transcripts, NEW t \in Transcripts, NEW l,
           WholeTalk(s, l), WholeTalk(t, l)
    PROVE  WholeTalk(s \o t, l)
<1> DEFINE u == s \o t
<1>1. /\ Len(s) \in Nat /\ Len(t) \in Nat /\ Len(u) = Len(s) + Len(t)
      /\ \A i \in 1 .. Len(u) : u[i] = IF i <= Len(s) THEN s[i] ELSE t[i - Len(s)]
    BY LenProperties, ConcatProperties DEF Transcripts
<1>2. /\ \A i \in 1 .. Len(s) : s[i] \in Messages
      /\ \A i \in 1 .. Len(t) : t[i] \in Messages
    BY ElementOfSeq DEF Transcripts
<1> HIDE DEF u
<1>3. SUFFICES ASSUME NEW i \in 1 .. Len(u), u[i].role = "assistant",
                      NEW c \in 1 .. u[i].call, Message("tool", u[i].id, c) \notin l
               PROVE  \E j \in i + 1 .. Len(u) : u[j] = Message("tool", u[i].id, c)
    BY DEF WholeTalk, u
<1>4. CASE i <= Len(s)
  <2>1. i \in 1 .. Len(s) /\ u[i] = s[i]
      BY <1>1, <1>4
  <2>2. PICK j \in i + 1 .. Len(s) : s[j] = Message("tool", s[i].id, c)
      BY <1>3, <2>1 DEF WholeTalk
  <2>3. j \in i + 1 .. Len(u) /\ u[j] = s[j]
      BY <1>1, <2>1, <2>2
  <2> QED
      BY <2>1, <2>2, <2>3
<1>5. CASE i > Len(s)
  <2>1. i - Len(s) \in 1 .. Len(t) /\ u[i] = t[i - Len(s)]
      BY <1>1, <1>5
  <2> DEFINE k == i - Len(s)
  <2>2. PICK j \in k + 1 .. Len(t) : t[j] = Message("tool", t[k].id, c)
      BY <1>3, <2>1 DEF WholeTalk
  <2> DEFINE m == j + Len(s)
  <2>3. m \in i + 1 .. Len(u)
    <3>1. Len(s) \in Nat /\ Len(t) \in Nat /\ Len(u) = Len(s) + Len(t) /\ i \in Nat
        BY <1>1
    <3> QED
        BY <3>1, <2>1, <2>2
  <2>4. ~(m <= Len(s)) /\ m - Len(s) = j /\ m \in 1 .. Len(u)
    <3>1. Len(s) \in Nat /\ Len(t) \in Nat /\ Len(u) = Len(s) + Len(t) /\ i \in Nat
        BY <1>1
    <3> QED
        BY <3>1, <2>1, <2>2
  <2> HIDE DEF m
  <2>5. u[m] = t[j]
      BY <1>1, <2>4
  <2> QED
      BY <2>1, <2>2, <2>3, <2>5
<1> QED
    BY <1>1, <1>4, <1>5

\* The end of a whole transcript is whole: results come after their calls.
LEMMA WholeSuffix ==
    ASSUME NEW s \in Transcripts, NEW n \in Nat, NEW l, WholeTalk(s, l)
    PROVE  /\ SubSeq(s, n + 1, Len(s)) \in Transcripts
           /\ WholeTalk(SubSeq(s, n + 1, Len(s)), l)
<1> DEFINE t == SubSeq(s, n + 1, Len(s))
<1>1. Len(s) \in Nat /\ \A i \in 1 .. Len(s) : s[i] \in Messages
    BY LenProperties, ElementOfSeq DEF Transcripts
<1>2. /\ t \in Transcripts
      /\ Len(t) = IF n + 1 <= Len(s) THEN Len(s) - n ELSE 0
      /\ \A i \in 1 .. Len(s) - n : t[i] = s[n + i]
  <2>1. n + 1 \in Int /\ Len(s) \in Int /\ \A i \in n + 1 .. Len(s) : s[i] \in Messages
      BY <1>1
  <2>2. /\ t \in Transcripts
        /\ Len(t) = IF n + 1 <= Len(s) THEN Len(s) - (n + 1) + 1 ELSE 0
        /\ \A i \in 1 .. Len(s) - (n + 1) + 1 : t[i] = s[n + 1 + i - 1]
      BY <2>1, SubSeqProperties DEF Transcripts
  <2> HIDE DEF t
  <2> QED
      BY <1>1, <2>2
<1> HIDE DEF t
<1>3. SUFFICES ASSUME NEW i \in 1 .. Len(t), t[i].role = "assistant",
                      NEW c \in 1 .. t[i].call, Message("tool", t[i].id, c) \notin l
               PROVE  \E j \in i + 1 .. Len(t) : t[j] = Message("tool", t[i].id, c)
    BY <1>2 DEF WholeTalk, t
<1>4. Len(t) = Len(s) - n /\ n + i \in 1 .. Len(s) /\ t[i] = s[n + i]
    BY <1>1, <1>2
<1>5. PICK j \in (n + i) + 1 .. Len(s) : s[j] = Message("tool", s[n + i].id, c)
    BY <1>3, <1>4 DEF WholeTalk
<1>6. j - n \in i + 1 .. Len(t) /\ t[j - n] = s[j]
    BY <1>1, <1>2, <1>4, <1>5
<1> QED
    BY <1>4, <1>5, <1>6

\* A message without calls is whole by itself.
LEMMA WholeOne ==
    ASSUME NEW m, NEW l, m.role # "assistant" \/ m.call = 0
    PROVE  WholeTalk(<<m>>, l)
<1>1. Len(<<m>>) = 1 /\ <<m>>[1] = m
    OBVIOUS
<1> QED
    BY <1>1 DEF WholeTalk

\* The results that came and those that never will make a reply whole.
LEMMA WholeAnswer ==
    ASSUME upto \in Nat, NEW s \in Transcripts, NEW id \in Nat, NEW n \in Nat,
           NEW got \in [1 .. n -> 1 .. upto], NEW l, WholeTalk(s, l),
           \A c \in Missing(n, got) : Message("tool", id, c) \in l,
           Results(id, n, got) \in Transcripts
    PROVE  LET t == Append(s, Message("assistant", id, upto))
           IN  WholeTalk(t \o Results(id, n, got), l)
<1> DEFINE a == Message("assistant", id, upto)
           r == Results(id, n, got)
<1>1. /\ a \in Messages /\ <<a>> \in Transcripts
      /\ a.role = "assistant" /\ a.id = id /\ a.call = upto
    BY MessageType DEF Message
<1>2. r \in Transcripts /\ Len(r) = n /\ \A i \in 1 .. n : r[i] = Message("tool", id, got[i])
    BY DEF Results
<1> HIDE DEF a, r
<1>3. \A i \in 1 .. n : r[i].role = "tool"
    BY <1>2 DEF Message
<1>4. WholeTalk(<<a>> \o r, l)
  <2> DEFINE u == <<a>> \o r
  <2>1. Len(<<a>>) = 1 /\ <<a>>[1] = a
      OBVIOUS
  <2>2. Len(u) = n + 1 /\ \A i \in 1 .. n + 1 : u[i] = IF i <= 1 THEN a ELSE r[i - 1]
    <3>1. /\ Len(u) = Len(<<a>>) + Len(r)
          /\ \A i \in 1 .. Len(<<a>>) + Len(r) :
                u[i] = IF i <= Len(<<a>>) THEN <<a>>[i] ELSE r[i - Len(<<a>>)]
        BY <1>1, <1>2, ConcatProperties DEF Transcripts
    <3> HIDE DEF u
    <3> QED
        BY <1>2, <2>1, <3>1
  <2> HIDE DEF u
  <2>3. SUFFICES ASSUME NEW i \in 1 .. Len(u), u[i].role = "assistant",
                        NEW c \in 1 .. u[i].call, Message("tool", u[i].id, c) \notin l
                 PROVE  \E j \in i + 1 .. Len(u) : u[j] = Message("tool", u[i].id, c)
      BY DEF WholeTalk, u
  <2>4. i = 1 /\ u[i] = a /\ c \in 1 .. upto
    <3>1. i = 1 /\ u[i] = a
      <4>1. i \in 1 .. n + 1 /\ u[i] = IF i <= 1 THEN a ELSE r[i - 1]
          BY <2>2
      <4>2. ~(i <= 1) => i - 1 \in 1 .. n
          BY <4>1
      <4>3. i <= 1
          BY <1>3, <2>3, <4>1, <4>2
      <4> QED
          BY <4>1, <4>3
    <3> QED
        BY <1>1, <2>3, <3>1
  <2>5. PICK k \in 1 .. n : got[k] = c
      BY <1>1, <2>3, <2>4 DEF Missing
  <2>6. k + 1 \in i + 1 .. Len(u) /\ u[k + 1] = r[k]
      BY <2>2, <2>4
  <2> QED
      BY <1>1, <1>2, <2>4, <2>5, <2>6
<1>5. Append(s, a) \o r = s \o (<<a>> \o r)
  <2>1. /\ s \in Seq(Messages) /\ <<a>> \in Seq(Messages) /\ r \in Seq(Messages)
      BY <1>1, <1>2 DEF Transcripts
  <2> QED
      BY <1>1, <2>1, AppendIsConcat, ConcatAssociative
<1>6. <<a>> \o r \in Transcripts
    BY <1>1, <1>2, ConcatProperties DEF Transcripts
<1> QED
    BY <1>4, <1>5, <1>6, WholeConcat DEF a, r

\* Nothing is said or saved yet.
LEMMA AnswersBegin == RunInit => AnswerInv
<1>1. Len(<<>>) = 0 /\ WholeTalk(<<>>, {})
    BY DEF WholeTalk
<1> QED
    BY <1>1 DEF RunInit, LoopInit, AnswerInv

\* What goes to the session is whole.
LEMMA SavesWhole ==
    ASSUME TypeInv, AnswerInv, WholeTalk(messages, lost), SaveSession
    PROVE  WholeTalk(session', lost)
<1>1. messages \in Transcripts /\ session \in Transcripts /\ offset \in Nat
    BY DEF TypeInv, TalkTypeOK
<1> QED
    BY <1>1, WholeSuffix, WholeConcat DEF SaveSession, AnswerInv

\* A run begins with whole messages after a whole history.
LEMMA BeginsWhole ==
    ASSUME TypeInv, AnswerInv, NEW m \in Transcripts, WholeTalk(m, lost), Load(m)
    PROVE  WholeTalk(messages', lost') /\ lost' = lost /\ before' = session
    BY WholeConcat DEF Load, AnswerInv, TypeInv, TalkTypeOK

\* Every step keeps that, when checkpoints do not share the transcript's list,
\* no debug controller stops a run between a reply and the results, and no
\* reply has calls after a handoff.
LEMMA AnswersStep ==
    ASSUME Backend # "memory", ~CallsAfter, "debug" \notin Modes,
           TypeInv, AnswerInv, [RunNext]_runVars
    PROVE  AnswerInv'
<1>1. /\ messages \in Transcripts /\ session \in Transcripts /\ clock \in Nat
      /\ saved \in Seq(Checkpoints) /\ Len(saved) \in Nat /\ DOMAIN saved = 1 .. Len(saved)
      /\ upto \in Nat /\ CallCounts \subseteq Nat /\ mode \in Modes
    BY LenProperties, RunAssumption DEF TypeInv, TalkTypeOK, LoopInv, LoopTypeOK
<1>2. /\ <<User(clock)>> \in Transcripts /\ User(clock) \in Messages
      /\ WholeTalk(<<User(clock)>>, lost)
    BY <1>1, MessageType, WholeOne DEF User, Message
<1>3. ASSUME Begin
      PROVE  /\ WholeTalk(messages', lost') /\ lost' = lost /\ before' = session
             /\ alias' = 0 /\ saved' = <<>> /\ Len(saved') = 0
    BY <1>2, <1>3, BeginsWhole DEF Begin
<1>4. CASE Run
    BY <1>3, <1>4 DEF Run, StartAt, AnswerInv
<1>5. CASE RunTrips
  <2>1. WholeTalk(Append(session, User(clock)), lost)
      BY <1>1, <1>2, WholeConcat, AppendIsConcat DEF AnswerInv, Transcripts
  <2> QED
      BY <1>3, <1>5, <2>1 DEF RunTrips, TripAt, AnswerInv
<1>6. CASE Resume \/ ResumeTrips
  <2>1. PICK k \in 1 .. Len(saved) :
          /\ Rejoin(k) /\ saved[k].messages \in Transcripts
          /\ phase' \in {"ready", "closing"}
          /\ session' = session \/ session' = session \o saved[k].messages
      BY <1>6, Resumption DEF StartAt, TripAt
  <2>2. Load(saved[k].messages) /\ alias' = 0 /\ saved' = saved
      BY <2>1, Backend # "memory" DEF Rejoin
  <2>3. WholeTalk(saved[k].messages, lost) /\ WholeTalk(session, lost)
      BY DEF AnswerInv
  <2>4. WholeTalk(messages', lost') /\ lost' = lost /\ before' = session
      BY <2>1, <2>2, <2>3, BeginsWhole
  <2>5. WholeTalk(session', lost)
      BY <1>1, <2>1, <2>3, WholeConcat
  <2> QED
      BY <2>1, <2>2, <2>4, <2>5 DEF AnswerInv
<1>7. ASSUME NEW kind \in {"final", "tools", "handoff"}, NEW to \in Agents,
             NEW calls \in CallCounts, NEW executed \in 0 .. calls,
             Reply(kind, to, calls, executed)
      PROVE  AnswerInv'
  <2>1. /\ phase' = "replied" /\ upto' = calls /\ (kind = "final" => calls = 0)
        /\ reply'.kind = kind
      BY <1>7, ~CallsAfter DEF Reply, LlmReplies
  <2>2. WholeTalk(messages, lost)
      BY <1>7 DEF Reply, LlmReplies, AnswerInv
  <2>3. messages' = Append(messages, Message("assistant", clock, calls))
    <3>1. Message("assistant", clock, calls) \in Messages
      <4>1. calls \in Nat
          BY <1>1
      <4> QED
          BY <1>1, <4>1, MessageType
    <3> QED
        BY <1>1, <1>7, <3>1, AppendIsConcat DEF Reply, Append_, Transcripts
  <2>4. UNCHANGED <<session, saved, alias, before, lost>>
      BY <1>7 DEF Reply, Append_, lastingVars, AnswerInv
  <2> QED
      BY <1>1, <2>1, <2>2, <2>3, <2>4 DEF AnswerInv
<1>8. CASE Answer
  <2>1. phase = "tools" /\ phase' \in {"handing", "saving"}
      BY <1>8, AnswerType
  <2>2. PICK s \in Transcripts, id \in Nat :
          WholeTalk(s, lost) /\ messages = Append(s, Message("assistant", id, upto))
      BY <2>1 DEF AnswerInv
  <2>3. Last(messages).id = id
    <3>1. Message("assistant", id, upto) \in Messages
        BY <1>1, MessageType
    <3>2. Last(messages) = Message("assistant", id, upto)
        BY <2>2, <3>1, AppendProperties DEF Last, Transcripts
    <3> QED
        BY <3>2 DEF Message
  <2>4. PICK n \in Nat : \E got \in [1 .. n -> 1 .. upto] :
          /\ Results(id, n, got) \in Transcripts
          /\ Append_(Results(id, n, got))
          /\ lost' = lost \cup {Message("tool", id, c) : c \in Missing(n, got)}
      BY <1>8, <2>3, AnswerType
  <2>5. PICK got \in [1 .. n -> 1 .. upto] :
          /\ Results(id, n, got) \in Transcripts
          /\ messages' = messages \o Results(id, n, got)
          /\ lost' = lost \cup {Message("tool", id, c) : c \in Missing(n, got)}
      BY <2>4 DEF Append_
  <2>6. /\ lost \subseteq lost'
        /\ \A c \in Missing(n, got) : Message("tool", id, c) \in lost'
      BY <2>5
  <2>7. WholeTalk(s, lost')
      BY <2>2, <2>6, WholeStill
  <2>8. WholeTalk(messages', lost')
      BY <1>1, <2>2, <2>5, <2>6, <2>7, WholeAnswer
  <2>9. UNCHANGED <<session, saved, alias, before>>
      BY <1>8 DEF Answer, Append_, lastingVars, AnswerInv
  <2>10. /\ WholeTalk(session, lost') /\ WholeTalk(before, lost')
        /\ \A k \in 1 .. Len(saved) : WholeTalk(saved[k].messages, lost')
      BY <2>6, WholeStill DEF AnswerInv
  <2> QED
      BY <2>1, <2>8, <2>9, <2>10 DEF AnswerInv
<1>9. CASE Transfer
  <2>1. phase = "handing" /\ phase' = "saving" /\ WholeTalk(messages, lost) /\ messages # <<>>
      BY <1>9 DEF Transfer, HandOver, AnswerInv, TypeInv, Spoken, InTurn
  <2>2. WholeTalk(<<Last(messages)>>, lost)
    <3>1. Len(messages) \in 1 .. Len(messages) /\ Last(messages) \in Messages
      <4>1. Len(messages) \in 1 .. Len(messages)
          BY <1>1, <2>1, EmptySeq DEF Transcripts
      <4> QED
          BY <1>1, <4>1, ElementOfSeq DEF Transcripts, Last
    <3>2. \A c \in 1 .. Last(messages).call :
            Last(messages).role = "assistant" => Message("tool", Last(messages).id, c) \in lost
      <4>1. \A j \in Len(messages) + 1 .. Len(messages) : FALSE
          BY <3>1
      <4> QED
          BY <2>1, <3>1, <4>1 DEF WholeTalk, Last
    <3>3. Len(<<Last(messages)>>) = 1 /\ <<Last(messages)>>[1] = Last(messages)
        OBVIOUS
    <3> QED
        BY <3>2, <3>3 DEF WholeTalk
  <2> QED
      BY <1>9, <2>1, <2>2 DEF Transfer, lastingVars, AnswerInv
<1>10. CASE Save
  <2>1. /\ phase = "saving" /\ phase' = "ready" /\ newest' = [turn |-> turn, agent |-> agent, messages |-> messages]
        /\ saved' = Append(saved, newest')
        /\ UNCHANGED <<messages, session, alias, upto, before, lost>>
      BY <1>10 DEF Save, EndTurn, lastingVars
  <2>2. newest' \in Checkpoints /\ newest'.messages = messages
    <3>1. turn \in 0 .. MaxTurns /\ agent \in Agents
        BY DEF TypeInv, LoopInv, LoopTypeOK
    <3> QED
        BY <1>1, <2>1, <3>1, CheckpointType
  <2>3. /\ Len(saved') = Len(saved) + 1 /\ saved'[Len(saved) + 1] = newest'
        /\ \A k \in 1 .. Len(saved) : saved'[k] = saved[k]
      BY <1>1, <2>1, <2>2, AppendProperties
  <2>4. \A k \in 1 .. Len(saved') : WholeTalk(saved'[k].messages, lost)
      BY <1>1, <2>1, <2>2, <2>3 DEF AnswerInv
  <2> QED
      BY <2>1, <2>4 DEF AnswerInv
<1>11. CASE SaveNot
    BY <1>11 DEF SaveNot, EndTurn, talkVars, lastingVars, AnswerInv
<1>12. CASE Finish
  <2>1. ~DebugStops
      BY <1>1, "debug" \notin Modes DEF DebugStops
  <2>2. WholeTalk(messages, lost)
    <3>1. CASE RunOutOfTurns \/ LlmGivesUp
        BY <3>1 DEF RunOutOfTurns, LlmGivesUp, AnswerInv
    <3>2. CASE Conclude \/ OutputTrips
      <4>1. phase = "replied" /\ upto = 0
          BY <3>2 DEF Conclude, OutputTrips, AnswerInv
      <4>2. PICK s \in Transcripts, id \in Nat :
              WholeTalk(s, lost) /\ messages = Append(s, Message("assistant", id, 0))
          BY <4>1 DEF AnswerInv
      <4> DEFINE m == Message("assistant", id, 0)
      <4>3. m \in Messages /\ <<m>> \in Transcripts /\ m.call = 0
          BY MessageType DEF Message
      <4> HIDE DEF m
      <4>4. WholeTalk(<<m>>, lost)
          BY <4>3, WholeOne
      <4>5. messages = s \o <<m>>
          BY <4>2, <4>3, AppendIsConcat DEF Transcripts, m
      <4> QED
          BY <4>2, <4>3, <4>4, <4>5, WholeConcat
    <3> QED
        BY <1>12, <2>1, <3>1, <3>2 DEF Finish
  <2>3. phase' = "closing"
      BY <1>12 DEF Finish, RunOutOfTurns, LlmGivesUp, Conclude, OutputTrips, DebugStops, Close
  <2> QED
      BY <1>12, <2>2, <2>3, SavesWhole DEF Finish, lastingVars, AnswerInv
<1>13. CASE Silent
    BY <1>13 DEF Silent, talkVars, lastingVars, BeginTurn, SeeToken, LlmRaises, StreamOpens,
                 StreamBreaks, CallTools, CallRunEnd, Return, CancelToken, Abort, AnswerInv
<1>14. CASE UNCHANGED runVars
    BY <1>14 DEF runVars, loopVars, talkVars, lastingVars, AnswerInv
<1>15. CASE Commit
    BY <1>15 DEF Commit, loopVars, AnswerInv
<1>16. CASE Rollback
  <2>1. \A k \in 1 .. Len(saved') : WholeTalk(saved'[k].messages, lost)
      BY <1>16, RolledBack DEF AnswerInv
  <2> QED
      BY <1>16, <2>1 DEF Rollback, loopVars, AnswerInv
<1> QED
    BY <1>4, <1>5, <1>6, <1>7, <1>8, <1>9, <1>10, <1>11, <1>12, <1>13, <1>14, <1>15,
       <1>16
    DEF RunNext

\* CallsAnswered: no LLM is given a call without its result, but for a tool
\* that cancelled itself beside others, whether handoffs filter or not and
\* however often runs are aborted, rolled back or resumed.
THEOREM CallsAreAnswered ==
    ASSUME Backend # "memory", ~CallsAfter, "debug" \notin Modes
    PROVE  RunSpec => []CallsAnswered
<1>1. TypeInv /\ AnswerInv /\ [RunNext]_runVars => (TypeInv /\ AnswerInv)'
    BY TypeInductive, AnswersStep, Backend # "memory", ~CallsAfter, "debug" \notin Modes
<1>2. TypeInv /\ AnswerInv => CallsAnswered
  <2>1. TypeInv => DOMAIN messages = 1 .. Len(messages)
      BY LenProperties DEF TypeInv, TalkTypeOK, Transcripts
  <2> QED
      BY <2>1 DEF AnswerInv, CallsAnswered, Answered, WholeTalk
<1> QED
    BY <1>1, <1>2, RunInitial, AnswersBegin, PTL DEF RunSpec

-----------------------------------------------------------------------------
(* The checkpoints *)

\* One of the first f checkpoints in s is at most an interval's remainder
\* behind turn n, or the first interval is not over.
Near(s, f, n) == n < Interval \/ \E i \in 1 .. f : s[i].turn >= n - (n % Interval)

\* They keep up with a run that is in turn n or has ended it.
Reaches(s, f, n) == Near(s, f, n) \/ (n >= 1 /\ Near(s, f, n - 1))

\* The checkpoints keep up with a run that makes them: with the turn that is
\* over, and with the present one once it is over too.  Those that were there
\* before it, to which a rollback returns, keep up with what is committed.
KeepsUp ==
    /\ mode = "stream" \/ Backend = "none" => Len(saved) = 0
    /\ phase # "idle" /\ mode # "stream" /\ Backend # "none" =>
          /\ settled = "open" =>
                /\ Reaches(saved, found, reached)
                /\ Reaches(saved, Len(saved), turn)
                /\ phase = "ready" => Near(saved, Len(saved), turn)
                /\ phase \in InTurn => Near(saved, Len(saved), turn - 1)
          /\ settled # "open" => Reaches(saved, Len(saved), reached)

\* No list is shared, the last checkpoint is the newest, each is of no earlier
\* turn than the one before, and the run is not behind the newest.
InOrder ==
    /\ alias = 0
    /\ Len(saved) > 0 => newest = saved[Len(saved)]
    /\ \A i, j \in 1 .. Len(saved) : i < j => saved[i].turn <= saved[j].turn
    /\ Len(saved) > 0 =>
          /\ phase \in {"ready", "saving"} => newest.turn <= turn
          /\ phase \in InTurn => newest.turn < turn

\* The remainder of a turn grows with it up to a multiple of the interval.
LEMMA NextRemainder ==
    ASSUME NEW t \in Nat, NEW I \in Nat \ {0}
    PROVE  /\ t % I \in 0 .. I - 1
           /\ (t + 1) % I = 0 \/ (t + 1) % I = (t % I) + 1
<1> DEFINE q == t \div I        r == t % I
           p == (t + 1) \div I  s == (t + 1) % I
<1>1. t = I * q + r /\ r \in 0 .. I - 1 /\ q \in Int
    OBVIOUS
<1>2. t + 1 = I * p + s /\ s \in 0 .. I - 1 /\ p \in Int
    OBVIOUS
<1> HIDE DEF q, r, p, s
<1>3. I * (p - q) = 1 + r - s
    BY <1>1, <1>2
<1>4. p - q < 0 => I * (p - q) <= -I
    BY <1>1, <1>2
<1>5. p - q > 1 => I * (p - q) >= 2 * I
    BY <1>1, <1>2
<1>6. p - q = 0 \/ p - q = 1
    BY <1>1, <1>2, <1>3, <1>4, <1>5
<1>7. p - q = 0 => s = r + 1
    BY <1>1, <1>2, <1>3
<1>8. p - q = 1 => s = 0
    BY <1>1, <1>2, <1>3
<1> QED
    BY <1>1, <1>6, <1>7, <1>8 DEF r, s

\* A turn later, either a checkpoint is due or those there are keep up.
LEMMA NearNext ==
    ASSUME NEW s, NEW f, NEW n \in Nat, Near(s, f, n), (n + 1) % Interval # 0,
           \A i \in 1 .. f : s[i].turn \in Nat
    PROVE  Near(s, f, n + 1)
<1>1. /\ n % Interval \in 0 .. Interval - 1
      /\ (n + 1) % Interval = (n % Interval) + 1
      /\ Interval \in Nat \ {0}
    BY NextRemainder, RunAssumption
<1> DEFINE r == n % Interval  q == (n + 1) % Interval
<1>2. ASSUME n < Interval
      PROVE  Near(s, f, n + 1)
  <2>1. CASE n + 1 < Interval
      BY <2>1 DEF Near
  <2>2. CASE n + 1 = Interval
    <3>1. (n + 1) % Interval = 0
        BY <1>1, <2>2
    <3> QED
        BY <3>1
  <2> QED
      BY <1>1, <1>2, <2>1, <2>2
<1>3. ASSUME NEW i \in 1 .. f, s[i].turn >= n - r
      PROVE  Near(s, f, n + 1)
  <2>1. q = r + 1 /\ r \in Nat
      BY <1>1
  <2> HIDE DEF r, q
  <2>2. (n + 1) - q = n - r
      BY <2>1
  <2> QED
      BY <1>3, <2>2 DEF Near, q
<1> QED
    BY <1>2, <1>3 DEF Near

\* Checkpoints that keep their turns keep up with the same turns.
LEMMA SameTurns ==
    ASSUME NEW s, NEW t, NEW f, \A i \in 1 .. f : t[i].turn = s[i].turn
    PROVE  \A n : /\ Near(s, f, n) <=> Near(t, f, n)
                  /\ Reaches(s, f, n) <=> Reaches(t, f, n)
<1>1. \A n : Near(s, f, n) <=> Near(t, f, n)
    BY DEF Near
<1> QED
    BY <1>1 DEF Reaches

\* The turns of checkpoints are numbers.
LEMMA SavedTurns ==
    ASSUME TypeInv
    PROVE  /\ saved \in Seq(Checkpoints) /\ Len(saved) \in Nat
           /\ DOMAIN saved = 1 .. Len(saved)
           /\ found \in Nat /\ found <= Len(saved)
           /\ turn \in Nat /\ reached \in Nat
           /\ \A i \in 1 .. Len(saved) : saved[i].turn \in Nat
<1>1. saved \in Seq(Checkpoints)
    BY DEF TypeInv, TalkTypeOK
<1>2. ASSUME NEW i \in 1 .. Len(saved)
      PROVE  saved[i].turn \in Nat
  <2>1. saved[i] \in Checkpoints
      BY <1>1, ElementOfSeq
  <2> QED
      BY <2>1, LoopAssumption DEF Checkpoints
<1> QED
    BY <1>1, <1>2, LenProperties, LoopAssumption
    DEF TypeInv, TalkTypeOK, LoopInv, LoopTypeOK

\* Messages that are appended leave the turns of the checkpoints alone.
LEMMA AppendTurns ==
    ASSUME TypeInv, NEW new \in Transcripts, Append_(new)
    PROVE  /\ Len(saved') = Len(saved)
           /\ \A i \in 1 .. Len(saved) : saved'[i].turn = saved[i].turn
<1>1. /\ saved \in Seq(Checkpoints) /\ Len(saved) \in Nat /\ alias \in 0 .. Len(saved)
      /\ Len(saved') = Len(saved) /\ messages \o new \in Transcripts
    BY AppendKeeps, LenProperties DEF TypeInv, TalkTypeOK, Append_
<1>2. CASE alias = 0
    BY <1>1, <1>2 DEF Append_
<1>3. CASE alias # 0
  <2> DEFINE cp == saved[alias]
             longer == [cp EXCEPT !.messages = messages \o new]
  <2>1. alias \in 1 .. Len(saved) /\ cp \in Checkpoints
      BY <1>1, <1>3, ElementOfSeq
  <2>2. longer \in Checkpoints /\ longer.turn = cp.turn
      BY <1>1, <2>1 DEF Checkpoints
  <2>3. saved' = [saved EXCEPT ![alias] = longer]
      BY <1>3 DEF Append_
  <2> HIDE DEF longer
  <2> QED
      BY <1>1, <2>1, <2>2, <2>3, ExceptSeq
<1> QED
    BY <1>1, <1>2, <1>3

\* The checkpoint that is due is saved.
LEMMA SaveProperties ==
    ASSUME TypeInv, Save
    PROVE  /\ newest' \in Checkpoints /\ newest'.turn = turn
           /\ Len(saved') = Len(saved) + 1 /\ saved'[Len(saved) + 1] = newest'
           /\ \A i \in 1 .. Len(saved) : saved'[i] = saved[i]
<1>1. saved \in Seq(Checkpoints) /\ messages \in Transcripts
      /\ turn \in 0 .. MaxTurns /\ agent \in Agents
    BY DEF TypeInv, TalkTypeOK, LoopInv, LoopTypeOK
<1>2. /\ newest' = [turn |-> turn, agent |-> agent, messages |-> messages]
      /\ saved' = Append(saved, newest')
    BY DEF Save
<1>3. newest' \in Checkpoints /\ newest'.turn = turn
    BY <1>1, <1>2, CheckpointType
<1> QED
    BY <1>1, <1>2, <1>3, AppendProperties

\* A run begins, goes on at a turn a checkpoint is of, and saves one that
\* keeps up.
LEMMA BeginsNear ==
    /\ \A s, f : Near(s, f, 0)
    /\ \A s, f : \A k \in 1 .. f : s[k].turn \in Nat => Near(s, f, s[k].turn)
<1>1. Interval \in Nat \ {0}
    BY RunAssumption
<1>2. ASSUME NEW s, NEW f, NEW k \in 1 .. f, s[k].turn \in Nat
      PROVE  Near(s, f, s[k].turn)
  <2> DEFINE t == s[k].turn
             r == t % Interval
  <2>1. r \in 0 .. Interval - 1
      BY <1>1, <1>2, NextRemainder
  <2> HIDE DEF r
  <2>2. t >= t - r
      BY <1>1, <1>2, <2>1
  <2> QED
      BY <2>2 DEF Near, r
<1> QED
    BY <1>1, <1>2 DEF Near

\* What the steps of a turn leave of the checkpoints.
LEMMA TurnSteps ==
    ASSUME TypeInv, GoesOn
    PROVE  /\ Len(saved') = Len(saved)
           /\ \A i \in 1 .. Len(saved) : saved'[i].turn = saved[i].turn
<1>1. /\ messages \in Transcripts /\ clock \in Nat /\ upto \in Nat
      /\ CallCounts \subseteq Nat
    BY RunAssumption DEF TypeInv, TalkTypeOK
<1>2. ASSUME NEW kind \in {"final", "tools", "handoff"}, NEW to \in Agents,
             NEW calls \in CallCounts, NEW executed \in 0 .. calls,
             Reply(kind, to, calls, executed)
      PROVE  /\ Len(saved') = Len(saved)
             /\ \A i \in 1 .. Len(saved) : saved'[i].turn = saved[i].turn
  <2>1. <<Message("assistant", clock, calls)>> \in Transcripts
    <3>1. calls \in Nat
        BY <1>1
    <3> QED
        BY <1>1, <3>1, MessageType
  <2> QED
      BY <1>2, <2>1, AppendTurns DEF Reply
<1>3. CASE Answer
  <2>1. PICK new \in Transcripts : Append_(new)
      BY <1>3, AnswerType
  <2> QED
      BY <2>1, AppendTurns
<1>4. CASE Transfer \/ SaveNot \/ Finish \/ Silent \/ UNCHANGED runVars
    BY <1>4 DEF Transfer, SaveNot, Finish, Silent, runVars, talkVars
<1> QED
    BY <1>2, <1>3, <1>4 DEF GoesOn

\* Every step keeps the checkpoints up with the run, when none fails to be
\* saved.
LEMMA KeepsUpStep ==
    ASSUME ~SavesFail, TypeInv, KeepsUp, [RunNext]_runVars
    PROVE  KeepsUp'
<1>1. /\ turn \in Nat /\ saved \in Seq(Checkpoints) /\ Len(saved) \in Nat
      /\ DOMAIN saved = 1 .. Len(saved) /\ reached \in Nat
      /\ found \in Nat /\ found <= Len(saved)
      /\ \A i \in 1 .. Len(saved) : saved[i].turn \in Nat
      /\ phase \in InTurn => turn >= 1
      /\ Transacted
    BY SavedTurns DEF TypeInv, LoopInv, PhaseConsistent
<1> DEFINE Makes == mode # "stream" /\ Backend # "none"
<1>2. CASE Run \/ RunTrips
  <2>1. /\ Len(saved') = 0 /\ turn' = 0 /\ phase' \in {"ready", "closing"}
        /\ settled' = "open" /\ found' = 0 /\ reached' = 0
      BY <1>2 DEF Run, RunTrips, Begin, Load, StartAt, TripAt
  <2>2. \A f : Near(saved', f, 0) /\ Reaches(saved', f, 0)
      BY BeginsNear DEF Reaches
  <2> QED
      BY <2>1, <2>2 DEF KeepsUp, InTurn
<1>3. CASE Resume \/ ResumeTrips
  <2>1. PICK k \in 1 .. Len(saved) :
          Rejoin(k) /\ turn' = saved[k].turn /\ phase' \in {"ready", "closing"}
      BY <1>3, Resumption DEF StartAt, TripAt
  <2>2. /\ saved' = saved /\ reached' = reached /\ mode' # "stream" /\ phase = "ended"
        /\ found' = Len(saved) /\ settled # "open" /\ settled' = "open"
      BY <2>1 DEF Rejoin, Load
  <2>3. Near(saved, Len(saved), saved[k].turn)
      BY <1>1, BeginsNear
  <2>4. Makes /\ Reaches(saved, Len(saved), reached)
    <3>1. Len(saved) # 0
        BY <1>1
    <3> QED
        BY <2>2, <3>1 DEF KeepsUp
  <2> QED
      BY <2>1, <2>2, <2>3, <2>4 DEF KeepsUp, Reaches, InTurn
<1>4. CASE Save
  <2>1. /\ phase' = "ready" /\ phase = "saving" /\ UNCHANGED <<turn, mode, lastingVars>>
        /\ Makes /\ settled = "open"
      BY <1>1, <1>4 DEF Save, EndTurn, Due, Transacted, Active
  <2>2. /\ Len(saved') = Len(saved) + 1 /\ saved'[Len(saved) + 1].turn = turn
        /\ \A i \in 1 .. Len(saved) : saved'[i] = saved[i]
      BY <1>4, SaveProperties
  <2>3. Near(saved', Len(saved'), turn)
    <3>1. Len(saved') \in Nat /\ Len(saved') \in 1 .. Len(saved')
          /\ saved'[Len(saved')].turn = turn
        BY <1>1, <2>2
    <3> QED
        BY <1>1, <3>1, BeginsNear
  <2>4. Reaches(saved, found, reached)
      BY <2>1 DEF KeepsUp
  <2>5. \A i \in 1 .. found : saved'[i].turn = saved[i].turn
      BY <1>1, <2>2
  <2>6. Reaches(saved', found, reached)
      BY <2>4, <2>5, SameTurns
  <2> QED
      BY <2>1, <2>3, <2>6 DEF KeepsUp, Reaches, InTurn, lastingVars
<1>5. CASE GoesOn
  <2>1. /\ Len(saved') = Len(saved)
        /\ \A i \in 1 .. Len(saved) : saved'[i].turn = saved[i].turn
        /\ UNCHANGED <<mode, settled, found, reached>>
      BY <1>5, TurnSteps, GoingOn DEF lastingVars
  <2>2. \A n : /\ Near(saved, Len(saved), n) <=> Near(saved', Len(saved), n)
               /\ Reaches(saved, Len(saved), n) <=> Reaches(saved', Len(saved), n)
      BY <2>1, SameTurns
  <2>3. \A n : Reaches(saved, found, n) <=> Reaches(saved', found, n)
    <3>1. \A i \in 1 .. found : saved'[i].turn = saved[i].turn
        BY <1>1, <2>1
    <3> QED
        BY <3>1, SameTurns
  <2>4. CASE UNCHANGED runVars
      BY <2>4 DEF runVars, loopVars, talkVars, lastingVars, KeepsUp
  <2>5. CASE ~UNCHANGED runVars
    <3>1. settled = "open" /\ phase # "idle" /\ phase' # "idle"
        BY <1>1, <1>5, <2>5, GoingOn DEF Transacted, Active, InTurn
    <3>2. SUFFICES ASSUME Makes
                   PROVE  /\ Reaches(saved, Len(saved), turn')
                          /\ phase' = "ready" => Near(saved, Len(saved), turn')
                          /\ phase' \in InTurn => Near(saved, Len(saved), turn' - 1)
        BY <2>1, <2>2, <2>3, <3>1 DEF KeepsUp
    <3>3. /\ Reaches(saved, Len(saved), turn)
          /\ phase = "ready" => Near(saved, Len(saved), turn)
          /\ phase \in InTurn => Near(saved, Len(saved), turn - 1)
        BY <3>1, <3>2 DEF KeepsUp
    <3>4. CASE BeginTurn
      <4>1. phase = "ready" /\ turn' = turn + 1 /\ phase' = "llm"
          BY <3>4 DEF BeginTurn
      <4>2. turn' - 1 = turn /\ turn' >= 1
          BY <1>1, <4>1
      <4> QED
          BY <3>3, <4>1, <4>2 DEF Reaches
    <3>5. CASE HandOver
      <4>1. phase = "handing" /\ phase' = "saving" /\ turn' = turn - 1
          BY <3>5 DEF HandOver
      <4> QED
          BY <3>3, <4>1 DEF Reaches, InTurn
    <3>6. CASE SaveNot
      <4>1. phase = "saving" /\ phase' = "ready" /\ turn' = turn /\ turn % Interval # 0
          BY <3>2, <3>6, ~SavesFail DEF SaveNot, EndTurn, Due
      <4>2. Near(saved, Len(saved), turn)
        <5>1. CASE turn >= 1 /\ Near(saved, Len(saved), turn - 1)
          <6>1. turn - 1 \in Nat /\ (turn - 1) + 1 = turn
              BY <1>1, <5>1
          <6> QED
              BY <1>1, <4>1, <5>1, <6>1, NearNext
        <5> QED
            BY <3>3, <5>1 DEF Reaches
      <4> QED
          BY <3>3, <4>1, <4>2 DEF InTurn
    <3>7. CASE ~(BeginTurn \/ HandOver \/ SaveNot)
      <4>1. /\ turn' = turn
            /\ phase' = "ready" => phase = "ready"
            /\ phase' \in InTurn => phase \in InTurn
        <5>1. ASSUME NEW kind, NEW to, NEW calls, NEW executed,
                     Reply(kind, to, calls, executed)
              PROVE  turn' = turn /\ phase \in InTurn /\ phase' \in InTurn
            BY <5>1 DEF Reply, LlmReplies, InTurn
        <5>2. CASE Answer
            BY <5>2 DEF Answer, ToolsDone, InTurn
        <5>3. CASE Finish
            BY <5>3 DEF Finish, RunOutOfTurns, LlmGivesUp, Conclude, OutputTrips,
                        DebugStops, Close, InTurn
        <5>4. CASE Silent
            BY <3>7, <5>4 DEF Silent, SeeToken, LlmRaises, StreamOpens, StreamBreaks,
                  CallTools, CallRunEnd, Return, CancelToken, Abort, Active, InTurn
        <5>5. ~Transfer /\ ~SaveNot /\ ~UNCHANGED runVars
            BY <2>5, <3>7 DEF Transfer
        <5> QED
            BY <1>5, <5>1, <5>2, <5>3, <5>4, <5>5 DEF GoesOn, InTurn
      <4> QED
          BY <3>3, <4>1
    <3> QED
        BY <3>4, <3>5, <3>6, <3>7
  <2> QED
      BY <2>4, <2>5
<1>6. CASE Commit
  <2>1. /\ settled = "open" /\ settled' # "open" /\ reached' = turn
        /\ phase' = "ended" /\ phase = "ended"
        /\ UNCHANGED <<saved, mode>>
      BY <1>6 DEF Commit, loopVars
  <2> QED
      BY <2>1 DEF KeepsUp
<1>7. CASE Rollback
  <2>1. /\ settled = "open" /\ settled' # "open" /\ phase' = "ended" /\ phase = "ended"
        /\ UNCHANGED <<mode, reached>>
      BY <1>7 DEF Rollback, loopVars
  <2>2. Len(saved') = found /\ \A i \in 1 .. found : saved'[i] = saved[i]
      BY <1>7, RolledBack
  <2>3. \A n : Reaches(saved, found, n) <=> Reaches(saved', found, n)
      BY <2>2, SameTurns
  <2>4. Makes => Reaches(saved, found, reached)
      BY <2>1 DEF KeepsUp
  <2>5. ~Makes => Len(saved') = 0
      BY <1>1, <2>2 DEF KeepsUp
  <2> QED
      BY <2>1, <2>2, <2>3, <2>4, <2>5 DEF KeepsUp
<1> QED
    BY <1>2, <1>3, <1>4, <1>5, <1>6, <1>7, Steps

\* Every step keeps the checkpoints in order, when they are copies.
LEMMA InOrderStep ==
    ASSUME Backend # "memory", TypeInv, InOrder, [RunNext]_runVars
    PROVE  InOrder'
<1>1. /\ turn \in Nat /\ saved \in Seq(Checkpoints) /\ Len(saved) \in Nat
      /\ DOMAIN saved = 1 .. Len(saved) /\ found \in Nat /\ found <= Len(saved)
      /\ \A i \in 1 .. Len(saved) : saved[i].turn \in Nat
    BY SavedTurns
<1>2. Len(saved) > 0 =>
          /\ newest = saved[Len(saved)] /\ newest.turn \in Nat
          /\ \A i \in 1 .. Len(saved) : saved[i].turn <= newest.turn
  <2>1. Len(saved) > 0 => newest = saved[Len(saved)] /\ Len(saved) \in 1 .. Len(saved)
      BY <1>1 DEF InOrder
  <2>2. ASSUME NEW i \in 1 .. Len(saved)
        PROVE  saved[i].turn <= saved[Len(saved)].turn
    <3>1. CASE i < Len(saved)
        BY <2>1, <3>1 DEF InOrder
    <3>2. CASE i = Len(saved)
        BY <1>1, <3>2
    <3>3. i < Len(saved) \/ i = Len(saved)
        BY <1>1
    <3> QED
        BY <3>1, <3>2, <3>3
  <2> QED
      BY <1>1, <2>1, <2>2
<1>3. CASE Run \/ RunTrips
    BY <1>3 DEF Run, RunTrips, Begin, InOrder
<1>4. CASE Resume \/ ResumeTrips
  <2>1. PICK k \in 1 .. Len(saved) :
          /\ Latest(k) /\ Rejoin(k) /\ turn' = saved[k].turn
          /\ phase' \in {"ready", "closing"}
      BY <1>4, Resumption DEF StartAt, TripAt
  <2>2. alias' = 0 /\ UNCHANGED <<saved, newest>>
      BY <2>1, Backend # "memory" DEF Rejoin
  <2>3. newest.turn <= turn'
      BY <1>1, <1>2, <2>1 DEF Latest
  <2> QED
      BY <2>1, <2>2, <2>3 DEF InOrder, InTurn
<1>5. CASE Save
  <2>1. phase = "saving" /\ phase' = "ready" /\ UNCHANGED <<turn, alias>>
      BY <1>5 DEF Save, EndTurn
  <2>2. /\ newest'.turn = turn
        /\ Len(saved') = Len(saved) + 1 /\ saved'[Len(saved) + 1] = newest'
        /\ \A i \in 1 .. Len(saved) : saved'[i] = saved[i]
      BY <1>5, SaveProperties
  <2>3. \A i \in 1 .. Len(saved) : saved[i].turn <= turn
    <3>1. Len(saved) > 0 => newest.turn <= turn
        BY <2>1 DEF InOrder
    <3> QED
        BY <1>1, <1>2, <3>1
  <2>4. ASSUME NEW i \in 1 .. Len(saved'), NEW j \in 1 .. Len(saved'), i < j
        PROVE  saved'[i].turn <= saved'[j].turn
    <3>1. i \in 1 .. Len(saved) /\ saved'[i] = saved[i]
        BY <1>1, <2>2, <2>4
    <3>2. CASE j \in 1 .. Len(saved)
        BY <2>2, <2>4, <3>1, <3>2 DEF InOrder
    <3>3. CASE j = Len(saved) + 1
        BY <2>2, <2>3, <3>1, <3>3
    <3> QED
        BY <1>1, <2>2, <3>2, <3>3
  <2> QED
      BY <1>1, <2>1, <2>2, <2>4 DEF InOrder, InTurn
<1>6. CASE GoesOn
  <2>1. UNCHANGED <<alias, saved, newest>>
    <3>1. ASSUME NEW new, Append_(new)
          PROVE  saved' = saved
        BY <3>1 DEF Append_, InOrder
    <3> QED
        BY <1>6, <3>1 DEF GoesOn, Reply, Answer, Transfer, SaveNot, Finish, Silent,
                          runVars, talkVars, InOrder
  <2>2. SUFFICES ASSUME Len(saved) > 0
                 PROVE  /\ phase' \in {"ready", "saving"} => newest.turn <= turn'
                        /\ phase' \in InTurn => newest.turn < turn'
      BY <2>1 DEF InOrder
  <2>3. /\ phase \in {"ready", "saving"} => newest.turn <= turn
        /\ phase \in InTurn => newest.turn < turn
        /\ newest.turn \in Nat
      BY <1>2, <2>2 DEF InOrder
  <2>4. CASE BeginTurn
      BY <1>1, <2>3, <2>4 DEF BeginTurn, InTurn
  <2>5. CASE HandOver
      BY <1>1, <2>3, <2>5 DEF HandOver, InTurn
  <2>6. CASE ~(BeginTurn \/ HandOver)
    <3>1. /\ turn' = turn
          /\ phase' \in {"ready", "saving"} => phase \in {"ready", "saving"} \cup InTurn
          /\ phase' \in InTurn => phase \in InTurn
      <4>1. ASSUME NEW kind, NEW to, NEW calls, NEW executed,
                   Reply(kind, to, calls, executed)
            PROVE  turn' = turn /\ phase \in InTurn /\ phase' \in InTurn
          BY <4>1 DEF Reply, LlmReplies, InTurn
      <4>2. CASE Answer \/ SaveNot
          BY <4>2 DEF Answer, ToolsDone, SaveNot, EndTurn, InTurn
      <4>3. CASE Finish
          BY <4>3 DEF Finish, RunOutOfTurns, LlmGivesUp, Conclude, OutputTrips,
                      DebugStops, Close, InTurn
      <4>4. CASE Silent
          BY <2>6, <4>4 DEF Silent, SeeToken, LlmRaises, StreamOpens, StreamBreaks,
                CallTools, CallRunEnd, Return, CancelToken, Abort, Active, InTurn
      <4>5. CASE UNCHANGED runVars
          BY <4>5 DEF runVars, loopVars
      <4>6. ~Transfer
          BY <2>6 DEF Transfer
      <4> QED
          BY <1>6, <4>1, <4>2, <4>3, <4>4, <4>5, <4>6 DEF GoesOn
    <3> QED
        BY <1>1, <2>3, <3>1
  <2> QED
      BY <2>4, <2>5, <2>6
<1>7. CASE Commit
    BY <1>7 DEF Commit, loopVars, InOrder, InTurn
<1>8. CASE Rollback
  <2>1. alias' = 0 /\ phase' = "ended"
      BY <1>8 DEF Rollback, loopVars
  <2>2. /\ Len(saved') = found /\ (found > 0 => newest' = saved'[found])
        /\ \A i \in 1 .. found : saved'[i] = saved[i] /\ i \in 1 .. Len(saved)
      BY <1>8, RolledBack
  <2>3. \A i, j \in 1 .. found : i < j => saved'[i].turn <= saved'[j].turn
      BY <2>2 DEF InOrder
  <2> QED
      BY <2>1, <2>2, <2>3 DEF InOrder, InTurn
<1> QED
    BY <1>3, <1>4, <1>5, <1>6, <1>7, <1>8, Steps

\* LittleLost: a resumed run repeats at most the turns of one interval of what
\* was committed, over any number of handoffs, aborts, rollbacks and
\* resumptions, if no checkpoint fails to be saved.
THEOREM ResumingLosesLittle ==
    ASSUME ~SavesFail
    PROVE  RunSpec => LittleLost
<1>1. TypeInv /\ KeepsUp /\ [RunNext]_runVars => (TypeInv /\ KeepsUp)'
    BY TypeInductive, KeepsUpStep, ~SavesFail
<1>2. RunInit => KeepsUp
    BY DEF RunInit, LoopInit, KeepsUp
<1>3. TypeInv /\ KeepsUp /\ Resume => reached - turn' <= Interval
  <2> SUFFICES ASSUME TypeInv, KeepsUp, Resume
               PROVE  reached - turn' <= Interval
      OBVIOUS
  <2>1. /\ reached \in Nat /\ Interval \in Nat \ {0} /\ Len(saved) \in Nat
        /\ DOMAIN saved = 1 .. Len(saved)
        /\ \A i \in 1 .. Len(saved) : saved[i].turn \in Nat
      BY SavedTurns, RunAssumption
  <2>2. PICK k \in 1 .. Len(saved) : Latest(k) /\ Rejoin(k) /\ turn' = saved[k].turn
      BY Resumption DEF StartAt
  <2>3. PICK t \in Nat : t = turn' /\ \A i \in 1 .. Len(saved) : saved[i].turn <= t
      BY <2>1, <2>2 DEF Latest
  <2>4. ASSUME NEW n \in Nat, Near(saved, Len(saved), n)
        PROVE  n < t + Interval
    <3> DEFINE r == n % Interval
    <3>1. r \in 0 .. Interval - 1
        BY <2>1, NextRemainder
    <3>2. CASE n < Interval
        BY <2>1, <3>2
    <3>3. ASSUME NEW i \in 1 .. Len(saved), saved[i].turn >= n - r
          PROVE  n < t + Interval
      <4> HIDE DEF r
      <4>1. saved[i].turn \in Nat /\ saved[i].turn <= t
          BY <2>1, <2>3
      <4> QED
          BY <2>1, <3>1, <3>3, <4>1
    <3> QED
        BY <2>4, <3>2, <3>3 DEF Near
  <2>5. Reaches(saved, Len(saved), reached)
    <3>1. phase = "ended" /\ settled # "open" /\ Len(saved) # 0
        BY <2>1, <2>2 DEF Rejoin, Load
    <3> QED
        BY <3>1 DEF KeepsUp
  <2>6. reached <= t + Interval
    <3>1. CASE Near(saved, Len(saved), reached)
        BY <2>1, <2>4, <3>1
    <3>2. CASE reached >= 1 /\ Near(saved, Len(saved), reached - 1)
      <4>1. reached - 1 \in Nat
          BY <2>1, <3>2
      <4>2. reached - 1 < t + Interval
          BY <2>4, <3>2, <4>1
      <4> QED
          BY <2>1, <4>1, <4>2
    <3> QED
        BY <2>5, <3>1, <3>2 DEF Reaches
  <2>7. reached - t <= Interval
      BY <2>1, <2>6
  <2> QED
      BY <2>3, <2>7
<1> QED
    BY <1>1, <1>2, <1>3, RunInitial, PTL DEF RunSpec, LittleLost

\* ResumeLatest: a resumed run begins where the last checkpoint was made that
\* was not rolled back, if no handoff took its turn back, checkpoints are
\* copies and every agent can be found again.
THEOREM ResumesAtLatest ==
    ASSUME Backend # "memory", Findable = Agents
    PROVE  RunSpec => ResumeLatest
<1>1. TypeInv /\ InOrder /\ [RunNext]_runVars => (TypeInv /\ InOrder)'
    BY TypeInductive, InOrderStep, Backend # "memory"
<1>2. RunInit => InOrder
    BY DEF RunInit, LoopInit, InOrder
<1> DEFINE ties == {i \in DOMAIN saved : saved[i].turn = newest.turn}
<1>3. TypeInv /\ InOrder /\ Resume /\ Cardinality(ties) = 1 => AtNewest
  <2> SUFFICES ASSUME TypeInv, InOrder, Resume, Cardinality(ties) = 1
               PROVE  AtNewest
      OBVIOUS
  <2>1. /\ saved \in Seq(Checkpoints) /\ Len(saved) \in Nat /\ DOMAIN saved = 1 .. Len(saved)
        /\ session \in Transcripts
      BY LenProperties DEF TypeInv, TalkTypeOK
  <2>2. PICK k \in 1 .. Len(saved) :
          /\ Latest(k)
          /\ turn' = saved[k].turn
          /\ agent' = Finds(k)
          /\ Load(saved[k].messages)
      BY Resumption DEF StartAt, Rejoin
  <2>3. \A i \in 1 .. Len(saved) :
            saved[i].turn \in Nat /\ saved[i].agent \in Agents /\ saved[i].messages \in Transcripts
    <3>1. SUFFICES ASSUME NEW i \in 1 .. Len(saved)
                   PROVE  saved[i] \in Checkpoints
        BY LoopAssumption DEF Checkpoints
    <3> QED
        BY <2>1, ElementOfSeq
  <2>4. /\ Len(saved) \in 1 .. Len(saved) /\ newest = saved[Len(saved)]
        /\ \A i \in 1 .. Len(saved) : saved[i].turn <= newest.turn
    <3>1. Len(saved) \in 1 .. Len(saved) /\ newest = saved[Len(saved)]
        BY <2>1, <2>2 DEF InOrder
    <3>2. ASSUME NEW i \in 1 .. Len(saved)
          PROVE  saved[i].turn <= newest.turn
      <4>1. CASE i < Len(saved)
          BY <3>1, <4>1 DEF InOrder
      <4>2. CASE i = Len(saved)
          BY <2>3, <3>1, <4>2
      <4>3. i < Len(saved) \/ i = Len(saved)
        <5>1. Len(saved) \in Nat
            BY <2>1
        <5> QED
            BY <5>1
      <4> QED
          BY <4>1, <4>2, <4>3
    <3> QED
        BY <3>1, <3>2
  <2>5. saved[k].turn = newest.turn
      BY <2>1, <2>2, <2>3, <2>4 DEF Latest
  <2>6. k = Len(saved)
    <3>1. k \in ties /\ Len(saved) \in ties
        BY <2>1, <2>2, <2>4, <2>5
    <3>2. IsFiniteSet(ties)
      <4>1. IsFiniteSet(1 .. Len(saved)) /\ ties \subseteq 1 .. Len(saved)
          BY <2>1, FS_Interval
      <4> QED
          BY <4>1, FS_Subset
    <3> HIDE DEF ties
    <3>3. PICK x : ties = {x}
        BY <3>2, FS_Singleton
    <3> QED
        BY <3>1, <3>3
  <2>7. SubSeq(messages', offset' + 1, Len(messages')) = newest.messages
      BY <2>1, <2>2, <2>3, <2>4, <2>6, RestOfConcat DEF Load
  <2> QED
      BY <2>2, <2>3, <2>4, <2>6, <2>7, Findable = Agents DEF AtNewest, Finds
<1>4. ResumeLatest <=> [][Resume /\ Cardinality(ties) = 1 => AtNewest]_runVars
    BY DEF ResumeLatest
<1> QED
    BY <1>1, <1>2, <1>3, RunInitial, PTL DEF RunSpec, ResumeLatest

-----------------------------------------------------------------------------
(* No message is saved twice *)

\* The messages of the transcript s are all different, its ids all below n.
Distinct(s) == \A i, j \in 1 .. Len(s) : i # j => s[i] # s[j]
Below(s, n) == \A i \in 1 .. Len(s) : s[i].id < n

\* No message of s is one of t's behind the first n.
Apart(s, t, n) == \A i \in 1 .. Len(s), j \in n + 1 .. Len(t) : s[i] # t[j]

\* Of what is stored and said every message is there once, and none is as new
\* as the clock; while a run goes on nothing it has said is in the session; and
\* only the last reply's own results may still carry its id.
OnceInv ==
    /\ Distinct(session) /\ Below(session, clock)
    /\ Distinct(before) /\ Below(before, clock)
    /\ \A k \in 1 .. Len(saved) :
          Distinct(saved[k].messages) /\ Below(saved[k].messages, clock)
    /\ phase \in InLoop =>
          /\ offset = Len(session)
          /\ Distinct(messages) /\ Below(messages, clock)
          /\ Apart(session, messages, offset)
    /\ phase \in {"replied", "tools"} =>
          \E s \in Transcripts, id \in Nat, n \in Nat :
              /\ messages = Append(s, Message("assistant", id, n))
              /\ Below(s, id) /\ Below(session, id)

\* What a transcript is: its length, its messages, its ids.
LEMMA TranscriptFacts ==
    ASSUME NEW s \in Transcripts
    PROVE  /\ Len(s) \in Nat /\ DOMAIN s = 1 .. Len(s)
           /\ \A i \in 1 .. Len(s) : s[i] \in Messages /\ s[i].id \in Nat
<1>1. /\ Len(s) \in Nat /\ DOMAIN s = 1 .. Len(s)
      /\ \A i \in 1 .. Len(s) : s[i] \in Messages
    BY LenProperties, ElementOfSeq DEF Transcripts
<1> QED
    BY <1>1 DEF Messages

\* Where the messages of two joined transcripts are.
LEMMA JoinedFacts ==
    ASSUME NEW s \in Transcripts, NEW t \in Transcripts
    PROVE  /\ s \o t \in Transcripts
           /\ Len(s) \in Nat /\ Len(t) \in Nat /\ Len(s \o t) = Len(s) + Len(t)
           /\ \A i \in 1 .. Len(s) : (s \o t)[i] = s[i]
           /\ \A i \in Len(s) + 1 .. Len(s) + Len(t) :
                 (s \o t)[i] = t[i - Len(s)] /\ i - Len(s) \in 1 .. Len(t)
<1>1. /\ s \in Seq(Messages) /\ t \in Seq(Messages)
      /\ Len(s) \in Nat /\ Len(t) \in Nat
    BY LenProperties DEF Transcripts
<1>2. /\ s \o t \in Seq(Messages)
      /\ Len(s \o t) = Len(s) + Len(t)
      /\ \A i \in 1 .. Len(s) + Len(t) :
            (s \o t)[i] = IF i <= Len(s) THEN s[i] ELSE t[i - Len(s)]
    BY <1>1, ConcatProperties
<1> QED
    BY <1>1, <1>2 DEF Transcripts

\* Distinct is IsInjective.
LEMMA DistinctInjective ==
    ASSUME NEW s \in Transcripts
    PROVE  Distinct(s) <=> IsInjective(s)
BY TranscriptFacts DEF Distinct, IsInjective

\* Transcripts that share no message are distinct together.
LEMMA DistinctConcat ==
    ASSUME NEW s \in Transcripts, NEW t \in Transcripts,
           Distinct(s), Distinct(t), Apart(s, t, 0)
    PROVE  Distinct(s \o t)
<1> DEFINE u == s \o t
<1>1. /\ Len(s) \in Nat /\ Len(t) \in Nat /\ Len(u) = Len(s) + Len(t)
      /\ \A i \in 1 .. Len(s) : u[i] = s[i]
      /\ \A i \in Len(s) + 1 .. Len(s) + Len(t) :
            u[i] = t[i - Len(s)] /\ i - Len(s) \in 1 .. Len(t)
    BY JoinedFacts
<1> HIDE DEF u
<1>2. SUFFICES ASSUME NEW i \in 1 .. Len(u), NEW j \in 1 .. Len(u), i # j
               PROVE  u[i] # u[j]
    BY DEF Distinct, u
<1>3. CASE i <= Len(s) /\ j <= Len(s)
  <2>1. i \in 1 .. Len(s) /\ j \in 1 .. Len(s)
      BY <1>1, <1>3
  <2> QED
      BY <1>1, <1>2, <2>1 DEF Distinct
<1>4. CASE i > Len(s) /\ j > Len(s)
  <2>1. i \in Len(s) + 1 .. Len(s) + Len(t) /\ j \in Len(s) + 1 .. Len(s) + Len(t)
      BY <1>1, <1>4
  <2>2. i - Len(s) # j - Len(s)
      BY <1>1, <1>2, <2>1
  <2> QED
      BY <1>1, <2>1, <2>2 DEF Distinct
<1>5. CASE i <= Len(s) /\ j > Len(s)
  <2>1. i \in 1 .. Len(s) /\ j \in Len(s) + 1 .. Len(s) + Len(t)
      BY <1>1, <1>5
  <2>2. j - Len(s) \in 0 + 1 .. Len(t)
      BY <1>1, <2>1
  <2> QED
      BY <1>1, <2>1, <2>2 DEF Apart
<1>6. CASE i > Len(s) /\ j <= Len(s)
  <2>1. j \in 1 .. Len(s) /\ i \in Len(s) + 1 .. Len(s) + Len(t)
      BY <1>1, <1>6
  <2>2. i - Len(s) \in 0 + 1 .. Len(t)
      BY <1>1, <2>1
  <2> QED
      BY <1>1, <2>1, <2>2 DEF Apart
<1> QED
    BY <1>1, <1>3, <1>4, <1>5, <1>6

\* So are their ids below what both are below.
LEMMA BelowConcat ==
    ASSUME NEW s \in Transcripts, NEW t \in Transcripts, NEW n \in Nat,
           Below(s, n), Below(t, n)
    PROVE  Below(s \o t, n)
<1> DEFINE u == s \o t
<1>1. /\ Len(s) \in Nat /\ Len(t) \in Nat /\ Len(u) = Len(s) + Len(t)
      /\ \A i \in 1 .. Len(s) : u[i] = s[i]
      /\ \A i \in Len(s) + 1 .. Len(s) + Len(t) :
            u[i] = t[i - Len(s)] /\ i - Len(s) \in 1 .. Len(t)
    BY JoinedFacts
<1> HIDE DEF u
<1>2. SUFFICES ASSUME NEW i \in 1 .. Len(u)
               PROVE  u[i].id < n
    BY DEF Below, u
<1>3. CASE i <= Len(s)
  <2>1. i \in 1 .. Len(s)
      BY <1>1, <1>3
  <2> QED
      BY <1>1, <2>1 DEF Below
<1>4. CASE i > Len(s)
  <2>1. i \in Len(s) + 1 .. Len(s) + Len(t)
      BY <1>1, <1>4
  <2> QED
      BY <1>1, <2>1 DEF Below
<1> QED
    BY <1>1, <1>3, <1>4

\* What is below a number is below a greater one.
LEMMA BelowMore ==
    ASSUME NEW s \in Transcripts, NEW m \in Nat, NEW n \in Nat, m <= n, Below(s, m)
    PROVE  Below(s, n)
<1>1. SUFFICES ASSUME NEW i \in 1 .. Len(s)
               PROVE  s[i].id < n
    BY DEF Below
<1>2. s[i].id \in Nat /\ s[i].id < m
    BY TranscriptFacts DEF Below
<1> QED
    BY <1>2

\* Messages with older and with newer ids differ.
LEMMA OlderApart ==
    ASSUME NEW s \in Transcripts, NEW t \in Transcripts, NEW n \in Nat, Below(s, n),
           \A j \in 1 .. Len(t) : t[j].id >= n
    PROVE  Apart(s, t, 0)
<1>1. SUFFICES ASSUME NEW i \in 1 .. Len(s), NEW j \in 0 + 1 .. Len(t)
               PROVE  s[i] # t[j]
    BY DEF Apart
<1>2. s[i].id \in Nat /\ s[i].id < n /\ t[j].id >= n /\ t[j].id \in Nat
    BY TranscriptFacts DEF Below
<1> QED
    BY <1>2

\* A transcript of one message.
LEMMA OneFacts ==
    ASSUME NEW m \in Messages
    PROVE  /\ <<m>> \in Transcripts /\ Distinct(<<m>>)
           /\ Len(<<m>>) = 1 /\ <<m>>[1] = m
           /\ \A n \in Nat : m.id < n => Below(<<m>>, n)
           /\ \A n \in Nat : m.id >= n => \A j \in 1 .. Len(<<m>>) : <<m>>[j].id >= n
<1>1. <<m>> \in Transcripts /\ Len(<<m>>) = 1 /\ <<m>>[1] = m
    BY DEF Transcripts
<1> HIDE DEF Transcripts
<1>2. \A i \in 1 .. Len(<<m>>) : i = 1
    BY <1>1
<1> QED
    BY <1>1, <1>2 DEF Distinct, Below

\* Messages that are appended, distinct and different from all before, leave
\* the transcript distinct and apart from the session.
LEMMA SayAnew ==
    ASSUME NEW h \in Transcripts, NEW s \in Transcripts, NEW t \in Transcripts,
           NEW n \in Nat, Distinct(s), Apart(h, s, n),
           Distinct(t), Apart(s, t, 0), Apart(h, t, 0)
    PROVE  Distinct(s \o t) /\ Apart(h, s \o t, n)
<1> DEFINE u == s \o t
<1>1. Distinct(u)
    BY DistinctConcat
<1>2. /\ Len(s) \in Nat /\ Len(t) \in Nat /\ Len(u) = Len(s) + Len(t)
      /\ \A i \in 1 .. Len(s) : u[i] = s[i]
      /\ \A i \in Len(s) + 1 .. Len(s) + Len(t) :
            u[i] = t[i - Len(s)] /\ i - Len(s) \in 1 .. Len(t)
    BY JoinedFacts
<1> HIDE DEF u
<1>3. ASSUME NEW i \in 1 .. Len(h), NEW j \in n + 1 .. Len(u)
      PROVE  h[i] # u[j]
  <2>1. CASE j <= Len(s)
    <3>1. j \in n + 1 .. Len(s) /\ j \in 1 .. Len(s)
        BY <1>2, <2>1
    <3> QED
        BY <1>2, <3>1 DEF Apart
  <2>2. CASE j > Len(s)
    <3>1. j \in Len(s) + 1 .. Len(s) + Len(t)
        BY <1>2, <2>2
    <3>2. j - Len(s) \in 0 + 1 .. Len(t)
        BY <1>2, <3>1
    <3> QED
        BY <1>2, <3>1, <3>2 DEF Apart
  <2> QED
      BY <1>2, <2>1, <2>2
<1> QED
    BY <1>1, <1>3 DEF Apart, u

\* The messages of s behind its first n: they are distinct, as old, and apart.
LEMMA RestFacts ==
    ASSUME NEW h \in Transcripts, NEW s \in Transcripts, NEW n \in Nat, NEW m \in Nat,
           Distinct(s), Below(s, m), Apart(h, s, n)
    PROVE  LET t == SubSeq(s, n + 1, Len(s))
           IN  t \in Transcripts /\ Distinct(t) /\ Below(t, m) /\ Apart(h, t, 0)
<1> DEFINE t == SubSeq(s, n + 1, Len(s))
<1>1. Len(s) \in Nat /\ \A i \in 1 .. Len(s) : s[i] \in Messages
    BY TranscriptFacts
<1>2. /\ t \in Transcripts
      /\ Len(t) = IF n + 1 <= Len(s) THEN Len(s) - n ELSE 0
      /\ \A i \in 1 .. Len(s) - n : t[i] = s[n + i]
  <2>1. n + 1 \in Int /\ Len(s) \in Int /\ \A i \in n + 1 .. Len(s) : s[i] \in Messages
      BY <1>1
  <2>2. /\ t \in Transcripts
        /\ Len(t) = IF n + 1 <= Len(s) THEN Len(s) - (n + 1) + 1 ELSE 0
        /\ \A i \in 1 .. Len(s) - (n + 1) + 1 : t[i] = s[n + 1 + i - 1]
      BY <2>1, SubSeqProperties DEF Transcripts
  <2> HIDE DEF t
  <2> QED
      BY <1>1, <2>2
<1> HIDE DEF t
<1>3. ASSUME NEW i \in 1 .. Len(t)
      PROVE  n + i \in n + 1 .. Len(s) /\ n + i \in 1 .. Len(s) /\ t[i] = s[n + i]
    BY <1>1, <1>2
<1>4. Len(t) \in Nat
    BY <1>1, <1>2
<1>5. Distinct(t)
  <2>1. SUFFICES ASSUME NEW i \in 1 .. Len(t), NEW j \in 1 .. Len(t), i # j
                 PROVE  t[i] # t[j]
      BY DEF Distinct
  <2>2. n + i # n + j
      BY <1>4, <2>1
  <2> QED
      BY <1>3, <2>2 DEF Distinct
<1>6. Below(t, m)
    BY <1>3 DEF Below
<1>7. Apart(h, t, 0)
  <2>1. SUFFICES ASSUME NEW i \in 1 .. Len(h), NEW j \in 0 + 1 .. Len(t)
                 PROVE  h[i] # t[j]
      BY DEF Apart
  <2>2. j \in 1 .. Len(t)
      BY <1>4
  <2> QED
      BY <1>3, <2>2 DEF Apart
<1> QED
    BY <1>2, <1>5, <1>6, <1>7 DEF t

\* A checkpoint that is the transcript's list object has grown with it, the
\* others are what they were.
LEMMA AppendSaved ==
    ASSUME TypeInv, NEW new \in Transcripts, Append_(new)
    PROVE  /\ Len(saved') = Len(saved)
           /\ \A k \in 1 .. Len(saved) :
                 saved'[k].messages = saved[k].messages \/ saved'[k].messages = messages'
<1>1. /\ saved \in Seq(Checkpoints) /\ Len(saved) \in Nat /\ alias \in 0 .. Len(saved)
      /\ Len(saved') = Len(saved) /\ messages' = messages \o new
      /\ messages \o new \in Transcripts
    BY AppendKeeps, LenProperties DEF TypeInv, TalkTypeOK, Append_
<1>2. CASE alias = 0
    BY <1>1, <1>2 DEF Append_
<1>3. CASE alias # 0
  <2> DEFINE cp == saved[alias]
             longer == [cp EXCEPT !.messages = messages \o new]
  <2>1. alias \in 1 .. Len(saved) /\ cp \in Checkpoints
      BY <1>1, <1>3, ElementOfSeq
  <2>2. longer \in Checkpoints /\ longer.messages = messages \o new
      BY <1>1, <2>1 DEF Checkpoints
  <2>3. saved' = [saved EXCEPT ![alias] = longer]
      BY <1>3 DEF Append_
  <2> HIDE DEF longer
  <2>4. \A k \in 1 .. Len(saved) : saved'[k] = IF k = alias THEN longer ELSE saved[k]
      BY <1>1, <2>1, <2>2, <2>3, ExceptSeq
  <2> QED
      BY <1>1, <2>2, <2>4
<1> QED
    BY <1>1, <1>2, <1>3

\* The messages of the checkpoints, as transcripts.
LEMMA SavedFacts ==
    ASSUME TypeInv
    PROVE  /\ Len(saved) \in Nat /\ DOMAIN saved = 1 .. Len(saved)
           /\ \A k \in 1 .. Len(saved) : saved[k].messages \in Transcripts
<1>1. saved \in Seq(Checkpoints) /\ Len(saved) \in Nat /\ DOMAIN saved = 1 .. Len(saved)
    BY LenProperties DEF TypeInv, TalkTypeOK
<1>2. ASSUME NEW k \in 1 .. Len(saved)
      PROVE  saved[k].messages \in Transcripts
  <2>1. saved[k] \in Checkpoints
      BY <1>1, ElementOfSeq
  <2> QED
      BY <2>1 DEF Checkpoints
<1> QED
    BY <1>1, <1>2

\* A run that says something new.
LEMMA OnceSaid ==
    ASSUME TypeInv, OnceInv, phase \in InLoop,
           NEW new \in Transcripts, NEW m \in Nat, m >= clock,
           Append_(new), Distinct(new), Below(new, m),
           Apart(messages, new, 0), Apart(session, new, 0),
           session' = session, offset' = offset, clock' = m
    PROVE  /\ Distinct(session') /\ Below(session', clock')
           /\ \A k \in 1 .. Len(saved') :
                 Distinct(saved'[k].messages) /\ Below(saved'[k].messages, clock')
           /\ offset' = Len(session')
           /\ Distinct(messages') /\ Below(messages', clock')
           /\ Apart(session', messages', offset')
<1>1. /\ messages \in Transcripts /\ session \in Transcripts /\ clock \in Nat
      /\ offset \in Nat
    BY DEF TypeInv, TalkTypeOK
<1>2. /\ offset = Len(session) /\ Distinct(session) /\ Below(session, clock)
      /\ Distinct(messages) /\ Below(messages, clock) /\ Apart(session, messages, offset)
    BY DEF OnceInv
<1>3. messages' = messages \o new /\ messages' \in Transcripts
    BY AppendKeeps DEF Append_, TypeInv
<1>4. Distinct(messages') /\ Apart(session, messages', offset)
    BY <1>1, <1>2, <1>3, SayAnew
<1>5. Below(session, m) /\ Below(messages, m)
    BY <1>1, <1>2, BelowMore
<1>6. Below(messages', m)
    BY <1>1, <1>3, <1>5, BelowConcat
<1>7. ASSUME NEW k \in 1 .. Len(saved')
      PROVE  Distinct(saved'[k].messages) /\ Below(saved'[k].messages, m)
  <2>1. k \in 1 .. Len(saved)
        /\ (saved'[k].messages = saved[k].messages \/ saved'[k].messages = messages')
      BY AppendSaved
  <2>2. saved[k].messages \in Transcripts
      BY <2>1, SavedFacts
  <2>3. Distinct(saved[k].messages) /\ Below(saved[k].messages, clock)
      BY <2>1 DEF OnceInv
  <2>4. Below(saved[k].messages, m)
      BY <1>1, <2>2, <2>3, BelowMore
  <2> QED
      BY <1>4, <1>6, <2>1, <2>3, <2>4
<1> QED
    BY <1>2, <1>4, <1>5, <1>6, <1>7

\* A run that begins with a new input, after the history.
LEMMA OnceBegins ==
    ASSUME TypeInv, OnceInv, Begin
    PROVE  /\ messages' = session \o <<User(clock)>> /\ produced' = <<User(clock)>>
           /\ clock' = clock + 1 /\ offset' = Len(session)
           /\ Len(saved') = 0
           /\ Distinct(messages') /\ Below(messages', clock')
           /\ Below(session, clock')
           /\ Apart(session, messages', offset')
           /\ Apart(session, <<User(clock)>>, 0)
<1> DEFINE new == <<User(clock)>>
<1>1. /\ session \in Transcripts /\ clock \in Nat /\ clock + 1 \in Nat
      /\ Distinct(session) /\ Below(session, clock)
    BY DEF TypeInv, TalkTypeOK, OnceInv
<1>2. User(clock) \in Messages /\ User(clock).id = clock
    BY <1>1, MessageType DEF User, Message
<1>3. /\ new \in Transcripts /\ Distinct(new) /\ Len(new) = 1
      /\ Below(new, clock + 1)
      /\ \A j \in 1 .. Len(new) : new[j].id >= clock
    BY <1>1, <1>2, OneFacts
<1>4. /\ messages' = session \o new /\ produced' = new /\ offset' = Len(session)
      /\ clock' = clock + 1 /\ Len(saved') = 0
    BY DEF Begin, Load
<1> HIDE DEF new
<1>5. Apart(session, new, 0)
    BY <1>1, <1>3, OlderApart
<1>6. Distinct(session \o new)
    BY <1>1, <1>3, <1>5, DistinctConcat
<1>7. Below(session, clock + 1)
    BY <1>1, BelowMore
<1>8. Below(session \o new, clock + 1)
    BY <1>1, <1>3, <1>7, BelowConcat
<1>9. Apart(session, session \o new, Len(session))
  <2>1. Len(session) \in Nat
      BY <1>1, TranscriptFacts
  <2>2. Apart(session, session, Len(session))
      BY <2>1 DEF Apart
  <2> QED
      BY <1>1, <1>3, <1>5, <2>1, <2>2, SayAnew
<1> QED
    BY <1>4, <1>5, <1>6, <1>7, <1>8, <1>9 DEF new

\* The session gains what was said behind the history.
LEMMA OnceKept ==
    ASSUME TypeInv, OnceInv, phase \in InLoop, SaveSession
    PROVE  Distinct(session') /\ Below(session', clock)
<1>1. /\ messages \in Transcripts /\ session \in Transcripts /\ clock \in Nat
      /\ offset \in Nat
    BY DEF TypeInv, TalkTypeOK
<1>2. /\ Distinct(session) /\ Below(session, clock)
      /\ Distinct(messages) /\ Below(messages, clock) /\ Apart(session, messages, offset)
    BY DEF OnceInv
<1> DEFINE rest == SubSeq(messages, offset + 1, Len(messages))
<1>3. /\ rest \in Transcripts /\ Distinct(rest) /\ Below(rest, clock)
      /\ Apart(session, rest, 0)
    BY <1>1, <1>2, RestFacts
<1>4. session' = session \/ session' = session \o rest
    BY DEF SaveSession
<1> HIDE DEF rest
<1> QED
    BY <1>1, <1>2, <1>3, <1>4, DistinctConcat, BelowConcat

\* The results of a reply's calls are new: all that was said before the reply
\* is older than it, and the reply is no result.
LEMMA ResultsAnew ==
    ASSUME TypeInv, OnceInv, phase \in {"replied", "tools"},
           NEW n \in Nat, NEW got \in [1 .. n -> 1 .. upto],
           \A i, j \in 1 .. n : i < j => got[i] < got[j],
           Results(Last(messages).id, n, got) \in Transcripts
    PROVE  LET new == Results(Last(messages).id, n, got)
           IN  /\ Distinct(new) /\ Below(new, clock)
               /\ Apart(messages, new, 0) /\ Apart(session, new, 0)
<1>1. /\ messages \in Transcripts /\ session \in Transcripts /\ clock \in Nat
      /\ upto \in Nat
    BY RunAssumption DEF TypeInv, TalkTypeOK
<1>2. PICK s \in Transcripts, id \in Nat, c \in Nat :
        /\ messages = Append(s, Message("assistant", id, c))
        /\ Below(s, id) /\ Below(session, id)
    BY DEF OnceInv
<1> DEFINE a == Message("assistant", id, c)
           new == Results(id, n, got)
<1>3. a \in Messages /\ a.id = id /\ a.role = "assistant"
    BY MessageType DEF Message
<1>4. /\ Len(s) \in Nat /\ Len(messages) = Len(s) + 1
      /\ messages[Len(s) + 1] = a
      /\ \A i \in 1 .. Len(s) : messages[i] = s[i]
    BY <1>2, <1>3, TranscriptFacts, AppendProperties DEF Transcripts
<1>5. Last(messages) = a
    BY <1>4 DEF Last
<1>6. /\ new \in Transcripts /\ Len(new) = n
      /\ \A i \in 1 .. n : new[i].role = "tool" /\ new[i].id = id /\ new[i].call = got[i]
    BY <1>3, <1>5 DEF Results, Message
<1>7. id < clock
  <2>1. Below(messages, clock)
      BY DEF OnceInv, InLoop, Active, InTurn
  <2>2. Len(s) + 1 \in 1 .. Len(messages)
      BY <1>4
  <2> QED
      BY <1>3, <1>4, <2>1, <2>2 DEF Below
<1> HIDE DEF a, new
<1>8. Distinct(new)
  <2>1. SUFFICES ASSUME NEW i \in 1 .. n, NEW j \in 1 .. n, i # j
                 PROVE  got[i] # got[j]
      BY <1>6 DEF Distinct
  <2>2. got[i] \in Nat /\ got[j] \in Nat
      BY <1>1
  <2>3. CASE i < j
      BY <2>2, <2>3
  <2>4. CASE j < i
      BY <2>2, <2>4
  <2>5. i < j \/ j < i
      BY <2>1
  <2> QED
      BY <2>3, <2>4, <2>5
<1>9. Below(new, clock)
    BY <1>6, <1>7 DEF Below
<1>10. Apart(session, new, 0)
    BY <1>1, <1>2, <1>6, OlderApart
<1>11. Apart(messages, new, 0)
  <2>1. SUFFICES ASSUME NEW i \in 1 .. Len(messages), NEW j \in 0 + 1 .. Len(new)
                 PROVE  messages[i] # new[j]
      BY DEF Apart
  <2>2. j \in 1 .. n
      BY <1>6
  <2>3. CASE i = Len(s) + 1
      BY <1>3, <1>4, <1>6, <2>2, <2>3
  <2>4. CASE i \in 1 .. Len(s)
    <3>1. s[i].id < id /\ s[i].id \in Nat
        BY <1>2, <2>4, TranscriptFacts DEF Below
    <3> QED
        BY <1>4, <1>6, <2>2, <2>4, <3>1
  <2> QED
      BY <1>4, <2>3, <2>4
<1> QED
    BY <1>3, <1>5, <1>8, <1>9, <1>10, <1>11 DEF new

\* What the session held when the run began is as distinct and as old.
LEMMA OnceBefore ==
    ASSUME TypeInv, OnceInv, [RunNext]_runVars
    PROVE  Distinct(before') /\ Below(before', clock')
<1>1. /\ before \in Transcripts /\ session \in Transcripts /\ clock \in Nat
      /\ Distinct(before) /\ Below(before, clock)
      /\ Distinct(session) /\ Below(session, clock)
    BY DEF TypeInv, TalkTypeOK, OnceInv
<1>2. before' \in {before, session} /\ clock' \in {clock, clock + 1}
    BY DEF RunNext, Run, RunTrips, Begin, Resume, ResumeTrips, Rejoin, Load, Reply, Answer,
           Transfer, Save, SaveNot, Finish, Silent, Commit, Rollback, talkVars,
           lastingVars, runVars
<1>3. clock' \in Nat /\ clock <= clock'
    BY <1>1, <1>2
<1> QED
    BY <1>1, <1>2, <1>3, BelowMore

\* Every step keeps the messages distinct until a run is resumed in a session
\* that is not empty; copies or shared lists, filters or none.
LEMMA OnceStep ==
    ASSUME TypeInv, rejoined \/ OnceInv, [RunNext]_runVars
    PROVE  (rejoined \/ OnceInv)'
<1> SUFFICES ASSUME OnceInv, ~rejoined, ~rejoined'
               PROVE  OnceInv'
  <2>1. rejoined => rejoined'
      BY DEF RunNext, Run, RunTrips, Begin, Resume, ResumeTrips, Rejoin, Reply, Answer,
             Transfer, Save, SaveNot, Finish, Silent, Commit, Rollback, talkVars,
             lastingVars, runVars
  <2> QED
      BY <2>1
<1>1. /\ messages \in Transcripts /\ session \in Transcripts /\ clock \in Nat
      /\ offset \in Nat /\ CallCounts \subseteq Nat
    BY RunAssumption DEF TypeInv, TalkTypeOK
<1>0. Distinct(before') /\ Below(before', clock')
    BY OnceBefore
<1>2. CASE Run
  <2>1. phase' = "ready" /\ session' = session /\ Begin
      BY <1>2 DEF Run, StartAt
  <2> QED
      BY <1>0, <2>1, OnceBegins DEF OnceInv
<1>3. CASE RunTrips
  <2>1. /\ phase' = "closing" /\ Begin
        /\ session' = session \/ session' = Append(session, User(clock))
      BY <1>3 DEF RunTrips, TripAt
  <2>2. User(clock) \in Messages
      BY <1>1, MessageType DEF User
  <2>3. session' = session \/ session' = messages'
      BY <1>1, <2>1, <2>2, OnceBegins, AppendIsConcat DEF Transcripts
  <2>4. Distinct(session') /\ Below(session', clock')
      BY <2>1, <2>3, OnceBegins DEF OnceInv
  <2> QED
      BY <1>0, <2>1, <2>4, OnceBegins DEF OnceInv, InLoop, Active, InTurn
<1>4. CASE Resume \/ ResumeTrips
  <2>1. PICK k \in 1 .. Len(saved) :
          /\ Rejoin(k) /\ saved[k].messages \in Transcripts
          /\ phase' \in {"ready", "closing"}
          /\ \/ session' = session
             \/ session' = session \o saved[k].messages /\ phase' = "closing"
      BY <1>4, Resumption DEF StartAt, TripAt
  <2>2. /\ session = <<>> /\ Load(saved[k].messages)
        /\ UNCHANGED <<saved, clock>>
      BY <2>1 DEF Rejoin
  <2>3. <<>> \o saved[k].messages = saved[k].messages
      BY <2>1, ConcatEmptySeq DEF Transcripts
  <2>4. /\ messages' = saved[k].messages /\ offset' = 0 /\ Len(session) = 0
        /\ \/ session' = session
           \/ session' = saved[k].messages /\ phase' = "closing"
    <3>1. Len(session) = 0
        BY <2>2
    <3> QED
        BY <2>1, <2>2, <2>3, <3>1 DEF Load
  <2>5. Distinct(saved[k].messages) /\ Below(saved[k].messages, clock)
      BY <2>1 DEF OnceInv
  <2>6. Apart(session, messages', 0)
      BY <2>4 DEF Apart
  <2> QED
      BY <1>0, <2>1, <2>2, <2>4, <2>5, <2>6 DEF OnceInv, InLoop, Active, InTurn
<1>5. ASSUME NEW kind \in {"final", "tools", "handoff"}, NEW to \in Agents,
             NEW calls \in CallCounts, NEW executed \in 0 .. calls,
             Reply(kind, to, calls, executed)
      PROVE  OnceInv'
  <2> DEFINE a == Message("assistant", clock, calls)
             new == <<a>>
  <2>1. calls \in Nat
      BY <1>1
  <2>2. a \in Messages /\ a.id = clock
      BY <1>1, <2>1, MessageType DEF Message
  <2>3. /\ phase \in InLoop /\ phase' = "replied"
        /\ Append_(new) /\ clock' = clock + 1 /\ UNCHANGED <<session, offset>>
      BY <1>5 DEF Reply, LlmReplies, InLoop, Active, InTurn
  <2> HIDE DEF a
  <2>4. /\ new \in Transcripts /\ Distinct(new) /\ Below(new, clock + 1)
        /\ \A j \in 1 .. Len(new) : new[j].id >= clock
      BY <1>1, <2>2, OneFacts
  <2>5. messages' = Append(messages, a)
      BY <1>1, <2>2, <2>3, AppendIsConcat DEF Append_, Transcripts
  <2> HIDE DEF new
  <2>6. Below(messages, clock) /\ Below(session, clock)
      BY <2>3 DEF OnceInv
  <2>7. Apart(messages, new, 0) /\ Apart(session, new, 0)
      BY <1>1, <2>4, <2>6, OlderApart
  <2>8. clock + 1 \in Nat /\ clock + 1 >= clock
      BY <1>1
  <2>9. /\ Distinct(session') /\ Below(session', clock')
        /\ \A k \in 1 .. Len(saved') :
              Distinct(saved'[k].messages) /\ Below(saved'[k].messages, clock')
        /\ offset' = Len(session')
        /\ Distinct(messages') /\ Below(messages', clock')
        /\ Apart(session', messages', offset')
      BY <2>3, <2>4, <2>7, <2>8, OnceSaid
  <2>10. messages' = Append(messages, Message("assistant", clock, calls))
      BY <2>5 DEF a
  <2>11. Below(session', clock)
      BY <2>3, <2>6
  <2> QED
      BY <1>0, <1>1, <2>1, <2>6, <2>9, <2>10, <2>11 DEF OnceInv
<1>6. CASE Answer
  <2>1. /\ phase = "tools" /\ phase' \in {"handing", "saving"}
        /\ UNCHANGED <<session, offset, clock>>
      BY <1>6, AnswerType DEF Answer
  <2>2. PICK new \in Transcripts :
          /\ Append_(new) /\ Distinct(new) /\ Below(new, clock)
          /\ Apart(messages, new, 0) /\ Apart(session, new, 0)
      BY <1>6, <2>1, AnswerType, ResultsAnew
  <2>3. phase \in InLoop /\ clock >= clock
      BY <1>1, <2>1 DEF InLoop, Active, InTurn
  <2>4. /\ Distinct(session') /\ Below(session', clock')
        /\ \A k \in 1 .. Len(saved') :
              Distinct(saved'[k].messages) /\ Below(saved'[k].messages, clock')
        /\ offset' = Len(session')
        /\ Distinct(messages') /\ Below(messages', clock')
        /\ Apart(session', messages', offset')
      BY <1>1, <2>1, <2>2, <2>3, OnceSaid
  <2> QED
      BY <1>0, <2>1, <2>4 DEF OnceInv
<1>7. CASE Transfer
  <2>1. /\ phase = "handing" /\ phase' = "saving"
        /\ messages' = messages \/ messages' = <<Last(messages)>>
        /\ UNCHANGED <<session, offset, clock, saved>>
        /\ messages # <<>>
      BY <1>7 DEF Transfer, HandOver, TypeInv, Spoken, InTurn
  <2>2. /\ offset = Len(session) /\ Distinct(messages) /\ Below(messages, clock)
        /\ Apart(session, messages, offset)
      BY <2>1 DEF OnceInv, InLoop, Active, InTurn
  <2>3. ASSUME messages' = <<Last(messages)>>
        PROVE  Distinct(messages') /\ Below(messages', clock)
               /\ Apart(session, messages', offset)
    <3>1. Len(messages) \in 1 .. Len(messages)
        BY <1>1, <2>1, EmptySeq DEF Transcripts
    <3>2. Last(messages) \in Messages /\ Last(messages).id < clock
        BY <1>1, <2>2, <3>1, TranscriptFacts DEF Last, Below
    <3>3. Distinct(<<Last(messages)>>) /\ Below(<<Last(messages)>>, clock)
          /\ Len(<<Last(messages)>>) = 1
        BY <1>1, <3>2, OneFacts
    <3>4. Apart(session, <<Last(messages)>>, offset)
        BY <1>1, <2>2, <3>3 DEF Apart
    <3> QED
        BY <2>3, <3>3, <3>4
  <2> QED
      BY <1>0, <2>1, <2>2, <2>3 DEF OnceInv
<1>8. CASE Save
  <2>1. /\ phase = "saving" /\ phase' = "ready"
        /\ UNCHANGED <<messages, session, offset, clock>>
        /\ newest'.messages = messages
    <3>1. turn \in 0 .. MaxTurns /\ agent \in Agents
        BY DEF TypeInv, LoopInv, LoopTypeOK
    <3> QED
        BY <1>8 DEF Save, EndTurn
  <2>2. /\ offset = Len(session) /\ Distinct(messages) /\ Below(messages, clock)
        /\ Apart(session, messages, offset)
      BY <2>1 DEF OnceInv, InLoop, Active, InTurn
  <2>3. \A k \in 1 .. Len(saved') :
            Distinct(saved'[k].messages) /\ Below(saved'[k].messages, clock)
    <3>1. SUFFICES ASSUME NEW k \in 1 .. Len(saved')
                   PROVE  Distinct(saved'[k].messages) /\ Below(saved'[k].messages, clock)
        OBVIOUS
    <3>2. /\ Len(saved') = Len(saved) + 1 /\ Len(saved) \in Nat
          /\ saved'[Len(saved) + 1] = newest'
          /\ \A i \in 1 .. Len(saved) : saved'[i] = saved[i]
        BY <1>8, SaveProperties, SavedFacts
    <3>3. CASE k = Len(saved) + 1
        BY <2>1, <2>2, <3>2, <3>3
    <3>4. CASE k \in 1 .. Len(saved)
        BY <3>2, <3>4 DEF OnceInv
    <3> QED
        BY <3>2, <3>3, <3>4
  <2> QED
      BY <1>0, <2>1, <2>2, <2>3 DEF OnceInv
<1>9. CASE SaveNot
    BY <1>0, <1>9 DEF SaveNot, EndTurn, talkVars, OnceInv, InLoop, Active, InTurn
<1>10. CASE Finish
  <2>1. /\ phase \in InLoop /\ phase' = "closing" /\ SaveSession
        /\ UNCHANGED <<saved, clock>>
      BY <1>10 DEF Finish, RunOutOfTurns, LlmGivesUp, Conclude, OutputTrips,
                   DebugStops, Close, InLoop, Active, InTurn
  <2>2. Distinct(session') /\ Below(session', clock)
      BY <2>1, OnceKept
  <2> QED
      BY <1>0, <2>1, <2>2 DEF OnceInv, InLoop, Active, InTurn
<1>11. CASE Silent
  <2>1. /\ UNCHANGED talkVars
        /\ phase' \in InLoop => phase \in InLoop
        /\ phase' \in {"replied", "tools"} => phase \in {"replied", "tools"}
      BY <1>11 DEF Silent, BeginTurn, SeeToken, LlmRaises, StreamOpens, StreamBreaks,
                   CallTools, CallRunEnd, Return, CancelToken, Abort, InLoop, Active, InTurn
  <2> QED
      BY <1>0, <2>1 DEF OnceInv, talkVars
<1>12. CASE UNCHANGED runVars
    BY <1>0, <1>12 DEF runVars, loopVars, talkVars, OnceInv
<1>13. CASE Commit
    BY <1>0, <1>13 DEF Commit, loopVars, OnceInv, InLoop, Active, InTurn
<1>14. CASE Rollback
  <2>1. \A k \in 1 .. Len(saved') :
            Distinct(saved'[k].messages) /\ Below(saved'[k].messages, clock)
      BY <1>14, RolledBack DEF OnceInv
  <2> QED
      BY <1>0, <1>14, <2>1 DEF Rollback, loopVars, OnceInv, InLoop, Active, InTurn
<1> QED
    BY <1>2, <1>3, <1>4, <1>5, <1>6, <1>7, <1>8, <1>9, <1>10, <1>11, <1>12, <1>13,
       <1>14
    DEF RunNext

\* Nothing is there to be found twice.
LEMMA OnceInitial == RunInit => OnceInv
<1>1. Len(<<>>) = 0
    OBVIOUS
<1> QED
    BY <1>1 DEF RunInit, LoopInit, OnceInv, Distinct, Below, InLoop, Active, InTurn

\* SavedOnce: no message enters a session twice, over any number of runs that
\* end, trip, are aborted and resumed, with input filters, shared checkpoints,
\* debug stops and calls after a handoff, until one is resumed in a session
\* that already holds something.
THEOREM MessagesSavedOnce == RunSpec => []SavedOnce
<1> DEFINE Inv == TypeInv /\ (rejoined \/ OnceInv)
<1>1. RunInit => Inv
    BY RunInitial, OnceInitial
<1>2. Inv /\ [RunNext]_runVars => Inv'
    BY TypeInductive, OnceStep
<1>3. Inv => SavedOnce
    BY DistinctInjective DEF SavedOnce, OnceInv, TypeInv, TalkTypeOK
<1> QED
    BY <1>1, <1>2, <1>3, PTL DEF RunSpec

-----------------------------------------------------------------------------
(* The session as its owner sees it *)

\* A run that goes on has said nothing that is in the session or was said
\* before.
LEMMA StepsAnew ==
    ASSUME ~Filtered, TypeInv, Joined, rejoined \/ OnceInv, RunNext,
           phase' \in InLoop, ~rejoined'
    PROVE  IsInjective(session' \o produced')
<1>1. /\ TypeInv' /\ Joined' /\ OnceInv'
    BY TypeInductive, JoinedInductive, OnceStep
<1>2. messages' = session' \o produced' /\ messages' \in Transcripts
    BY <1>1 DEF TypeInv, TalkTypeOK, Joined
<1>3. Distinct(messages')
    BY <1>1 DEF OnceInv
<1> QED
    BY <1>2, <1>3, DistinctInjective

\* More has been said than before, with what was said before in front.
LEMMA PrefixSaid ==
    ASSUME NEW s \in Transcripts, NEW t \in Transcripts
    PROVE  IsPrefix(s, s \o t)
<1> DEFINE u == s \o t
<1>1. /\ u \in Transcripts /\ Len(u) = Len(s) + Len(t)
      /\ Len(s) \in Nat /\ Len(t) \in Nat
      /\ \A i \in 1 .. Len(s) : u[i] = s[i]
    BY JoinedFacts
<1> HIDE DEF u
<1>2. ASSUME NEW v \in Transcripts, Len(s) <= Len(v)
      PROVE  /\ SubSeq(v, 1, Len(s)) \in Seq(Messages)
             /\ Len(SubSeq(v, 1, Len(s))) = Len(s)
             /\ \A i \in 1 .. Len(s) : SubSeq(v, 1, Len(s))[i] = v[i]
  <2>1. Len(v) \in Nat /\ \A i \in 1 .. Len(s) : v[i] \in Messages
      BY <1>1, <1>2, TranscriptFacts
  <2>2. /\ v \in Seq(Messages) /\ 1 \in Int /\ Len(s) \in Int
      BY <1>1, <1>2 DEF Transcripts
  <2>3. /\ SubSeq(v, 1, Len(s)) \in Seq(Messages)
        /\ Len(SubSeq(v, 1, Len(s))) = IF 1 <= Len(s) THEN Len(s) - 1 + 1 ELSE 0
        /\ \A i \in 1 .. Len(s) - 1 + 1 : SubSeq(v, 1, Len(s))[i] = v[1 + i - 1]
      BY <2>1, <2>2, SubSeqProperties
  <2> QED
      BY <1>1, <2>3
<1>3. SubSeq(s, 1, Len(s)) = SubSeq(u, 1, Len(s))
  <2> DEFINE a == SubSeq(s, 1, Len(s))
             b == SubSeq(u, 1, Len(s))
  <2>1. /\ a \in Seq(Messages) /\ b \in Seq(Messages)
        /\ Len(a) = Len(s) /\ Len(b) = Len(s)
        /\ \A i \in 1 .. Len(a) : a[i] = b[i]
      BY <1>1, <1>2
  <2> HIDE DEF a, b
  <2> QED
      BY <2>1, SeqEqual DEF a, b
<1> QED
    BY <1>1, <1>3 DEF IsPrefix, u

\* SessionLog means by these operators what AgentRun does.
LEMMA SameOperators ==
    /\ \A s : IsInjective(s) <=> Log!IsInjective(s)
    /\ \A s, t : IsPrefix(s, t) <=> Log!IsPrefix(s, t)
BY DEF IsInjective, Log!IsInjective, IsPrefix, Log!IsPrefix

\* What is loaded is all that is said yet.
LEMMA LoadSays ==
    ASSUME NEW m, Load(m)
    PROVE  /\ settled # "open" /\ settled' = "open"
           /\ produced' = m /\ before' = session
BY DEF Load

\* A run that begins, or is refused at once, enters the session.
LEMMA LogEnters ==
    ASSUME ~Filtered, TypeInv, Joined, rejoined \/ OnceInv, RunNext, NEW m, Load(m),
           rejoined' = rejoined \/ rejoined' = (rejoined \/ session # <<>>),
           \/ phase' = "ready" /\ session' = session
           \/ phase' = "closing" /\ session' = session \o m
    PROVE  Log!Begin \/ Log!Refuse
<1>1. /\ settled # "open" /\ settled' = "open" /\ produced' = m /\ before' = session
      /\ rejoined => rejoined'
      /\ rejoined' => rejoined \/ session # <<>>
  <2>1. /\ settled # "open" /\ settled' = "open" /\ produced' = m /\ before' = session
      BY LoadSays
  <2>2. rejoined \in BOOLEAN /\ rejoined' \in BOOLEAN
      BY TypeInductive DEF TypeInv, TalkTypeOK
  <2>3. CASE rejoined' = rejoined
      BY <2>1, <2>2, <2>3
  <2>4. CASE rejoined' = (rejoined \/ session # <<>>)
      BY <2>1, <2>2, <2>4
  <2> QED
      BY <2>1, <2>3, <2>4
<1>2. CASE phase' = "ready" /\ session' = session
  <2>1. rejoined' \/ IsInjective(session \o produced')
      BY <1>2, StepsAnew DEF InLoop, Active, InTurn
  <2>2. Log!Begin
      BY <1>1, <1>2, <2>1, SameOperators
      DEF Log!Begin, Log!Enters, Log!SaysAnew, Kept, Active, InTurn
  <2> QED
      BY <2>2
<1>3. CASE phase' = "closing" /\ session' = session \o m
  <2>1. rejoined' \/ IsInjective(session \o produced')
    <3>1. session' \in Transcripts /\ (rejoined' \/ Distinct(session'))
        BY TypeInductive, OnceStep DEF TypeInv, TalkTypeOK, OnceInv
    <3> QED
        BY <1>1, <1>3, <3>1, DistinctInjective
  <2>2. Log!Refuse
      BY <1>1, <1>3, <2>1, SameOperators DEF Log!Refuse, Log!Enters, Log!SaysAnew, Kept
  <2> QED
      BY <2>2
<1> QED
    BY <1>2, <1>3

\* Every step is one of SessionLog or leaves what it sees alone.
LEMMA LogStep ==
    ASSUME ~Filtered, HasSession, TypeInv, Joined, rejoined \/ OnceInv,
           [RunNext]_runVars
    PROVE  [Log!LogNext]_(Log!logVars)
<1>1. /\ session \in Transcripts /\ produced \in Transcripts /\ messages \in Transcripts
      /\ clock \in Nat /\ CallCounts \subseteq Nat
      /\ PhaseConsistent /\ HookInv /\ Transacted
    BY RunAssumption DEF TypeInv, TalkTypeOK, LoopInv
<1>2. CASE Run \/ RunTrips
  <2>1. /\ Load(<<User(clock)>>) /\ rejoined' = rejoined
        /\ \/ phase' = "ready" /\ session' = session
           \/ phase' = "closing" /\ session' = Append(session, User(clock))
      BY <1>2, HasSession DEF Run, RunTrips, StartAt, TripAt, Begin
  <2>2. User(clock) \in Messages
      BY <1>1, MessageType DEF User
  <2>3. Append(session, User(clock)) = session \o <<User(clock)>>
      BY <1>1, <2>2, AppendIsConcat DEF Transcripts
  <2>4. RunNext
      BY <1>2 DEF RunNext
  <2> QED
      BY <2>1, <2>3, <2>4, LogEnters DEF Log!LogNext
<1>3. CASE Resume \/ ResumeTrips
  <2>1. PICK k : /\ Rejoin(k)
                 /\ \/ phase' = "ready" /\ session' = session
                    \/ phase' = "closing" /\ session' = session \o saved[k].messages
      BY <1>3, HasSession, Resumption DEF StartAt, TripAt
  <2>2. Load(saved[k].messages) /\ rejoined' = (rejoined \/ session # <<>>)
      BY <2>1 DEF Rejoin
  <2>3. RunNext
      BY <1>3 DEF RunNext
  <2> QED
      BY <2>1, <2>2, <2>3, LogEnters DEF Log!LogNext
<1>4. ASSUME NEW new \in Transcripts, Append_(new), RunNext,
             phase \in InLoop, phase' \in InLoop,
             UNCHANGED <<session, lastingVars>>
      PROVE  Log!LogNext
  <2>1. rejoined' \/ IsInjective(session \o produced')
      BY <1>4, StepsAnew
  <2>2. IsPrefix(produced, produced')
      BY <1>1, <1>4, PrefixSaid DEF Append_
  <2>3. settled = "open"
      BY <1>1, <1>4 DEF Transacted, InLoop
  <2>4. Log!Say
      BY <1>4, <2>1, <2>2, <2>3, SameOperators
      DEF Log!Say, Log!SaysAnew, lastingVars, Kept, InLoop, Active, InTurn
  <2> QED
      BY <2>4 DEF Log!LogNext
<1>5. ASSUME NEW kind \in {"final", "tools", "handoff"}, NEW to \in Agents,
             NEW calls \in CallCounts, NEW executed \in 0 .. calls,
             Reply(kind, to, calls, executed)
      PROVE  Log!LogNext
  <2>1. /\ phase \in InLoop /\ phase' \in InLoop
        /\ Append_(<<Message("assistant", clock, calls)>>)
        /\ UNCHANGED <<session, lastingVars>>
      BY <1>5 DEF Reply, LlmReplies, InLoop, Active, InTurn
  <2>2. <<Message("assistant", clock, calls)>> \in Transcripts
    <3>1. calls \in Nat
        BY <1>1
    <3> QED
        BY <1>1, <3>1, MessageType
  <2>3. RunNext
      BY <1>5 DEF RunNext
  <2> QED
      BY <1>4, <2>1, <2>2, <2>3
<1>6. CASE Answer
  <2>1. /\ phase \in InLoop /\ phase' \in InLoop
        /\ UNCHANGED <<session, lastingVars>>
      BY <1>6, AnswerType DEF Answer, InLoop, Active, InTurn
  <2>2. PICK new \in Transcripts : Append_(new)
      BY <1>6, AnswerType
  <2>3. RunNext
      BY <1>6 DEF RunNext
  <2> QED
      BY <1>4, <2>1, <2>2, <2>3
<1>7. CASE Transfer \/ Save \/ SaveNot
  <2>1. /\ phase \in {"handing", "saving"} /\ phase' \in {"saving", "ready"}
        /\ UNCHANGED <<session, produced, lastingVars>>
      BY <1>7 DEF Transfer, HandOver, Save, SaveNot, EndTurn, talkVars
  <2> QED
      BY <2>1 DEF Log!logVars, lastingVars, Kept, Active, InTurn
<1>8. CASE Finish
  <2>1. /\ phase \in InLoop /\ phase' = "closing" /\ SaveSession
        /\ UNCHANGED <<produced, lastingVars>>
      BY <1>8 DEF Finish, RunOutOfTurns, LlmGivesUp, Conclude, OutputTrips,
                  DebugStops, Close, InLoop, Active, InTurn
  <2>2. session' = session \o produced
      BY <2>1, HasSession, Closing DEF Joined
  <2>3. settled = "open"
      BY <1>1, <2>1 DEF Transacted, InLoop
  <2>4. Log!Keep
      BY <2>1, <2>2, <2>3 DEF Log!Keep, lastingVars, Kept, InLoop, Active, InTurn
  <2> QED
      BY <2>4 DEF Log!LogNext
<1>9. CASE Silent
  <2>1. UNCHANGED <<session, produced, lastingVars>>
      BY <1>9 DEF Silent, talkVars
  <2>2. \/ phase \in InLoop /\ phase' \in InLoop
        \/ phase \in Active /\ phase' = "ended" /\ outcome' \in {"cancelled", "broken"}
        \/ /\ phase \in {"closing", "ending"} /\ outcome' = outcome
           /\ phase' \in {"closing", "ending", "ended"}
      BY <1>9 DEF Silent, BeginTurn, SeeToken, LlmRaises, StreamOpens, StreamBreaks,
                  CallTools, CallRunEnd, Return, CancelToken, Abort, InLoop, Active, InTurn
  <2>3. phase \in {"closing", "ending"} => outcome \in Returned \cup {"tripped"}
      BY <1>1 DEF HookInv
  <2>4. CASE phase \in Active /\ phase' = "ended" /\ outcome' \in {"cancelled", "broken"}
    <3>1. settled = "open"
        BY <1>1, <2>4 DEF Transacted
    <3>2. Log!Leave
        BY <2>1, <2>4, <3>1
        DEF Log!Leave, lastingVars, Returned, Kept, Active, InTurn
    <3> QED
        BY <3>2 DEF Log!LogNext
  <2>5. CASE phase \in InLoop /\ phase' \in InLoop
      BY <2>1, <2>5 DEF Log!logVars, lastingVars, Kept, InLoop, Active, InTurn
  <2>6. CASE /\ phase \in {"closing", "ending"} /\ outcome' = outcome
             /\ phase' \in {"closing", "ending", "ended"}
      BY <2>1, <2>3, <2>6 DEF Log!logVars, lastingVars, Kept
  <2> QED
      BY <2>2, <2>4, <2>5, <2>6
<1>10. CASE Commit \/ Rollback
  <2>1. /\ phase = "ended" /\ settled = "open" /\ settled' # "open"
        /\ session' = session \/ session' = before
        /\ UNCHANGED <<before, produced, rejoined>>
      BY <1>10 DEF Commit, Rollback
  <2>2. Log!Settle
      BY <2>1 DEF Log!Settle, Kept, Active, InTurn
  <2> QED
      BY <2>2 DEF Log!LogNext
<1>11. CASE UNCHANGED runVars
    BY <1>11 DEF runVars, loopVars, talkVars, lastingVars, Log!logVars, Kept
<1> QED
    BY <1>2, <1>3, <1>5, <1>6, <1>7, <1>8, <1>9, <1>10, <1>11 DEF RunNext

\* LogSpec: when no handoff filters the transcript, AgentRun implements
\* SessionLog.  A session gains what a run said, whole and at one point, or
\* nothing, and what a run says is new, whatever is aborted, rolled back and
\* resumed, and whether guardrails let it go on or not.
THEOREM RunsKeepLog ==
    ASSUME ~Filtered, HasSession
    PROVE  RunSpec => LogSpec
<1> DEFINE Inv == TypeInv /\ Joined /\ (rejoined \/ OnceInv)
<1>1. RunInit => Inv
    BY RunInitial, OnceInitial
<1>2. Inv /\ [RunNext]_runVars => Inv'
    BY TypeInductive, JoinedInductive, OnceStep, ~Filtered
<1>3. RunInit => Log!LogInit
    BY DEF RunInit, Log!LogInit
<1>4. Inv /\ [RunNext]_runVars => [Log!LogNext]_(Log!logVars)
    BY LogStep, ~Filtered, HasSession
<1> QED
    BY <1>1, <1>2, <1>3, <1>4, PTL DEF RunSpec, LogSpec, Log!Spec

\* What SessionLog promises is enough for SavedOnce: whoever relies on it need
\* not look into the run.
THEOREM LogsHoldOnce == LogSpec => []SavedOnce
<1> DEFINE Open == settled = "open" /\ ~Kept /\ phase \in Active
           Inv == rejoined \/ /\ Log!IsInjective(session) /\ Log!IsInjective(before)
                              /\ Open => Log!IsInjective(session \o produced)
<1>1. Log!LogInit => Inv
    BY DEF Log!LogInit, Log!IsInjective
<1>2. Inv /\ [Log!LogNext]_(Log!logVars) => Inv'
  <2> SUFFICES ASSUME Inv, [Log!LogNext]_(Log!logVars)
               PROVE  Inv'
      OBVIOUS
  <2>1. CASE Log!Begin
      BY <2>1 DEF Log!Begin, Log!Enters, Log!SaysAnew
  <2>2. CASE Log!Refuse
      BY <2>2 DEF Log!Refuse, Log!Enters, Log!SaysAnew
  <2>3. CASE Log!Say
      BY <2>3 DEF Log!Say, Log!SaysAnew
  <2>4. CASE Log!Keep
      BY <2>4 DEF Log!Keep
  <2>5. CASE Log!Leave
      BY <2>5 DEF Log!Leave
  <2>6. CASE Log!Settle
      BY <2>6 DEF Log!Settle
  <2>7. CASE UNCHANGED Log!logVars
      BY <2>7 DEF Log!logVars
  <2> QED
      BY <2>1, <2>2, <2>3, <2>4, <2>5, <2>6, <2>7 DEF Log!LogNext
<1>3. Inv => SavedOnce
    BY SameOperators DEF SavedOnce
<1> QED
    BY <1>1, <1>2, <1>3, PTL DEF LogSpec, Log!Spec
=============================================================================
