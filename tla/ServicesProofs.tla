---------------------------- MODULE ServicesProofs ----------------------------
(*****************************************************************************)
(* What holds of the runs of a session, of the versions of an agent and of   *)
(* the chain of providers, for any number of runs, requests and providers.   *)
(*                                                                           *)
(* SessionInv says what each stage of a run has done to the transaction, the *)
(* registry and the answer; RegistryReleased and SavedAsAnswered follow.     *)
(* CountInv adds how message_count, the count each saving run has read and   *)
(* the committed messages are related.  EvolutionInv says how far the        *)
(* versions and the requests in flight agree, ChainInv that no failure has   *)
(* reached the breaker of a dependable provider.                             *)
(*****************************************************************************)
EXTENDS SessionRuns, Evolution, FallbackChain, FiniteSetTheorems,
        WellFoundedInduction, TLAPS

Saved == {"saved", "told", "auditing"}

SessionInv ==
    /\ SessionTypeOK
    /\ RegistryReleased
    /\ \A r \in abandoned : stage[r] = "over"
    /\ \A r \in dirty : stage[r] \in Saved \cup {"closing"} /\ r \notin rows
    /\ \A r, s \in dirty : r = s
    /\ \A r \in rows : stage[r] \in {"closing", "over"}
    /\ logs \subseteq rows
    /\ \A r \in Runs :
          /\ stage[r] \in Saved /\ result[r] = "ok" => r \in dirty
          /\ stage[r] = "read" => r \notin dirty
          /\ stage[r] \in Saved \cup {"read"} => result[r] # "none"
          /\ stage[r] \in {"started", "told"} => r \in Streamed
    /\ \A r \in Runs \ Streamed :
          /\ stage[r] \in Posting => result[r] = "ok"
          /\ stage[r] = "closing" => r \in dirty \cup rows \cup spoiled
          /\ stage[r] # "over" => answer[r] = "none"
    /\ SavedAsAnswered

\* No request has been made.
LEMMA SessionInitial == SessionInit => SessionInv
<1> SUFFICES ASSUME SessionInit
             PROVE  SessionInv
    OBVIOUS
<1> USE DEF SessionInit, Registered, Posting, Saved
<1>1. SessionTypeOK
    <2>1. base \in [Runs -> Nat] /\ count \in Nat
        OBVIOUS
    <2>2. stage \in [Runs -> Registered \cup Posting \cup {"idle", "over"}]
        OBVIOUS
    <2> QED
        BY <2>1, <2>2 DEF SessionTypeOK
<1>2. RegistryReleased
    BY DEF RegistryReleased
<1>3. SavedAsAnswered
    BY DEF SavedAsAnswered
<1> QED
    BY <1>1, <1>2, <1>3 DEF SessionInv

\* What a client is told of each result: completed of the good one only.
LEMMA OutcomeSays ==
    ASSUME NEW h \in {"ok", "tripped", "cancelled", "failed"}
    PROVE  /\ Outcome[h] \in {"completed", "blocked", "cancelled", "error"}
           /\ Outcome[h] = "completed" <=> h = "ok"
<1>1. CASE h = "ok"
    BY <1>1 DEF Outcome
<1>2. CASE h = "tripped"
    BY <1>2 DEF Outcome
<1>3. CASE h = "cancelled"
    BY <1>3 DEF Outcome
<1>4. CASE h = "failed"
    BY <1>4 DEF Outcome
<1> QED
    BY <1>1, <1>2, <1>3, <1>4

\* The step of one run or its client, by the action that takes it.
LEMMA RunInductive ==
    ASSUME SessionInv, NEW r \in Runs,
           Request(r) \/ RequestStep(r) \/ ClientStep(r) \/ CancelRun(r)
    PROVE  SessionInv'
<1> USE RunsAssumption DEF SessionInv, SessionTypeOK, RegistryReleased, SavedAsAnswered,
        Registered, Posting, Saved, databaseVars, historyVars, To
<1>1. CASE Request(r)
    BY <1>1 DEF Request
<1>2. CASE StartTaken(r)
    BY <1>2 DEF StartTaken
<1>3. CASE RunnerRaises(r)
    BY <1>3 DEF RunnerRaises
<1>4. CASE ReadCount(r)
    BY <1>4 DEF ReadCount
<1>5. CASE WriteCount(r)
    BY <1>5 DEF WriteCount
<1>6. CASE CountCollides(r)
    BY <1>6 DEF CountCollides
<1>7. CASE RunReturns(r)
    BY <1>7 DEF RunReturns, Unregister
<1>8. CASE RunAnswersEarly(r)
    <2>1. result[r] \in {"ok", "tripped", "cancelled", "failed"}
        BY <1>8 DEF RunAnswersEarly
    <2> DEFINE said == Outcome[result[r]]
    <2>2. /\ said \in {"completed", "blocked", "cancelled", "error"}
          /\ said # "completed"
        BY <1>8, <2>1, OutcomeSays DEF RunAnswersEarly
    <2>3. answer' = [answer EXCEPT ![r] = said]
        BY <1>8 DEF RunAnswersEarly, Answer
    <2> HIDE DEF said
    <2> QED
        BY <1>8, <2>2, <2>3 DEF RunAnswersEarly, Over, Unregister, Rollback, Forget
<1>9. CASE Tell(r)
    <2>1. result[r] \in {"ok", "tripped", "cancelled", "failed"}
        BY <1>9 DEF Tell
    <2> DEFINE said == Outcome[result[r]]
    <2>2. said \in {"completed", "blocked", "cancelled", "error"}
        BY <2>1, OutcomeSays
    <2>3. answer' = [answer EXCEPT ![r] = said]
        BY <1>9 DEF Tell, Answer
    <2> HIDE DEF said
    <2> QED
        BY <1>9, <2>2, <2>3 DEF Tell
<1>10. CASE EndTaken(r)
    BY <1>10 DEF EndTaken, Unregister
<1>11. CASE Audit(r)
    BY <1>11 DEF Audit, Commit, Forget
<1>12. CASE AuditFails(r)
    BY <1>12 DEF AuditFails, Rollback, Forget
<1>13. CASE AuditNothing(r)
    BY <1>13 DEF AuditNothing
<1>14. CASE Finish(r)
    BY <1>14 DEF Finish, Over, Commit, Forget, AnswerLast, Answer
<1>15. CASE FinishSpoiled(r)
    BY <1>15 DEF FinishSpoiled, Over, Rollback, Forget, AnswerLast, Answer
<1>16. CASE FinishFails(r)
    BY <1>16 DEF FinishFails, Over, Rollback, Forget, AnswerLast, Answer
<1>17. CASE ClientLeaves(r)
    BY <1>17 DEF ClientLeaves, Over, Rollback, Forget, Unregister
<1>18. CASE CancelRun(r)
    BY <1>18 DEF CancelRun
<1> QED
    BY <1>1, <1>2, <1>3, <1>4, <1>5, <1>6, <1>7, <1>8, <1>9, <1>10, <1>11, <1>12,
       <1>13, <1>14, <1>15, <1>16, <1>17, <1>18 DEF RequestStep, ClientStep

\* One step of the service.
LEMMA SessionInductive == SessionInv /\ [SessionNext]_sessionVars => SessionInv'
<1> SUFFICES ASSUME SessionInv, [SessionNext]_sessionVars
             PROVE  SessionInv'
    OBVIOUS
<1>1. ASSUME NEW r \in Runs,
             Request(r) \/ RequestStep(r) \/ ClientStep(r) \/ CancelRun(r)
      PROVE  SessionInv'
    BY <1>1, RunInductive
<1>2. CASE Crash
    BY <1>2 DEF Crash, SessionInv, SessionTypeOK, RegistryReleased, SavedAsAnswered,
        Registered, Posting, Saved
<1>3. CASE UNCHANGED sessionVars
    BY <1>3 DEF sessionVars, SessionInv, SessionTypeOK, RegistryReleased,
        SavedAsAnswered, Registered, Posting, Saved
<1> QED
    BY <1>1, <1>2, <1>3 DEF SessionNext

\* A token is registered exactly while its run can be cancelled, but for the
\* streams whose client left at run_start.
THEOREM RegistryIsReleased == SessionSpec => []RegistryReleased
<1>1. SessionInv => RegistryReleased
    BY DEF SessionInv
<1> QED
    BY <1>1, SessionInitial, SessionInductive, PTL DEF SessionSpec

\* Token usage is committed only with the messages, and the answer of a run
\* that is not streamed agrees with what is committed.
THEOREM RunsAreSavedAsAnswered == SessionSpec => []SavedAsAnswered
<1>1. SessionInv => SavedAsAnswered
    BY DEF SessionInv
<1> QED
    BY <1>1, SessionInitial, SessionInductive, PTL DEF SessionSpec

-----------------------------------------------------------------------------
(* The count of a session's messages.                                        *)

CountInv ==
    /\ CountUnder
    /\ \A r \in Runs : Saves(r) =>
          /\ base[r] <= Cardinality(rows)
          /\ ~overlapped => base[r] = count
    /\ ~overlapped => \A r, s \in Runs : Saves(r) /\ Saves(s) => r = s

\* Of a set of runs, the number; and that of one run more.
LEMMA RunsCounted ==
    ASSUME NEW S \in SUBSET Runs
    PROVE  /\ Cardinality(S) \in Nat
           /\ Cardinality(S) = 0 <=> S = {}
           /\ \A r \in Runs \ S : Cardinality(S \cup {r}) = Cardinality(S) + 1
<1>1. IsFiniteSet(S)
    BY FS_Subset, RunsAssumption
<1> QED
    BY <1>1, FS_CardinalityType, FS_EmptySet, FS_AddElement

\* There is neither a message nor a run.
LEMMA CountInitial == SessionInit => CountInv
<1> SUFFICES ASSUME SessionInit
             PROVE  CountInv
    OBVIOUS
<1>1. Cardinality(rows) = 0 /\ rows = {} /\ count = 0
    BY FS_EmptySet DEF SessionInit
<1>2. \A r \in Runs : ~Saves(r)
    BY DEF SessionInit, Saves
<1> QED
    BY <1>1, <1>2 DEF CountInv, CountUnder

\* A step that commits nothing and lets no run begin to save.
LEMMA QuietCounts ==
    ASSUME SessionInv, CountInv,
           UNCHANGED <<rows, count, overlapped>>,
           \A r \in Runs : Saves(r)' => Saves(r) /\ base'[r] = base[r]
    PROVE  CountInv'
<1>1. CountUnder'
    BY DEF CountInv, CountUnder
<1>2. Cardinality(rows)' = Cardinality(rows)
    OBVIOUS
<1>3. \A r \in Runs : Saves(r)' =>
          /\ base'[r] <= Cardinality(rows)'
          /\ ~overlapped' => base'[r] = count'
    BY <1>2 DEF CountInv
<1>4. ~overlapped' => \A r, s \in Runs : Saves(r)' /\ Saves(s)' => r = s
    BY DEF CountInv
<1> QED
    BY <1>1, <1>3, <1>4 DEF CountInv

\* A commit of a saved run writes one more message and the count it read, one
\* up.
LEMMA CommitCounts ==
    ASSUME SessionInv, CountInv, NEW r \in Runs, Commit(r),
           UNCHANGED overlapped,
           \A s \in Runs : stage'[s] = "read" => stage[s] = "read" /\ s # r
    PROVE  CountInv'
<1>1. CASE r \notin dirty
    <2>1. \A s \in Runs : Saves(s)' => Saves(s) /\ base'[s] = base[s]
        BY <1>1 DEF Commit, Forget, Saves, SessionInv, SessionTypeOK
    <2> QED
        BY <1>1, <2>1, QuietCounts DEF Commit
<1>2. CASE r \in dirty
    <2> DEFINE n == Cardinality(rows)
    <2>1. n \in Nat /\ count \in Nat /\ base[r] \in Nat /\ r \notin rows
        BY <1>2, RunsCounted DEF SessionInv, SessionTypeOK
    <2>2. rows' = rows \cup {r} /\ count' = base[r] + 1 /\ dirty' = {}
        BY <1>2 DEF Commit, SessionInv, SessionTypeOK
    <2>3. Cardinality(rows)' = n + 1
        BY <2>1, <2>2, RunsCounted DEF SessionInv, SessionTypeOK
    <2>4. base[r] <= n /\ (~overlapped => base[r] = count /\ count = n)
        BY <1>2 DEF CountInv, CountUnder, Saves
    <2>5. CountUnder'
        <3>1. count' <= Cardinality(rows)' /\ count' # 0 /\ rows' # {}
            BY <2>1, <2>2, <2>3, <2>4
        <3>2. ~overlapped' => count' = Cardinality(rows)'
            BY <2>1, <2>2, <2>3, <2>4
        <3> QED
            BY <3>1, <3>2 DEF CountUnder
    <2>6. \A s \in Runs : Saves(s)' => Saves(s) /\ s # r /\ base'[s] = base[s]
        BY <2>2 DEF Commit, Forget, Saves, SessionInv, SessionTypeOK
    <2>7. Saves(r)
        BY <1>2 DEF Saves
    <2>8. ~overlapped' => \A s \in Runs : ~Saves(s)'
        BY <2>6, <2>7 DEF CountInv
    <2>9. \A s \in Runs : Saves(s)' => base'[s] <= Cardinality(rows)'
        <3> SUFFICES ASSUME NEW s \in Runs, Saves(s)'
                     PROVE  base'[s] <= Cardinality(rows)'
            OBVIOUS
        <3>1. base[s] \in Nat /\ base[s] <= n /\ base'[s] = base[s]
            BY <2>6 DEF CountInv, SessionInv, SessionTypeOK
        <3> HIDE DEF n
        <3> QED
            BY <2>1, <2>3, <3>1
    <2> QED
        BY <2>5, <2>8, <2>9 DEF CountInv
<1> QED
    BY <1>1, <1>2

\* A run that begins to save reads the committed count; it overlaps any other
\* that is saving.
LEMMA ReadCounts ==
    ASSUME SessionInv, CountInv, NEW r \in Runs, ReadCount(r)
    PROVE  CountInv'
<1> DEFINE n == Cardinality(rows)
<1>1. n \in Nat /\ count \in Nat /\ count <= n
    BY RunsCounted DEF CountInv, CountUnder, SessionInv, SessionTypeOK
<1>2. UNCHANGED <<rows, count, dirty>> /\ base' = [base EXCEPT ![r] = count]
    BY DEF ReadCount, databaseVars
<1>3. \A s \in Runs \ {r} : Saves(s)' => Saves(s) /\ base'[s] = base[s]
    BY <1>2 DEF ReadCount, To, Saves, SessionInv, SessionTypeOK
<1>4. base'[r] = count
    BY <1>2 DEF SessionInv, SessionTypeOK
<1>5. ~overlapped' => ~overlapped /\ \A s \in Runs \ {r} : ~Saves(s)
    BY DEF ReadCount
<1>6. CountUnder'
    BY <1>2, <1>5 DEF CountInv, CountUnder
<1>7. Cardinality(rows)' = n
    BY <1>2
<1>8. \A s \in Runs : Saves(s)' =>
          /\ base'[s] <= Cardinality(rows)'
          /\ ~overlapped' => base'[s] = count'
    BY <1>1, <1>2, <1>3, <1>4, <1>5, <1>7 DEF CountInv
<1>9. ~overlapped' => \A s, t \in Runs : Saves(s)' /\ Saves(t)' => s = t
    BY <1>3, <1>5
<1> QED
    BY <1>6, <1>8, <1>9 DEF CountInv

\* One step of the service, by what it does to the database.
LEMMA CountInductive ==
    SessionInv /\ CountInv /\ [SessionNext]_sessionVars => CountInv'
<1> SUFFICES ASSUME SessionInv, CountInv, [SessionNext]_sessionVars
             PROVE  CountInv'
    OBVIOUS
<1> USE DEF databaseVars, historyVars
<1>1. ASSUME NEW r \in Runs, Audit(r) \/ Finish(r)
      PROVE  CountInv'
    <2>1. \A s \in Runs : stage'[s] = "read" => stage[s] = "read" /\ s # r
        BY <1>1 DEF Audit, Finish, Over, To, SessionInv, SessionTypeOK
    <2>2. Commit(r) /\ UNCHANGED overlapped
        BY <1>1 DEF Audit, Finish
    <2> QED
        BY <2>1, <2>2, CommitCounts
<1>2. ASSUME NEW r \in Runs,
             \/ AuditFails(r) \/ RunAnswersEarly(r) \/ FinishSpoiled(r)
             \/ FinishFails(r) \/ ClientLeaves(r)
      PROVE  CountInv'
    <2>1. Rollback(r) /\ UNCHANGED overlapped
        BY <1>2 DEF AuditFails, RunAnswersEarly, FinishSpoiled, FinishFails,
            ClientLeaves
    <2>2. \A s \in Runs : stage'[s] = "read" => stage[s] = "read" /\ s # r
        BY <1>2 DEF AuditFails, RunAnswersEarly, FinishSpoiled, FinishFails,
            ClientLeaves, Over, To, SessionInv, SessionTypeOK
    <2>3. \A s \in Runs : Saves(s)' => Saves(s) /\ base'[s] = base[s]
        BY <2>1, <2>2 DEF Rollback, Forget, Saves, SessionInv, SessionTypeOK
    <2> QED
        BY <2>1, <2>3, QuietCounts DEF Rollback
<1>3. ASSUME NEW r \in Runs, ReadCount(r)
      PROVE  CountInv'
    BY <1>3, ReadCounts
<1>4. ASSUME NEW r \in Runs, WriteCount(r)
      PROVE  CountInv'
    <2>1. \A s \in Runs : Saves(s)' => Saves(s) /\ base'[s] = base[s]
        BY <1>4 DEF WriteCount, To, Saves, SessionInv, SessionTypeOK
    <2> QED
        BY <1>4, <2>1, QuietCounts DEF WriteCount
<1>5. ASSUME NEW r \in Runs,
             \/ Request(r) \/ StartTaken(r) \/ EndTaken(r) \/ CancelRun(r)
             \/ RunnerRaises(r) \/ CountCollides(r) \/ RunReturns(r) \/ Tell(r)
             \/ AuditNothing(r)
      PROVE  CountInv'
    <2>1. UNCHANGED <<rows, count, overlapped, dirty, base>>
        BY <1>5 DEF Request, StartTaken, EndTaken, CancelRun, RunnerRaises,
            CountCollides, RunReturns, Tell, AuditNothing
    <2>2. \A s \in Runs : stage'[s] = "read" => stage[s] = "read"
        BY <1>5 DEF Request, StartTaken, EndTaken, CancelRun, RunnerRaises,
            CountCollides, RunReturns, Tell, AuditNothing, To, SessionInv,
            SessionTypeOK
    <2>3. \A s \in Runs : Saves(s)' => Saves(s) /\ base'[s] = base[s]
        BY <2>1, <2>2 DEF Saves
    <2> QED
        BY <2>1, <2>3, QuietCounts
<1>6. CASE Crash
    <2>1. \A s \in Runs : ~Saves(s)'
        BY <1>6 DEF Crash, Saves
    <2> QED
        BY <1>6, <2>1, QuietCounts DEF Crash
<1>7. CASE UNCHANGED sessionVars
    <2>1. \A s \in Runs : Saves(s)' => Saves(s) /\ base'[s] = base[s]
        BY <1>7 DEF sessionVars, Saves
    <2> QED
        BY <1>7, <2>1, QuietCounts DEF sessionVars
<1> QED
    BY <1>1, <1>2, <1>3, <1>4, <1>5, <1>6, <1>7
       DEF SessionNext, RequestStep, ClientStep

\* message_count is never more than the messages there are, and exact unless
\* two runs of the session were saving at once.
THEOREM CountsNeverExceed == SessionSpec => []CountUnder
<1>1. CountInv => CountUnder
    BY DEF CountInv
<1> QED
    BY <1>1, SessionInitial, SessionInductive, CountInitial, CountInductive, PTL
       DEF SessionSpec

-----------------------------------------------------------------------------
\* The versions of an agent.  They are numbered without a gap, and a request
\* has read the number of a version there is: if the number after it is free,
\* it is the next one.  No version is
\* ever deleted.

VersionsInv ==
    /\ versions \in Seq({versions[i] : i \in DOMAIN versions})
    /\ Len(versions) > 0
    /\ \A i \in 1 .. Len(versions) :
          /\ versions[i].number = i
          /\ versions[i].created \in Nat
          /\ \A j \in 1 .. Len(versions) : i < j => versions[i].created < versions[j].created

Numbered(t) ==
    t.op \in Numbering =>
        /\ t = [op |-> t.op, at |-> t.at, of |-> t.of, write |-> t.write,
                seen |-> t.seen, top |-> t.top]
        /\ t.top \in Nat /\ t.top <= Len(versions)

Unnumbered(t) ==
    /\ t.op = "rollback" =>
          /\ t.at # "version"
          /\ t = [op |-> t.op, at |-> t.at, of |-> t.of, applied |-> t.applied, seen |-> t.seen]
    /\ t.op = "patch" => t.at = "commit"

TaskInv(t) ==
    /\ Numbered(t)
    /\ Unnumbered(t)
    /\ t = Idle \/ t.op \in Numbering \cup {"patch", "rollback"}

EvolutionInv ==
    /\ VersionsInv
    /\ task = [h \in Handlers |-> task[h]]
    /\ \A h \in Handlers : TaskInv(task[h])

\* What Append does to a sequence whose elements have no type.
LEMMA AppendRow ==
    ASSUME NEW s, s \in Seq({s[i] : i \in DOMAIN s}), NEW e
    PROVE  /\ Append(s, e) \in Seq({Append(s, e)[i] : i \in DOMAIN Append(s, e)})
           /\ Len(Append(s, e)) = Len(s) + 1
           /\ \A i \in 1 .. Len(s) : Append(s, e)[i] = s[i]
           /\ Append(s, e)[Len(s) + 1] = e
<1> DEFINE S == {s[i] : i \in DOMAIN s}
           T == S \cup {e}
           a == Append(s, e)
<1>1. s \in Seq(T)
    OBVIOUS
<1>2. /\ a \in Seq(T)
      /\ Len(a) = Len(s) + 1
      /\ \A i \in 1 .. Len(s) : a[i] = s[i]
      /\ a[Len(s) + 1] = e
    BY <1>1
<1>3. a \in Seq({a[i] : i \in DOMAIN a})
    BY <1>2
<1> QED
    BY <1>2, <1>3

\* A number that is free and follows that of a version is the next.
LEMMA AddedVersion ==
    ASSUME VersionsInv,
           NEW top \in Nat, top <= Len(versions),
           NEW created \in Nat, created >= Now,
           NEW by, NEW snapshot,
           AddVersion(top + 1, created, by, snapshot)
    PROVE  /\ VersionsInv'
           /\ Len(versions') = Len(versions) + 1
<1> DEFINE n == Len(versions)
           e == [number |-> top + 1, created |-> created, by |-> by, snapshot |-> snapshot]
<1>1. n \in Nat \ {0} /\ DOMAIN versions = 1 .. n
    BY DEF VersionsInv
<1>2. top = n
  <2>1. top + 1 \notin 1 .. n
      BY <1>1 DEF AddVersion, Taken, VersionsInv
  <2>2. \A m, t \in Nat : t <= m /\ t + 1 \notin 1 .. m => t = m
      OBVIOUS
  <2> QED
      BY <1>1, <2>1, <2>2 DEF VersionsInv
<1>3. versions' = Append(versions, e)
    BY DEF AddVersion
<1>4. /\ versions' \in Seq({versions'[i] : i \in DOMAIN versions'})
      /\ Len(versions') = n + 1
      /\ \A i \in 1 .. n : versions'[i] = versions[i]
      /\ versions'[n + 1] = e
  <2> HIDE DEF e
  <2>1. versions \in Seq({versions[i] : i \in DOMAIN versions})
      BY DEF VersionsInv
  <2>2. /\ Append(versions, e) \in Seq({Append(versions, e)[i] : i \in DOMAIN Append(versions, e)})
        /\ Len(Append(versions, e)) = n + 1
        /\ \A i \in 1 .. n : Append(versions, e)[i] = versions[i]
        /\ Append(versions, e)[n + 1] = e
      BY <2>1, AppendRow, Zenon
  <2> QED
      BY <1>3, <2>2
<1>5. \A i \in 1 .. n : versions[i].created < created
  <2>1. n \in 1 .. n /\ versions[n].created \in Nat /\ versions[n].created < created
      BY <1>1 DEF Now, VersionsInv
  <2>2. ASSUME NEW i \in 1 .. n, i # n
        PROVE  versions[i].created \in Nat /\ versions[i].created < versions[n].created
      BY <1>1, <2>1, <2>2 DEF VersionsInv
  <2>3. \A a, b, c \in Nat : a < b /\ b < c => a < c
      OBVIOUS
  <2> QED
      BY <2>1, <2>2, <2>3
<1>6. \A i \in 1 .. n + 1 :
         /\ versions'[i].number = i
         /\ versions'[i].created \in Nat
         /\ \A j \in 1 .. n + 1 : i < j => versions'[i].created < versions'[j].created
  <2> TAKE i \in 1 .. n + 1
  <2>1. CASE i = n + 1
      BY <1>1, <1>2, <1>4, <2>1
  <2>2. CASE i \in 1 .. n
    <3>1. versions'[i] = versions[i]
        BY <1>4, <2>2
    <3>2. versions[i].number = i /\ versions[i].created \in Nat
        BY <2>2 DEF VersionsInv
    <3>3. ASSUME NEW j \in 1 .. n + 1, i < j
          PROVE  versions'[i].created < versions'[j].created
      <4>1. CASE j = n + 1
          BY <1>4, <1>5, <2>2, <3>1, <4>1
      <4>2. CASE j \in 1 .. n
        <5>1. versions'[j] = versions[j]
            BY <1>4, <4>2
        <5> QED
            BY <2>2, <3>1, <3>3, <4>2, <5>1 DEF VersionsInv
      <4> QED
          BY <1>1, <4>1, <4>2
    <3> QED
        BY <3>1, <3>2, <3>3
  <2> QED
      BY <1>1, <2>1, <2>2
<1>7. VersionsInv'
    BY <1>1, <1>4, <1>6 DEF VersionsInv
<1> QED
    BY <1>4, <1>7

\* What is known of a task stays true while versions are added.
LEMMA TaskStays ==
    ASSUME VersionsInv, VersionsInv', Len(versions) <= Len(versions'),
           NEW t, TaskInv(t)
    PROVE  TaskInv(t)'
<1>1. Numbered(t)'
    BY DEF TaskInv, Numbered, VersionsInv
<1> QED
    BY <1>1 DEF TaskInv, Unnumbered

LEMMA IdleTask == TaskInv(Idle)
    BY DEF TaskInv, Numbered, Unnumbered, Idle, Numbering

\* A step of handler h that leaves it with t.
LEMMA HandlerMoves ==
    ASSUME EvolutionInv, VersionsInv', Len(versions) <= Len(versions'),
           NEW h \in Handlers, NEW t, TaskInv(t),
           task' = [task EXCEPT ![h] = t]
    PROVE  /\ task' = [k \in Handlers |-> task'[k]]
           /\ \A k \in Handlers : TaskInv(task[k])'
<1>1. task' = [k \in Handlers |-> IF k = h THEN t ELSE task[k]]
    BY DEF EvolutionInv
<1>2. \A u : TaskInv(u) => TaskInv(u)'
    BY TaskStays DEF EvolutionInv
<1>3. ASSUME NEW k \in Handlers
      PROVE  TaskInv(task[k])'
  <2>1. TaskInv(task'[k])
      BY <1>1 DEF EvolutionInv
  <2> QED
      BY <1>2, <2>1 DEF TaskInv, Numbered, Unnumbered
<1> QED
    BY <1>1, <1>3

\* A step of a handler that adds no version.
LEMMA TaskStep ==
    ASSUME EvolutionInv, NEW h \in Handlers, NEW t, TaskInv(t),
           task' = [task EXCEPT ![h] = t],
           UNCHANGED versions
    PROVE  EvolutionInv'
<1>1. VersionsInv' /\ Len(versions) <= Len(versions')
    BY DEF EvolutionInv, VersionsInv
<1>2. /\ task' = [k \in Handlers |-> task'[k]]
      /\ \A k \in Handlers : TaskInv(task[k])'
    BY <1>1, HandlerMoves
<1> QED
    BY <1>1, <1>2 DEF EvolutionInv

\* The agent has its first version, and nothing is proposed.
LEMMA EvolutionInitial == EvolutionInit => EvolutionInv
<1> SUFFICES ASSUME EvolutionInit
             PROVE  EvolutionInv
    OBVIOUS
<1>1. VersionsInv
    BY DEF EvolutionInit, VersionsInv
<1> QED
    BY <1>1, IdleTask DEF EvolutionInit, EvolutionInv

\* A request that ends with a version.
LEMMA VersionStep ==
    ASSUME EvolutionInv, NEW h \in Handlers, task[h].op \in Numbering,
           task' = [task EXCEPT ![h] = Idle],
           NEW created \in {Now, Now + 1}, NEW by, NEW snapshot,
           AddVersion(task[h].top + 1, created, by, snapshot)
    PROVE  EvolutionInv'
<1>1. VersionsInv /\ Now \in Nat
    BY DEF EvolutionInv, VersionsInv, Now
<1>2. task[h].top \in Nat /\ task[h].top <= Len(versions)
    BY DEF EvolutionInv, TaskInv, Numbered
<1>3. created \in Nat /\ created >= Now
    BY <1>1
<1>4. VersionsInv' /\ Len(versions') = Len(versions) + 1
    BY <1>1, <1>2, <1>3, AddedVersion
<1>5. Len(versions) <= Len(versions')
    BY <1>4 DEF EvolutionInv, VersionsInv
<1>6. /\ task' = [k \in Handlers |-> task'[k]]
      /\ \A k \in Handlers : TaskInv(task[k])'
    BY <1>4, <1>5, IdleTask, HandlerMoves
<1> QED
    BY <1>4, <1>6 DEF EvolutionInv

LEMMA EvolutionStep == EvolutionInv /\ [EvolutionNext]_evolutionVars => EvolutionInv'
<1> SUFFICES ASSUME EvolutionInv, [EvolutionNext]_evolutionVars
             PROVE  EvolutionInv'
    OBVIOUS
<1>1. ASSUME NEW p \in Proposals, CreateProposal(p) \/ DeleteProposal(p)
      PROVE  EvolutionInv'
  <2>1. UNCHANGED <<versions, task>>
      BY <1>1 DEF CreateProposal, DeleteProposal
  <2> QED
      BY <2>1 DEF EvolutionInv, VersionsInv, TaskInv, Numbered, Unnumbered
<1>2. ASSUME NEW h \in Handlers, NEW p \in Proposals, BeginPatch(h, p)
      PROVE  EvolutionInv'
  <2>1. PICK s \in Targets(proposal[p]) \ {"applied"} :
           Begins(h, [op |-> "patch", at |-> "commit", of |-> {p}, to |-> s])
      BY <1>2 DEF BeginPatch
  <2>2. TaskInv([op |-> "patch", at |-> "commit", of |-> {p}, to |-> s])
      BY DEF TaskInv, Numbered, Unnumbered, Numbering
  <2> QED
      BY <2>1, <2>2, TaskStep DEF Begins
<1>3. ASSUME NEW h \in Handlers, NEW p \in Proposals, BeginApply(h, p)
      PROVE  EvolutionInv'
  <2> DEFINE t == [op |-> "apply", at |-> "agent", of |-> {p}, write |-> Proposed(p),
                   seen |-> Created, top |-> 0]
  <2>1. TaskInv(t)
      BY DEF EvolutionInv, VersionsInv, TaskInv, Numbered, Unnumbered, Numbering
  <2> QED
      BY <1>3, <2>1, TaskStep DEF BeginApply, Begins
<1>4. ASSUME NEW h \in Handlers, NEW S \in SUBSET Proposals, BeginRollback(h, S)
      PROVE  EvolutionInv'
  <2> DEFINE t == [op |-> "rollback", at |-> "agent", of |-> S,
                   applied |-> [p \in S |-> appliedAt[p]], seen |-> Created]
  <2>1. TaskInv(t)
      BY DEF TaskInv, Numbered, Unnumbered, Numbering
  <2> QED
      BY <1>4, <2>1, TaskStep DEF BeginRollback, Begins
<1>5. ASSUME NEW h \in Handlers, BeginUpdate(h) \/ BeginRestore(h)
      PROVE  EvolutionInv'
  <2> DEFINE t(op, write) == [op |-> op, at |-> "version", of |-> {}, write |-> write,
                              seen |-> config, top |-> 0]
  <2>1. \A op \in {"update", "restore"} : \A write : TaskInv(t(op, write))
      BY DEF EvolutionInv, VersionsInv, TaskInv, Numbered, Unnumbered, Numbering
  <2>2. \/ \E write : Begins(h, t("update", write))
        \/ \E write : Begins(h, t("restore", write))
      BY <1>5 DEF BeginUpdate, BeginRestore
  <2> HIDE DEF t
  <2>3. ASSUME NEW op \in {"update", "restore"}, NEW write, Begins(h, t(op, write))
        PROVE  EvolutionInv'
      BY <2>1, <2>3, TaskStep DEF Begins
  <2> QED
      BY <2>2, <2>3
<1>6. ASSUME NEW h \in Handlers, ReadAgent(h)
      PROVE  EvolutionInv'
  <2> DEFINE r == [task[h] EXCEPT !.seen = config]
             t == [r EXCEPT !.at = IF task[h].op = "rollback" THEN "commit" ELSE "version"]
  <2>1. TaskInv(task[h]) /\ task[h] # Idle /\ task[h].at = "agent"
      BY <1>6 DEF ReadAgent, EvolutionInv
  <2>2. TaskInv(t)
    <3>1. CASE task[h].op \in Numbering
      <4>1. t = [op |-> task[h].op, at |-> "version", of |-> task[h].of,
                 write |-> task[h].write, seen |-> config, top |-> task[h].top]
        <5>1. PICK op, stop, of, write, seen, top :
                 task[h] = [op |-> op, at |-> stop, of |-> of, write |-> write,
                            seen |-> seen, top |-> top]
            BY <2>1, <3>1, Zenon DEF TaskInv, Numbered
        <5>2. r = [op |-> op, at |-> stop, of |-> of, write |-> write, seen |-> config, top |-> top]
            BY <5>1
        <5> HIDE DEF r
        <5> QED
            BY <3>1, <5>1, <5>2 DEF Numbering
      <4> HIDE DEF t
      <4>2. /\ t.op = task[h].op /\ t.at = "version" /\ t.of = task[h].of
            /\ t.write = task[h].write /\ t.seen = config /\ t.top = task[h].top
          BY <4>1
      <4> QED
          BY <2>1, <3>1, <4>1, <4>2 DEF TaskInv, Numbered, Unnumbered, Numbering, Idle
    <3>2. CASE task[h].op = "rollback"
      <4>1. t = [op |-> task[h].op, at |-> "commit", of |-> task[h].of,
                 applied |-> task[h].applied, seen |-> config]
        <5>1. PICK op, stop, of, applied, seen :
                 task[h] = [op |-> op, at |-> stop, of |-> of, applied |-> applied, seen |-> seen]
            BY <2>1, <3>2, Zenon DEF TaskInv, Unnumbered
        <5>2. r = [op |-> op, at |-> stop, of |-> of, applied |-> applied, seen |-> config]
            BY <5>1
        <5> HIDE DEF r
        <5> QED
            BY <3>2, <5>1, <5>2
      <4> HIDE DEF t
      <4>2. /\ t.op = task[h].op /\ t.at = "commit" /\ t.of = task[h].of
            /\ t.applied = task[h].applied /\ t.seen = config
          BY <4>1
      <4> QED
          BY <2>1, <3>2, <4>1, <4>2 DEF TaskInv, Numbered, Unnumbered, Numbering, Idle
    <3> QED
        BY <2>1, <3>1, <3>2 DEF TaskInv, Unnumbered
  <2>3. task' = [task EXCEPT ![h] = t]
      BY <1>6 DEF ReadAgent
  <2> QED
      BY <1>6, <2>2, <2>3, TaskStep DEF ReadAgent
<1>7. ASSUME NEW h \in Handlers, ReadVersion(h)
      PROVE  EvolutionInv'
  <2>1. PICK i \in DOMAIN versions :
           task' = [task EXCEPT ![h].top = versions[i].number, ![h].at = "commit"]
      BY <1>7 DEF ReadVersion
  <2> DEFINE r == [task[h] EXCEPT !.top = versions[i].number]
             t == [r EXCEPT !.at = "commit"]
  <2>2. TaskInv(task[h]) /\ task[h] # Idle /\ task[h].at = "version"
      BY <1>7 DEF ReadVersion, EvolutionInv
  <2>3. versions[i].number \in Nat /\ versions[i].number <= Len(versions)
      BY DEF EvolutionInv, VersionsInv
  <2>4. TaskInv(t)
    <3>1. CASE task[h].op \in Numbering
      <4>1. t = [op |-> task[h].op, at |-> "commit", of |-> task[h].of, write |-> task[h].write,
                 seen |-> task[h].seen, top |-> versions[i].number]
        <5>1. PICK op, stop, of, write, seen, top :
                 task[h] = [op |-> op, at |-> stop, of |-> of, write |-> write,
                            seen |-> seen, top |-> top]
            BY <2>2, <3>1, Zenon DEF TaskInv, Numbered
        <5>2. r = [op |-> op, at |-> stop, of |-> of, write |-> write, seen |-> seen,
                   top |-> versions[i].number]
            BY <5>1
        <5> HIDE DEF r
        <5> QED
            BY <5>1, <5>2
      <4> HIDE DEF t
      <4>2. /\ t.op = task[h].op /\ t.at = "commit" /\ t.of = task[h].of
            /\ t.write = task[h].write /\ t.seen = task[h].seen /\ t.top = versions[i].number
          BY <4>1
      <4> QED
          BY <2>2, <2>3, <3>1, <4>1, <4>2 DEF TaskInv, Numbered, Unnumbered, Numbering, Idle
    <3>2. CASE task[h].op = "rollback"
        BY <2>2, <3>2 DEF TaskInv, Unnumbered
    <3> QED
        BY <2>2, <3>1, <3>2 DEF TaskInv, Unnumbered
  <2>5. task' = [task EXCEPT ![h] = t]
      BY <2>1
  <2> QED
      BY <1>7, <2>4, <2>5, TaskStep DEF ReadVersion
<1>8. ASSUME NEW h \in Handlers, CommitPatch(h) \/ CommitRollback(h) \/ CommitFails(h)
      PROVE  EvolutionInv'
  <2>1. task' = [task EXCEPT ![h] = Idle] /\ UNCHANGED versions
      BY <1>8 DEF CommitPatch, CommitRollback, CommitFails, Ending
  <2> QED
      BY <2>1, IdleTask, TaskStep
<1>9. ASSUME NEW h \in Handlers, CommitApply(h) \/ CommitUpdate(h) \/ CommitRestore(h)
      PROVE  EvolutionInv'
  <2>1. task[h].op \in Numbering /\ task' = [task EXCEPT ![h] = Idle]
      BY <1>9 DEF CommitApply, CommitUpdate, CommitRestore, Ending, Numbering
  <2>2. \E created \in {Now, Now + 1} : \E by, snapshot :
           AddVersion(task[h].top + 1, created, by, snapshot)
      BY <1>9 DEF CommitApply, CommitUpdate, CommitRestore
  <2> QED
      BY <2>1, <2>2, VersionStep
<1>10. CASE UNCHANGED evolutionVars
    BY <1>10 DEF evolutionVars, EvolutionInv, VersionsInv, TaskInv, Numbered, Unnumbered
<1> QED
    BY <1>1, <1>2, <1>3, <1>4, <1>5, <1>6, <1>7, <1>8, <1>9, <1>10
    DEF EvolutionNext, ServeStep

\* VersionsInOrder: for any proposals and requests, the versions of an agent
\* are in one order by number and by time, whatever interleaves.
THEOREM VersionsAreInOrder == EvolutionSpec => []VersionsInOrder
<1>1. EvolutionInv => VersionsInOrder
  <2>1. VersionsInv => DOMAIN versions = 1 .. Len(versions)
      BY DEF VersionsInv
  <2> QED
      BY <2>1 DEF EvolutionInv, VersionsInv, VersionsInOrder
<1> QED
    BY EvolutionInitial, EvolutionStep, <1>1, PTL DEF EvolutionSpec

-----------------------------------------------------------------------------
(* The chain of providers                                                    *)

\* Every set of numbers has a least one.
LEMMA LeastOf ==
    ASSUME NEW S, S \subseteq Nat, S # {}
    PROVE  \E x \in S : \A y \in S : x <= y
<1>1. \E x \in S : \A y \in S : ~ (<<y, x>> \in OpToRel(<,Nat))
  <2> DEFINE R == OpToRel(<,Nat)
  <2>1. IsWellFoundedOn(R, Nat)
      BY NatLessThanWellFounded
  <2> HIDE DEF R
  <2>2. \E x \in S : \A y \in S : ~ (<<y, x>> \in R)
      BY <2>1, WFMin
  <2> QED
      BY <2>2 DEF R
<1>2. PICK x \in S : \A y \in S : ~ (<<y, x>> \in OpToRel(<,Nat))
    BY <1>1
<1>3. ASSUME NEW y \in S
      PROVE  x <= y
  <2>1. x \in Nat /\ y \in Nat
      OBVIOUS
  <2>2. ~ (<<y, x>> \in OpToRel(<,Nat))
      BY <1>2
  <2>3. ~ (y < x)
      BY <2>1, <2>2 DEF OpToRel
  <2> QED
      BY <2>1, <2>3
<1> QED
    BY <1>3

\* A breaker that has seen no failure since it was made.
Unharmed(b) == b \in Breakers /\ b.state = "closed" /\ b.failures = 0

\* Such a breaker refuses nobody, and neither admissions nor successes harm it.
LEMMA UnharmedLemma ==
    ASSUME NEW b, Unharmed(b)
    PROVE  /\ ObservedState(b) # "open"
           /\ ~Rejects(CheckStateTransition(b))
           /\ Admit(CheckStateTransition(b)) = b
           /\ Unharmed(OnSuccess(b))
           /\ ~(b.state = "open")
<1>1. CheckStateTransition(b) = b /\ Admit(b) = b /\ ~Rejects(b) /\ ObservedState(b) # "open"
    BY DEF Unharmed, CheckStateTransition, Admit, Rejects, ObservedState
<1>2. Unharmed(OnSuccess(b))
  <2> DEFINE s == UpTo(SuccessThreshold, b.successes)
  <2>1. s \in 0 .. SuccessThreshold
      BY BreakerAssumption DEF Unharmed, Breakers, UpTo
  <2> HIDE DEF s
  <2>2. Unharmed(Counted(b, 0, s))
      BY <2>1, BreakerAssumption DEF Unharmed, Counted, Breakers
  <2>3. OnSuccess(b) = Counted(b, 0, s)
      BY <2>2 DEF OnSuccess, Unharmed, s
  <2> QED
      BY <2>2, <2>3
<1> QED
    BY <1>1, <1>2 DEF Unharmed

\* A dependable provider is up and its breaker unharmed, and no request awaits
\* a provider behind it.
ChainInv ==
    /\ breakers = [p \in Chain |-> breakers[p]]
    /\ up \in [Chain -> BOOLEAN]
    /\ at \in [Requests -> 0 .. N]
    /\ outcome = [r \in Requests |-> outcome[r]]
    /\ \A p \in Reliable : up[p] /\ Unharmed(breakers[p])
    /\ \A p \in Reliable, r \in Requests : at[r] <= p
    /\ NeverExhausted

\* A walk that begins at or before a dependable provider comes to rest there
\* or earlier, and leaves its breaker unharmed.
LEMMA WalkStops ==
    ASSUME ChainInv, NEW r \in Requests, NEW i \in 1 .. N + 1, NEW bs,
           bs = [p \in Chain |-> bs[p]],
           \A p \in Reliable : i <= p /\ Unharmed(bs[p]),
           Walk(r, i, bs), up' = up
    PROVE  ChainInv'
<1> DEFINE able == {p \in i .. N : ~Skipped(p, bs)}
           rest == NextEntry(i, bs)
<1>0. N \in Nat /\ Reliable \subseteq Chain
    BY ChainAssumption
<1>1. rest \in 0 .. N /\ (rest = 0 => able = {}) /\ \A p \in able : rest <= p
  <2>1. CASE able = {}
      BY <1>0, <2>1 DEF NextEntry
  <2>2. CASE able # {}
    <3>1. able \subseteq Nat /\ able \subseteq 1 .. N
        BY <1>0
    <3>2. \E x \in able : \A y \in able : x <= y
      <4> HIDE DEF able
      <4> QED
          BY <2>2, <3>1, LeastOf
    <3>3. rest = CHOOSE x \in able : \A y \in able : x <= y
        BY <2>2 DEF NextEntry
    <3> HIDE DEF able, rest
    <3>4. rest \in able /\ \A y \in able : rest <= y
        BY <3>2, <3>3
    <3> QED
        BY <1>0, <3>1, <3>4
  <2> QED
      BY <2>1, <2>2
<1>2. \A p \in Reliable : p \in able
    BY <1>0, UnharmedLemma DEF Skipped, Chain
<1> HIDE DEF able, rest
<1>3. /\ at' = [at EXCEPT ![r] = rest]
      /\ breakers' = IF rest \in Guarded
                     THEN [bs EXCEPT ![rest] = Admit(CheckStateTransition(bs[rest]))] ELSE bs
      /\ outcome' = [outcome EXCEPT ![r] = IF rest = 0 THEN "exhausted" ELSE "pending"]
    BY DEF Walk, rest
<1>4. breakers' = [p \in Chain |-> breakers'[p]]
    BY <1>3
<1>5. \A p \in Reliable : Unharmed(breakers'[p])
    BY <1>0, <1>3, UnharmedLemma
<1>6. at' \in [Requests -> 0 .. N] /\ \A p \in Reliable, q \in Requests : at'[q] <= p
    BY <1>1, <1>2, <1>3 DEF ChainInv
<1>7. outcome' = [q \in Requests |-> outcome'[q]] /\ NeverExhausted'
    BY <1>1, <1>2, <1>3 DEF ChainInv, NeverExhausted
<1> QED
    BY <1>4, <1>5, <1>6, <1>7 DEF ChainInv

\* At first every circuit is closed and nobody asks.
LEMMA ChainInitial == Init => ChainInv
<1> SUFFICES ASSUME Init
             PROVE  ChainInv
    OBVIOUS
<1>1. Unharmed(NewBreaker)
    BY BreakerAssumption DEF Unharmed, NewBreaker, Breakers, States
<1>2. \A p \in Reliable : p \in Nat
    BY ChainAssumption DEF Chain
<1> QED
    BY <1>1, <1>2, ChainAssumption DEF Init, ChainInv, NeverExhausted, Chain

\* No request, and no provider that goes down or comes back, breaks that.
LEMMA ChainStep == ChainInv /\ [Next]_vars => ChainInv'
<1> SUFFICES ASSUME ChainInv, [Next]_vars
             PROVE  ChainInv'
    OBVIOUS
<1>0. N \in Nat \ {0} /\ Reliable \subseteq Chain /\ \A p \in Reliable : p \in 1 .. N
    BY ChainAssumption DEF Chain
<1>1. ASSUME NEW r \in Requests, Chat(r)
      PROVE  ChainInv'
  <2>1. Walk(r, 1, breakers) /\ up' = up
      BY <1>1 DEF Chat
  <2>2. breakers = [p \in Chain |-> breakers[p]] /\ \A p \in Reliable : 1 <= p /\ Unharmed(breakers[p])
      BY <1>0 DEF ChainInv
  <2>3. 1 \in 1 .. N + 1
      BY <1>0
  <2> QED
      BY <2>1, <2>2, <2>3, WalkStops
<1>2. ASSUME NEW r \in Requests, Succeed(r)
      PROVE  ChainInv'
  <2>1. /\ breakers' = IF at[r] \in Guarded
                       THEN [breakers EXCEPT ![at[r]] = OnSuccess(breakers[at[r]])] ELSE breakers
        /\ at' = [at EXCEPT ![r] = 0]
        /\ outcome' = [outcome EXCEPT ![r] = "served"]
        /\ up' = up
      BY <1>2 DEF Succeed
  <2>2. breakers' = [p \in Chain |-> breakers'[p]]
      BY <2>1 DEF ChainInv
  <2>3. \A p \in Reliable : Unharmed(breakers'[p])
      BY <1>0, <2>1, UnharmedLemma DEF ChainInv
  <2> QED
      BY <1>0, <2>1, <2>2, <2>3 DEF ChainInv, NeverExhausted
<1>3. ASSUME NEW r \in Requests, Fail(r)
      PROVE  ChainInv'
  <2> DEFINE p == at[r]
             bs == IF p \in Guarded
                   THEN [breakers EXCEPT ![p] = OnFailure(breakers[p])] ELSE breakers
  <2>1. p \in 1 .. N /\ ~up[p] /\ Walk(r, p + 1, bs) /\ up' = up
      BY <1>3 DEF Fail, ChainInv
  <2>2. \A q \in Reliable : q # p /\ p <= q
      BY <2>1 DEF ChainInv
  <2>3. \A q \in Reliable : p + 1 <= q /\ Unharmed(bs[q])
      BY <1>0, <2>1, <2>2 DEF ChainInv
  <2>4. bs = [q \in Chain |-> bs[q]] /\ p + 1 \in 1 .. N + 1
      BY <1>0, <2>1 DEF ChainInv
  <2> HIDE DEF bs
  <2> QED
      BY <2>1, <2>3, <2>4, WalkStops
<1>4. ASSUME NEW r \in Requests, FailExcluded(r)
      PROVE  ChainInv'
  <2> DEFINE p == at[r]
  <2>1. p \in Chain \ Reliable /\ Walk(r, p + 1, breakers) /\ up' = up
      BY <1>4, ChainAssumption DEF FailExcluded
  <2>2. \A q \in Reliable : q # p /\ p <= q
      BY <2>1 DEF ChainInv
  <2>3. \A q \in Reliable : p + 1 <= q /\ Unharmed(breakers[q])
    <3>1. p \in 1 .. N
        BY <2>1 DEF Chain
    <3> HIDE DEF p
    <3>2. \A q \in Reliable : p + 1 <= q
        BY <1>0, <2>2, <3>1
    <3> QED
        BY <3>2 DEF ChainInv
  <2>4. breakers = [q \in Chain |-> breakers[q]] /\ p + 1 \in 1 .. N + 1
      BY <1>0, <2>1 DEF ChainInv, Chain
  <2> HIDE DEF p
  <2> QED
      BY <2>1, <2>3, <2>4, WalkStops
<1>5. ASSUME NEW r \in Requests, Cancel(r)
      PROVE  ChainInv'
    BY <1>0, <1>5 DEF Cancel, ChainInv, NeverExhausted
<1>6. ASSUME NEW p \in Chain, TimePasses(p)
      PROVE  ChainInv'
  <2>1. p \notin Reliable
      BY <1>6 DEF TimePasses, ChainInv, Unharmed
  <2> QED
      BY <1>0, <1>6, <2>1 DEF TimePasses, ChainInv, NeverExhausted
<1>7. ASSUME NEW p \in Chain, GoDown(p) \/ ComeBack(p)
      PROVE  ChainInv'
    BY <1>0, <1>7 DEF GoDown, ComeBack, ChainInv, NeverExhausted
<1>8. CASE UNCHANGED vars
    BY <1>8 DEF vars, ChainInv, NeverExhausted
<1> QED
    BY <1>1, <1>2, <1>3, <1>4, <1>5, <1>6, <1>7, <1>8 DEF Next

\* A chain with a provider that never fails serves every request, however long
\* the chain, wherever that provider stands in it, and whatever requests share
\* the breakers before it.
THEOREM ChainsNeverExhausted == Spec => []NeverExhausted
<1>1. ChainInv => NeverExhausted
    BY DEF ChainInv
<1> QED
    BY <1>1, ChainInitial, ChainStep, PTL DEF Spec
=============================================================================
