---------------------------- MODULE WorkflowProofs -----------------------------
(*****************************************************************************)
(* What the ready queue keeps, for every finite DAG, every placing of        *)
(* conditionals and loops in it, and any number of attempts; and with Story, *)
(* what it makes of a run: which steps have which results when it is over.   *)
(*****************************************************************************)
EXTENDS Workflow, FiniteSetTheorems, TLAPS

\* Attempts are counted, and a step about to try has one left.
Counted ==
    \A s \in Steps :
        /\ at[s] = "idle" => tries[s] = 0
        /\ at[s] = "trying" => tries[s] < Attempts

\* Whatever lies behind a skipped step is skipped too.
SkipClosed == \A x \in skipped : Succs(x) \subseteq skipped

\* The predecessors whose end in_degree still waits for.
Pending(s) == {p \in Preds(s) : ~Told(p) /\ p \notin passed}

\* The queue: in-degrees count what is pending (a skipped step may miss some
\* of it), and what is ready has not begun and waits for nothing.
Queue ==
    /\ \A s \in batch : Begun(s)
    /\ \A s \in ready : ~Begun(s)
    /\ \A s \in ready \ skipped : \A p \in Preds(s) : Told(p)
    /\ \A s \in Steps :
        /\ indeg[s] >= Cardinality(Pending(s))
        /\ s \notin skipped => indeg[s] = Cardinality(Pending(s))

IInv ==
    /\ TypeOK
    /\ Counted
    /\ InOrder
    /\ SkippedIdle
    /\ SkipClosed
    /\ status = "running" => Queue

-----------------------------------------------------------------------------
(* Sets *)

\* Taking members out of a set of steps lowers its size by their number.
LEMMA Removed ==
    ASSUME NEW A, NEW D, A \subseteq Steps, D \subseteq A
    PROVE  /\ Cardinality(A) \in Nat
           /\ Cardinality(D) \in Nat
           /\ Cardinality(A \ D) \in Nat
           /\ Cardinality(A \ D) = Cardinality(A) - Cardinality(D)
<1>1. IsFiniteSet(A) /\ IsFiniteSet(D) /\ IsFiniteSet(A \ D)
  BY StepsFinite, FS_Subset
<1>2. A \cap D = D
  OBVIOUS
<1> QED
  BY <1>1, <1>2, FS_Difference, FS_CardinalityType

\* A set of steps of size zero is empty.
LEMMA NothingLeft ==
    ASSUME NEW A, A \subseteq Steps, Cardinality(A) = 0
    PROVE  A = {}
BY StepsFinite, FS_Subset, FS_EmptySet

\* A set that holds A and all successors of its members holds Downstream(A).
LEMMA DownstreamLeast ==
    ASSUME NEW A, NEW X, X \subseteq Steps, A \subseteq X, \A x \in X : Succs(x) \subseteq X
    PROVE  Downstream(A) \subseteq X
BY DEF Downstream

\* What is behind a member of Downstream(A) is in it too.
LEMMA DownstreamClosed ==
    ASSUME NEW A, A \subseteq Steps
    PROVE  \A x \in Downstream(A) : Succs(x) \subseteq Downstream(A)
BY DEF Downstream, Succs

-----------------------------------------------------------------------------
(* Types *)

\* The in-degrees a run starts with are sizes of finite sets.
LEMMA TypeStart == Init => TypeOK /\ Counted
<1> SUFFICES ASSUME Init PROVE TypeOK /\ Counted
  OBVIOUS
<1>1. \A s \in Steps : Cardinality(Preds(s)) \in Nat
  BY Removed DEF Preds
<1>2. indeg \in [Steps -> Nat]
  BY <1>1 DEF Init
<1>3. ready \subseteq Steps /\ chosen \in [Steps -> SUBSET Steps]
  BY DEF Init
<1>4. /\ at \in [Steps -> {"idle", "trying", "working", "raising", "left"}]
      /\ tries \in [Steps -> 0..Attempts]
      /\ results \in [Steps -> {None, "completed", "failed", "cancelled"}]
  BY AttemptsPositive DEF Init
<1>5. TypeOK
  BY <1>2, <1>3, <1>4 DEF Init, TypeOK
<1> QED
  BY <1>5, AttemptsPositive DEF Init, Counted

\* What all that a step does has in common.
Effect(s) ==
    /\ wf' = wf /\ ready' = ready /\ passed' = passed /\ indeg' = indeg
    /\ status = "running"
    /\ s \in batch
    /\ at[s] \in {"trying", "working", "raising"}
    /\ \E v \in {"trying", "working", "raising", "left"} : at' = [at EXCEPT ![s] = v]
    /\ batch' = batch \/ (batch' = {} /\ status' # "running")
    /\ \/ skipped' = skipped
       \/ \E T : skipped' = skipped \cup Downstream(Succs(s) \ T)

\* Whatever a step does has the common effect.
LEMMA StepEffect ==
    ASSUME NEW s \in Steps, StepGoes(s), TypeOK
    PROVE  Effect(s)
<1> USE DEF Effect, TypeOK, queueVars, Turn, Leave, Attempt, Error, GiveUp
<1>1. CASE SeeCancel(s)
  BY <1>1 DEF SeeCancel
<1>2. CASE Work(s)
  BY <1>2 DEF Work
<1>3. CASE Complete(s)
  BY <1>3 DEF Complete
<1>4. CASE Decide(s)
  BY <1>4 DEF Decide
<1>5. CASE CondFails(s)
  BY <1>5 DEF CondFails
<1>6. CASE WorkFails(s)
  BY <1>6 DEF WorkFails
<1>7. CASE AgentNotFound(s)
  BY <1>7 DEF AgentNotFound
<1>8. CASE LoopSeesCancel(s)
  BY <1>8 DEF LoopSeesCancel
<1>9. CASE Raise(s)
  BY <1>9 DEF Raise
<1> QED
  BY <1>1, <1>2, <1>3, <1>4, <1>5, <1>6, <1>7, <1>8, <1>9 DEF StepGoes

\* A step keeps the types, and an attempt is begun only if one is left.
LEMMA StepTypes ==
    ASSUME NEW s \in Steps, StepGoes(s), TypeOK, Counted
    PROVE  (TypeOK /\ Counted)'
<1> USE DEF TypeOK, Counted, queueVars, Turn, Leave, Attempt, Error, GiveUp, None
<1> USE AttemptsPositive
<1>1. CASE SeeCancel(s)
  BY <1>1 DEF SeeCancel
<1>2. CASE Work(s)
  BY <1>2 DEF Work
<1>3. CASE Complete(s)
  BY <1>3 DEF Complete
<1>4. CASE Decide(s)
  <2>1. PICK T \in {{}} \cup {{t} : t \in Succs(s)} :
             /\ chosen' = [chosen EXCEPT ![s] = T]
             /\ skipped' = skipped \cup Downstream(Succs(s) \ T)
    BY <1>4 DEF Decide
  <2>2. T \in SUBSET Steps /\ Downstream(Succs(s) \ T) \subseteq Steps
    BY DEF Succs, Downstream
  <2>3. /\ tries' = [tries EXCEPT ![s] = @ + 1]
        /\ at' = [at EXCEPT ![s] = "left"]
        /\ results' = [results EXCEPT ![s] = "completed"]
        /\ UNCHANGED <<wf, cancel, status, ready, passed, indeg, batch>>
        /\ at[s] = "trying"
    BY <1>4 DEF Decide
  <2>4. chosen' \in [Steps -> SUBSET Steps] /\ skipped' \subseteq Steps /\ passed' \subseteq skipped'
    BY <2>1, <2>2, <2>3
  <2>5. tries' \in [Steps -> 0..Attempts]
    BY <2>3
  <2> QED
    BY <2>3, <2>4, <2>5
<1>5. CASE CondFails(s)
  BY <1>5 DEF CondFails
<1>6. CASE WorkFails(s)
  BY <1>6 DEF WorkFails
<1>7. CASE AgentNotFound(s)
  BY <1>7 DEF AgentNotFound
<1>8. CASE LoopSeesCancel(s)
  BY <1>8 DEF LoopSeesCancel
<1>9. CASE Raise(s)
  BY <1>9 DEF Raise
<1> QED
  BY <1>1, <1>2, <1>3, <1>4, <1>5, <1>6, <1>7, <1>8, <1>9 DEF StepGoes

-----------------------------------------------------------------------------
(* The queue *)

\* Decide marks only steps that have not begun: whatever is behind s waits for
\* it, by the order kept so far.
LEMMA BehindIdle ==
    ASSUME TypeOK, InOrder, NEW s \in Steps, at[s] # "left", NEW T
    PROVE  \A x \in Downstream(Succs(s) \ T) : x \in Steps /\ ~Begun(x)
<1> DEFINE U == {x \in Steps : ~Begun(x)}
<1>1. Succs(s) \ T \subseteq U
  BY DEF InOrder, Succs, Preds
<1>2. \A x \in U : Succs(x) \subseteq U
  BY DEF InOrder, Succs, Preds, Begun
<1> QED
  BY <1>1, <1>2, DownstreamLeast

\* A step of the batch keeps the invariant: it leaves the queue alone, and
\* what a conditional marks has not begun.
LEMMA StepInductive ==
    ASSUME IInv, NEW s \in Steps, StepGoes(s)
    PROVE  IInv'
<1> USE DEF IInv
<1>1. Effect(s) /\ (TypeOK /\ Counted)'
  BY StepEffect, StepTypes
<1>2. Queue /\ TypeOK
  BY <1>1 DEF Effect
<1>3. \A x \in Steps : Preds(x)' = Preds(x) /\ Succs(x)' = Succs(x)
  BY <1>1 DEF Effect, Preds, Succs
<1>4. \A x \in Steps : Begun(x)' = Begun(x)
  BY <1>1, <1>2 DEF Effect, Begun, Queue, TypeOK
<1>5. at[s] # "left" /\ s \in batch
  BY <1>1 DEF Effect
<1>6. \A x \in Steps : x # s => at'[x] = at[x]
  BY <1>1 DEF Effect, TypeOK
<1>7. InOrder'
  <2> SUFFICES ASSUME NEW x \in Steps, Begun(x), NEW p \in Preds(x)
               PROVE  at'[p] = "left" /\ p \notin batch'
    BY <1>3, <1>4 DEF InOrder
  <2>1. at[p] = "left" /\ p \notin batch
    BY DEF InOrder
  <2> QED
    BY <2>1, <1>1, <1>5, <1>6 DEF Effect, Preds
<1>8. SkippedIdle'
  <2>1. CASE skipped' = skipped
    BY <2>1, <1>4, <1>1 DEF SkippedIdle, TypeOK
  <2>2. ASSUME NEW T, skipped' = skipped \cup Downstream(Succs(s) \ T) PROVE SkippedIdle'
    BY <2>2, <1>4, <1>1, <1>5, BehindIdle DEF SkippedIdle, TypeOK
  <2> QED
    BY <1>1, <2>1, <2>2 DEF Effect
<1>9. SkipClosed'
  <2>1. CASE skipped' = skipped
    BY <2>1, <1>3, <1>1 DEF SkipClosed, TypeOK
  <2>2. ASSUME NEW T, skipped' = skipped \cup Downstream(Succs(s) \ T) PROVE SkipClosed'
    <3>1. Succs(s) \ T \subseteq Steps
      BY DEF Succs
    <3>2. \A x \in Downstream(Succs(s) \ T) : Succs(x) \subseteq Downstream(Succs(s) \ T)
      BY <3>1, DownstreamClosed
    <3> QED
      BY <2>2, <3>2, <1>3, <1>1 DEF SkipClosed, TypeOK
  <2> QED
    BY <1>1, <2>1, <2>2 DEF Effect
<1>10. ASSUME status' = "running" PROVE Queue'
  <2>1. batch' = batch /\ ready' = ready /\ passed' = passed /\ indeg' = indeg
    BY <1>1, <1>10 DEF Effect
  <2>2. \A x \in Steps : Told(x)' = Told(x)
    BY <2>1, <1>5, <1>6 DEF Told
  <2>3. \A x \in Steps : Pending(x)' = Pending(x)
    BY <2>1, <2>2, <1>3 DEF Pending, Preds
  <2>4. skipped \subseteq skipped'
    BY <1>1 DEF Effect
  <2>5. (\A x \in batch : Begun(x))' /\ (\A x \in ready : ~Begun(x))'
    BY <2>1, <1>2, <1>4 DEF Queue, TypeOK
  <2>6. (\A x \in ready \ skipped : \A p \in Preds(x) : Told(p))'
    BY <2>1, <2>2, <2>4, <1>2, <1>3 DEF Queue, TypeOK, Preds
  <2>7. (\A x \in Steps :
          /\ indeg[x] >= Cardinality(Pending(x))
          /\ x \notin skipped => indeg[x] = Cardinality(Pending(x)))'
    BY <2>1, <2>3, <2>4, <1>2 DEF Queue
  <2> QED
    BY <2>5, <2>6, <2>7 DEF Queue
<1> QED
  BY <1>1, <1>7, <1>8, <1>9, <1>10

\* Passing on a set of steps takes it out of what is pending and counted.
LEMMA Delivered ==
    ASSUME TypeOK, Queue, wf' = wf, NEW from, NEW to, NEW queue, Deliver(from, to, queue),
           \A x \in Steps : Pending(x)' = IF x \in to THEN Pending(x) \ from
                                          ELSE Pending(x)' \cap Pending(x),
           \A x \in to : Preds(x) \cap from \subseteq Pending(x),
           \A x \in Steps : x \notin to => x \in skipped,
           skipped' = skipped
    PROVE  /\ indeg' \in [Steps -> Nat]
           /\ \A x \in Steps :
                /\ indeg'[x] >= Cardinality(Pending(x)')
                /\ x \notin skipped' => indeg'[x] = Cardinality(Pending(x)')
<1> DEFINE done(x) == Preds(x) \cap from
<1>1. indeg' = [x \in Steps |-> IF x \in to THEN indeg[x] - Cardinality(done(x)) ELSE indeg[x]]
  BY DEF Deliver
<1>2. SUFFICES ASSUME NEW x \in Steps
               PROVE  /\ indeg'[x] \in Nat
                      /\ indeg'[x] >= Cardinality(Pending(x)')
                      /\ x \notin skipped' => indeg'[x] = Cardinality(Pending(x)')
  BY <1>1
<1>3. /\ Pending(x) \subseteq Steps
      /\ indeg[x] \in Nat
      /\ indeg[x] >= Cardinality(Pending(x))
      /\ x \notin skipped => indeg[x] = Cardinality(Pending(x))
  BY DEF Queue, TypeOK, Pending, Preds
<1>4. CASE x \in to
  <2>1. Pending(x)' = Pending(x) \ done(x)
    BY <1>4 DEF Pending
  <2>2. /\ Cardinality(Pending(x)) \in Nat
        /\ Cardinality(done(x)) \in Nat
        /\ Cardinality(Pending(x)') \in Nat
        /\ Cardinality(Pending(x)') = Cardinality(Pending(x)) - Cardinality(done(x))
    BY <1>3, <1>4, <2>1, Removed
  <2>3. indeg'[x] = indeg[x] - Cardinality(done(x))
    BY <1>1, <1>4
  <2> HIDE DEF done
  <2> QED
    BY <1>3, <2>2, <2>3
<1>5. CASE x \notin to
  <2> DEFINE A == Pending(x)
             B == Pending(x)'
  <2>1. B \subseteq A
    BY <1>5
  <2>2. Cardinality(A) \in Nat /\ Cardinality(B) \in Nat /\ Cardinality(A) >= Cardinality(B)
    BY <1>3, <2>1, StepsFinite, FS_Subset, FS_CardinalityType
  <2>3. indeg'[x] = indeg[x] /\ x \in skipped'
    BY <1>1, <1>5
  <2> HIDE DEF A, B
  <2>4. indeg[x] >= Cardinality(A)
    BY <1>3 DEF A
  <2>5. indeg'[x] \in Nat /\ indeg'[x] >= Cardinality(B)
    BY <1>3, <2>2, <2>3, <2>4
  <2> QED
    BY <2>3, <2>5 DEF B
<1> QED
  BY <1>4, <1>5

\* Taking a batch keeps the invariant: the steps taken wait for nobody, and
\* skipped steps passed on leave the in-degrees of those behind them exact.
LEMMA TakeInductive ==
    ASSUME IInv, Take
    PROVE  IInv'
<1> USE DEF IInv
<1>1. /\ Queue /\ TypeOK /\ status = "running" /\ batch = {}
      /\ UNCHANGED <<wf, cancel, status, skipped, tries, results, chosen>>
      /\ Deliver(skipped \ passed, Steps, {})
      /\ passed' = skipped /\ batch' = ready \ skipped
      /\ at' = [s \in Steps |-> IF s \in batch' THEN "trying" ELSE at[s]]
  BY DEF Take, Top
<1>2. \A x \in Steps : Preds(x)' = Preds(x) /\ Succs(x)' = Succs(x)
  BY <1>1 DEF Preds, Succs
<1>3. \A x \in Steps : Told(x)' = Told(x)
  BY <1>1 DEF Told, Queue, Begun, TypeOK
<1>4. \A x \in Steps : Pending(x)' = Pending(x) \ (skipped \ passed)
  BY <1>1, <1>2, <1>3 DEF Pending, TypeOK, Preds
<1>5. \A x \in skipped : ~Told(x) /\ x \in Steps
  BY <1>1 DEF SkippedIdle, Begun, Told, TypeOK
<1>6. \A x \in Steps : Preds(x) \cap (skipped \ passed) \subseteq Pending(x)
  BY <1>5 DEF Pending
<1>7. /\ indeg' \in [Steps -> Nat]
      /\ \A x \in Steps :
            /\ indeg'[x] >= Cardinality(Pending(x)')
            /\ x \notin skipped' => indeg'[x] = Cardinality(Pending(x)')
  BY <1>1, <1>4, <1>6, Delivered
<1>8. ready' \subseteq Steps /\ \A x \in ready' : x \in skipped
  <2>1. ready' = {x \in Steps : Preds(x) \cap (skipped \ passed) # {} /\ indeg'[x] = 0}
    BY <1>1 DEF Deliver
  <2> QED
    BY <2>1 DEF SkipClosed, Preds, Succs
<1>9. (TypeOK /\ Counted)'
  <2>1. tries \in [Steps -> 0..Attempts]
    BY DEF TypeOK
  <2>2. at' \in [Steps -> {"idle", "trying", "working", "raising", "left"}]
    BY <1>1 DEF TypeOK
  <2>3. TypeOK'
    BY <1>1, <1>7, <1>8, <2>1, <2>2 DEF TypeOK
  <2>4. \A x \in ready : tries[x] = 0
    BY <1>1 DEF Queue, Begun, Counted, TypeOK
  <2> QED
    BY <1>1, <2>3, <2>4, AttemptsPositive DEF Counted
<1>10. InOrder'
  <2> SUFFICES ASSUME NEW x \in Steps, Begun(x)', NEW p \in Preds(x)
               PROVE  Told(p)'
    BY <1>2 DEF InOrder, Told
  <2>1. Told(p)
    BY <1>1 DEF Begun, InOrder, Told, Queue
  <2> QED
    BY <2>1, <1>3 DEF Preds
<1>11. SkippedIdle' /\ SkipClosed'
  BY <1>1, <1>2 DEF SkippedIdle, SkipClosed, Begun, TypeOK
<1>12. Queue'
  <2>1. (\A x \in batch : Begun(x))'
    BY <1>1 DEF Begun, TypeOK
  <2>2. (\A x \in ready : ~Begun(x))'
    BY <1>8, <1>11, <1>1 DEF SkippedIdle
  <2>3. (\A x \in ready \ skipped : \A p \in Preds(x) : Told(p))'
    BY <1>8, <1>1
  <2> QED
    BY <1>7, <2>1, <2>2, <2>3 DEF Queue
<1> QED
  BY <1>9, <1>10, <1>11, <1>12

\* Ending a batch keeps the invariant: the in-degrees go down by just those
\* predecessors that are no longer pending.
LEMMA EndBatchInductive ==
    ASSUME IInv, EndBatch
    PROVE  IInv'
<1> USE DEF IInv
<1>1. /\ Queue /\ TypeOK /\ status = "running" /\ batch' = {}
      /\ \A x \in batch : at[x] = "left"
      /\ UNCHANGED <<wf, cancel, status, skipped, passed, at, tries, results, chosen>>
      /\ Deliver(batch, Steps \ skipped, ready)
  BY DEF EndBatch
<1>2. \A x \in Steps : Preds(x)' = Preds(x) /\ Succs(x)' = Succs(x) /\ Begun(x)' = Begun(x)
  BY <1>1 DEF Preds, Succs, Begun
<1>3. \A x \in Steps : Told(x)' = (Told(x) \/ x \in batch)
  BY <1>1 DEF Told
<1>4. \A x \in Steps : Pending(x)' = Pending(x) \ batch
  BY <1>1, <1>2, <1>3 DEF Pending, Preds
<1>5. \A x \in batch : x \notin passed /\ ~Told(x)
  BY <1>1 DEF Queue, SkippedIdle, TypeOK, Told
<1>6. \A x \in Steps : Preds(x) \cap batch \subseteq Pending(x)
  BY <1>5 DEF Pending
<1>7. /\ indeg' \in [Steps -> Nat]
      /\ \A x \in Steps :
            /\ indeg'[x] >= Cardinality(Pending(x)')
            /\ x \notin skipped' => indeg'[x] = Cardinality(Pending(x)')
  BY <1>1, <1>4, <1>6, Delivered
<1>8. ready' = ready \cup {x \in Steps \ skipped : Preds(x) \cap batch # {} /\ indeg'[x] = 0}
  BY <1>1 DEF Deliver
<1>9. TypeOK' /\ Counted'
  BY <1>1, <1>7, <1>8 DEF TypeOK, Counted
<1>10. InOrder' /\ SkippedIdle' /\ SkipClosed'
  BY <1>1, <1>2 DEF InOrder, SkippedIdle, SkipClosed, TypeOK, Preds
<1>11. \A x \in Steps : Preds(x) \cap batch # {} => ~Begun(x)
  BY DEF InOrder
<1>12. Queue'
  <2>1. (\A x \in ready : ~Begun(x))'
    BY <1>1, <1>2, <1>8, <1>9, <1>11 DEF Queue, TypeOK
  <2>2. ASSUME NEW x \in ready', x \notin skipped, NEW p \in Preds(x) PROVE Told(p)'
    <3>1. CASE x \in ready
      BY <3>1, <2>2, <1>1, <1>3 DEF Queue, Preds
    <3>2. CASE x \in Steps /\ indeg'[x] = 0
      <4>1. Pending(x)' = {}
        <5> DEFINE B == Pending(x)'
        <5>1. B \subseteq Steps
          BY <3>2, <1>4 DEF Pending, Preds
        <5>2. Cardinality(B) = 0
          BY <3>2, <2>2, <1>1, <1>7
        <5> HIDE DEF B
        <5>3. B = {}
          BY <5>1, <5>2, NothingLeft
        <5> QED
          BY <5>3 DEF B
      <4>2. p \in Steps /\ p \notin passed
        BY <2>2, <3>2, <1>1, <1>2 DEF SkipClosed, Succs, Preds, TypeOK
      <4>3. p \in Pending(x) => p \in batch
        BY <4>1, <3>2, <1>4
      <4> QED
        BY <4>2, <4>3, <1>3 DEF Pending
    <3> QED
      BY <3>1, <3>2, <2>2, <1>8
  <2>3. (\A x \in ready \ skipped : \A p \in Preds(x) : Told(p))'
    BY <2>2, <1>1, <1>2, <1>9 DEF TypeOK
  <2> QED
    BY <1>1, <1>7, <2>1, <2>3 DEF Queue
<1> QED
  BY <1>9, <1>10, <1>12

-----------------------------------------------------------------------------
(* Runs *)

\* The ends of a run, the cancel event and a cancelled task leave the queue
\* alone, or end its meaning with the run.
LEMMA OtherInductive ==
    ASSUME IInv, TopCancelled \/ Finish \/ TopExpired \/ SetCancel \/ TaskCancelled \/ UNCHANGED vars
    PROVE  IInv'
<1> USE DEF IInv
<1>1. /\ UNCHANGED <<wf, ready, passed, indeg, skipped, at, tries, results, chosen>>
      /\ cancel' \in BOOLEAN
      /\ status' \in {"running", "completed", "failed", "cancelled"}
      /\ \/ batch' = batch /\ (status' = "running" => status = "running")
         \/ batch' = {} /\ status' # "running"
  BY DEF TopCancelled, Finish, TopExpired, SetCancel, TaskCancelled, Top, queueVars, vars, TypeOK
<1>2. \A x \in Steps : Preds(x)' = Preds(x) /\ Succs(x)' = Succs(x) /\ Begun(x)' = Begun(x)
  BY <1>1 DEF Preds, Succs, Begun
<1>3. (TypeOK /\ Counted)'
  BY <1>1 DEF TypeOK, Counted
<1>4. (InOrder /\ SkippedIdle /\ SkipClosed)'
  BY <1>1, <1>2, <1>3 DEF InOrder, SkippedIdle, SkipClosed, TypeOK, Preds
<1>5. ASSUME status' = "running" PROVE Queue'
  <2>1. UNCHANGED <<wf, ready, batch, passed, indeg, skipped, at>> /\ Queue
    BY <1>1, <1>5
  <2>2. \A x \in Steps : Told(x)' = Told(x)
    BY <2>1 DEF Told
  <2>3. \A x \in Steps : Pending(x)' = Pending(x)
    BY <2>1, <2>2, <1>2 DEF Pending, Preds
  <2> QED
    BY <2>1, <2>2, <2>3, <1>2, <1>3 DEF Queue, TypeOK, Preds
<1> QED
  BY <1>3, <1>4, <1>5

\* Every step keeps the invariant.
LEMMA Inductive == IInv /\ [Next]_vars => IInv'
BY StepInductive, TakeInductive, EndBatchInductive, OtherInductive DEF Next, Loop

\* At first everything is pending and only steps without predecessors are ready.
LEMMA Initially == Init => IInv
<1> SUFFICES ASSUME Init PROVE IInv
  OBVIOUS
<1>1. TypeOK /\ Counted
  BY TypeStart
<1>2. InOrder /\ SkippedIdle /\ SkipClosed
  BY DEF Init, InOrder, SkippedIdle, SkipClosed, Begun
<1>3. \A s \in Steps : Pending(s) = Preds(s)
  BY DEF Init, Pending, Told, Preds
<1>4. \A s \in Steps : Preds(s) \subseteq Steps /\ Cardinality(Preds(s)) \in Nat
  BY Removed DEF Preds
<1>5. \A s \in Steps : indeg[s] = Cardinality(Preds(s))
  BY DEF Init
<1>6. \A s \in ready : s \in Steps /\ Preds(s) = {}
  BY <1>4, <1>5, NothingLeft DEF Init
<1>7. Queue
  BY <1>3, <1>4, <1>5, <1>6 DEF Queue, Init, Begun
<1> QED
  BY <1>1, <1>2, <1>7 DEF IInv

\* The invariant holds throughout.
LEMMA Always == Spec => []IInv
BY Initially, Inductive, PTL DEF Spec

-----------------------------------------------------------------------------
(* Results *)

\* A step has a result once it is over, or on the way out with its failure.
Settled ==
    \A s \in Steps :
        /\ results[s] # None => at[s] \in {"left", "raising"}
        /\ at[s] = "raising" => results[s] = "failed"
        /\ ~cancel /\ at[s] = "left" => results[s] \in {"completed", "failed"}

\* c is a conditional that has been decided and s lies behind a branch that it
\* did not choose.
Unchosen(c, s) ==
    /\ wf.kind[c] = "cond"
    /\ results[c] = "completed"
    /\ s \in Downstream(Succs(c) \ chosen[c])

\* Nothing is skipped without a decision.
SkippedWhy == \A s \in skipped : \E c \in Steps : Unchosen(c, s)

\* While fail_fast is on, a failure of a run that goes on is still on its way out.
FailuresOut ==
    \A s \in Steps : results[s] = "failed" =>
        /\ status # "completed"
        /\ wf.failFast /\ status = "running" => at[s] = "raising"

\* Steps under way are in the batch, and a step that nothing is pending for is
\* in the queue, unless it has begun or is skipped.
NoneForgotten ==
    /\ \A s \in Steps : Begun(s) /\ at[s] # "left" => s \in batch
    /\ \A s \in Steps \ skipped : ~Begun(s) /\ Pending(s) = {} => s \in ready

Story ==
    /\ Settled
    /\ SkippedWhy
    /\ FailuresOut
    /\ status = "running" => NoneForgotten
    /\ CompletedWhole

\* What a step of the batch does to its own results, and to what is skipped.
Verdict(s, v, r) ==
    /\ UNCHANGED <<wf, cancel>>
    /\ status = "running" /\ status' # "completed"
    /\ at[s] \in {"trying", "working", "raising"}
    /\ at' = [at EXCEPT ![s] = v]
    /\ results' = [results EXCEPT ![s] = r]
    /\ r # None => v \in {"left", "raising"}
    /\ v = "raising" => r = "failed"
    /\ v = "left" /\ ~cancel => r \in {"completed", "failed"}
    /\ r = "failed" /\ wf.failFast /\ status' = "running" => v = "raising"
    /\ \/ chosen' = chosen /\ skipped' = skipped
       \/ \E T \in SUBSET Steps :
            /\ wf.kind[s] = "cond" /\ r = "completed"
            /\ chosen' = [chosen EXCEPT ![s] = T]
            /\ skipped' = skipped \cup Downstream(Succs(s) \ T)

\* Every step of the batch does just that.
LEMMA StepVerdict ==
    ASSUME TypeOK, Counted, Settled, NEW s \in Steps, StepGoes(s)
    PROVE  \E v, r : Verdict(s, v, r)
<1> USE DEF Verdict, TypeOK, Settled, queueVars, Turn, Leave, Attempt, None
<1>0. \A f, S, T : f \in [S -> T] => f = [f EXCEPT ![s] = f[s]]
  OBVIOUS
<1>01. results = [results EXCEPT ![s] = results[s]]
  BY <1>0
<1>1. CASE SeeCancel(s)
  <2>1. Verdict(s, "left", "cancelled")
    BY <1>1 DEF SeeCancel
  <2> QED BY <2>1
<1>2. CASE Work(s)
  <2>1. Verdict(s, "working", results[s])
    BY <1>2, <1>01 DEF Work
  <2> QED BY <2>1
<1>3. CASE Complete(s)
  <2>1. Verdict(s, "left", "completed")
    BY <1>3 DEF Complete
  <2> QED BY <2>1
<1>4. CASE Decide(s)
  <2>1. PICK T \in {{}} \cup {{t} : t \in Succs(s)} :
             /\ chosen' = [chosen EXCEPT ![s] = T]
             /\ skipped' = skipped \cup Downstream(Succs(s) \ T)
    BY <1>4 DEF Decide
  <2>2. T \in SUBSET Steps
    <3>1. Succs(s) \subseteq Steps
      BY DEF Succs
    <3>2. T = {} \/ \E t \in Succs(s) : T = {t}
      OBVIOUS
    <3> QED BY <3>1, <3>2
  <2>3. /\ wf.kind[s] = "cond" /\ ~cancel
        /\ UNCHANGED <<wf, cancel, status>> /\ status = "running" /\ at[s] = "trying"
        /\ at' = [at EXCEPT ![s] = "left"] /\ results' = [results EXCEPT ![s] = "completed"]
    BY <1>4 DEF Decide
  <2>4. Verdict(s, "left", "completed")
    BY <2>1, <2>2, <2>3
  <2> QED BY <2>4
<1>5. ASSUME UNCHANGED <<wf, cancel, status, chosen, skipped>>, status = "running",
             at[s] \in {"trying", "working"}, NEW n \in Nat, Error(s, n)
      PROVE  \E v, r : Verdict(s, v, r)
  <2>1. CASE at' = [at EXCEPT ![s] = "trying"] /\ results' = results
    <3>1. Verdict(s, "trying", results[s])
      BY <1>5, <2>1, <1>01
    <3> QED BY <3>1
  <2>2. CASE GiveUp(s)
    <3>1. Verdict(s, IF wf.failFast THEN "raising" ELSE "left", "failed")
      BY <1>5, <2>2 DEF GiveUp
    <3> QED BY <3>1
  <2> QED BY <1>5, <2>1, <2>2 DEF Error
<1>6. tries[s] \in Nat /\ tries[s] + 1 \in Nat
  BY AttemptsPositive
<1>7. CASE CondFails(s)
  <2>1. /\ UNCHANGED <<wf, cancel, status, chosen, skipped>>
        /\ status = "running" /\ at[s] \in {"trying", "working"} /\ Error(s, tries[s] + 1)
    BY <1>7 DEF CondFails
  <2> QED BY <1>5, <1>6, <2>1
<1>8. CASE WorkFails(s)
  <2>1. /\ UNCHANGED <<wf, cancel, status, chosen, skipped>>
        /\ status = "running" /\ at[s] \in {"trying", "working"} /\ Error(s, tries[s])
    BY <1>8 DEF WorkFails
  <2> QED BY <1>5, <1>6, <2>1
<1>9. CASE AgentNotFound(s)
  <2>1. Verdict(s, IF wf.failFast THEN "raising" ELSE "left", "failed")
    BY <1>9 DEF AgentNotFound, GiveUp
  <2> QED BY <2>1
<1>10. CASE LoopSeesCancel(s)
  <2>1. Verdict(s, "left", results[s])
    BY <1>10, <1>01 DEF LoopSeesCancel
  <2> QED BY <2>1
<1>11. CASE Raise(s)
  <2>1. Verdict(s, "left", "failed")
    <3>1. results[s] = "failed"
      BY <1>11 DEF Raise
    <3>2. results' = [results EXCEPT ![s] = "failed"]
      BY <1>11, <1>01, <3>1 DEF Raise
    <3> QED BY <1>11, <3>2 DEF Raise
  <2> QED BY <2>1
<1> QED
  BY <1>1, <1>2, <1>3, <1>4, <1>7, <1>8, <1>9, <1>10, <1>11 DEF StepGoes

\* A step keeps the story: its result is its own, and what it skips it skips
\* by a decision.
LEMMA StepTold ==
    ASSUME IInv, Story, NEW s \in Steps, StepGoes(s)
    PROVE  Story'
<1>1. TypeOK /\ Counted /\ Queue /\ Settled /\ Effect(s)
  BY StepEffect DEF IInv, Story, Effect
<1>2. PICK v, r : Verdict(s, v, r)
  BY <1>1, StepVerdict
<1>3. /\ at'[s] = v /\ results'[s] = r
      /\ \A x \in Steps \ {s} : at'[x] = at[x] /\ results'[x] = results[x]
  BY <1>1, <1>2 DEF Verdict, TypeOK
<1>4. Settled'
  BY <1>1, <1>2, <1>3 DEF Settled, Verdict
<1>5. FailuresOut'
  BY <1>1, <1>2, <1>3 DEF FailuresOut, Story, Verdict
<1>6. \A x \in Steps : Succs(x)' = Succs(x)
  BY <1>2 DEF Verdict, Succs
<1>7. \A A : Downstream(A)' = Downstream(A)
  BY <1>6 DEF Downstream
<1>8. ASSUME NEW c \in Steps, NEW x, Unchosen(c, x)
      PROVE  Unchosen(c, x)'
  <2>1. c # s
    BY <1>1, <1>2, <1>8 DEF Unchosen, Settled, Verdict, None
  <2>2. chosen'[c] = chosen[c] /\ results'[c] = results[c] /\ wf' = wf
    BY <1>1, <1>2, <1>3, <2>1 DEF Verdict, TypeOK
  <2> QED
    BY <1>6, <1>7, <1>8, <2>2 DEF Unchosen
<1>9. SkippedWhy'
  <2> SUFFICES ASSUME NEW x \in skipped'
               PROVE  \E c \in Steps : Unchosen(c, x)'
    BY DEF SkippedWhy
  <2>1. CASE x \in skipped
    BY <1>8, <2>1 DEF Story, SkippedWhy
  <2>2. ASSUME NEW T \in SUBSET Steps, wf.kind[s] = "cond", r = "completed",
               chosen' = [chosen EXCEPT ![s] = T],
               x \in Downstream(Succs(s) \ T)
        PROVE  Unchosen(s, x)'
    BY <1>1, <1>2, <1>3, <1>6, <1>7, <2>2 DEF Unchosen, Verdict, TypeOK
  <2> QED
    BY <1>2, <2>1, <2>2 DEF Verdict
<1>10. ASSUME status' = "running" PROVE NoneForgotten'
  <2>1. batch' = batch /\ ready' = ready /\ passed' = passed /\ wf' = wf /\ s \in batch
    BY <1>1, <1>10 DEF Effect
  <2>2. \A x \in Steps : Begun(x)' = Begun(x) /\ Told(x)' = Told(x)
    <3>1. at[s] # "idle" /\ at'[s] # "idle"
      BY <1>1 DEF Effect, TypeOK
    <3> QED
      BY <1>3, <2>1, <3>1 DEF Begun, Told
  <2>3. \A x \in Steps : Pending(x)' = Pending(x)
    BY <2>1, <2>2 DEF Pending, Preds
  <2>4. skipped \subseteq skipped' /\ NoneForgotten
    BY <1>1, <1>2 DEF Effect, Story, Verdict
  <2> QED
    BY <1>3, <2>1, <2>2, <2>3, <2>4 DEF NoneForgotten
<1>11. CompletedWhole'
  BY <1>2 DEF Verdict, CompletedWhole
<1> QED
  BY <1>4, <1>5, <1>9, <1>10, <1>11 DEF Story

\* What the loop does between steps leaves all results and decisions alone.
LEMMA LoopTold ==
    ASSUME Story, UNCHANGED <<wf, skipped, results, chosen>>,
           cancel => cancel',
           \A s \in Steps : at'[s] = at[s] \/ (at[s] = "idle" /\ at'[s] = "trying"),
           status' = "completed" => status = "completed" \/ \A s \in Steps : results[s] # "failed",
           status' = "running" => status = "running"
    PROVE  Settled' /\ SkippedWhy' /\ FailuresOut'
<1>1. \A x \in Steps : Succs(x)' = Succs(x)
  BY DEF Succs
<1>2. \A A : Downstream(A)' = Downstream(A)
  BY <1>1 DEF Downstream
<1>3. Settled'
  BY DEF Story, Settled, None
<1>4. SkippedWhy'
  BY <1>1, <1>2 DEF Story, SkippedWhy, Unchosen
<1>5. FailuresOut'
  BY DEF Story, FailuresOut, Settled, None
<1> QED
  BY <1>3, <1>4, <1>5

\* Taking the batch empties the queue of all that may begin.
LEMMA TakeTold ==
    ASSUME IInv, IInv', Story, Take
    PROVE  Story'
<1>1. /\ Queue /\ TypeOK /\ NoneForgotten /\ status = "running" /\ batch = {}
      /\ UNCHANGED <<wf, cancel, status, skipped, tries, results, chosen>>
      /\ passed' = skipped /\ batch' = ready \ skipped
      /\ at' = [s \in Steps |-> IF s \in batch' THEN "trying" ELSE at[s]]
  BY DEF Take, Top, IInv, Story
<1>2. Settled' /\ SkippedWhy' /\ FailuresOut'
  <2>1. \A s \in Steps : at'[s] = at[s] \/ (at[s] = "idle" /\ at'[s] = "trying")
    BY <1>1 DEF Queue, Begun
  <2> QED
    BY <1>1, <2>1, LoopTold
<1>3. NoneForgotten'
  <2>1. ASSUME NEW s \in Steps, Begun(s)', at'[s] # "left" PROVE s \in batch'
    BY <1>1, <2>1 DEF NoneForgotten, Begun
  <2>2. ASSUME NEW s \in Steps, s \notin skipped, ~Begun(s)', Pending(s)' = {} PROVE FALSE
    <3>1. ~Begun(s)
      BY <1>1, <2>2 DEF Begun, TypeOK
    <3>2. \A p \in Preds(s) : p \notin skipped
      BY <2>2 DEF IInv, SkipClosed, Preds, Succs
    <3>3. \A p \in Preds(s) : Told(p)
      BY <1>1, <2>2, <3>2 DEF Pending, Preds, Told, TypeOK, Queue, Begun
    <3>4. s \in ready
      BY <1>1, <2>2, <3>1, <3>3 DEF NoneForgotten, Pending
    <3> QED
      BY <1>1, <2>2, <3>4 DEF Begun
  <2> QED
    BY <1>1, <2>1, <2>2 DEF NoneForgotten
<1>4. CompletedWhole'
  BY <1>1 DEF CompletedWhole
<1> QED
  BY <1>2, <1>3, <1>4 DEF Story

\* The end of a batch puts into the queue all that had waited for it alone.
LEMMA EndBatchTold ==
    ASSUME IInv, IInv', Story, EndBatch
    PROVE  Story'
<1>1. /\ Queue /\ TypeOK /\ NoneForgotten /\ status = "running" /\ batch' = {}
      /\ \A s \in batch : at[s] = "left"
      /\ UNCHANGED <<wf, cancel, status, skipped, passed, at, tries, results, chosen>>
      /\ ready' = ready \cup {s \in Steps \ skipped : Preds(s) \cap batch # {} /\ indeg'[s] = 0}
  BY DEF EndBatch, IInv, Story, Deliver
<1>2. Settled' /\ SkippedWhy' /\ FailuresOut'
  BY <1>1, LoopTold
<1>3. NoneForgotten'
  <2>1. \A s \in Steps : Preds(s)' = Preds(s) /\ Begun(s)' = Begun(s)
    BY <1>1 DEF Preds, Begun
  <2>2. \A s \in Steps : Begun(s)' /\ at'[s] # "left" => s \in batch'
    BY <1>1, <2>1 DEF NoneForgotten
  <2>3. ASSUME NEW s \in Steps \ skipped, ~Begun(s), Pending(s)' = {}
        PROVE  s \in ready'
    <3>1. CASE Preds(s) \cap batch = {}
      <4>1. Pending(s) = {}
        BY <1>1, <2>1, <2>3, <3>1 DEF Pending, Told
      <4> QED
        BY <1>1, <2>3, <4>1 DEF NoneForgotten
    <3>2. CASE Preds(s) \cap batch # {}
      <4>1. indeg'[s] = Cardinality(Pending(s)')
        BY <1>1, <2>3 DEF IInv, Queue
      <4>2. indeg'[s] = 0
        BY <2>3, <4>1, FS_EmptySet
      <4> QED
        BY <1>1, <3>2, <4>2
    <3> QED
      BY <3>1, <3>2
  <2> QED
    BY <1>1, <2>1, <2>2, <2>3 DEF NoneForgotten
<1>4. CompletedWhole'
  BY <1>1 DEF CompletedWhole
<1> QED
  BY <1>2, <1>3, <1>4 DEF Story

\* With nothing ready and nothing running, every step that is not skipped is
\* done: a first one that is not would have to be ready, for the graph has no
\* cycle.
LEMMA AllTold ==
    ASSUME IInv, NoneForgotten, status = "running", batch = {}, ready = {}
    PROVE  \A s \in Steps \ skipped : at[s] = "left"
<1> DEFINE X == {s \in Steps \ skipped : at[s] # "left"}
<1> SUFFICES ASSUME X # {} PROVE FALSE
  OBVIOUS
<1>1. PICK s \in X : \A p \in X : <<p, s>> \notin wf.edges
  <2>1. X \in (SUBSET Steps) \ {{}}
    OBVIOUS
  <2> HIDE DEF X
  <2> QED
    BY <2>1, WorkflowsAreDags DEF IInv, TypeOK
<1>2. \A p \in Preds(s) : p \in Steps \ skipped
  BY DEF IInv, SkipClosed, Preds, Succs, TypeOK
<1>3. \A p \in Preds(s) : Told(p)
  BY <1>1, <1>2 DEF Preds, Told
<1>4. Pending(s) = {}
  BY <1>3 DEF Pending
<1> QED
  BY <1>4 DEF NoneForgotten, Begun

\* The run ends completed only when all is told.
LEMMA FinishTold ==
    ASSUME IInv, Story, Finish
    PROVE  Story'
<1>1. /\ status = "running" /\ batch = {} /\ ready = {}
      /\ UNCHANGED <<wf, cancel, skipped, at, results, chosen>>
      /\ status' \in {"failed", "completed"}
      /\ status' = "completed" => \A s \in Steps : results[s] # "failed"
  BY DEF Finish
<1>2. Settled' /\ SkippedWhy' /\ FailuresOut'
  BY <1>1, LoopTold
<1>3. ASSUME status' = "completed", ~cancel', NEW s \in Steps
      PROVE  results'[s] = "completed" \/ \E c \in Steps : Unchosen(c, s)'
  <2>1. CASE s \in skipped
    BY <1>1, <1>2, <2>1 DEF SkippedWhy
  <2>2. CASE s \notin skipped
    <3>1. at[s] = "left"
      BY <1>1, <2>2, AllTold DEF Story
    <3> QED
      BY <1>1, <1>3, <3>1 DEF Story, Settled
  <2> QED
    BY <2>1, <2>2
<1>4. CompletedWhole'
  BY <1>3 DEF CompletedWhole, Unchosen
<1> QED
  BY <1>1, <1>2, <1>4 DEF Story

\* The other ends of a run complete nothing.
LEMMA OtherTold ==
    ASSUME IInv, Story, TopCancelled \/ TopExpired \/ SetCancel \/ TaskCancelled \/ UNCHANGED vars
    PROVE  Story'
<1>1. /\ UNCHANGED <<wf, ready, passed, skipped, at, results, chosen>>
      /\ cancel => cancel'
      /\ \/ status' = status /\ batch' = batch /\ (cancel' = cancel \/ status = "running")
         \/ status' \in {"failed", "cancelled"}
  BY DEF TopCancelled, TopExpired, SetCancel, TaskCancelled, Top, queueVars, vars
<1>2. Settled' /\ SkippedWhy' /\ FailuresOut'
  BY <1>1, LoopTold
<1>3. ASSUME status' = "running" PROVE NoneForgotten'
  <2>1. \A x \in Steps : Begun(x)' = Begun(x) /\ Pending(x)' = Pending(x)
    BY <1>1, <1>3 DEF Begun, Pending, Told, Preds
  <2> QED
    BY <1>1, <1>3, <2>1 DEF NoneForgotten, Story
<1>4. CompletedWhole'
  <2>1. CASE status' # "completed"
    BY <2>1 DEF CompletedWhole
  <2>2. CASE status' = "completed"
    <3>1. UNCHANGED <<wf, cancel, status, results, chosen>>
      BY <1>1, <2>2
    <3>2. \A x \in Steps : Succs(x)' = Succs(x)
      BY <3>1 DEF Succs
    <3>3. \A A : Downstream(A)' = Downstream(A)
      BY <3>2 DEF Downstream
    <3> QED
      BY <3>1, <3>2, <3>3 DEF Story, CompletedWhole
  <2> QED
    BY <2>1, <2>2
<1> QED
  BY <1>2, <1>3, <1>4 DEF Story

\* Before the run there is nothing to tell.
LEMMA StoryBegins == Init => Story
<1> SUFFICES ASSUME Init PROVE Story
  OBVIOUS
<1>1. \A s \in Steps : Pending(s) = {} => s \in ready
  <2> SUFFICES ASSUME NEW s \in Steps, Pending(s) = {} PROVE s \in ready
    OBVIOUS
  <2>1. Preds(s) = {}
    BY DEF Init, Pending, Told, Preds
  <2> QED
    BY <2>1, FS_EmptySet DEF Init
<1> QED
  BY <1>1 DEF Init, Story, Settled, SkippedWhy, FailuresOut, NoneForgotten, CompletedWhole, Begun, None

\* The story holds throughout.
LEMMA StoryAlways == Spec => [](IInv /\ Story)
<1>1. IInv /\ Story /\ [Next]_vars => (IInv /\ Story)'
  BY Inductive, StepTold, TakeTold, EndBatchTold, FinishTold, OtherTold DEF Next, Loop
<1> QED
  BY <1>1, Initially, StoryBegins, PTL DEF Spec

\* Types, for every DAG: in particular no in-degree falls below zero.
THEOREM WorkflowTypeCorrect == Spec => []TypeOK
<1>1. IInv => TypeOK
  BY DEF IInv
<1> QED
  BY <1>1, Always, PTL

\* Every step finds its predecessors' outputs: no step begins before they ended.
THEOREM StepsInOrder == Spec => []InOrder
<1>1. IInv => InOrder
  BY DEF IInv
<1> QED
  BY <1>1, Always, PTL

\* Conditionals and steps that run cannot meet: what is skipped never begins.
THEOREM SkippedStayIdle == Spec => []SkippedIdle
<1>1. IInv => SkippedIdle
  BY DEF IInv
<1> QED
  BY <1>1, Always, PTL

\* The queue hands every step out at most once.
THEOREM StepsTakenOnce == Spec => TakenOnce
<1>1. IInv /\ [Next]_vars => [\A s \in batch' \ batch : ~Begun(s)]_vars
  <2> SUFFICES ASSUME IInv, Next PROVE \A s \in batch' \ batch : ~Begun(s)
    OBVIOUS
  <2>1. CASE Take
    BY <2>1 DEF Take, Top, IInv, Queue
  <2>2. ASSUME NEW s \in Steps, StepGoes(s) PROVE batch' \subseteq batch
    BY <2>2, StepEffect DEF IInv, Effect
  <2>3. CASE TopCancelled \/ EndBatch \/ Finish \/ TopExpired \/ SetCancel \/ TaskCancelled
    BY <2>3 DEF TopCancelled, EndBatch, Finish, TopExpired, SetCancel, TaskCancelled
  <2> QED
    BY <2>1, <2>2, <2>3 DEF Next, Loop
<1> QED
  BY <1>1, Always, PTL DEF Spec, TakenOnce

\* A run that completes has completed every step but those behind branches
\* that were not chosen.
THEOREM CompletedRunsAreWhole == Spec => []CompletedWhole
<1>1. Story => CompletedWhole
  BY DEF Story
<1> QED
  BY <1>1, StoryAlways, PTL

\* A failure keeps the run from completing, and with fail_fast ends it.
THEOREM FailuresShow == Spec => []FailureShows
<1>1. Story => FailureShows
  BY DEF Story, FailuresOut, FailureShows
<1> QED
  BY <1>1, StoryAlways, PTL
=============================================================================
