---------------------------- MODULE ToolCallsProofs ----------------------------
(*****************************************************************************)
(* ToolCalls implements ToolBatch, for every set of calls and settings and   *)
(* every bound.  The invariant says what the stage of a call tells about the *)
(* batch; with it every action is a step of ToolBatch or a stutter.          *)
(*                                                                           *)
(* The middlewares need the batch only to know that a call in the pipeline   *)
(* is one of Calls.  WareInv says what the counters and the cache owe to the *)
(* history, RateInv that the runs of an open window are all on record.       *)
(*****************************************************************************)
EXTENDS ToolCalls, FiniteSetTheorems, TLAPS

\* A call that is not yet past its approval has neither consent nor run, one
\* that runs or was given up in an open batch has begun, and those that are done are
\* those with a result.
StageInv ==
    /\ setting \in Settings
    /\ batch \in Lists
    /\ hands \in BOOLEAN
    /\ open \in BOOLEAN
    /\ stage \in [Positions -> Stages]
    /\ results \in Seq(Positions)
    /\ begun \subseteq DOMAIN batch
    /\ granted \subseteq {c \in DOMAIN batch : NeedsConsent(batch[c])}
    /\ \A c \in Positions :
        /\ stage[c] # "off" => c \in DOMAIN batch
        /\ c \in DOMAIN batch => stage[c] # "off"
        /\ stage[c] \in {"queued", "guarding", "asking"} => c \notin begun \cup granted
        /\ stage[c] = "asking" => NeedsConsent(batch[c])
        /\ stage[c] = "running" => c \in begun
        /\ open /\ stage[c] = "gone" => c \in begun
        /\ open => (stage[c] = "done" <=> c \in Range(results))

\* The positions of a batch are among those of the model.
LEMMA ListDomain ==
    ASSUME NEW b \in Lists
    PROVE  /\ Len(b) \in 0 .. MaxCalls
           /\ DOMAIN b = 1 .. Len(b)
           /\ DOMAIN b \subseteq Positions
           /\ \A c \in DOMAIN b : b[c] \in Calls
  <1>1. PICK n \in 0 .. MaxCalls : b \in [1 .. n -> Calls]
    BY DEF Lists
  <1>2. MaxCalls \in Nat /\ n \in Nat
    BY ToolAssumption
  <1>3. Len(b) = n
    BY <1>1, <1>2
  <1> QED
    BY <1>1, <1>2, <1>3 DEF Positions

\* A result that is appended joins the range and leaves the rest.
LEMMA RangeAppend ==
    ASSUME NEW s \in Seq(Positions), NEW c \in Positions
    PROVE  /\ Append(s, c) \in Seq(Positions)
           /\ Range(Append(s, c)) = Range(s) \cup {c}
  <1>1. /\ Append(s, c) \in Seq(Positions)
        /\ Len(Append(s, c)) = Len(s) + 1
        /\ \A i \in 1 .. Len(s) : Append(s, c)[i] = s[i]
        /\ Append(s, c)[Len(s) + 1] = c
        /\ Len(s) \in Nat
    OBVIOUS
  <1>2. DOMAIN Append(s, c) = 1 .. Len(s) + 1 /\ DOMAIN s = 1 .. Len(s)
    BY <1>1
  <1>3. Range(Append(s, c)) \subseteq Range(s) \cup {c}
    BY <1>1, <1>2 DEF Range
  <1>4. Range(s) \cup {c} \subseteq Range(Append(s, c))
    <2>1. c \in Range(Append(s, c))
      BY <1>1, <1>2 DEF Range
    <2>2. ASSUME NEW x \in Range(s) PROVE x \in Range(Append(s, c))
      <3>1. PICK i \in DOMAIN s : x = s[i]
        BY DEF Range
      <3>2. i \in DOMAIN Append(s, c) /\ Append(s, c)[i] = x
        BY <3>1, <1>1, <1>2
      <3> QED
        BY <3>2 DEF Range
    <2> QED
      BY <2>1, <2>2
  <1> QED
    BY <1>1, <1>3, <1>4

\* The stages of a call that is not over.
Live == {"queued", "guarding", "asking", "running", "vetting", "storing"}

\* What StageInv says of one call.
StageOf(c) ==
    /\ stage[c] # "off" => c \in DOMAIN batch
    /\ c \in DOMAIN batch => stage[c] # "off"
    /\ stage[c] \in {"queued", "guarding", "asking"} => c \notin begun \cup granted
    /\ stage[c] = "asking" => NeedsConsent(batch[c])
    /\ stage[c] = "running" => c \in begun
    /\ open /\ stage[c] = "gone" => c \in begun
    /\ open => (stage[c] = "done" <=> c \in Range(results))

\* A call gets its result.
LEMMA SettleKeeps ==
    ASSUME StageInv, open, NEW c \in Positions, stage[c] \in Live, Settle(c),
           UNCHANGED <<setting, batch, hands, open, granted, begun>>
    PROVE  StageInv'
  <1>1. stage' \in [Positions -> Stages] /\ stage'[c] = "done"
        /\ \A d \in Positions \ {c} : stage'[d] = stage[d]
    BY DEF StageInv, Settle, Stages
  <1>2. results' \in Seq(Positions) /\ Range(results') = Range(results) \cup {c}
    BY RangeAppend DEF StageInv, Settle
  <1>3. /\ NeedsConsent(batch[c])' = NeedsConsent(batch[c])
        /\ \A d \in DOMAIN batch : NeedsConsent(batch[d])' = NeedsConsent(batch[d])
        /\ \A d \in Positions : NeedsConsent(batch[d])' = NeedsConsent(batch[d])
    BY DEF NeedsConsent
  <1>4. \A d \in Positions : StageOf(d)'
    <2> TAKE d \in Positions
    <2>1. CASE d = c
      BY <2>1, <1>1, <1>2 DEF StageInv, StageOf, Live
    <2>2. CASE d # c
      BY <2>2, <1>1, <1>2, <1>3 DEF StageInv, StageOf
    <2> QED
      BY <2>1, <2>2
  <1>5. granted' \subseteq {d \in DOMAIN batch' : NeedsConsent(batch[d])'}
    BY <1>3 DEF StageInv
  <1> QED
    BY <1>1, <1>2, <1>4, <1>5 DEF StageInv, StageOf

\* A call goes on to stage s: to running, with consent or where none is
\* needed, or past it, or it gives up after it ran.
LEMMA MoveKeeps ==
    ASSUME StageInv, open, NEW c \in Positions, stage[c] \in Live,
           NEW s \in Live \cup {"gone"}, s # "queued",
           stage' = [stage EXCEPT ![c] = s],
           begun' \in {begun, begun \cup {c}},
           granted' \in {granted, granted \cup {c}},
           c \in granted' \ granted => NeedsConsent(batch[c]),
           s \in {"guarding", "asking"} =>
              stage[c] \in {"queued", "guarding"} /\ begun' = begun /\ granted' = granted,
           s = "asking" => NeedsConsent(batch[c]),
           s \in {"running", "gone"} => c \in begun',
           UNCHANGED <<setting, batch, hands, open, results>>
    PROVE  StageInv'
  <1>1. stage' \in [Positions -> Stages] /\ stage'[c] = s
        /\ \A d \in Positions \ {c} : stage'[d] = stage[d]
    BY DEF StageInv, Stages, Live
  <1>2. c \in DOMAIN batch
    BY DEF StageInv, Live
  <1>3. \A d \in Positions : NeedsConsent(batch[d])' = NeedsConsent(batch[d])
    BY DEF NeedsConsent
  <1>4. \A d \in Positions : StageOf(d)'
    <2> TAKE d \in Positions
    <2>1. CASE d = c
      <3>1. s # "off" /\ s # "done" /\ stage[c] # "done"
        BY DEF Live
      <3>2. c \notin Range(results)
        BY <3>1 DEF StageInv
      <3> QED
        BY <2>1, <3>1, <3>2, <1>1, <1>2, <1>3 DEF StageInv, StageOf, Live
    <2>2. CASE d # c
      BY <2>2, <1>1, <1>3 DEF StageInv, StageOf
    <2> QED
      BY <2>1, <2>2
  <1>5. begun' \subseteq DOMAIN batch'
    BY <1>2 DEF StageInv
  <1>6. DOMAIN batch \subseteq Positions
    BY ListDomain DEF StageInv
  <1>7. granted' \subseteq {d \in DOMAIN batch' : NeedsConsent(batch[d])'}
    BY <1>2, <1>3, <1>6 DEF StageInv
  <1> QED
    BY <1>1, <1>4, <1>5, <1>7 DEF StageInv, StageOf

\* Steps that leave alone what ToolBatch sees.
LEMMA Unseen ==
    ASSUME UNCHANGED <<setting, batch, hands, granted, begun, answers, open>>
    PROVE  UNCHANGED Batch!batchVars
  <1>1. {c \in DOMAIN batch : NeedsConsent(batch[c])}' = {c \in DOMAIN batch : NeedsConsent(batch[c])}
    BY DEF NeedsConsent
  <1> QED
    BY <1>1 DEF Batch!batchVars

\* The two ways through the middleware.
LEMMA EnterWays ==
    ASSUME NEW c, Enter(c)
    PROVE  \/ stage' = [stage EXCEPT ![c] = "running"] /\ begun' = begun \cup {c}
           \/ stage' = [stage EXCEPT ![c] = "vetting"] /\ begun' = begun
  BY DEF Enter

\* A call that enters the middleware, with consent or where none is needed,
\* runs or passes by the tool.
LEMMA EnterRuns ==
    ASSUME StageInv, open, NEW c \in Positions, stage[c] \in {"guarding", "asking"},
           Enter(c),
           granted' \in {granted, granted \cup {c}},
           c \in granted' \ granted => NeedsConsent(batch[c]),
           NeedsConsent(batch[c]) => c \in granted',
           UNCHANGED <<setting, batch, hands, open, answers, results>>
    PROVE  StageInv' /\ [Batch!BatchNext]_(Batch!batchVars)
  <1>1. StageInv'
    BY MoveKeeps, EnterWays DEF Live
  <1>2. c \in DOMAIN batch /\ c \notin begun \cup granted
    BY DEF StageInv
  <1>3. {d \in DOMAIN batch : NeedsConsent(batch[d])}' = {d \in DOMAIN batch : NeedsConsent(batch[d])}
    BY DEF NeedsConsent
  <1>4. c \in 1 .. Len(batch) + IF hands THEN 1 ELSE 0
    BY <1>2, ListDomain DEF StageInv
  <1>5. CASE begun' = begun \cup {c}
    <2>1. Batch!Run(c)
      BY <1>2, <1>3, <1>4, <1>5 DEF Batch!Run
    <2> QED
      BY <1>1, <1>4, <2>1 DEF Batch!BatchNext
  <1>6. CASE begun' = begun /\ granted' # granted
    <2>1. Batch!Grant(c)
      BY <1>2, <1>3, <1>4, <1>6 DEF Batch!Grant
    <2> QED
      BY <1>1, <1>4, <2>1 DEF Batch!BatchNext
  <1>7. CASE begun' = begun /\ granted' = granted
    BY <1>1, <1>7, Unseen
  <1> QED
    BY <1>5, <1>6, <1>7, EnterWays

\* The steps of one call, but for those that end the batch.
LEMMA CallSteps ==
    ASSUME StageInv, NEW c \in Positions,
           \/ Admit(c) \/ Block(c) \/ GoAhead(c) \/ AskHuman(c) \/ Refuse(c)
           \/ Consent(c) \/ Succeed(c) \/ Err(c) \/ TimeOut(c) \/ Vet(c) \/ Externalize(c)
    PROVE  StageInv' /\ [Batch!BatchNext]_(Batch!batchVars)
  <1>1. CASE Admit(c)
    <2>1. UNCHANGED Batch!batchVars
      BY <1>1, Unseen DEF Admit, batchState
    <2>2. CASE Settle(c)
      BY <1>1, <2>1, <2>2, SettleKeeps DEF Admit, batchState, Live
    <2>3. CASE stage' = [stage EXCEPT ![c] = "guarding"] /\ UNCHANGED results
      BY <1>1, <2>1, <2>3, MoveKeeps DEF Admit, batchState, Live
    <2> QED
      BY <1>1, <2>2, <2>3 DEF Admit
  <1>2. CASE Block(c)
    BY <1>2, Unseen, SettleKeeps DEF Block, batchState, Live
  <1>3. CASE GoAhead(c)
    BY <1>3, EnterRuns DEF GoAhead, batchState
  <1>4. CASE AskHuman(c)
    BY <1>4, Unseen, MoveKeeps DEF AskHuman, batchState, Live
  <1>5. CASE Refuse(c)
    BY <1>5, Unseen, SettleKeeps DEF Refuse, batchState, Live
  <1>6. CASE Consent(c)
    <2>1. NeedsConsent(batch[c])
      BY <1>6 DEF Consent, StageInv
    <2> QED
      BY <1>6, <2>1, EnterRuns DEF Consent, batchState
  <1>7. CASE Succeed(c)
    BY <1>7, Unseen, MoveKeeps DEF Succeed, batchState, Live
  <1>8. CASE Err(c)
    BY <1>8, Unseen, MoveKeeps DEF Err, batchState, Live
  <1>9. CASE TimeOut(c)
    BY <1>9, Unseen, SettleKeeps DEF TimeOut, batchState, Live
  <1>10. CASE Vet(c)
    <2>1. UNCHANGED Batch!batchVars
      BY <1>10, Unseen DEF Vet, batchState
    <2>2. CASE Settle(c)
      BY <1>10, <2>1, <2>2, SettleKeeps DEF Vet, batchState, Live
    <2>3. CASE stage' = [stage EXCEPT ![c] = "storing"] /\ UNCHANGED results
      BY <1>10, <2>1, <2>3, MoveKeeps DEF Vet, batchState, Live
    <2> QED
      BY <1>10, <2>2, <2>3 DEF Vet
  <1>11. CASE Externalize(c)
    BY <1>11, Unseen, SettleKeeps DEF Externalize, batchState, Live
  <1> QED
    BY <1>1, <1>2, <1>3, <1>4, <1>5, <1>6, <1>7, <1>8, <1>9, <1>10, <1>11

\* An exception ends the batch.
LEMMA CollapseFails ==
    ASSUME StageInv, open, Collapse
    PROVE  StageInv' /\ [Batch!BatchNext]_(Batch!batchVars)
  <1>1. \A d \in Positions : NeedsConsent(batch[d])' = NeedsConsent(batch[d])
    BY DEF NeedsConsent, Collapse, batchState
  <1>2. {d \in DOMAIN batch : NeedsConsent(batch[d])}' = {d \in DOMAIN batch : NeedsConsent(batch[d])}
    BY DEF NeedsConsent, Collapse, batchState
  <1>3. stage' \in [Positions -> Stages]
        /\ \A d \in Positions : stage'[d] = IF stage[d] \in {"off", "done"} THEN stage[d] ELSE "gone"
    BY DEF Collapse, StageInv, Stages
  <1>4. StageInv'
    BY <1>1, <1>2, <1>3 DEF StageInv, Collapse, batchState
  <1>5. Batch!Fail
    BY <1>2 DEF Batch!Fail, Collapse, batchState
  <1> QED
    BY <1>4, <1>5 DEF Batch!BatchNext

\* A reply opens a batch.
LEMMA AskOpens ==
    ASSUME StageInv, NEW r \in Replies, Ask(r[1], r[2])
    PROVE  StageInv' /\ [Batch!BatchNext]_(Batch!batchVars)
  <1>1. batch' \in Lists /\ hands' \in BOOLEAN /\ open' /\ ~open
    BY ToolAssumption DEF Ask
  <1>2. /\ Len(batch') \in 0 .. MaxCalls
        /\ DOMAIN batch' = 1 .. Len(batch')
        /\ DOMAIN batch' \subseteq Positions
    BY <1>1, ListDomain
  <1>3. StageInv'
    <2>1. stage' \in [Positions -> Stages] /\ results' = <<>> /\ Range(results') = {}
      BY DEF Ask, Stages, Range
    <2> QED
      BY <1>1, <1>2, <2>1 DEF StageInv, Ask
  <1>4. DEFINE n == Len(batch') + IF hands' THEN 1 ELSE 0
  <1>5. n \in 0 .. MaxCalls + 1 /\ DOMAIN batch' \subseteq 1 .. n
    BY <1>1, <1>2, ToolAssumption
  <1>6. Batch!Open(1 .. n, {c \in DOMAIN batch' : NeedsConsent(batch[c])'})
    BY <1>1 DEF Batch!Open, Ask
  <1> QED
    BY <1>3, <1>5, <1>6 DEF Batch!BatchNext

\* The results are appended.
LEMMA CollectAnswers ==
    ASSUME StageInv, Collect
    PROVE  StageInv' /\ [Batch!BatchNext]_(Batch!batchVars)
  <1>1. \A d \in Positions : NeedsConsent(batch[d])' = NeedsConsent(batch[d])
    BY DEF NeedsConsent, Collect
  <1>2. {d \in DOMAIN batch : NeedsConsent(batch[d])}' = {d \in DOMAIN batch : NeedsConsent(batch[d])}
    BY DEF NeedsConsent, Collect
  <1>3. StageInv'
    BY <1>1, <1>2 DEF StageInv, Collect
  <1>4. /\ Len(batch) \in Nat
        /\ DOMAIN batch = 1 .. Len(batch)
        /\ DOMAIN batch \subseteq Positions
    BY ListDomain, ToolAssumption DEF StageInv
  <1>5. DEFINE asked == 1 .. Len(batch) + IF hands THEN 1 ELSE 0
               lost == {c \in DOMAIN batch : stage[c] = "gone"}
               settled == {c \in DOMAIN batch : c \in Range(results)}
               handoff == IF hands THEN {Len(batch) + 1} ELSE {}
  <1>6. lost \in SUBSET begun
    BY <1>4 DEF StageInv, Collect
  <1>7. settled = DOMAIN batch \ lost
    BY <1>4 DEF StageInv, Collect
  <1>8. asked = DOMAIN batch \cup handoff /\ handoff \cap DOMAIN batch = {}
    BY <1>4 DEF StageInv
  <1>9. asked \ lost = settled \cup handoff
    BY <1>7, <1>8
  <1>10. Batch!Answer(lost)
    BY <1>2, <1>6, <1>9 DEF Batch!Answer, Collect
  <1> QED
    BY <1>3, <1>6, <1>10 DEF Batch!BatchNext

\* Every step keeps the invariant and is a step of ToolBatch or a stutter.
LEMMA StepRefines ==
    ASSUME StageInv, [Next]_toolVars
    PROVE  StageInv' /\ [Batch!BatchNext]_(Batch!batchVars)
  <1>1. CASE UNCHANGED toolVars
    <2>1. UNCHANGED Batch!batchVars
      BY <1>1, Unseen DEF toolVars
    <2>2. StageInv'
      BY <1>1 DEF StageInv, toolVars, NeedsConsent
    <2> QED
      BY <2>1, <2>2
  <1>2. CASE \E r \in Replies : Ask(r[1], r[2])
    BY <1>2, AskOpens
  <1>3. ASSUME NEW c \in Positions, CallStep(c)
        PROVE  StageInv' /\ [Batch!BatchNext]_(Batch!batchVars)
    <2>1. CASE CancelItself(c)
      <3>1. CASE Alone
        BY <2>1, <3>1, CollapseFails DEF CancelItself
      <3>2. CASE ~Alone
        <4>1. open /\ stage[c] = "running" /\ c \in begun
          BY <2>1 DEF CancelItself, StageInv
        <4>2. stage' = [stage EXCEPT ![c] = "gone"]
              /\ UNCHANGED <<setting, open, batchState, results, granted, begun>>
          BY <2>1, <3>2 DEF CancelItself
        <4>3. StageInv'
          BY <4>1, <4>2, MoveKeeps DEF Live, batchState
        <4> QED
          BY <4>2, <4>3, Unseen DEF batchState
      <3> QED
        BY <3>1, <3>2
    <2>2. CASE StoreFails(c)
      BY <2>2, CollapseFails DEF StoreFails
    <2> QED
      BY <1>3, <2>1, <2>2, CallSteps DEF CallStep
  <1>4. CASE Collect
    BY <1>4, CollectAnswers
  <1>5. CASE Abort
    BY <1>5, CollapseFails DEF Abort
  <1>6. CASE Tick
    <2>1. UNCHANGED <<setting, batch, hands, stage, results, granted, begun, answers, open>>
      BY <1>6 DEF Tick, batchState
    <2>2. StageInv'
      BY <2>1 DEF StageInv, NeedsConsent
    <2> QED
      BY <2>1, <2>2, Unseen
  <1> QED
    BY <1>1, <1>2, <1>3, <1>4, <1>5, <1>6 DEF Next

\* The initial states hold the invariant and are initial states of ToolBatch.
LEMMA InitRefines == Init => StageInv /\ Batch!BatchInit
  <1> SUFFICES ASSUME Init PROVE StageInv /\ Batch!BatchInit
    OBVIOUS
  <1>1. Len(<<>>) = 0 /\ DOMAIN batch = {} /\ Range(results) = {} /\ batch = <<>>
    BY DEF Init, Range
  <1>2. batch \in Lists
    <2>1. 0 \in 0 .. MaxCalls /\ batch \in [1 .. 0 -> Calls]
      BY <1>1, ToolAssumption
    <2> QED
      BY <2>1 DEF Lists
  <1>3. StageInv
    <2>1. stage \in [Positions -> Stages] /\ \A c \in Positions : stage[c] = "off"
      BY DEF Init, Stages
    <2>2. results \in Seq(Positions) /\ open = FALSE /\ begun = {} /\ granted = {}
          /\ setting \in Settings /\ hands = FALSE
      BY DEF Init
    <2> QED
      BY <1>1, <1>2, <2>1, <2>2 DEF StageInv
  <1>4. Batch!BatchInit
    BY <1>1 DEF Batch!BatchInit, Init
  <1> QED
    BY <1>3, <1>4

\* _execute_tool_calls answers all calls at once in their order or none, runs
\* each at most once and none without the consent its approval mode asks for,
\* whatever guardrails, middleware, time-outs, cancellations and failing
\* stores do, for every batch, pipeline and limit.
THEOREM BatchesImplemented == Spec => BatchSpec
  <1>1. Init => StageInv /\ Batch!BatchInit
    BY InitRefines
  <1>2. StageInv /\ [Next]_toolVars => StageInv' /\ [Batch!BatchNext]_(Batch!batchVars)
    BY StepRefines
  <1> QED
    BY <1>1, <1>2, PTL DEF Spec, BatchSpec, Batch!BatchSpec

-----------------------------------------------------------------------------
\* The state of the middlewares alone; the batch is not needed for it.
WareInv ==
    /\ setting \in Settings
    /\ counts \in [Calls -> Nat]
    /\ ran \in [Calls -> Seq(Nat)]
    /\ cache \in [Calls -> Nat]
    /\ good \in [Calls -> Nat]
    /\ now \in Nat \ {0}
    /\ seen \subseteq Calls /\ IsFiniteSet(seen)
    /\ IsFiniteSet(Cached) /\ Cardinality(Cached) <= CacheSize
    /\ \A k \in Calls : cache[k] \in {0, good[k]}
    /\ ~Uses("cache") => Cached = {}
    /\ \A k \in Calls : counts[k] > 0 => k \in seen
    /\ Uses("loop") /\ Cardinality(seen) <= LoopKeys =>
          \A k \in Calls : Len(ran[k]) <= counts[k] /\ Len(ran[k]) <= MaxRepeats

\* A cache that loses an entry is sound.
LEMMA LookUpSound ==
    ASSUME WareInv, NEW k \in Calls, LookUp(k), UNCHANGED good
    PROVE  /\ cache' \in [Calls -> Nat]
           /\ IsFiniteSet(Cached') /\ Cardinality(Cached') <= CacheSize
           /\ \A j \in Calls : cache'[j] \in {0, good'[j]}
  <1>1. cache' \in [Calls -> Nat] /\ \A j \in Calls : cache'[j] \in {0, cache[j]}
    BY DEF WareInv, LookUp
  <1>2. Cached' \subseteq Cached
    BY <1>1 DEF Cached, WareInv
  <1>3. IsFiniteSet(Cached') /\ Cardinality(Cached') <= Cardinality(Cached)
    BY <1>2, FS_Subset DEF WareInv
  <1>4. Cardinality(Cached) \in Nat /\ Cardinality(Cached') \in Nat
    BY <1>3, FS_CardinalityType DEF WareInv
  <1> QED
    BY <1>1, <1>3, <1>4, ToolAssumption DEF WareInv

\* A call that is seen leaves the guard as it was, or counted by one more;
\* no counter is dropped as long as there is one for every call seen.
LEMMA CountBound ==
    ASSUME WareInv, NEW k \in Calls, Count(k), seen' = seen \cup {k}
    PROVE  /\ counts' \in [Calls -> Nat]
           /\ \A j \in Calls : counts'[j] > 0 => j \in seen'
           /\ Cardinality(seen') <= LoopKeys =>
                \A j \in Calls : counts'[j] = IF j = k /\ Sees("loop", k)
                                              THEN counts[j] + 1 ELSE counts[j]
           /\ IsFiniteSet(seen') /\ Cardinality(seen) <= Cardinality(seen')
           /\ Cardinality(seen) \in Nat /\ Cardinality(seen') \in Nat
  <1>1. IsFiniteSet(seen') /\ Cardinality(seen') \in Nat /\ Cardinality(seen) \in Nat
    BY FS_AddElement, FS_CardinalityType DEF WareInv
  <1>2. Cardinality(seen) <= Cardinality(seen')
    BY <1>1, FS_Subset DEF WareInv
  <1>3. CASE ~Sees("loop", k)
    BY <1>1, <1>2, <1>3 DEF Count, WareInv
  <1>4. CASE Sees("loop", k)
    <2> DEFINE more == [counts EXCEPT ![k] = @ + 1]
               kept == {j \in Calls : more[j] > 0}
               once == {j \in kept \ {k} : more[j] = 1}
    <2>1. more \in [Calls -> Nat] /\ more[k] = counts[k] + 1
          /\ \A j \in Calls : j # k => more[j] = counts[j]
      BY DEF WareInv
    <2>2. kept \subseteq seen'
      BY <2>1 DEF WareInv
    <2>3. Cardinality(kept) <= Cardinality(seen') /\ Cardinality(kept) \in Nat
      BY <2>2, <1>1, FS_Subset, FS_CardinalityType
    <2>4. CASE Cardinality(kept) > LoopKeys /\ once # {}
      <3>1. PICK j \in once : counts' = [more EXCEPT ![j] = 0]
        BY <1>4, <2>4 DEF Count
      <3>2. ~(Cardinality(seen') <= LoopKeys)
        BY <1>1, <2>3, <2>4, ToolAssumption
      <3>3. counts' \in [Calls -> Nat] /\ \A i \in Calls : counts'[i] > 0 => i \in seen'
        <4>1. j \in Calls
          OBVIOUS
        <4>2. counts' \in [Calls -> Nat] /\ \A i \in Calls : counts'[i] \in {0, more[i]}
          BY <3>1, <4>1, <2>1
        <4> QED
          BY <4>2, <2>1, <2>2
      <3> QED
        BY <1>1, <1>2, <3>2, <3>3
    <2>5. CASE ~(Cardinality(kept) > LoopKeys /\ once # {})
      <3>1. counts' = more
        BY <1>4, <2>5 DEF Count
      <3> QED
        BY <1>1, <1>2, <1>4, <3>1, <2>1, <2>2
    <2> QED
      BY <2>4, <2>5
  <1> QED
    BY <1>3, <1>4

\* A call that passes the whole pipeline was seen and let through by its guard.
LEMMA PassesLoop ==
    ASSUME WareInv, NEW k \in Calls, Passes(k), Uses("loop")
    PROVE  Sees("loop", k) /\ counts[k] + 1 <= MaxRepeats
  <1>1. setting.pipeline \in Seq(Middlewares)
    BY ToolAssumption DEF WareInv
  <1>2. PICK i \in DOMAIN setting.pipeline : setting.pipeline[i] = "loop"
    BY DEF Uses, Range
  <1>3. i \in 1 .. Len(setting.pipeline) /\ 1 .. i - 1 \subseteq DOMAIN setting.pipeline
    BY <1>1, <1>2
  <1>4. Sees("loop", k)
    BY <1>2, <1>3 DEF Passes, Sees
  <1>5. ~Stops("loop", k)
    BY <1>2 DEF Passes
  <1>6. counts[k] \in Nat /\ MaxRepeats \in Nat
    BY ToolAssumption DEF WareInv
  <1> QED
    BY <1>4, <1>5, <1>6 DEF Stops

\* A call in the pipeline keeps the invariant.
LEMMA EnterWare ==
    ASSUME WareInv, NEW c \in DOMAIN batch, batch[c] \in Calls, Enter(c),
           UNCHANGED <<setting, now, good>>
    PROVE  WareInv'
  <1> DEFINE k == batch[c]
  <1>1. k \in Calls /\ LookUp(k) /\ Count(k) /\ seen' = seen \cup {k}
    BY DEF Enter
  <1>2. /\ cache' \in [Calls -> Nat]
        /\ IsFiniteSet(Cached') /\ Cardinality(Cached') <= CacheSize
        /\ \A j \in Calls : cache'[j] \in {0, good'[j]}
    BY <1>1, LookUpSound
  <1>3. /\ counts' \in [Calls -> Nat]
        /\ \A j \in Calls : counts'[j] > 0 => j \in seen'
        /\ Cardinality(seen') <= LoopKeys =>
             \A j \in Calls : counts'[j] = IF j = k /\ Sees("loop", k)
                                           THEN counts[j] + 1 ELSE counts[j]
        /\ IsFiniteSet(seen') /\ Cardinality(seen) <= Cardinality(seen')
        /\ Cardinality(seen) \in Nat /\ Cardinality(seen') \in Nat
    BY <1>1, CountBound
  <1>4. ran' = IF Passes(k) THEN [ran EXCEPT ![k] = Append(@, now)] ELSE ran
    BY DEF Enter
  <1>5. ran' \in [Calls -> Seq(Nat)]
    BY <1>1, <1>4 DEF WareInv
  <1>6. ASSUME Uses("loop")', Cardinality(seen') <= LoopKeys
        PROVE  \A j \in Calls : Len(ran'[j]) <= counts'[j] /\ Len(ran'[j]) <= MaxRepeats
    <2>1. Uses("loop")
      BY <1>6 DEF Uses
    <2>2. \A j \in Calls : Len(ran[j]) <= counts[j] /\ Len(ran[j]) <= MaxRepeats
      BY <1>3, <1>6, <2>1, ToolAssumption DEF WareInv
    <2> TAKE j \in Calls
    <2>3. Len(ran[j]) \in Nat /\ counts[j] \in Nat /\ MaxRepeats \in Nat /\ ran[j] \in Seq(Nat)
      BY ToolAssumption DEF WareInv
    <2>4. CASE Passes(k) /\ j = k
      <3>1. Sees("loop", k) /\ counts[k] + 1 <= MaxRepeats
        BY <1>1, <2>1, <2>4, PassesLoop
      <3>2. ran'[j] = Append(ran[j], now)
        BY <1>1, <1>4, <2>4 DEF WareInv
      <3>3. Len(ran'[j]) = Len(ran[j]) + 1
        BY <3>2, <2>3
      <3>4. counts'[j] = counts[j] + 1
        BY <1>3, <1>6, <2>4, <3>1
      <3> QED
        BY <2>2, <2>3, <2>4, <3>1, <3>3, <3>4
    <2>5. CASE ~(Passes(k) /\ j = k)
      <3>1. ran'[j] = ran[j]
        BY <1>1, <1>4, <2>5 DEF WareInv
      <3>2. counts'[j] >= counts[j]
        BY <1>3, <1>6, <2>3
      <3>3. counts'[j] \in Nat
        BY <1>3
      <3> QED
        BY <2>2, <2>3, <3>1, <3>2, <3>3
    <2> QED
      BY <2>4, <2>5
  <1>7. seen' \subseteq Calls
    BY <1>1 DEF WareInv
  <1>8. setting' \in Settings /\ now' \in Nat \ {0} /\ good' \in [Calls -> Nat]
    BY DEF WareInv
  <1>9. ~Uses("cache")' => Cached' = {}
    BY <1>1 DEF WareInv, Uses, LookUp, Cached
  <1> QED
    BY <1>2, <1>3, <1>5, <1>6, <1>7, <1>8, <1>9 DEF WareInv

\* A set grows by at most one with an element.
LEMMA OneMore ==
    ASSUME NEW S, IsFiniteSet(S), NEW x
    PROVE  /\ IsFiniteSet(S \cup {x})
           /\ Cardinality(S \cup {x}) \in Nat
           /\ Cardinality(S \cup {x}) <= Cardinality(S) + 1
  <1>1. IsFiniteSet(S \cup {x})
        /\ Cardinality(S \cup {x}) = IF x \in S THEN Cardinality(S) ELSE Cardinality(S) + 1
    BY FS_AddElement
  <1>2. Cardinality(S) \in Nat
    BY FS_CardinalityType
  <1> QED
    BY <1>1, <1>2

\* A result that is stored keeps the cache within its limit and truthful.
LEMMA StoreWare ==
    ASSUME WareInv, NEW k \in Calls, Store(k), good' = [good EXCEPT ![k] = now],
           UNCHANGED <<setting, counts, now, ran, seen>>
    PROVE  WareInv'
  <1>1. good' \in [Calls -> Nat] /\ good'[k] = now
        /\ \A j \in Calls \ {k} : good'[j] = good[j]
    BY DEF WareInv
  <1>2. now \in Nat \ {0} /\ CacheSize \in Nat \ {0}
        /\ IsFiniteSet(Cached) /\ Cardinality(Cached) \in Nat
        /\ Cardinality(Cached) <= CacheSize /\ cache \in [Calls -> Nat]
    BY FS_CardinalityType, ToolAssumption DEF WareInv
  <1>3. /\ cache' \in [Calls -> Nat]
        /\ IsFiniteSet(Cached') /\ Cardinality(Cached') <= CacheSize
        /\ \A j \in Calls : cache'[j] \in {0, good'[j]}
    <2>1. CASE "cache" \notin Range(setting.pipeline)
      <3>1. cache' = cache
        BY <2>1 DEF Store
      <3>2. Cached = {} /\ Cached' = {}
        BY <2>1, <3>1 DEF WareInv, Uses, Cached
      <3>3. \A j \in Calls : cache[j] = 0
        BY <3>2 DEF Cached
      <3> QED
        BY <1>2, <3>1, <3>2, <3>3
    <2>2. CASE "cache" \in Range(setting.pipeline) /\ Cardinality(Cached) < CacheSize
      <3>1. cache' = [cache EXCEPT ![k] = now]
        BY <2>2 DEF Store
      <3>2. cache' \in [Calls -> Nat] /\ cache'[k] = now /\ \A j \in Calls \ {k} : cache'[j] = cache[j]
        BY <3>1, <1>2
      <3>3. Cached' = Cached \cup {k}
        BY <3>2, <1>2 DEF Cached
      <3>4. IsFiniteSet(Cached') /\ Cardinality(Cached') <= Cardinality(Cached) + 1
        <4>1. IsFiniteSet(Cached \cup {k})
              /\ Cardinality(Cached \cup {k}) <= Cardinality(Cached) + 1
          BY <1>2, OneMore
        <4> QED
          BY <3>3, <4>1
      <3>5. Cardinality(Cached') \in Nat
        BY <3>4, FS_CardinalityType
      <3>6. \A j \in Calls : cache'[j] \in {0, good'[j]}
        BY <3>2, <1>1 DEF WareInv
      <3> QED
        BY <3>2, <3>4, <3>5, <3>6, <2>2, <1>2
    <2>3. CASE "cache" \in Range(setting.pipeline) /\ ~(Cardinality(Cached) < CacheSize)
      <3>1. PICK o \in Cached : cache' = [cache EXCEPT ![o] = 0, ![k] = now]
        BY <2>3 DEF Store
      <3>2. o \in Calls
        BY DEF Cached
      <3>3. cache' \in [Calls -> Nat] /\ cache'[k] = now
            /\ \A j \in Calls \ {k} : cache'[j] = IF j = o THEN 0 ELSE cache[j]
        BY <3>1, <3>2, <1>2
      <3>4. Cached' = (Cached \ {o}) \cup {k}
        BY <3>3, <1>2 DEF Cached
      <3>5. IsFiniteSet(Cached \ {o}) /\ Cardinality(Cached \ {o}) = Cardinality(Cached) - 1
        BY <1>2, FS_RemoveElement
      <3>6. IsFiniteSet(Cached') /\ Cardinality(Cached') <= Cardinality(Cached \ {o}) + 1
        <4> DEFINE rest == Cached \ {o}
        <4>1. IsFiniteSet(rest)
          BY <3>5
        <4> HIDE DEF rest
        <4>2. IsFiniteSet(rest \cup {k})
              /\ Cardinality(rest \cup {k}) <= Cardinality(rest) + 1
          BY <4>1, OneMore
        <4> QED
          BY <3>4, <4>2 DEF rest
      <3>7. Cardinality(Cached') \in Nat
        BY <3>6, FS_CardinalityType
      <3>8. \A j \in Calls : cache'[j] \in {0, good'[j]}
        BY <3>3, <1>1 DEF WareInv
      <3> QED
        BY <3>3, <3>5, <3>6, <3>7, <3>8, <1>2
    <2> QED
      BY <2>1, <2>2, <2>3
  <1>4. Uses("loop")' = Uses("loop") /\ Uses("cache")' = Uses("cache")
    BY DEF Uses
  <1>5. ~Uses("cache") => Cached' = {}
    BY DEF WareInv, Uses, Store, Cached
  <1> QED
    BY <1>1, <1>3, <1>4, <1>5 DEF WareInv

\* Steps that touch neither the middlewares nor what the history says of them.
LEMMA WareUnseen ==
    ASSUME WareInv, UNCHANGED <<setting, wares, now, past>>
    PROVE  WareInv'
  BY DEF WareInv, wares, past, Cached, Uses

\* Every step keeps the invariant; StageInv says which call is in the pipeline.
LEMMA WareStep ==
    ASSUME StageInv, WareInv, [Next]_toolVars
    PROVE  WareInv'
  <1>1. CASE UNCHANGED toolVars
    BY <1>1, WareUnseen DEF toolVars, wares, past
  <1>2. CASE \E r \in Replies : Ask(r[1], r[2])
    BY <1>2, WareUnseen DEF Ask
  <1>3. ASSUME NEW c \in Positions, CallStep(c) PROVE WareInv'
    <2>1. c \in DOMAIN batch => batch[c] \in Calls
      BY ListDomain DEF StageInv
    <2>2. CASE GoAhead(c)
      <3>1. c \in DOMAIN batch
        BY <2>2 DEF GoAhead, StageInv
      <3> QED
        BY <2>1, <2>2, <3>1, EnterWare DEF GoAhead
    <2>3. CASE Consent(c)
      <3>1. c \in DOMAIN batch
        BY <2>3 DEF Consent, StageInv
      <3> QED
        BY <2>1, <2>3, <3>1, EnterWare DEF Consent
    <2>4. CASE Succeed(c)
      <3>1. c \in DOMAIN batch
        BY <2>4 DEF Succeed, StageInv
      <3> QED
        BY <2>1, <2>4, <3>1, StoreWare DEF Succeed
    <2>5. CASE \/ Admit(c) \/ Block(c) \/ AskHuman(c) \/ Refuse(c) \/ Err(c)
               \/ TimeOut(c) \/ CancelItself(c) \/ Vet(c) \/ Externalize(c) \/ StoreFails(c)
      <3>1. UNCHANGED <<setting, wares, now, past>>
        BY <2>5 DEF Admit, Block, AskHuman, Refuse, Err, TimeOut, CancelItself,
                    Vet, Externalize, StoreFails, Collapse
      <3> QED
        BY <3>1, WareUnseen
    <2> QED
      BY <1>3, <2>2, <2>3, <2>4, <2>5 DEF CallStep
  <1>4. CASE Collect
    BY <1>4, WareUnseen DEF Collect
  <1>5. CASE Abort
    BY <1>5, WareUnseen DEF Abort, Collapse
  <1>6. CASE Tick
    <2>1. now' \in Nat \ {0}
      BY <1>6 DEF Tick, WareInv
    <2>2. UNCHANGED <<setting, cache, counts, ran, good, seen>>
      BY <1>6 DEF Tick, wares, past
    <2> QED
      BY <2>1, <2>2 DEF WareInv, Cached, Uses
  <1> QED
    BY <1>1, <1>2, <1>3, <1>4, <1>5, <1>6 DEF Next

\* The invariant holds at first: nothing is counted, stored or seen.
LEMMA WareInit == Init => WareInv
  <1> SUFFICES ASSUME Init PROVE WareInv
    OBVIOUS
  <1>1. Cached = {} /\ Cardinality(Cached) = 0 /\ IsFiniteSet(Cached)
    BY FS_EmptySet DEF Init, Cached
  <1>2. IsFiniteSet(seen) /\ seen = {}
    BY FS_EmptySet DEF Init
  <1>3. ran \in [Calls -> Seq(Nat)] /\ \A k \in Calls : Len(ran[k]) = 0
    BY DEF Init
  <1> QED
    BY <1>1, <1>2, <1>3, ToolAssumption DEF Init, WareInv

\* LoopGuardMiddleware lets no call run more often than max_repeats, in
\* every order of a pipeline, for every batch and every overlap of its calls.
THEOREM RepeatsAreBounded == Spec => []RepeatsBounded
  <1>1. Init => StageInv /\ WareInv
    BY InitRefines, WareInit
  <1>2. StageInv /\ WareInv /\ [Next]_toolVars => (StageInv /\ WareInv)'
    BY StepRefines, WareStep
  <1>3. WareInv => RepeatsBounded
    BY DEF WareInv, RepeatsBounded
  <1> QED
    BY <1>1, <1>2, <1>3, PTL DEF Spec

\* CacheMiddleware never holds more than max_entries, and no result but the
\* last good one of a call.
THEOREM CacheIsSound == Spec => []CacheSound
  <1>1. Init => StageInv /\ WareInv
    BY InitRefines, WareInit
  <1>2. StageInv /\ WareInv /\ [Next]_toolVars => (StageInv /\ WareInv)'
    BY StepRefines, WareStep
  <1>3. WareInv => CacheSound
    BY DEF WareInv, CacheSound, Cached
  <1> QED
    BY <1>1, <1>2, <1>3, PTL DEF Spec

-----------------------------------------------------------------------------
(* The rate limit.                                                           *)

SeenTools == {k[1] : k \in seen}

\* The runs that RunsIn counts.
RunSet(t, from, to) ==
    UNION {{<<k, i>> : i \in {j \in DOMAIN ran[k] : ran[k][j] \in from .. to}} :
              k \in {k \in Calls : k[1] = t}}

\* The entries of tool t since from.
Since(t, from) == {e \in times[t] : e.at >= from}

\* What is on record of a tool.  Entries of one time differ in their places.
RecordInv(t) ==
    /\ times[t] \subseteq [at : Nat, place : Nat]
    /\ IsFiniteSet(times[t])
    /\ times[t] # {} => t \in SeenTools
    /\ \A e \in times[t] : e.at <= now
    /\ \A e \in Recent(t) : e.at = now => e.place <= Cardinality(Recent(t))

\* As long as a window is open, each run in it is on record.
LimitInv(t, from) ==
    LET runs == RunsIn(t, from, from + Window - 1) IN
    /\ from + Window > now => runs <= Cardinality(Since(t, from))
    /\ runs <= RateCalls

RateInv ==
    /\ IsFiniteSet(SeenTools)
    /\ times = [t \in Tools |-> times[t]]
    /\ \A t \in Tools : RecordInv(t)
    /\ \A t \in Tools : \A from, to \in Nat : IsFiniteSet(RunSet(t, from, to))
    /\ Uses("rate") /\ Cardinality(SeenTools) <= RateKeys =>
          \A t \in Tools : \A from \in Nat \ {0} : LimitInv(t, from)

\* A run belongs to its tool and its time.
LEMMA RunSetElements ==
    ASSUME NEW t, NEW from, NEW to, NEW x
    PROVE  x \in RunSet(t, from, to) <=>
              \E k \in Calls : \E i \in DOMAIN ran[k] :
                  k[1] = t /\ ran[k][i] \in from .. to /\ x = <<k, i>>
    BY DEF RunSet

\* A call that is run now joins the runs of its tool.
LEMMA RunSetGrows ==
    ASSUME WareInv, NEW k \in Calls, ran' = [ran EXCEPT ![k] = Append(@, now)],
           NEW t \in Tools, NEW from \in Nat, NEW to \in Nat
    PROVE  RunSet(t, from, to)' =
              IF t = k[1] /\ now \in from .. to
              THEN RunSet(t, from, to) \cup {<<k, Len(ran[k]) + 1>>}
              ELSE RunSet(t, from, to)
<1>1. /\ ran \in [Calls -> Seq(Nat)] /\ now \in Nat
      /\ \A j \in Calls : Len(ran[j]) \in Nat /\ DOMAIN ran[j] = 1 .. Len(ran[j])
    BY DEF WareInv
<1>2. /\ \A j \in Calls : j # k => ran'[j] = ran[j]
      /\ ran'[k] = Append(ran[k], now)
      /\ Len(ran[k]) + 1 \in DOMAIN ran'[k] /\ DOMAIN ran'[k] = 1 .. Len(ran[k]) + 1
      /\ ran'[k][Len(ran[k]) + 1] = now
      /\ \A i \in 1 .. Len(ran[k]) : ran'[k][i] = ran[k][i]
    BY <1>1
<1>3. ASSUME NEW x
      PROVE  x \in RunSet(t, from, to)' <=>
                \E j \in Calls : \E i \in DOMAIN ran'[j] :
                    j[1] = t /\ ran'[j][i] \in from .. to /\ x = <<j, i>>
    BY DEF RunSet
<1>4. ASSUME NEW x \in RunSet(t, from, to)'
      PROVE  \/ x \in RunSet(t, from, to)
             \/ t = k[1] /\ now \in from .. to /\ x = <<k, Len(ran[k]) + 1>>
  <2>0. PICK j \in Calls : \E i \in DOMAIN ran'[j] :
            j[1] = t /\ ran'[j][i] \in from .. to /\ x = <<j, i>>
      BY <1>3
  <2>1. PICK i \in DOMAIN ran'[j] : j[1] = t /\ ran'[j][i] \in from .. to /\ x = <<j, i>>
      BY <2>0
  <2>2. CASE j = k /\ i = Len(ran[k]) + 1
      BY <1>2, <2>1, <2>2
  <2>3. CASE ~(j = k /\ i = Len(ran[k]) + 1)
    <3>1. i \in DOMAIN ran[j] /\ ran[j][i] = ran'[j][i]
        BY <1>1, <1>2, <2>1, <2>3
    <3> QED
        BY <2>1, <3>1, RunSetElements
  <2> QED
      BY <2>2, <2>3
<1>5. ASSUME NEW x \in RunSet(t, from, to)
      PROVE  x \in RunSet(t, from, to)'
  <2>0. PICK j \in Calls : \E i \in DOMAIN ran[j] :
            j[1] = t /\ ran[j][i] \in from .. to /\ x = <<j, i>>
      BY RunSetElements
  <2>1. PICK i \in DOMAIN ran[j] : j[1] = t /\ ran[j][i] \in from .. to /\ x = <<j, i>>
      BY <2>0
  <2>2. i \in DOMAIN ran'[j] /\ ran'[j][i] = ran[j][i]
      BY <1>1, <1>2
  <2> QED
      BY <1>3, <2>1, <2>2
<1>6. ASSUME t = k[1], now \in from .. to
      PROVE  <<k, Len(ran[k]) + 1>> \in RunSet(t, from, to)'
    BY <1>2, <1>3, <1>6
<1> QED
    BY <1>4, <1>5, <1>6

\* RateBounded counts these runs, the cardinality of a finite set.
LEMMA RunsCount ==
    ASSUME RateInv, NEW t \in Tools, NEW from \in Nat, NEW to \in Nat
    PROVE  /\ RunsIn(t, from, to) = Cardinality(RunSet(t, from, to))
           /\ IsFiniteSet(RunSet(t, from, to))
           /\ RunsIn(t, from, to) \in Nat
<1>1. IsFiniteSet(RunSet(t, from, to))
    BY DEF RateInv
<1> QED
    BY <1>1, FS_CardinalityType DEF RunsIn, RunSet

\* What is on record can be counted, and a new entry is one more.
LEMMA EntryIsNew ==
    ASSUME WareInv, RateInv, NEW t \in Tools
    PROVE  /\ IsFiniteSet(Recent(t)) /\ Cardinality(Recent(t)) \in Nat
           /\ Entry(t) \in [at : Nat, place : Nat] /\ Entry(t) \notin Recent(t)
<1>1. RecordInv(t) /\ now \in Nat
    BY DEF RateInv, WareInv
<1>2. Recent(t) \subseteq times[t]
    BY DEF Recent
<1>3. IsFiniteSet(Recent(t)) /\ Cardinality(Recent(t)) \in Nat
    BY <1>1, <1>2, FS_Subset, FS_CardinalityType DEF RecordInv
<1>4. Entry(t).at = now /\ Entry(t).place = Cardinality(Recent(t)) + 1
    BY DEF Entry
<1>5. Entry(t) \notin Recent(t)
  <2>1. \A e \in Recent(t) : e.at = now => e.place # Cardinality(Recent(t)) + 1
    <3>1. ASSUME NEW e \in Recent(t), e.at = now
          PROVE  e.place # Cardinality(Recent(t)) + 1
      <4>1. e.place \in Nat /\ e.place <= Cardinality(Recent(t))
          BY <1>1, <1>2, <3>1 DEF RecordInv
      <4> QED
          BY <1>3, <4>1
    <3> QED
        BY <3>1
  <2> QED
      BY <1>4, <2>1
<1>6. Entry(t) \in [at : Nat, place : Nat]
    BY <1>1, <1>3 DEF Entry
<1> QED
    BY <1>3, <1>5, <1>6

\* What a call that is seen does to its tool's list.
LEMMA ClockWays ==
    ASSUME RateInv, NEW k \in Calls, Clock(k), NEW t, t = k[1]
    PROVE  /\ t \in Tools /\ times' = [u \in Tools |-> times'[u]]
           /\ \A u \in Tools \ {t} : times'[u] = times[u]
           /\ \/ ~Sees("rate", k) /\ times'[t] = times[t]
              \/ Stops("rate", k) /\ times'[t] = Recent(t)
              \/ Crowded(t) /\ Recent(t) = {} /\ times'[t] = {}
              \/ Sees("rate", k) /\ times'[t] = Recent(t) \cup {Entry(t)}
<1>1. k[1] \in Tools
    BY DEF Tools
<1>2. times = [u \in Tools |-> times[u]]
    BY DEF RateInv
<1> QED
    BY <1>1, <1>2 DEF Clock

\* The tool's record is kept in shape.
LEMMA RecordStep ==
    ASSUME WareInv, RateInv, NEW k \in Calls, Clock(k),
           now' = now, seen' = seen \cup {k}
    PROVE  /\ \A t \in Tools : RecordInv(t)'
           /\ SeenTools' = SeenTools \cup {k[1]}
<1>1. SeenTools' = SeenTools \cup {k[1]}
    BY DEF SeenTools
<1>2. ASSUME NEW t \in Tools, t # k[1]
      PROVE  RecordInv(t)'
  <2>1. times'[t] = times[t] /\ Recent(t)' = Recent(t) /\ RecordInv(t)
      BY <1>2, ClockWays DEF Recent, RateInv
  <2> QED
      BY <1>1, <2>1 DEF RecordInv
<1>3. ASSUME NEW t, t = k[1]
      PROVE  RecordInv(t)'
  <2>1. /\ t \in Tools /\ RecordInv(t) /\ now \in Nat
        /\ \/ times'[t] = times[t]
           \/ times'[t] = Recent(t)
           \/ times'[t] = {}
           \/ times'[t] = Recent(t) \cup {Entry(t)}
      BY <1>3, ClockWays DEF RateInv, WareInv
  <2>2. /\ IsFiniteSet(Recent(t)) /\ Cardinality(Recent(t)) \in Nat
        /\ Entry(t) \in [at : Nat, place : Nat] /\ Entry(t) \notin Recent(t)
      BY <2>1, EntryIsNew
  <2>3. Recent(t) = {e \in times[t] : e.at + Window > now}
      BY DEF Recent
  <2>4. Recent(t)' = {e \in times'[t] : e.at + Window > now}
      BY DEF Recent
  <2>5. t \in SeenTools' /\ now' = now
      BY <1>1, <1>3
  <2>6. Entry(t).at = now /\ Entry(t).place = Cardinality(Recent(t)) + 1
      BY DEF Entry
  <2>7. CASE times'[t] = times[t]
    <3>1. Recent(t)' = Recent(t)
        BY <2>3, <2>4, <2>7
    <3> QED
        BY <2>1, <2>5, <2>7, <3>1 DEF RecordInv
  <2>8. CASE times'[t] = Recent(t)
    <3>1. Recent(t)' = Recent(t)
        BY <2>3, <2>4, <2>8
    <3> QED
        BY <2>1, <2>2, <2>3, <2>5, <2>8, <3>1 DEF RecordInv
  <2>9. CASE times'[t] = {}
    <3>1. Recent(t)' = {}
        BY <2>4, <2>9
    <3>2. IsFiniteSet(times'[t])
        BY <2>9, FS_EmptySet
    <3> QED
        BY <2>5, <2>9, <3>1, <3>2 DEF RecordInv
  <2>10. CASE times'[t] = Recent(t) \cup {Entry(t)}
    <3>1. IsFiniteSet(times'[t])
        BY <2>2, <2>10, FS_AddElement
    <3>2. times'[t] \subseteq [at : Nat, place : Nat] /\ \A e \in times'[t] : e.at <= now
        BY <2>1, <2>2, <2>3, <2>6, <2>10 DEF RecordInv
    <3>3. CASE Window = 0
      <4>1. Recent(t)' = {}
          BY <2>1, <2>4, <3>2, <3>3
      <4> QED
          BY <2>5, <3>1, <3>2, <4>1 DEF RecordInv
    <3>4. CASE Window # 0
      <4>1. now + Window > now
          BY <2>1, <3>4, ToolAssumption
      <4>2. Recent(t)' = Recent(t) \cup {Entry(t)}
          BY <2>3, <2>4, <2>6, <2>10, <4>1
      <4>3. Cardinality(Recent(t)') = Cardinality(Recent(t)) + 1
          BY <2>2, <4>2, FS_AddElement
      <4>4. \A e \in Recent(t)' : e.at = now => e.place <= Cardinality(Recent(t)')
        <5>1. ASSUME NEW e \in Recent(t), e.at = now
              PROVE  e.place <= Cardinality(Recent(t)) + 1
          <6>1. e.place \in Nat /\ e.place <= Cardinality(Recent(t))
              BY <2>1, <2>3, <5>1 DEF RecordInv
          <6> QED
              BY <2>2, <6>1
        <5> QED
            BY <2>2, <2>6, <4>2, <4>3, <5>1
      <4> QED
          BY <2>5, <3>1, <3>2, <4>4 DEF RecordInv
    <3> QED
        BY <3>3, <3>4
  <2> QED
      BY <2>1, <2>7, <2>8, <2>9, <2>10
<1> QED
    BY <1>1, <1>2, <1>3

\* The runs of a window are one more when it holds now, and else as many.
LEMMA RunsInStep ==
    ASSUME WareInv, RateInv, NEW k \in Calls, ran' = [ran EXCEPT ![k] = Append(@, now)],
           NEW t \in Tools, NEW from \in Nat, NEW to \in Nat
    PROVE  /\ IsFiniteSet(RunSet(t, from, to)')
           /\ t = k[1] /\ now \in from .. to => RunsIn(t, from, to)' = RunsIn(t, from, to) + 1
           /\ ~(t = k[1] /\ now \in from .. to) => RunsIn(t, from, to)' = RunsIn(t, from, to)
<1>1. RunsIn(t, from, to)' = Cardinality(RunSet(t, from, to)')
    BY DEF RunsIn, RunSet
<1>2. /\ RunsIn(t, from, to) = Cardinality(RunSet(t, from, to))
      /\ IsFiniteSet(RunSet(t, from, to)) /\ RunsIn(t, from, to) \in Nat
    BY RunsCount
<1>3. <<k, Len(ran[k]) + 1>> \notin RunSet(t, from, to)
  <2>1. ran[k] \in Seq(Nat)
      BY DEF WareInv
  <2>2. Len(ran[k]) + 1 \notin DOMAIN ran[k]
      BY <2>1
  <2> QED
      BY <2>2, RunSetElements
<1>4. CASE t = k[1] /\ now \in from .. to
  <2>1. RunSet(t, from, to)' = RunSet(t, from, to) \cup {<<k, Len(ran[k]) + 1>>}
      BY <1>4, RunSetGrows
  <2>2. /\ IsFiniteSet(RunSet(t, from, to) \cup {<<k, Len(ran[k]) + 1>>})
        /\ Cardinality(RunSet(t, from, to) \cup {<<k, Len(ran[k]) + 1>>}) =
              Cardinality(RunSet(t, from, to)) + 1
      BY <1>2, <1>3, FS_AddElement
  <2>3. RunsIn(t, from, to)' = RunsIn(t, from, to) + 1
      BY <1>1, <1>2, <2>1, <2>2
  <2> QED
      BY <1>4, <2>1, <2>2, <2>3
<1>5. CASE ~(t = k[1] /\ now \in from .. to)
  <2>1. RunSet(t, from, to)' = RunSet(t, from, to)
      BY <1>5, RunSetGrows
  <2> QED
      BY <1>1, <1>2, <1>5, <2>1
<1> QED
    BY <1>4, <1>5

\* A call that passes the whole pipeline was seen and let through by the limit.
LEMMA PassesRate ==
    ASSUME WareInv, NEW k \in Calls, Passes(k), Uses("rate")
    PROVE  Sees("rate", k) /\ ~Stops("rate", k)
<1>1. setting.pipeline \in Seq(Middlewares)
    BY ToolAssumption DEF WareInv
<1>2. PICK i \in DOMAIN setting.pipeline : setting.pipeline[i] = "rate"
    BY DEF Uses, Range
<1>3. i \in 1 .. Len(setting.pipeline) /\ 1 .. i - 1 \subseteq DOMAIN setting.pipeline
    BY <1>1, <1>2
<1>4. Sees("rate", k)
    BY <1>2, <1>3 DEF Passes, Sees
<1>5. ~Stops("rate", k)
    BY <1>2 DEF Passes
<1> QED
    BY <1>4, <1>5

\* As long as the limiter has a list for every tool it saw, none is lost.
LEMMA NotCrowded ==
    ASSUME RateInv, NEW t \in Tools, Cardinality(SeenTools \cup {t}) <= RateKeys
    PROVE  ~Crowded(t)
<1> DEFINE lists == {u \in Tools \ {t} : times[u] # {}}
           others == (SeenTools \cup {t}) \ {t}
<1>1. lists \subseteq others
    BY DEF RateInv, RecordInv
<1>2. IsFiniteSet(SeenTools \cup {t})
    BY FS_AddElement DEF RateInv
<1>3. IsFiniteSet(others) /\ Cardinality(others) = Cardinality(SeenTools \cup {t}) - 1
    BY <1>2, FS_RemoveElement
<1>4. Cardinality(lists) <= Cardinality(others) /\ IsFiniteSet(lists)
    BY <1>1, <1>3, FS_Subset
<1>5. Cardinality(lists) \in Nat /\ Cardinality(SeenTools \cup {t}) \in Nat
    BY <1>2, <1>4, FS_CardinalityType
<1>6. ~(Cardinality(lists) >= RateKeys)
    BY <1>3, <1>4, <1>5, ToolAssumption
<1> QED
    BY <1>6 DEF Crowded

\* What an open window has on record stays there, and a call that is let
\* through is put on it.
LEMMA SinceStep ==
    ASSUME WareInv, RateInv, NEW k \in Calls, Clock(k),
           Cardinality(SeenTools \cup {k[1]}) <= RateKeys,
           NEW t \in Tools, NEW from \in Nat, from + Window > now
    PROVE  /\ IsFiniteSet(Since(t, from)) /\ Since(t, from) \subseteq Recent(t)
           /\ Since(t, from)' =
                IF t = k[1] /\ Sees("rate", k) /\ ~Stops("rate", k) /\ from <= now
                THEN Since(t, from) \cup {Entry(t)} ELSE Since(t, from)
<1>1. /\ RecordInv(t) /\ now \in Nat /\ Window \in Nat
      /\ Recent(t) = {e \in times[t] : e.at + Window > now}
      /\ Since(t, from) = {e \in times[t] : e.at >= from}
      /\ Since(t, from)' = {e \in times'[t] : e.at >= from}
      /\ Entry(t).at = now
    BY ToolAssumption DEF RateInv, WareInv, Recent, Since, Entry
<1>2. ASSUME NEW e \in times[t], e.at >= from
      PROVE  e \in Recent(t)
  <2>1. e.at \in Nat
      BY <1>1 DEF RecordInv
  <2> QED
      BY <1>1, <1>2, <2>1
<1>3. Since(t, from) \subseteq Recent(t)
    BY <1>1, <1>2
<1>4. IsFiniteSet(Since(t, from))
  <2>1. Since(t, from) \subseteq times[t]
      BY <1>1
  <2> QED
      BY <1>1, <2>1, FS_Subset DEF RecordInv
<1>5. {e \in Recent(t) : e.at >= from} = Since(t, from)
    BY <1>1, <1>3
<1>6. CASE t # k[1]
  <2>1. times'[t] = times[t]
      BY <1>6, ClockWays
  <2> QED
      BY <1>1, <1>3, <1>4, <1>6, <2>1
<1>7. CASE t = k[1]
  <2>1. ~Crowded(t)
      BY <1>7, NotCrowded
  <2>2. CASE ~(Sees("rate", k) /\ ~Stops("rate", k))
    <3>1. times'[t] = times[t] \/ times'[t] = Recent(t)
        BY <1>7, <2>2 DEF Clock, RateInv
    <3> QED
        BY <1>1, <1>3, <1>4, <1>5, <2>2, <3>1
  <2>3. CASE Sees("rate", k) /\ ~Stops("rate", k)
    <3>1. times'[t] = Recent(t) \cup {Entry(t)}
        BY <1>7, <2>1, <2>3 DEF Clock, RateInv
    <3>2. Since(t, from)' = {e \in Recent(t) : e.at >= from}
                            \cup {e \in {Entry(t)} : e.at >= from}
        BY <1>1, <3>1
    <3> QED
        BY <1>1, <1>3, <1>4, <1>5, <1>7, <2>3, <3>2
  <2> QED
      BY <2>2, <2>3
<1> QED
    BY <1>6, <1>7

\* The limit holds for a call that comes to the middleware.
LEMMA LimitStep ==
    ASSUME WareInv, RateInv, NEW k \in Calls, Clock(k), now' = now,
           Uses("rate"), Cardinality(SeenTools) <= RateKeys,
           Cardinality(SeenTools \cup {k[1]}) <= RateKeys,
           ran' = IF Passes(k) THEN [ran EXCEPT ![k] = Append(@, now)] ELSE ran,
           NEW t \in Tools, NEW from \in Nat \ {0}
    PROVE  LimitInv(t, from)'
<1>0. /\ from \in Nat /\ from # 0 /\ now \in Nat /\ Window \in Nat /\ RateCalls \in Nat
      /\ from + Window - 1 \in Nat
  <2>1. Window \in Nat /\ RateCalls \in Nat /\ now \in Nat
      BY ToolAssumption DEF WareInv
  <2> QED
      BY <2>1
<1>1. PICK to \in Nat : to = from + Window - 1
    BY <1>0
<1>2. /\ IsFiniteSet(RunSet(t, from, to)) /\ RunsIn(t, from, to) \in Nat
      /\ from + Window > now => RunsIn(t, from, to) <= Cardinality(Since(t, from))
      /\ RunsIn(t, from, to) <= RateCalls
    BY <1>0, <1>1, RunsCount DEF RateInv, LimitInv
<1>3. Passes(k) => Sees("rate", k) /\ ~Stops("rate", k)
    BY PassesRate
<1>4. RunsIn(t, from, to)' = RunsIn(t, from, to) +
                             IF Passes(k) /\ t = k[1] /\ now \in from .. to THEN 1 ELSE 0
  <2>1. CASE Passes(k)
    <3>1. ran' = [ran EXCEPT ![k] = Append(@, now)]
        BY <2>1
    <3>2. from \in Nat /\ to \in Nat
        BY <1>0, <1>1
    <3>3. /\ IsFiniteSet(RunSet(t, from, to)')
          /\ t = k[1] /\ now \in from .. to => RunsIn(t, from, to)' = RunsIn(t, from, to) + 1
          /\ ~(t = k[1] /\ now \in from .. to) => RunsIn(t, from, to)' = RunsIn(t, from, to)
        BY <3>1, <3>2, RunsInStep
    <3> QED
        BY <1>2, <2>1, <3>3
  <2>2. CASE ~Passes(k)
    <3>1. RunsIn(t, from, to)' = RunsIn(t, from, to)
        BY <2>2 DEF RunsIn
    <3> QED
        BY <1>2, <2>2, <3>1
  <2> QED
      BY <2>1, <2>2
<1>5. CASE from + Window > now
  <2>1. /\ IsFiniteSet(Since(t, from)) /\ Since(t, from) \subseteq Recent(t)
        /\ Since(t, from)' =
             IF t = k[1] /\ Sees("rate", k) /\ ~Stops("rate", k) /\ from <= now
             THEN Since(t, from) \cup {Entry(t)} ELSE Since(t, from)
      BY <1>0, <1>1, <1>5, SinceStep
  <2>2. /\ IsFiniteSet(Recent(t)) /\ Cardinality(Recent(t)) \in Nat
        /\ Entry(t) \notin Since(t, from)
      BY <2>1, EntryIsNew
  <2>3. Cardinality(Since(t, from)) \in Nat
        /\ Cardinality(Since(t, from)) <= Cardinality(Recent(t))
      BY <2>1, <2>2, FS_Subset, FS_CardinalityType
  <2>4. Cardinality(Since(t, from) \cup {Entry(t)}) = Cardinality(Since(t, from)) + 1
      BY <2>1, <2>2, FS_AddElement
  <2>5. now \in from .. to <=> from <= now
      BY <1>0, <1>1, <1>5
  <2>6. CASE Passes(k) /\ t = k[1] /\ from <= now
    <3>1. RunsIn(t, from, to)' = RunsIn(t, from, to) + 1
        BY <1>4, <2>5, <2>6
    <3>2. Since(t, from)' = Since(t, from) \cup {Entry(t)}
        BY <1>3, <2>1, <2>6
    <3>3. Cardinality(Recent(t)) < RateCalls
      <4>1. ~(Cardinality(Recent(t)) >= RateCalls)
          BY <1>3, <2>6 DEF Stops
      <4> QED
          BY <1>0, <1>1, <2>2, <4>1
    <3>4. /\ RunsIn(t, from, to)' <= Cardinality(Since(t, from)')
          /\ RunsIn(t, from, to)' <= RateCalls
        BY <1>0, <1>1, <1>2, <1>5, <2>2, <2>3, <2>4, <3>1, <3>2, <3>3
    <3> QED
        BY <1>0, <1>1, <3>4 DEF LimitInv
  <2>7. CASE ~(Passes(k) /\ t = k[1] /\ from <= now)
    <3>1. RunsIn(t, from, to)' = RunsIn(t, from, to)
        BY <1>2, <1>4, <2>5, <2>7
    <3>2. Cardinality(Since(t, from)') >= Cardinality(Since(t, from))
          /\ Cardinality(Since(t, from)') \in Nat
        BY <2>1, <2>3, <2>4
    <3>3. /\ RunsIn(t, from, to)' <= Cardinality(Since(t, from)')
          /\ RunsIn(t, from, to)' <= RateCalls
        BY <1>2, <1>5, <2>3, <3>1, <3>2
    <3> QED
        BY <1>0, <1>1, <3>3 DEF LimitInv
  <2> QED
      BY <2>6, <2>7
<1>6. CASE ~(from + Window > now)
  <2>1. now \notin from .. to
      BY <1>0, <1>1, <1>6
  <2>2. RunsIn(t, from, to)' = RunsIn(t, from, to)
      BY <1>2, <1>4, <2>1
  <2> QED
      BY <1>1, <1>2, <1>6, <2>2 DEF LimitInv
<1> QED
    BY <1>5, <1>6

\* A call in the pipeline keeps the invariant.
LEMMA EnterRate ==
    ASSUME WareInv, RateInv, NEW c \in DOMAIN batch, batch[c] \in Calls, Enter(c),
           UNCHANGED <<setting, now>>
    PROVE  RateInv'
<1>1. PICK k \in Calls : k = batch[c]
    OBVIOUS
<1>2. /\ Clock(k) /\ seen' = seen \cup {k}
      /\ ran' = IF Passes(k) THEN [ran EXCEPT ![k] = Append(@, now)] ELSE ran
    BY <1>1 DEF Enter
<1>3. (\A t \in Tools : RecordInv(t)') /\ SeenTools' = SeenTools \cup {k[1]}
    BY <1>2, RecordStep
<1>4. times' = [t \in Tools |-> times'[t]]
    BY <1>2, ClockWays
<1>5. /\ IsFiniteSet(SeenTools') /\ IsFiniteSet(SeenTools)
      /\ Cardinality(SeenTools) <= Cardinality(SeenTools')
      /\ Cardinality(SeenTools) \in Nat /\ Cardinality(SeenTools') \in Nat
  <2>1. IsFiniteSet(SeenTools) /\ IsFiniteSet(SeenTools')
      BY <1>3, FS_AddElement DEF RateInv
  <2> QED
      BY <1>3, <2>1, FS_Subset, FS_CardinalityType
<1>6. ASSUME NEW t \in Tools, NEW from \in Nat, NEW to \in Nat
      PROVE  IsFiniteSet(RunSet(t, from, to)')
  <2>1. CASE Passes(k)
      BY <1>2, <2>1, RunsInStep
  <2>2. CASE ~Passes(k)
    <3>1. RunSet(t, from, to)' = RunSet(t, from, to)
        BY <1>2, <2>2 DEF RunSet
    <3> QED
        BY <3>1, RunsCount
  <2> QED
      BY <2>1, <2>2
<1>7. ASSUME Uses("rate")', Cardinality(SeenTools') <= RateKeys,
             NEW t \in Tools, NEW from \in Nat \ {0}
      PROVE  LimitInv(t, from)'
  <2>1. Uses("rate")
      BY <1>7 DEF Uses
  <2>2. Cardinality(SeenTools) <= RateKeys
      BY <1>5, <1>7, ToolAssumption
  <2> QED
      BY <1>2, <1>3, <1>7, <2>1, <2>2, LimitStep
<1> QED
    BY <1>3, <1>4, <1>5, <1>6, <1>7 DEF RateInv

\* Steps that touch neither the limiter nor what the history says of it.
LEMMA RateUnseen ==
    ASSUME RateInv, UNCHANGED <<setting, times, now, ran, seen>>
    PROVE  RateInv'
<1>1. SeenTools' = SeenTools /\ Uses("rate")' = Uses("rate")
    BY DEF SeenTools, Uses
<1>2. \A t \in Tools : RecordInv(t)' = RecordInv(t)
    BY <1>1 DEF RecordInv, Recent
<1>3. \A t \in Tools : \A from, to \in Nat : RunSet(t, from, to)' = RunSet(t, from, to)
    BY DEF RunSet
<1>4. \A t \in Tools : \A from \in Nat \ {0} : LimitInv(t, from)' = LimitInv(t, from)
    BY DEF LimitInv, RunsIn, Since
<1> QED
    BY <1>1, <1>2, <1>3, <1>4 DEF RateInv

\* A tick adds nothing to a record, and an open window was open before.
LEMMA TickRate ==
    ASSUME WareInv, RateInv, Tick
    PROVE  RateInv'
<1>1. /\ UNCHANGED <<setting, times, ran, seen>> /\ now' = now + 1 /\ now \in Nat
      /\ Window \in Nat
    BY ToolAssumption DEF Tick, wares, past, WareInv
<1>2. ASSUME NEW t \in Tools
      PROVE  RecordInv(t)'
  <2>1. RecordInv(t)
      BY DEF RateInv
  <2>2. \A e \in times[t] : e.at \in Nat /\ e.at <= now
      BY <2>1 DEF RecordInv
  <2>3. \A e \in times'[t] : e.at <= now' /\ e.at # now'
      BY <1>1, <2>2
  <2>4. Recent(t)' \subseteq times'[t]
      BY DEF Recent
  <2>5. SeenTools' = SeenTools
      BY <1>1 DEF SeenTools
  <2> QED
      BY <1>1, <2>1, <2>3, <2>4, <2>5 DEF RecordInv
<1>3. ASSUME NEW t \in Tools, NEW from \in Nat \ {0}, LimitInv(t, from)
      PROVE  LimitInv(t, from)'
  <2>1. Since(t, from)' = Since(t, from)
      BY <1>1 DEF Since
  <2>2. RunsIn(t, from, from + Window - 1)' = RunsIn(t, from, from + Window - 1)
      BY <1>1 DEF RunsIn
  <2>3. from + Window > now' => from + Window > now
      BY <1>1
  <2> QED
      BY <1>3, <2>1, <2>2, <2>3 DEF LimitInv
<1>4. \A t \in Tools : \A from, to \in Nat : RunSet(t, from, to)' = RunSet(t, from, to)
    BY <1>1 DEF RunSet
<1>5. SeenTools' = SeenTools /\ Uses("rate")' = Uses("rate")
    BY <1>1 DEF SeenTools, Uses
<1> QED
    BY <1>1, <1>2, <1>3, <1>4, <1>5 DEF RateInv

\* Every step keeps the invariant.
LEMMA RateStep ==
    ASSUME StageInv, WareInv, RateInv, [Next]_toolVars
    PROVE  RateInv'
<1>1. CASE UNCHANGED toolVars
    BY <1>1, RateUnseen DEF toolVars
<1>2. CASE \E r \in Replies : Ask(r[1], r[2])
    BY <1>2, RateUnseen DEF Ask, wares, past
<1>3. ASSUME NEW c \in Positions, CallStep(c)
      PROVE  RateInv'
  <2>1. c \in DOMAIN batch => batch[c] \in Calls
      BY ListDomain DEF StageInv
  <2>2. CASE GoAhead(c)
    <3>1. c \in DOMAIN batch
        BY <2>2 DEF GoAhead, StageInv
    <3> QED
        BY <2>1, <2>2, <3>1, EnterRate DEF GoAhead
  <2>3. CASE Consent(c)
    <3>1. c \in DOMAIN batch
        BY <2>3 DEF Consent, StageInv
    <3> QED
        BY <2>1, <2>3, <3>1, EnterRate DEF Consent
  <2>4. CASE \/ Admit(c) \/ Block(c) \/ AskHuman(c) \/ Refuse(c) \/ Err(c) \/ Succeed(c)
             \/ TimeOut(c) \/ CancelItself(c) \/ Vet(c) \/ Externalize(c) \/ StoreFails(c)
    <3>1. UNCHANGED <<setting, times, now, ran, seen>>
        BY <2>4 DEF Admit, Block, AskHuman, Refuse, Err, Succeed, TimeOut, CancelItself,
                    Vet, Externalize, StoreFails, Collapse, wares, past
    <3> QED
        BY <3>1, RateUnseen
  <2> QED
      BY <1>3, <2>2, <2>3, <2>4 DEF CallStep
<1>4. CASE Collect
    BY <1>4, RateUnseen DEF Collect, wares, past
<1>5. CASE Abort
    BY <1>5, RateUnseen DEF Abort, Collapse, wares, past
<1>6. CASE Tick
    BY <1>6, TickRate
<1> QED
    BY <1>1, <1>2, <1>3, <1>4, <1>5, <1>6 DEF Next

\* At first nothing ran and nothing is on record.
LEMMA RateInit == Init => RateInv
<1> SUFFICES ASSUME Init
             PROVE  RateInv
    OBVIOUS
<1>1. seen = {} /\ times = [t \in Tools |-> {}] /\ \A k \in Calls : ran[k] = <<>>
    BY DEF Init
<1>2. SeenTools = {} /\ IsFiniteSet(SeenTools)
    BY <1>1, FS_EmptySet DEF SeenTools
<1>3. \A t \in Tools : Recent(t) = {} /\ times[t] = {}
    BY <1>1 DEF Recent
<1>4. \A t \in Tools : RecordInv(t)
    BY <1>3, FS_EmptySet DEF RecordInv
<1>5. \A t, from, to : RunSet(t, from, to) = {} /\ RunsIn(t, from, to) = 0
  <2> TAKE t, from, to
  <2>1. RunSet(t, from, to) = {}
    <3>1. \A k \in Calls : DOMAIN ran[k] = {}
        BY <1>1
    <3> QED
        BY <3>1, RunSetElements
  <2> QED
      BY <2>1, FS_EmptySet DEF RunsIn, RunSet
<1>6. ASSUME NEW t \in Tools, NEW from \in Nat \ {0}
      PROVE  LimitInv(t, from)
  <2>1. Since(t, from) = {} /\ Cardinality(Since(t, from)) = 0
      BY <1>3, FS_EmptySet DEF Since
  <2>2. RateCalls \in Nat
      BY ToolAssumption
  <2> QED
      BY <1>5, <2>1, <2>2 DEF LimitInv
<1> QED
    BY <1>1, <1>2, <1>4, <1>5, <1>6, FS_EmptySet DEF RateInv

\* RateLimitMiddleware lets no window of time see more than max_calls runs of
\* a tool, for every order of a pipeline, every window and every batch.
THEOREM RatesAreBounded == Spec => []RateBounded
<1>1. Init => StageInv /\ WareInv /\ RateInv
    BY InitRefines, WareInit, RateInit
<1>2. StageInv /\ WareInv /\ RateInv /\ [Next]_toolVars => (StageInv /\ WareInv /\ RateInv)'
    BY StepRefines, WareStep, RateStep
<1>3. RateInv => RateBounded
  <2> SUFFICES ASSUME RateInv, Uses("rate"), Cardinality(SeenTools) <= RateKeys,
                      NEW t \in Tools, NEW from \in 1 .. MaxTime
               PROVE  RunsIn(t, from, from + Window - 1) <= RateCalls
      BY DEF RateBounded, SeenTools
  <2>1. from \in Nat \ {0}
      BY ToolAssumption
  <2> QED
      BY <2>1 DEF RateInv, LimitInv
<1> QED
    BY <1>1, <1>2, <1>3, PTL DEF Spec

=============================================================================
