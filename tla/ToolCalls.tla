------------------------------- MODULE ToolCalls -------------------------------
(*****************************************************************************)
(* _execute_tool_calls (kasaya/kasaya/runner/runner.py): the calls of one    *)
(* reply side by side, each through guardrails, the consent of a human and   *)
(* the middleware of kasaya/kasaya/tools/middleware.py, whose state is       *)
(* shared by all calls and outlives the batch.                               *)
(*                                                                           *)
(* A stage is a place where a call awaits something.  The built-in           *)
(* middlewares await nothing, so their hooks before and after a tool run in  *)
(* one step with what surrounds them.                                        *)
(*****************************************************************************)
EXTENDS Naturals, FiniteSets, SequencesExt

CONSTANTS
    Calls,          \* pairs <<tool, arguments>>: what an LLM may call
    Known,          \* the tools the agent has
    Risky,          \* the tools that classify_tool_risk sends to a human
    Settings,       \* records: mode, handler (there is one), pipeline (each
                    \* middleware at most once, as the service builds it), limit
                    \* (max_tool_concurrency, 0 for None)
    Replies,        \* what an LLM may reply: pairs of the calls before the
                    \* first handoff and whether there is a handoff
    MaxCalls,       \* calls in a reply before its handoff
    MaxRepeats,     \* LoopGuardMiddleware
    LoopKeys,       \* its _max_keys
    RateCalls,      \* RateLimitMiddleware: max_calls
    Window,         \* window_seconds
    RateKeys,       \* its _max_keys
    Ttl,            \* CacheMiddleware
    CacheSize,      \* max_entries
    MaxBatches,     \* bound of the model: replies with tool calls
    MaxTime         \* bound of the model: the clock

Middlewares == {"cache", "loop", "rate"}

Lists == UNION {[1 .. n -> Calls] : n \in 0 .. MaxCalls}

ASSUME ToolAssumption ==
    /\ MaxCalls \in Nat /\ MaxBatches \in Nat /\ MaxTime \in Nat \ {0}
    /\ MaxRepeats \in Nat /\ LoopKeys \in Nat
    /\ RateCalls \in Nat \ {0} /\ Window \in Nat /\ RateKeys \in Nat
    /\ Ttl \in Nat /\ CacheSize \in Nat \ {0}
    /\ Replies \subseteq Lists \X BOOLEAN
    /\ Settings \subseteq
         [mode : {"full-auto", "auto-edit", "suggest"}, handler : BOOLEAN,
          pipeline : Seq(Middlewares), limit : Nat]

VARIABLES
    setting,    \* the RunConfig
    batch,      \* normal_tool_calls
    hands,      \* a handoff follows them
    open,       \* the batch is being executed
    stage,      \* where each call is
    results,    \* tool_results: the calls that have a result, oldest first
    answers,    \* the positions whose results were appended to the messages
    granted,    \* calls a human consented to
    begun,      \* calls whose tool was run
    cache,      \* CacheMiddleware._cache: the time of each entry, 0 for none
    counts,     \* LoopGuardMiddleware._call_counts
    times,      \* RateLimitMiddleware._call_times: the entries of each list
    now,        \* time.monotonic()
    batches,    \* batches so far
    ran,        \* history: when each call's tool was run
    good,       \* history: when it last succeeded, 0 for never
    seen        \* history: the calls that came to the middleware

batchState == <<batch, hands, answers, batches>>
wares == <<cache, counts, times>>
past == <<ran, good, seen>>
toolVars == <<setting, batch, hands, open, stage, results, answers, granted,
              begun, cache, counts, times, now, batches, ran, good, seen>>

Positions == 1 .. MaxCalls
Tools == {k[1] : k \in Calls}
Stages == {"off", "queued", "guarding", "asking", "running", "vetting",
           "storing", "done", "gone"}

Init ==
    /\ setting \in Settings
    /\ batch = <<>>
    /\ hands = FALSE
    /\ open = FALSE
    /\ stage = [c \in Positions |-> "off"]
    /\ results = <<>>
    /\ answers = <<>>
    /\ granted = {}
    /\ begun = {}
    /\ cache = [k \in Calls |-> 0]
    /\ counts = [k \in Calls |-> 0]
    /\ times = [t \in Tools |-> {}]
    /\ now = 1
    /\ batches = 0
    /\ ran = [k \in Calls |-> <<>>]
    /\ good = [k \in Calls |-> 0]
    /\ seen = {}

\* A reply with calls.  What follows its first handoff is not looked at.
Ask(calls, h) ==
    /\ ~open
    /\ batches < MaxBatches
    /\ batch' = calls
    /\ hands' = h
    /\ open' = TRUE
    /\ stage' = [c \in Positions |-> IF c \in DOMAIN calls THEN "queued" ELSE "off"]
    /\ results' = <<>>
    /\ answers' = <<>>
    /\ granted' = {}
    /\ begun' = {}
    /\ batches' = batches + 1
    /\ UNCHANGED <<setting, wares, now, past>>

\* Mutant: a call that cancels itself keeps its slot.
InsideLeaky == {c \in Positions : stage[c] \notin {"off", "queued", "done"}}

\* Calls inside the semaphore.
Inside == {c \in Positions : stage[c] \in
             {"guarding", "asking", "running", "vetting", "storing"}}

\* A lone call is awaited in place; several are tasks of a group.
Alone == Len(batch) = 1

\* asyncio.Semaphore serves its waiters in order, and tasks begin in order.
First(c) == \A d \in Positions : stage[d] = "queued" => c <= d
HasSlot ==
    Alone \/ setting.limit = 0 \/ Cardinality(Inside) < setting.limit

\* Call c has its result.
Settle(c) ==
    /\ stage' = [stage EXCEPT ![c] = "done"]
    /\ results' = Append(results, c)

Admit(c) ==
    /\ open
    /\ stage[c] = "queued" /\ First(c) /\ HasSlot
    /\ IF batch[c][1] \in Known
       THEN stage' = [stage EXCEPT ![c] = "guarding"] /\ UNCHANGED results
       ELSE Settle(c)
    /\ UNCHANGED <<setting, open, batchState, granted, begun, wares, now, past>>

\* A guardrail blocks the call before it runs.
Block(c) ==
    /\ open
    /\ stage[c] = "guarding"
    /\ Settle(c)
    /\ UNCHANGED <<setting, open, batchState, granted, begun, wares, now, past>>

-----------------------------------------------------------------------------
\* The middleware pipeline, before the tool.

Fresh(k) == cache[k] # 0 /\ now - cache[k] < Ttl

\* Mutant: the window is one tick short.
RecentShort(t) == {e \in times[t] : e.at + Window > now + 1}

\* The calls of tool t in the present window.
Recent(t) == {e \in times[t] : e.at + Window > now}

\* Mutant: the counter is compared before the call is counted.
StopsLate(w, k) ==
    \/ w = "cache" /\ Fresh(k)
    \/ w = "loop"  /\ counts[k] > MaxRepeats
    \/ w = "rate"  /\ Cardinality(Recent(k[1])) >= RateCalls

\* Middleware w answers the call itself.
Stops(w, k) ==
    \/ w = "cache" /\ Fresh(k)
    \/ w = "loop"  /\ counts[k] + 1 > MaxRepeats
    \/ w = "rate"  /\ Cardinality(Recent(k[1])) >= RateCalls

\* The middlewares that see the call: up to the first that stops it.
Sees(w, k) ==
    \E i \in DOMAIN setting.pipeline :
        /\ setting.pipeline[i] = w
        /\ \A j \in 1 .. i - 1 : ~Stops(setting.pipeline[j], k)
Passes(k) == \A i \in DOMAIN setting.pipeline : ~Stops(setting.pipeline[i], k)

\* An entry past its time is dropped.
LookUp(k) ==
    cache' = IF Sees("cache", k) /\ ~Fresh(k) THEN [cache EXCEPT ![k] = 0] ELSE cache

\* Past LoopKeys counters, one of the others that is at 1 is dropped.
Count(k) ==
    IF ~Sees("loop", k) THEN UNCHANGED counts
    ELSE LET more == [counts EXCEPT ![k] = @ + 1]
             kept == {j \in Calls : more[j] > 0}
             once == {j \in kept \ {k} : more[j] = 1}
         IN  IF Cardinality(kept) > LoopKeys /\ once # {}
             THEN \E j \in once : counts' = [more EXCEPT ![j] = 0]
             ELSE counts' = more

\* Past RateKeys tools, the lists that are empty are dropped, the one the
\* call is about to enter among them: then it is entered in a lost list.
Crowded(t) ==
    Cardinality({u \in Tools \ {t} : times[u] # {}}) >= RateKeys

\* An entry of a list is its time and its place when it was appended.
Entry(t) == [at |-> now, place |-> Cardinality(Recent(t)) + 1]

Clock(k) ==
    LET t == k[1] IN
    times' = IF ~Sees("rate", k) THEN times
             ELSE IF Stops("rate", k) THEN [times EXCEPT ![t] = Recent(t)]
             ELSE IF Recent(t) = {} /\ Crowded(t) THEN [times EXCEPT ![t] = {}]
             ELSE [times EXCEPT ![t] = Recent(t) \cup {Entry(t)}]

\* From consent into the pipeline, and out of it again or into the tool.
Enter(c) ==
    LET k == batch[c] IN
    /\ LookUp(k) /\ Count(k) /\ Clock(k)
    /\ seen' = seen \cup {k}
    /\ IF Passes(k)
       THEN /\ stage' = [stage EXCEPT ![c] = "running"]
            /\ begun' = begun \cup {c}
            /\ ran' = [ran EXCEPT ![k] = Append(@, now)]
       ELSE /\ stage' = [stage EXCEPT ![c] = "vetting"]
            /\ UNCHANGED <<begun, ran>>

-----------------------------------------------------------------------------
\* _check_approval.

NeedsConsent(k) ==
    \/ setting.mode = "suggest"
    \/ setting.mode = "auto-edit" /\ k[1] \in Risky

\* What all of this amounts to for the runner.
Batch == INSTANCE ToolBatch WITH
    Longest <- MaxCalls + 1,
    asked   <- 1 .. Len(batch) + IF hands THEN 1 ELSE 0,
    needs   <- {c \in DOMAIN batch : NeedsConsent(batch[c])}

\* No consent is needed.
GoAhead(c) ==
    /\ open
    /\ stage[c] = "guarding"
    /\ ~NeedsConsent(batch[c])
    /\ Enter(c)
    /\ UNCHANGED <<setting, open, batchState, results, granted, now, good>>

AskHuman(c) ==
    /\ open
    /\ stage[c] = "guarding"
    /\ NeedsConsent(batch[c]) /\ setting.handler
    /\ stage' = [stage EXCEPT ![c] = "asking"]
    /\ UNCHANGED <<setting, open, batchState, results, granted, begun, wares, now, past>>

\* The handler raises, says no or lets its time pass, or there is none.
Refuse(c) ==
    /\ open
    /\ \/ stage[c] = "asking"
       \/ stage[c] = "guarding" /\ NeedsConsent(batch[c]) /\ ~setting.handler
    /\ Settle(c)
    /\ UNCHANGED <<setting, open, batchState, granted, begun, wares, now, past>>

Consent(c) ==
    /\ open
    /\ stage[c] = "asking"
    /\ granted' = granted \cup {c}
    /\ Enter(c)
    /\ UNCHANGED <<setting, open, batchState, results, now, good>>

-----------------------------------------------------------------------------
\* The tool and what follows it.

Cached == {k \in Calls : cache[k] # 0}

\* Mutant: an entry is made room for only once the limit is passed.
StoreFull(k) ==
    IF "cache" \notin Range(setting.pipeline) THEN UNCHANGED cache
    ELSE IF Cardinality(Cached) <= CacheSize THEN cache' = [cache EXCEPT ![k] = now]
    ELSE \E o \in Cached :
            /\ \A j \in Cached : cache[o] <= cache[j]
            /\ cache' = [cache EXCEPT ![o] = 0, ![k] = now]

\* CacheMiddleware.after_execute: at its limit the oldest entry goes first.
Store(k) ==
    IF "cache" \notin Range(setting.pipeline) THEN UNCHANGED cache
    ELSE IF Cardinality(Cached) < CacheSize THEN cache' = [cache EXCEPT ![k] = now]
    ELSE \E o \in Cached :
            /\ \A j \in Cached : cache[o] <= cache[j]
            /\ cache' = [cache EXCEPT ![o] = 0, ![k] = now]

Succeed(c) ==
    /\ open
    /\ stage[c] = "running"
    /\ Store(batch[c])
    /\ good' = [good EXCEPT ![batch[c]] = now]
    /\ stage' = [stage EXCEPT ![c] = "vetting"]
    /\ UNCHANGED <<setting, open, batchState, results, granted, begun, counts, times, now, ran, seen>>

\* The tool answers "Error: ...", which the cache does not keep.
Err(c) ==
    /\ open
    /\ stage[c] = "running"
    /\ stage' = [stage EXCEPT ![c] = "vetting"]
    /\ UNCHANGED <<setting, open, batchState, results, granted, begun, wares, now, past>>

\* RunConfig.tool_timeout: what would come after the tool is left out.
TimeOut(c) ==
    /\ open
    /\ stage[c] = "running"
    /\ Settle(c)
    /\ UNCHANGED <<setting, open, batchState, granted, begun, wares, now, past>>

\* The batch ends by an exception: the group cancels the other calls, and
\* nothing is appended to the messages.
Collapse ==
    /\ open' = FALSE
    /\ stage' = [c \in Positions |->
                    IF stage[c] \in {"off", "done"} THEN stage[c] ELSE "gone"]
    /\ UNCHANGED <<setting, batchState, results, granted, begun, wares, now, past>>

\* The tool raises CancelledError: a group takes that for the end of the
\* task, and a lone call takes the run along.
CancelItself(c) ==
    /\ open
    /\ stage[c] = "running"
    /\ IF Alone THEN Collapse
       ELSE /\ stage' = [stage EXCEPT ![c] = "gone"]
            /\ UNCHANGED <<setting, open, batchState, results, granted, begun, wares, now, past>>

\* The guardrails after the tool pass or replace the result, which is big
\* enough for the artifact store or not.
Vet(c) ==
    /\ open
    /\ stage[c] = "vetting"
    /\ \/ stage' = [stage EXCEPT ![c] = "storing"] /\ UNCHANGED results
       \/ Settle(c)
    /\ UNCHANGED <<setting, open, batchState, granted, begun, wares, now, past>>

Externalize(c) ==
    /\ open
    /\ stage[c] = "storing"
    /\ Settle(c)
    /\ UNCHANGED <<setting, open, batchState, granted, begun, wares, now, past>>

\* The store fails, outside every try of the call.
StoreFails(c) ==
    /\ open
    /\ stage[c] = "storing"
    /\ Collapse

\* The run is cancelled while the batch is awaited.
Abort == open /\ Collapse

\* Mutant: the results are appended in the order in which they came.
CollectAsDone ==
    /\ open
    /\ \A c \in DOMAIN batch : stage[c] \in {"done", "gone"}
    /\ answers' = results \o IF hands THEN <<Len(batch) + 1>> ELSE <<>>
    /\ open' = FALSE
    /\ UNCHANGED <<setting, batch, hands, stage, results, granted, begun, wares, now, batches, past>>

\* All calls are over: their results are appended in the order of the calls,
\* the answer to the handoff last.
Collect ==
    /\ open
    /\ \A c \in DOMAIN batch : stage[c] \in {"done", "gone"}
    /\ LET settled == {c \in DOMAIN batch : c \in Range(results)}
           handoff == IF hands THEN {Len(batch) + 1} ELSE {}
       IN  answers' = Batch!InOrder(settled \cup handoff)
    /\ open' = FALSE
    /\ UNCHANGED <<setting, batch, hands, stage, results, granted, begun, wares, now, batches, past>>

Tick ==
    /\ now < MaxTime
    /\ now' = now + 1
    /\ UNCHANGED <<setting, open, batchState, stage, results, granted, begun, wares, past>>

CallStep(c) ==
    \/ Admit(c) \/ Block(c)
    \/ GoAhead(c) \/ AskHuman(c) \/ Refuse(c) \/ Consent(c)
    \/ Succeed(c) \/ Err(c) \/ TimeOut(c) \/ CancelItself(c)
    \/ Vet(c) \/ Externalize(c) \/ StoreFails(c)

Next ==
    \/ \E r \in Replies : Ask(r[1], r[2])
    \/ \E c \in Positions : CallStep(c)
    \/ Collect
    \/ Abort
    \/ Tick

Spec == Init /\ [][Next]_toolVars

\* Guardrails, tools, stores and handlers return, the last two by their
\* time limits, so that every call goes on.
FairSpec ==
    /\ Spec
    /\ \A c \in Positions : WF_toolVars(CallStep(c))
    /\ WF_toolVars(Collect)
-----------------------------------------------------------------------------
\* Types; the stages of the calls agree with what the batch still owes.
ToolTypeOK ==
    /\ setting \in Settings
    /\ batch \in Lists
    /\ hands \in BOOLEAN
    /\ open \in BOOLEAN
    /\ stage \in [Positions -> Stages]
    /\ results \in Seq(Positions)
    /\ granted \subseteq Positions
    /\ begun \subseteq Positions
    /\ cache \in [Calls -> 0 .. MaxTime]
    /\ counts \in [Calls -> Nat]
    /\ times \in [Tools -> SUBSET [at : 1 .. MaxTime, place : Nat]]
    /\ now \in 1 .. MaxTime
    /\ batches \in 0 .. MaxBatches
    /\ ran \in [Calls -> Seq(1 .. MaxTime)]
    /\ good \in [Calls -> 0 .. MaxTime]
    /\ seen \subseteq Calls

\* What the runner relies on: the calls of a reply are answered all at once
\* in their order, whatever order they end in, or not at all; each runs at
\* most once, and only with the consent its mode asks for.
BatchSpec == Batch!BatchSpec

Uses(w) == w \in Range(setting.pipeline)

\* LoopGuardMiddleware, "the same tool with the same arguments is called N
\* times": a call is run at most MaxRepeats times, however its calls overlap
\* and whatever else is in the pipeline, as long as the guard has a counter
\* for every call it saw.
RepeatsBounded ==
    Uses("loop") /\ Cardinality(seen) <= LoopKeys =>
        \A k \in Calls : Len(ran[k]) <= MaxRepeats

RunsIn(t, from, to) ==
    Cardinality(UNION {{<<k, i>> : i \in {j \in DOMAIN ran[k] : ran[k][j] \in from .. to}} :
                          k \in {k \in Calls : k[1] = t}})

\* RateLimitMiddleware, "limits the calls of one tool within a sliding
\* window": no window of time saw more than RateCalls runs of a tool, as long
\* as no more than RateKeys tools were called.
RateBounded ==
    Uses("rate") /\ Cardinality({k[1] : k \in seen}) <= RateKeys =>
        \A t \in Tools, from \in 1 .. MaxTime :
            RunsIn(t, from, from + Window - 1) <= RateCalls

\* The cache never outgrows its limit, though calls of one key fill it side
\* by side, and what it holds is the last success of the key, not an error.
CacheSound ==
    /\ Cardinality(Cached) <= CacheSize
    /\ \A k \in Cached : cache[k] = good[k]

\* Every batch is over some day: no path out of a call keeps its slot.
BatchEnds == open ~> ~open

=============================================================================
