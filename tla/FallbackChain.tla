---------------------------- MODULE FallbackChain ----------------------------
(*****************************************************************************)
(* FallbackChainProvider (kasaya/kasaya/model/fallback.py): concurrent chat  *)
(* requests walk the providers in order of priority, each provider behind    *)
(* its own circuit breaker.  Between two awaited provider calls the loop     *)
(* does not suspend: recording a failure, skipping the breakers that refuse  *)
(* and being admitted by the next one are one step.  The providers are an    *)
(* environment that goes down and comes back.                                *)
(*****************************************************************************)
EXTENDS Breaker, FiniteSets

CONSTANTS
    N,          \* the chain's length; 1 has the highest priority
    Guarded,    \* entries that have a circuit breaker
    Reliable,   \* providers that answer every call
    Requests,   \* concurrent callers of chat()
    Cancellable \* whether a request may be cancelled

Chain == 1 .. N

ASSUME ChainAssumption ==
    /\ N \in Nat \ {0}
    /\ Guarded \subseteq Chain
    /\ Reliable \subseteq Chain
    /\ Cancellable \in BOOLEAN

VARIABLES
    breakers,   \* the entries' circuit breakers
    up,         \* up[p]: provider p answers
    at,         \* at[r]: the provider request r awaits, 0 when it awaits none
    outcome,    \* outcome[r]: how r's last chat() ended
    lastUsed,   \* _last_used_entry, 0 for none
    spent       \* history: the HALF_OPEN entries a call left without a verdict

vars == <<breakers, up, at, outcome, lastUsed, spent>>

Init ==
    /\ breakers = [p \in Chain |-> NewBreaker]
    /\ up = [p \in Chain |-> TRUE]
    /\ at = [r \in Requests |-> 0]
    /\ outcome = [r \in Requests |-> "none"]
    /\ lastUsed = 0
    /\ spent = {}

\* Entry p is skipped: its breaker reads OPEN, or call() refuses.
Skipped(p, bs) ==
    /\ p \in Guarded
    /\ \/ ObservedState(bs[p]) = "open"
       \/ Rejects(CheckStateTransition(bs[p]))

\* The entry the loop comes to rest at when it looks from entry i on, the
\* breakers being bs; 0 when the chain is exhausted.
NextEntry(i, bs) ==
    LET able == {p \in i .. N : ~Skipped(p, bs)} IN
    IF able = {} THEN 0 ELSE CHOOSE p \in able : \A q \in able : p <= q

\* Request r looks from entry i on; bs are the breakers at that moment.
Walk(r, i, bs) ==
    LET p == NextEntry(i, bs) IN
    /\ at' = [at EXCEPT ![r] = p]
    /\ breakers' = IF p \in Guarded
                   THEN [bs EXCEPT ![p] = Admit(CheckStateTransition(@))]
                   ELSE bs
    /\ outcome' = [outcome EXCEPT ![r] = IF p = 0 THEN "exhausted" ELSE "pending"]

Chat(r) ==
    /\ at[r] = 0
    /\ Walk(r, 1, breakers)
    /\ UNCHANGED <<up, lastUsed, spent>>

Succeed(r) ==
    LET p == at[r] IN
    /\ p # 0
    /\ up[p]
    /\ breakers' = IF p \in Guarded
                   THEN [breakers EXCEPT ![p] = OnSuccess(@)] ELSE breakers
    /\ at' = [at EXCEPT ![r] = 0]
    /\ outcome' = [outcome EXCEPT ![r] = "served"]
    /\ lastUsed' = p
    /\ UNCHANGED <<up, spent>>

\* Mutant: the failure is recorded, but the request starts over at the entry
\* that failed.
FailRetries(r) ==
    LET p == at[r] IN
    /\ p # 0
    /\ ~up[p]
    /\ Walk(r, p, IF p \in Guarded
                  THEN [breakers EXCEPT ![p] = OnFailure(@)] ELSE breakers)
    /\ UNCHANGED <<up, lastUsed, spent>>

\* The provider raises: the loop records it and goes on behind the entry.
Fail(r) ==
    LET p == at[r] IN
    /\ p # 0
    /\ ~up[p]
    /\ Walk(r, p + 1, IF p \in Guarded
                      THEN [breakers EXCEPT ![p] = OnFailure(@)] ELSE breakers)
    /\ UNCHANGED <<up, lastUsed, spent>>

\* The call on entry p ends and its breaker is told nothing: the probe it was,
\* in HALF_OPEN, keeps its slot.
Undecided(p) ==
    spent' = IF p \in Guarded /\ breakers[p].state = "half_open"
             THEN spent \union {p} ELSE spent

\* The provider raises one of its breaker's excluded exceptions, up or not: the
\* breaker counts nothing, and the loop goes on as after any failure.
FailExcluded(r) ==
    LET p == at[r] IN
    /\ p \in Guarded \ Reliable
    /\ Walk(r, p + 1, breakers)
    /\ Undecided(p)
    /\ UNCHANGED <<up, lastUsed>>

\* Mutant: a cancellation is recorded as a failure of the provider.
CancelCounts(r) ==
    /\ Cancellable
    /\ at[r] # 0
    /\ at' = [at EXCEPT ![r] = 0]
    /\ outcome' = [outcome EXCEPT ![r] = "cancelled"]
    /\ breakers' = IF at[r] \in Guarded
                   THEN [breakers EXCEPT ![at[r]] = OnFailure(@)] ELSE breakers
    /\ UNCHANGED <<up, lastUsed, spent>>

\* CancelledError passes through the loop and the breaker untouched.
Cancel(r) ==
    /\ Cancellable
    /\ at[r] # 0
    /\ at' = [at EXCEPT ![r] = 0]
    /\ outcome' = [outcome EXCEPT ![r] = "cancelled"]
    /\ Undecided(at[r])
    /\ UNCHANGED <<breakers, up, lastUsed>>

TimePasses(p) ==
    /\ breakers[p].state = "open"
    /\ ~breakers[p].recovered
    /\ breakers' = [breakers EXCEPT ![p] = Recover(@)]
    /\ UNCHANGED <<up, at, outcome, lastUsed, spent>>

GoDown(p) ==
    /\ p \notin Reliable
    /\ up[p]
    /\ up' = [up EXCEPT ![p] = FALSE]
    /\ UNCHANGED <<breakers, at, outcome, lastUsed, spent>>

ComeBack(p) ==
    /\ ~up[p]
    /\ up' = [up EXCEPT ![p] = TRUE]
    /\ UNCHANGED <<breakers, at, outcome, lastUsed, spent>>

Next ==
    \/ \E r \in Requests :
          Chat(r) \/ Succeed(r) \/ Fail(r) \/ FailExcluded(r) \/ Cancel(r)
    \/ \E p \in Chain : TimePasses(p) \/ GoDown(p) \/ ComeBack(p)

Spec == Init /\ [][Next]_vars

\* The call that request r awaits returns or raises.
CallEnds(r) == Succeed(r) \/ Fail(r) \/ FailExcluded(r)

\* Awaited provider calls end, time passes and the application goes on asking.
Fairness ==
    /\ \A r \in Requests : WF_vars(Chat(r)) /\ WF_vars(CallEnds(r))
    /\ \A p \in Chain : WF_vars(TimePasses(p))

FairSpec == Spec /\ Fairness

-----------------------------------------------------------------------------
\* Breakers are well formed, and a request awaits a provider of the chain or none.
TypeOK ==
    /\ breakers \in [Chain -> Breakers]
    /\ up \in [Chain -> BOOLEAN]
    /\ at \in [Requests -> 0 .. N]
    /\ outcome \in [Requests -> {"none", "pending", "served", "exhausted", "cancelled"}]
    /\ lastUsed \in 0 .. N
    /\ spent \subseteq Guarded

\* A chain with one provider that never fails never reports exhaustion, even
\* when that entry is not the last one asked, its probe slots are shared by
\* every request in flight, and requests are cancelled under it.
NeverExhausted ==
    Reliable # {} => \A r \in Requests : outcome[r] # "exhausted"

\* Once the first provider stays up, its breaker closes for good and the chain
\* returns to its primary, under the two conditions the code needs: no call ends
\* undecided while that breaker is HALF_OPEN (a cancelled or excluded probe keeps
\* its slot), and the slots suffice for the successes asked for.  Without either
\* the primary may stay HALF_OPEN, and be skipped, for ever.
PrimaryReturns ==
    /\ <>[](up[1])
    /\ [](1 \notin spent)
    /\ SuccessThreshold <= HalfOpenMaxCalls
    => <>[](breakers[1].state = "closed")

\* Every chat() ends, whatever goes down meanwhile.
ChatEnds == \A r \in Requests : at[r] # 0 ~> at[r] = 0
=============================================================================
