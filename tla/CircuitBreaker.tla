---------------------------- MODULE CircuitBreaker ----------------------------
(*****************************************************************************)
(* One CircuitBreaker shared by concurrent callers.  call() is two steps:    *)
(* the admission under the lock, and, after the wrapped function has been    *)
(* awaited outside it, the recording of its outcome.  Between the two other  *)
(* callers may move the circuit on, so a result can arrive in a state other  *)
(* than the one the call was admitted in.                                    *)
(*****************************************************************************)
EXTENDS Breaker, FiniteSets

CONSTANTS
    Callers,    \* tasks that go through the breaker
    Outcomes    \* how the wrapped function may end, see below

\* "undecided" is an exception of an excluded type, or a cancellation (no
\* `except Exception` clause sees a CancelledError): neither touches the
\* state, the counters compared with thresholds, or the probe slots.
ASSUME CallersAssumption ==
    /\ IsFiniteSet(Callers)
    /\ Outcomes \subseteq {"success", "failure", "undecided"}

VARIABLES
    breaker,    \* the circuit breaker
    calls       \* calls[c]: "idle", or in flight and admitted during the
                \* "current" state period of the circuit, or an earlier ("stale")

vars == <<breaker, calls>>

Init ==
    /\ breaker = NewBreaker
    /\ calls = [c \in Callers |-> "idle"]

InFlight == {c \in Callers : calls[c] # "idle"}
Current  == {c \in Callers : calls[c] = "current"}

\* The calls once the circuit becomes b: those admitted in a state it leaves
\* are stale from then on.
Aged(b) == [c \in Callers |->
               IF calls[c] = "current" /\ b.state # breaker.state
               THEN "stale" ELSE calls[c]]

\* The circuit becomes b, and caller c's own call s.
Becomes(b, c, s) ==
    /\ breaker' = b
    /\ calls' = [Aged(b) EXCEPT ![c] = s]

Reject(c) ==
    LET b == CheckStateTransition(breaker) IN
    /\ calls[c] = "idle"
    /\ Rejects(b)
    /\ Becomes(b, c, "idle")

Start(c) ==
    LET b == CheckStateTransition(breaker) IN
    /\ calls[c] = "idle"
    /\ ~Rejects(b)
    /\ Becomes(Admit(b), c, "current")

Succeed(c) ==
    /\ "success" \in Outcomes
    /\ c \in InFlight
    /\ Becomes(OnSuccess(breaker), c, "idle")

Fail(c) ==
    /\ "failure" \in Outcomes
    /\ c \in InFlight
    /\ Becomes(OnFailure(breaker), c, "idle")

\* Mutant: gives a probe slot back, whichever period the call belongs to.
EndUndecidedReleases(c) ==
    /\ "undecided" \in Outcomes
    /\ c \in InFlight
    /\ Becomes([breaker EXCEPT !.probes = IF @ > 0 THEN @ - 1 ELSE 0], c, "idle")

EndUndecided(c) ==
    /\ "undecided" \in Outcomes
    /\ c \in InFlight
    /\ Becomes(breaker, c, "idle")

Reset ==
    /\ breaker' = ResetBreaker(breaker)
    /\ calls' = Aged(breaker')

TimePasses ==
    /\ breaker.state = "open"
    /\ ~breaker.recovered
    /\ breaker' = Recover(breaker)
    /\ UNCHANGED calls

Finish(c) == Succeed(c) \/ Fail(c) \/ EndUndecided(c)

Next ==
    \/ \E c \in Callers : \/ Reject(c)
                          \/ Start(c)
                          \/ Succeed(c)
                          \/ Fail(c)
                          \/ EndUndecided(c)
    \/ Reset
    \/ TimePasses

Spec == Init /\ [][Next]_vars

\* Every awaited function ends, time passes, and the application keeps making
\* calls: each caller that may start does.
Fairness ==
    /\ \A c \in Callers : WF_vars(Start(c)) /\ WF_vars(Finish(c))
    /\ WF_vars(TimePasses)

FairSpec == Spec /\ Fairness

-----------------------------------------------------------------------------
\* The breaker's record and the calls in flight are well formed.
TypeOK ==
    /\ breaker \in Breakers
    /\ calls \in [Callers -> {"idle", "current", "stale"}]

\* A CLOSED circuit has not yet seen failure_threshold failures in a row, and
\* a HALF_OPEN one not yet success_threshold successes: whatever late results
\* were counted while the circuit was OPEN, a period starts undecided.
PeriodUndecided ==
    /\ breaker.state = "closed" => breaker.failures < FailureThreshold
    /\ breaker.state = "half_open" => breaker.successes < SuccessThreshold

\* The probes in flight never exceed half_open_max_calls: every call admitted
\* in the present HALF_OPEN period holds one of its slots, although late
\* calls of earlier periods come back during it.
ProbesBounded ==
    breaker.state = "half_open" =>
        /\ Cardinality(Current) <= breaker.probes
        /\ breaker.probes <= HalfOpenMaxCalls

\* An OPEN circuit lets no call through before recovery_timeout and is closed
\* by an operator's reset or by way of HALF_OPEN, never by the late success of
\* a call admitted before it opened.
OpenHolds ==
    [][breaker.state = "open" =>
          /\ breaker'.state = "closed" => Reset
          /\ ~breaker.recovered => InFlight' \subseteq InFlight]_vars

\* When calls end in success or failure, a HALF_OPEN circuit decides.
HalfOpenResolves == breaker.state = "half_open" ~> breaker.state # "half_open"
=============================================================================
