------------------------------- MODULE Breaker -------------------------------
(*****************************************************************************)
(* The value of one CircuitBreaker (kasaya/kasaya/model/circuit_breaker.py)  *)
(* and the operators its lock-protected sections apply to it.  Every such    *)
(* section runs without awaiting, so each is one step of whoever calls it;   *)
(* CircuitBreaker and FallbackChain build their actions from these.          *)
(*                                                                           *)
(* Two abstractions of data.  The clock is reduced to `recovered`: whether   *)
(* recovery_timeout has passed since the last state change.  The counters    *)
(* are only ever compared with >= against their threshold, so they stop      *)
(* counting there.  The total_* metrics and the history of state changes     *)
(* are not kept: nothing reads them back.                                    *)
(*****************************************************************************)
EXTENDS Naturals

CONSTANTS
    FailureThreshold,   \* config.failure_threshold
    SuccessThreshold,   \* config.success_threshold
    HalfOpenMaxCalls    \* config.half_open_max_calls

ASSUME BreakerAssumption ==
    /\ FailureThreshold \in Nat \ {0}
    /\ SuccessThreshold \in Nat \ {0}
    /\ HalfOpenMaxCalls \in Nat \ {0}

States == {"closed", "open", "half_open"}

Breakers == [state     : States,
             recovered : BOOLEAN,
             failures  : 0 .. FailureThreshold,
             successes : 0 .. SuccessThreshold,
             probes    : 0 .. HalfOpenMaxCalls]

NewBreaker == [state |-> "closed", recovered |-> FALSE,
               failures |-> 0, successes |-> 0, probes |-> 0]

UpTo(limit, n) == IF n < limit THEN n + 1 ELSE limit

\* Mutant: entering HALF_OPEN keeps the successes counted before.
TransitionKeepsSuccesses(b, s) ==
    [b EXCEPT !.state = s, !.recovered = FALSE,
              !.failures = IF s = "closed" THEN 0 ELSE @,
              !.probes = IF s = "open" THEN @ ELSE 0]

\* _transition_to: entering CLOSED forgets the failures and the probes taken,
\* entering HALF_OPEN the successes and the probes, entering OPEN nothing.
TransitionTo(b, s) ==
    [state     |-> s,
     recovered |-> FALSE,
     failures  |-> IF s = "closed" THEN 0 ELSE b.failures,
     successes |-> IF s = "half_open" THEN 0 ELSE b.successes,
     probes    |-> IF s = "open" THEN b.probes ELSE 0]

\* _check_state_transition: what call() does first, under the lock.
CheckStateTransition(b) ==
    IF b.state = "open" /\ b.recovered THEN TransitionTo(b, "half_open") ELSE b

\* The two places where call() raises CircuitBreakerOpenError.
Rejects(b) ==
    \/ b.state = "open"
    \/ b.state = "half_open" /\ b.probes >= HalfOpenMaxCalls

\* An admitted call takes a probe slot in HALF_OPEN; nothing gives it back.
Admit(b) ==
    IF b.state = "half_open" THEN [b EXCEPT !.probes = @ + 1] ELSE b

Counted(b, f, s) == [b EXCEPT !.failures = f, !.successes = s]

\* Mutant: enough successes close the circuit whatever its state.
OnSuccessAnyState(b) ==
    LET counted == Counted(b, 0, UpTo(SuccessThreshold, b.successes))
    IN  IF counted.successes >= SuccessThreshold
        THEN TransitionTo(counted, "closed")
        ELSE counted

OnSuccess(b) ==
    LET counted == Counted(b, 0, UpTo(SuccessThreshold, b.successes))
    IN  IF b.state = "half_open" /\ counted.successes >= SuccessThreshold
        THEN TransitionTo(counted, "closed")
        ELSE counted

\* Mutant: a failed probe does not open the circuit again.
OnFailureClosedOnly(b) ==
    LET counted == Counted(b, UpTo(FailureThreshold, b.failures), 0)
    IN  IF b.state = "closed" /\ counted.failures >= FailureThreshold
        THEN TransitionTo(counted, "open")
        ELSE counted

OnFailure(b) ==
    LET counted == Counted(b, UpTo(FailureThreshold, b.failures), 0)
    IN  IF \/ b.state = "half_open"
           \/ b.state = "closed" /\ counted.failures >= FailureThreshold
        THEN TransitionTo(counted, "open")
        ELSE counted

ResetBreaker(b) == [TransitionTo(b, "closed") EXCEPT !.successes = 0]

\* The `state` property: reports HALF_OPEN once the timeout has passed, and
\* leaves the transition to the next call().
ObservedState(b) ==
    IF b.state = "open" /\ b.recovered THEN "half_open" ELSE b.state

\* Time passes: the recovery timeout of an OPEN breaker runs out.
Recover(b) == [b EXCEPT !.recovered = TRUE]
=============================================================================
