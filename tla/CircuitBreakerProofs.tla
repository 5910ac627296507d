-------------------------- MODULE CircuitBreakerProofs --------------------------
(*****************************************************************************)
(* The safety of CircuitBreaker for every set of callers and every           *)
(* threshold.  Inv is inductive: that a period starts undecided and that     *)
(* the probe slots count the probes in flight need each other's types only,  *)
(* so the argument is one pass over the actions.                             *)
(*****************************************************************************)
EXTENDS CircuitBreaker, FiniteSetTheorems, TLAPS

Inv == TypeOK /\ PeriodUndecided /\ ProbesBounded

\* What the operators on a breaker return: again a breaker, undecided in the
\* period it is in.
Undecided(b) ==
    /\ b.state = "closed" => b.failures < FailureThreshold
    /\ b.state = "half_open" => b.successes < SuccessThreshold

\* A saturating count stays within its limit.
LEMMA UpToLemma ==
    ASSUME NEW limit \in Nat, NEW n \in 0 .. limit
    PROVE  UpTo(limit, n) \in 0 .. limit
  BY DEF UpTo

\* Counting changes the two counters only.
LEMMA CountedLemma ==
    ASSUME NEW b \in Breakers,
           NEW f \in 0 .. FailureThreshold, NEW s \in 0 .. SuccessThreshold
    PROVE  LET d == Counted(b, f, s) IN
           /\ d \in Breakers
           /\ d.state = b.state /\ d.probes = b.probes
           /\ d.failures = f /\ d.successes = s
  <1> DEFINE half == [b EXCEPT !.failures = f]
  <1>1. half \in Breakers
    BY DEF Breakers
  <1>2. [half EXCEPT !.successes = s] \in Breakers
    BY <1>1 DEF Breakers
  <1>3. Counted(b, f, s) = [half EXCEPT !.successes = s]
    BY DEF Counted, Breakers
  <1> QED BY <1>1, <1>2, <1>3 DEF Breakers

\* A transition produces a breaker whose new period is undecided, and takes
\* the probes of the last period away unless it opens the circuit.
LEMMA TransitionToLemma ==
    ASSUME NEW b \in Breakers, NEW s \in States
    PROVE  /\ TransitionTo(b, s) \in Breakers
           /\ Undecided(TransitionTo(b, s))
           /\ TransitionTo(b, s).state = s
           /\ s # "open" => TransitionTo(b, s).probes = 0
  BY BreakerAssumption DEF TransitionTo, Breakers, States, Undecided

\* The check a call starts with leaves the breaker alone or starts a
\* HALF_OPEN period without probes.
LEMMA CheckLemma ==
    ASSUME NEW b \in Breakers, Undecided(b)
    PROVE  LET d == CheckStateTransition(b) IN
           /\ d \in Breakers
           /\ Undecided(d)
           /\ d = b \/ (d.state = "half_open" /\ b.state = "open" /\ d.probes = 0)
  BY TransitionToLemma DEF CheckStateTransition, States

\* An admission in HALF_OPEN takes one slot, any other none.
LEMMA AdmitLemma ==
    ASSUME NEW b \in Breakers, Undecided(b), ~Rejects(b)
    PROVE  /\ Admit(b) \in Breakers
           /\ Undecided(Admit(b))
           /\ Admit(b).state = b.state
           /\ b.state = "half_open" => Admit(b).probes = b.probes + 1
  BY BreakerAssumption DEF Admit, Rejects, Breakers, States, Undecided

\* A success leaves the probe slots alone unless it closes the circuit, and
\* does that only in HALF_OPEN.
LEMMA OnSuccessLemma ==
    ASSUME NEW b \in Breakers, Undecided(b)
    PROVE  LET d == OnSuccess(b) IN
           /\ d \in Breakers
           /\ Undecided(d)
           /\ \/ d.state = b.state /\ d.probes = b.probes
              \/ d.state = "closed" /\ b.state = "half_open"
  <1> DEFINE counted == Counted(b, 0, UpTo(SuccessThreshold, b.successes))
  <1>0. UpTo(SuccessThreshold, b.successes) \in 0 .. SuccessThreshold
    BY UpToLemma, BreakerAssumption DEF Breakers
  <1>1. /\ counted \in Breakers
        /\ counted.state = b.state /\ counted.probes = b.probes
        /\ counted.failures = 0
        /\ counted.successes = UpTo(SuccessThreshold, b.successes)
    BY <1>0, CountedLemma, BreakerAssumption
  <1>2. CASE b.state = "half_open" /\ counted.successes >= SuccessThreshold
    <2>1. OnSuccess(b) = TransitionTo(counted, "closed")
      BY <1>2 DEF OnSuccess
    <2> QED BY <1>1, <1>2, <2>1, TransitionToLemma DEF States
  <1>3. CASE ~(b.state = "half_open" /\ counted.successes >= SuccessThreshold)
    <2>1. OnSuccess(b) = counted
      BY <1>3 DEF OnSuccess
    <2>2. Undecided(counted)
      BY <1>1, <1>3, BreakerAssumption DEF Undecided, Breakers, UpTo
    <2> QED BY <1>1, <2>1, <2>2
  <1> QED BY <1>2, <1>3

\* A failure leaves the probe slots alone and may only open the circuit; in
\* HALF_OPEN it always does.
LEMMA OnFailureLemma ==
    ASSUME NEW b \in Breakers, Undecided(b)
    PROVE  LET d == OnFailure(b) IN
           /\ d \in Breakers
           /\ Undecided(d)
           /\ d.state = b.state \/ d.state = "open"
           /\ d.state # "half_open"
  <1> DEFINE counted == Counted(b, UpTo(FailureThreshold, b.failures), 0)
             opens == \/ b.state = "half_open"
                      \/ b.state = "closed" /\ counted.failures >= FailureThreshold
  <1>0. UpTo(FailureThreshold, b.failures) \in 0 .. FailureThreshold
    BY UpToLemma, BreakerAssumption DEF Breakers
  <1>1. /\ counted \in Breakers
        /\ counted.state = b.state
        /\ counted.failures = UpTo(FailureThreshold, b.failures)
    BY <1>0, CountedLemma, BreakerAssumption
  <1>2. CASE opens
    <2>1. OnFailure(b) = TransitionTo(counted, "open")
      BY <1>2 DEF OnFailure
    <2> QED BY <1>1, <2>1, TransitionToLemma DEF States
  <1>3. CASE ~opens
    <2>1. OnFailure(b) = counted
      BY <1>3 DEF OnFailure
    <2>2. Undecided(counted)
      BY <1>1, <1>3, BreakerAssumption DEF Undecided, Breakers, UpTo
    <2> QED BY <1>1, <1>3, <2>1, <2>2
  <1> QED BY <1>2, <1>3

\* A step that moves the breaker to d and ends caller c's call keeps the
\* invariant when d is undecided and either keeps its HALF_OPEN probes or is
\* no longer, or newly, in HALF_OPEN.
LEMMA EndLemma ==
    ASSUME Inv, NEW c \in Callers, NEW d \in Breakers, Undecided(d),
           d.state = "half_open" =>
               breaker.state = "half_open" /\ d.probes >= breaker.probes,
           Becomes(d, c, "idle")
    PROVE  Inv'
  <1>1. TypeOK'
    BY DEF Inv, TypeOK, Becomes, Aged
  <1>2. PeriodUndecided'
    BY DEF Undecided, PeriodUndecided, Becomes
  <1>3. ProbesBounded'
    <2> SUFFICES ASSUME d.state = "half_open"
                 PROVE  Cardinality(Current') <= d.probes /\ d.probes <= HalfOpenMaxCalls
      BY DEF ProbesBounded, Becomes
    <2>1. Current' \subseteq Current /\ IsFiniteSet(Current)
      BY CallersAssumption, FS_Subset DEF Inv, TypeOK, Becomes, Aged, Current
    <2>2. Cardinality(Current') <= Cardinality(Current)
      BY <2>1, FS_Subset
    <2>3. Cardinality(Current) <= breaker.probes
      BY DEF Inv, ProbesBounded
    <2>4. Cardinality(Current') \in Nat /\ Cardinality(Current) \in Nat
      BY <2>1, FS_Subset, FS_CardinalityType
    <2> QED BY <2>2, <2>3, <2>4, BreakerAssumption DEF Breakers, Inv, TypeOK
  <1> QED BY <1>1, <1>2, <1>3 DEF Inv

\* A new breaker has no calls and nothing counted.
LEMMA InitInv == Init => Inv
  <1> SUFFICES ASSUME Init PROVE Inv
    OBVIOUS
  <1>1. NewBreaker \in Breakers /\ Undecided(NewBreaker) /\ NewBreaker.state = "closed"
    BY BreakerAssumption DEF NewBreaker, Breakers, States, Undecided
  <1> QED BY <1>1 DEF Init, Inv, TypeOK, PeriodUndecided, ProbesBounded, Undecided

\* Every operation of a caller, a reset and the clock keep the invariant.
LEMMA NextInv == Inv /\ [Next]_vars => Inv'
  <1> SUFFICES ASSUME Inv, [Next]_vars PROVE Inv'
    OBVIOUS
  <1>0. breaker \in Breakers /\ Undecided(breaker)
    BY DEF Inv, TypeOK, PeriodUndecided, Undecided
  <1>1. ASSUME NEW c \in Callers, Reject(c) PROVE Inv'
    <2> DEFINE b == CheckStateTransition(breaker)
    <2>1. b \in Breakers /\ Undecided(b) /\ (b = breaker \/ (b.state = "half_open" /\ b.probes = 0))
      BY <1>0, CheckLemma
    <2>2. b = breaker
      BY <1>1, <2>1, BreakerAssumption DEF Reject, Rejects
    <2>3. Becomes(breaker, c, "idle")
      BY <1>1, <2>2 DEF Reject
    <2> HIDE DEF b
    <2>4. breaker.probes >= breaker.probes
      BY <1>0 DEF Breakers
    <2> QED BY <1>0, <2>3, <2>4, EndLemma
  <1>2. ASSUME NEW c \in Callers, Start(c) PROVE Inv'
    <2> DEFINE b == CheckStateTransition(breaker)
    <2>1. /\ b \in Breakers /\ Undecided(b) /\ ~Rejects(b) /\ calls[c] = "idle"
          /\ b = breaker \/ (b.state = "half_open" /\ breaker.state = "open" /\ b.probes = 0)
          /\ breaker' = Admit(b)
          /\ calls' = [Aged(Admit(b)) EXCEPT ![c] = "current"]
      BY <1>0, <1>2, CheckLemma DEF Start, Becomes
    <2> HIDE DEF b
    <2>2. /\ Admit(b) \in Breakers /\ Undecided(Admit(b)) /\ Admit(b).state = b.state
          /\ b.state = "half_open" => Admit(b).probes = b.probes + 1
      BY <2>1, AdmitLemma
    <2>3. TypeOK'
      BY <2>1, <2>2 DEF Inv, TypeOK, Aged
    <2>4. PeriodUndecided'
      BY <2>1, <2>2 DEF Undecided, PeriodUndecided
    <2>5. ProbesBounded'
      <3> SUFFICES ASSUME b.state = "half_open"
                   PROVE  /\ Cardinality(Current') <= Admit(b).probes
                          /\ Admit(b).probes <= HalfOpenMaxCalls
        BY <2>1, <2>2 DEF ProbesBounded
      <3> DEFINE Old == IF b = breaker THEN Current ELSE {}
      <3>1. IsFiniteSet(Old) /\ IsFiniteSet(Current)
        BY CallersAssumption, FS_Subset, FS_EmptySet DEF Current
      <3>2. Current' \subseteq Old \cup {c}
        BY <2>1, <2>2 DEF Current, Aged, Inv, TypeOK
      <3>3. Cardinality(Old) <= b.probes
        BY <2>1, FS_EmptySet DEF Inv, ProbesBounded, Breakers
      <3> HIDE DEF Old
      <3>4. /\ IsFiniteSet(Old \cup {c})
            /\ Cardinality(Old \cup {c}) <= Cardinality(Old) + 1
        <4>1. Cardinality(Old) \in Nat
          BY <3>1, FS_CardinalityType
        <4>2. /\ IsFiniteSet(Old \cup {c})
              /\ \/ Cardinality(Old \cup {c}) = Cardinality(Old)
                 \/ Cardinality(Old \cup {c}) = Cardinality(Old) + 1
          BY <3>1, FS_AddElement
        <4> QED BY <4>1, <4>2
      <3>5. Cardinality(Current') <= Cardinality(Old \cup {c})
        BY <3>2, <3>4, FS_Subset
      <3>6. /\ Cardinality(Old) \in Nat /\ Cardinality(Old \cup {c}) \in Nat
            /\ Cardinality(Current') \in Nat
        BY <3>1, <3>2, <3>4, FS_Subset, FS_CardinalityType
      <3>7. Cardinality(Current') <= Admit(b).probes
        BY <2>1, <2>2, <3>3, <3>4, <3>5, <3>6 DEF Breakers
      <3> QED BY <3>7, <2>2, BreakerAssumption DEF Breakers
    <2> QED BY <2>3, <2>4, <2>5 DEF Inv
  <1>3. ASSUME NEW c \in Callers, Succeed(c) PROVE Inv'
    BY <1>0, <1>3, OnSuccessLemma, EndLemma DEF Succeed, Breakers
  <1>4. ASSUME NEW c \in Callers, Fail(c) PROVE Inv'
    BY <1>0, <1>4, OnFailureLemma, EndLemma DEF Fail
  <1>5. ASSUME NEW c \in Callers, EndUndecided(c) PROVE Inv'
    <2>1. breaker.probes >= breaker.probes
      BY <1>0 DEF Breakers
    <2> QED BY <1>0, <1>5, <2>1, EndLemma DEF EndUndecided
  <1>6. CASE Reset
    <2>1. /\ ResetBreaker(breaker) \in Breakers
          /\ Undecided(ResetBreaker(breaker))
          /\ ResetBreaker(breaker).state = "closed"
      <3> DEFINE d == TransitionTo(breaker, "closed")
      <3>1. d \in Breakers /\ Undecided(d) /\ d.state = "closed"
        BY <1>0, TransitionToLemma DEF States
      <3> HIDE DEF d
      <3> QED BY <3>1, BreakerAssumption DEF ResetBreaker, d, Breakers, Undecided
    <2> QED BY <1>6, <2>1 DEF Reset, Aged, Inv, TypeOK, PeriodUndecided, ProbesBounded, Undecided
  <1>7. CASE TimePasses
    <2>1. Recover(breaker) \in Breakers /\ Recover(breaker).state = "open"
      BY <1>0, <1>7 DEF TimePasses, Recover, Breakers
    <2> QED BY <1>7, <2>1 DEF TimePasses, Inv, TypeOK, PeriodUndecided, ProbesBounded
  <1>8. CASE UNCHANGED vars
    BY <1>8 DEF vars, Inv, TypeOK, PeriodUndecided, ProbesBounded, Current
  <1> QED BY <1>1, <1>2, <1>3, <1>4, <1>5, <1>6, <1>7, <1>8 DEF Next

\* The breaker's record and its calls are always well formed.
THEOREM TypeCorrect == Spec => []TypeOK
  BY InitInv, NextInv, PTL DEF Spec, Inv

\* No circuit is ever CLOSED with failure_threshold failures counted, nor
\* HALF_OPEN with success_threshold successes.
THEOREM PeriodsUndecided == Spec => []PeriodUndecided
  BY InitInv, NextInv, PTL DEF Spec, Inv

\* Never more than half_open_max_calls probes are in flight.
THEOREM ProbesAlwaysBounded == Spec => []ProbesBounded
  BY InitInv, NextInv, PTL DEF Spec, Inv
\* What a call leaves behind is in flight before, whatever becomes stale.
LEMMA EndsLemma ==
    ASSUME TypeOK, NEW c \in Callers, NEW d, Becomes(d, c, "idle")
    PROVE  InFlight' \subseteq InFlight
  BY DEF TypeOK, Becomes, Aged, InFlight

\* An OPEN circuit stays so until the recovery timeout, whatever late calls
\* return, and then leaves by way of HALF_OPEN, unless an operator resets it.
LEMMA OpenStep ==
    ASSUME Inv, [Next]_vars, breaker.state = "open"
    PROVE  /\ breaker'.state = "closed" => Reset
           /\ ~breaker.recovered => InFlight' \subseteq InFlight
  <1>0. breaker \in Breakers /\ Undecided(breaker) /\ TypeOK
    BY DEF Inv, TypeOK, PeriodUndecided, Undecided
  <1> DEFINE b == CheckStateTransition(breaker)
  <1>1. /\ b.state \in {"open", "half_open"}
        /\ ~breaker.recovered => b = breaker
    BY <1>0, CheckLemma DEF CheckStateTransition
  <1>2. b \in Breakers /\ Undecided(b)
    BY <1>0, CheckLemma
  <1> HIDE DEF b
  <1>3. ASSUME NEW c \in Callers, Reject(c)
        PROVE  breaker'.state # "closed" /\ InFlight' \subseteq InFlight
    BY <1>0, <1>1, <1>3, EndsLemma DEF Reject, Becomes, b
  <1>4. ASSUME NEW c \in Callers, Start(c)
        PROVE  breaker'.state # "closed" /\ breaker.recovered
    <2>1. ~Rejects(b) /\ breaker' = Admit(b)
      BY <1>4 DEF Start, Becomes, b
    <2>2. breaker'.state = b.state
      BY <1>2, <2>1, AdmitLemma
    <2>3. breaker.recovered
      BY <1>1, <2>1 DEF Rejects
    <2> QED BY <1>1, <2>2, <2>3
  <1>5. ASSUME NEW c \in Callers, Succeed(c)
        PROVE  breaker'.state # "closed" /\ InFlight' \subseteq InFlight
    <2>1. Becomes(OnSuccess(breaker), c, "idle")
      BY <1>5 DEF Succeed
    <2>2. OnSuccess(breaker).state # "closed"
      BY <1>0, OnSuccessLemma
    <2> QED BY <1>0, <2>1, <2>2, EndsLemma DEF Becomes
  <1>6. ASSUME NEW c \in Callers, Fail(c)
        PROVE  breaker'.state # "closed" /\ InFlight' \subseteq InFlight
    <2>1. Becomes(OnFailure(breaker), c, "idle")
      BY <1>6 DEF Fail
    <2>2. OnFailure(breaker).state # "closed"
      BY <1>0, OnFailureLemma
    <2> QED BY <1>0, <2>1, <2>2, EndsLemma DEF Becomes
  <1>7. ASSUME NEW c \in Callers, EndUndecided(c)
        PROVE  breaker'.state # "closed" /\ InFlight' \subseteq InFlight
    BY <1>0, <1>7, EndsLemma DEF EndUndecided, Becomes
  <1>8. CASE TimePasses
    BY <1>0, <1>8 DEF TimePasses, Recover, Breakers, InFlight
  <1>9. CASE Reset
    BY <1>0, <1>9 DEF Reset, InFlight, Aged, TypeOK
  <1>10. CASE UNCHANGED vars
    BY <1>10 DEF vars, InFlight
  <1> QED
    BY <1>3, <1>4, <1>5, <1>6, <1>7, <1>8, <1>9, <1>10 DEF Next

\* No late success closes an OPEN circuit, and no call enters it before the
\* recovery timeout has passed.
THEOREM OpenAlwaysHolds == Spec => OpenHolds
  <1>1. Inv /\ [Next]_vars =>
            [breaker.state = "open" =>
                /\ breaker'.state = "closed" => Reset
                /\ ~breaker.recovered => InFlight' \subseteq InFlight]_vars
    BY OpenStep
  <1> QED
    BY <1>1, InitInv, NextInv, PTL DEF Spec, OpenHolds
=============================================================================
