------------------------ MODULE CircuitBreakerProofs ------------------------
(***************************************************************************)
(* Safety of the breaker for any callers and any thresholds.               *)
(***************************************************************************)
EXTENDS CircuitBreaker, TLAPS

\* A breaker that is not CLOSED still holds the counts that opened it.
TripKept == state # "CLOSED" => Tripped(failures, ewma)

\* When replies are timely, nothing is at the provider at the end of a cooldown,
\* and in HALF_OPEN nothing but the probe that is marked.
Alone ==
    TimelyReplies =>
        /\ CooldownOver => calling = {}
        /\ state = "HALF_OPEN" => /\ ~probing => calling = {}
                                  /\ \A r, s \in calling : r = s

BreakerInv == TypeOK /\ TripKept /\ Alone

\* One more failure never lowers the average.
LEMMA FailureRaises ==
    ASSUME NEW e \in 0 .. One
    PROVE  /\ Decayed(e) \in 0 .. One
           /\ Decayed(e) + One \div 5 \in 0 .. One
           /\ Decayed(e) + One \div 5 >= e
<1>1. One = 10000 /\ One \div 5 = 2000
  BY DEF One
<1>2. e \in Int /\ 0 <= e /\ e <= 10000
  BY <1>1
<1>3. PICK d \in Int : d = Decayed(e) /\ 10 * d <= 8 * e /\ 8 * e <= 10 * d + 9
  BY <1>2 DEF Decayed
<1>4. 0 <= d /\ d <= 8000 /\ d + 2000 >= e
  BY <1>2, <1>3
<1>5. d \in 0 .. 10000
  BY <1>4
<1>6. d + 2000 \in 0 .. 10000
  BY <1>4
<1> QED
  BY <1>1, <1>3, <1>4, <1>5, <1>6

\* A new breaker is closed and nothing is at the provider.
LEMMA InitInv == Init => BreakerInv
<1> SUFFICES ASSUME Init PROVE BreakerInv
  OBVIOUS
<1>1. TypeOK
  <2>1. failures \in 0 .. ConsecutiveFailureThreshold /\ ewma \in 0 .. One
    BY BreakerAssumption DEF Init, One
  <2> QED
    BY <2>1 DEF Init, TypeOK
<1>2. TripKept /\ Alone
  BY DEF Init, TripKept, Alone, CooldownOver
<1> QED
  BY <1>1, <1>2 DEF BreakerInv

\* Every step keeps the invariant.
LEMMA StepInv == BreakerInv /\ [Next]_vars => BreakerInv'
<1> SUFFICES ASSUME BreakerInv, [Next]_vars
             PROVE  BreakerInv'
  OBVIOUS
<1> USE BreakerAssumption DEF BreakerInv
<1> DEFINE Kept == TypeOK' /\ TripKept' /\ Alone'
<1>1. ASSUME NEW r \in Callers, OriginateAdmitted(r)
      PROVE  Kept
  BY <1>1 DEF OriginateAdmitted, TypeOK, TripKept, Alone, Tripped, Blocked, CurrentState,
              CooldownOver, ProbeInFlight
<1>2. ASSUME NEW r \in Callers, OriginateSucceeded(r)
      PROVE  Kept
  <2>1. TypeOK'
    <3>1. failures' \in 0 .. ConsecutiveFailureThreshold /\ ewma' \in 0 .. One
      BY <1>2, FailureRaises DEF OriginateSucceeded, TypeOK
    <3> QED
      BY <1>2, <3>1 DEF OriginateSucceeded, Answered, TypeOK
  <2> QED
    BY <1>2, <2>1 DEF OriginateSucceeded, Answered, TypeOK, TripKept, Alone, CooldownOver
<1>3. ASSUME NEW r \in Callers, OriginateFailed(r)
      PROVE  Kept
  <2>1. TypeOK'
    <3>1. failures' \in 0 .. ConsecutiveFailureThreshold
      BY <1>3 DEF OriginateFailed, TypeOK
    <3>2. ewma' \in 0 .. One
      BY <1>3, FailureRaises DEF OriginateFailed, TypeOK
    <3> QED
      BY <1>3, <3>1, <3>2 DEF OriginateFailed, Answered, TypeOK
  <2>2. TripKept'
    BY <1>3, FailureRaises DEF OriginateFailed, TypeOK, TripKept, Tripped
  <2>3. Alone'
    BY <1>3 DEF OriginateFailed, Answered, TypeOK, Alone, CooldownOver, Tripped
  <2> QED
    BY <2>1, <2>2, <2>3
<1>4. ASSUME NEW r \in Callers, OriginateRaised(r)
      PROVE  Kept
  BY <1>4 DEF OriginateRaised, Answered, breaker, TypeOK, TripKept, Alone, CooldownOver, Tripped
<1>5. CASE ReadState
  BY <1>5 DEF ReadState, TypeOK, TripKept, Alone, CooldownOver, Tripped
<1>6. CASE CooldownPasses
  BY <1>6 DEF CooldownPasses, TypeOK, TripKept, Alone, CooldownOver, Tripped
<1>7. CASE ProviderFails
  BY <1>7 DEF ProviderFails, breaker, TypeOK, TripKept, Alone, CooldownOver, Tripped
<1>8. CASE ProviderRecovers
  BY <1>8 DEF ProviderRecovers, breaker, TypeOK, TripKept, Alone, CooldownOver, Tripped
<1>9. CASE UNCHANGED vars
  BY <1>9 DEF vars, TypeOK, TripKept, Alone, CooldownOver, Tripped
<1> QED
  BY <1>1, <1>2, <1>3, <1>4, <1>5, <1>6, <1>7, <1>8, <1>9 DEF Next, OriginateBlocked

\* Hence the invariant.
LEMMA BreakerInvariant == Spec => []BreakerInv
  BY InitInv, StepInv, PTL DEF Spec

\* The breaker's fields and the requests in flight keep their types (record_success,
\* record_failure and originate of circuit_breaker.py), for any thresholds.
THEOREM BreakerTypeCorrect == Spec => []TypeOK
<1>1. BreakerInv => TypeOK
  BY DEF BreakerInv
<1> QED
  BY BreakerInvariant, <1>1, PTL

\* With timely replies, HALF_OPEN has one request at the provider at most, however
\* many coroutines share the breaker (_half_open_in_flight).
THEOREM OneProbe == ASSUME TimelyReplies PROVE Spec => []ProbeAlone
<1>1. BreakerInv => ProbeAlone
  BY DEF BreakerInv, Alone, ProbeAlone
<1> QED
  BY BreakerInvariant, <1>1, PTL

\* A failed probe opens the breaker again, whatever the thresholds and whichever of
\* the two opened it (record_failure never tests for HALF_OPEN).
THEOREM FailedProbeOpens == Spec => FailedProbeReopens
<1> DEFINE Reopens == \A r \in calling :
                          state = "HALF_OPEN" /\ OriginateFailed(r) => state' = "OPEN"
<1>1. ASSUME BreakerInv
      PROVE  Reopens
  <2>1. SUFFICES ASSUME NEW r \in calling, state = "HALF_OPEN", OriginateFailed(r)
                 PROVE  state' = "OPEN"
    OBVIOUS
  <2>2. Tripped(failures, ewma)
    BY <1>1, <2>1 DEF BreakerInv, TripKept
  <2>3. Tripped(failures', ewma')
    BY <1>1, <2>1, <2>2, FailureRaises, BreakerAssumption
    DEF BreakerInv, TypeOK, OriginateFailed, Tripped
  <2> QED
    BY <2>1, <2>3 DEF OriginateFailed
<1>2. BreakerInv /\ [Next]_vars => [Reopens]_vars
  BY <1>1
<1> QED
  BY BreakerInvariant, <1>1, PTL DEF Spec, FailedProbeReopens
=============================================================================
