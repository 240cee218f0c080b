--------------------------- MODULE CircuitBreaker ---------------------------
(***************************************************************************)
(* app/providers/circuit_breaker.py: one breaker, in the memory of one     *)
(* process, around one provider.  originate is two steps, before and after *)
(* its await; between them other coroutines of the process may use the     *)
(* breaker, and time passes.                                               *)
(*                                                                         *)
(* The averages are integers: ewma is _failure_ewma in units of One,       *)
(* rounded down.  _latency_ewma_ms and latency_threshold_ms are left out:  *)
(* nothing compares them.                                                  *)
(***************************************************************************)
EXTENDS Integers

CONSTANTS
    Callers,                        \* coroutines that call originate
    FailureThreshold,               \* failure_threshold, in units of One
    ConsecutiveFailureThreshold,    \* consecutive_failure_threshold
    TimelyReplies,  \* the provider answers in less than cooldown_seconds
    ProbesMayRaise  \* of a probe, the provider may raise instead of answering

One == 10000

ASSUME BreakerAssumption ==
    /\ FailureThreshold \in 0 .. One
    /\ ConsecutiveFailureThreshold \in Nat \ {0}
    /\ {TimelyReplies, ProbesMayRaise} \subseteq BOOLEAN

VARIABLES
    state,      \* _state: the stored one, brought up to date when it is read
    failures,   \* _consecutive_failures, no further than its threshold
    ewma,       \* _failure_ewma
    cooled,     \* cooldown_seconds have passed since _opened_at
    probing,    \* _half_open_in_flight
    calling,    \* the callers whose request is at the provider
    healthy     \* the provider's side: it fails no request

breaker == <<state, failures, ewma, cooled, probing>>
vars == <<state, failures, ewma, cooled, probing, calling, healthy>>

Init ==
    /\ state = "CLOSED"
    /\ failures = 0
    /\ ewma = 0
    /\ cooled = FALSE
    /\ probing = FALSE
    /\ calling = {}
    /\ healthy \in BOOLEAN

TypeOK ==
    /\ state \in {"CLOSED", "OPEN", "HALF_OPEN"}
    /\ failures \in 0 .. ConsecutiveFailureThreshold
    /\ ewma \in 0 .. One
    /\ cooled \in BOOLEAN
    /\ probing \in BOOLEAN
    /\ calling \subseteq Callers
    /\ healthy \in BOOLEAN

-----------------------------------------------------------------------------
\* The state property: an OPEN breaker whose cooldown is over becomes HALF_OPEN,
\* and its probe is due, in the moment somebody looks.
CooldownOver == state = "OPEN" /\ cooled
CurrentState == IF CooldownOver THEN "HALF_OPEN" ELSE state
ProbeInFlight == probing /\ ~CooldownOver

\* The safety controller and the pacing tick look without placing a call.
ReadState ==
    /\ CooldownOver
    /\ state' = "HALF_OPEN"
    /\ probing' = FALSE
    /\ UNCHANGED <<failures, ewma, cooled, calling, healthy>>

Blocked ==
    \/ CurrentState = "OPEN"
    \/ CurrentState = "HALF_OPEN" /\ ProbeInFlight

\* BLOCKED: neither the provider nor the breaker hears of it.
OriginateBlocked(r) ==
    /\ r \notin calling
    /\ Blocked
    /\ UNCHANGED vars

\* Mutant of OriginateAdmitted: the probe is not marked.
OriginateUnmarked(r) ==
    /\ r \notin calling
    /\ ~Blocked
    /\ calling' = calling \cup {r}
    /\ state' = CurrentState
    /\ UNCHANGED <<failures, ewma, cooled, probing, healthy>>

\* Up to the await.  In HALF_OPEN the request is the probe.
OriginateAdmitted(r) ==
    /\ r \notin calling
    /\ ~Blocked
    /\ calling' = calling \cup {r}
    /\ state' = CurrentState
    /\ probing' = (probing \/ CurrentState = "HALF_OPEN")
    /\ UNCHANGED <<failures, ewma, cooled, healthy>>

-----------------------------------------------------------------------------
Decayed(average) == (8 * average) \div 10

Answered(r) == calling' = calling \ {r} /\ UNCHANGED healthy

\* Mutant of OriginateSucceeded: the counts and the probe are reset, not the state.
OriginateSucceededStays(r) ==
    /\ r \in calling
    /\ Answered(r)
    /\ failures' = 0
    /\ ewma' = Decayed(ewma)
    /\ probing' = FALSE
    /\ UNCHANGED <<state, cooled>>

\* record_success, of whichever request it is: the breaker closes.
OriginateSucceeded(r) ==
    /\ r \in calling
    /\ Answered(r)
    /\ failures' = 0
    /\ ewma' = Decayed(ewma)
    /\ state' = "CLOSED"
    /\ probing' = FALSE
    /\ UNCHANGED cooled

Tripped(count, average) ==
    count >= ConsecutiveFailureThreshold \/ average > FailureThreshold

\* Mutant of OriginateFailed: the counts start anew when the breaker opens.
OriginateFailedForgets(r) ==
    /\ r \in calling
    /\ ~healthy
    /\ Answered(r)
    /\ LET count == IF failures < ConsecutiveFailureThreshold THEN failures + 1
                    ELSE failures
           average == Decayed(ewma) + One \div 5
       IN  IF Tripped(count, average)
           THEN /\ state' = "OPEN"
                /\ cooled' = FALSE
                /\ probing' = FALSE
                /\ failures' = 0
                /\ ewma' = 0
           ELSE /\ failures' = count
                /\ ewma' = average
                /\ UNCHANGED <<state, cooled, probing>>

\* record_failure: opens the breaker, again if need be, and restarts the cooldown,
\* once either average has crossed its threshold; until then it only counts.
OriginateFailed(r) ==
    /\ r \in calling
    /\ ~healthy
    /\ Answered(r)
    /\ failures' = IF failures < ConsecutiveFailureThreshold THEN failures + 1
                   ELSE failures
    /\ ewma' = Decayed(ewma) + One \div 5
    /\ IF Tripped(failures', ewma')
       THEN state' = "OPEN" /\ cooled' = FALSE /\ probing' = FALSE
       ELSE UNCHANGED <<state, cooled, probing>>

\* An exception passes through the breaker unseen: it counts for nothing, and
\* the exception of a probe leaves probing set for ever.
OriginateRaised(r) ==
    /\ r \in calling
    /\ ProbesMayRaise \/ state # "HALF_OPEN"
    /\ Answered(r)
    /\ UNCHANGED breaker

-----------------------------------------------------------------------------
\* When replies are timely, a request sent before the breaker opened has been
\* answered when the cooldown is over.
CooldownPasses ==
    /\ state = "OPEN"
    /\ ~cooled
    /\ TimelyReplies => calling = {}
    /\ cooled' = TRUE
    /\ UNCHANGED <<state, failures, ewma, probing, calling, healthy>>

ProviderFails == healthy /\ healthy' = FALSE /\ UNCHANGED <<breaker, calling>>
ProviderRecovers == ~healthy /\ healthy' = TRUE /\ UNCHANGED <<breaker, calling>>

Next ==
    \/ \E r \in Callers : \/ OriginateBlocked(r)
                          \/ OriginateAdmitted(r)
                          \/ OriginateSucceeded(r)
                          \/ OriginateFailed(r)
                          \/ OriginateRaised(r)
    \/ ReadState
    \/ CooldownPasses
    \/ ProviderFails
    \/ ProviderRecovers

Spec == Init /\ [][Next]_vars

\* Requests are answered, time passes, and there is always a call to place: the
\* worker loop ticks every second while agents and borrowers are free.
Fairness ==
    /\ WF_vars(CooldownPasses)
    /\ \A r \in Callers :
          /\ WF_vars(OriginateAdmitted(r))
          /\ WF_vars(OriginateSucceeded(r) \/ OriginateFailed(r) \/ OriginateRaised(r))

LiveSpec == Spec /\ Fairness

-----------------------------------------------------------------------------
\* While HALF_OPEN the provider has one request of this breaker at most: neither
\* a second probe nor one left over from before the breaker opened.
ProbeAlone ==
    state = "HALF_OPEN" => \A r, s \in calling : r = s

\* A failed probe opens the breaker again: the counts that opened it are still
\* above their threshold, as nothing but a success, which closes it, lowers them.
FailedProbeReopens ==
    [][\A r \in calling :
          state = "HALF_OPEN" /\ OriginateFailed(r) => state' = "OPEN"]_vars

\* When the provider's outage is over for good, so is the breaker's.
OutageEnds == <>[]healthy => <>[](state = "CLOSED")
=============================================================================
