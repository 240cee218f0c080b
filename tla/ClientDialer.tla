---------------------------- MODULE ClientDialer ----------------------------
(***************************************************************************)
(* The dialer the dashboard simulates in the browser                       *)
(* (dashboard/src/sim/clientSim.ts): a pool of agents, a call funnel, an   *)
(* answer-rate estimate and a pacing decision a second, logged for the     *)
(* audit trail.  Every call is placed and settled inside one tick.  Who    *)
(* answers is drawn at random; here every outcome is possible.             *)
(*                                                                         *)
(* Rates are integers: p_hat in percent, alpha in thousandths, capacities  *)
(* in hundredths of an agent, all rounded down.  The solved bound is kept  *)
(* in thousandths, each part rounded to the side that allows fewer dials.  *)
(***************************************************************************)
EXTENDS Integers, FiniteSets, Sequences

CONSTANTS
    NumAgents,    \* 50 in the code
    ReadyUpTo,    \* agents 1..38 start AVAILABLE,
    TalkingUpTo,  \* ..44 CONNECTED,
    WrappingUpTo, \* ..48 in WRAP_UP, the rest PAUSED
    StartTimes,   \* the seconds in status that may be drawn, for each agent
    TalkSeconds,  \* by scenario
    WrapSeconds, DialSeconds,
    QueueSize,    \* 650
    LogLimit,     \* 80
    RampTicks,    \* 15
    DriftTicks,   \* 40, a third of the cycle of scenario D
    Period,       \* tick numbers are kept modulo this
    MaxDials,     \* bound: dials in a behaviour
    Scenarios     \* those the operator picks from

ASSUME DialerAssumption ==
    /\ NumAgents \in Nat \ {0}
    /\ {ReadyUpTo, TalkingUpTo, WrappingUpTo} \subseteq 0..NumAgents
    /\ StartTimes \subseteq [1..NumAgents -> Nat]
    /\ TalkSeconds \in [{"A", "B", "C", "D"} -> Nat]
    /\ {WrapSeconds, DialSeconds, QueueSize, MaxDials} \subseteq Nat
    /\ {RampTicks, DriftTicks, Period} \subseteq Nat \ {0}
    /\ LogLimit \in 1 .. Period - 1
    /\ Scenarios \subseteq {"A", "B", "C", "D"}

\* A common multiple, so that a tick number modulo Period decides what the
\* code asks of the tick number.
ASSUME PeriodAssumption ==
    Period % RampTicks = 0 /\ Period % (3 * DriftTicks) = 0

VARIABLES
    status,    \* agents[a].status
    time,      \* agents[a].timeInStatusSec
    funnel,    \* RESERVED and RINGING, which stay 0, are left out
    p_hat, alpha, tickId,
    mode, scenario,
    circuitB,  \* carrierB.circuit
    dialed,    \* dialsPlaced of the two carriers
    decisions  \* newest first

engine == <<status, time, funnel, p_hat, alpha, tickId, mode, scenario,
            circuitB, dialed, decisions>>

Agents == 1..NumAgents
Modes == {"PREDICTIVE", "PROGRESSIVE"}
Statuses == {"AVAILABLE", "CONNECTED", "DIALING", "WRAP_UP", "PAUSED"}
Circuits == {"CLOSED", "HALF_OPEN", "OPEN"}

Lesser(x, y) == IF x <= y THEN x ELSE y
Greater(x, y) == IF x >= y THEN x ELSE y

Those(st, s) == {a \in Agents : st[a] = s}

-----------------------------------------------------------------------------
(* The log *)

\* Mutant of Logged: nothing is popped.
LoggedForEver(log, entry) == <<entry>> \o log

Logged(log, entry) == SubSeq(<<entry>> \o log, 1, Lesser(Len(log) + 1, LogLimit))

\* recordOperatorAction: an entry with a random id, told from those of the ticks.
OperatorEntry(action, severity) ==
    [tick |-> -1, category |-> "OPERATOR_ACTION", severity |-> severity,
     action |-> action]

\* clamp_reasons holds a reason for the bound, for the shed, for each abandonment.
DecisionEntry(tick, clamped, abandoned) ==
    [tick |-> tick,
     category |-> IF clamped \/ abandoned > 0 THEN "SAFETY_CONTROLLER" ELSE "AIMD_TUNING",
     severity |-> IF abandoned > 0 THEN "CRITICAL"
                  ELSE IF clamped THEN "WARNING" ELSE "INFO",
     action |-> "Decision"]

-----------------------------------------------------------------------------
(* reset(50) *)

StartStatus ==
    [a \in Agents |-> IF a <= ReadyUpTo THEN "AVAILABLE"
                      ELSE IF a <= TalkingUpTo THEN "CONNECTED"
                      ELSE IF a <= WrappingUpTo THEN "WRAP_UP" ELSE "PAUSED"]

EmptyFunnel ==
    [QUEUED |-> QueueSize, INITIATED |-> 0, ANSWERED |-> 0, CONNECTED |-> 0,
     COMPLETED |-> 0, FAILED |-> 0, ABANDONED |-> 0]

StartEntry == OperatorEntry("System Initialization", "INFO")

\* What both the constructor and the operator's reset leave.  The carriers, the
\* mode and the scenario are not reset.
Fresh(st, tm, fn, p, al, tk) ==
    /\ st = StartStatus
    /\ tm \in StartTimes
    /\ fn = EmptyFunnel
    /\ p = 32
    /\ al = 650
    /\ tk = 0

Init ==
    /\ Fresh(status, time, funnel, p_hat, alpha, tickId)
    /\ mode = "PREDICTIVE"
    /\ scenario = "A"
    /\ circuitB = "CLOSED"
    /\ dialed = [A |-> 0, B |-> 0]
    /\ decisions = <<StartEntry>>

\* Mutant of Reset: the ticks go on counting.
ResetKeepsTick ==
    /\ Fresh(status', time', funnel', p_hat', alpha', 0)
    /\ decisions' = Logged(<<StartEntry>>, OperatorEntry("Reset Pool", "WARNING"))
    /\ UNCHANGED <<tickId, mode, scenario, circuitB, dialed>>

Reset ==
    /\ Fresh(status', time', funnel', p_hat', alpha', tickId')
    /\ decisions' = Logged(<<StartEntry>>, OperatorEntry("Reset Pool", "WARNING"))
    /\ UNCHANGED <<mode, scenario, circuitB, dialed>>

-----------------------------------------------------------------------------
(* tick(), part by part *)

\* The state a timed status gives way to, and the seconds it lasts.
After == [CONNECTED |-> "WRAP_UP", WRAP_UP |-> "AVAILABLE", DIALING |-> "AVAILABLE"]
Lasts == [CONNECTED |-> TalkSeconds[scenario], WRAP_UP |-> WrapSeconds,
          DIALING |-> DialSeconds]

Due(a) == status[a] \in DOMAIN After /\ time[a] + 1 > Lasts[status[a]]

AgedStatus == [a \in Agents |-> IF Due(a) THEN After[status[a]] ELSE status[a]]

\* Mutant of Finished: a call is completed when its wrap-up ends.
FinishedLate == {a \in Agents : status[a] = "WRAP_UP" /\ Due(a)}

Finished == {a \in Agents : status[a] = "CONNECTED" /\ Due(a)}

\* Seconds beyond every limit are not told apart.
LongestStatus == CHOOSE m \in {DialSeconds, WrapSeconds} \cup
                              {TalkSeconds[s] : s \in DOMAIN TalkSeconds} :
                    \A n \in {DialSeconds, WrapSeconds} \cup
                             {TalkSeconds[s] : s \in DOMAIN TalkSeconds} : n <= m

AgedTime ==
    [a \in Agents |-> IF Due(a) THEN 0 ELSE Lesser(time[a] + 1, LongestStatus + 1)]

CircuitAt(tick) ==
    LET cycle == tick % (3 * DriftTicks)
    IN  IF scenario # "D" \/ cycle < DriftTicks THEN "CLOSED"
        ELSE IF cycle < 2 * DriftTicks THEN "HALF_OPEN" ELSE "OPEN"

A == Cardinality(Those(AgedStatus, "AVAILABLE"))
C == Cardinality(Those(AgedStatus, "CONNECTED"))

\* free + F: an agent who talks counts for 7.5/115 of an agent.
CapacityOf(free, talking) == 100 * free + (7500 * talking) \div 1150

Capacity == CapacityOf(A, C)

\* R as the code has it: INITIATED grows with every dial and never shrinks.
Ringing == funnel.INITIATED

Proposed == (alpha * Capacity) \div (1000 * Greater(p_hat, 5))

\* u, the pessimistic answer rate
Pessimistic == Greater(5, Lesser(98, p_hat + 16))

-----------------------------------------------------------------------------
(* The binomial bound, solved for the number of calls.  With z = 2.33:          *)
(*   inner = z*sqrt(u*(1-u)), discriminant = inner^2 + 4*u*(A+F),               *)
(*   x_max = (sqrt(discriminant) - inner) / (2*u), n_max = floor(x_max^2 - R)   *)

\* The root of x, rounded down: below 4000, or no more than x/4000.
Root(x) ==
    CHOOSE r \in 0 .. 4000 + x \div 4000 : r * r <= x /\ x < (r + 1) * (r + 1)

\* inner^2 in millionths, u in percent
Spread(u) == (54289 * u * (100 - u)) \div 100

\* Mutant of SafeTotal: divided by u, not by 2*u.
SafeTotalOfWholeRate(u, cap) ==
    LET inner == Root(Spread(u)) + 1
        discriminant == Spread(u) + 400 * u * cap
        x_max == (100 * Greater(0, Root(discriminant) - inner)) \div u
    IN  (x_max * x_max) \div 1000000

\* x_max^2, rounded down, for a rate u and a capacity cap = A + F
SafeTotal(u, cap) ==
    LET inner == Root(Spread(u)) + 1
        discriminant == Spread(u) + 400 * u * cap
        x_max == (50 * Greater(0, Root(discriminant) - inner)) \div u
    IN  (x_max * x_max) \div 1000000

\* The same, tabled for the capacities a pool can have.
Capacities ==
    UNION {{CapacityOf(free, talking) : talking \in 0 .. NumAgents - free} :
           free \in 0..NumAgents}

SafeTotals == [u \in 5..98 |-> [cap \in Capacities |-> SafeTotal(u, cap)]]

n_max == Greater(0, SafeTotals[Pessimistic][Capacity] - Ringing)

Bounded == Lesser(Proposed, n_max)

Shed(circuit) == circuit = "OPEN" /\ scenario = "D"

\* Mutant of Approved: the agents on a call are dialed for, too.
ApprovedForTalkers(circuit) ==
    IF mode = "PROGRESSIVE" THEN A + C
    ELSE IF Shed(circuit) THEN (4 * Bounded) \div 10
    ELSE Bounded

Approved(circuit) ==
    IF mode = "PROGRESSIVE" THEN A
    ELSE IF Shed(circuit) THEN (4 * Bounded) \div 10
    ELSE Bounded

\* Mutant of Clamped: the shed is not among the reasons.
ClampedByBound(circuit) == mode = "PREDICTIVE" /\ Bounded < Proposed

Clamped(circuit) == mode = "PREDICTIVE" /\ (Bounded < Proposed \/ Shed(circuit))

\* The values p_hat may have after n calls of which k are answered, in some order:
\* after i calls, by the number answered.
Estimates(n, k) ==
    LET est[i \in 0..n] ==
            [j \in 0..n |->
                IF i = 0 THEN IF j = 0 THEN {p_hat} ELSE {}
                ELSE {(85 * p) \div 100 : p \in est[i - 1][j]} \cup
                     IF j = 0 THEN {}
                     ELSE {(85 * p + 1500) \div 100 : p \in est[i - 1][j - 1]}]
    IN  est[n][k]

\* Halved, to 0.2 at least, for every abandonment.
Halved(times) ==
    LET al[i \in 0 .. times] ==
            IF i = 0 THEN alpha ELSE Greater(200, al[i - 1] \div 2)
    IN  al[times]

\* Mutant of Ramped: a tick of the ramp adds, abandonments or not.
RampedAlways(tick, abandoned) ==
    IF tick % RampTicks = 0 THEN Lesser(1000, Halved(abandoned) + 40)
    ELSE Halved(abandoned)

Ramped(tick, abandoned) ==
    IF tick % RampTicks = 0 /\ abandoned = 0
    THEN Lesser(1000, alpha + 40) ELSE Halved(abandoned)

\* find() takes the first free agent for each answered call.
FirstOnes(free) == {{}} \cup {{b \in free : b <= a} : a \in free}

Counted(answered, attached, failed) ==
    [QUEUED    |-> Greater(0, funnel.QUEUED - answered - failed),
     INITIATED |-> funnel.INITIATED + answered + failed,
     ANSWERED  |-> funnel.ANSWERED + answered,
     CONNECTED |-> funnel.CONNECTED + attached,
     COMPLETED |-> funnel.COMPLETED + Cardinality(Finished),
     FAILED    |-> funnel.FAILED + failed,
     ABANDONED |-> funnel.ABANDONED + answered - attached]

\* Mutant of Split: both shares are rounded down.
SplitDown(n) == [A |-> (7 * n) \div 10, B |-> (3 * n) \div 10]

\* 70% rounded up, 30% rounded down
Split(n) == [A |-> n - (3 * n) \div 10, B |-> (3 * n) \div 10]

Tick ==
    LET tick == (tickId + 1) % Period
        circuit == CircuitAt(tick)
        n == Approved(circuit)
        clamped == Clamped(circuit)
        aged == AgedStatus
        agedTime == AgedTime
        free == Those(aged, "AVAILABLE")
    IN  /\ n \in 0 .. MaxDials - dialed.A - dialed.B
        /\ \E answered \in 0..n, taken \in FirstOnes(free) :
              LET attached == Cardinality(taken)
                  abandoned == answered - attached
              IN  /\ attached = Lesser(answered, Cardinality(free))
                  /\ status' = [a \in Agents |-> IF a \in taken THEN "CONNECTED"
                                                 ELSE aged[a]]
                  /\ time' = [a \in Agents |-> IF a \in taken THEN 0 ELSE agedTime[a]]
                  /\ funnel' = Counted(answered, attached, n - answered)
                  /\ p_hat' \in Estimates(n, answered)
                  /\ alpha' = Ramped(tick, abandoned)
                  /\ decisions' = Logged(decisions, DecisionEntry(tick, clamped, abandoned))
        /\ tickId' = tick
        /\ circuitB' = circuit
        /\ dialed' = [A |-> dialed.A + Split(n).A, B |-> dialed.B + Split(n).B]
        /\ UNCHANGED <<mode, scenario>>

-----------------------------------------------------------------------------
(* What the hook does to the engine's fields, each with its audit entry *)

Note(action, severity) ==
    decisions' = Logged(decisions, OperatorEntry(action, severity))

Switched == UNCHANGED <<status, time, funnel, p_hat, alpha, tickId, circuitB, dialed>>

SwitchMode(m) ==
    /\ mode' = m
    /\ Note("Switched Mode", "INFO")
    /\ UNCHANGED scenario /\ Switched

SwitchScenario(s) ==
    /\ scenario' = s
    /\ Note("Switched Scenario", "INFO")
    /\ UNCHANGED mode /\ Switched

Next ==
    \/ Tick
    \/ Reset
    \/ \E m \in Modes : SwitchMode(m)
    \/ \E s \in Scenarios : SwitchScenario(s)

Spec == Init /\ [][Next]_engine

TypeOK ==
    /\ status \in [Agents -> Statuses]
    /\ time \in [Agents -> Nat]
    /\ funnel \in [{"QUEUED", "INITIATED", "ANSWERED", "CONNECTED", "COMPLETED",
                    "FAILED", "ABANDONED"} -> Nat]
    /\ p_hat \in 0..100
    /\ alpha \in 200..1000
    /\ tickId \in 0 .. Period - 1
    /\ mode \in Modes
    /\ scenario \in {"A", "B", "C", "D"}
    /\ circuitB \in Circuits
    /\ dialed \in [{"A", "B"} -> Nat]
    /\ Len(decisions) \in 1..LogLimit

-----------------------------------------------------------------------------
\* Every dial of a tick is settled in it, every answered call is connected or
\* abandoned, every connected call is up on an agent of its own or completed
\* (the agents a reset finds talking count too), and the queue gives up as many
\* borrowers as are dialed while it has them.
CallsAccounted ==
    /\ funnel.INITIATED = funnel.ANSWERED + funnel.FAILED
    /\ funnel.ANSWERED = funnel.CONNECTED + funnel.ABANDONED
    /\ Cardinality(Those(status, "CONNECTED")) + funnel.COMPLETED
            = funnel.CONNECTED + Cardinality(Those(StartStatus, "CONNECTED"))
    /\ funnel.QUEUED = Greater(0, QueueSize - funnel.INITIATED)

\* In progressive mode no answered call is ever abandoned, whoever answers:
\* "exactly 1 outbound call per currently available agent [...] strictly
\* eliminating abandonment risk" (PacingControls.tsx:162).
ProgressiveNeverAbandons ==
    [][mode = "PROGRESSIVE" => funnel'.ABANDONED <= funnel.ABANDONED]_engine

\* A tick that abandons calls at least halves alpha, down to its floor, even on
\* a tick of the additive ramp, and leaves a CRITICAL entry on top of the log.
AbandonmentThrottles ==
    [][funnel'.ABANDONED > funnel.ABANDONED =>
          /\ alpha' <= Greater(200, alpha \div 2)
          /\ decisions'[1].severity = "CRITICAL"]_engine

\* The primary carrier gets 70% of the dials or more, however they are split
\* into ticks (OperationsOverview.tsx:192), and no dial is lost in the rounding.
RouteShares ==
    /\ 3 * dialed.A >= 7 * dialed.B
    /\ dialed.A + dialed.B >= funnel.INITIATED

\* u*m + z*sqrt(m*u*(1-u)) <= cap, squared to be rid of the root
Safe(m, u, cap) ==
    /\ m * u <= cap
    /\ (54289 * m * u * (100 - u) + 9999) \div 10000 <= (cap - m * u) * (cap - m * u)

\* A predictive tick leaves the calls ever initiated, which the code counts as
\* ringing, within the bound it was given: "u*(R+n) + z*sqrt((R+n)*u*(1-u)) <= A + F"
\* (clientSim.ts:287), and so does every later one without a reset.
BinomialBound ==
    [][(mode = "PREDICTIVE" /\ funnel'.INITIATED > funnel.INITIATED)
            => Safe(funnel'.INITIATED, Pessimistic, Capacity)]_engine

\* The dialer is the engine the hook relies on: a step ticks, resets, adds one
\* entry to the log, or is none of its business.
Promise == INSTANCE DialerEngine WITH
    decisions <- [i \in DOMAIN decisions |->
                    [action |-> decisions[i].action, tick |-> decisions[i].tick]]

KeepsEnginePromise == Promise!Spec
=============================================================================
