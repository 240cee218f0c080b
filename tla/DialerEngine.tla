---------------------------- MODULE DialerEngine ----------------------------
(***************************************************************************)
(* What the dashboard's hook relies on in the dialer it simulates: the     *)
(* tick number and the audit log, whose entries an operator's actions and  *)
(* the ticks push and a reset replaces.  ClientDialer is the dialer in     *)
(* full and implements this module; UseWebSocket drives this module.       *)
(***************************************************************************)
EXTENDS Integers, Sequences

CONSTANTS
    LogLimit,  \* entries kept, 80 in the code
    Period     \* tick numbers are kept modulo this, more than the log holds

ASSUME EngineAssumption == Period \in Nat \ {0} /\ LogLimit \in 1 .. Period - 1

VARIABLES tickId, decisions  \* newest entry first

engine == <<tickId, decisions>>

\* What recordOperatorAction is called for, but for a reset.
OperatorActions ==
    {"Switched Mode", "Switched Scenario", "Pause Pacing", "Resume Pacing"}

\* An operator's entry has an id of its own, at random; a decision has its tick's.
NoTick == -1
Operator(action) == [action |-> action, tick |-> NoTick]
Decision(tick) == [action |-> "Decision", tick |-> tick]

\* unshift, then pop
Logged(log, entry) ==
    SubSeq(<<entry>> \o log, 1, IF Len(log) < LogLimit THEN Len(log) + 1 ELSE LogLimit)

Init == tickId = 0 /\ decisions = <<Operator("System Initialization")>>

Tick ==
    /\ tickId' = (tickId + 1) % Period
    /\ decisions' = Logged(decisions, Decision(tickId'))

Note(action) == decisions' = Logged(decisions, Operator(action)) /\ UNCHANGED tickId

\* Mutant of Reset: the log is kept.
ResetKeepsLog ==
    /\ tickId' = 0
    /\ decisions' = Logged(decisions, Operator("Reset Pool"))

\* The engine's reset, and the entry the hook adds to it.
Reset ==
    /\ tickId' = 0
    /\ decisions' = Logged(<<Operator("System Initialization")>>, Operator("Reset Pool"))

Next == Tick \/ Reset \/ \E action \in OperatorActions : Note(action)

Spec == Init /\ [][Next]_engine

\* The ids of the decisions in the log, its rows' React keys (AuditTrail.tsx:85), are
\* distinct, though a reset starts the tick numbers again.
DistinctKeys ==
    \A i, j \in DOMAIN decisions :
        (decisions[i] = decisions[j] /\ decisions[i].tick # NoTick) => i = j
=============================================================================
