------------------------- MODULE DialerEngineProofs -------------------------
(***************************************************************************)
(* What the log of the engine is, whatever is logged, for any limit and    *)
(* any period of the tick numbers.                                         *)
(***************************************************************************)
EXTENDS DialerEngine, SequenceTheorems, TLAPS

Recordable == OperatorActions \cup {"System Initialization", "Reset Pool"}

Entries == [action : Recordable \cup {"Decision"}, tick : Int]

\* The log is a sequence of entries within its limit, and never empty.
LogOK == decisions \in Seq(Entries) /\ Len(decisions) \in 1..LogLimit

-----------------------------------------------------------------------------
(* The log *)

\* An entry on top of a log within its limit: the log stays within it, the entry
\* is its first and each other one is a place further.
LEMMA LoggedEntry ==
    ASSUME NEW log \in Seq(Entries), Len(log) \in 0..LogLimit, NEW entry \in Entries
    PROVE  /\ Logged(log, entry) \in Seq(Entries)
           /\ Len(Logged(log, entry)) \in 1..LogLimit
           /\ Len(Logged(log, entry)) <= Len(log) + 1
           /\ Logged(log, entry)[1] = entry
           /\ \A i \in 2 .. Len(Logged(log, entry)) : Logged(log, entry)[i] = log[i - 1]
<1> DEFINE full == <<entry>> \o log
           k == IF Len(log) < LogLimit THEN Len(log) + 1 ELSE LogLimit
<1>1. <<entry>> \in Seq(Entries) /\ Len(<<entry>>) = 1 /\ <<entry>>[1] = entry
  OBVIOUS
<1>2. /\ full \in Seq(Entries) /\ Len(full) = Len(log) + 1 /\ full[1] = entry
      /\ \A i \in 2 .. Len(log) + 1 : full[i] = log[i - 1]
  BY <1>1, ConcatProperties
<1>3. k \in 1 .. LogLimit /\ k <= Len(full) /\ k \in Nat
  BY <1>2, EngineAssumption
<1> HIDE DEF full, k
<1>4. /\ SubSeq(full, 1, k) \in Seq(Entries)
      /\ Len(SubSeq(full, 1, k)) = k
      /\ \A i \in 1..k : SubSeq(full, 1, k)[i] = full[i]
  BY <1>2, <1>3, SubSeqProperties
<1> QED BY <1>2, <1>3, <1>4 DEF Logged, full, k

\* An operator's entry and a decision are entries, and only the former has no tick.
LEMMA OperatorIsEntry ==
    ASSUME NEW action \in Recordable
    PROVE  Operator(action) \in Entries /\ Operator(action).tick = NoTick
<1>1. NoTick \in Int
  BY DEF NoTick
<1> QED BY <1>1 DEF Operator, Entries

\* A decision of any tick is an entry that carries the tick.
LEMMA DecisionIsEntry ==
    ASSUME NEW tick \in Int
    PROVE  Decision(tick) \in Entries /\ Decision(tick).tick = tick
BY DEF Decision, Entries

-----------------------------------------------------------------------------
(* The ids of the decisions in the log *)

\* Going down the log the tick numbers go down, modulo Period, by no more than the
\* places passed: operators' entries take places too.
Keys(log, tk) ==
    /\ \A i \in 1 .. Len(log) :
          log[i].tick # NoTick =>
             /\ log[i].tick \in 0 .. Period - 1
             /\ \E d \in 0 .. i - 1 : log[i].tick \in {tk - d, tk - d + Period}
    /\ \A i, j \in 1 .. Len(log) :
          (i < j /\ log[i].tick # NoTick /\ log[j].tick # NoTick) =>
             \E d \in 1 .. j - i : log[j].tick \in {log[i].tick - d, log[i].tick - d + Period}

\* An operator's entry keeps Keys.
LEMMA KeysOfOperator ==
    ASSUME NEW log \in Seq(Entries), Len(log) \in 0..LogLimit,
           NEW tk \in 0 .. Period - 1, Keys(log, tk), NEW action \in Recordable
    PROVE  Keys(Logged(log, Operator(action)), tk)
<1> DEFINE new == Logged(log, Operator(action))
<1>1. /\ new \in Seq(Entries) /\ Len(new) <= Len(log) + 1 /\ Len(new) \in Nat
      /\ new[1].tick = NoTick
      /\ \A i \in 2 .. Len(new) : new[i] = log[i - 1]
  <2>1. Operator(action) \in Entries /\ Operator(action).tick = NoTick
    BY OperatorIsEntry
  <2> DEFINE e == Operator(action)
  <2> HIDE DEF e
  <2>2. /\ Logged(log, e) \in Seq(Entries)
        /\ Len(Logged(log, e)) \in 1..LogLimit
        /\ Len(Logged(log, e)) <= Len(log) + 1
        /\ Logged(log, e)[1] = e
        /\ \A i \in 2 .. Len(Logged(log, e)) : Logged(log, e)[i] = log[i - 1]
    BY <2>1, LoggedEntry DEF e
  <2> QED BY <2>1, <2>2 DEF e
<1> HIDE DEF new
<1>2. ASSUME NEW i \in 1 .. Len(new), new[i].tick # NoTick
      PROVE  /\ new[i].tick \in 0 .. Period - 1
             /\ \E d \in 0 .. i - 1 : new[i].tick \in {tk - d, tk - d + Period}
  <2>1. i - 1 \in 1 .. Len(log) /\ new[i] = log[i - 1]
    BY <1>1, <1>2
  <2>2. PICK d \in 0 .. (i - 1) - 1 : log[i - 1].tick \in {tk - d, tk - d + Period}
    BY <1>2, <2>1 DEF Keys
  <2>3. d \in 0 .. i - 1
    OBVIOUS
  <2> QED BY <1>2, <2>1, <2>2, <2>3 DEF Keys
<1>3. ASSUME NEW i \in 1 .. Len(new), NEW j \in 1 .. Len(new), i < j,
             new[i].tick # NoTick, new[j].tick # NoTick
      PROVE  \E d \in 1 .. j - i : new[j].tick \in {new[i].tick - d, new[i].tick - d + Period}
  <2>1. /\ i - 1 \in 1 .. Len(log) /\ new[i] = log[i - 1]
        /\ j - 1 \in 1 .. Len(log) /\ new[j] = log[j - 1]
        /\ i - 1 < j - 1 /\ (j - 1) - (i - 1) = j - i
    BY <1>1, <1>3
  <2>2. \E d \in 1 .. (j - 1) - (i - 1) :
          log[j - 1].tick \in {log[i - 1].tick - d, log[i - 1].tick - d + Period}
    BY <1>3, <2>1, Zenon DEF Keys
  <2> QED BY <2>1, <2>2
<1> QED BY <1>2, <1>3 DEF Keys, new

\* The number of the next tick
NextTick(tk) == (tk + 1) % Period

\* The tick number after a tick: one more, or 0 after the last of the period.
LEMMA NextTickIs ==
    ASSUME NEW tk \in 0 .. Period - 1
    PROVE  /\ NextTick(tk) \in 0 .. Period - 1
           /\ NextTick(tk) = IF tk + 1 = Period THEN 0 ELSE tk + 1
BY EngineAssumption DEF NextTick

\* The decision of the next tick keeps Keys.
LEMMA KeysOfDecision ==
    ASSUME NEW log \in Seq(Entries), Len(log) \in 0..LogLimit,
           NEW tk \in 0 .. Period - 1, Keys(log, tk)
    PROVE  Keys(Logged(log, Decision(NextTick(tk))), NextTick(tk))
<1> DEFINE nt == NextTick(tk)
           new == Logged(log, Decision(nt))
<1>1. nt \in 0 .. Period - 1 /\ nt = IF tk + 1 = Period THEN 0 ELSE tk + 1
  BY NextTickIs
<1> HIDE DEF nt
<1>2. /\ new \in Seq(Entries) /\ Len(new) <= Len(log) + 1 /\ Len(new) \in 1..LogLimit
      /\ new[1].tick = nt
      /\ \A i \in 2 .. Len(new) : new[i] = log[i - 1]
  <2>1. Decision(nt) \in Entries /\ Decision(nt).tick = nt
    BY <1>1, DecisionIsEntry
  <2> DEFINE e == Decision(nt)
  <2> HIDE DEF e
  <2>2. /\ Logged(log, e) \in Seq(Entries)
        /\ Len(Logged(log, e)) \in 1..LogLimit
        /\ Len(Logged(log, e)) <= Len(log) + 1
        /\ Logged(log, e)[1] = e
        /\ \A i \in 2 .. Len(Logged(log, e)) : Logged(log, e)[i] = log[i - 1]
    BY <2>1, LoggedEntry DEF e
  <2> QED BY <2>1, <2>2 DEF e
<1> HIDE DEF new
<1>3. ASSUME NEW i \in 2 .. Len(new), new[i].tick # NoTick
      PROVE  /\ new[i].tick \in 0 .. Period - 1
             /\ \E d \in 1 .. i - 1 : new[i].tick \in {nt - d, nt - d + Period}
  <2>1. i - 1 \in 1 .. Len(log) /\ new[i] = log[i - 1]
    BY <1>2, <1>3
  <2>2. PICK d \in 0 .. (i - 1) - 1 : log[i - 1].tick \in {tk - d, tk - d + Period}
    BY <1>3, <2>1 DEF Keys
  <2>3. log[i - 1].tick \in 0 .. Period - 1
    BY <1>3, <2>1 DEF Keys
  <2>4. d + 1 \in 1 .. i - 1 /\ d < Period
    BY <1>2, EngineAssumption
  <2>5. log[i - 1].tick \in {nt - (d + 1), nt - (d + 1) + Period}
    BY <1>1, <2>2, <2>3, <2>4, EngineAssumption
  <2> QED BY <2>1, <2>3, <2>4, <2>5
<1>4. ASSUME NEW i \in 1 .. Len(new), new[i].tick # NoTick
      PROVE  /\ new[i].tick \in 0 .. Period - 1
             /\ \E d \in 0 .. i - 1 : new[i].tick \in {nt - d, nt - d + Period}
  <2>1. CASE i = 1
    <3>1. new[i].tick = nt - 0 /\ 0 \in 0 .. i - 1
      BY <1>1, <1>2, <2>1
    <3> QED BY <1>1, <1>2, <2>1, <3>1
  <2>2. CASE i \in 2 .. Len(new)
    BY <1>3, <1>4, <2>2
  <2> QED BY <1>2, <2>1, <2>2
<1>5. ASSUME NEW i \in 1 .. Len(new), NEW j \in 1 .. Len(new), i < j,
             new[i].tick # NoTick, new[j].tick # NoTick
      PROVE  \E d \in 1 .. j - i : new[j].tick \in {new[i].tick - d, new[i].tick - d + Period}
  <2>1. CASE i = 1
    BY <1>2, <1>3, <1>5, <2>1
  <2>2. CASE i # 1
    <3>1. /\ i - 1 \in 1 .. Len(log) /\ new[i] = log[i - 1]
          /\ j - 1 \in 1 .. Len(log) /\ new[j] = log[j - 1]
          /\ i - 1 < j - 1 /\ (j - 1) - (i - 1) = j - i
      BY <1>2, <1>5, <2>2
    <3>2. \E d \in 1 .. (j - 1) - (i - 1) :
            log[j - 1].tick \in {log[i - 1].tick - d, log[i - 1].tick - d + Period}
      BY <1>5, <3>1, Zenon DEF Keys
    <3> QED BY <3>1, <3>2
  <2> QED BY <2>1, <2>2
<1> QED BY <1>4, <1>5 DEF Keys, new, nt

-----------------------------------------------------------------------------
(* The engine *)

\* What every step of the engine keeps
EngineInv == LogOK /\ tickId \in 0 .. Period - 1 /\ Keys(decisions, tickId)

\* EngineInv tells the decisions of the log apart: the log is shorter than Period.
LEMMA KeysDistinct == EngineInv => DistinctKeys
<1> SUFFICES ASSUME EngineInv, NEW i \in 1 .. Len(decisions), NEW j \in 1 .. Len(decisions),
                    decisions[i] = decisions[j], decisions[i].tick # NoTick, i < j
             PROVE  FALSE
  BY DEF EngineInv, LogOK, DistinctKeys
<1>1. decisions[i].tick \in 0 .. Period - 1
  BY DEF EngineInv, Keys
<1>2. PICK d \in 1 .. j - i :
         decisions[j].tick \in {decisions[i].tick - d, decisions[i].tick - d + Period}
  BY DEF EngineInv, Keys
<1>3. d < Period /\ d \in Nat \ {0} /\ Period \in Nat
  BY EngineAssumption DEF EngineInv, LogOK
<1> QED BY <1>1, <1>2, <1>3

\* The log with one entry satisfies Keys if the entry is an operator's.
LEMMA KeysOfStart ==
    ASSUME NEW action \in Recordable
    PROVE  /\ <<Operator(action)>> \in Seq(Entries)
           /\ Len(<<Operator(action)>>) \in 1..LogLimit
           /\ Keys(<<Operator(action)>>, 0)
<1>1. Operator(action) \in Entries /\ Operator(action).tick = NoTick
  BY OperatorIsEntry
<1>2. LogLimit \in Nat \ {0}
  BY EngineAssumption
<1> DEFINE log == <<Operator(action)>>
<1>3. Len(log) = 1 /\ log[1].tick = NoTick /\ log \in Seq(Entries)
  BY <1>1
<1> HIDE DEF log
<1>4. Keys(log, 0)
  BY <1>3 DEF Keys
<1> QED BY <1>2, <1>3, <1>4 DEF log

\* EngineInv holds at the start.
LEMMA EngineInit == Init => EngineInv
<1> SUFFICES ASSUME Init PROVE EngineInv
  OBVIOUS
<1>1. 0 \in 0 .. Period - 1
  BY EngineAssumption
<1>2. "System Initialization" \in Recordable
  BY DEF Recordable
<1> QED BY <1>1, <1>2, KeysOfStart DEF Init, EngineInv, LogOK

\* Each of the engine's steps keeps EngineInv.
LEMMA TickKeeps == EngineInv /\ Tick => EngineInv'
<1> SUFFICES ASSUME EngineInv, Tick PROVE EngineInv'
  OBVIOUS
<1>1. tickId' = NextTick(tickId) /\ decisions' = Logged(decisions, Decision(NextTick(tickId)))
  BY DEF Tick, NextTick
<1>2. decisions \in Seq(Entries) /\ Len(decisions) \in 0..LogLimit /\ tickId \in 0 .. Period - 1
  BY DEF EngineInv, LogOK
<1>3. NextTick(tickId) \in 0 .. Period - 1
  BY <1>2, NextTickIs
<1>4. Keys(decisions', tickId')
  BY <1>1, <1>2, KeysOfDecision DEF EngineInv
<1>5. LogOK'
  BY <1>1, <1>2, <1>3, LoggedEntry, DecisionIsEntry DEF LogOK
<1> QED BY <1>1, <1>3, <1>4, <1>5 DEF EngineInv

\* The entry of an operator's action on any log that EngineInv allows
LEMMA NoteKeeps ==
    ASSUME NEW log \in Seq(Entries), Len(log) \in 1..LogLimit, NEW tk \in 0 .. Period - 1,
           Keys(log, tk), NEW action \in Recordable
    PROVE  /\ Logged(log, Operator(action)) \in Seq(Entries)
           /\ Len(Logged(log, Operator(action))) \in 1..LogLimit
           /\ Keys(Logged(log, Operator(action)), tk)
           /\ Logged(log, Operator(action))[1] = Operator(action)
<1>1. Len(log) \in 0..LogLimit
  OBVIOUS
<1> QED BY <1>1, LoggedEntry, OperatorIsEntry, KeysOfOperator

\* A reset keeps EngineInv: the log it starts holds no decision.
LEMMA ResetKeeps == EngineInv /\ Reset => EngineInv'
<1> SUFFICES ASSUME Reset PROVE EngineInv'
  OBVIOUS
<1>1. 0 \in 0 .. Period - 1
  BY EngineAssumption
<1>2. "System Initialization" \in Recordable /\ "Reset Pool" \in Recordable
  BY DEF Recordable
<1>3. decisions' = Logged(<<Operator("System Initialization")>>, Operator("Reset Pool"))
  BY DEF Reset
<1>4. /\ decisions' \in Seq(Entries) /\ Len(decisions') \in 1..LogLimit
      /\ Keys(decisions', 0)
  BY <1>1, <1>2, <1>3, KeysOfStart, NoteKeeps
<1> QED BY <1>1, <1>4 DEF Reset, EngineInv, LogOK

\* The ids of the decisions in the log are distinct (clientSim.ts:357), for any size
\* of the log.
THEOREM EngineKeysDistinct == Spec => []DistinctKeys
<1>1. EngineInv /\ [Next]_engine => EngineInv'
  <2>1. ASSUME EngineInv, NEW action \in OperatorActions, Note(action) PROVE EngineInv'
    <3>1. action \in Recordable
      BY DEF Recordable
    <3> QED BY <2>1, <3>1, NoteKeeps DEF Note, EngineInv, LogOK
  <2>2. ASSUME EngineInv, UNCHANGED engine PROVE EngineInv'
    BY <2>2 DEF engine, EngineInv, LogOK
  <2> QED BY <2>1, <2>2, TickKeeps, ResetKeeps DEF Next
<1> QED BY <1>1, EngineInit, KeysDistinct, PTL DEF Spec
=============================================================================
