------------------------- MODULE UseWebSocketProofs -------------------------
(***************************************************************************)
(* The loop, the log, the pauses it records and the connection of the hook, *)
(* and its types, for any number of sockets, any size of the log and any    *)
(* switches.                                                                *)
(***************************************************************************)
EXTENDS UseWebSocket, DialerEngineProofs, FiniteSetTheorems

-----------------------------------------------------------------------------
(* The loop *)

\* The interval runs while pacing does, and belongs to the render that is shown
\* until that render's effect is due.
LoopInv ==
    /\ {effectDue, isSimRunning, due} \subseteq BOOLEAN
    /\ loops \in {0, 1}
    /\ loops = 1 => isSimRunning
    /\ ~effectDue => (loops = 1 <=> shown # "LIVE" /\ isSimRunning)

\* LoopInv holds when the hook is mounted.
LEMMA LoopInit == HookInit => LoopInv
BY DEF HookInit, LoopInv

\* What the effect leaves of the interval.
LEMMA EffectSets ==
    ASSUME NEW status, NEW running, Effect(status, running)
    PROVE  /\ loops' \in {0, 1} /\ due' = FALSE
           /\ loops' = 1 <=> (status # "LIVE" /\ running)
<1>1. CASE status # "LIVE" /\ running
  BY <1>1 DEF Effect
<1>2. CASE ~(status # "LIVE" /\ running)
  BY <1>2 DEF Effect
<1> QED BY <1>1, <1>2

\* Every step keeps LoopInv: what sets loops runs the effect, and what makes a
\* render different makes its effect due.
LEMMA LoopStep == LoopInv /\ [HookNext]_vars => LoopInv'
<1> SUFFICES ASSUME LoopInv, [HookNext]_vars PROVE LoopInv'
  OBVIOUS
<1> USE DEF LoopInv
<1>1. CASE Connection
  BY <1>1 DEF Connection, rendering
<1>2. CASE Render
  BY <1>2 DEF Render
<1>3. CASE RunEffect
  <2>1. /\ loops' \in {0, 1} /\ due' = FALSE
        /\ loops' = 1 <=> (shown # "LIVE" /\ isSimRunning)
    BY <1>3, EffectSets DEF RunEffect
  <2>2. UNCHANGED <<shown, isSimRunning>> /\ effectDue' = FALSE
    BY <1>3 DEF RunEffect
  <2> QED BY <2>1, <2>2, Zenon
<1>4. CASE SecondPasses
  <2>1. UNCHANGED <<shown, isSimRunning, loops, effectDue>> /\ due' = TRUE
    BY <1>4 DEF SecondPasses, rendering
  <2> QED BY <2>1, Zenon
<1>9. CASE Interval
  <2>1. UNCHANGED <<shown, isSimRunning, loops, effectDue>> /\ due' = FALSE
    BY <1>9 DEF Interval
  <2> QED BY <2>1, Zenon
<1>5. CASE ToggleSim
  <2>1. /\ loops' \in {0, 1} /\ due' = FALSE
        /\ loops' = 1 <=> (shown # "LIVE" /\ isSimRunning')
    BY <1>5, EffectSets DEF ToggleSim
  <2>2. UNCHANGED shown /\ effectDue' = FALSE /\ isSimRunning' \in BOOLEAN
    BY <1>5 DEF ToggleSim
  <2> QED BY <2>1, <2>2, Zenon
<1>6. CASE \E switch \in Switches : Change(switch)
  <2>1. /\ loops' \in {0, 1} /\ due' = FALSE
        /\ loops' = 1 <=> (shown # "LIVE" /\ isSimRunning)
    BY <1>6, EffectSets DEF Change
  <2>2. UNCHANGED <<shown, isSimRunning>> /\ effectDue' = FALSE
    BY <1>6 DEF Change
  <2> QED BY <2>1, <2>2, Zenon
<1>7. CASE RequestReset \/ CancelReset \/ ConfirmReset
           \/ \E switch \in Switches : Reselect(switch)
  BY <1>7 DEF RequestReset, CancelReset, ConfirmReset, OnConfirm, Reselect, rendering
<1>8. CASE UNCHANGED vars
  BY <1>8 DEF vars, rendering
<1> QED BY <1>1, <1>2, <1>3, <1>4, <1>5, <1>6, <1>7, <1>8, <1>9 DEF HookNext

\* One interval while the simulator is shown and pacing runs, and none otherwise
\* (the effect of useWebSocket.ts:130).
THEOREM LoopIsAlone == HookSpec => []OneLoop
<1>1. LoopInv => OneLoop
  BY DEF LoopInv, OneLoop
<1> QED BY <1>1, LoopInit, LoopStep, PTL DEF HookSpec

-----------------------------------------------------------------------------
(* The log, as the hook uses it *)

\* EngineInv holds when the hook is mounted.
LEMMA HookEngineInit == HookInit => EngineInv
BY EngineInit DEF HookInit

\* A click records one entry or, in a development build, the same one twice.
LEMMA RecordedKeeps ==
    ASSUME EngineInv, NEW action \in Recordable, NEW times, Recorded(action, times),
           UNCHANGED tickId
    PROVE  EngineInv' /\ decisions'[1] = Operator(action)
<1> DEFINE once == Logged(decisions, Operator(action))
<1>1. /\ decisions \in Seq(Entries) /\ Len(decisions) \in 1..LogLimit
      /\ tickId \in 0 .. Period - 1 /\ Keys(decisions, tickId)
  BY DEF EngineInv, LogOK
<1>2. /\ once \in Seq(Entries) /\ Len(once) \in 1..LogLimit
      /\ Keys(once, tickId) /\ once[1] = Operator(action)
  BY <1>1, NoteKeeps
<1> HIDE DEF once
<1>3. /\ Logged(once, Operator(action)) \in Seq(Entries)
      /\ Len(Logged(once, Operator(action))) \in 1..LogLimit
      /\ Keys(Logged(once, Operator(action)), tickId)
      /\ Logged(once, Operator(action))[1] = Operator(action)
  BY <1>1, <1>2, NoteKeeps
<1>4. decisions' = once \/ decisions' = Logged(once, Operator(action))
  BY DEF Recorded, once
<1>5. /\ decisions' \in Seq(Entries) /\ Len(decisions') \in 1..LogLimit
      /\ Keys(decisions', tickId) /\ decisions'[1] = Operator(action)
  BY <1>2, <1>3, <1>4
<1> QED BY <1>1, <1>5 DEF EngineInv, LogOK

\* A pause or resume, a switch and a reset leave an operator's entry on top.
LEMMA ToggleKeeps == EngineInv /\ ToggleSim => EngineInv' /\ decisions'[1].action # "Decision"
<1> SUFFICES ASSUME EngineInv, ToggleSim PROVE EngineInv' /\ decisions'[1].action # "Decision"
  OBVIOUS
<1>1. PICK action \in {"Pause Pacing", "Resume Pacing"}, times \in {1, 2} :
         Recorded(action, times)
  BY DEF ToggleSim
<1>2. action \in Recordable /\ action # "Decision"
  BY DEF Recordable, OperatorActions
<1>3. UNCHANGED tickId
  BY DEF ToggleSim
<1>4. EngineInv' /\ decisions'[1] = Operator(action)
  BY <1>1, <1>2, <1>3, RecordedKeeps
<1>5. Operator(action).action # "Decision"
  BY <1>2 DEF Operator
<1> QED BY <1>4, <1>5

\* So does a click on a mode or scenario (useWebSocket.ts:189-222).
LEMMA ChangeKeeps ==
    ASSUME EngineInv, NEW switch \in Switches, Change(switch) \/ Reselect(switch)
    PROVE  EngineInv' /\ decisions'[1].action # "Decision"
<1>1. switch \in Recordable /\ switch # "Decision"
  BY HookAssumption DEF Recordable, OperatorActions
<1>2. UNCHANGED tickId /\ Recorded(switch, 1)
  BY DEF Change, Reselect, Note, Recorded
<1>3. EngineInv' /\ decisions'[1] = Operator(switch)
  BY <1>1, <1>2, RecordedKeeps
<1>4. Operator(switch).action # "Decision"
  BY <1>1 DEF Operator
<1> QED BY <1>3, <1>4

\* So does a confirmed reset, whose log starts anew.
LEMMA ConfirmResetKeeps ==
    EngineInv /\ ConfirmReset => EngineInv' /\ decisions'[1].action # "Decision"
<1> SUFFICES ASSUME EngineInv, Reset PROVE EngineInv' /\ decisions'[1].action # "Decision"
  BY DEF ConfirmReset, OnConfirm
<1> DEFINE start == <<Operator("System Initialization")>>
<1>1. "System Initialization" \in Recordable /\ "Reset Pool" \in Recordable
  BY DEF Recordable
<1>2. start \in Seq(Entries) /\ Len(start) \in 1..LogLimit /\ Keys(start, 0)
  BY <1>1, KeysOfStart
<1>3. 0 \in 0 .. Period - 1
  BY EngineAssumption
<1> HIDE DEF start
<1>4. Logged(start, Operator("Reset Pool"))[1] = Operator("Reset Pool")
  BY <1>3, <1>1, <1>2, NoteKeeps
<1>5. decisions'[1] = Operator("Reset Pool")
  BY <1>4 DEF Reset, start
<1>6. Operator("Reset Pool").action # "Decision"
  BY DEF Operator
<1> QED BY <1>5, <1>6, ResetKeeps

\* Every step of the hook keeps EngineInv, and a decision comes from the interval.
LEMMA HookEngineStep ==
    EngineInv /\ [HookNext]_vars =>
        /\ EngineInv'
        /\ (decisions' # decisions /\ decisions'[1].action = "Decision") => Interval
<1> SUFFICES ASSUME EngineInv, [HookNext]_vars
             PROVE  /\ EngineInv'
                    /\ (decisions' # decisions /\ decisions'[1].action = "Decision") => Interval
  OBVIOUS
<1>1. CASE UNCHANGED engine
  BY <1>1 DEF engine, EngineInv, LogOK
<1>2. CASE Interval
  BY <1>2, TickKeeps DEF Interval
<1>3. CASE ToggleSim
  BY <1>3, ToggleKeeps
<1>4. CASE \E switch \in Switches : Change(switch) \/ Reselect(switch)
  BY <1>4, ChangeKeeps
<1>5. CASE ConfirmReset
  BY <1>5, ConfirmResetKeeps
<1> QED BY <1>1, <1>2, <1>3, <1>4, <1>5
        DEF HookNext, Connection, Render, RunEffect, SecondPasses, RequestReset,
            CancelReset, vars

\* The ids of the decisions in the audit trail are distinct, whatever the operator
\* does (AuditTrail.tsx:85 makes them the keys of its rows).
THEOREM KeysAreDistinct == HookSpec => []DistinctKeys
BY HookEngineInit, HookEngineStep, KeysDistinct, PTL DEF HookSpec

\* A paused dialer takes no decision, whatever renders and timers were under way at
\* the click (useWebSocket.ts:162).
THEOREM PausedDecidesNothing == HookSpec => PauseHalts
<1>1. LoopInv /\ Interval => isSimRunning
  BY DEF LoopInv, Interval
<1>2. LoopInv /\ EngineInv /\ [HookNext]_vars =>
        [(decisions' # decisions /\ decisions'[1].action = "Decision") => isSimRunning]_vars
  BY <1>1, HookEngineStep
<1> QED BY <1>2, LoopInit, LoopStep, HookEngineInit, HookEngineStep, PTL
        DEF HookSpec, PauseHalts

-----------------------------------------------------------------------------
(* The pauses and resumes in the log *)

Toggle(entry) == entry.action \in {"Pause Pacing", "Resume Pacing"}

\* An entry that tells whether the dialer runs
Tells(entry, running) == Toggle(entry) /\ (entry.action = "Resume Pacing" <=> running)

\* The newest toggle is at i; none is between those at i and j.
Newest(log, i) ==
    Toggle(log[i]) /\ \A h \in 1 .. Len(log) : Toggle(log[h]) => i <= h

Adjacent(log, i, j) ==
    /\ i < j /\ Toggle(log[i]) /\ Toggle(log[j])
    /\ \A h \in 1 .. Len(log) : Toggle(log[h]) => h <= i \/ j <= h

\* TogglesOnRecord of a log, a dialer that runs or not, and clicks recorded once
OnRecord(log, running, once) ==
    /\ \A i \in 1 .. Len(log) : Newest(log, i) => Tells(log[i], running)
    /\ once => \A i, j \in 1 .. Len(log) :
                  Adjacent(log, i, j) => log[i].action # log[j].action

\* A log with one more entry on top, perhaps without its last
OneMore(log, new, entry) ==
    /\ Len(log) \in Nat /\ Len(new) \in Nat /\ 1 <= Len(new) /\ Len(new) <= Len(log) + 1
    /\ new[1] = entry
    /\ \A i \in 2 .. Len(new) : new[i] = log[i - 1]

\* Below the entry put on top, the newest toggle and adjacent ones are those of the
\* log, one place further.
LEMMA RecordShifts ==
    ASSUME NEW log, NEW new, NEW entry, OneMore(log, new, entry)
    PROVE  /\ \A i \in 2 .. Len(new) : i - 1 \in 1 .. Len(log) /\ new[i] = log[i - 1]
           /\ \A i \in 2 .. Len(new) : Newest(new, i) => Newest(log, i - 1)
           /\ \A i, j \in 2 .. Len(new) : Adjacent(new, i, j) => Adjacent(log, i - 1, j - 1)
           /\ \A j \in 2 .. Len(new) : Adjacent(new, 1, j) => Newest(log, j - 1)
<1> USE DEF OneMore
<1>1. ASSUME NEW i \in 2 .. Len(new)
      PROVE  i - 1 \in 1 .. Len(log) /\ i \in 1 .. Len(new) /\ new[i] = log[i - 1]
  OBVIOUS
<1>2. ASSUME NEW h \in 1 .. Len(log), Toggle(log[h]), NEW j \in 2 .. Len(new), h < j - 1
      PROVE  h + 1 \in 1 .. Len(new) /\ Toggle(new[h + 1])
  <2>1. h + 1 \in 2 .. Len(new) /\ (h + 1) - 1 = h
    BY <1>2
  <2> QED BY <1>2, <2>1
<1>3. ASSUME NEW i \in 2 .. Len(new), Newest(new, i) PROVE Newest(log, i - 1)
  <2>1. ASSUME NEW h \in 1 .. Len(log), Toggle(log[h]) PROVE i - 1 <= h
    <3>1. ASSUME h < i - 1 PROVE FALSE
      <4>1. h + 1 \in 1 .. Len(new) /\ Toggle(new[h + 1])
        BY <1>2, <2>1, <3>1
      <4>2. i <= h + 1
        BY <1>3, <4>1 DEF Newest
      <4> QED BY <3>1, <4>2
    <3> QED BY <3>1
  <2> QED BY <1>1, <1>3, <2>1 DEF Newest
<1>4. ASSUME NEW i \in 2 .. Len(new), NEW j \in 2 .. Len(new), Adjacent(new, i, j)
      PROVE  Adjacent(log, i - 1, j - 1)
  <2>1. ASSUME NEW h \in 1 .. Len(log), Toggle(log[h]) PROVE h <= i - 1 \/ j - 1 <= h
    <3>1. ASSUME h < j - 1 PROVE h <= i - 1
      <4>1. h + 1 \in 1 .. Len(new) /\ Toggle(new[h + 1])
        BY <1>2, <2>1, <3>1
      <4>2. h + 1 <= i \/ j <= h + 1
        BY <1>4, <4>1 DEF Adjacent
      <4> QED BY <3>1, <4>2
    <3> QED BY <3>1
  <2>2. i - 1 < j - 1 /\ new[i] = log[i - 1] /\ new[j] = log[j - 1]
    BY <1>1, <1>4 DEF Adjacent
  <2> QED BY <1>4, <2>1, <2>2 DEF Adjacent
<1>5. ASSUME NEW j \in 2 .. Len(new), Adjacent(new, 1, j) PROVE Newest(log, j - 1)
  <2>1. ASSUME NEW h \in 1 .. Len(log), Toggle(log[h]) PROVE j - 1 <= h
    <3>1. ASSUME h < j - 1 PROVE FALSE
      <4>1. h + 1 \in 1 .. Len(new) /\ Toggle(new[h + 1])
        BY <1>2, <2>1, <3>1
      <4>2. h + 1 <= 1 \/ j <= h + 1
        BY <1>5, <4>1 DEF Adjacent
      <4> QED BY <3>1, <4>2
    <3> QED BY <3>1
  <2> QED BY <1>1, <1>5, <2>1 DEF Newest, Adjacent
<1> QED BY <1>1, <1>3, <1>4, <1>5

\* An entry that is no toggle leaves the record as it was.
LEMMA OtherOnRecord ==
    ASSUME NEW log, NEW new, NEW entry, OneMore(log, new, entry), ~Toggle(entry),
           NEW running, NEW once, OnRecord(log, running, once)
    PROVE  OnRecord(new, running, once)
<1>1. new[1] = entry /\ Len(new) \in Nat /\ 1 <= Len(new)
  BY DEF OneMore
<1>2. ASSUME NEW i \in 1 .. Len(new), Newest(new, i)
      PROVE  Tells(new[i], running)
  <2>1. i # 1
    BY <1>1, <1>2 DEF Newest
  <2>2. i \in 2 .. Len(new)
    BY <1>1, <2>1
  <2>3. Newest(log, i - 1) /\ i - 1 \in 1 .. Len(log) /\ new[i] = log[i - 1]
    BY <1>2, <2>2, RecordShifts
  <2> QED BY <2>3 DEF OnRecord
<1>3. ASSUME once, NEW i \in 1 .. Len(new), NEW j \in 1 .. Len(new), Adjacent(new, i, j)
      PROVE  new[i].action # new[j].action
  <2>1. i # 1 /\ j # 1
    BY <1>1, <1>3 DEF Adjacent
  <2>2. i \in 2 .. Len(new) /\ j \in 2 .. Len(new)
    BY <1>1, <2>1
  <2>3. /\ Adjacent(log, i - 1, j - 1) /\ i - 1 \in 1 .. Len(log) /\ j - 1 \in 1 .. Len(log)
        /\ new[i] = log[i - 1] /\ new[j] = log[j - 1]
    BY <1>3, <2>2, RecordShifts
  <2> QED BY <1>3, <2>3 DEF OnRecord
<1> QED BY <1>2, <1>3 DEF OnRecord

\* A toggle turns the record over: the newest before it told the opposite.
LEMMA ToggleOnRecord ==
    ASSUME NEW log, NEW new, NEW entry, OneMore(log, new, entry),
           NEW running, NEW after, Tells(entry, after),
           \A e : Tells(e, running) => e.action # entry.action,
           NEW once, OnRecord(log, running, once)
    PROVE  OnRecord(new, after, once)
<1>1. new[1] = entry /\ Len(new) \in Nat /\ 1 <= Len(new)
  BY DEF OneMore
<1>2. ASSUME NEW i \in 1 .. Len(new), Newest(new, i)
      PROVE  Tells(new[i], after)
  <2>0. Toggle(new[1]) /\ 1 \in 1 .. Len(new)
    <3>1. Toggle(entry)
      BY Zenon DEF Tells
    <3> QED BY <1>1, <3>1
  <2>1. i <= 1
    BY <1>2, <2>0 DEF Newest
  <2>2. new[i] = entry
    BY <1>1, <2>1
  <2> QED BY <2>2
<1>3. ASSUME once, NEW i \in 1 .. Len(new), NEW j \in 1 .. Len(new), Adjacent(new, i, j)
      PROVE  new[i].action # new[j].action
  <2>0. j \in 2 .. Len(new)
    BY <1>1, <1>3 DEF Adjacent
  <2>1. CASE i = 1
    <3>1. Newest(log, j - 1) /\ j - 1 \in 1 .. Len(log) /\ new[j] = log[j - 1]
      BY <1>3, <2>0, <2>1, RecordShifts
    <3>2. Tells(new[j], running)
      BY <3>1 DEF OnRecord
    <3> QED BY <1>1, <2>1, <3>2
  <2>2. CASE i # 1
    <3>1. i \in 2 .. Len(new)
      BY <1>1, <2>2
    <3>2. /\ Adjacent(log, i - 1, j - 1)
          /\ i - 1 \in 1 .. Len(log) /\ j - 1 \in 1 .. Len(log)
          /\ new[i] = log[i - 1] /\ new[j] = log[j - 1]
      BY <1>3, <2>0, <3>1, RecordShifts
    <3> QED BY <1>3, <3>2 DEF OnRecord
  <2> QED BY <2>1, <2>2
<1> QED BY <1>2, <1>3 DEF OnRecord

\* The same toggle once more, in a development build, tells the same.
LEMMA AgainOnRecord ==
    ASSUME NEW log, NEW new, NEW entry, OneMore(log, new, entry),
           NEW running, Tells(entry, running)
    PROVE  OnRecord(new, running, FALSE)
<1>1. new[1] = entry /\ Len(new) \in Nat /\ 1 <= Len(new)
  BY DEF OneMore
<1>2. ASSUME NEW i \in 1 .. Len(new), Newest(new, i)
      PROVE  Tells(new[i], running)
  <2>0. Toggle(new[1]) /\ 1 \in 1 .. Len(new)
    <3>1. Toggle(entry)
      BY Zenon DEF Tells
    <3> QED BY <1>1, <3>1
  <2>1. i <= 1
    BY <1>2, <2>0 DEF Newest
  <2>2. new[i] = entry
    BY <1>1, <2>1
  <2> QED BY <2>2
<1> QED BY <1>2 DEF OnRecord

\* What is logged is one more.
LEMMA LoggedIsOneMore ==
    ASSUME NEW log \in Seq(Entries), Len(log) \in 1..LogLimit, NEW entry \in Entries
    PROVE  /\ OneMore(log, Logged(log, entry), entry)
           /\ Logged(log, entry) \in Seq(Entries) /\ Len(Logged(log, entry)) \in 1..LogLimit
<1> DEFINE new == Logged(log, entry)
<1>1. Len(log) \in 0..LogLimit /\ Len(log) \in Nat
  BY EngineAssumption
<1>2. /\ new \in Seq(Entries) /\ Len(new) \in 1..LogLimit /\ Len(new) <= Len(log) + 1
      /\ new[1] = entry
      /\ \A i \in 2 .. Len(new) : new[i] = log[i - 1]
  BY <1>1, LoggedEntry
<1> HIDE DEF new
<1>3. Len(new) \in Nat /\ 1 <= Len(new)
  BY <1>1, <1>2, EngineAssumption
<1> QED BY <1>1, <1>2, <1>3 DEF OneMore, new

RecordInv == strict \in BOOLEAN /\ isSimRunning \in BOOLEAN
             /\ OnRecord(decisions, isSimRunning, ~strict)

\* A log without toggles, as mounting and a reset leave it
LEMMA NoToggles ==
    ASSUME NEW log, \A i \in 1 .. Len(log) : ~Toggle(log[i]), NEW running, NEW once
    PROVE  OnRecord(log, running, once)
BY DEF OnRecord, Newest, Adjacent

\* The log that mounting and a reset leave
LEMMA StartToggles ==
    LET start == <<Operator("System Initialization")>>
    IN  start \in Seq(Entries) /\ Len(start) \in 1..LogLimit /\ \A i \in 1 .. Len(start) : ~Toggle(start[i])
<1> DEFINE e == Operator("System Initialization")
           start == <<e>>
<1>1. e \in Entries /\ e.action = "System Initialization"
  <2>1. "System Initialization" \in Recordable
    BY DEF Recordable
  <2> QED BY <2>1, OperatorIsEntry DEF Operator
<1> HIDE DEF e
<1>2. start \in Seq(Entries) /\ Len(start) = 1 /\ start[1] = e
  <2>1. ASSUME NEW x \in Entries PROVE <<x>> \in Seq(Entries) /\ Len(<<x>>) = 1 /\ <<x>>[1] = x
    OBVIOUS
  <2> QED BY <1>1, <2>1
<1> HIDE DEF start
<1>3. Len(start) \in 1..LogLimit
  BY <1>2, EngineAssumption
<1>4. \A i \in 1 .. Len(start) : ~Toggle(start[i])
  <2>1. \A i \in 1 .. Len(start) : start[i] = e
    BY <1>2
  <2>2. ~Toggle(e)
    BY <1>1 DEF Toggle
  <2> QED BY <2>1, <2>2
<1> QED BY <1>2, <1>3, <1>4 DEF start, e

\* RecordInv holds when the hook is mounted.
LEMMA RecordInit == HookInit => RecordInv
<1> SUFFICES ASSUME HookInit PROVE RecordInv
  OBVIOUS
<1>1. decisions = <<Operator("System Initialization")>>
  BY DEF HookInit, Init
<1>3. \A i \in 1 .. Len(decisions) : ~Toggle(decisions[i])
  BY <1>1, StartToggles
<1>4. OnRecord(decisions, isSimRunning, ~strict)
  BY <1>3, NoToggles
<1> QED BY <1>4 DEF HookInit, RecordInv

\* A click on pause or resume keeps it.
LEMMA ToggleRecorded == EngineInv /\ RecordInv /\ ToggleSim => RecordInv'
<1> SUFFICES ASSUME EngineInv, RecordInv, ToggleSim PROVE RecordInv'
  OBVIOUS
<1> DEFINE action == IF isSimRunning THEN "Pause Pacing" ELSE "Resume Pacing"
           e == Operator(action)
           once == Logged(decisions, e)
           twice == Logged(once, e)
<1>1. /\ isSimRunning' = ~isSimRunning /\ strict' = strict
      /\ strict \in BOOLEAN /\ isSimRunning \in BOOLEAN
      /\ OnRecord(decisions, isSimRunning, ~strict)
      /\ decisions \in Seq(Entries) /\ Len(decisions) \in 1..LogLimit
  BY DEF ToggleSim, RecordInv, EngineInv, LogOK
<1>2. decisions' = once \/ (strict /\ decisions' = twice)
  BY <1>1 DEF ToggleSim, Recorded
<1>3. action \in {"Pause Pacing", "Resume Pacing"} /\ (action = "Resume Pacing" <=> ~isSimRunning)
  BY <1>1
<1> HIDE DEF action
<1>4. e \in Entries /\ e.action = action
  <2>1. action \in Recordable
    BY <1>3 DEF Recordable, OperatorActions
  <2> QED BY <2>1, OperatorIsEntry DEF Operator
<1> HIDE DEF e
<1>5. OneMore(decisions, once, e) /\ once \in Seq(Entries) /\ Len(once) \in 1..LogLimit
  BY <1>1, <1>4, LoggedIsOneMore
<1> HIDE DEF once
<1>6. OneMore(once, twice, e)
  BY <1>4, <1>5, LoggedIsOneMore
<1> HIDE DEF twice
<1>7. Tells(e, ~isSimRunning) /\ \A d : Tells(d, isSimRunning) => d.action # e.action
  BY <1>3, <1>4, Zenon DEF Tells, Toggle
<1>8. OnRecord(once, ~isSimRunning, ~strict)
  BY <1>1, <1>5, <1>7, ToggleOnRecord, Zenon
<1>9. OnRecord(twice, ~isSimRunning, FALSE)
  BY <1>6, <1>7, AgainOnRecord, Zenon
<1>10. OnRecord(decisions', ~isSimRunning, ~strict)
  <2>1. CASE decisions' = once
    BY <1>8, <2>1
  <2>2. CASE strict /\ decisions' = twice
    BY <1>9, <2>2 DEF OnRecord
  <2> QED BY <1>2, <2>1, <2>2
<1> QED BY <1>1, <1>10 DEF RecordInv

\* An entry of anything else keeps it.
LEMMA OtherRecorded ==
    ASSUME EngineInv, RecordInv, NEW e \in Entries,
           ~Toggle(e),
           decisions' = Logged(decisions, e), UNCHANGED <<strict, isSimRunning>>
    PROVE  RecordInv'
<1>1. OneMore(decisions, decisions', e)
  BY LoggedIsOneMore DEF EngineInv, LogOK
<1>2. OnRecord(decisions', isSimRunning, ~strict)
  BY <1>1, OtherOnRecord DEF RecordInv
<1> QED BY <1>2 DEF RecordInv

\* A reset starts a log without toggles.
LEMMA ResetRecorded ==
    ASSUME RecordInv, Reset, UNCHANGED <<strict, isSimRunning>>
    PROVE  RecordInv'
<1> DEFINE start == <<Operator("System Initialization")>>
           e == Operator("Reset Pool")
<1>1. e \in Entries /\ ~Toggle(e)
  <2>1. "Reset Pool" \in Recordable
    BY DEF Recordable
  <2> QED BY <2>1, OperatorIsEntry DEF Operator, Toggle
<1>2. start \in Seq(Entries) /\ Len(start) \in 1..LogLimit /\ \A i \in 1 .. Len(start) : ~Toggle(start[i])
  BY StartToggles
<1>5. decisions' = Logged(start, e)
  BY DEF Reset
<1> HIDE DEF start, e
<1>6. OneMore(start, decisions', e)
  BY <1>1, <1>2, <1>5, LoggedIsOneMore
<1>7. OnRecord(start, isSimRunning, ~strict)
  BY <1>2, NoToggles
<1>8. OnRecord(decisions', isSimRunning, ~strict)
  BY <1>1, <1>6, <1>7, OtherOnRecord
<1> QED BY <1>8 DEF RecordInv

\* Every step keeps it.
LEMMA RecordStep == EngineInv /\ RecordInv /\ [HookNext]_vars => RecordInv'
<1> SUFFICES ASSUME EngineInv, RecordInv, [HookNext]_vars PROVE RecordInv'
  OBVIOUS
<1>1. CASE UNCHANGED <<engine, strict, isSimRunning>>
  BY <1>1 DEF engine, RecordInv
<1>2. CASE Interval
  <2>1. tickId' \in Int
    <3>1. tickId + 1 \in Int /\ Period \in Nat \ {0}
      BY EngineAssumption DEF EngineInv
    <3> QED BY <1>2, <3>1 DEF Interval, Tick
  <2>2. Decision(tickId') \in Entries /\ Decision(tickId').action = "Decision"
    BY <2>1, DecisionIsEntry DEF Decision
  <2>3. decisions' = Logged(decisions, Decision(tickId')) /\ UNCHANGED <<strict, isSimRunning>>
    BY <1>2 DEF Interval, Tick
  <2> HIDE DEF Decision
  <2>4. ~Toggle(Decision(tickId'))
    BY <2>2 DEF Toggle
  <2> QED BY <2>2, <2>3, <2>4, OtherRecorded
<1>3. CASE ToggleSim
  BY <1>3, ToggleRecorded
<1>4. CASE \E switch \in Switches : Change(switch) \/ Reselect(switch)
  <2>1. PICK switch \in Switches : Change(switch) \/ Reselect(switch)
    BY <1>4
  <2>2. switch \in {"Switched Mode", "Switched Scenario"}
    BY HookAssumption
  <2>3. Operator(switch) \in Entries /\ Operator(switch).action = switch
    <3>1. switch \in Recordable
      BY <2>2 DEF Recordable, OperatorActions
    <3> QED BY <3>1, OperatorIsEntry DEF Operator
  <2>4. decisions' = Logged(decisions, Operator(switch)) /\ UNCHANGED <<strict, isSimRunning>>
    BY <2>1 DEF Change, Reselect, Note
  <2>5. ~Toggle(Operator(switch))
    BY <2>2, <2>3 DEF Toggle
  <2> QED BY <2>3, <2>4, <2>5, OtherRecorded
<1>5. CASE ConfirmReset
  BY <1>5, ResetRecorded DEF ConfirmReset, OnConfirm
<1> QED BY <1>1, <1>2, <1>3, <1>4, <1>5
        DEF HookNext, Connection, Render, RunEffect, SecondPasses, RequestReset,
            CancelReset, vars

\* The newest pause or resume in the audit trail tells whether the dialer runs, and in
\* a production build they alternate (useWebSocket.ts:152-186).
THEOREM RecordTellsTheDialer == HookSpec => []TogglesOnRecord
<1>1. EngineInv /\ RecordInv => TogglesOnRecord
  <2> SUFFICES ASSUME EngineInv, RecordInv PROVE TogglesOnRecord
    OBVIOUS
  <2>1. DOMAIN decisions = 1 .. Len(decisions)
    BY DEF EngineInv, LogOK
  <2> QED BY <2>1 DEF RecordInv, OnRecord, Tells, Toggle, Newest, Adjacent, TogglesOnRecord
<1> QED BY <1>1, HookEngineInit, HookEngineStep, RecordInit, RecordStep, PTL DEF HookSpec

-----------------------------------------------------------------------------
(* The connection *)

ConnTypeOK ==
    /\ sockets \in [Sockets -> {"none", "connecting", "open", "closing"}]
    /\ timers \in Nat
    /\ {strict, blocked} \subseteq BOOLEAN

\* In a production build no socket is closed but by the network, and the status is
\* the socket's.
StatusInv ==
    ~strict => /\ \A s \in Sockets : sockets[s] # "closing"
               /\ connectionStatus = "LIVE" <=> \E s \in Sockets : sockets[s] = "open"

ConnInv == ConnTypeOK /\ OneConnection /\ StatusInv

\* There are two sockets at least, as the development build needs.
LEMMA TwoSockets == MaxSockets \in Int /\ 2 <= MaxSockets
<1>1. MaxSockets \in Nat \ {0, 1}
  BY HookAssumption
<1>2. MaxSockets \in Nat /\ MaxSockets # 0 /\ MaxSockets # 1
  BY <1>1
<1> QED BY <1>2

\* The sockets alive are finitely many.
LEMMA AliveFinite == IsFiniteSet(Sockets) /\ IsFiniteSet(Alive) /\ Cardinality(Alive) \in Nat
<1>1. IsFiniteSet(Sockets)
  <2>1. 1 \in Int /\ MaxSockets \in Int
    BY TwoSockets
  <2> QED BY <2>1, FS_Interval, Zenon DEF Sockets
<1>2. Alive \subseteq Sockets
  BY DEF Alive
<1> QED BY <1>1, <1>2, FS_Subset, FS_CardinalityType

\* One socket is alive after mounting, two in a development build.
LEMMA ConnInit == HookInit => ConnInv
<1> SUFFICES ASSUME HookInit PROVE ConnInv
  OBVIOUS
<1> USE DEF HookInit
<1>1. sockets = Mounted /\ timers = 0 /\ strict \in BOOLEAN /\ blocked \in BOOLEAN
  OBVIOUS
<1>2. 1 \in Sockets /\ 2 \in Sockets
  BY TwoSockets DEF Sockets
<1>3. ConnTypeOK
  BY <1>1 DEF Mounted, ConnTypeOK
<1>4. StatusInv
  BY <1>1 DEF Mounted, StatusInv
<1>5. OneConnection
  <2>1. CASE blocked
    <3>1. Alive = {}
      BY <1>1, <2>1 DEF Alive, Mounted
    <3> QED BY <1>1, <3>1, FS_EmptySet DEF OneConnection
  <2>2. CASE ~blocked /\ strict
    <3>1. Alive = {1} \cup {2}
      BY <1>1, <1>2, <2>2 DEF Alive, Mounted
    <3>2. Cardinality({1}) = 1 /\ IsFiniteSet({1})
      BY FS_Singleton, Zenon
    <3>3. 2 \notin {1}
      OBVIOUS
    <3>4. Cardinality({1} \cup {2}) = 2
      <4> DEFINE one == {1}
      <4>1. IsFiniteSet(one) /\ Cardinality(one) = 1 /\ 2 \notin one
        BY <3>2, <3>3
      <4> HIDE DEF one
      <4>2. Cardinality(one \cup {2}) = Cardinality(one) + 1
        BY <4>1, FS_AddElement
      <4> QED BY <4>1, <4>2 DEF one
    <3> QED BY <1>1, <2>2, <3>1, <3>4 DEF OneConnection
  <2>3. CASE ~blocked /\ ~strict
    <3>1. Alive = {1}
      BY <1>1, <1>2, <2>3 DEF Alive, Mounted
    <3> QED BY <1>1, <2>3, <3>1, FS_Singleton DEF OneConnection
  <2> QED BY <1>1, <2>1, <2>2, <2>3
<1> QED BY <1>3, <1>4, <1>5 DEF ConnInv

\* A socket that opens was alive.
LEMMA OnOpenKeeps ==
    ASSUME ConnInv, NEW s \in Sockets, OnOpen(s), UNCHANGED strict
    PROVE  ConnInv'
<1> USE DEF ConnInv, ConnTypeOK, OnOpen
<1>1. Alive' = Alive
  BY DEF Alive
<1>2. OneConnection'
  BY <1>1 DEF OneConnection
<1>3. StatusInv'
  BY DEF StatusInv
<1> QED BY <1>2, <1>3

\* A socket that closes leaves its place to a timer.
LEMMA OnCloseKeeps ==
    ASSUME ConnInv, NEW s \in Sockets, OnClose(s), UNCHANGED strict
    PROVE  ConnInv'
<1> USE DEF ConnInv, ConnTypeOK, OnClose
<1>1. s \in Alive /\ Alive' = Alive \ {s}
  BY DEF Alive
<1>2. Cardinality(Alive') = Cardinality(Alive) - 1
  BY <1>1, AliveFinite, FS_RemoveElement
<1>3. OneConnection'
  BY <1>2, AliveFinite DEF OneConnection
<1>4. StatusInv'
  <2> SUFFICES ASSUME ~strict
               PROVE  /\ \A t \in Sockets : sockets'[t] # "closing"
                      /\ \A t \in Sockets : sockets'[t] # "open"
    BY DEF StatusInv
  <2>1. Cardinality(Alive) <= 1
    BY AliveFinite DEF OneConnection
  <2>2. Cardinality(Alive') = 0
    BY <1>1, <1>2, <2>1, AliveFinite, FS_EmptySet
  <2>3. Alive' = {}
    BY <1>1, <2>2, AliveFinite, FS_RemoveElement, FS_EmptySet
  <2> QED BY <2>3 DEF Alive
<1> QED BY <1>3, <1>4

\* A timer that fires gives its place to a socket.
LEMMA ReconnectKeeps ==
    ASSUME ConnInv, NEW s \in Sockets, Reconnect(s), UNCHANGED strict
    PROVE  ConnInv'
<1> USE DEF ConnInv, ConnTypeOK, Reconnect
<1>1. s \notin Alive /\ Alive' = Alive \cup {s}
  BY DEF Alive
<1>2. Cardinality(Alive') = Cardinality(Alive) + 1
  BY <1>1, AliveFinite, FS_AddElement
<1>3. OneConnection'
  BY <1>2, AliveFinite DEF OneConnection
<1>4. StatusInv'
  BY DEF StatusInv
<1> QED BY <1>3, <1>4

\* Every step keeps ConnInv.
LEMMA ConnStep == ConnInv /\ [HookNext]_vars => ConnInv'
<1> SUFFICES ASSUME ConnInv, [HookNext]_vars PROVE ConnInv'
  OBVIOUS
<1>1. CASE Connection
  <2>1. UNCHANGED strict
    BY <1>1 DEF Connection
  <2>2. CASE BackendSwitches
    BY <2>1, <2>2 DEF BackendSwitches, ConnInv, ConnTypeOK, StatusInv, OneConnection, Alive
  <2> QED BY <1>1, <2>1, <2>2, OnOpenKeeps, OnCloseKeeps, ReconnectKeeps DEF Connection
<1>2. CASE UNCHANGED <<strict, connection>>
  BY <1>2 DEF connection, ConnInv, ConnTypeOK, StatusInv, OneConnection, Alive
<1> QED BY <1>1, <1>2 DEF HookNext, vars, Render, RunEffect, SecondPasses, Interval, ToggleSim,
                          Change, Reselect, RequestReset, CancelReset, ConfirmReset, OnConfirm

\* At most one connection or timer, two in a development build: the sockets of the
\* hook (useWebSocket.ts:106-109) do not multiply over its outages.
THEOREM ConnectionsDoNotMultiply == HookSpec => []OneConnection
<1>1. ConnInv => OneConnection
  BY DEF ConnInv
<1> QED BY <1>1, ConnInit, ConnStep, PTL DEF HookSpec

\* In a production build the status is the socket's (useWebSocket.ts:90 and 107).
THEOREM StatusIsTheSockets == HookSpec => []StatusTellsConnection
<1>1. ConnInv => StatusTellsConnection
  BY DEF ConnInv, StatusInv, StatusTellsConnection
<1> QED BY <1>1, ConnInit, ConnStep, PTL DEF HookSpec

-----------------------------------------------------------------------------
(* Types *)

\* What is left of HookTypeOK
PageTyped ==
    /\ {backendUp, isResetModalOpen} \subseteq BOOLEAN
    /\ {connectionStatus, shown} \subseteq {"LIVE", "SIMULATOR"}
    /\ unshown \in 0..LogLimit

\* The page shows the simulator when it is mounted.
LEMMA PageInit == HookInit => PageTyped
<1>1. 0 \in 0..LogLimit
  BY EngineAssumption
<1> QED BY <1>1 DEF HookInit, PageTyped

\* Every step leaves a page of its type.
LEMMA PageStep == PageTyped /\ [HookNext]_vars => PageTyped'
<1> SUFFICES ASSUME PageTyped, [HookNext]_vars PROVE PageTyped'
  OBVIOUS
<1>1. /\ 0 \in 0..LogLimit
      /\ \A n \in {1, 2} : Unseen(n) \in 0..LogLimit
  <2>1. LogLimit \in Nat \ {0} /\ unshown \in Nat
    BY EngineAssumption DEF PageTyped
  <2> QED BY <2>1 DEF Unseen
<1>2. CASE Connection
  <2>1. connectionStatus' \in {connectionStatus, "LIVE", "SIMULATOR"} /\ backendUp' \in BOOLEAN
    BY <1>2 DEF Connection, BackendSwitches, OnOpen, OnClose, Reconnect, PageTyped
  <2>2. UNCHANGED <<shown, unshown, isResetModalOpen>>
    BY <1>2 DEF Connection, rendering
  <2> QED BY <2>1, <2>2 DEF PageTyped
<1>3. CASE Render
  BY <1>3 DEF Render, PageTyped, connection
<1>4. CASE RunEffect
  BY <1>4 DEF RunEffect, PageTyped, connection
<1>5. CASE SecondPasses \/ Interval
  BY <1>1, <1>5 DEF SecondPasses, Interval, PageTyped, connection
<1>6. CASE ToggleSim
  <2>1. unshown' \in 0..LogLimit
    BY <1>1, <1>6 DEF ToggleSim
  <2> QED BY <1>6, <2>1 DEF ToggleSim, PageTyped, connection
<1>7. CASE \E switch \in Switches : Change(switch) \/ Reselect(switch)
  <2>1. unshown' \in 0..LogLimit
    BY <1>1, <1>7 DEF Change, Reselect
  <2> QED BY <1>7, <2>1 DEF Change, Reselect, PageTyped, connection, rendering
<1>8. CASE RequestReset \/ CancelReset
  BY <1>8 DEF RequestReset, CancelReset, PageTyped, connection, rendering
<1>9. CASE ConfirmReset
  BY <1>1, <1>9 DEF ConfirmReset, OnConfirm, PageTyped, connection, rendering
<1>10. CASE UNCHANGED vars
  BY <1>10 DEF vars, connection, rendering, PageTyped
<1> QED BY <1>2, <1>3, <1>4, <1>5, <1>6, <1>7, <1>8, <1>9, <1>10 DEF HookNext

\* Every variable of the hook keeps its type: the log its limit, and so does what a
\* page has not yet shown of it (useWebSocket.ts:42-45 and clientSim.ts:164, 378).
THEOREM HookTyped == HookSpec => []HookTypeOK
<1>1. EngineInv /\ LoopInv /\ ConnInv /\ PageTyped => HookTypeOK
  BY DEF EngineInv, LogOK, LoopInv, ConnInv, ConnTypeOK, PageTyped, HookTypeOK
<1> QED BY <1>1, HookEngineInit, HookEngineStep, LoopInit, LoopStep, ConnInit, ConnStep,
           PageInit, PageStep, PTL DEF HookSpec
=============================================================================
