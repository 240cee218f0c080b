------------------------ MODULE ClientDialerProofs ------------------------
(***************************************************************************)
(* The simulated dialer's types, its books, its two modes, the shares of   *)
(* its carriers, what its log tells, and the engine it implements, for any *)
(* pool of agents, any durations and any limits.                           *)
(***************************************************************************)
EXTENDS DashboardFigures, FiniteSetTheorems, SequenceTheorems, TLAPS

FunnelStages == {"QUEUED", "INITIATED", "ANSWERED", "CONNECTED", "COMPLETED",
                 "FAILED", "ABANDONED"}

\* The part of TypeOK that the steps themselves need
Typed ==
    /\ status \in [Agents -> Statuses]
    /\ funnel \in [FunnelStages -> Nat]
    /\ dialed \in [{"A", "B"} -> Nat]

-----------------------------------------------------------------------------
(* Agents *)

\* The agents with a status are finitely many.
LEMMA ThoseFinite ==
    ASSUME NEW st, NEW s
    PROVE  /\ IsFiniteSet(Those(st, s)) /\ Cardinality(Those(st, s)) \in Nat
           /\ \A T \in SUBSET Those(st, s) : IsFiniteSet(T) /\ Cardinality(T) \in Nat
<1>1. 1 \in Int /\ NumAgents \in Int
  BY DialerAssumption
<1>2. IsFiniteSet(Agents)
  BY <1>1, FS_Interval, Zenon DEF Agents
<1>3. Those(st, s) \subseteq Agents
  BY DEF Those
<1>4. \A T \in SUBSET Agents : IsFiniteSet(T) /\ Cardinality(T) \in Nat
  BY <1>2, FS_Subset, FS_CardinalityType
<1> QED BY <1>3, <1>4

\* Timers end calls, and start none.
LEMMA Aging ==
    ASSUME Typed
    PROVE  /\ AgedStatus \in [Agents -> Statuses]
           /\ Finished \in SUBSET Those(status, "CONNECTED")
           /\ Those(AgedStatus, "CONNECTED") = Those(status, "CONNECTED") \ Finished
<1>1. \A s \in DOMAIN After : After[s] \in Statuses /\ After[s] # "CONNECTED"
  BY DEF After, Statuses
<1>2. \A a \in Agents : status[a] \in Statuses
  BY DEF Typed
<1>3. \A a \in Agents : Due(a) => status[a] \in DOMAIN After
  BY DEF Due
<1>4. AgedStatus \in [Agents -> Statuses]
  BY <1>1, <1>2, <1>3 DEF AgedStatus
<1>5. \A a \in Agents : AgedStatus[a] = "CONNECTED" <=> (status[a] = "CONNECTED" /\ ~Due(a))
  BY <1>1, <1>3 DEF AgedStatus
<1> QED BY <1>4, <1>5 DEF Those, Finished

\* What a tick does with its n dials: answered of them are answered, as many as
\* there are free agents connect, and the rest fail or are abandoned.
Settled(n, answered, taken) ==
    /\ n \in Nat /\ answered \in 0..n
    /\ n = Approved(CircuitAt((tickId + 1) % Period))
    /\ taken \in SUBSET Those(AgedStatus, "AVAILABLE")
    /\ Cardinality(taken) = Lesser(answered, Cardinality(Those(AgedStatus, "AVAILABLE")))
    /\ status' = [a \in Agents |-> IF a \in taken THEN "CONNECTED" ELSE AgedStatus[a]]
    /\ funnel' = Counted(answered, Cardinality(taken), n - answered)
    /\ dialed' = [A |-> dialed.A + Split(n).A, B |-> dialed.B + Split(n).B]
    /\ time' = [a \in Agents |-> IF a \in taken THEN 0 ELSE AgedTime[a]]
    /\ p_hat' \in Estimates(n, answered)
    /\ alpha' = Ramped((tickId + 1) % Period, answered - Cardinality(taken))
    /\ decisions' = Logged(decisions,
                           DecisionEntry((tickId + 1) % Period,
                                         Clamped(CircuitAt((tickId + 1) % Period)),
                                         answered - Cardinality(taken)))

\* A tick settles some number of dials, of which some are answered and some attached.
LEMMA TickSettles == Tick => \E n, answered, taken : Settled(n, answered, taken)
<1> SUFFICES ASSUME Tick PROVE \E n, answered, taken : Settled(n, answered, taken)
  OBVIOUS
<1> DEFINE n == Approved(CircuitAt((tickId + 1) % Period))
           free == Those(AgedStatus, "AVAILABLE")
<1>1. n \in 0 .. MaxDials - dialed.A - dialed.B
  BY DEF Tick
<1>2. PICK answered \in 0..n, taken \in FirstOnes(free) :
         /\ Cardinality(taken) = Lesser(answered, Cardinality(free))
         /\ status' = [a \in Agents |-> IF a \in taken THEN "CONNECTED" ELSE AgedStatus[a]]
         /\ funnel' = Counted(answered, Cardinality(taken), n - answered)
         /\ time' = [a \in Agents |-> IF a \in taken THEN 0 ELSE AgedTime[a]]
         /\ p_hat' \in Estimates(n, answered)
         /\ alpha' = Ramped((tickId + 1) % Period, answered - Cardinality(taken))
         /\ decisions' = Logged(decisions,
                                DecisionEntry((tickId + 1) % Period,
                                              Clamped(CircuitAt((tickId + 1) % Period)),
                                              answered - Cardinality(taken)))
  BY DEF Tick
<1>3. taken \in SUBSET free
  BY <1>2 DEF FirstOnes
<1>4. dialed' = [A |-> dialed.A + Split(n).A, B |-> dialed.B + Split(n).B]
  BY DEF Tick
<1>5. n \in Nat
  BY <1>1
<1>6. Settled(n, answered, taken)
  BY <1>2, <1>3, <1>4, <1>5 DEF Settled
<1> QED BY <1>6

\* The counts that settle: no more calls connect than are answered.
LEMMA SettledCounts ==
    ASSUME NEW n, NEW answered, NEW taken, Settled(n, answered, taken)
    PROVE  /\ n \in Nat /\ answered \in Nat /\ n - answered \in Nat
           /\ Cardinality(taken) \in Nat /\ answered - Cardinality(taken) \in Nat
           /\ IsFiniteSet(taken)
<1>1. n \in Nat /\ answered \in 0..n /\ taken \in SUBSET Those(AgedStatus, "AVAILABLE")
  BY DEF Settled
<1>2. IsFiniteSet(taken) /\ Cardinality(taken) \in Nat
  BY <1>1, ThoseFinite
<1>3. Cardinality(Those(AgedStatus, "AVAILABLE")) \in Nat
  BY ThoseFinite
<1>4. Cardinality(taken) = Lesser(answered, Cardinality(Those(AgedStatus, "AVAILABLE")))
  BY DEF Settled
<1>5. Cardinality(taken) <= answered
  BY <1>1, <1>2, <1>3, <1>4 DEF Lesser
<1> QED BY <1>1, <1>2, <1>5

\* The agents on a call: those before, without those who finished, and those taken.
LEMMA SettledAgents ==
    ASSUME Typed, NEW n, NEW answered, NEW taken, Settled(n, answered, taken)
    PROVE  /\ status' \in [Agents -> Statuses]
           /\ Cardinality(Finished) \in Nat
           /\ Cardinality(Those(status, "CONNECTED")) \in Nat
           /\ Cardinality(Those(status', "CONNECTED"))
                 = Cardinality(Those(status, "CONNECTED")) - Cardinality(Finished)
                     + Cardinality(taken)
<1> DEFINE before == Those(status, "CONNECTED")
           after == Those(status', "CONNECTED")
           free == Those(AgedStatus, "AVAILABLE")
<1>1. /\ status' = [a \in Agents |-> IF a \in taken THEN "CONNECTED" ELSE AgedStatus[a]]
      /\ taken \in SUBSET free
  BY DEF Settled
<1>2. /\ AgedStatus \in [Agents -> Statuses] /\ Finished \in SUBSET before
      /\ Those(AgedStatus, "CONNECTED") = before \ Finished
  BY Aging
<1>3. status' \in [Agents -> Statuses]
  BY <1>1, <1>2 DEF Statuses
<1>4. after = (before \ Finished) \cup taken
  BY <1>1, <1>2 DEF Those
<1>5. (before \ Finished) \cap taken = {}
  BY <1>1, <1>2 DEF Those
<1>6. /\ IsFiniteSet(before) /\ IsFiniteSet(taken) /\ IsFiniteSet(before \ Finished)
      /\ Cardinality(before) \in Nat /\ Cardinality(Finished) \in Nat
      /\ Cardinality(taken) \in Nat /\ Cardinality(before \ Finished) \in Nat
  BY <1>1, <1>2, ThoseFinite
<1>7. before \cap Finished = Finished
  BY <1>2
<1> HIDE DEF before, after
<1>8. Cardinality(before \ Finished) = Cardinality(before) - Cardinality(Finished)
  BY <1>6, <1>7, FS_Difference
<1>9. Cardinality(after) = Cardinality(before \ Finished) + Cardinality(taken)
  <2> DEFINE rest == before \ Finished
  <2>1. after = rest \cup taken /\ rest \cap taken = {} /\ IsFiniteSet(rest)
    BY <1>4, <1>5, <1>6
  <2> HIDE DEF rest
  <2>2. Cardinality(rest \cup taken)
            = Cardinality(rest) + Cardinality(taken) - Cardinality(rest \cap taken)
    BY <1>6, <2>1, FS_Union
  <2>3. Cardinality(rest \cap taken) = 0
    BY <2>1, FS_EmptySet
  <2>4. Cardinality(rest) \in Nat
    BY <1>6 DEF rest
  <2> QED BY <1>6, <2>1, <2>2, <2>3, <2>4 DEF rest
<1> QED BY <1>3, <1>6, <1>8, <1>9 DEF before, after

-----------------------------------------------------------------------------
(* The books *)

\* The counters a tick adds to
LEMMA CountedTyped ==
    ASSUME Typed, NEW n, NEW answered, NEW taken, Settled(n, answered, taken)
    PROVE  /\ funnel' \in [FunnelStages -> Nat]
           /\ funnel'.QUEUED = Greater(0, funnel.QUEUED - n)
           /\ funnel'.INITIATED = funnel.INITIATED + n
           /\ funnel'.ANSWERED = funnel.ANSWERED + answered
           /\ funnel'.CONNECTED = funnel.CONNECTED + Cardinality(taken)
           /\ funnel'.COMPLETED = funnel.COMPLETED + Cardinality(Finished)
           /\ funnel'.FAILED = funnel.FAILED + (n - answered)
           /\ funnel'.ABANDONED = funnel.ABANDONED + (answered - Cardinality(taken))
<1>1. /\ n \in Nat /\ answered \in Nat /\ n - answered \in Nat
      /\ Cardinality(taken) \in Nat /\ answered - Cardinality(taken) \in Nat
  BY SettledCounts
<1>2. Cardinality(Finished) \in Nat
  BY SettledAgents
<1>3. funnel' = Counted(answered, Cardinality(taken), n - answered)
  BY DEF Settled
<1>4. /\ funnel.QUEUED \in Nat /\ funnel.INITIATED \in Nat /\ funnel.ANSWERED \in Nat
      /\ funnel.CONNECTED \in Nat /\ funnel.COMPLETED \in Nat /\ funnel.FAILED \in Nat
      /\ funnel.ABANDONED \in Nat
  BY DEF Typed, FunnelStages
<1>5. Greater(0, funnel.QUEUED - answered - (n - answered)) = Greater(0, funnel.QUEUED - n)
      /\ Greater(0, funnel.QUEUED - n) \in Nat
  BY <1>1, <1>4 DEF Greater
<1>6. /\ funnel'.QUEUED = Greater(0, funnel.QUEUED - n)
      /\ funnel'.INITIATED = funnel.INITIATED + n
      /\ funnel'.ANSWERED = funnel.ANSWERED + answered
      /\ funnel'.CONNECTED = funnel.CONNECTED + Cardinality(taken)
      /\ funnel'.COMPLETED = funnel.COMPLETED + Cardinality(Finished)
      /\ funnel'.FAILED = funnel.FAILED + (n - answered)
      /\ funnel'.ABANDONED = funnel.ABANDONED + (answered - Cardinality(taken))
  BY <1>1, <1>3, <1>4, <1>5 DEF Counted
<1>7. /\ DOMAIN funnel' = FunnelStages
      /\ funnel' = [s \in FunnelStages |-> funnel'[s]]
  BY <1>3 DEF Counted, FunnelStages
<1>8. \A s \in FunnelStages : funnel'[s] \in Nat
  BY <1>1, <1>2, <1>4, <1>5, <1>6 DEF FunnelStages
<1> QED BY <1>6, <1>7, <1>8

\* What reset leaves
LEMMA FreshTyped ==
    ASSUME NEW st, NEW tm, NEW fn, NEW p, NEW al, NEW tk, Fresh(st, tm, fn, p, al, tk)
    PROVE  /\ st \in [Agents -> Statuses] /\ fn \in [FunnelStages -> Nat]
           /\ fn.QUEUED = QueueSize /\ fn.INITIATED = 0 /\ fn.ANSWERED = 0
           /\ fn.CONNECTED = 0 /\ fn.COMPLETED = 0 /\ fn.FAILED = 0 /\ fn.ABANDONED = 0
           /\ Those(st, "CONNECTED") = Those(StartStatus, "CONNECTED")
<1>1. st = StartStatus /\ fn = EmptyFunnel
  BY DEF Fresh
<1>2. StartStatus \in [Agents -> Statuses]
  BY DEF StartStatus, Statuses
<1>3. QueueSize \in Nat
  BY DialerAssumption
<1>4. EmptyFunnel \in [FunnelStages -> Nat]
  BY <1>3 DEF EmptyFunnel, FunnelStages
<1> QED BY <1>1, <1>2, <1>3, <1>4 DEF EmptyFunnel

\* The split of n dials: the shares add up to n, the first is 70% or more of it.
LEMMA Shares ==
    ASSUME NEW n \in Nat
    PROVE  /\ Split(n).A \in Nat /\ Split(n).B \in Nat
           /\ Split(n).A + Split(n).B = n
           /\ 3 * Split(n).A >= 7 * Split(n).B
<1>1. PICK b \in Int : b = (3 * n) \div 10
  OBVIOUS
<1>2. b \in Nat /\ 10 * b <= 3 * n /\ b <= n
  BY <1>1
<1> QED BY <1>1, <1>2 DEF Split

DialerInv == Typed /\ CallsAccounted /\ RouteShares

\* DialerInv holds of the dialer the constructor leaves.
LEMMA DialerInit == Init => DialerInv
<1> SUFFICES ASSUME Init PROVE DialerInv
  OBVIOUS
<1>1. Fresh(status, time, funnel, p_hat, alpha, tickId) /\ dialed = [A |-> 0, B |-> 0]
  BY DEF Init
<1>2. Typed
  BY <1>1, FreshTyped DEF Typed
<1>3. Cardinality(Those(StartStatus, "CONNECTED")) \in Nat
  BY ThoseFinite
<1>4. QueueSize \in Nat
  BY DialerAssumption
<1>5. CallsAccounted
  BY <1>1, <1>3, <1>4, FreshTyped DEF CallsAccounted, Greater
<1>6. RouteShares
  BY <1>1, FreshTyped DEF RouteShares
<1> QED BY <1>2, <1>5, <1>6 DEF DialerInv

\* A reset keeps it, though the carriers go on counting.
LEMMA ResetKeeps == DialerInv /\ Reset => DialerInv'
<1> SUFFICES ASSUME DialerInv, Reset PROVE DialerInv'
  OBVIOUS
<1>1. Fresh(status', time', funnel', p_hat', alpha', tickId') /\ dialed' = dialed
  BY DEF Reset
<1>2. Typed'
  BY <1>1, FreshTyped DEF Typed, DialerInv
<1>3. Cardinality(Those(StartStatus, "CONNECTED")) \in Nat
  BY ThoseFinite
<1>4. QueueSize \in Nat
  BY DialerAssumption
<1>5. /\ funnel'.QUEUED = QueueSize /\ funnel'.INITIATED = 0 /\ funnel'.ANSWERED = 0
      /\ funnel'.CONNECTED = 0 /\ funnel'.COMPLETED = 0 /\ funnel'.FAILED = 0
      /\ funnel'.ABANDONED = 0
      /\ Those(status', "CONNECTED") = Those(StartStatus, "CONNECTED")
  BY <1>1, FreshTyped
<1>6. CallsAccounted'
  BY <1>3, <1>4, <1>5 DEF CallsAccounted, Greater
<1>7. dialed.A \in Nat /\ dialed.B \in Nat
  BY DEF DialerInv, Typed
<1>8. RouteShares'
  BY <1>1, <1>5, <1>7 DEF RouteShares, DialerInv
<1> QED BY <1>2, <1>6, <1>8 DEF DialerInv

\* A tick keeps it, whoever answers.
LEMMA TickKeeps == DialerInv /\ Tick => DialerInv'
<1> SUFFICES ASSUME DialerInv, NEW n, NEW answered, NEW taken, Settled(n, answered, taken)
             PROVE  DialerInv'
  BY TickSettles
<1> USE DEF DialerInv
<1>1. /\ n \in Nat /\ answered \in Nat /\ n - answered \in Nat
      /\ Cardinality(taken) \in Nat /\ answered - Cardinality(taken) \in Nat
  BY SettledCounts
<1>2. /\ status' \in [Agents -> Statuses]
      /\ Cardinality(Finished) \in Nat
      /\ Cardinality(Those(status, "CONNECTED")) \in Nat
      /\ Cardinality(Those(status', "CONNECTED"))
            = Cardinality(Those(status, "CONNECTED")) - Cardinality(Finished)
                + Cardinality(taken)
  BY SettledAgents
<1>3. /\ funnel' \in [FunnelStages -> Nat]
      /\ funnel'.QUEUED = Greater(0, funnel.QUEUED - n)
      /\ funnel'.INITIATED = funnel.INITIATED + n
      /\ funnel'.ANSWERED = funnel.ANSWERED + answered
      /\ funnel'.CONNECTED = funnel.CONNECTED + Cardinality(taken)
      /\ funnel'.COMPLETED = funnel.COMPLETED + Cardinality(Finished)
      /\ funnel'.FAILED = funnel.FAILED + (n - answered)
      /\ funnel'.ABANDONED = funnel.ABANDONED + (answered - Cardinality(taken))
  BY CountedTyped
<1>4. /\ funnel.QUEUED \in Nat /\ funnel.INITIATED \in Nat /\ funnel.ANSWERED \in Nat
      /\ funnel.CONNECTED \in Nat /\ funnel.COMPLETED \in Nat /\ funnel.FAILED \in Nat
      /\ funnel.ABANDONED \in Nat
  BY DEF Typed, FunnelStages
<1>5. /\ QueueSize \in Nat
      /\ Cardinality(Those(StartStatus, "CONNECTED")) \in Nat
  BY DialerAssumption, ThoseFinite
<1>6. /\ dialed.A \in Nat /\ dialed.B \in Nat
      /\ Split(n).A \in Nat /\ Split(n).B \in Nat
      /\ Split(n).A + Split(n).B = n /\ 3 * Split(n).A >= 7 * Split(n).B
  BY <1>1, Shares DEF Typed
<1>7. dialed' = [A |-> dialed.A + Split(n).A, B |-> dialed.B + Split(n).B]
  BY DEF Settled
<1>8. Typed'
  BY <1>2, <1>3, <1>6, <1>7 DEF Typed
<1>9. funnel'.QUEUED = Greater(0, QueueSize - funnel'.INITIATED)
  BY <1>1, <1>3, <1>4, <1>5 DEF CallsAccounted, Greater
<1>10. CallsAccounted'
  BY <1>1, <1>2, <1>3, <1>4, <1>5, <1>9 DEF CallsAccounted
<1>11. RouteShares'
  BY <1>1, <1>3, <1>4, <1>6, <1>7 DEF RouteShares
<1> QED BY <1>8, <1>10, <1>11

\* Every step keeps the invariant: the operator's switches leave what it speaks of.
LEMMA DialerStep == DialerInv /\ [Next]_engine => DialerInv'
<1>1. ASSUME DialerInv, UNCHANGED <<status, funnel, dialed>> PROVE DialerInv'
  BY <1>1 DEF DialerInv, Typed, CallsAccounted, RouteShares
<1> QED BY <1>1, TickKeeps, ResetKeeps
        DEF Next, SwitchMode, SwitchScenario, Switched, engine

\* Dials, answers, connected and completed calls add up (clientSim.ts:314-345).
THEOREM BooksBalance == Spec => []CallsAccounted
<1>1. DialerInv => CallsAccounted
  BY DEF DialerInv
<1> QED BY <1>1, DialerInit, DialerStep, PTL DEF Spec

\* The primary carrier has its share after any number of ticks (clientSim.ts:316).
THEOREM PrimaryHasItsShare == Spec => []RouteShares
<1>1. DialerInv => RouteShares
  BY DEF DialerInv
<1> QED BY <1>1, DialerInit, DialerStep, PTL DEF Spec

\* In progressive mode a tick dials one call for every free agent, so that no answer
\* is abandoned (PacingControls.tsx:162).
THEOREM ProgressiveIsSafe == Spec => ProgressiveNeverAbandons
<1>1. DialerInv /\ [Next]_engine
        => (mode = "PROGRESSIVE" => funnel'.ABANDONED <= funnel.ABANDONED)
  <2> SUFFICES ASSUME DialerInv, [Next]_engine, mode = "PROGRESSIVE"
               PROVE  funnel'.ABANDONED <= funnel.ABANDONED
    OBVIOUS
  <2>1. funnel.ABANDONED \in Nat
    BY DEF DialerInv, Typed, FunnelStages
  <2>2. CASE Tick
    <3>1. PICK n, answered, taken : Settled(n, answered, taken)
      BY <2>2, TickSettles
    <3>2. n = Cardinality(Those(AgedStatus, "AVAILABLE")) /\ answered \in 0..n
          /\ Cardinality(taken) = Lesser(answered, Cardinality(Those(AgedStatus, "AVAILABLE")))
      BY <3>1 DEF Settled, Approved, A
    <3>3. /\ answered \in Nat /\ n \in Nat /\ Cardinality(taken) \in Nat
      BY <3>1, SettledCounts
    <3>4. answered - Cardinality(taken) = 0
      BY <3>2, <3>3 DEF Lesser
    <3>5. funnel'.ABANDONED = funnel.ABANDONED + (answered - Cardinality(taken))
      BY <3>1, CountedTyped DEF DialerInv
    <3> QED BY <2>1, <3>4, <3>5
  <2>3. CASE Reset
    <3>1. funnel'.ABANDONED = 0
      BY <2>3, FreshTyped DEF Reset
    <3> QED BY <2>1, <3>1
  <2>4. CASE UNCHANGED funnel
    BY <2>1, <2>4
  <2> QED BY <2>2, <2>3, <2>4 DEF Next, SwitchMode, SwitchScenario, Switched, engine
<1> QED BY <1>1, DialerInit, DialerStep, PTL DEF Spec, ProgressiveNeverAbandons

-----------------------------------------------------------------------------
(* The refinement: what the hook is promised of an entry is its action and  *)
(* its tick, and the log of what is promised is the log, promised.          *)

LogEntries ==
    [tick : Nat \cup {-1},
     category : {"OPERATOR_ACTION", "SAFETY_CONTROLLER", "AIMD_TUNING"},
     severity : {"INFO", "WARNING", "CRITICAL"},
     action : {"Decision", "System Initialization", "Reset Pool", "Switched Mode",
               "Switched Scenario"}]

Bare(entry) == [action |-> entry.action, tick |-> entry.tick]
Stripped(log) == [i \in DOMAIN log |-> Bare(log[i])]

LogTyped == decisions \in Seq(LogEntries) /\ Len(decisions) \in 1..LogLimit /\ tickId \in Nat

\* An entry put before a log, and the first k kept.
LEMMA Pushed ==
    ASSUME NEW S, NEW log \in Seq(S), NEW entry \in S, NEW k \in 1 .. Len(log) + 1
    PROVE  /\ SubSeq(<<entry>> \o log, 1, k) \in Seq(S)
           /\ Len(SubSeq(<<entry>> \o log, 1, k)) = k
           /\ SubSeq(<<entry>> \o log, 1, k)[1] = entry
           /\ \A i \in 2..k : SubSeq(<<entry>> \o log, 1, k)[i] = log[i - 1]
<1> DEFINE full == <<entry>> \o log
<1>1. <<entry>> \in Seq(S) /\ Len(<<entry>>) = 1 /\ <<entry>>[1] = entry
  OBVIOUS
<1>2. /\ full \in Seq(S) /\ Len(full) = Len(log) + 1 /\ full[1] = entry
      /\ \A i \in 2 .. Len(log) + 1 : full[i] = log[i - 1]
  BY <1>1, ConcatProperties
<1>3. k \in Nat /\ k <= Len(full)
  BY <1>2
<1> HIDE DEF full
<1>4. /\ SubSeq(full, 1, k) \in Seq(S)
      /\ Len(SubSeq(full, 1, k)) = k
      /\ \A i \in 1..k : SubSeq(full, 1, k)[i] = full[i]
  BY <1>2, <1>3, SubSeqProperties
<1> QED BY <1>2, <1>3, <1>4 DEF full

\* A stripped log is as long as the log, entry by entry.
LEMMA StrippedLog ==
    ASSUME NEW S, NEW log \in Seq(S)
    PROVE  LET B == {Bare(e) : e \in S}
           IN  /\ Stripped(log) \in Seq(B)
               /\ Len(Stripped(log)) = Len(log)
               /\ \A i \in 1 .. Len(log) : Stripped(log)[i] = Bare(log[i])
<1> DEFINE B == {Bare(e) : e \in S}
           n == Len(log)
<1>1. n \in Nat /\ DOMAIN log = 1..n /\ \A i \in 1..n : log[i] \in S
  OBVIOUS
<1>2. Stripped(log) = [i \in 1..n |-> Bare(log[i])]
  BY <1>1 DEF Stripped
<1>3. Stripped(log) \in [1..n -> B]
  BY <1>1, <1>2
<1> HIDE DEF B, n
<1>4. Stripped(log) \in Seq(B) /\ Len(Stripped(log)) = n
  BY <1>1, <1>3, SeqDef, LenProperties
<1> QED BY <1>2, <1>4 DEF B, n

\* Logging and stripping commute.
LEMMA LoggedStripped ==
    ASSUME NEW log \in Seq(LogEntries), Len(log) \in 1..LogLimit, NEW entry \in LogEntries
    PROVE  /\ Logged(log, entry) \in Seq(LogEntries)
           /\ Len(Logged(log, entry)) \in 1..LogLimit
           /\ Stripped(Logged(log, entry)) = Promise!Logged(Stripped(log), Bare(entry))
<1> DEFINE S == LogEntries
           B == {Bare(e) : e \in S}
           k == IF Len(log) < LogLimit THEN Len(log) + 1 ELSE LogLimit
           new == SubSeq(<<entry>> \o log, 1, k)
           bare == Stripped(log)
           goal == SubSeq(<<Bare(entry)>> \o bare, 1, k)
<1>1. LogLimit \in Nat \ {0} /\ Len(log) \in Nat
  BY DialerAssumption
<1>2. k \in 1 .. Len(log) + 1 /\ k \in 1..LogLimit /\ k = Lesser(Len(log) + 1, LogLimit)
  BY <1>1 DEF Lesser
<1>3. Bare(entry) \in B
  OBVIOUS
<1> HIDE DEF B, k
<1>4. /\ bare \in Seq(B) /\ Len(bare) = Len(log)
      /\ \A i \in 1 .. Len(log) : bare[i] = Bare(log[i])
  BY StrippedLog DEF B
<1> HIDE DEF bare
<1>5. /\ new \in Seq(S) /\ Len(new) = k /\ new[1] = entry
      /\ \A i \in 2..k : new[i] = log[i - 1]
  BY <1>2, Pushed
<1>6. k \in 1 .. Len(bare) + 1
  BY <1>2, <1>4
<1>7. /\ goal \in Seq(B) /\ Len(goal) = k /\ goal[1] = Bare(entry)
      /\ \A i \in 2..k : goal[i] = bare[i - 1]
  BY <1>3, <1>4, <1>6, Pushed
<1> HIDE DEF new, goal
<1>8. /\ Stripped(new) \in Seq(B) /\ Len(Stripped(new)) = k
      /\ \A i \in 1..k : Stripped(new)[i] = Bare(new[i])
  BY <1>5, StrippedLog DEF B
<1>9. ASSUME NEW i \in 1..k PROVE Stripped(new)[i] = goal[i]
  <2>1. CASE i = 1
    BY <1>5, <1>7, <1>8, <2>1
  <2>2. CASE i # 1
    <3>1. i \in 2..k /\ i - 1 \in 1 .. Len(log)
      BY <1>1, <1>2, <2>2
    <3> QED BY <1>4, <1>5, <1>7, <1>8, <3>1
  <2> QED BY <2>1, <2>2
<1>10. Stripped(new) = goal
  BY <1>7, <1>8, <1>9, SeqEqual
<1>11. Logged(log, entry) = new
  BY <1>2 DEF Logged, new
<1>12. Promise!Logged(Stripped(log), Bare(entry)) = goal
  BY <1>4 DEF Promise!Logged, goal, k, bare
<1> QED BY <1>2, <1>5, <1>10, <1>11, <1>12

\* An operator's entry and a decision are entries, promised as such.
LEMMA OperatorPromised ==
    ASSUME NEW action \in {"System Initialization", "Reset Pool", "Switched Mode",
                           "Switched Scenario"},
           NEW severity \in {"INFO", "WARNING"}
    PROVE  /\ OperatorEntry(action, severity) \in LogEntries
           /\ Bare(OperatorEntry(action, severity)) = Promise!Operator(action)
BY DEF OperatorEntry, LogEntries, Bare, Promise!Operator, Promise!NoTick

\* So is the entry of a tick, whatever it decided.
LEMMA DecisionPromised ==
    ASSUME NEW tick \in Nat, NEW clamped \in BOOLEAN, NEW abandoned
    PROVE  /\ DecisionEntry(tick, clamped, abandoned) \in LogEntries
           /\ Bare(DecisionEntry(tick, clamped, abandoned)) = Promise!Decision(tick)
BY DEF DecisionEntry, LogEntries, Bare, Promise!Decision

\* The log a reset starts
LEMMA StartPromised ==
    /\ <<StartEntry>> \in Seq(LogEntries) /\ Len(<<StartEntry>>) \in 1..LogLimit
    /\ Stripped(<<StartEntry>>) = <<Promise!Operator("System Initialization")>>
<1>1. StartEntry \in LogEntries /\ Bare(StartEntry) = Promise!Operator("System Initialization")
  BY OperatorPromised DEF StartEntry
<1>2. LogLimit \in Nat \ {0}
  BY DialerAssumption
<1> DEFINE start == <<StartEntry>>
<1>3. start \in Seq(LogEntries) /\ Len(start) = 1 /\ start[1] = StartEntry /\ DOMAIN start = 1..1
  <2>1. ASSUME NEW e \in LogEntries
        PROVE  <<e>> \in Seq(LogEntries) /\ Len(<<e>>) = 1 /\ <<e>>[1] = e /\ DOMAIN <<e>> = 1..1
    OBVIOUS
  <2> QED BY <1>1, <2>1
<1> HIDE DEF start
<1>4. Stripped(start) = [i \in 1..1 |-> Bare(start[i])]
  BY <1>3 DEF Stripped
<1>5. Stripped(start) = <<Bare(StartEntry)>>
  BY <1>3, <1>4
<1>6. Len(start) \in 1..LogLimit
  BY <1>2, <1>3
<1> QED BY <1>1, <1>3, <1>5, <1>6 DEF start

\* The dialer starts as the engine does.
LEMMA PromiseInit == Init => LogTyped /\ Promise!Init
<1> SUFFICES ASSUME Init PROVE LogTyped /\ Promise!Init
  OBVIOUS
<1>1. decisions = <<StartEntry>> /\ tickId = 0
  BY DEF Init, Fresh
<1>2. LogTyped
  <2>1. tickId \in Nat
    BY <1>1
  <2> QED BY <1>1, <2>1, StartPromised DEF LogTyped
<1>3. Stripped(decisions) = <<Promise!Operator("System Initialization")>>
  BY <1>1, StartPromised
<1> QED BY <1>1, <1>2, <1>3 DEF Promise!Init, Stripped, Bare

\* A tick of the dialer is one of the engine.
LEMMA PromiseTick == LogTyped /\ Tick => LogTyped' /\ Promise!Tick
<1> SUFFICES ASSUME LogTyped, Tick PROVE LogTyped' /\ Promise!Tick
  OBVIOUS
<1>1. tickId' = (tickId + 1) % Period
  BY DEF Tick
<1>2. tickId' \in Nat
  <2>1. tickId + 1 \in Nat /\ Period \in Nat \ {0}
    BY DialerAssumption DEF LogTyped
  <2> QED BY <1>1, <2>1
<1>3. PICK abandoned :
         decisions' = Logged(decisions, DecisionEntry(tickId', Clamped(CircuitAt(tickId')),
                                                      abandoned))
  BY <1>1 DEF Tick
<1>4. Clamped(CircuitAt(tickId')) \in BOOLEAN
  BY DEF Clamped
<1> DEFINE e == DecisionEntry(tickId', Clamped(CircuitAt(tickId')), abandoned)
<1>5. e \in LogEntries /\ Bare(e) = Promise!Decision(tickId')
  BY <1>2, <1>4, DecisionPromised
<1> HIDE DEF e
<1>6. /\ decisions' = Logged(decisions, e)
      /\ decisions \in Seq(LogEntries) /\ Len(decisions) \in 1..LogLimit
  BY <1>3 DEF e, LogTyped
<1>7. /\ decisions' \in Seq(LogEntries) /\ Len(decisions') \in 1..LogLimit
      /\ Stripped(decisions') = Promise!Logged(Stripped(decisions), Promise!Decision(tickId'))
  BY <1>5, <1>6, LoggedStripped
<1>8. LogTyped'
  BY <1>2, <1>7 DEF LogTyped
<1> QED BY <1>1, <1>7, <1>8 DEF Promise!Tick, Stripped, Bare

\* So is a reset one of the engine.
LEMMA PromiseReset == LogTyped /\ Reset => LogTyped' /\ Promise!Reset
<1> SUFFICES ASSUME LogTyped, Reset PROVE LogTyped' /\ Promise!Reset
  OBVIOUS
<1> DEFINE e == OperatorEntry("Reset Pool", "WARNING")
<1>1. tickId' = 0 /\ decisions' = Logged(<<StartEntry>>, e)
  BY DEF Reset, Fresh
<1>2. e \in LogEntries /\ Bare(e) = Promise!Operator("Reset Pool")
  BY OperatorPromised
<1> HIDE DEF e
<1>3. /\ decisions' \in Seq(LogEntries) /\ Len(decisions') \in 1..LogLimit
      /\ Stripped(decisions')
            = Promise!Logged(<<Promise!Operator("System Initialization")>>,
                             Promise!Operator("Reset Pool"))
  BY <1>1, <1>2, StartPromised, LoggedStripped
<1>4. LogTyped'
  <2>1. tickId' \in Nat
    BY <1>1
  <2> QED BY <1>3, <2>1 DEF LogTyped
<1> QED BY <1>1, <1>3, <1>4 DEF Promise!Reset, Stripped, Bare

\* The entry of a switch is a note of the engine.
LEMMA PromiseNote ==
    ASSUME LogTyped, NEW action \in {"Switched Mode", "Switched Scenario"},
           Note(action, "INFO"), UNCHANGED tickId
    PROVE  LogTyped' /\ Promise!Note(action)
<1> DEFINE e == OperatorEntry(action, "INFO")
<1>1. e \in LogEntries /\ Bare(e) = Promise!Operator(action)
  BY OperatorPromised
<1>2. decisions' = Logged(decisions, e)
  BY DEF Note
<1> HIDE DEF e
<1>3. /\ decisions' \in Seq(LogEntries) /\ Len(decisions') \in 1..LogLimit
      /\ Stripped(decisions') = Promise!Logged(Stripped(decisions), Promise!Operator(action))
  BY <1>1, <1>2, LoggedStripped DEF LogTyped
<1> QED BY <1>3 DEF LogTyped, Promise!Note, Stripped, Bare

\* Every step of the dialer is one of the engine, or none of its business.
LEMMA PromiseStep == LogTyped /\ [Next]_engine => LogTyped' /\ [Promise!Next]_Promise!engine
<1> SUFFICES ASSUME LogTyped, [Next]_engine
             PROVE  LogTyped' /\ [Promise!Next]_Promise!engine
  OBVIOUS
<1>1. CASE Tick
  BY <1>1, PromiseTick DEF Promise!Next
<1>2. CASE Reset
  BY <1>2, PromiseReset DEF Promise!Next
<1>3. ASSUME NEW action \in {"Switched Mode", "Switched Scenario"},
             Note(action, "INFO"), UNCHANGED tickId
      PROVE  LogTyped' /\ Promise!Next
  <2>1. LogTyped' /\ Promise!Note(action)
    BY <1>3, PromiseNote
  <2> QED BY <2>1 DEF Promise!Next, Promise!OperatorActions
<1>4. CASE \E m \in Modes : SwitchMode(m)
  BY <1>3, <1>4 DEF SwitchMode, Switched
<1>5. CASE \E s \in Scenarios : SwitchScenario(s)
  BY <1>3, <1>5 DEF SwitchScenario, Switched
<1>6. CASE UNCHANGED engine
  BY <1>6 DEF engine, LogTyped, Promise!engine
<1> QED BY <1>1, <1>2, <1>4, <1>5, <1>6 DEF Next

\* The dialer keeps the promise of DialerEngine, on which the hook relies.
THEOREM ImplementsEngine == Spec => KeepsEnginePromise
BY PromiseInit, PromiseStep, PTL DEF Spec, KeepsEnginePromise, Promise!Spec

-----------------------------------------------------------------------------
(* Recursive functions.  A set of numbers that holds 0 and, with each number, *)
(* the next one holds them all: that is enough to show that a function given  *)
(* by its first value and by a step is defined, hence satisfies its equation. *)

\* Functions with the same values are the same.
LEMMA SameFunction ==
    ASSUME NEW T, NEW D, NEW f \in [T -> D], NEW h, h = [i \in T |-> h[i]],
           \A i \in T : f[i] = h[i]
    PROVE  f = h
OBVIOUS

\* Induction over sets of numbers.
LEMMA SetInduction ==
    ASSUME NEW S, 0 \in S, \A n \in Nat : n \in S => n + 1 \in S
    PROVE  Nat \subseteq S
<1> SUFFICES ASSUME NEW k \in Nat, k \notin S PROVE FALSE
  OBVIOUS
<1> DEFINE below == {0 .. j : j \in {n \in Nat : n \notin S}}
           smaller == StrictSubsetOrdering(Nat)
<1>1. below \subseteq FiniteSubsetsOf(Nat) /\ below # {}
  <2>1. \A j \in Nat : IsFiniteSet(0 .. j) /\ 0 .. j \in SUBSET Nat
    BY FS_Interval
  <2> QED
    BY <2>1 DEF FiniteSubsetsOf
<1>2. IsWellFoundedOn(smaller, FiniteSubsetsOf(Nat))
  BY FS_StrictSubsetOrderingWellFounded
<1> HIDE DEF below, smaller
<1>3. PICK first \in below : \A other \in below : <<other, first>> \notin smaller
  BY <1>1, <1>2, WFMin
<1>4. PICK n \in Nat : n \notin S /\ first = 0 .. n
  BY DEF below
<1>5. n - 1 \in Nat /\ n - 1 \notin S
  <2>1. n # 0
    BY <1>4
  <2>2. n - 1 \in Nat
    BY <2>1
  <2>3. n - 1 \in S => (n - 1) + 1 \in S
    BY <2>2
  <2> QED
    BY <1>4, <2>2, <2>3
<1>6. 0 .. n - 1 \in below
  BY <1>5 DEF below
<1>7. <<0 .. n - 1, 0 .. n>> \in smaller
  <2>1. 0 .. n - 1 \in SUBSET Nat /\ 0 .. n \in SUBSET Nat
    OBVIOUS
  <2>2. 0 .. n - 1 \subseteq 0 .. n /\ n \in 0 .. n /\ n \notin 0 .. n - 1
    BY <1>5
  <2> QED
    BY <2>1, <2>2 DEF smaller, StrictSubsetOrdering
<1> QED
  BY <1>3, <1>4, <1>6, <1>7

\* f starts with z and goes on by the step, up to n.
Iterates(f, z, step, n) == f[0] = z /\ \A i \in 1..n : f[i] = step[f[i - 1]]

\* A function given by its first value and by a step is defined.
LEMMA Iterated ==
    ASSUME NEW D, NEW z \in D, NEW step \in [D -> D], NEW n \in Nat
    PROVE  \E f \in [0..n -> D] : Iterates(f, z, step, n)
<1> DEFINE S == {m \in Nat : \E f \in [0..m -> D] : Iterates(f, z, step, m)}
<1>1. 0 \in S
  <2> DEFINE f == [i \in 0..0 |-> z]
  <2>1. f \in [0..0 -> D] /\ Iterates(f, z, step, 0)
    BY DEF Iterates
  <2> QED BY <2>1
<1>2. ASSUME NEW m \in Nat, m \in S PROVE m + 1 \in S
  <2>1. PICK f \in [0..m -> D] : Iterates(f, z, step, m)
    BY <1>2
  <2> DEFINE g == [i \in 0 .. m + 1 |-> IF i <= m THEN f[i] ELSE step[f[m]]]
  <2>2. g \in [0 .. m + 1 -> D] /\ g[0] = z
    BY <2>1 DEF Iterates
  <2>3. ASSUME NEW i \in 1 .. m + 1 PROVE g[i] = step[g[i - 1]]
    BY <2>1 DEF Iterates
  <2> HIDE DEF g
  <2>4. Iterates(g, z, step, m + 1)
    BY <2>2, <2>3 DEF Iterates
  <2> QED BY <2>2, <2>4
<1> HIDE DEF S
<1>3. n \in S
  BY <1>1, <1>2, SetInduction
<1> QED BY <1>3 DEF S

-----------------------------------------------------------------------------
(* The two estimates after the calls of a tick *)

\* alpha stays in its range, and the first of any abandonments halves it.
LEMMA HalvedRange ==
    ASSUME alpha \in 200..1000, NEW k \in Nat
    PROVE  Halved(k) \in 200..1000 /\ (k > 0 => Halved(k) <= Greater(200, alpha \div 2))
<1> DEFINE D == 200..1000
           step == [x \in D |-> Greater(200, x \div 2)]
           next(g) == [i \in 0..k |-> IF i = 0 THEN alpha ELSE Greater(200, g[i - 1] \div 2)]
           al == CHOOSE g : g = next(g)
<1>1. step \in [D -> D] /\ alpha \in D /\ \A x \in D : step[x] = Greater(200, x \div 2)
  BY DEF Greater
<1> HIDE DEF D, step
<1>2. PICK f \in [0..k -> D] : Iterates(f, alpha, step, k)
  BY <1>1, Iterated
<1>3. ASSUME NEW i \in 0..k PROVE f[i] = next(f)[i]
  <2>1. i # 0 => i \in 1..k /\ i - 1 \in 0..k
    OBVIOUS
  <2>2. i # 0 => f[i] = Greater(200, f[i - 1] \div 2)
    BY <1>1, <1>2, <2>1 DEF Iterates
  <2> QED BY <1>2, <2>2 DEF Iterates
<1>4. f = next(f)
  <2> DEFINE h == next(f)
  <2>1. h = [i \in 0..k |-> h[i]]
    OBVIOUS
  <2>2. \A i \in 0..k : f[i] = h[i]
    BY <1>3
  <2> HIDE DEF h
  <2>3. f = h
    BY <2>1, <2>2, SameFunction
  <2> QED BY <2>3 DEF h
<1>5. al = next(al)
  BY <1>4, Zenon
<1>6. Halved(k) = al[k]
  BY Zenon DEF Halved
<1> HIDE DEF al
<1>7. al[0] = alpha /\ \A i \in 1..k : al[i] = Greater(200, al[i - 1] \div 2)
  <2>1. \A i \in 0..k : next(al)[i] = IF i = 0 THEN alpha ELSE Greater(200, al[i - 1] \div 2)
    OBVIOUS
  <2> HIDE DEF next
  <2> QED BY <1>5, <2>1
<1> DEFINE S == {i \in Nat : i <= k => /\ al[i] \in D
                                       /\ i > 0 => al[i] <= Greater(200, alpha \div 2)}
<1>8. 0 \in S
  BY <1>1, <1>7
<1>9. ASSUME NEW i \in Nat, i \in S PROVE i + 1 \in S
  <2> SUFFICES ASSUME i + 1 <= k
               PROVE  al[i + 1] \in D /\ al[i + 1] <= Greater(200, alpha \div 2)
    OBVIOUS
  <2> DEFINE half(v) == Greater(200, v \div 2)
  <2>1. al[i + 1] = half(al[i])
    <3>1. i + 1 \in 1..k /\ (i + 1) - 1 = i
      OBVIOUS
    <3> QED BY <1>7, <3>1
  <2>2. al[i] \in D /\ (i > 0 => al[i] <= Greater(200, alpha \div 2))
    BY <1>9
  <2>3. i = 0 => al[i] = alpha
    BY <1>7
  <2>4. \A x \in D : half(x) \in D /\ half(x) <= x /\ x \in Int
    BY DEF Greater, D
  <2> HIDE DEF half
  <2>5. al[i] \in D /\ al[i] \in Int
    BY <2>2, <2>4, Zenon
  <2>6. half(al[i]) \in D /\ half(al[i]) <= al[i] /\ half(al[i]) \in Int
    <3>1. half(al[i]) \in D /\ half(al[i]) <= al[i]
      BY <2>4, <2>5, Zenon
    <3> QED BY <2>4, <3>1, Zenon
  <2>7. al[i + 1] \in D /\ al[i + 1] <= al[i] /\ al[i + 1] \in Int
    <3> HIDE DEF D
    <3> QED BY <2>1, <2>6
  <2>8. CASE i = 0
    <3>1. al[i + 1] = half(alpha)
      BY <2>1, <2>3, <2>8
    <3>2. half(alpha) \in D /\ half(alpha) <= Greater(200, alpha \div 2)
      BY DEF half, Greater, D
    <3> QED BY <3>1, <3>2
  <2>9. CASE i > 0
    <3>1. al[i] <= Greater(200, alpha \div 2) /\ Greater(200, alpha \div 2) \in Int
      BY <2>2, <2>9 DEF Greater
    <3> QED BY <2>5, <2>7, <3>1
  <2> QED BY <2>8, <2>9
<1> HIDE DEF S
<1>10. k \in S
  BY <1>8, <1>9, SetInduction
<1> QED BY <1>6, <1>10 DEF S, D

\* An estimate stays a percentage, whoever answers.
LEMMA EstimatesRange ==
    ASSUME p_hat \in 0..100, NEW n \in Nat, NEW k \in 0..n
    PROVE  Estimates(n, k) \subseteq 0..100
<1> DEFINE Rows == [0..n -> SUBSET (0..100)]
           first == [j \in 0..n |-> IF j = 0 THEN {p_hat} ELSE {}]
           later(row) == [j \in 0..n |-> {(85 * p) \div 100 : p \in row[j]} \cup
                                         IF j = 0 THEN {}
                                         ELSE {(85 * p + 1500) \div 100 : p \in row[j - 1]}]
           step == [row \in Rows |-> later(row)]
           next(g) == [i \in 0..n |->
                         [j \in 0..n |->
                            IF i = 0 THEN IF j = 0 THEN {p_hat} ELSE {}
                            ELSE {(85 * p) \div 100 : p \in g[i - 1][j]} \cup
                                 IF j = 0 THEN {}
                                 ELSE {(85 * p + 1500) \div 100 : p \in g[i - 1][j - 1]}]]
           est == CHOOSE g : g = next(g)
<1>1. ASSUME NEW row \in Rows PROVE later(row) \in Rows
  <2> DEFINE missed(p) == (85 * p) \div 100
             hit(p) == (85 * p + 1500) \div 100
  <2>1. \A p \in 0..100 : missed(p) \in 0..100 /\ hit(p) \in 0..100
    OBVIOUS
  <2>2. ASSUME NEW j \in 0..n
        PROVE  /\ {missed(p) : p \in row[j]} \subseteq 0..100
               /\ {hit(p) : p \in row[j]} \subseteq 0..100
    <3>1. row[j] \subseteq 0..100
      OBVIOUS
    <3> HIDE DEF missed, hit
    <3>2. \A p \in row[j] : missed(p) \in 0..100 /\ hit(p) \in 0..100
      BY <2>1, <3>1
    <3> QED BY <3>2
  <2>3. ASSUME NEW j \in 0..n
        PROVE  later(row)[j] \subseteq 0..100
    <3>1. j # 0 => j - 1 \in 0..n
      OBVIOUS
    <3> QED BY <2>2, <3>1
  <2>4. later(row) = [j \in 0..n |-> later(row)[j]]
    OBVIOUS
  <2> HIDE DEF later
  <2> QED BY <2>3, <2>4
<1>2. first \in Rows
  OBVIOUS
<1>3. step \in [Rows -> Rows] /\ \A row \in Rows : step[row] = later(row)
  <2> HIDE DEF Rows, later
  <2> QED BY <1>1
<1>4. ASSUME NEW g, NEW i \in 0..n
      PROVE  next(g)[i] = IF i = 0 THEN first ELSE later(g[i - 1])
  OBVIOUS
<1>5. ASSUME NEW g PROVE next(g) = [i \in 0..n |-> next(g)[i]]
  OBVIOUS
<1> HIDE DEF Rows, first, later, step, next
<1>6. PICK f \in [0..n -> Rows] : Iterates(f, first, step, n)
  BY <1>2, <1>3, Iterated
<1>7. ASSUME NEW i \in 0..n PROVE f[i] = next(f)[i]
  <2>1. i # 0 => i \in 1..n /\ i - 1 \in 0..n
    OBVIOUS
  <2>2. i # 0 => f[i] = later(f[i - 1])
    BY <1>3, <1>6, <2>1 DEF Iterates
  <2> QED BY <1>4, <1>6, <2>2 DEF Iterates
<1>8. f = next(f)
  BY <1>5, <1>7, SameFunction
<1>9. est = next(est)
  BY <1>8, Zenon
<1>10. Estimates(n, k) = est[n][k]
  BY Zenon DEF Estimates, next
<1> HIDE DEF est
<1>11. est[0] = first /\ \A i \in 1..n : est[i] = later(est[i - 1])
  BY <1>4, <1>9
<1> DEFINE S == {i \in Nat : i <= n => est[i] \in Rows}
<1>12. 0 \in S
  BY <1>2, <1>11
<1>13. ASSUME NEW i \in Nat, i \in S PROVE i + 1 \in S
  <2> SUFFICES ASSUME i + 1 <= n PROVE est[i + 1] \in Rows
    OBVIOUS
  <2>1. i + 1 \in 1..n /\ (i + 1) - 1 = i
    OBVIOUS
  <2>2. est[i + 1] = later(est[i])
    BY <1>11, <2>1
  <2>3. est[i] \in Rows
    BY <1>13
  <2> QED BY <1>1, <2>2, <2>3
<1> HIDE DEF S
<1>14. n \in S
  BY <1>12, <1>13, SetInduction
<1>15. est[n] \in Rows
  BY <1>14 DEF S
<1> QED BY <1>10, <1>15 DEF Rows

-----------------------------------------------------------------------------
(* The rest of TypeOK *)

RatesTyped == p_hat \in 0..100 /\ alpha \in 200..1000

RestTyped ==
    /\ RatesTyped
    /\ time \in [Agents -> Nat]
    /\ tickId \in 0 .. Period - 1
    /\ mode \in Modes /\ scenario \in {"A", "B", "C", "D"} /\ circuitB \in Circuits

\* A status that has a limit has a longest one.
LEMMA LongestTyped == LongestStatus \in Nat
<1> DEFINE limits == {DialSeconds, WrapSeconds} \cup {TalkSeconds[s] : s \in DOMAIN TalkSeconds}
<1>1. /\ DialSeconds \in Nat /\ WrapSeconds \in Nat /\ TalkSeconds["A"] \in Nat
      /\ TalkSeconds["B"] \in Nat /\ TalkSeconds["C"] \in Nat /\ TalkSeconds["D"] \in Nat
      /\ DOMAIN TalkSeconds = {"A", "B", "C", "D"}
  BY DialerAssumption
<1>2. limits = {DialSeconds, WrapSeconds, TalkSeconds["A"], TalkSeconds["B"],
                TalkSeconds["C"], TalkSeconds["D"]}
  BY <1>1
<1>3. ASSUME NEW T, NEW m \in Nat, m \in T, \A n \in T : n \in Nat /\ n <= m, NEW k \in Nat
      PROVE  \E g \in Nat : g \in T \cup {k} /\ \A n \in T \cup {k} : n \in Nat /\ n <= g
  <2>1. CASE k <= m
    BY <1>3, <2>1
  <2>2. CASE ~(k <= m)
    BY <1>3, <2>2
  <2> QED BY <2>1, <2>2
<1> DEFINE topped(T) == \E g \in Nat : g \in T /\ \A n \in T : n \in Nat /\ n <= g
<1>4. ASSUME NEW T, topped(T), NEW k \in Nat PROVE topped(T \cup {k})
  BY <1>3, <1>4
<1>5. topped({DialSeconds})
  BY <1>1
<1>6. topped(limits)
  <2> HIDE DEF topped
  <2>1. topped({DialSeconds} \cup {WrapSeconds})
    BY <1>1, <1>4, <1>5
  <2>2. topped({DialSeconds} \cup {WrapSeconds} \cup {TalkSeconds["A"]})
    BY <1>1, <1>4, <2>1
  <2>3. topped({DialSeconds} \cup {WrapSeconds} \cup {TalkSeconds["A"]} \cup {TalkSeconds["B"]})
    BY <1>1, <1>4, <2>2
  <2>4. topped({DialSeconds} \cup {WrapSeconds} \cup {TalkSeconds["A"]} \cup {TalkSeconds["B"]}
               \cup {TalkSeconds["C"]})
    BY <1>1, <1>4, <2>3
  <2>5. topped({DialSeconds} \cup {WrapSeconds} \cup {TalkSeconds["A"]} \cup {TalkSeconds["B"]}
               \cup {TalkSeconds["C"]} \cup {TalkSeconds["D"]})
    BY <1>1, <1>4, <2>4
  <2>6. limits = {DialSeconds} \cup {WrapSeconds} \cup {TalkSeconds["A"]} \cup {TalkSeconds["B"]}
                 \cup {TalkSeconds["C"]} \cup {TalkSeconds["D"]}
    BY <1>2
  <2> QED BY <2>5, <2>6
<1>7. LongestStatus = CHOOSE m \in limits : \A n \in limits : n <= m
  BY Zenon DEF LongestStatus
<1>8. \E m \in limits : \A n \in limits : n <= m
  BY <1>6
<1>9. LongestStatus \in limits
  <2> HIDE DEF limits
  <2> QED BY <1>7, <1>8
<1>10. \A n \in limits : n \in Nat
  BY <1>6
<1> QED BY <1>9, <1>10

\* What the constructor and a reset leave is in the ranges.
LEMMA FreshRest ==
    ASSUME NEW st, NEW tm, NEW fn, NEW p, NEW al, NEW tk, Fresh(st, tm, fn, p, al, tk)
    PROVE  tm \in [Agents -> Nat] /\ p \in 0..100 /\ al \in 200..1000 /\ tk \in 0 .. Period - 1
<1>1. tm \in StartTimes
  BY DEF Fresh
<1>2. StartTimes \subseteq [Agents -> Nat] /\ Period \in Nat \ {0}
  BY DialerAssumption DEF Agents
<1>3. p = 32 /\ al = 650 /\ tk = 0
  BY DEF Fresh
<1> QED BY <1>1, <1>2, <1>3

\* A tick keeps the ranges.
LEMMA RestTick == Typed /\ RestTyped /\ Tick => RestTyped'
<1> SUFFICES ASSUME Typed, RestTyped, Tick PROVE RestTyped'
  OBVIOUS
<1>1. PICK n, answered, taken : Settled(n, answered, taken)
  BY TickSettles
<1>2. n \in Nat /\ answered \in 0..n /\ answered - Cardinality(taken) \in Nat
  BY <1>1, SettledCounts DEF Settled
<1>3. p_hat' \in 0..100
  BY <1>1, <1>2, EstimatesRange DEF RestTyped, RatesTyped, Settled
<1>4. alpha' \in 200..1000
  <2> DEFINE k == answered - Cardinality(taken)
             tick == (tickId + 1) % Period
  <2>1. Halved(k) \in 200..1000 /\ alpha \in 200..1000
    BY <1>2, HalvedRange DEF RestTyped, RatesTyped
  <2>2. Lesser(1000, alpha + 40) \in 200..1000
    BY <2>1 DEF Lesser
  <2>3. Ramped(tick, k) \in {Halved(k), Lesser(1000, alpha + 40)}
    BY DEF Ramped
  <2>4. alpha' = Ramped(tick, k)
    BY <1>1 DEF Settled
  <2> QED BY <2>1, <2>2, <2>3, <2>4
<1>5. time' \in [Agents -> Nat]
  <2>1. \A a \in Agents : time[a] + 1 \in Nat
    BY DEF RestTyped
  <2>2. LongestStatus + 1 \in Nat
    BY LongestTyped
  <2>3. \A a \in Agents : AgedTime[a] \in Nat
    BY <2>1, <2>2 DEF AgedTime, Lesser
  <2>4. time' = [a \in Agents |-> IF a \in taken THEN 0 ELSE AgedTime[a]]
    BY <1>1 DEF Settled
  <2> QED BY <2>3, <2>4
<1>6. tickId' \in 0 .. Period - 1
  <2>1. tickId + 1 \in Nat /\ Period \in Nat \ {0}
    BY DialerAssumption DEF RestTyped
  <2>2. tickId' = (tickId + 1) % Period
    BY DEF Tick
  <2> QED BY <2>1, <2>2
<1>7. circuitB' \in Circuits
  BY DEF Tick, CircuitAt, Circuits
<1>8. mode' = mode /\ scenario' = scenario
  BY DEF Tick
<1> QED BY <1>3, <1>4, <1>5, <1>6, <1>7, <1>8 DEF RestTyped, RatesTyped

TypeInv == DialerInv /\ LogTyped /\ RestTyped

\* The type invariant holds at the start.
LEMMA TypeInit == Init => TypeInv
<1> SUFFICES ASSUME Init PROVE TypeInv
  OBVIOUS
<1>1. RestTyped
  <2>1. /\ Fresh(status, time, funnel, p_hat, alpha, tickId)
        /\ mode = "PREDICTIVE" /\ scenario = "A" /\ circuitB = "CLOSED"
    BY DEF Init
  <2> QED BY <2>1, FreshRest DEF RestTyped, RatesTyped, Modes, Circuits
<1> QED BY <1>1, DialerInit, PromiseInit DEF TypeInv

\* Every step keeps it.
LEMMA TypeStep == TypeInv /\ [Next]_engine => TypeInv'
<1> SUFFICES ASSUME TypeInv, [Next]_engine PROVE TypeInv'
  OBVIOUS
<1> USE DEF TypeInv
<1>1. RestTyped'
  <2>1. CASE Tick
    BY <2>1, RestTick DEF DialerInv
  <2>2. CASE Reset
    <3>1. /\ Fresh(status', time', funnel', p_hat', alpha', tickId')
          /\ mode' = mode /\ scenario' = scenario /\ circuitB' = circuitB
      BY <2>2 DEF Reset
    <3> QED BY <3>1, FreshRest DEF RestTyped, RatesTyped
  <2>3. CASE \E m \in Modes : SwitchMode(m)
    <3>1. /\ mode' \in Modes /\ scenario' = scenario /\ circuitB' = circuitB
          /\ time' = time /\ p_hat' = p_hat /\ alpha' = alpha /\ tickId' = tickId
      BY <2>3 DEF SwitchMode, Switched
    <3> QED BY <3>1 DEF RestTyped, RatesTyped
  <2>4. CASE \E s \in Scenarios : SwitchScenario(s)
    <3>1. /\ scenario' \in Scenarios /\ mode' = mode /\ circuitB' = circuitB
          /\ time' = time /\ p_hat' = p_hat /\ alpha' = alpha /\ tickId' = tickId
      BY <2>4 DEF SwitchScenario, Switched
    <3>2. scenario' \in {"A", "B", "C", "D"}
      BY <3>1, DialerAssumption
    <3> QED BY <3>1, <3>2 DEF RestTyped, RatesTyped
  <2>5. CASE UNCHANGED engine
    BY <2>5 DEF engine, RestTyped, RatesTyped
  <2> QED BY <2>1, <2>2, <2>3, <2>4, <2>5 DEF Next
<1> QED BY <1>1, DialerStep, PromiseStep

\* Every field of the dialer has its type: the estimates and alpha keep to their ranges
\* (clientSim.ts:329-346), however many calls a tick settles.
THEOREM WellTyped == Spec => []TypeOK
<1>1. TypeInv => TypeOK
  BY DEF TypeInv, TypeOK, DialerInv, Typed, FunnelStages, LogTyped, RestTyped, RatesTyped
<1> QED BY <1>1, TypeInit, TypeStep, PTL DEF Spec

-----------------------------------------------------------------------------
(* What abandonment leaves on record *)

\* A tick's entry is put on top.
LEMMA OnTop ==
    ASSUME LogTyped, NEW entry \in LogEntries
    PROVE  Logged(decisions, entry)[1] = entry
<1> DEFINE k == Lesser(Len(decisions) + 1, LogLimit)
<1>1. LogLimit \in Nat \ {0} /\ Len(decisions) \in Nat
  BY DialerAssumption DEF LogTyped
<1>2. k \in 1 .. Len(decisions) + 1
  BY <1>1 DEF Lesser
<1> HIDE DEF k
<1>3. SubSeq(<<entry>> \o decisions, 1, k)[1] = entry
  BY <1>2, Pushed DEF LogTyped
<1> QED BY <1>3 DEF Logged, k

\* The entry of a tick that settles its calls
LEMMA SettledEntry ==
    ASSUME LogTyped, RestTyped, NEW n, NEW answered, NEW taken, Settled(n, answered, taken)
    PROVE  /\ (tickId + 1) % Period \in Nat
           /\ decisions'[1] = DecisionEntry((tickId + 1) % Period,
                                            Clamped(CircuitAt((tickId + 1) % Period)),
                                            answered - Cardinality(taken))
<1> DEFINE tick == (tickId + 1) % Period
           e == DecisionEntry(tick, Clamped(CircuitAt(tick)), answered - Cardinality(taken))
<1>1. tick \in Nat
  <2>1. tickId + 1 \in Nat /\ Period \in Nat \ {0}
    BY DialerAssumption DEF RestTyped
  <2> QED BY <2>1
<1>2. Clamped(CircuitAt(tick)) \in BOOLEAN
  BY DEF Clamped
<1> HIDE DEF tick
<1>3. e \in LogEntries
  BY <1>1, <1>2, DecisionPromised
<1>4. decisions' = Logged(decisions, e)
  BY DEF Settled, tick
<1> HIDE DEF e
<1>5. decisions'[1] = e
  BY <1>3, <1>4, OnTop
<1> QED BY <1>1, <1>5 DEF e, tick

\* A tick that abandons calls halves alpha, whatever the ramp adds on other ticks, and
\* is on top of the log as CRITICAL (clientSim.ts:338-346).
THEOREM AbandonmentIsAnswered == Spec => AbandonmentThrottles
<1>1. TypeInv /\ [Next]_engine
        => (funnel'.ABANDONED > funnel.ABANDONED =>
              /\ alpha' <= Greater(200, alpha \div 2)
              /\ decisions'[1].severity = "CRITICAL")
  <2> SUFFICES ASSUME TypeInv, [Next]_engine, funnel'.ABANDONED > funnel.ABANDONED
               PROVE  /\ alpha' <= Greater(200, alpha \div 2)
                      /\ decisions'[1].severity = "CRITICAL"
    OBVIOUS
  <2>1. Typed /\ funnel.ABANDONED \in Nat
    BY DEF TypeInv, DialerInv, Typed, FunnelStages
  <2>2. CASE Tick
    <3>1. PICK n, answered, taken : Settled(n, answered, taken)
      BY <2>2, TickSettles
    <3> DEFINE k == answered - Cardinality(taken)
               tick == (tickId + 1) % Period
    <3>2. funnel'.ABANDONED = funnel.ABANDONED + k /\ k \in Nat
      BY <2>1, <3>1, CountedTyped, SettledCounts
    <3>3. k > 0
      BY <2>1, <3>2
    <3>4. alpha' = Ramped(tick, k)
      BY <3>1 DEF Settled
    <3>5. decisions'[1] = DecisionEntry(tick, Clamped(CircuitAt(tick)), k)
      BY <3>1, SettledEntry DEF TypeInv
    <3> HIDE DEF k, tick
    <3>6. Halved(k) <= Greater(200, alpha \div 2)
      BY <3>2, <3>3, HalvedRange DEF TypeInv, RestTyped, RatesTyped
    <3>7. Ramped(tick, k) = Halved(k)
      BY <3>2, <3>3 DEF Ramped
    <3>8. DecisionEntry(tick, Clamped(CircuitAt(tick)), k).severity = "CRITICAL"
      BY <3>3 DEF DecisionEntry
    <3> QED BY <3>4, <3>5, <3>6, <3>7, <3>8
  <2>3. CASE Reset
    <3>1. funnel'.ABANDONED = 0
      BY <2>3, FreshTyped DEF Reset
    <3> QED BY <2>1, <3>1
  <2>4. CASE UNCHANGED funnel
    BY <2>1, <2>4
  <2> QED BY <2>2, <2>3, <2>4 DEF Next, SwitchMode, SwitchScenario, Switched, engine
<1> QED BY <1>1, TypeInit, TypeStep, PTL DEF Spec, AbandonmentThrottles

-----------------------------------------------------------------------------
(* The predictive bound *)

\* A product of natural numbers is one, and grows with each of them.
LEMMA Products ==
    ASSUME NEW i \in Nat, NEW j \in Nat, NEW x \in Nat, NEW y \in Nat, i <= j, x <= y
    PROVE  i * x <= j * y /\ i * x \in Nat /\ j * y \in Nat
OBVIOUS

\* The numbers whose square is at most x end, and the last of them is the root of x.
LEMMA RootRounds ==
    ASSUME NEW x \in Nat
    PROVE  /\ Root(x) \in Nat
           /\ Root(x) * Root(x) <= x
           /\ x < (Root(x) + 1) * (Root(x) + 1)
<1> DEFINE IsRoot(r) == r * r <= x /\ x < (r + 1) * (r + 1)
           Above == {r \in Nat : r * r <= x}
<1>1. \E r \in Nat : IsRoot(r)
  <2> SUFFICES ASSUME \A r \in Nat : ~IsRoot(r) PROVE FALSE
    OBVIOUS
  <2>1. 0 \in Above
    OBVIOUS
  <2>2. \A r \in Nat : r \in Above => r + 1 \in Above
    <3> SUFFICES ASSUME NEW r \in Nat, r * r <= x PROVE (r + 1) * (r + 1) <= x
      OBVIOUS
    <3>1. ~(x < (r + 1) * (r + 1)) /\ (r + 1) * (r + 1) \in Nat
      OBVIOUS
    <3> QED BY <3>1
  <2> HIDE DEF Above
  <2>3. Nat \subseteq Above
    BY <2>1, <2>2, SetInduction
  <2>4. x + 1 \in Above
    BY <2>3
  <2> QED BY <2>4 DEF Above
<1>2. PICK r \in Nat : IsRoot(r)
  BY <1>1
<1>3. r \in 0 .. 4000 + x \div 4000
  <2>1. PICK q \in Int : q = x \div 4000
    OBVIOUS
  <2>2. q \in Nat /\ 4000 * q <= x /\ x < 4000 * q + 4000
    BY <2>1
  <2>3. CASE r <= 4000
    BY <2>1, <2>2, <2>3
  <2>4. CASE r > 4000
    <3>1. 4000 * r <= r * r
      BY <2>4, Products
    <3>2. 4000 * r < 4000 * q + 4000
      BY <1>2, <2>2, <3>1
    <3> QED BY <2>1, <2>2, <3>2
  <2> QED BY <2>3, <2>4
<1>4. Root(x) = CHOOSE k \in 0 .. 4000 + x \div 4000 : IsRoot(k)
  BY Zenon DEF Root
<1> HIDE DEF IsRoot
<1>5. Root(x) \in 0 .. 4000 + x \div 4000 /\ IsRoot(Root(x))
  BY <1>2, <1>3, <1>4
<1> QED BY <1>5 DEF IsRoot

\* The rate and the capacity are among those of the table.
LEMMA BoundTyped ==
    ASSUME RatesTyped
    PROVE  /\ Pessimistic \in 5..98 /\ Capacity \in Nat
           /\ SafeTotals[Pessimistic][Capacity] = SafeTotal(Pessimistic, Capacity)
<1>1. Pessimistic \in 5..98
  BY DEF RatesTyped, Pessimistic, Greater, Lesser
<1> DEFINE free == Those(AgedStatus, "AVAILABLE")
           talking == Those(AgedStatus, "CONNECTED")
<1>2. A \in Nat /\ C \in Nat /\ A + C <= NumAgents
  <2>1. IsFiniteSet(free) /\ IsFiniteSet(talking) /\ free \cap talking = {}
        /\ Cardinality(free) \in Nat /\ Cardinality(talking) \in Nat
    BY ThoseFinite DEF Those
  <2>2. free \cup talking \in SUBSET Agents
    BY DEF Those
  <2>3. IsFiniteSet(Agents) /\ Cardinality(Agents) = NumAgents
    <3>1. 1 \in Int /\ NumAgents \in Int /\ NumAgents >= 1
      BY DialerAssumption
    <3>2. Agents = 1..NumAgents
      BY DEF Agents
    <3> QED BY <3>1, <3>2, FS_Interval
  <2> HIDE DEF free, talking
  <2>4. Cardinality(free \cup talking) <= NumAgents
    BY <2>2, <2>3, FS_Subset
  <2>5. Cardinality(free \cup talking)
            = Cardinality(free) + Cardinality(talking) - Cardinality(free \cap talking)
    BY <2>1, FS_Union
  <2>6. Cardinality(free \cap talking) = 0
    BY <2>1, FS_EmptySet
  <2>7. A = Cardinality(free) /\ C = Cardinality(talking)
    BY DEF A, C, free, talking
  <2> QED BY <2>1, <2>4, <2>5, <2>6, <2>7
<1>3. NumAgents \in Nat
  BY DialerAssumption
<1>4. Capacity \in Capacities
  <2>1. A \in 0..NumAgents /\ C \in 0 .. NumAgents - A
    BY <1>2, <1>3
  <2> QED BY <2>1 DEF Capacity, Capacities
<1>5. Capacity \in Nat
  <2>1. (7500 * C) \div 1150 \in Nat
    BY <1>2
  <2> QED BY <1>2, <2>1 DEF Capacity, CapacityOf
<1> QED BY <1>1, <1>4, <1>5 DEF SafeTotals

\* A quotient rounded down is a natural number, and at most the quotient.
LEMMA Quotient ==
    ASSUME NEW n \in Nat, NEW k \in Nat \ {0}
    PROVE  n \div k \in Nat /\ (n \div k) * k <= n
<1>1. n = k * (n \div k) + (n % k) /\ n % k \in 0 .. k - 1 /\ n \div k \in Nat
  OBVIOUS
<1> QED BY <1>1

\* What is below another number times a divisor is below it when divided.
LEMMA Cancelled ==
    ASSUME NEW x \in Nat, NEW y \in Nat, NEW k \in Nat \ {0}, x * k <= y * k
    PROVE  x <= y
OBVIOUS

\* The solved bound is a number.
LEMMA SafeTotalTyped ==
    ASSUME NEW u \in 5..98, NEW cap \in Nat
    PROVE  SafeTotal(u, cap) \in Int
<1> DEFINE i == Root(Spread(u)) + 1
           d == Root(Spread(u) + 400 * u * cap)
           s == (50 * Greater(0, d - i)) \div u
<1>1. Spread(u) \in Nat
  <2>1. u \in Nat /\ 100 - u \in Nat
    BY SMT
  <2>2. u * (100 - u) \in Nat
    BY SMT, <2>1, Products
  <2>3. PICK k \in Nat : k = u * (100 - u)
    BY SMT, <2>2
  <2>4. 54289 * u * (100 - u) = 54289 * k
    BY SMT, <2>1, <2>3
  <2> QED BY SMT, <2>3, <2>4 DEF Spread
<1>2. Spread(u) + 400 * u * cap \in Nat
  <2>1. u * cap \in Nat /\ 400 * u * cap = 400 * (u * cap)
    BY SMT, Products
  <2> QED BY SMT, <1>1, <2>1
<1>3. i \in Nat /\ d \in Nat
  <2>1. Root(Spread(u)) \in Nat
    BY SMT, <1>1, RootRounds
  <2>2. d \in Nat
    BY SMT, <1>2, RootRounds
  <2> QED BY SMT, <2>1, <2>2
<1>4. SafeTotal(u, cap) = (s * s) \div 1000000
  BY SMT DEF SafeTotal
<1> HIDE DEF i, d
<1>5. 50 * Greater(0, d - i) \in Nat
  BY SMT, <1>3 DEF Greater
<1>6. s \in Nat
  BY SMT, <1>5, Quotient
<1> HIDE DEF s
<1>7. s * s \in Nat
  BY SMT, <1>6, Products
<1> QED BY SMT, <1>4, <1>7

\* The solved bound keeps to the inequality it solves.  With s = x_max, i = inner and
\* d = sqrt(discriminant), s*u + 50*i <= 50*d; squared, as d*d is the discriminant and
\* i*i the spread or more, s*s*u + 100*s*i <= 1000000*cap.
LEMMA SafeTotalIsSafe ==
    ASSUME NEW u \in 5..98, NEW cap \in Nat, NEW m \in 1..SafeTotal(u, cap)
    PROVE  Safe(m, u, cap)
<1> DEFINE spread == Spread(u)
           i == Root(spread) + 1
           d == Root(spread + 400 * u * cap)
           s == (50 * Greater(0, d - i)) \div u
           z == 54289 * (u * (100 - u))
<1>1. u \in Nat \ {0} /\ 100 - u \in Nat /\ u * (100 - u) \in Nat /\ z \in Nat
      /\ u * cap \in Nat
  <2>1. u \in Nat \ {0} /\ 100 - u \in Nat
    BY SMT
  <2>2. u * (100 - u) \in Nat /\ u * cap \in Nat
    BY SMT, <2>1, Products
  <2> QED BY SMT, <2>1, <2>2
<1>2. spread \in Nat /\ 100 * spread <= z /\ z < 100 * spread + 100
  <2>1. spread = z \div 100
    <3>1. 54289 * u * (100 - u) = z
      BY SMT, <1>1
    <3> QED BY SMT, <3>1 DEF Spread
  <2> HIDE DEF z, spread
  <2> QED BY SMT, <1>1, <2>1
<1> HIDE DEF spread, z
<1>3. i \in Nat /\ spread < i * i
  <2>1. PICK x \in Nat : x = spread
    BY SMT, <1>2
  <2>2. Root(x) \in Nat /\ x < (Root(x) + 1) * (Root(x) + 1)
    BY Zenon, RootRounds
  <2>3. i = Root(x) + 1
    BY SMT, <2>1
  <2> QED BY SMT, <2>1, <2>2, <2>3
<1>4. 400 * u * cap = 400 * (u * cap)
  BY SMT, <1>1
<1>5. spread + 400 * u * cap \in Nat
  BY SMT, <1>1, <1>2, <1>4
<1>6. d \in Nat /\ d * d <= spread + 400 * (u * cap)
  BY SMT, <1>4, <1>5, RootRounds
<1>7. SafeTotal(u, cap) = (s * s) \div 1000000
  BY SMT DEF SafeTotal, spread
<1> HIDE DEF i, d
<1>8. s \in Nat /\ (s * u + 50 * i <= 50 * d \/ s = 0)
  <2>1. CASE d - i >= 0
    <3>1. Greater(0, d - i) = d - i /\ 50 * (d - i) \in Nat
      BY SMT, <1>3, <1>6, <2>1 DEF Greater
    <3>2. s \in Nat /\ s * u <= 50 * (d - i)
      BY SMT, <1>1, <3>1, Quotient
    <3> QED BY SMT, <1>3, <1>6, <3>2
  <2>2. CASE d - i < 0
    BY SMT, <1>1, <1>3, <1>6, <2>2 DEF Greater
  <2> QED BY SMT, <1>3, <1>6, <2>1, <2>2
<1> HIDE DEF s
<1>9. m \in Nat \ {0} /\ 1000000 * m <= s * s
  <2>1. s * s \in Nat
    BY SMT, <1>8
  <2>2. PICK k \in Nat : k = s * s
    BY SMT, <2>1
  <2>3. m \in 1 .. (k \div 1000000)
    BY SMT, <1>7, <2>2
  <2>4. k \div 1000000 \in Nat /\ 1000000 * (k \div 1000000) <= k
    BY SMT, <2>2
  <2> QED BY SMT, <2>2, <2>3, <2>4
<1>10. s # 0
  BY SMT, <1>9
<1>11. s * s * u + 100 * (s * i) <= 1000000 * cap
  <2> DEFINE w == s * u
  <2>1. w \in Nat
    BY SMT, <1>1, <1>8, Products
  <2>2. w + 50 * i <= 50 * d
    BY SMT, <1>8, <1>10
  <2> HIDE DEF w
  <2>3. (w + 50 * i) * (w + 50 * i) <= (50 * d) * (50 * d)
    BY SMT, <1>3, <1>6, <2>1, <2>2, Products
  <2>4. (w + 50 * i) * (w + 50 * i) = w * w + 100 * (w * i) + 2500 * (i * i)
    BY SMT, <1>3, <2>1
  <2>5. (50 * d) * (50 * d) = 2500 * (d * d)
    BY SMT, <1>6
  <2>6. w * w \in Nat /\ w * i \in Nat /\ i * i \in Nat /\ d * d \in Nat
    BY SMT, <1>3, <1>6, <2>1, Products
  <2>7. w * w + 100 * (w * i) <= 1000000 * (u * cap)
    <3>1. 2500 * (d * d) <= 2500 * spread + 1000000 * (u * cap)
      BY SMT, <1>1, <1>2, <1>6, <2>6
    <3>2. 2500 * spread <= 2500 * (i * i)
      BY SMT, <1>2, <1>3, <2>6
    <3> HIDE DEF w
    <3> QED BY SMT, <1>1, <1>2, <2>3, <2>4, <2>5, <2>6, <3>1, <3>2
  <2>8. w * w = (s * s * u) * u /\ w * i = (s * i) * u /\ u * cap = cap * u
    BY SMT, <1>1, <1>3, <1>8 DEF w
  <2>9. s * s * u \in Nat /\ s * i \in Nat
    BY SMT, <1>1, <1>3, <1>8, Products
  <2>10. PICK p \in Nat, q \in Nat : p = s * s * u /\ q = s * i
    BY SMT, <2>9
  <2>11. p * u + 100 * (q * u) <= 1000000 * (cap * u)
    BY SMT, <2>7, <2>8, <2>10
  <2>12. (p + 100 * q) * u <= (1000000 * cap) * u
    BY SMT, <1>1, <2>10, <2>11
  <2> QED BY SMT, <1>1, <2>10, <2>12, Cancelled
<1> DEFINE left == cap - m * u
<1>12. m * u \in Nat /\ 1000000 * (m * u) <= s * s * u
  <2>1. PICK k \in Nat : k = s * s
    BY SMT, <1>8
  <2>2. (1000000 * m) * u <= k * u
    BY SMT, <1>1, <1>9, <2>1, Products
  <2> QED BY SMT, <1>1, <1>9, <2>1, <2>2
<1>13. s * i \in Nat /\ s * s * u \in Nat
  BY SMT, <1>1, <1>3, <1>8, Products
<1>14. left \in Nat /\ s * i <= 10000 * left
  BY SMT, <1>11, <1>12, <1>13
<1> HIDE DEF left
<1>15. z * m <= 10000 * (left * left)
  <2>1. (s * i) * (s * i) <= (10000 * left) * (10000 * left)
    BY SMT, <1>13, <1>14, Products
  <2>2. z <= 100 * (i * i)
    BY SMT, <1>1, <1>2, <1>3
  <2>3. PICK a \in Nat, b \in Nat, l \in Nat : a = s * s /\ b = i * i /\ l = left * left
    BY SMT, <1>3, <1>8, <1>14, Products
  <2>4. (s * i) * (s * i) = a * b
    BY SMT, <1>3, <1>8, <2>3
  <2>5. (10000 * left) * (10000 * left) = 100000000 * l
    BY SMT, <1>14, <2>3
  <2>6. (1000000 * m) * b <= a * b
    BY SMT, <1>9, <2>3, Products
  <2>7. z * m <= (100 * b) * m
    BY SMT, <1>1, <1>9, <2>2, <2>3, Products
  <2>8. PICK c \in Nat : c = b * m
    BY SMT, <1>9, <2>3, Products
  <2>9. (1000000 * m) * b = 1000000 * c /\ (100 * b) * m = 100 * c
    BY SMT, <1>9, <2>3, <2>8
  <2>10. a * b \in Nat /\ z * m \in Nat
    BY SMT, <1>1, <1>9, <2>3, Products
  <2>11. 1000000 * c <= 100000000 * l
    BY SMT, <2>1, <2>4, <2>5, <2>6, <2>9, <2>10
  <2> QED BY SMT, <2>3, <2>7, <2>9, <2>10, <2>11
<1>16. 54289 * m * u * (100 - u) = z * m
  BY SMT, <1>1, <1>9 DEF z
<1>17. (54289 * m * u * (100 - u) + 9999) \div 10000 <= left * left
  <2>1. PICK a \in Nat, l \in Nat : a = z * m /\ l = left * left
    BY SMT, <1>1, <1>9, <1>14, Products
  <2>2. (a + 9999) \div 10000 <= l
    BY SMT, <1>15, <2>1
  <2> QED BY SMT, <1>16, <2>1, <2>2
<1> QED BY SMT, <1>12, <1>14, <1>17 DEF Safe, left

\* What is approved in predictive mode leaves the calls initiated within SafeTotal.
LEMMA ApprovedBounded ==
    ASSUME RatesTyped, Typed, mode = "PREDICTIVE", NEW circuit, NEW n,
           n = Approved(circuit), n \in Nat \ {0}
    PROVE  funnel.INITIATED + n \in 1..SafeTotal(Pessimistic, Capacity)
<1>1. funnel.INITIATED \in Nat /\ Ringing = funnel.INITIATED
  BY DEF Typed, FunnelStages, Ringing
<1> DEFINE total == SafeTotal(Pessimistic, Capacity)
<1>2. total \in Int /\ SafeTotals[Pessimistic][Capacity] = total
  <2>1. /\ Pessimistic \in 5..98 /\ Capacity \in Nat
        /\ SafeTotals[Pessimistic][Capacity] = total
    BY BoundTyped
  <2>2. SafeTotal(Pessimistic, Capacity) \in Int
    BY <2>1, SafeTotalTyped
  <2> QED BY <2>1, <2>2
<1> HIDE DEF total
<1>3. Proposed \in Int
  <2>1. Capacity \in Nat /\ alpha \in Nat /\ p_hat \in Nat
    BY BoundTyped DEF RatesTyped
  <2>2. alpha * Capacity \in Nat /\ 1000 * Greater(p_hat, 5) \in Nat \ {0}
    BY <2>1 DEF Greater
  <2> QED BY <2>2 DEF Proposed
<1>4. Bounded \in Int /\ Bounded <= Greater(0, total - Ringing)
  BY <1>1, <1>2, <1>3 DEF Bounded, n_max, Lesser, Greater
<1>5. n = Bounded \/ n = (4 * Bounded) \div 10
  BY DEF Approved
<1>6. n <= Bounded
  <2>1. PICK q \in Int : q = (4 * Bounded) \div 10
    BY <1>4
  <2>2. 10 * q <= 4 * Bounded
    BY <1>4, <2>1
  <2> QED BY <1>4, <1>5, <2>1, <2>2
<1> QED BY <1>1, <1>2, <1>4, <1>6 DEF Greater, total

\* A tick in predictive mode that dials keeps to the binomial bound
\* (clientSim.ts:286-295), whatever the estimates have become.
THEOREM BoundKept == Spec => BinomialBound
<1>1. DialerInv /\ RatesTyped /\ [Next]_engine
        => ((mode = "PREDICTIVE" /\ funnel'.INITIATED > funnel.INITIATED)
                => Safe(funnel'.INITIATED, Pessimistic, Capacity))
  <2> SUFFICES ASSUME DialerInv, RatesTyped, [Next]_engine, mode = "PREDICTIVE",
                      funnel'.INITIATED > funnel.INITIATED
               PROVE  Safe(funnel'.INITIATED, Pessimistic, Capacity)
    OBVIOUS
  <2>1. Typed /\ funnel.INITIATED \in Nat
    BY DEF DialerInv, Typed, FunnelStages
  <2>2. CASE Tick
    <3>1. PICK n, answered, taken : Settled(n, answered, taken)
      BY <2>2, TickSettles
    <3>2. n \in Nat /\ n = Approved(CircuitAt((tickId + 1) % Period))
      BY <3>1 DEF Settled
    <3>3. funnel'.INITIATED = funnel.INITIATED + n
      BY <2>1, <3>1, CountedTyped
    <3>4. n # 0
      BY <2>1, <3>2, <3>3
    <3>5. funnel'.INITIATED \in 1..SafeTotal(Pessimistic, Capacity)
      BY <2>1, <3>2, <3>3, <3>4, ApprovedBounded
    <3> QED BY <3>5, BoundTyped, SafeTotalIsSafe
  <2>3. CASE Reset
    <3>1. funnel'.INITIATED = 0
      BY <2>3, FreshTyped DEF Reset
    <3> QED BY <2>1, <3>1
  <2>4. CASE UNCHANGED funnel
    BY <2>1, <2>4
  <2> QED BY <2>2, <2>3, <2>4 DEF Next, SwitchMode, SwitchScenario, Switched, engine
<1>2. TypeInv => DialerInv /\ RatesTyped
  BY DEF TypeInv, RestTyped
<1> QED BY <1>1, <1>2, TypeInit, TypeStep, PTL DEF Spec, BinomialBound

-----------------------------------------------------------------------------
(* What the audit trail finds: an entry is CRITICAL only as one of the safety  *)
(* controller, and the newest decision tells of the shed while carrier B is    *)
(* out, as no step changes the circuit or the mode beneath it.                 *)

SafeEntries ==
    {e \in LogEntries : e.severity = "CRITICAL" => e.category = "SAFETY_CONTROLLER"}

RecordInv ==
    /\ decisions \in Seq(SafeEntries)
    /\ (circuitB = "OPEN" /\ mode = "PREDICTIVE" /\ decisions[1].action = "Decision")
            => decisions[1].category = "SAFETY_CONTROLLER"

\* Logging keeps to such entries.
LEMMA LoggedSafe ==
    ASSUME NEW log \in Seq(SafeEntries), NEW entry \in SafeEntries
    PROVE  Logged(log, entry) \in Seq(SafeEntries) /\ Logged(log, entry)[1] = entry
<1> DEFINE k == Lesser(Len(log) + 1, LogLimit)
<1>1. LogLimit \in Nat \ {0} /\ Len(log) \in Nat
  BY DialerAssumption
<1>2. k \in 1 .. Len(log) + 1
  BY <1>1 DEF Lesser
<1> HIDE DEF k
<1>3. /\ SubSeq(<<entry>> \o log, 1, k) \in Seq(SafeEntries)
      /\ SubSeq(<<entry>> \o log, 1, k)[1] = entry
  BY <1>2, Pushed
<1> QED BY <1>3 DEF Logged, k

\* So does an operator's entry, which is no decision.
LEMMA OperatorSafe ==
    ASSUME NEW action \in {"System Initialization", "Reset Pool", "Switched Mode",
                           "Switched Scenario"},
           NEW severity \in {"INFO", "WARNING"}
    PROVE  /\ OperatorEntry(action, severity) \in SafeEntries
           /\ OperatorEntry(action, severity).action # "Decision"
<1>1. OperatorEntry(action, severity) \in LogEntries
  BY OperatorPromised
<1> QED BY <1>1 DEF SafeEntries, OperatorEntry

\* The log a reset starts
LEMMA StartSafe == <<StartEntry>> \in Seq(SafeEntries)
<1>1. StartEntry \in SafeEntries
  BY OperatorSafe DEF StartEntry
<1> QED BY <1>1

\* An entry of the operator on top keeps RecordInv.
LEMMA OperatorRecorded ==
    ASSUME NEW log \in Seq(SafeEntries),
           NEW action \in {"System Initialization", "Reset Pool", "Switched Mode",
                           "Switched Scenario"},
           NEW severity \in {"INFO", "WARNING"},
           decisions' = Logged(log, OperatorEntry(action, severity))
    PROVE  RecordInv'
<1> DEFINE e == OperatorEntry(action, severity)
<1>1. e \in SafeEntries /\ e.action # "Decision"
  BY OperatorSafe
<1> HIDE DEF e
<1>2. decisions' \in Seq(SafeEntries) /\ decisions'[1] = e
  BY <1>1, LoggedSafe DEF e
<1> QED BY <1>1, <1>2 DEF RecordInv

\* A tick records its abandonments as CRITICAL and its shed as clamped.
LEMMA TickRecorded == TypeInv /\ RecordInv /\ Tick => RecordInv'
<1> SUFFICES ASSUME TypeInv, RecordInv, Tick PROVE RecordInv'
  OBVIOUS
<1>1. PICK n, answered, taken : Settled(n, answered, taken)
  BY TickSettles
<1> DEFINE tick == (tickId + 1) % Period
           k == answered - Cardinality(taken)
           e == DecisionEntry(tick, Clamped(CircuitAt(tick)), k)
<1>2. decisions' = Logged(decisions, e)
  BY <1>1 DEF Settled
<1>3. tick \in Nat
  BY <1>1, SettledEntry DEF TypeInv
<1>4. mode' = mode /\ circuitB' = CircuitAt(tick)
  BY DEF Tick
<1>5. Clamped(CircuitAt(tick)) \in BOOLEAN
  BY DEF Clamped
<1>6. (circuitB' = "OPEN" /\ mode' = "PREDICTIVE") => Clamped(CircuitAt(tick))
  <2>1. CircuitAt(tick) = "OPEN" => scenario = "D"
    BY DEF CircuitAt
  <2> HIDE DEF tick
  <2> QED BY <1>4, <2>1 DEF Clamped, Shed
<1>7. e \in LogEntries
  <2> HIDE DEF tick, k
  <2> QED BY <1>3, <1>5, DecisionPromised
<1>8. /\ e.severity = "CRITICAL" => e.category = "SAFETY_CONTROLLER"
      /\ Clamped(CircuitAt(tick)) => e.category = "SAFETY_CONTROLLER"
  <2> HIDE DEF tick, k
  <2> QED BY <1>5 DEF DecisionEntry
<1> HIDE DEF tick, k, e
<1>9. e \in SafeEntries
  BY <1>7, <1>8 DEF SafeEntries
<1>10. decisions' \in Seq(SafeEntries) /\ decisions'[1] = e
  BY <1>2, <1>9, LoggedSafe DEF RecordInv
<1> QED BY <1>6, <1>8, <1>10 DEF RecordInv

\* Every step keeps it.
LEMMA RecordStep == TypeInv /\ RecordInv /\ [Next]_engine => RecordInv'
<1> SUFFICES ASSUME TypeInv, RecordInv, [Next]_engine PROVE RecordInv'
  OBVIOUS
<1>1. CASE Tick
  BY <1>1, TickRecorded
<1>2. CASE Reset
  <2>1. decisions' = Logged(<<StartEntry>>, OperatorEntry("Reset Pool", "WARNING"))
    BY <1>2 DEF Reset
  <2> QED BY <2>1, StartSafe, OperatorRecorded
<1>3. ASSUME NEW action \in {"Switched Mode", "Switched Scenario"}, Note(action, "INFO")
      PROVE  RecordInv'
  <2>1. decisions' = Logged(decisions, OperatorEntry(action, "INFO"))
    BY <1>3 DEF Note
  <2>2. decisions \in Seq(SafeEntries)
    BY DEF RecordInv
  <2> QED BY <2>1, <2>2, OperatorRecorded
<1>4. CASE \E m \in Modes : SwitchMode(m)
  BY <1>3, <1>4 DEF SwitchMode
<1>5. CASE \E s \in Scenarios : SwitchScenario(s)
  BY <1>3, <1>5 DEF SwitchScenario
<1>6. CASE UNCHANGED engine
  BY <1>6 DEF engine, RecordInv
<1> QED BY <1>1, <1>2, <1>4, <1>5, <1>6 DEF Next

\* The chips of the audit trail find every tick that abandoned calls, each of which
\* counts as an intervention, and the shed while carrier B is out (AuditTrail.tsx:9-16).
THEOREM AuditFinds == Spec => []InterventionsFound
<1>1. Init => RecordInv
  <2> SUFFICES ASSUME Init PROVE RecordInv
    OBVIOUS
  <2>1. decisions = <<StartEntry>> /\ circuitB = "CLOSED"
    BY DEF Init
  <2> QED BY <2>1, StartSafe DEF RecordInv
<1>2. TypeInv /\ RecordInv => InterventionsFound
  <2> SUFFICES ASSUME TypeInv, RecordInv PROVE InterventionsFound
    OBVIOUS
  <2> DEFINE rows == DOMAIN decisions
             critical == {i \in rows : decisions[i].severity = "CRITICAL"}
             safety == {i \in rows : decisions[i].category = "SAFETY_CONTROLLER"}
  <2>1. rows = 1 .. Len(decisions) /\ Len(decisions) \in Nat \ {0}
    BY DEF TypeInv, LogTyped
  <2>2. \A i \in rows : /\ decisions[i].severity = "CRITICAL"
                              => decisions[i].category = "SAFETY_CONTROLLER"
                        /\ decisions[i] \in LogEntries
    <3>1. \A i \in rows : decisions[i] \in SafeEntries
      BY DEF RecordInv
    <3> QED BY <3>1 DEF SafeEntries
  <2>3. /\ filtered("CRITICAL", "ALL") = critical
        /\ filtered("CRITICAL", "SAFETY_CONTROLLER") = critical
        /\ filtered("ALL", "SAFETY_CONTROLLER") = safety
    BY <2>2 DEF filtered, LogEntries
  <2>4. critical \in SUBSET safety
    BY <2>2
  <2>5. IsFiniteSet(safety)
    <3>1. 1 \in Int /\ Len(decisions) \in Int
      BY <2>1
    <3>2. IsFiniteSet(rows)
      BY <2>1, <3>1, FS_Interval, Zenon
    <3>3. safety \in SUBSET rows
      OBVIOUS
    <3> QED BY <3>2, <3>3, FS_Subset
  <2>6. Cardinality(critical) <= safetyInterventions
    <3>1. safetyInterventions = Cardinality(safety)
      BY Zenon DEF safetyInterventions
    <3> HIDE DEF critical, safety
    <3> QED BY <2>4, <2>5, <3>1, FS_Subset
  <2>7. (isCarrierBChaos /\ mode = "PREDICTIVE" /\ decisions[1].action = "Decision")
            => 1 \in safety
    BY <2>1 DEF RecordInv, isCarrierBChaos
  <2> QED BY <2>3, <2>6, <2>7 DEF InterventionsFound
<1> QED BY <1>1, <1>2, RecordStep, TypeInit, TypeStep, PTL DEF Spec
=============================================================================
