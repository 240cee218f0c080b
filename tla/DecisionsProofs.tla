--------------------------- MODULE DecisionsProofs ---------------------------
(***************************************************************************)
(* Proofs about Decisions for any processes, campaigns and bounds, whether *)
(* or not the processes agree on the lock.  The unique key is what carries *)
(* the argument: a decision that approves calls takes the key of index 0,  *)
(* so that a second one with its tick number is refused.                   *)
(***************************************************************************)
EXTENDS Decisions, FiniteSetTheorems, TLAPS

\* The decisions and tasks of a tick number, given as the rows d and the tasks S
Explained(d, S, c, t) ==
    /\ \A r, q \in DOMAIN d : (d[r] > 0 /\ d[q] > 0) => r = q
    /\ \A r \in DOMAIN d : d[r] > 0 => S = {Task(c, t, i, r) : i \in 0 .. d[r] - 1}
    /\ S # {} => \E r \in DOMAIN d : d[r] > 0

DecisionsInv == TypeOK /\ TickExplainsItsCalls

\* TickExplainsItsCalls says of each tick number that it is Explained.
LEMMA ExplainedEach ==
    TickExplainsItsCalls <=>
        \A c \in Campaigns, t \in Ticks :
            Explained(dial_decisions[c][t], TasksOf(c, t), c, t)
BY DEF TickExplainsItsCalls, Explained

\* The same of the next state
LEMMA ExplainedEachNext ==
    TickExplainsItsCalls' <=>
        \A c \in Campaigns, t \in Ticks :
            Explained(dial_decisions'[c][t], TasksOf(c, t)', c, t)
BY DEF TickExplainsItsCalls, Explained

-----------------------------------------------------------------------------
\* At the start there is no row of either table.
LEMMA DecisionsInit == Init => DecisionsInv
<1> SUFFICES ASSUME Init PROVE DecisionsInv
  OBVIOUS
<1>1. TypeOK
  <2>1. <<>> \in Seq(0..MaxApproved)
    OBVIOUS
  <2>2. dial_decisions \in [Campaigns -> [Ticks -> Seq(0..MaxApproved)]]
    BY <2>1 DEF Init
  <2>3. 0 \in 0..MaxStarts /\ 0 \in 0..MaxTick
    BY DecisionsAssumption
  <2> QED
    BY <2>2, <2>3 DEF Init, TypeOK
<1>2. TickExplainsItsCalls
  <2>1. ASSUME NEW c \in Campaigns, NEW t \in Ticks
        PROVE  Explained(dial_decisions[c][t], TasksOf(c, t), c, t)
    <3>1. dial_decisions[c][t] = <<>> /\ TasksOf(c, t) = {}
      BY DEF Init, TasksOf
    <3> QED
      BY <3>1 DEF Explained
  <2> QED
    BY <2>1, ExplainedEach
<1> QED
  BY <1>1, <1>2 DEF DecisionsInv

\* One more row for a tick number, and its tasks, explain it, if no task with the
\* number had an index below the row's count.
LEMMA ExplainedAppend ==
    ASSUME NEW c, NEW t, NEW d \in Seq(Nat), NEW S, Explained(d, S, c, t),
           NEW n \in Nat, \A task \in S : ~(task.idx < n)
    PROVE  Explained(Append(d, n), S \cup {Task(c, t, i, Len(d) + 1) : i \in 0 .. n - 1}, c, t)
<1> DEFINE e == Append(d, n)
           new == {Task(c, t, i, Len(d) + 1) : i \in 0 .. n - 1}
<1>1. /\ DOMAIN d = 1..Len(d) /\ DOMAIN e = 1 .. Len(d) + 1 /\ Len(d) \in Nat
      /\ \A r \in DOMAIN d : e[r] = d[r] /\ d[r] \in Nat
      /\ e[Len(d) + 1] = n
  OBVIOUS
<1> HIDE DEF e
<1>2. CASE n = 0
  <2>1. new = {}
    BY <1>2
  <2>2. \A r \in DOMAIN e : e[r] > 0 => r \in DOMAIN d
    BY <1>1, <1>2
  <2>3. (S \cup new) = S
    BY <2>1
  <2>4. \A r \in DOMAIN d : r \in DOMAIN e
    BY <1>1
  <2>5. Explained(e, S, c, t)
    BY <1>1, <2>2, <2>4 DEF Explained
  <2> QED
    BY <2>3, <2>5 DEF e
<1>3. CASE n > 0
  <2>1. \A r \in DOMAIN d : ~(d[r] > 0)
    <3> SUFFICES ASSUME NEW r \in DOMAIN d, d[r] > 0 PROVE FALSE
      OBVIOUS
    <3>1. 0 \in 0 .. d[r] - 1
      BY <1>1
    <3>2. Task(c, t, 0, r) \in S
      BY <3>1 DEF Explained
    <3>3. Task(c, t, 0, r).idx = 0
      BY DEF Task
    <3> QED
      BY <1>3, <3>2, <3>3
  <2>2. S = {}
    BY <2>1 DEF Explained
  <2>3. \A r \in DOMAIN e : e[r] > 0 => r = Len(d) + 1
    BY <1>1, <2>1
  <2>4. Len(d) + 1 \in DOMAIN e /\ e[Len(d) + 1] > 0
    BY <1>1, <1>3
  <2>5. (S \cup new) = {Task(c, t, i, Len(d) + 1) : i \in 0 .. e[Len(d) + 1] - 1}
    BY <1>1, <2>2
  <2>6. Explained(e, S \cup new, c, t)
    BY <2>3, <2>4, <2>5 DEF Explained
  <2> QED
    BY <2>6 DEF e
<1> QED
  BY <1>2, <1>3

\* A committed decision keeps the invariant; the other tick numbers are as before.
LEMMA CommitKeeps ==
    ASSUME DecisionsInv, NEW w \in Workers, deciding[w] # Null,
           NEW n \in 0..MaxApproved, Commit(w, n)
    PROVE  /\ dial_decisions' \in [Campaigns -> [Ticks -> Seq(0..MaxApproved)]]
           /\ dial_tasks' \subseteq [campaign : Campaigns, tick : Ticks,
                                     idx : 0..MaxApproved, decision : Nat]
           /\ TickExplainsItsCalls'
<1> DEFINE c == deciding[w]
           t == tick_counter[w][c]
           d == dial_decisions[c][t]
           new == {Task(c, t, i, Len(d) + 1) : i \in 0 .. n - 1}
<1>0. MaxApproved \in Nat
  BY DecisionsAssumption
<1>1. c \in Campaigns /\ t \in Ticks
  BY DEF DecisionsInv, TypeOK
<1>2. d \in Seq(0..MaxApproved) /\ d \in Seq(Nat) /\ n \in Nat /\ Len(d) + 1 \in Nat
  <2>1. d \in Seq(0..MaxApproved)
    BY <1>1 DEF DecisionsInv, TypeOK
  <2>2. d \in Seq(Nat)
    BY <2>1, <1>0
  <2> QED
    BY <2>1, <2>2, <1>0
<1>3. /\ ~KeyTaken(c, t, n)
      /\ dial_decisions' = [dial_decisions EXCEPT ![c][t] = Append(d, n)]
      /\ dial_tasks' = dial_tasks \cup new
  BY DEF Commit
<1> HIDE DEF c, t, d
<1>4. dial_decisions' \in [Campaigns -> [Ticks -> Seq(0..MaxApproved)]]
  <2>1. Append(d, n) \in Seq(0..MaxApproved)
    BY <1>2
  <2> QED
    BY <1>1, <1>3, <2>1 DEF DecisionsInv, TypeOK
<1>5. dial_tasks' \subseteq [campaign : Campaigns, tick : Ticks,
                             idx : 0..MaxApproved, decision : Nat]
  <2>1. \A i \in 0 .. n - 1 : i \in 0..MaxApproved
    BY <1>0, <1>2
  <2>2. new \subseteq [campaign : Campaigns, tick : Ticks,
                       idx : 0..MaxApproved, decision : Nat]
    BY <1>1, <1>2, <2>1 DEF Task
  <2> QED
    BY <1>3, <2>2 DEF DecisionsInv, TypeOK
<1>6. ASSUME NEW b \in Campaigns, NEW s \in Ticks
      PROVE  Explained(dial_decisions'[b][s], TasksOf(b, s)', b, s)
  <2>1. Explained(dial_decisions[b][s], TasksOf(b, s), b, s)
    BY ExplainedEach DEF DecisionsInv
  <2>2. \A task \in new : task.campaign = c /\ task.tick = t
    BY DEF Task
  <2>3. CASE b = c /\ s = t
    <3>1. TasksOf(b, s)' = TasksOf(c, t) \cup new
      BY <1>3, <2>2, <2>3 DEF TasksOf
    <3>2. dial_decisions'[b][s] = Append(d, n)
      BY <1>1, <1>3, <2>3 DEF DecisionsInv, TypeOK
    <3>3. \A task \in TasksOf(c, t) : ~(task.idx < n)
      BY <1>3 DEF KeyTaken, TasksOf
    <3>4. Explained(d, TasksOf(c, t), c, t)
      BY <2>1, <2>3 DEF d
    <3> HIDE DEF new
    <3>5. Explained(Append(d, n), TasksOf(c, t) \cup new, c, t)
      BY <3>3, <3>4, <1>2, ExplainedAppend DEF new
    <3> QED
      BY <3>1, <3>2, <3>5, <2>3
  <2>4. CASE ~(b = c /\ s = t)
    <3>1. TasksOf(b, s)' = TasksOf(b, s)
      BY <1>3, <2>2, <2>4 DEF TasksOf
    <3>2. dial_decisions'[b][s] = dial_decisions[b][s]
      BY <1>1, <1>3, <2>4 DEF DecisionsInv, TypeOK
    <3> QED
      BY <2>1, <3>1, <3>2
  <2> QED
    BY <2>3, <2>4
<1> QED
  BY <1>4, <1>5, <1>6, ExplainedEachNext

\* Every step keeps the invariant.
LEMMA DecisionsStep == DecisionsInv /\ [Next]_vars => DecisionsInv'
<1> SUFFICES ASSUME DecisionsInv, [Next]_vars PROVE DecisionsInv'
  OBVIOUS
<1>0. {MaxApproved, MaxTick, MaxStarts} \subseteq Nat /\ Null \notin Campaigns
  BY DecisionsAssumption
<1>1. UNCHANGED rows => TickExplainsItsCalls'
  <2>1. UNCHANGED rows => \A c \in Campaigns, t \in Ticks : TasksOf(c, t)' = TasksOf(c, t)
    BY DEF rows, TasksOf
  <2> QED
    BY <2>1, ExplainedEach, ExplainedEachNext DEF DecisionsInv, rows
<1>2. ASSUME NEW w \in Workers, Start(w) PROVE DecisionsInv'
  <2>1. starts' \in 0..MaxStarts
    BY <1>0, <1>2 DEF Start, DecisionsInv, TypeOK
  <2>2. TypeOK'
    BY <1>2, <2>1 DEF Start, DecisionsInv, TypeOK, memory, rows
  <2> QED
    BY <1>1, <1>2, <2>2 DEF Start, DecisionsInv
<1>3. ASSUME NEW w \in Workers, Crash(w) PROVE DecisionsInv'
  <2>1. [c \in Campaigns |-> 0] \in [Campaigns -> 0..MaxTick]
    BY <1>0
  <2>2. TypeOK'
    BY <1>3, <2>1 DEF Crash, Blank, DecisionsInv, TypeOK, rows
  <2> QED
    BY <1>1, <1>3, <2>2 DEF Crash, DecisionsInv
<1>4. ASSUME NEW w \in Workers, Round(w) PROVE DecisionsInv'
  <2>1. TypeOK'
    BY <1>4 DEF Round, DecisionsInv, TypeOK, world, rows
  <2> QED
    BY <1>1, <1>4, <2>1 DEF Round, DecisionsInv
<1>5. ASSUME NEW w \in Workers, NEW c \in Campaigns, Begin(w, c) PROVE DecisionsInv'
  <2>1. /\ tick_counter[w][c] \in 0..MaxTick /\ tick_counter[w][c] < MaxTick
        /\ c \in campaign_ids[w] /\ campaign_ids[w] \subseteq Campaigns
    BY <1>5 DEF Begin, DecisionsInv, TypeOK
  <2>2. tick_counter[w][c] + 1 \in Ticks /\ tick_counter[w][c] + 1 \in 0..MaxTick
    BY <1>0, <2>1 DEF Ticks
  <2>3. /\ tick_counter' = [tick_counter EXCEPT ![w][c] = tick_counter[w][c] + 1]
        /\ campaign_ids' = [campaign_ids EXCEPT ![w] = campaign_ids[w] \ {c}]
        /\ deciding' = [deciding EXCEPT ![w] = c]
        /\ UNCHANGED <<world, lost, rows>>
    BY <1>5 DEF Begin
  <2>4. /\ tick_counter' \in [Workers -> [Campaigns -> 0..MaxTick]]
        /\ campaign_ids' \in [Workers -> SUBSET Campaigns]
        /\ deciding' \in [Workers -> Campaigns \cup {Null}]
    BY <2>2, <2>3 DEF DecisionsInv, TypeOK
  <2>5. ASSUME NEW v \in Workers, NEW b \in campaign_ids'[v]
        PROVE  tick_counter'[v][b] < MaxTick
    <3>1. b \in campaign_ids[v] /\ ~(v = w /\ b = c)
      BY <2>3 DEF DecisionsInv, TypeOK
    <3>2. tick_counter'[v][b] = tick_counter[v][b]
      BY <2>1, <2>3, <3>1 DEF DecisionsInv, TypeOK
    <3> QED
      BY <3>1, <3>2 DEF DecisionsInv, TypeOK
  <2>6. ASSUME NEW v \in Workers, deciding'[v] # Null
        PROVE  tick_counter'[v][deciding'[v]] \in Ticks
    <3>1. CASE v = w
      BY <2>1, <2>2, <2>3, <3>1 DEF DecisionsInv, TypeOK
    <3>2. CASE v # w
      BY <2>3, <2>6, <3>2 DEF DecisionsInv, TypeOK
    <3> QED
      BY <3>1, <3>2
  <2>7. TypeOK'
    BY <2>3, <2>4, <2>5, <2>6 DEF DecisionsInv, TypeOK, world, rows
  <2> QED
    BY <1>1, <2>3, <2>7 DEF DecisionsInv
<1>6. ASSUME NEW w \in Workers, Decide(w) PROVE DecisionsInv'
  <2>1. PICK n \in 0..MaxApproved : Commit(w, n) \/ Refuse(w, n)
    BY <1>6 DEF Decide
  <2>2. /\ deciding[w] # Null /\ deciding' = [deciding EXCEPT ![w] = Null]
        /\ UNCHANGED <<tick_counter, world>>
    BY <1>6, <2>1 DEF Decide, Commit, Refuse
  <2>3. /\ campaign_ids' \in [Workers -> SUBSET Campaigns] /\ lost' \in [Workers -> Nat]
        /\ \A v \in Workers : campaign_ids'[v] \subseteq campaign_ids[v]
    <3>1. campaign_ids' = campaign_ids \/ campaign_ids' = [campaign_ids EXCEPT ![w] = {}]
      BY <2>1 DEF Commit, Refuse
    <3>2. lost' = lost \/ lost' = [lost EXCEPT ![w] = lost[w] + 1]
      BY <2>1 DEF Commit, Refuse
    <3>3. campaign_ids \in [Workers -> SUBSET Campaigns] /\ lost \in [Workers -> Nat]
      BY DEF DecisionsInv, TypeOK
    <3>4. lost' \in [Workers -> Nat]
      BY <3>2, <3>3
    <3>5. /\ campaign_ids' \in [Workers -> SUBSET Campaigns]
          /\ \A v \in Workers : campaign_ids'[v] \subseteq campaign_ids[v]
      BY <3>1, <3>3
    <3> QED
      BY <3>4, <3>5
  <2>4. /\ dial_decisions' \in [Campaigns -> [Ticks -> Seq(0..MaxApproved)]]
        /\ dial_tasks' \subseteq [campaign : Campaigns, tick : Ticks,
                                  idx : 0..MaxApproved, decision : Nat]
        /\ TickExplainsItsCalls'
    <3>1. CASE Commit(w, n)
      BY <2>2, <3>1, CommitKeeps
    <3>2. CASE Refuse(w, n)
      BY <1>1, <3>2 DEF Refuse, rows, DecisionsInv, TypeOK
    <3> QED
      BY <2>1, <3>1, <3>2
  <2>5. /\ deciding' \in [Workers -> Campaigns \cup {Null}]
        /\ \A v \in Workers : deciding'[v] # Null => tick_counter'[v][deciding'[v]] \in Ticks
        /\ \A v \in Workers : \A c \in campaign_ids'[v] : tick_counter'[v][c] < MaxTick
    BY <2>2, <2>3 DEF DecisionsInv, TypeOK
  <2> QED
    BY <2>2, <2>3, <2>4, <2>5 DEF DecisionsInv, TypeOK, world
<1>7. CASE UNCHANGED vars
  <2>1. TypeOK'
    BY <1>7 DEF vars, world, memory, rows, DecisionsInv, TypeOK
  <2> QED
    BY <1>1, <1>7, <2>1 DEF vars, rows, DecisionsInv
<1> QED
  BY <1>2, <1>3, <1>4, <1>5, <1>6, <1>7 DEF Next, Loop

-----------------------------------------------------------------------------
\* Rows and locals keep their types, and a process that decides has counted the tick
\* (pacing_worker.py:63-64).
THEOREM DecisionsTypeCorrect == Spec => []TypeOK
<1>1. DecisionsInv => TypeOK
  BY DEF DecisionsInv
<1> QED
  BY <1>1, DecisionsInit, DecisionsStep, PTL DEF Spec

\* The audit trail explains the calls of every tick number, whatever processes
\* restart or overlap, with or without the lock (pacing_worker.py:110-126).
THEOREM TicksAreExplained == Spec => []TickExplainsItsCalls
<1>1. DecisionsInv => TickExplainsItsCalls
  BY DEF DecisionsInv
<1> QED
  BY <1>1, DecisionsInit, DecisionsStep, PTL DEF Spec
-----------------------------------------------------------------------------
(* What a restart costs.  A tick number counts as passed once its decision *)
(* is over, so that the one in hand, which may yet be refused, is left out. *)

Passed(w) ==
    {k \in Campaigns \X Ticks :
        k[2] <= tick_counter[w][k[1]] /\ TasksOf(k[1], k[2]) # {}}

Settled(w) == {k \in Passed(w) : deciding[w] = k[1] => k[2] # tick_counter[w][k[1]]}

\* The rounds a process has lost are no more than the numbers it has settled, which
\* are finitely many though campaigns need not be.
StallInv ==
    \A w \in Workers : IsFiniteSet(Settled(w)) /\ lost[w] <= Cardinality(Settled(w))

\* Nothing is lost before a process runs.
LEMMA StallInit == Init => StallInv
<1> SUFFICES ASSUME Init, NEW w \in Workers
             PROVE  IsFiniteSet(Settled(w)) /\ lost[w] <= Cardinality(Settled(w))
  BY DEF StallInv
<1>1. Settled(w) = {} /\ lost[w] = 0
  BY DEF Init, Settled, Passed, TasksOf
<1> QED
  BY <1>1, FS_EmptySet

\* A step that settles at most one number more, and loses a round only with it.
LEMMA StallGrows ==
    ASSUME StallInv, NEW w \in Workers, NEW k,
           lost[w] \in Nat, lost'[w] \in Nat,
           Settled(w)' \in {Settled(w), Settled(w) \cup {k}},
           lost'[w] <= lost[w]
              \/ (lost'[w] <= lost[w] + 1 /\ k \notin Settled(w) /\ k \in Settled(w)')
    PROVE  IsFiniteSet(Settled(w)') /\ lost'[w] <= Cardinality(Settled(w)')
<1> DEFINE S == Settled(w)
           T == Settled(w)'
<1>1. /\ IsFiniteSet(S) /\ lost[w] <= Cardinality(S) /\ T \in {S, S \cup {k}}
      /\ lost'[w] <= lost[w] \/ (lost'[w] <= lost[w] + 1 /\ k \notin S /\ k \in T)
  BY DEF StallInv
<1> HIDE DEF S, T
<1>2. /\ Cardinality(S) \in Nat /\ IsFiniteSet(S \cup {k})
      /\ Cardinality(S \cup {k}) = IF k \in S THEN Cardinality(S) ELSE Cardinality(S) + 1
  BY <1>1, FS_CardinalityType, FS_AddElement
<1>3. IsFiniteSet(T) /\ lost'[w] <= Cardinality(T)
  BY <1>1, <1>2
<1> QED
  BY <1>3 DEF T

\* Every step keeps it.
LEMMA StallStep == TypeOK /\ TypeOK' /\ StallInv /\ [Next]_vars => StallInv'
<1> SUFFICES ASSUME TypeOK, TypeOK', StallInv, [Next]_vars PROVE StallInv'
  OBVIOUS
<1>n. Null \notin Campaigns /\ MaxTick \in Nat
  BY DecisionsAssumption
<1>t. /\ tick_counter \in [Workers -> [Campaigns -> 0..MaxTick]]
      /\ tick_counter' \in [Workers -> [Campaigns -> 0..MaxTick]]
      /\ deciding \in [Workers -> Campaigns \cup {Null}]
      /\ lost \in [Workers -> Nat] /\ lost' \in [Workers -> Nat]
  BY DEF TypeOK
<1>0. ASSUME NEW v \in Workers, NEW k, Settled(v)' \in {Settled(v), Settled(v) \cup {k}},
             lost'[v] <= lost[v]
                \/ (lost'[v] <= lost[v] + 1 /\ k \notin Settled(v) /\ k \in Settled(v)')
      PROVE  IsFiniteSet(Settled(v)') /\ lost'[v] <= Cardinality(Settled(v)')
  BY <1>0, <1>t, StallGrows
<1>s. ASSUME NEW v \in Workers, dial_tasks' = dial_tasks,
             tick_counter'[v] = tick_counter[v], deciding'[v] = deciding[v]
      PROVE  Settled(v)' = Settled(v)
  BY <1>s DEF Settled, Passed, TasksOf
<1>k. ASSUME NEW v \in Workers, Settled(v)' = Settled(v), lost'[v] = lost[v]
      PROVE  IsFiniteSet(Settled(v)') /\ lost'[v] <= Cardinality(Settled(v)')
  <2>1. lost'[v] <= lost[v]
    BY <1>k, <1>t
  <2> QED
    BY <1>k, <1>0, <2>1
<1>1. ASSUME NEW w \in Workers, Start(w) \/ Round(w) PROVE StallInv'
  <2>1. UNCHANGED <<dial_tasks, tick_counter, deciding, lost>>
    BY <1>1 DEF Start, Round, memory, rows
  <2> QED
    BY <2>1, <1>s, <1>k DEF StallInv
<1>2. ASSUME NEW w \in Workers, Crash(w) PROVE StallInv'
  <2>1. /\ dial_tasks' = dial_tasks /\ lost'[w] = 0
        /\ \A c \in Campaigns : tick_counter'[w][c] = 0
        /\ \A v \in Workers \ {w} : /\ tick_counter'[v] = tick_counter[v]
                                    /\ deciding'[v] = deciding[v] /\ lost'[v] = lost[v]
    BY <1>2, <1>t DEF Crash, Blank, rows
  <2>2. Settled(w)' = {}
    BY <2>1, <1>n DEF Settled, Passed, Ticks
  <2>3. IsFiniteSet(Settled(w)') /\ lost'[w] <= Cardinality(Settled(w)')
    BY <2>1, <2>2, FS_EmptySet
  <2> QED
    BY <2>1, <2>3, <1>s, <1>k DEF StallInv
<1>3. ASSUME NEW w \in Workers, NEW c \in Campaigns, Begin(w, c) PROVE StallInv'
  <2>1. /\ dial_tasks' = dial_tasks /\ lost' = lost
        /\ deciding[w] = Null /\ deciding'[w] = c
        /\ tick_counter'[w][c] = tick_counter[w][c] + 1
        /\ \A b \in Campaigns \ {c} : tick_counter'[w][b] = tick_counter[w][b]
        /\ \A v \in Workers \ {w} : /\ tick_counter'[v] = tick_counter[v]
                                    /\ deciding'[v] = deciding[v]
    BY <1>3, <1>t DEF Begin, rows
  <2>2. \A k \in Campaigns \X Ticks :
           k \in Settled(w)' <=> k \in Settled(w)
    <3> TAKE k \in Campaigns \X Ticks
    <3>1. k[1] \in Campaigns /\ k[2] \in Nat /\ tick_counter[w][k[1]] \in Nat
      BY <1>t, <1>n DEF Ticks
    <3>2. TasksOf(k[1], k[2])' = TasksOf(k[1], k[2])
      BY <2>1 DEF TasksOf
    <3>3. CASE k[1] = c
      BY <2>1, <3>1, <3>2, <3>3, <1>n DEF Settled, Passed
    <3>4. CASE k[1] # c
      BY <2>1, <3>1, <3>2, <3>4, <1>n DEF Settled, Passed
    <3> QED
      BY <3>3, <3>4
  <2>3. Settled(w)' = Settled(w)
    BY <2>2 DEF Settled, Passed
  <2> QED
    BY <2>1, <2>3, <1>s, <1>k DEF StallInv
<1>4. ASSUME NEW w \in Workers, Decide(w) PROVE StallInv'
  <2> DEFINE c == deciding[w]
             t == tick_counter[w][c]
             k0 == <<c, t>>
  <2>1. PICK n \in 0..MaxApproved : Commit(w, n) \/ Refuse(w, n)
    BY <1>4 DEF Decide
  <2>2. /\ c \in Campaigns /\ t \in Ticks /\ c # Null
        /\ tick_counter' = tick_counter /\ deciding'[w] = Null
        /\ \A v \in Workers \ {w} : deciding'[v] = deciding[v]
    BY <1>4, <1>t, <2>1 DEF Decide, Commit, Refuse, TypeOK
  <2>3. k0 \in Campaigns \X Ticks /\ k0[1] = c /\ k0[2] = t
    BY <2>2
  <2>4. k0 \notin Settled(w)
    BY <2>3 DEF Settled
  <2>5. CASE Commit(w, n)
    <3>1. lost' = lost
      BY <2>5 DEF Commit
    <3>2. \A k \in Campaigns \X Ticks :
            /\ TasksOf(k[1], k[2]) \subseteq TasksOf(k[1], k[2])'
            /\ k # k0 => TasksOf(k[1], k[2])' = TasksOf(k[1], k[2])
      <4> TAKE k \in Campaigns \X Ticks
      <4>1. \A task \in dial_tasks' :
               task \in dial_tasks \/ (task.campaign = c /\ task.tick = t)
        BY <2>5 DEF Commit, Task
      <4>2. dial_tasks \subseteq dial_tasks'
        BY <2>5 DEF Commit
      <4>3. k # k0 => ~(k[1] = c /\ k[2] = t)
        BY <2>3
      <4> QED
        BY <4>1, <4>2, <4>3 DEF TasksOf
    <3>3. ASSUME NEW v \in Workers
          PROVE  Settled(v)' \in {Settled(v), Settled(v) \cup {k0}}
      <4>1. \A k \in Settled(v) : k \in Settled(v)'
        BY <2>2, <3>2, <1>n DEF Settled, Passed
      <4>2. \A k \in Settled(v)' : k \in Settled(v) \/ k = k0
        <5> SUFFICES ASSUME NEW k \in Settled(v)', k # k0 PROVE k \in Settled(v)
          OBVIOUS
        <5>1. k \in Campaigns \X Ticks /\ k = <<k[1], k[2]>>
          BY DEF Settled, Passed
        <5>2. TasksOf(k[1], k[2]) # {} /\ k[2] <= tick_counter[v][k[1]]
          BY <2>2, <3>2, <5>1 DEF Settled, Passed
        <5>3. deciding[v] = k[1] => k[2] # tick_counter[v][k[1]]
          BY <2>2, <5>1 DEF Settled, Passed
        <5> QED
          BY <5>1, <5>2, <5>3 DEF Settled, Passed
      <4> QED
        BY <4>1, <4>2
    <3>4. ASSUME NEW v \in Workers PROVE lost'[v] <= lost[v]
      BY <3>1, <1>t
    <3> QED
      BY <3>3, <3>4, <1>0 DEF StallInv
  <2>6. CASE Refuse(w, n)
    <3>1. /\ dial_tasks' = dial_tasks /\ KeyTaken(c, t, n)
          /\ lost'[w] = lost[w] + 1 /\ \A v \in Workers \ {w} : lost'[v] = lost[v]
      BY <2>6, <1>t DEF Refuse, rows
    <3>2. TasksOf(c, t) # {} /\ \A b, s : TasksOf(b, s)' = TasksOf(b, s)
      BY <3>1 DEF KeyTaken, TasksOf
    <3>3. k0 \in Settled(w)'
      BY <2>2, <2>3, <3>2, <1>t, <1>n DEF Settled, Passed, Ticks
    <3>4. \A k \in Campaigns \X Ticks :
             k \in Settled(w)' <=> k \in Settled(w) \cup {k0}
      <4> TAKE k \in Campaigns \X Ticks
      <4>1. k = k0 <=> (k[1] = c /\ k[2] = t)
        BY <2>3
      <4> QED
        BY <2>2, <3>2, <3>3, <4>1, <1>n DEF Settled, Passed
    <3>5. Settled(w)' = Settled(w) \cup {k0}
      BY <2>3, <3>4 DEF Settled, Passed
    <3>6. lost'[w] <= lost[w] + 1
      BY <3>1, <1>t
    <3>7. IsFiniteSet(Settled(w)') /\ lost'[w] <= Cardinality(Settled(w)')
      BY <2>4, <3>3, <3>5, <3>6, <1>0
    <3> QED
      BY <2>2, <3>1, <3>7, <1>s, <1>k DEF StallInv
  <2> QED
    BY <2>1, <2>5, <2>6
<1>5. CASE UNCHANGED vars
  <2>1. UNCHANGED <<dial_tasks, tick_counter, deciding, lost>>
    BY <1>5 DEF vars, memory, rows
  <2> QED
    BY <2>1, <1>s, <1>k DEF StallInv
<1> QED
  BY <1>1, <1>2, <1>3, <1>4, <1>5 DEF Next, Loop

\* A restart costs a process no more rounds than its counters have passed numbers that
\* calls were approved under (pacing_worker.py:63, 110-126).
THEOREM RestartsCostFewRounds == Spec => []StallIsShort
<1>1. TypeOK /\ StallInv => StallIsShort
  <2> SUFFICES ASSUME TypeOK, StallInv, NEW w \in Workers
               PROVE  lost[w] <= Cardinality(Passed(w))
    BY DEF StallIsShort, Passed
  <2> DEFINE k0 == <<deciding[w], tick_counter[w][deciding[w]]>>
  <2>1. Passed(w) \in {Settled(w), Settled(w) \cup {k0}}
    <3>1. \A k \in Passed(w) : k \in Settled(w) \/ k = k0
      <4> SUFFICES ASSUME NEW k \in Passed(w), k \notin Settled(w) PROVE k = k0
        OBVIOUS
      <4>1. k = <<k[1], k[2]>>
        BY DEF Passed
      <4> QED
        BY <4>1 DEF Settled
    <3>2. Settled(w) \subseteq Passed(w)
      BY DEF Settled
    <3> QED
      BY <3>1, <3>2
  <2>2. /\ IsFiniteSet(Settled(w)) /\ lost[w] <= Cardinality(Settled(w)) /\ lost[w] \in Nat
    BY DEF StallInv, TypeOK
  <2> HIDE DEF k0
  <2>3. /\ Cardinality(Settled(w)) \in Nat
        /\ Cardinality(Settled(w) \cup {k0})
              \in {Cardinality(Settled(w)), Cardinality(Settled(w)) + 1}
    BY <2>2, FS_CardinalityType, FS_AddElement
  <2> QED
    BY <2>1, <2>2, <2>3
<1>2. DecisionsInv => TypeOK
  BY DEF DecisionsInv
<1>3. DecisionsInv /\ StallInv /\ [Next]_vars => StallInv'
  BY <1>2, DecisionsStep, StallStep DEF DecisionsInv
<1> QED
  BY <1>1, <1>2, <1>3, DecisionsInit, DecisionsStep, StallInit, PTL DEF Spec
=============================================================================
