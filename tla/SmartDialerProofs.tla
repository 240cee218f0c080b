------------------------- MODULE SmartDialerProofs -------------------------
(***************************************************************************)
(* Theorems about SmartDialer, for any numbers of agents, borrowers, tasks,*)
(* calls, workers and ingesters, and for every value of the switches.      *)
(***************************************************************************)
EXTENDS SmartDialer, FiniteSetTheorems, TLAPS

-----------------------------------------------------------------------------
(* The call machine.                                                       *)

\* The machine never leaves its own states.
LEMMA NextStateType ==
    ASSUME NEW current \in CallStates, NEW event
    PROVE  NextState(current, event) \in CallStates
<1>1. \A row \in CallTransitions : row[3] \in CallStates
  BY DEF CallTransitions, CallStates
<1>2. CASE ~Applies(current, event)
  BY <1>2 DEF NextState
<1>3. CASE Applies(current, event) /\ event \in {"complete", "completed"}
  BY <1>3 DEF NextState, CallStates
<1>4. CASE Applies(current, event) /\ event \notin {"complete", "completed"}
  <2>1. RowsFor(current, event) # {}
    BY <1>4 DEF Applies
  <2>2. (CHOOSE row \in RowsFor(current, event) : TRUE) \in CallTransitions
    BY <2>1 DEF RowsFor
  <2> QED
    BY <1>1, <1>4, <2>2 DEF NextState
<1> QED
  BY <1>2, <1>3, <1>4

\* An event changes nothing in a call that has ended.  (The transactions that
\* apply events keep this promise only if they do not overlap: MCLateEvent.)
THEOREM TerminalAbsorbs ==
    ASSUME NEW current \in TerminalCallStates, NEW event
    PROVE  NextState(current, event) = current
BY DEF NextState, Applies

\* COMPLETED ends every call that has not ended, whatever was lost before it.
THEOREM CompletedEnds ==
    ASSUME NEW current \in CallStates
    PROVE  NextState(current, "complete") \in TerminalCallStates
BY DEF NextState, Applies, TerminalCallStates

-----------------------------------------------------------------------------
(* Type correctness.                                                       *)

\* The rows that the reservation statements may return are rows.
LEMMA EligibleAreRows ==
    EligibleAgents \subseteq Agents /\ EligibleBorrowers \subseteq Borrowers
BY DEF EligibleAgents, EligibleBorrowers

\* What the processes write to a row leaves it a row.
LEMMA AgentRowType ==
    ASSUME NEW row \in AgentRows, NEW s \in AgentStatuses, NEW l \in Leases
    PROVE  /\ Cleared(row, s) \in AgentRows
           /\ [row EXCEPT !.status = s] \in AgentRows
           /\ [row EXCEPT !.lease = l] \in AgentRows
           /\ [row EXCEPT !.status = s, !.lease = l] \in AgentRows
BY DEF AgentRows, Cleared, Leases

\* A new lease, or one more attempt, leaves a borrower's row a row.
LEMMA BorrowerRowType ==
    ASSUME NEW row \in BorrowerRows, NEW l \in Leases
    PROVE  /\ [row EXCEPT !.lease = l] \in BorrowerRows
           /\ [row EXCEPT !.call_count = @ + 1, !.lease = l] \in BorrowerRows
<1>1. [row EXCEPT !.lease = l] \in BorrowerRows
  BY DEF BorrowerRows
<1>2. \A n \in Nat : [row EXCEPT !.call_count = n, !.lease = l] \in BorrowerRows
  BY DEF BorrowerRows
<1>3. row.call_count + 1 \in Nat
  BY DEF BorrowerRows
<1> QED
  BY <1>1, <1>2, <1>3

\* So does a new state a call's.
LEMMA CallRowType ==
    ASSUME NEW row \in CallRows, NEW s \in CallStates
    PROVE  /\ [row EXCEPT !.state = s] \in CallRows
           /\ \A a \in Agents : [row EXCEPT !.state = s, !.agent = a] \in CallRows
BY DEF CallRows

\* The locals of a worker that is idle, moves on or has placed a call
LEMMA WorkerRowType ==
    ASSUME NEW row \in WorkerRows, NEW p \in WorkerPcs
    PROVE  /\ Idle \in WorkerRows
           /\ \A t \in Tasks : [Idle EXCEPT !.pc = p, !.task = t] \in WorkerRows
           /\ [row EXCEPT !.pc = p] \in WorkerRows
           /\ \A a \in Agents : [row EXCEPT !.pc = p, !.agent = a] \in WorkerRows
           /\ \A b \in Borrowers : [row EXCEPT !.pc = p, !.borrower = b] \in WorkerRows
           /\ \A c \in Calls : [row EXCEPT !.pc = p, !.call = c] \in WorkerRows
BY DEF WorkerRows, WorkerPcs, Idle

\* The first rows have their types.
LEMMA TypeInit == Init => TypeOK
<1> SUFFICES ASSUME Init PROVE TypeOK
  OBVIOUS
<1> USE DEF Init
<1>1. SchemaTypeOK
  BY DEF SchemaTypeOK, AgentRows, BorrowerRows, CallRows, AgentStatuses, Leases,
         Heartbeats, TaskStates, NoCall
<1>2. WorkerTypeOK
  BY DEF WorkerTypeOK, WorkerInit, WorkerRows, LegRows, Idle, WorkerPcs, NoLeg
<1>3. IngestTypeOK
  BY DEF IngestTypeOK, IngestInit, Resting, CallRows, NoCall, Leases
<1> QED
  BY <1>1, <1>2, <1>3 DEF TypeOK

\* A step of a worker keeps the types.
LEMMA TypeWorker ==
    ASSUME TypeOK, NEW w \in Workers,
           \/ ClaimTask(w) /\ UNCHANGED ing
           \/ WorkerStep(w) /\ UNCHANGED ing
           \/ WorkerCrash(w) /\ UNCHANGED ing
    PROVE  TypeOK'
<1> USE DEF TypeOK, SchemaTypeOK, WorkerTypeOK
<1> /\ wk[w] \in WorkerRows
    /\ wk[w].task \in Tasks \cup {Null}
    /\ wk[w].agent \in Agents \cup {Null}
    /\ wk[w].borrower \in Borrowers \cup {Null}
    /\ wk[w].call \in Calls \cup {Null}
  BY DEF WorkerRows
<1> /\ {"live", "null"} \subseteq Leases
    /\ {"AVAILABLE", "RESERVED", "DIALING"} \subseteq AgentStatuses
    /\ {"PENDING", "PROCESSING", "DISPATCHED", "FAILED"} \subseteq TaskStates
    /\ {"claimed", "agent_held", "ready", "placed", "failed"} \subseteq WorkerPcs
    /\ "INITIATED" \in CallStates
  BY DEF Leases, AgentStatuses, TaskStates, WorkerPcs, CallStates
<1>i. IngestTypeOK'
  BY DEF IngestTypeOK
<1>l. ASSUME NEW c \in Calls, PlaceLeg(w, c)
      PROVE  leg' \in [Calls -> LegRows]
  BY <1>l DEF PlaceLeg, LegRows
<1>1. CASE ClaimTask(w)
  <2>1. PICK t \in Tasks :
             /\ task' = [task EXCEPT ![t] = "PROCESSING"]
             /\ wk' = [wk EXCEPT ![w] = [Idle EXCEPT !.pc = "claimed", !.task = t]]
    BY <1>1 DEF ClaimTask
  <2>2. [Idle EXCEPT !.pc = "claimed", !.task = t] \in WorkerRows
    BY WorkerRowType
  <2> QED
    BY <1>1, <1>i, <2>1, <2>2 DEF ClaimTask
<1>2. CASE ReserveAgent(w)
  <2>1. PICK a \in Agents :
             /\ agent' = [agent EXCEPT ![a].status = "RESERVED", ![a].lease = "live"]
             /\ wk' = [wk EXCEPT ![w].pc = "agent_held", ![w].agent = a]
    BY <1>2, EligibleAreRows DEF ReserveAgent
  <2>2. agent' \in [Agents -> AgentRows]
    BY <2>1, AgentRowType
  <2>3. wk' \in [Workers -> WorkerRows]
    BY <2>1, WorkerRowType
  <2> QED
    BY <1>2, <1>i, <2>2, <2>3 DEF ReserveAgent
<1>3. CASE AgentNotFound(w)
  BY <1>3, <1>i, WorkerRowType DEF AgentNotFound
<1>4. CASE ReserveBorrower(w)
  <2>1. PICK b \in Borrowers :
             /\ borrower' = [borrower EXCEPT ![b].call_count = @ + 1,
                                             ![b].lease = "live"]
             /\ wk' = [wk EXCEPT ![w].pc = "ready", ![w].borrower = b]
    BY <1>4, EligibleAreRows DEF ReserveBorrower
  <2>2. borrower' \in [Borrowers -> BorrowerRows]
    BY <2>1, BorrowerRowType
  <2>3. wk' \in [Workers -> WorkerRows]
    BY <2>1, WorkerRowType
  <2> QED
    BY <1>4, <1>i, <2>2, <2>3 DEF ReserveBorrower
<1>5. CASE BorrowerNotFound(w)
  BY <1>5, <1>i, AgentRowType, WorkerRowType DEF BorrowerNotFound
<1>6. CASE OriginateAccepted(w)
  <2>1. PICK c \in Calls :
             /\ PlaceLeg(w, c)
             /\ wk' = [wk EXCEPT ![w].pc = "placed", ![w].call = c]
    BY <1>6 DEF OriginateAccepted
  <2>2. wk' \in [Workers -> WorkerRows]
    BY <2>1, WorkerRowType
  <2> QED
    BY <1>6, <1>i, <1>l, <2>1, <2>2 DEF OriginateAccepted
<1>7. CASE OriginateRefused(w)
  BY <1>7, <1>i, WorkerRowType DEF OriginateRefused
<1>8. CASE OriginateReplyLost(w)
  BY <1>8, <1>i, <1>l, WorkerRowType DEF OriginateReplyLost
<1>9. CASE CommitDispatch(w)
  <2>1. [state |-> "INITIATED", agent |-> wk[w].agent, borrower |-> wk[w].borrower,
         lease |-> "null"] \in CallRows
    BY DEF CallRows
  <2> QED
    BY <1>9, <1>i, <2>1, AgentRowType, WorkerRowType DEF CommitDispatch
<1>10. CASE DispatchRolledBack(w)
  BY <1>10, <1>i, WorkerRowType DEF DispatchRolledBack
<1>11. CASE CommitFailure(w)
  BY <1>11, <1>i, AgentRowType, BorrowerRowType, WorkerRowType DEF CommitFailure
<1>12. CASE WorkerCrash(w)
  BY <1>12, <1>i, WorkerRowType DEF WorkerCrash
<1> QED
  BY <1>1, <1>2, <1>3, <1>4, <1>5, <1>6, <1>7, <1>8, <1>9, <1>10, <1>11, <1>12
     DEF WorkerStep

\* The row an ingester read and the event it holds are typed, and so is what
\* the machine makes of them.
LEMMA IngestFacts ==
    ASSUME TypeOK, NEW i \in Ingesters
    PROVE  /\ ing[i].row \in CallRows
           /\ Busy(i) => ing[i].event \in EventIds /\ ing[i].event[1] \in Calls
           /\ Applied(i) => NewState(i) \in CallStates
<1>1. ing[i].row \in CallRows /\ ing[i].event \in EventIds \cup {<<>>}
  BY DEF TypeOK, IngestTypeOK
<1>2. Busy(i) => ing[i].event \in EventIds /\ ing[i].event[1] \in Calls
  BY <1>1 DEF Busy, EventIds
<1>3. Applied(i) => ing[i].row.state \in CallStates
  BY <1>1 DEF Applied, CallRows
<1> QED
  BY <1>1, <1>2, <1>3, NextStateType DEF NewState

\* Recording an event and setting the state of its call keep the types.
LEMMA TypeRecord ==
    ASSUME TypeOK, NEW i \in Ingesters, Record(i), UNCHANGED <<wk, leg>>,
           agent' \in [Agents -> AgentRows], call' \in [Calls -> CallRows]
    PROVE  TypeOK'
<1>1. ing' \in [Ingesters -> [event : EventIds \cup {<<>>}, row : CallRows]]
  <2>1. Resting \in [event : EventIds \cup {<<>>}, row : CallRows]
    BY DEF Resting, NoCall, CallRows, Leases
  <2> QED
    BY <2>1 DEF TypeOK, IngestTypeOK, Record
<1>2. seen' \subseteq EventIds
  BY IngestFacts DEF TypeOK, SchemaTypeOK, Record
<1> QED
  BY <1>1, <1>2 DEF TypeOK, SchemaTypeOK, WorkerTypeOK, IngestTypeOK, Record

\* An ingester's steps keep the types.
LEMMA TypeIngest ==
    ASSUME TypeOK, NEW i \in Ingesters,
           \/ \E e \in Arrivals : IngestRead(i, e) /\ UNCHANGED <<wk, leg>>
           \/ Ingest(i)
           \/ IngestAborted(i) /\ UNCHANGED <<wk, leg>>
    PROVE  TypeOK'
<1>a. agent \in [Agents -> AgentRows] /\ call \in [Calls -> CallRows]
  BY DEF TypeOK, SchemaTypeOK
<1>s. ASSUME Busy(i), Applied(i), SetCallState(i, NewState(i))
      PROVE  call' \in [Calls -> CallRows]
  <2> DEFINE c == ing[i].event[1]
  <2>1. c \in Calls /\ NewState(i) \in CallStates
    BY <1>s, IngestFacts
  <2>2. [call[c] EXCEPT !.state = NewState(i)] \in CallRows
    BY <1>a, <2>1, CallRowType
  <2>3. call' = [call EXCEPT ![c] = [call[c] EXCEPT !.state = NewState(i)]]
    BY <1>s DEF SetCallState
  <2> QED
    BY <1>a, <2>1, <2>2, <2>3
<1>1. CASE \E e \in Arrivals : IngestRead(i, e) /\ UNCHANGED <<wk, leg>>
  <2>1. PICK e \in Arrivals : IngestRead(i, e) /\ UNCHANGED <<wk, leg>>
    BY <1>1
  <2>2. e \in EventIds /\ e[1] \in Calls
    BY DialerAssumption DEF Arrivals, Legs, EventIds, EventTypes
  <2>3. [event |-> e, row |-> call[e[1]]] \in [event : EventIds \cup {<<>>}, row : CallRows]
    BY <1>a, <2>2
  <2> QED
    BY <2>1, <2>3 DEF TypeOK, SchemaTypeOK, WorkerTypeOK, IngestTypeOK, IngestRead
<1>2. CASE IngestIgnored(i) /\ UNCHANGED <<wk, leg>>
  BY <1>2, <1>a, TypeRecord DEF IngestIgnored
<1>3. CASE IngestAdvanced(i) /\ UNCHANGED <<wk, leg>>
  BY <1>3, <1>a, <1>s, TypeRecord DEF IngestAdvanced, Record
<1>4. CASE IngestAttached(i) /\ UNCHANGED <<wk, leg>>
  <2>1. PICK a \in FreeAgents :
             /\ agent' = [agent EXCEPT ![a] = Cleared(@, "CONNECTED")]
             /\ call' = [call EXCEPT ![ing[i].event[1]].state = "CONNECTED",
                                     ![ing[i].event[1]].agent = a]
    BY <1>4 DEF IngestAttached
  <2>2. a \in Agents
    BY DEF FreeAgents
  <2>3. agent' \in [Agents -> AgentRows]
    BY <1>a, <2>1, <2>2, AgentRowType DEF AgentStatuses, Leases
  <2>4. call' \in [Calls -> CallRows]
    BY <1>a, <1>4, <2>1, <2>2, IngestFacts, CallRowType
       DEF IngestAttached, Record, CallStates
  <2> QED
    BY <1>4, <2>3, <2>4, TypeRecord DEF IngestAttached
<1>5. CASE IngestUnattached(i) /\ UNCHANGED <<wk, leg>>
  <2>1. NewState(i) = "ANSWERED" /\ Busy(i)
    BY <1>5 DEF IngestUnattached, AnsweredUnbound, Record
  <2> QED
    BY <1>5, <1>a, <1>s, <2>1, TypeRecord DEF IngestUnattached
<1>6. CASE IngestEnded(i) /\ UNCHANGED <<wk, leg>>
  <2>1. agent' \in [Agents -> AgentRows]
    BY <1>6, <1>a, AgentRowType DEF IngestEnded, AgentStatuses, Leases
  <2> QED
    BY <1>6, <1>a, <1>s, <2>1, TypeRecord DEF IngestEnded, Record
<1>7. CASE IngestAborted(i) /\ UNCHANGED <<wk, leg>>
  <2>1. Resting \in [event : EventIds \cup {<<>>}, row : CallRows]
    BY DEF Resting, NoCall, CallRows, Leases
  <2> QED
    BY <1>7, <2>1 DEF TypeOK, SchemaTypeOK, WorkerTypeOK, IngestTypeOK, IngestAborted
<1> QED
  BY <1>1, <1>2, <1>3, <1>4, <1>5, <1>6, <1>7 DEF Ingest, IngestCommit

\* So does the reaper.
LEMMA TypeReaper ==
    ASSUME TypeOK, RunOnce, UNCHANGED <<wk, leg, ing>>
    PROVE  TypeOK'
<1>a. agent \in [Agents -> AgentRows]
  BY DEF TypeOK, SchemaTypeOK
<1>1. agent' \in [Agents -> AgentRows]
  <2>1. \A row \in AgentRows, s \in {"AVAILABLE", "OFFLINE"} : Cleared(row, s) \in AgentRows
    BY AgentRowType DEF AgentStatuses, Leases
  <2>2. \A row \in AgentRows : Reclaimed(row) \in AgentRows
    BY <2>1 DEF Reclaimed
  <2>3. \A row \in AgentRows : Offlined(row) \in AgentRows
    BY <2>1 DEF Offlined
  <2> QED
    BY <1>a, <2>2, <2>3 DEF RunOnce
<1> QED
  BY <1>1 DEF TypeOK, SchemaTypeOK, WorkerTypeOK, IngestTypeOK, RunOnce

\* So do time and heartbeats.
LEMMA TypeTime ==
    ASSUME TypeOK,
           \/ \E a \in Agents : AgentLeaseRunsOut(a) \/ HeartbeatGoesStale(a) \/ Heartbeat(a)
           \/ \E b \in Borrowers : BorrowerLeaseRunsOut(b)
    PROVE  TypeOK'
<1>a. agent \in [Agents -> AgentRows] /\ borrower \in [Borrowers -> BorrowerRows]
  BY DEF TypeOK, SchemaTypeOK
<1>1. ASSUME NEW a \in Agents, AgentLeaseRunsOut(a) PROVE TypeOK'
  <2>1. agent' \in [Agents -> AgentRows]
    BY <1>a, <1>1 DEF AgentLeaseRunsOut, AgentRows, Leases
  <2> QED
    BY <1>1, <2>1 DEF AgentLeaseRunsOut, TypeOK, SchemaTypeOK, WorkerTypeOK, IngestTypeOK
<1>2. ASSUME NEW a \in Agents, HeartbeatGoesStale(a) \/ Heartbeat(a) PROVE TypeOK'
  <2>1. agent' \in [Agents -> AgentRows]
    BY <1>a, <1>2 DEF HeartbeatGoesStale, Heartbeat, AgentRows, Heartbeats
  <2> QED
    BY <1>2, <2>1 DEF HeartbeatGoesStale, Heartbeat,
                      TypeOK, SchemaTypeOK, WorkerTypeOK, IngestTypeOK
<1>3. ASSUME NEW b \in Borrowers, BorrowerLeaseRunsOut(b) PROVE TypeOK'
  <2>1. borrower' \in [Borrowers -> BorrowerRows]
    BY <1>a, <1>3 DEF BorrowerLeaseRunsOut, BorrowerRows, Leases
  <2> QED
    BY <1>3, <2>1 DEF BorrowerLeaseRunsOut, TypeOK, SchemaTypeOK, WorkerTypeOK, IngestTypeOK
<1> QED
  BY <1>1, <1>2, <1>3

\* So does every step.
LEMMA TypeStep == TypeOK /\ [Next]_vars => TypeOK'
<1> SUFFICES ASSUME TypeOK, [Next]_vars PROVE TypeOK'
  OBVIOUS
<1>1. CASE UNCHANGED vars
  BY <1>1 DEF vars, TypeOK, SchemaTypeOK, WorkerTypeOK, IngestTypeOK
<1>2. CASE Next
  BY <1>2, TypeWorker, TypeIngest, TypeReaper, TypeTime DEF Next
<1> QED
  BY <1>1, <1>2

\* Every row the program writes is one its schema and its enums allow.
THEOREM TypeCorrect == Spec => []TypeOK
BY TypeInit, TypeStep, PTL DEF Spec

-----------------------------------------------------------------------------
(* The delivery of tasks.  What is promised (AtMostOnceOrigination,        *)
(* DispatchedIffRecorded, the abstract specification TaskDelivery) is not  *)
(* inductive: that a task is dialed once rests on who holds its claim and  *)
(* on how far the holder has come, and that a DISPATCHED task has its call *)
(* recorded rests on what an ingester may write back to a row it once read.*)

\* A busy worker holds a claimed task ...
ClaimsHeld ==
    \A w \in Workers : wk[w].pc # "idle"
        => wk[w].task \in Tasks /\ task[wk[w].task] = "PROCESSING"

\* ... that no other worker holds.
ClaimsExclusive ==
    \A w, x \in Workers :
        /\ wk[w].pc # "idle"
        /\ wk[x].pc # "idle"
        /\ wk[w].task = wk[x].task
        => w = x

\* Calls are placed for tasks, never for one that is still to be claimed ...
DialedForClaimed ==
    \A c \in Legs : leg[c].task \in Tasks /\ task[leg[c].task] # "PENDING"

\* ... nor for one whose worker has not come to originate; ...
UndialedUntilOriginate ==
    \A w \in Workers : wk[w].pc \in {"claimed", "agent_held", "ready"}
        => \A c \in Legs : leg[c].task # wk[w].task

\* ... and a worker told "ok" has the id of the call placed for its task.
PlacedIsDialed ==
    \A w \in Workers : wk[w].pc = "placed"
        => wk[w].call \in Legs /\ leg[wk[w].call].task = wk[w].task

\* A call row records a call that was placed, for a task that says so.
RecordedIsDispatched ==
    \A c \in Calls : call[c].state # "NONE"
        => c \in Legs /\ task[leg[c].task] = "DISPATCHED"

DispatchedIsRecorded ==
    \A t \in Tasks : task[t] = "DISPATCHED"
        => \E c \in Legs : leg[c].task = t /\ call[c].state # "NONE"

\* A row an ingester holds a copy of is still there.
ReadIsRecorded ==
    \A i \in Ingesters : Busy(i) /\ ing[i].row.state # "NONE"
        => call[ing[i].event[1]].state # "NONE"

DeliveryInv ==
    /\ TypeOK
    /\ ClaimsHeld
    /\ ClaimsExclusive
    /\ DialedForClaimed
    /\ UndialedUntilOriginate
    /\ PlacedIsDialed
    /\ AtMostOnceOrigination
    /\ RecordedIsDispatched
    /\ DispatchedIsRecorded
    /\ ReadIsRecorded

\* At the start nothing is claimed, dialed or recorded.
LEMMA DeliveryInit == Init => DeliveryInv
<1> SUFFICES ASSUME Init PROVE DeliveryInv
  OBVIOUS
<1>1. Legs = {} /\ \A c \in Calls : call[c].state = "NONE"
  BY DEF Init, WorkerInit, Legs, NoCall
<1>2. \A w \in Workers : wk[w].pc = "idle"
  BY DEF Init, WorkerInit, Idle
<1>3. \A i \in Ingesters : ing[i].row.state = "NONE"
  BY DEF Init, IngestInit, Resting, NoCall
<1>4. \A t \in Tasks : task[t] = "PENDING"
  BY DEF Init
<1> QED
  BY <1>1, <1>2, <1>3, <1>4, TypeInit
     DEF DeliveryInv, ClaimsHeld, ClaimsExclusive, DialedForClaimed,
         UndialedUntilOriginate, PlacedIsDialed, AtMostOnceOrigination,
         RecordedIsDispatched, DispatchedIsRecorded, ReadIsRecorded

\* The parts of the invariant that speak of workers, tasks and calls only
\* notice a step that changes one of those, or that adds or removes a call row.
LEMMA DeliveryFrame ==
    ASSUME DeliveryInv, TypeOK', UNCHANGED <<wk, leg, task>>,
           \A c \in Calls : call'[c].state = "NONE" <=> call[c].state = "NONE",
           ReadIsRecorded'
    PROVE  DeliveryInv'
<1> USE DEF DeliveryInv
<1>1. Legs' = Legs
  BY DEF Legs
<1>2. ClaimsHeld' /\ ClaimsExclusive'
  BY DEF ClaimsHeld, ClaimsExclusive
<1>3. DialedForClaimed' /\ UndialedUntilOriginate' /\ PlacedIsDialed' /\ AtMostOnceOrigination'
  BY <1>1 DEF DialedForClaimed, UndialedUntilOriginate, PlacedIsDialed,
              AtMostOnceOrigination
<1>4. RecordedIsDispatched'
  BY <1>1 DEF RecordedIsDispatched
<1>5. DispatchedIsRecorded'
  <2> SUFFICES ASSUME NEW t \in Tasks, task[t] = "DISPATCHED"
               PROVE  \E c \in Legs : leg[c].task = t /\ call'[c].state # "NONE"
    BY <1>1 DEF DispatchedIsRecorded
  <2>1. PICK c \in Legs : leg[c].task = t /\ call[c].state # "NONE"
    BY DEF DispatchedIsRecorded
  <2> QED
    BY <2>1 DEF Legs
<1> QED
  BY <1>2, <1>3, <1>4, <1>5

\* An ingester writes only rows that exist.
LEMMA DeliveryIngest ==
    ASSUME DeliveryInv, NEW i \in Ingesters,
           \/ \E e \in Arrivals : IngestRead(i, e) /\ UNCHANGED <<wk, leg>>
           \/ Ingest(i)
           \/ IngestAborted(i) /\ UNCHANGED <<wk, leg>>
    PROVE  DeliveryInv'
<1>t. TypeOK /\ TypeOK'
  BY TypeIngest DEF DeliveryInv
<1>a. /\ call \in [Calls -> CallRows]
      /\ ing \in [Ingesters -> [event : EventIds \cup {<<>>}, row : CallRows]]
  BY <1>t DEF TypeOK, SchemaTypeOK, IngestTypeOK
<1>b. ReadIsRecorded
  BY DEF DeliveryInv
<1>r. ASSUME Record(i), UNCHANGED <<wk, leg>>,
             \A c \in Calls : call'[c].state = "NONE" <=> call[c].state = "NONE"
      PROVE  DeliveryInv'
  <2>1. UNCHANGED <<wk, leg, task>>
    BY <1>r DEF Record
  <2>2. ReadIsRecorded'
    <3> SUFFICES ASSUME NEW j \in Ingesters, Busy(j)', ing'[j].row.state # "NONE"
                 PROVE  call'[ing'[j].event[1]].state # "NONE"
      BY DEF ReadIsRecorded
    <3>1. j # i
      BY <1>a, <1>r DEF Record, Busy, Resting
    <3>2. ing'[j] = ing[j] /\ Busy(j)
      BY <1>a, <1>r, <3>1 DEF Record, Busy
    <3> QED
      BY <1>b, <1>r, <1>t, <3>2, IngestFacts DEF ReadIsRecorded
  <2> QED
    BY <1>r, <1>t, <2>1, <2>2, DeliveryFrame
<1>s. ASSUME NEW s \in CallStates, Busy(i), Applied(i), SetCallState(i, s)
      PROVE  \A c \in Calls : call'[c].state = "NONE" <=> call[c].state = "NONE"
  <2>1. call[ing[i].event[1]].state # "NONE" /\ ing[i].event[1] \in Calls
    BY <1>b, <1>s, <1>t, IngestFacts DEF ReadIsRecorded, Applied
  <2>2. s # "NONE"
    BY DEF CallStates
  <2> QED
    BY <1>a, <1>s, <2>1, <2>2 DEF SetCallState, CallRows
<1>1. CASE \E e \in Arrivals : IngestRead(i, e) /\ UNCHANGED <<wk, leg>>
  <2>1. PICK e \in Arrivals : IngestRead(i, e) /\ UNCHANGED <<wk, leg>>
    BY <1>1
  <2>2. ReadIsRecorded'
    BY <1>a, <1>b, <2>1 DEF ReadIsRecorded, IngestRead, Busy
  <2> QED
    BY <1>t, <2>1, <2>2, DeliveryFrame DEF IngestRead
<1>2. CASE IngestIgnored(i) /\ UNCHANGED <<wk, leg>>
  BY <1>2, <1>r DEF IngestIgnored
<1>3. CASE IngestAdvanced(i) /\ UNCHANGED <<wk, leg>>
  BY <1>3, <1>r, <1>s, <1>t, IngestFacts DEF IngestAdvanced, Record
<1>4. CASE IngestAttached(i) /\ UNCHANGED <<wk, leg>>
  <2>1. call[ing[i].event[1]].state # "NONE" /\ ing[i].event[1] \in Calls
    BY <1>b, <1>t, <1>4, IngestFacts DEF ReadIsRecorded, Applied, IngestAttached, Record
  <2>2. PICK a \in FreeAgents :
           call' = [call EXCEPT ![ing[i].event[1]].state = "CONNECTED",
                                ![ing[i].event[1]].agent = a]
    BY <1>4 DEF IngestAttached
  <2>3. \A c \in Calls : call'[c].state = "NONE" <=> call[c].state = "NONE"
    BY <1>a, <2>1, <2>2 DEF CallRows
  <2> QED
    BY <1>4, <1>r, <2>3 DEF IngestAttached
<1>5. CASE IngestUnattached(i) /\ UNCHANGED <<wk, leg>>
  BY <1>5, <1>r, <1>s DEF IngestUnattached, Record, CallStates
<1>6. CASE IngestEnded(i) /\ UNCHANGED <<wk, leg>>
  BY <1>6, <1>r, <1>s, <1>t, IngestFacts DEF IngestEnded, Record
<1>7. CASE IngestAborted(i) /\ UNCHANGED <<wk, leg>>
  <2>1. ReadIsRecorded'
    BY <1>a, <1>b, <1>7 DEF ReadIsRecorded, IngestAborted, Busy, Resting
  <2> QED
    BY <1>t, <1>7, <2>1, DeliveryFrame DEF IngestAborted
<1> QED
  BY <1>1, <1>2, <1>3, <1>4, <1>5, <1>6, <1>7 DEF Ingest, IngestCommit

\* The reaper touches no task, worker or call.
LEMMA DeliveryReaper ==
    ASSUME DeliveryInv, RunOnce, UNCHANGED <<wk, leg, ing>>
    PROVE  DeliveryInv'
<1>t. TypeOK /\ TypeOK'
  BY TypeReaper DEF DeliveryInv
<1>1. ReadIsRecorded'
  BY DEF RunOnce, DeliveryInv, ReadIsRecorded, Busy
<1> QED
  BY <1>t, <1>1, DeliveryFrame DEF RunOnce

\* Time and heartbeats touch no task, worker or call.
LEMMA DeliveryTime ==
    ASSUME DeliveryInv,
           \/ \E a \in Agents : AgentLeaseRunsOut(a) \/ HeartbeatGoesStale(a) \/ Heartbeat(a)
           \/ \E b \in Borrowers : BorrowerLeaseRunsOut(b)
    PROVE  DeliveryInv'
<1>1. UNCHANGED <<task, call, wk, leg, ing>>
  BY DEF AgentLeaseRunsOut, HeartbeatGoesStale, Heartbeat, BorrowerLeaseRunsOut
<1>2. TypeOK'
  BY TypeTime DEF DeliveryInv
<1>3. ReadIsRecorded'
  BY <1>1 DEF DeliveryInv, ReadIsRecorded, Busy
<1> QED
  BY <1>1, <1>2, <1>3, DeliveryFrame

\* A step that moves worker w only, places no call and records none.
LEMMA DeliveryMove ==
    ASSUME DeliveryInv, NEW w \in Workers, TypeOK',
           \A x \in Workers \ {w} : wk'[x] = wk[x],
           UNCHANGED <<leg, call, ing>>,
           ClaimsHeld', ClaimsExclusive', UndialedUntilOriginate',
           \A t \in Tasks : task'[t] = "DISPATCHED" <=> task[t] = "DISPATCHED",
           \A t \in Tasks : task'[t] = "PENDING" /\ task[t] # "PENDING"
                              => \A c \in Legs : leg[c].task # t,
           wk'[w].pc # "placed"
    PROVE  DeliveryInv'
<1> USE DEF DeliveryInv
<1>1. Legs' = Legs
  BY DEF Legs
<1>2. DialedForClaimed'
  <2> SUFFICES ASSUME NEW c \in Legs
               PROVE  leg[c].task \in Tasks /\ task'[leg[c].task] # "PENDING"
    BY <1>1 DEF DialedForClaimed
  <2> QED
    BY DEF DialedForClaimed
<1>3. PlacedIsDialed'
  BY <1>1 DEF PlacedIsDialed
<1>4. AtMostOnceOrigination'
  BY <1>1 DEF AtMostOnceOrigination
<1>5. RecordedIsDispatched'
  <2> SUFFICES ASSUME NEW c \in Calls, call[c].state # "NONE"
               PROVE  c \in Legs /\ task'[leg[c].task] = "DISPATCHED"
    BY <1>1 DEF RecordedIsDispatched
  <2> QED
    BY DEF RecordedIsDispatched, DialedForClaimed
<1>6. DispatchedIsRecorded'
  <2> SUFFICES ASSUME NEW t \in Tasks, task[t] = "DISPATCHED"
               PROVE  \E c \in Legs : leg[c].task = t /\ call[c].state # "NONE"
    BY <1>1 DEF DispatchedIsRecorded
  <2> QED
    BY DEF DispatchedIsRecorded
<1>7. ReadIsRecorded'
  BY DEF ReadIsRecorded, Busy
<1> QED
  BY <1>2, <1>3, <1>4, <1>5, <1>6, <1>7

\* originate has placed call c for the task of w, which had none.
LEMMA DeliveryDial ==
    ASSUME DeliveryInv, NEW w \in Workers, TypeOK', NEW c \in Calls,
           wk[w].pc = "ready", PlaceLeg(w, c), UNCHANGED <<task, call, ing>>,
           \A x \in Workers \ {w} : wk'[x] = wk[x],
           wk'[w].task = wk[w].task,
           wk'[w].pc \in {"failed", "placed"},
           wk'[w].pc = "placed" => wk'[w].call = c
    PROVE  DeliveryInv'
<1> USE DEF DeliveryInv
<1> DEFINE t == wk[w].task
<1>1. t \in Tasks /\ task[t] = "PROCESSING" /\ t # Null
  BY SchemaAssumption DEF ClaimsHeld
<1>2. /\ c \notin Legs
      /\ leg'[c].task = t
      /\ \A d \in Calls \ {c} : leg'[d] = leg[d]
      /\ Legs' = Legs \cup {c}
  <2>1. leg' = [leg EXCEPT ![c] = [task |-> t, agent |-> wk[w].agent,
                                   borrower |-> wk[w].borrower]]
        /\ leg[c] = NoLeg
    BY DEF PlaceLeg
  <2>2. leg'[c].task = t /\ \A d \in Calls \ {c} : leg'[d] = leg[d]
    BY <2>1 DEF TypeOK, WorkerTypeOK
  <2>3. leg'[c] # NoLeg
    BY <1>1, <2>2 DEF NoLeg
  <2> QED
    BY <2>1, <2>2, <2>3 DEF Legs
<1>3. \A d \in Legs : leg[d].task # t
  BY DEF UndialedUntilOriginate
<1>4. ClaimsHeld' /\ ClaimsExclusive'
  BY DEF ClaimsHeld, ClaimsExclusive
<1>5. DialedForClaimed'
  BY <1>1, <1>2 DEF DialedForClaimed, Legs
<1>6. UndialedUntilOriginate'
  <2> SUFFICES ASSUME NEW x \in Workers, wk'[x].pc \in {"claimed", "agent_held", "ready"},
                      NEW d \in Legs'
               PROVE  leg'[d].task # wk'[x].task
    BY DEF UndialedUntilOriginate
  <2>1. x # w /\ wk'[x] = wk[x]
    OBVIOUS
  <2>2. wk[x].task # t
    BY <2>1 DEF ClaimsExclusive
  <2> QED
    BY <1>2, <2>1, <2>2 DEF UndialedUntilOriginate, Legs
<1>7. PlacedIsDialed'
  <2> SUFFICES ASSUME NEW x \in Workers, wk'[x].pc = "placed"
               PROVE  wk'[x].call \in Legs' /\ leg'[wk'[x].call].task = wk'[x].task
    BY DEF PlacedIsDialed
  <2>1. CASE x = w
    BY <1>2, <2>1
  <2>2. CASE x # w
    BY <1>2, <2>2 DEF PlacedIsDialed, Legs
  <2> QED
    BY <2>1, <2>2
<1>8. AtMostOnceOrigination'
  BY <1>2, <1>3 DEF AtMostOnceOrigination, Legs
<1>9. RecordedIsDispatched'
  BY <1>2 DEF RecordedIsDispatched, Legs
<1>10. DispatchedIsRecorded'
  BY <1>2 DEF DispatchedIsRecorded, Legs
<1>11. ReadIsRecorded'
  BY DEF ReadIsRecorded, Busy
<1> QED
  BY <1>4, <1>5, <1>6, <1>7, <1>8, <1>9, <1>10, <1>11

\* The commit that records the call of w and marks its task.
LEMMA DeliveryDispatch ==
    ASSUME DeliveryInv, NEW w \in Workers, TypeOK', CommitDispatch(w), UNCHANGED ing
    PROVE  DeliveryInv'
<1> USE DEF DeliveryInv
<1> DEFINE t == wk[w].task
           c == wk[w].call
<1>1. /\ t \in Tasks
      /\ task[t] = "PROCESSING"
      /\ c \in Legs
      /\ leg[c].task = t
  BY DEF CommitDispatch, ClaimsHeld, PlacedIsDialed
<1>2. /\ \A d \in Calls \ {c} : call'[d] = call[d]
      /\ call'[c].state # "NONE"
      /\ \A u \in Tasks \ {t} : task'[u] = task[u]
      /\ task'[t] = "DISPATCHED"
      /\ \A x \in Workers \ {w} : wk'[x] = wk[x]
      /\ wk'[w] = Idle
      /\ UNCHANGED leg
  BY <1>1 DEF CommitDispatch, TypeOK, SchemaTypeOK, WorkerTypeOK, Legs
<1>3. Legs' = Legs
  BY <1>2 DEF Legs
<1>4. ClaimsHeld' /\ ClaimsExclusive'
  BY <1>1, <1>2 DEF ClaimsHeld, ClaimsExclusive, Idle, CommitDispatch
<1>5. DialedForClaimed'
  BY <1>1, <1>2, <1>3 DEF DialedForClaimed
<1>6. UndialedUntilOriginate' /\ PlacedIsDialed'
  BY <1>2, <1>3 DEF UndialedUntilOriginate, PlacedIsDialed, Idle
<1>7. AtMostOnceOrigination'
  BY <1>2, <1>3 DEF AtMostOnceOrigination
<1>8. RecordedIsDispatched'
  BY <1>1, <1>2, <1>3 DEF RecordedIsDispatched, DialedForClaimed
<1>9. DispatchedIsRecorded'
  <2> SUFFICES ASSUME NEW u \in Tasks, task'[u] = "DISPATCHED"
               PROVE  \E d \in Legs : leg[d].task = u /\ call'[d].state # "NONE"
    BY <1>2, <1>3 DEF DispatchedIsRecorded
  <2>1. CASE u = t
    BY <1>1, <1>2, <2>1
  <2>2. CASE u # t
    BY <1>2, <2>2 DEF DispatchedIsRecorded, Legs
  <2> QED
    BY <2>1, <2>2
<1>10. ReadIsRecorded'
  BY <1>2, IngestFacts DEF ReadIsRecorded, Busy
<1> QED
  BY <1>4, <1>5, <1>6, <1>7, <1>8, <1>9, <1>10

\* Each of a worker's steps keeps the invariant, its crash included.
LEMMA DeliveryWorker ==
    ASSUME DeliveryInv, NEW w \in Workers,
           \/ ClaimTask(w) /\ UNCHANGED ing
           \/ WorkerStep(w) /\ UNCHANGED ing
           \/ WorkerCrash(w) /\ UNCHANGED ing
    PROVE  DeliveryInv'
<1>t. TypeOK /\ TypeOK'
  BY TypeWorker DEF DeliveryInv
<1>a. /\ wk \in [Workers -> WorkerRows]
      /\ task \in [Tasks -> TaskStates]
  BY <1>t DEF TypeOK, SchemaTypeOK, WorkerTypeOK
<1>h. wk[w].pc # "idle" => wk[w].task \in Tasks /\ task[wk[w].task] = "PROCESSING"
  BY DEF DeliveryInv, ClaimsHeld
\* w goes on with its task in hand, before or after the call.
<1>n. ASSUME NEW p \in {"agent_held", "ready", "failed"},
             wk[w].pc # "idle",
             p # "failed" => wk[w].pc \in {"claimed", "agent_held", "ready"},
             wk'[w].pc = p, wk'[w].task = wk[w].task,
             \A x \in Workers \ {w} : wk'[x] = wk[x],
             UNCHANGED <<task, leg, call, ing>>
      PROVE  DeliveryInv'
  <2>1. ClaimsHeld' /\ ClaimsExclusive'
    BY <1>n DEF DeliveryInv, ClaimsHeld, ClaimsExclusive
  <2>2. UndialedUntilOriginate'
    BY <1>n DEF DeliveryInv, UndialedUntilOriginate, Legs
  <2> QED
    BY <1>n, <1>t, <2>1, <2>2, DeliveryMove
\* w is done with its task, which is left as it is, failed or returned.
<1>d. ASSUME wk[w].pc # "idle", wk' = [wk EXCEPT ![w] = Idle],
             UNCHANGED <<leg, call, ing>>,
             \/ UNCHANGED task
             \/ task' = [task EXCEPT ![wk[w].task] = "FAILED"]
             \/ /\ task' = [task EXCEPT ![wk[w].task] = "PENDING"]
                /\ wk[w].pc \in {"claimed", "agent_held", "ready"}
      PROVE  DeliveryInv'
  <2>1. wk'[w].pc = "idle" /\ \A x \in Workers \ {w} : wk'[x] = wk[x]
    BY <1>a, <1>d DEF Idle
  <2>2. \A u \in Tasks \ {wk[w].task} : task'[u] = task[u]
    BY <1>a, <1>d
  <2>3. ClaimsHeld' /\ ClaimsExclusive'
    BY <1>d, <2>1, <2>2 DEF DeliveryInv, ClaimsHeld, ClaimsExclusive
  <2>4. UndialedUntilOriginate'
    BY <1>d, <2>1 DEF DeliveryInv, UndialedUntilOriginate, Legs
  <2>5. \A u \in Tasks : /\ task'[u] = "DISPATCHED" <=> task[u] = "DISPATCHED"
                         /\ task'[u] = "PENDING" /\ task[u] # "PENDING"
                              => \A c \in Legs : leg[c].task # u
    BY <1>a, <1>d, <1>h DEF DeliveryInv, UndialedUntilOriginate
  <2> QED
    BY <1>d, <1>t, <2>1, <2>3, <2>4, <2>5, DeliveryMove
<1>1. CASE ClaimTask(w) /\ UNCHANGED ing
  <2>1. PICK t \in Tasks :
             /\ task[t] = "PENDING"
             /\ task' = [task EXCEPT ![t] = "PROCESSING"]
             /\ wk' = [wk EXCEPT ![w] = [Idle EXCEPT !.pc = "claimed", !.task = t]]
    BY <1>1 DEF ClaimTask
  <2>2. /\ wk'[w].pc = "claimed" /\ wk'[w].task = t
        /\ \A x \in Workers \ {w} : wk'[x] = wk[x]
        /\ task'[t] = "PROCESSING"
        /\ \A u \in Tasks \ {t} : task'[u] = task[u]
        /\ UNCHANGED <<leg, call, ing>>
    BY <1>1, <1>a, <2>1 DEF ClaimTask, Idle
  <2>3. ClaimsHeld' /\ ClaimsExclusive'
    BY <2>1, <2>2 DEF DeliveryInv, ClaimsHeld, ClaimsExclusive
  <2>4. UndialedUntilOriginate'
    BY <2>1, <2>2 DEF DeliveryInv, UndialedUntilOriginate, DialedForClaimed, Legs
  <2> QED
    BY <1>t, <2>1, <2>2, <2>3, <2>4, DeliveryMove
<1>2. CASE ReserveAgent(w) /\ UNCHANGED ing
  BY <1>2, <1>a, <1>n DEF ReserveAgent, WorkerRows
<1>3. CASE AgentNotFound(w) /\ UNCHANGED ing
  BY <1>3, <1>d DEF AgentNotFound
<1>4. CASE ReserveBorrower(w) /\ UNCHANGED ing
  BY <1>4, <1>a, <1>n DEF ReserveBorrower, WorkerRows
<1>5. CASE BorrowerNotFound(w) /\ UNCHANGED ing
  BY <1>5, <1>d DEF BorrowerNotFound
<1>6. CASE OriginateAccepted(w) /\ UNCHANGED ing
  <2>1. PICK c \in Calls :
             /\ PlaceLeg(w, c)
             /\ wk' = [wk EXCEPT ![w].pc = "placed", ![w].call = c]
    BY <1>6 DEF OriginateAccepted
  <2> QED
    <3>1. wk'[w].task = wk[w].task /\ wk'[w].pc = "placed" /\ wk'[w].call = c
      BY <1>a, <2>1 DEF WorkerRows
    <3>2. \A x \in Workers \ {w} : wk'[x] = wk[x]
      BY <1>a, <2>1
    <3> QED
      BY <1>6, <1>t, <2>1, <3>1, <3>2, DeliveryDial DEF OriginateAccepted
<1>7. CASE OriginateRefused(w) /\ UNCHANGED ing
  BY <1>7, <1>a, <1>n DEF OriginateRefused, WorkerRows
<1>8. CASE OriginateReplyLost(w) /\ UNCHANGED ing
  <2>1. PICK c \in Calls : PlaceLeg(w, c)
    BY <1>8 DEF OriginateReplyLost
  <2> QED
    <3>1. wk'[w].task = wk[w].task /\ wk'[w].pc = "failed"
      BY <1>8, <1>a DEF OriginateReplyLost, WorkerRows
    <3>2. \A x \in Workers \ {w} : wk'[x] = wk[x]
      BY <1>8, <1>a DEF OriginateReplyLost
    <3>3. wk[w].pc = "ready" /\ UNCHANGED <<task, call, ing>>
      BY <1>8 DEF OriginateReplyLost
    <3> QED
      BY <1>t, <2>1, <3>1, <3>2, <3>3, DeliveryDial
<1>9. CASE CommitDispatch(w) /\ UNCHANGED ing
  BY <1>9, <1>t, DeliveryDispatch
<1>10. CASE DispatchRolledBack(w) /\ UNCHANGED ing
  BY <1>10, <1>d DEF DispatchRolledBack
<1>11. CASE CommitFailure(w) /\ UNCHANGED ing
  BY <1>11, <1>d DEF CommitFailure
<1>12. CASE WorkerCrash(w) /\ UNCHANGED ing
  BY <1>12, <1>d DEF WorkerCrash
<1> QED
  BY <1>1, <1>2, <1>3, <1>4, <1>5, <1>6, <1>7, <1>8, <1>9, <1>10, <1>11, <1>12
     DEF WorkerStep

\* So does every step of the dialer.
LEMMA DeliveryStep == DeliveryInv /\ [Next]_vars => DeliveryInv'
<1> SUFFICES ASSUME DeliveryInv, [Next]_vars PROVE DeliveryInv'
  OBVIOUS
<1>1. CASE UNCHANGED vars
  <2>1. TypeOK' /\ ReadIsRecorded'
    BY <1>1, TypeStep DEF vars, DeliveryInv, ReadIsRecorded, Busy
  <2> QED
    BY <1>1, <2>1, DeliveryFrame DEF vars
<1>2. CASE Next
  BY <1>2, DeliveryWorker, DeliveryIngest, DeliveryReaper, DeliveryTime DEF Next
<1> QED
  BY <1>1, <1>2

\* Hence the invariant.
LEMMA DeliveryInvariant == Spec => []DeliveryInv
BY DeliveryInit, DeliveryStep, PTL DEF Spec

\* No dial task is ever given to the provider twice, by any number of workers,
\* with any losses, refusals and crashes between their transactions.
THEOREM OriginatesAtMostOnce == Spec => []AtMostOnceOrigination
BY DeliveryInvariant, PTL DEF DeliveryInv

\* A task is DISPATCHED exactly while a call row records the call made for it.
THEOREM DispatchTellsTheTruth == Spec => []DispatchedIffRecorded
<1>1. DeliveryInv => DispatchedIffRecorded
  BY DEF DeliveryInv, DispatchedIffRecorded, RecordedIsDispatched, DispatchedIsRecorded, Legs
<1> QED
  BY <1>1, DeliveryInvariant, PTL

-----------------------------------------------------------------------------
(* The attempts of a borrower.  That calls placed stay within call_count   *)
(* needs the reservation that was counted and not used yet, and the lease  *)
(* says nothing of it: it may run out while its worker still dials.        *)

PlacedTo(b) == {c \in Legs : leg[c].borrower = b}
AboutToDial(b) == {w \in Workers : wk[w].pc = "ready" /\ wk[w].borrower = b}

\* Every call placed, and every one about to be, was counted before it.
CountedFor(b) ==
    /\ IsFiniteSet(PlacedTo(b))
    /\ IsFiniteSet(AboutToDial(b))
    /\ Cardinality(PlacedTo(b)) + Cardinality(AboutToDial(b)) <= borrower[b].call_count
    /\ borrower[b].call_count <= MaxAttempts
    /\ b \in Suppressed => PlacedTo(b) = {} /\ AboutToDial(b) = {}

AttemptsInv == \A b \in Borrowers : CountedFor(b)

\* At first nobody was called.
LEMMA AttemptsInit == Init => AttemptsInv
<1> SUFFICES ASSUME Init, NEW b \in Borrowers PROVE CountedFor(b)
  BY DEF AttemptsInv
<1>1. PlacedTo(b) = {} /\ AboutToDial(b) = {}
  BY DEF Init, WorkerInit, PlacedTo, AboutToDial, Legs, Idle
<1>2. borrower[b].call_count = 0
  BY DEF Init
<1> QED
  BY <1>1, <1>2, FS_EmptySet, SchemaAssumption DEF CountedFor

\* The books of a borrower stay right when nothing is counted for it and nobody
\* takes a hold of it or calls it; a hold may be dropped at any time.
LEMMA AttemptsKept ==
    ASSUME NEW b \in Borrowers, CountedFor(b), TypeOK,
           borrower'[b].call_count = borrower[b].call_count,
           PlacedTo(b)' \subseteq PlacedTo(b),
           AboutToDial(b)' \subseteq AboutToDial(b)
    PROVE  CountedFor(b)'
<1>1. /\ IsFiniteSet(PlacedTo(b)') /\ Cardinality(PlacedTo(b)') <= Cardinality(PlacedTo(b))
      /\ IsFiniteSet(AboutToDial(b)')
      /\ Cardinality(AboutToDial(b)') <= Cardinality(AboutToDial(b))
  BY FS_Subset DEF CountedFor
<1>2. /\ Cardinality(PlacedTo(b)) \in Nat /\ Cardinality(PlacedTo(b)') \in Nat
      /\ Cardinality(AboutToDial(b)) \in Nat /\ Cardinality(AboutToDial(b)') \in Nat
  BY <1>1, FS_CardinalityType DEF CountedFor
<1>3. borrower[b].call_count \in Nat
  BY DEF TypeOK, SchemaTypeOK, BorrowerRows
<1>4. Cardinality(PlacedTo(b)') + Cardinality(AboutToDial(b)') <= borrower'[b].call_count
  BY <1>1, <1>2, <1>3 DEF CountedFor
<1> QED
  BY <1>1, <1>4 DEF CountedFor

\* A reservation is counted in the statement that makes it.
LEMMA AttemptsReserve ==
    ASSUME TypeOK, AttemptsInv, NEW w \in Workers, ReserveBorrower(w)
    PROVE  AttemptsInv'
<1> SUFFICES ASSUME NEW b \in Borrowers PROVE CountedFor(b)'
  BY DEF AttemptsInv
<1>1. PICK r \in EligibleBorrowers :
           /\ borrower' = [borrower EXCEPT ![r].call_count = @ + 1, ![r].lease = "live"]
           /\ wk' = [wk EXCEPT ![w].pc = "ready", ![w].borrower = r]
  BY DEF ReserveBorrower
<1>t. /\ borrower \in [Borrowers -> BorrowerRows] /\ wk \in [Workers -> WorkerRows]
      /\ CountedFor(b) /\ leg' = leg
  BY DEF TypeOK, SchemaTypeOK, WorkerTypeOK, AttemptsInv, ReserveBorrower
<1>2. PlacedTo(b)' = PlacedTo(b)
  BY <1>t DEF PlacedTo, Legs
<1>3. CASE b # r
  <2>1. borrower'[b].call_count = borrower[b].call_count
    BY <1>1, <1>3, <1>t
  <2>2. AboutToDial(b)' \subseteq AboutToDial(b)
    BY <1>1, <1>3, <1>t DEF AboutToDial, WorkerRows
  <2> QED
    BY <1>2, <1>t, <2>1, <2>2, AttemptsKept
<1>4. CASE b = r
  <2>1. b \notin Suppressed /\ borrower[b].call_count < MaxAttempts
    BY <1>4 DEF EligibleBorrowers
  <2>2. borrower'[b].call_count = borrower[b].call_count + 1
    BY <1>1, <1>4, <1>t DEF BorrowerRows
  <2>3. AboutToDial(b)' \subseteq AboutToDial(b) \cup {w}
    BY <1>1, <1>t DEF AboutToDial, WorkerRows
  <2>4. /\ IsFiniteSet(AboutToDial(b)')
        /\ Cardinality(AboutToDial(b)') <= Cardinality(AboutToDial(b)) + 1
    <3>1. IsFiniteSet(AboutToDial(b) \cup {w})
      BY <1>t, FS_AddElement DEF CountedFor
    <3>2. /\ IsFiniteSet(AboutToDial(b)')
          /\ Cardinality(AboutToDial(b)') <= Cardinality(AboutToDial(b) \cup {w})
      BY <2>3, <3>1, FS_Subset
    <3>3. Cardinality(AboutToDial(b) \cup {w}) <= Cardinality(AboutToDial(b)) + 1
      <4>1. /\ Cardinality(AboutToDial(b)) \in Nat
            /\ \/ Cardinality(AboutToDial(b) \cup {w}) = Cardinality(AboutToDial(b))
               \/ Cardinality(AboutToDial(b) \cup {w}) = Cardinality(AboutToDial(b)) + 1
        BY <1>t, FS_AddElement, FS_CardinalityType, Zenon DEF CountedFor
      <4> QED
        BY <4>1
    <3>4. /\ Cardinality(AboutToDial(b)) \in Nat /\ Cardinality(AboutToDial(b)') \in Nat
          /\ Cardinality(AboutToDial(b) \cup {w}) \in Nat
      BY <1>t, <3>1, <3>2, FS_CardinalityType DEF CountedFor
    <3> QED
      BY <3>2, <3>3, <3>4
  <2>5. /\ Cardinality(PlacedTo(b)) \in Nat /\ Cardinality(AboutToDial(b)) \in Nat
        /\ Cardinality(AboutToDial(b)') \in Nat
        /\ borrower[b].call_count \in Nat /\ MaxAttempts \in Nat
    BY <1>t, <2>4, FS_CardinalityType, SchemaAssumption DEF CountedFor, BorrowerRows
  <2>6. /\ Cardinality(PlacedTo(b)) + Cardinality(AboutToDial(b)') <= borrower'[b].call_count
        /\ borrower'[b].call_count <= MaxAttempts
    BY <1>t, <2>1, <2>2, <2>4, <2>5 DEF CountedFor
  <2> QED
    BY <1>2, <1>t, <2>1, <2>4, <2>6 DEF CountedFor
<1> QED
  BY <1>3, <1>4

\* A call placed uses up the hold of the worker that placed it.
LEMMA AttemptsDial ==
    ASSUME TypeOK, AttemptsInv, NEW w \in Workers, wk[w].pc = "ready",
           NEW c \in Calls, PlaceLeg(w, c), borrower' = borrower,
           \A x \in Workers \ {w} : wk'[x] = wk[x],
           wk'[w].pc # "ready"
    PROVE  AttemptsInv'
<1> SUFFICES ASSUME NEW b \in Borrowers PROVE CountedFor(b)'
  BY DEF AttemptsInv
<1>t. borrower \in [Borrowers -> BorrowerRows] /\ leg \in [Calls -> LegRows] /\ CountedFor(b)
  BY DEF TypeOK, SchemaTypeOK, WorkerTypeOK, AttemptsInv
<1>1. AboutToDial(b)' \subseteq AboutToDial(b) \ {w}
  BY DEF AboutToDial
<1>2. CASE wk[w].borrower # b
  <2>1. PlacedTo(b)' \subseteq PlacedTo(b)
    BY <1>2, <1>t DEF PlacedTo, PlaceLeg, Legs, LegRows
  <2> QED
    BY <1>1, <1>t, <2>1, AttemptsKept
<1>3. CASE wk[w].borrower = b
  <2>1. PlacedTo(b)' \subseteq PlacedTo(b) \cup {c}
    BY <1>t DEF PlacedTo, PlaceLeg, Legs, LegRows
  <2>2. w \in AboutToDial(b)
    BY <1>3 DEF AboutToDial
  <2>3. /\ IsFiniteSet(PlacedTo(b) \cup {c})
        /\ Cardinality(PlacedTo(b) \cup {c}) <= Cardinality(PlacedTo(b)) + 1
    <3>1. /\ IsFiniteSet(PlacedTo(b) \cup {c}) /\ Cardinality(PlacedTo(b)) \in Nat
          /\ \/ Cardinality(PlacedTo(b) \cup {c}) = Cardinality(PlacedTo(b))
             \/ Cardinality(PlacedTo(b) \cup {c}) = Cardinality(PlacedTo(b)) + 1
      BY <1>t, FS_AddElement, FS_CardinalityType, Zenon DEF CountedFor
    <3> QED
      BY <3>1
  <2>4. /\ IsFiniteSet(PlacedTo(b)')
        /\ Cardinality(PlacedTo(b)') <= Cardinality(PlacedTo(b) \cup {c})
    BY <2>1, <2>3, FS_Subset
  <2>5. /\ IsFiniteSet(AboutToDial(b) \ {w})
        /\ Cardinality(AboutToDial(b) \ {w}) = Cardinality(AboutToDial(b)) - 1
    BY <1>t, <2>2, FS_RemoveElement DEF CountedFor
  <2>6. /\ IsFiniteSet(AboutToDial(b)')
        /\ Cardinality(AboutToDial(b)') <= Cardinality(AboutToDial(b) \ {w})
    BY <1>1, <2>5, FS_Subset
  <2>7. /\ Cardinality(PlacedTo(b)) \in Nat /\ Cardinality(PlacedTo(b)') \in Nat
        /\ Cardinality(PlacedTo(b) \cup {c}) \in Nat
        /\ Cardinality(AboutToDial(b)) \in Nat /\ Cardinality(AboutToDial(b)') \in Nat
        /\ borrower[b].call_count \in Nat
    BY <1>t, <2>3, <2>4, <2>6, FS_CardinalityType DEF CountedFor, BorrowerRows
  <2>8. Cardinality(PlacedTo(b)') + Cardinality(AboutToDial(b)') <= borrower'[b].call_count
    BY <1>t, <2>3, <2>4, <2>5, <2>6, <2>7 DEF CountedFor
  <2>9. b \notin Suppressed
    BY <1>t, <2>2 DEF CountedFor
  <2> QED
    BY <1>t, <2>4, <2>6, <2>8, <2>9 DEF CountedFor
<1> QED
  BY <1>2, <1>3

\* Nothing else counts, holds or calls.
LEMMA AttemptsStep == TypeOK /\ AttemptsInv /\ [Next]_vars => AttemptsInv'
<1> SUFFICES ASSUME TypeOK, AttemptsInv, [Next]_vars PROVE AttemptsInv'
  OBVIOUS
<1>t. /\ borrower \in [Borrowers -> BorrowerRows] /\ wk \in [Workers -> WorkerRows]
      /\ \A b \in Borrowers : CountedFor(b)
  BY DEF TypeOK, SchemaTypeOK, WorkerTypeOK, AttemptsInv
<1>k. ASSUME leg' = leg,
             \A b \in Borrowers : borrower'[b].call_count = borrower[b].call_count,
             \A b \in Borrowers : AboutToDial(b)' \subseteq AboutToDial(b)
      PROVE  AttemptsInv'
  <2> SUFFICES ASSUME NEW b \in Borrowers PROVE CountedFor(b)'
    BY DEF AttemptsInv
  <2>1. PlacedTo(b)' \subseteq PlacedTo(b)
    BY <1>k DEF PlacedTo, Legs
  <2> QED
    BY <1>k, <1>t, <2>1, AttemptsKept
<1>s. ASSUME leg' = leg, wk' = wk,
             \A b \in Borrowers : borrower'[b].call_count = borrower[b].call_count
      PROVE  AttemptsInv'
  BY <1>k, <1>s DEF AboutToDial
<1>1. CASE UNCHANGED vars
  BY <1>1, <1>s DEF vars
<1>2. ASSUME NEW w \in Workers,
             ClaimTask(w) \/ WorkerStep(w) \/ WorkerCrash(w)
      PROVE  AttemptsInv'
  <2>m. ASSUME leg' = leg, borrower' = borrower \/ CommitFailure(w),
               wk' = [wk EXCEPT ![w] = wk'[w]], wk'[w].pc # "ready"
        PROVE  AttemptsInv'
    <3>1. \A b \in Borrowers : borrower'[b].call_count = borrower[b].call_count
      BY <2>m, <1>t DEF CommitFailure, BorrowerRows
    <3>2. \A b \in Borrowers : AboutToDial(b)' \subseteq AboutToDial(b)
      BY <2>m, <1>t DEF AboutToDial
    <3> QED
      BY <2>m, <3>1, <3>2, <1>k
  <2>1. CASE ReserveBorrower(w)
    BY <2>1, AttemptsReserve
  <2>2. CASE OriginateAccepted(w)
    <3>1. PICK c \in Calls : /\ PlaceLeg(w, c)
                             /\ wk' = [wk EXCEPT ![w].pc = "placed", ![w].call = c]
      BY <2>2 DEF OriginateAccepted
    <3>2. wk'[w].pc # "ready" /\ \A x \in Workers \ {w} : wk'[x] = wk[x]
      BY <3>1, <1>t DEF WorkerRows
    <3> QED
      BY <2>2, <3>1, <3>2, AttemptsDial DEF OriginateAccepted
  <2>3. CASE OriginateReplyLost(w)
    <3>1. PICK c \in Calls : PlaceLeg(w, c)
      BY <2>3 DEF OriginateReplyLost
    <3>2. wk'[w].pc # "ready" /\ \A x \in Workers \ {w} : wk'[x] = wk[x]
      BY <2>3, <1>t DEF OriginateReplyLost, WorkerRows
    <3> QED
      BY <2>3, <3>1, <3>2, AttemptsDial DEF OriginateReplyLost
  <2>4. CASE ClaimTask(w)
    BY <2>4, <2>m, <1>t DEF ClaimTask, Idle
  <2>5. CASE ReserveAgent(w)
    <3>1. PICK a \in Agents : wk' = [wk EXCEPT ![w].pc = "agent_held", ![w].agent = a]
      BY <2>5, EligibleAreRows DEF ReserveAgent
    <3>2. wk'[w].pc # "ready" /\ wk' = [wk EXCEPT ![w] = wk'[w]]
      BY <3>1, <1>t DEF WorkerRows
    <3>3. leg' = leg /\ borrower' = borrower
      BY <2>5 DEF ReserveAgent
    <3> QED
      BY <3>2, <3>3, <2>m
  <2>6. CASE OriginateRefused(w)
    BY <2>6, <2>m, <1>t DEF OriginateRefused, WorkerRows
  <2>7. CASE CommitFailure(w)
    <3>1. leg' = leg /\ wk' = [wk EXCEPT ![w] = Idle]
      BY <2>7 DEF CommitFailure
    <3>2. wk'[w].pc # "ready" /\ wk' = [wk EXCEPT ![w] = wk'[w]]
      BY <3>1, <1>t DEF Idle
    <3> QED
      BY <2>7, <3>1, <3>2, <2>m
  <2>8. CASE \/ AgentNotFound(w) \/ BorrowerNotFound(w) \/ CommitDispatch(w)
             \/ DispatchRolledBack(w) \/ WorkerCrash(w)
    <3>1. leg' = leg /\ borrower' = borrower /\ wk' = [wk EXCEPT ![w] = Idle]
      BY <2>8 DEF AgentNotFound, BorrowerNotFound, CommitDispatch, DispatchRolledBack,
                  WorkerCrash
    <3>2. wk'[w].pc # "ready" /\ wk' = [wk EXCEPT ![w] = wk'[w]]
      BY <3>1, <1>t DEF Idle
    <3> QED
      BY <3>1, <3>2, <2>m
  <2> QED
    BY <1>2, <2>1, <2>2, <2>3, <2>4, <2>5, <2>6, <2>7, <2>8 DEF WorkerStep
<1>3. ASSUME NEW i \in Ingesters,
             \/ \E e \in Arrivals : IngestRead(i, e) /\ UNCHANGED <<wk, leg>>
             \/ Ingest(i)
             \/ IngestAborted(i) /\ UNCHANGED <<wk, leg>>
      PROVE  AttemptsInv'
  <2>1. UNCHANGED <<borrower, wk, leg>>
    BY <1>3 DEF IngestRead, Ingest, IngestCommit, IngestIgnored, IngestAdvanced,
                IngestAttached, IngestUnattached, IngestEnded, Record, IngestAborted
  <2> QED
    BY <2>1, <1>s
<1>4. CASE RunOnce /\ UNCHANGED <<wk, leg, ing>>
  BY <1>4, <1>s DEF RunOnce
<1>5. ASSUME NEW a \in Agents, AgentLeaseRunsOut(a) \/ HeartbeatGoesStale(a) \/ Heartbeat(a)
      PROVE  AttemptsInv'
  BY <1>5, <1>s DEF AgentLeaseRunsOut, HeartbeatGoesStale, Heartbeat
<1>6. ASSUME NEW b \in Borrowers, BorrowerLeaseRunsOut(b) PROVE AttemptsInv'
  <2>1. \A d \in Borrowers : borrower'[d].call_count = borrower[d].call_count
    BY <1>6, <1>t DEF BorrowerLeaseRunsOut, BorrowerRows
  <2> QED
    BY <1>6, <2>1, <1>s DEF BorrowerLeaseRunsOut
<1> QED
  BY <1>1, <1>2, <1>3, <1>4, <1>5, <1>6 DEF Next

\* Calls really placed to a borrower stay within the attempts on its row, and
\* these within the limit, through leases that run out in mid-call and crashes;
\* a suppressed borrower is never called.
THEOREM AttemptsAreLimited == Spec => []AttemptLimit
<1>1. TypeOK /\ AttemptsInv => AttemptLimit
  <2> SUFFICES ASSUME TypeOK, AttemptsInv, NEW b \in Borrowers
               PROVE  /\ Cardinality(PlacedTo(b)) <= borrower[b].call_count
                      /\ borrower[b].call_count <= MaxAttempts
                      /\ b \in Suppressed => PlacedTo(b) = {}
    BY DEF AttemptLimit, PlacedTo
  <2>1. CountedFor(b) /\ borrower[b].call_count \in Nat
    BY DEF AttemptsInv, TypeOK, SchemaTypeOK, BorrowerRows
  <2>2. Cardinality(PlacedTo(b)) \in Nat /\ Cardinality(AboutToDial(b)) \in Nat
    BY <2>1, FS_CardinalityType DEF CountedFor
  <2> QED
    BY <2>1, <2>2 DEF CountedFor
<1>2. Spec => []AttemptsInv
  BY AttemptsInit, AttemptsStep, TypeCorrect, PTL DEF Spec
<1> QED
  BY <1>1, <1>2, TypeCorrect, PTL

-----------------------------------------------------------------------------
(* The rows of the pipeline's calls, with one ingester.  (MCLateEvent has  *)
(* what two ingesters do to the row of a call.)                            *)

OneIngester == \A i, j \in Ingesters : i = j

Holding == {"agent_held", "ready", "placed", "failed"}

\* A worker holds an agent from its reservation to the end of the task.
HoldsAgent == \A w \in Workers : wk[w].agent \in Agents <=> wk[w].pc \in Holding

\* Call rows have an agent, no lease of their own, and are active or ended; ...
PipelineRows ==
    \A c \in Calls :
        /\ call[c].lease = "null"
        /\ call[c].state # "NONE"
              => /\ call[c].agent \in Agents
                 /\ call[c].state \in ActiveCallStates \cup TerminalCallStates

\* ... the ingester's copy of a row is the row.
CopyIsCurrent ==
    \A i \in Ingesters : Busy(i) /\ ing[i].row.state # "NONE"
        => ing[i].row = call[ing[i].event[1]]

RowsInv == HoldsAgent /\ PipelineRows /\ CopyIsCurrent

\* At first there are none.
LEMMA RowsInit == Init => RowsInv
BY SchemaAssumption
   DEF Init, WorkerInit, IngestInit, Resting, Busy, Idle, NoCall, Holding,
       RowsInv, HoldsAgent, PipelineRows, CopyIsCurrent

\* An event moves active calls only, and a call it does not end stays active.  No
\* event is the machine's "timeout".
LEMMA ActiveMoves ==
    ASSUME NEW s \in ActiveCallStates, NEW event, event # "timeout", Applies(s, event)
    PROVE  NextState(s, event) \in ActiveCallStates \cup TerminalCallStates
<1>1. ASSUME NEW row \in CallTransitions, row[2] # "timeout"
      PROVE  row[3] \in ActiveCallStates \cup TerminalCallStates
  BY <1>1 DEF CallTransitions, ActiveCallStates, TerminalCallStates
<1>2. CASE event \in {"complete", "completed"}
  BY <1>2 DEF NextState, TerminalCallStates
<1>3. CASE event \notin {"complete", "completed"}
  <2>1. RowsFor(s, event) # {}
    BY <1>3 DEF Applies
  <2>2. PICK row \in RowsFor(s, event) : NextState(s, event) = row[3]
    BY <1>3, <2>1 DEF NextState
  <2> QED
    BY <1>1, <2>2 DEF RowsFor
<1> QED
  BY <1>2, <1>3

\* What an event does to the row of a call, and that it never attaches an agent.
LEMMA PipelineEvents ==
    ASSUME TypeOK, RowsInv, NEW i \in Ingesters, IngestCommit(i)
    PROVE  LET c == ing[i].event[1] IN
           /\ Record(i) /\ Busy(i) /\ c \in Calls
           /\ \/ ~Applied(i) /\ UNCHANGED <<agent, call>>
              \/ /\ Applied(i)
                 /\ call[c].state = ing[i].row.state
                 /\ call[c].state \in ActiveCallStates
                 /\ SetCallState(i, NewState(i))
                 /\ \/ NewState(i) \in ActiveCallStates /\ UNCHANGED agent
                    \/ /\ NewState(i) \in TerminalCallStates
                       /\ \A a \in Agents \ {call[c].agent} : agent'[a] = agent[a]
<1> DEFINE c == ing[i].event[1]
<1>1. Record(i) /\ Busy(i) /\ c \in Calls
  BY IngestFacts DEF IngestCommit, IngestIgnored, IngestAdvanced, IngestAttached,
                     IngestUnattached, IngestEnded, Record
<1>2. CASE IngestIgnored(i)
  BY <1>1, <1>2 DEF IngestIgnored
<1>3. ASSUME Applied(i)
      PROVE  /\ ing[i].row = call[c]
             /\ ing[i].row.agent # Null
             /\ call[c].state \in ActiveCallStates
             /\ NewState(i) \in ActiveCallStates \cup TerminalCallStates
  <2>1. ing[i].row = call[c] /\ call[c].state # "NONE"
    BY <1>1, <1>3 DEF Applied, RowsInv, CopyIsCurrent
  <2>2. /\ call[c].agent \in Agents
        /\ call[c].state \in ActiveCallStates \cup TerminalCallStates
    BY <1>1, <2>1 DEF RowsInv, PipelineRows
  <2>3. Applies(call[c].state, FsmEvent(i)) /\ FsmEvent(i) # "timeout"
    <3>1. ing[i].event[2] \in EventTypes
      BY <1>1, IngestFacts DEF EventIds
    <3> QED
      BY <1>3, <2>1, <3>1 DEF Applied, FsmEvent, FsmEventOf, EventTypes
  <2>4. call[c].state \in ActiveCallStates
    BY <2>2, <2>3 DEF Applies
  <2>5. NewState(i) = NextState(call[c].state, FsmEvent(i))
    BY <2>1 DEF NewState
  <2> QED
    BY <2>1, <2>2, <2>3, <2>4, <2>5, ActiveMoves, SchemaAssumption
<1>4. CASE IngestAdvanced(i)
  BY <1>1, <1>3, <1>4 DEF IngestAdvanced
<1>5. CASE IngestAttached(i) \/ IngestUnattached(i)
  BY <1>3, <1>5 DEF IngestAttached, IngestUnattached, AnsweredUnbound
<1>6. CASE IngestEnded(i)
  BY <1>1, <1>3, <1>6 DEF IngestEnded, FreedBy
<1> QED
  BY <1>2, <1>4, <1>5, <1>6 DEF IngestCommit

\* With one ingester, what is recorded is not in another's hands.
LEMMA RecordedAlone ==
    ASSUME OneIngester, TypeOK, NEW i \in Ingesters, Record(i)
    PROVE  \A j \in Ingesters : ~Busy(j)'
BY DEF OneIngester, Record, Resting, Busy, TypeOK, IngestTypeOK

\* A worker's record of a call is the first row under its id.
LEMMA DispatchIsNew ==
    ASSUME DeliveryInv, NEW w \in Workers, CommitDispatch(w)
    PROVE  /\ wk[w].call \in Calls
           /\ call[wk[w].call].state = "NONE"
           /\ call' = [call EXCEPT ![wk[w].call] =
                  [state |-> "INITIATED", agent |-> wk[w].agent,
                   borrower |-> wk[w].borrower, lease |-> "null"]]
           /\ call'[wk[w].call].state = "INITIATED"
           /\ call'[wk[w].call].agent = wk[w].agent
           /\ \A d \in Calls \ {wk[w].call} : call'[d] = call[d]
<1> DEFINE row == [state |-> "INITIATED", agent |-> wk[w].agent,
                   borrower |-> wk[w].borrower, lease |-> "null"]
<1>1. /\ wk[w].call \in Legs /\ leg[wk[w].call].task = wk[w].task
      /\ task[wk[w].task] = "PROCESSING"
  BY DEF DeliveryInv, CommitDispatch, ClaimsHeld, PlacedIsDialed
<1>2. call[wk[w].call].state = "NONE"
  BY <1>1 DEF DeliveryInv, RecordedIsDispatched, Legs
<1>3. call \in [Calls -> CallRows] /\ wk[w].call \in Calls
  BY <1>1 DEF DeliveryInv, TypeOK, SchemaTypeOK, Legs
<1>4. call' = [call EXCEPT ![wk[w].call] = row]
  BY <1>2 DEF CommitDispatch
<1>5. row.state = "INITIATED" /\ row.agent = wk[w].agent
  OBVIOUS
<1>6. /\ call'[wk[w].call] = row
      /\ \A d \in Calls \ {wk[w].call} : call'[d] = call[d]
  <2> HIDE DEF row
  <2> QED
    BY <1>3, <1>4
<1> QED
  BY <1>2, <1>3, <1>4, <1>5, <1>6

\* What the steps of a worker do to its hold on an agent
LEMMA HoldMoves ==
    ASSUME TypeOK, HoldsAgent, NEW w \in Workers,
           ClaimTask(w) \/ WorkerStep(w) \/ WorkerCrash(w)
    PROVE  /\ \A x \in Workers \ {w} : wk'[x] = wk[x]
           /\ \/ /\ wk'[w].agent = wk[w].agent
                 /\ wk'[w].pc \in Holding <=> wk[w].pc \in Holding
                 /\ UNCHANGED <<agent, call>>
              \/ \E a \in EligibleAgents :
                    /\ wk'[w].agent = a /\ wk'[w].pc \in Holding
                    /\ wk[w].agent \notin Agents
                    /\ agent' = [agent EXCEPT ![a].status = "RESERVED", ![a].lease = "live"]
                    /\ UNCHANGED call
              \/ /\ wk'[w] = Idle
                 /\ \A a \in Agents \ {wk[w].agent} : agent'[a] = agent[a]
                 /\ UNCHANGED call
              \/ wk'[w] = Idle /\ CommitDispatch(w)
<1>t. wk \in [Workers -> WorkerRows]
  BY DEF TypeOK, WorkerTypeOK
<1>0. wk[w].agent \in Agents <=> wk[w].pc \in Holding
  BY DEF HoldsAgent
<1>1. CASE ClaimTask(w)
  <2>1. PICK t \in Tasks :
                wk' = [wk EXCEPT ![w] = [Idle EXCEPT !.pc = "claimed", !.task = t]]
    BY <1>1 DEF ClaimTask
  <2>2. wk[w].pc \notin Holding /\ wk[w].agent = Null
    BY <1>1, <1>0, <1>t DEF ClaimTask, Holding, WorkerRows
  <2>3. wk'[w].pc = "claimed" /\ wk'[w].agent = Null
    BY <2>1, <1>t DEF Idle
  <2> QED
    BY <1>1, <2>1, <2>2, <2>3, <1>t DEF ClaimTask, Holding
<1>2. CASE ReserveAgent(w)
  BY <1>2, <1>0, <1>t DEF ReserveAgent, Holding, WorkerRows
<1>3. CASE ReserveBorrower(w)
  <2>1. PICK b \in EligibleBorrowers :
                wk' = [wk EXCEPT ![w].pc = "ready", ![w].borrower = b]
    BY <1>3 DEF ReserveBorrower
  <2> QED
    BY <1>3, <2>1, <1>t DEF ReserveBorrower, Holding, WorkerRows
<1>4. CASE OriginateAccepted(w)
  <2>1. PICK c \in Calls : wk' = [wk EXCEPT ![w].pc = "placed", ![w].call = c]
    BY <1>4 DEF OriginateAccepted
  <2> QED
    BY <1>4, <2>1, <1>t DEF OriginateAccepted, Holding, WorkerRows
<1>5. CASE OriginateRefused(w) \/ OriginateReplyLost(w)
  BY <1>5, <1>t DEF OriginateRefused, OriginateReplyLost, Holding, WorkerRows
<1>6. CASE AgentNotFound(w) \/ DispatchRolledBack(w) \/ WorkerCrash(w)
  BY <1>6, <1>t DEF AgentNotFound, DispatchRolledBack, WorkerCrash
<1>7. CASE BorrowerNotFound(w) \/ CommitFailure(w)
  BY <1>7, <1>t DEF BorrowerNotFound, CommitFailure, TypeOK, SchemaTypeOK
<1>8. CASE CommitDispatch(w)
  BY <1>8, <1>t DEF CommitDispatch
<1> QED
  BY <1>1, <1>2, <1>3, <1>4, <1>5, <1>6, <1>7, <1>8 DEF WorkerStep

\* Every step keeps the rows.
LEMMA RowsStep == OneIngester /\ DeliveryInv /\ RowsInv /\ [Next]_vars => RowsInv'
<1> SUFFICES ASSUME OneIngester, DeliveryInv, RowsInv, [Next]_vars PROVE RowsInv'
  OBVIOUS
<1>t. TypeOK /\ call \in [Calls -> CallRows]
  BY DEF DeliveryInv, TypeOK, SchemaTypeOK
<1>s. ASSUME UNCHANGED <<wk, call>>, CopyIsCurrent' PROVE RowsInv'
  BY <1>s DEF RowsInv, HoldsAgent, PipelineRows
<1>1. CASE UNCHANGED vars
  BY <1>1, <1>s DEF vars, RowsInv, CopyIsCurrent, Busy
<1>2. ASSUME NEW w \in Workers, UNCHANGED ing,
             ClaimTask(w) \/ WorkerStep(w) \/ WorkerCrash(w)
      PROVE  RowsInv'
  <2>1. HoldsAgent'
    <3>1. wk'[w].agent \in Agents <=> wk'[w].pc \in Holding
      <4>1. Idle.agent \notin Agents /\ Idle.pc \notin Holding
        BY SchemaAssumption DEF Idle, Holding
      <4>2. EligibleAgents \subseteq Agents
        BY EligibleAreRows
      <4>3. wk[w].agent \in Agents <=> wk[w].pc \in Holding
        BY DEF RowsInv, HoldsAgent
      <4> QED
        BY <1>2, <1>t, <4>1, <4>2, <4>3, HoldMoves DEF RowsInv
    <3>2. \A x \in Workers \ {w} : wk'[x] = wk[x]
      BY <1>2, <1>t, HoldMoves DEF RowsInv
    <3> QED
      BY <3>1, <3>2 DEF RowsInv, HoldsAgent
  <2>2. CASE call' = call
    BY <1>2, <2>1, <2>2 DEF RowsInv, PipelineRows, CopyIsCurrent, Busy
  <2>3. CASE CommitDispatch(w)
    <3>1. wk[w].agent \in Agents
      BY <2>3 DEF CommitDispatch, RowsInv, HoldsAgent, Holding
    <3>2. PipelineRows'
      <4> DEFINE row == [state |-> "INITIATED", agent |-> wk[w].agent,
                         borrower |-> wk[w].borrower, lease |-> "null"]
      <4>1. /\ row.lease = "null" /\ row.agent = wk[w].agent
            /\ row.state \in ActiveCallStates
        BY DEF ActiveCallStates
      <4>2. call' = [call EXCEPT ![wk[w].call] = row]
        BY <2>3, DispatchIsNew
      <4> HIDE DEF row
      <4>3. \A c \in Calls : call'[c] = row \/ call'[c] = call[c]
        BY <4>2, <1>t
      <4> QED
        BY <3>1, <4>1, <4>3 DEF RowsInv, PipelineRows
    <3>3. CopyIsCurrent'
      <4>1. /\ call[wk[w].call].state = "NONE"
            /\ \A d \in Calls \ {wk[w].call} : call'[d] = call[d]
        BY <2>3, DispatchIsNew
      <4>2. ASSUME NEW i \in Ingesters, Busy(i), ing[i].row.state # "NONE"
            PROVE  /\ ing[i].event[1] \in Calls
                   /\ ing[i].row = call[ing[i].event[1]]
        BY <1>t, <4>2, IngestFacts DEF RowsInv, CopyIsCurrent
      <4> QED
        BY <1>2, <4>1, <4>2 DEF CopyIsCurrent, Busy
    <3> QED
      BY <2>1, <3>2, <3>3 DEF RowsInv
  <2> QED
    BY <1>2, <1>t, <2>2, <2>3, HoldMoves DEF RowsInv
<1>3. ASSUME NEW i \in Ingesters, NEW e \in Arrivals, IngestRead(i, e), UNCHANGED <<wk, leg>>
      PROVE  RowsInv'
  <2>1. CopyIsCurrent'
    BY <1>3, <1>t DEF RowsInv, CopyIsCurrent, IngestRead, Busy, TypeOK, IngestTypeOK
  <2> QED
    BY <1>3, <2>1, <1>s DEF IngestRead
<1>4. ASSUME NEW i \in Ingesters, Ingest(i) PROVE RowsInv'
  <2>0. IngestCommit(i) /\ UNCHANGED wk
    BY <1>4 DEF Ingest
  <2>1. CopyIsCurrent'
    BY <2>0, <1>t, PipelineEvents, RecordedAlone DEF CopyIsCurrent
  <2>2. PipelineRows'
    <3> DEFINE c == ing[i].event[1]
    <3>1. CASE call' = call
      BY <3>1 DEF RowsInv, PipelineRows
    <3>2. CASE /\ c \in Calls /\ call[c].state \in ActiveCallStates
               /\ NewState(i) \in ActiveCallStates \cup TerminalCallStates
               /\ SetCallState(i, NewState(i))
      <4>1. /\ call'[c].state = NewState(i) /\ call'[c].lease = call[c].lease
            /\ call'[c].agent = call[c].agent
            /\ \A d \in Calls \ {c} : call'[d] = call[d]
        BY <3>2, <1>t DEF SetCallState, CallRows
      <4>2. call[c].state # "NONE"
        BY <3>2 DEF ActiveCallStates
      <4> QED
        BY <3>2, <4>1, <4>2 DEF RowsInv, PipelineRows
    <3> QED
      BY <2>0, <1>t, <3>1, <3>2, PipelineEvents
  <2> QED
    BY <2>0, <2>1, <2>2 DEF RowsInv, HoldsAgent
<1>5. ASSUME NEW i \in Ingesters, IngestAborted(i), UNCHANGED <<wk, leg>> PROVE RowsInv'
  <2>1. CopyIsCurrent'
    BY <1>5, <1>t DEF RowsInv, CopyIsCurrent, IngestAborted, Resting, Busy, TypeOK, IngestTypeOK
  <2> QED
    BY <1>5, <2>1, <1>s DEF IngestAborted
<1>6. CASE RunOnce /\ UNCHANGED <<wk, leg, ing>>
  BY <1>6, <1>s DEF RunOnce, RowsInv, CopyIsCurrent, Busy
<1>7. CASE \/ \E a \in Agents : AgentLeaseRunsOut(a) \/ HeartbeatGoesStale(a) \/ Heartbeat(a)
           \/ \E b \in Borrowers : BorrowerLeaseRunsOut(b)
  <2>1. UNCHANGED <<wk, call, ing>>
    BY <1>7 DEF AgentLeaseRunsOut, HeartbeatGoesStale, Heartbeat, BorrowerLeaseRunsOut
  <2> QED
    BY <2>1, <1>s DEF RowsInv, CopyIsCurrent, Busy
<1> QED
  BY <1>1, <1>2, <1>3, <1>4, <1>5, <1>6, <1>7 DEF Next

-----------------------------------------------------------------------------
(* One customer at a time, where no lease runs out on a holder that is     *)
(* only slow (MCLongCall has what happens otherwise).  An agent is used by *)
(* the worker that reserved it and then by the call which that worker      *)
(* records, and is not given away while it is used.                        *)

LeasesOutlast == ~SlowOriginate /\ ~SlowCalls

HeldOnce ==
    \A w, x \in Workers : wk[w].agent \in Agents /\ wk[w].agent = wk[x].agent => w = x

ServedOnce == \A c, d \in ActiveCalls : call[c].agent = call[d].agent => c = d

\* A worker holds no agent that is on a call.
HeldIdle == \A w \in Workers, c \in ActiveCalls : wk[w].agent # call[c].agent

Used == {wk[w].agent : w \in Workers} \cup {call[c].agent : c \in ActiveCalls}

\* Nobody can take an agent in use.
Taken(row) == row.status # "AVAILABLE" /\ row.lease # "expired"
UsedTaken == \A a \in Agents \cap Used : Taken(agent[a])

UseInv == HeldOnce /\ ServedOnce /\ HeldIdle /\ UsedTaken

\* At first no agent is used.
LEMMA UseInit == Init => UseInv
<1> SUFFICES ASSUME Init PROVE UseInv
  OBVIOUS
<1>1. \A w \in Workers : wk[w].agent \notin Agents
  BY SchemaAssumption DEF Init, WorkerInit, Idle
<1>2. ActiveCalls = {}
  BY DEF Init, NoCall, ActiveCalls, ActiveCallStates
<1> QED
  BY <1>1, <1>2 DEF UseInv, HeldOnce, ServedOnce, HeldIdle, UsedTaken, Used

\* A step that changes neither holds nor calls, and gives no agent in use away
LEMMA UseKept ==
    ASSUME UseInv, UNCHANGED <<wk, call>>,
           \A a \in Agents \cap Used : Taken(agent[a]) => Taken(agent'[a])
    PROVE  UseInv'
<1>1. ActiveCalls' = ActiveCalls /\ Used' = Used
  BY DEF ActiveCalls, Used
<1> QED
  BY <1>1 DEF UseInv, HeldOnce, ServedOnce, HeldIdle, UsedTaken, Taken

\* A worker takes a free agent, passes it to the call it records, or lets it go.
LEMMA UseWorker ==
    ASSUME DeliveryInv, RowsInv, UseInv, NEW w \in Workers,
           ClaimTask(w) \/ WorkerStep(w) \/ WorkerCrash(w)
    PROVE  UseInv'
<1>t. /\ TypeOK /\ agent \in [Agents -> AgentRows] /\ call \in [Calls -> CallRows]
      /\ HoldsAgent
  BY DEF DeliveryInv, TypeOK, SchemaTypeOK, RowsInv
<1>0. \A x \in Workers \ {w} : wk'[x] = wk[x]
  BY <1>t, HoldMoves
<1>i. Idle.agent = Null /\ Null \notin Agents
  BY SchemaAssumption DEF Idle
<1>r. \A c \in ActiveCalls : call[c].agent \in Agents
  BY DEF RowsInv, PipelineRows, ActiveCalls, ActiveCallStates
<1>1. CASE wk'[w].agent = wk[w].agent /\ UNCHANGED <<agent, call>>
  <2>1. ActiveCalls' = ActiveCalls /\ \A x \in Workers : wk'[x].agent = wk[x].agent
    BY <1>0, <1>1 DEF ActiveCalls
  <2>2. Used' = Used
    BY <1>1, <2>1 DEF Used
  <2> QED
    BY <1>1, <2>1, <2>2 DEF UseInv, HeldOnce, ServedOnce, HeldIdle, UsedTaken
<1>2. ASSUME NEW a \in EligibleAgents, wk'[w].agent = a, UNCHANGED call,
             agent' = [agent EXCEPT ![a].status = "RESERVED", ![a].lease = "live"]
      PROVE  UseInv'
  <2>1. a \in Agents /\ a \notin Used
    BY DEF EligibleAgents, UseInv, UsedTaken, Taken
  <2>2. ActiveCalls' = ActiveCalls /\ Used' \subseteq Used \cup {a}
    BY <1>0, <1>2 DEF ActiveCalls, Used
  <2>3. Taken(agent'[a]) /\ \A b \in Agents \ {a} : agent'[b] = agent[b]
    BY <1>2, <1>t, <2>1 DEF Taken, AgentRows
  <2>4. HeldOnce'
    BY <1>0, <1>2, <2>1 DEF UseInv, HeldOnce, Used
  <2>5. HeldIdle' /\ ServedOnce'
    BY <1>0, <1>2, <2>1, <2>2 DEF UseInv, HeldIdle, ServedOnce, Used
  <2>6. UsedTaken'
    BY <2>2, <2>3 DEF UseInv, UsedTaken
  <2> QED
    BY <2>4, <2>5, <2>6 DEF UseInv
<1>3. CASE /\ wk'[w] = Idle /\ UNCHANGED call
           /\ \A a \in Agents \ {wk[w].agent} : agent'[a] = agent[a]
  <2>1. ActiveCalls' = ActiveCalls
    BY <1>3 DEF ActiveCalls
  <2>2. HeldOnce' /\ ServedOnce' /\ HeldIdle'
    BY <1>0, <1>3, <1>i, <1>r, <2>1 DEF UseInv, HeldOnce, ServedOnce, HeldIdle
  <2>3. ASSUME NEW a \in Agents, a \in Used'
        PROVE  a \in Used /\ a # wk[w].agent
    <3>1. CASE \E x \in Workers \ {w} : a = wk[x].agent
      BY <3>1, <2>3 DEF Used, UseInv, HeldOnce
    <3>2. CASE \E c \in ActiveCalls : a = call[c].agent
      BY <3>2 DEF Used, UseInv, HeldIdle
    <3> QED
      BY <1>0, <1>3, <1>i, <2>1, <2>3, <3>1, <3>2 DEF Used
  <2>4. UsedTaken'
    BY <1>3, <2>3 DEF UseInv, UsedTaken
  <2> QED
    BY <2>2, <2>4 DEF UseInv
<1>4. CASE wk'[w] = Idle /\ CommitDispatch(w)
  <2> DEFINE c == wk[w].call
             a == wk[w].agent
  <2>1. a \in Agents
    BY <1>4, <1>t DEF CommitDispatch, HoldsAgent, Holding
  <2>2. /\ c \in Calls /\ call[c].state = "NONE"
        /\ call'[c].agent = a
        /\ call'[c].state = "INITIATED"
        /\ \A d \in Calls \ {c} : call'[d] = call[d]
    BY <1>4, <1>t, DispatchIsNew
  <2>3. c \notin ActiveCalls /\ ActiveCalls' = ActiveCalls \cup {c}
    BY <2>2 DEF ActiveCalls, ActiveCallStates
  <2>4. HeldOnce'
    BY <1>0, <1>4, <1>i DEF UseInv, HeldOnce
  <2>5. ServedOnce'
    BY <2>2, <2>3, <1>r DEF UseInv, ServedOnce, HeldIdle, ActiveCalls
  <2>6. HeldIdle'
    <3> SUFFICES ASSUME NEW x \in Workers, NEW d \in ActiveCalls'
                 PROVE  wk'[x].agent # call'[d].agent
      BY DEF HeldIdle
    <3>1. CASE x = w
      BY <1>4, <1>i, <1>r, <2>1, <2>2, <2>3, <3>1 DEF ActiveCalls
    <3>2. CASE x # w /\ d = c
      BY <1>0, <2>1, <2>2, <3>2 DEF UseInv, HeldOnce
    <3>3. CASE x # w /\ d # c
      BY <1>0, <2>2, <2>3, <3>3 DEF UseInv, HeldIdle, ActiveCalls
    <3> QED
      BY <3>1, <3>2, <3>3
  <2>7. Used' \cap Agents \subseteq Used
    BY <1>0, <1>4, <1>i, <2>2, <2>3 DEF Used, ActiveCalls
  <2>8. Taken(agent[a]) /\ Taken(agent'[a]) /\ \A b \in Agents \ {a} : agent'[b] = agent[b]
    <3>1. agent' = [agent EXCEPT ![a].status = "DIALING"]
      BY <1>4 DEF CommitDispatch
    <3>2. Taken(agent[a])
      BY <2>1 DEF UseInv, UsedTaken, Used
    <3> QED
      BY <1>t, <2>1, <3>1, <3>2 DEF Taken, AgentRows
  <2>9. UsedTaken'
    BY <2>7, <2>8 DEF UseInv, UsedTaken
  <2> QED
    BY <2>4, <2>5, <2>6, <2>9 DEF UseInv
<1> QED
  BY <1>t, <1>1, <1>2, <1>3, <1>4, HoldMoves

\* An event frees only the agent of the call it ends.
LEMMA UseIngest ==
    ASSUME DeliveryInv, RowsInv, UseInv, NEW i \in Ingesters, Ingest(i)
    PROVE  UseInv'
<1> DEFINE c == ing[i].event[1]
<1>t. TypeOK /\ call \in [Calls -> CallRows] /\ wk' = wk
  BY DEF DeliveryInv, TypeOK, SchemaTypeOK, Ingest
<1>1. CASE UNCHANGED <<agent, call>>
  BY <1>1, <1>t, UseKept
<1>m. ASSUME c \in Calls, call[c].state \in ActiveCallStates, SetCallState(i, NewState(i))
      PROVE  /\ c \in ActiveCalls
             /\ \A d \in Calls : call'[d].agent = call[d].agent
             /\ \A d \in Calls \ {c} : call'[d] = call[d]
             /\ call'[c].state = NewState(i)
  BY <1>m, <1>t DEF SetCallState, ActiveCalls, CallRows
<1>2. CASE /\ c \in Calls /\ call[c].state \in ActiveCallStates
           /\ SetCallState(i, NewState(i))
           /\ NewState(i) \in ActiveCallStates /\ UNCHANGED agent
  <2>1. ActiveCalls' = ActiveCalls
    BY <1>2, <1>m DEF ActiveCalls
  <2>2. \A d \in ActiveCalls : call'[d].agent = call[d].agent
    BY <1>2, <1>m DEF ActiveCalls
  <2>3. Used' = Used
    BY <1>t, <2>1, <2>2 DEF Used
  <2> QED
    BY <1>2, <1>t, <2>1, <2>2, <2>3
       DEF UseInv, HeldOnce, ServedOnce, HeldIdle, UsedTaken
<1>3. CASE /\ c \in Calls /\ call[c].state \in ActiveCallStates
           /\ SetCallState(i, NewState(i))
           /\ NewState(i) \in TerminalCallStates
           /\ \A a \in Agents \ {call[c].agent} : agent'[a] = agent[a]
  <2>1. ActiveCalls' = ActiveCalls \ {c}
    BY <1>3, <1>m DEF ActiveCalls, ActiveCallStates, TerminalCallStates
  <2>2. \A d \in ActiveCalls : call'[d].agent = call[d].agent
    BY <1>3, <1>m DEF ActiveCalls
  <2>3. Used' \subseteq Used \ {call[c].agent}
    BY <1>3, <1>m, <1>t, <2>1, <2>2 DEF Used, UseInv, ServedOnce, HeldIdle
  <2> QED
    BY <1>3, <1>t, <2>1, <2>2, <2>3
       DEF UseInv, HeldOnce, ServedOnce, HeldIdle, UsedTaken
<1> QED
  BY <1>t, <1>1, <1>2, <1>3, PipelineEvents DEF Ingest

\* The reaper and time leave an agent in use alone, or take it OFFLINE.
LEMMA UseStep ==
    LeasesOutlast /\ DeliveryInv /\ RowsInv /\ UseInv /\ [Next]_vars => UseInv'
<1> SUFFICES ASSUME LeasesOutlast, DeliveryInv, RowsInv, UseInv, [Next]_vars PROVE UseInv'
  OBVIOUS
<1>t. TypeOK /\ agent \in [Agents -> AgentRows]
  BY DEF DeliveryInv, TypeOK, SchemaTypeOK
<1>s. ASSUME UNCHANGED <<wk, call, agent>> PROVE UseInv'
  BY <1>s, UseKept
<1>1. CASE UNCHANGED vars
  BY <1>1, <1>s DEF vars
<1>2. ASSUME NEW i \in Ingesters,
             \/ \E e \in Arrivals : IngestRead(i, e) /\ UNCHANGED <<wk, leg>>
             \/ IngestAborted(i) /\ UNCHANGED <<wk, leg>>
      PROVE  UseInv'
  BY <1>2, <1>s DEF IngestRead, IngestAborted
<1>3. CASE RunOnce /\ UNCHANGED <<wk, leg, ing>>
  <2>1. call' = call /\ \A a \in Agents : agent'[a] = Offlined(Reclaimed(agent[a]))
    BY <1>3 DEF RunOnce
  <2>2. ASSUME NEW row \in AgentRows, Taken(row) PROVE Taken(Offlined(Reclaimed(row)))
    <3>1. Reclaimed(row) = row
      BY <2>2 DEF Reclaimed, Taken
    <3>2. Taken(Cleared(row, "OFFLINE"))
      BY DEF Cleared, Taken, AgentRows
    <3> QED
      BY <2>2, <3>1, <3>2 DEF Offlined
  <2> QED
    BY <1>3, <1>t, <2>1, <2>2, UseKept
<1>4. ASSUME NEW a \in Agents, AgentLeaseRunsOut(a) PROVE UseInv'
  <2>1. /\ UNCHANGED <<wk, call>> /\ \A b \in Agents \ {a} : agent'[b] = agent[b]
        /\ ~HeldByWorker(a) /\ ActiveCallsOn(a) = {}
    BY <1>4, <1>t DEF AgentLeaseRunsOut, LeasesOutlast
  <2>2. a \notin Used
    BY <2>1 DEF HeldByWorker, ActiveCallsOn, Used
  <2> QED
    BY <2>1, <2>2, UseKept
<1>5. ASSUME NEW a \in Agents, HeartbeatGoesStale(a) \/ Heartbeat(a) PROVE UseInv'
  <2>1. \A b \in Agents : Taken(agent[b]) => Taken(agent'[b])
    BY <1>5, <1>t DEF HeartbeatGoesStale, Heartbeat, Taken, AgentRows
  <2> QED
    BY <1>5, <2>1, UseKept DEF HeartbeatGoesStale, Heartbeat
<1>6. ASSUME NEW b \in Borrowers, BorrowerLeaseRunsOut(b) PROVE UseInv'
  BY <1>6, <1>s DEF BorrowerLeaseRunsOut
<1> QED
  BY <1>1, <1>2, <1>3, <1>4, <1>5, <1>6, UseWorker, UseIngest DEF Next

\* A worker and a call, two calls or two workers never share an agent: neither
\* crashes nor lost answers, stale heartbeats or repeated events bring it about,
\* only leases that run out on slow holders do.
THEOREM AgentsServeOneCall ==
    ASSUME OneIngester, LeasesOutlast PROVE Spec => []AgentServesOneCall
<1>1. RowsInv /\ UseInv => AgentServesOneCall
  <2> SUFFICES ASSUME RowsInv, UseInv, NEW a \in Agents
               PROVE  Cardinality({w \in Workers : wk[w].agent = a})
                        + Cardinality(ActiveCallsOn(a)) <= 1
    BY DEF AgentServesOneCall
  <2> DEFINE setups == {w \in Workers : wk[w].agent = a}
  <2>1. setups = {} \/ \E w \in Workers : setups = {w}
    BY DEF UseInv, HeldOnce
  <2>2. ActiveCallsOn(a) = {} \/ \E c \in ActiveCalls : ActiveCallsOn(a) = {c}
    BY DEF UseInv, ServedOnce, ActiveCallsOn
  <2>3. setups = {} \/ ActiveCallsOn(a) = {}
    BY DEF UseInv, HeldIdle, ActiveCallsOn
  <2>4. Cardinality({}) = 0 /\ \A x : Cardinality({x}) = 1
    BY FS_EmptySet, FS_Singleton
  <2> HIDE DEF setups
  <2>5. Cardinality(setups) \in {0, 1} /\ (setups = {} => Cardinality(setups) = 0)
    BY <2>1, <2>4
  <2>6. /\ Cardinality(ActiveCallsOn(a)) \in {0, 1}
        /\ ActiveCallsOn(a) = {} => Cardinality(ActiveCallsOn(a)) = 0
    BY <2>2, <2>4
  <2>7. Cardinality(setups) + Cardinality(ActiveCallsOn(a)) <= 1
    BY <2>3, <2>5, <2>6
  <2> QED
    BY <2>7 DEF setups
<1>2. Init => RowsInv /\ UseInv
  BY RowsInit, UseInit
<1>3. DeliveryInv /\ RowsInv /\ UseInv /\ [Next]_vars => RowsInv' /\ UseInv'
  BY RowsStep, UseStep
<1> QED
  BY <1>1, <1>2, <1>3, DeliveryInvariant, PTL DEF Spec

-----------------------------------------------------------------------------
(* Ended calls, with one ingester and events that may overtake the row. *)

\* A step that changes the row of a call finds it not ended.
LEMMA EndedRowsKept ==
    ASSUME DeliveryInv, RowsInv, [Next]_vars,
           NEW c \in Calls, call[c].state \in TerminalCallStates
    PROVE  call'[c] = call[c]
<1>t. TypeOK /\ call \in [Calls -> CallRows]
  BY DEF DeliveryInv, TypeOK, SchemaTypeOK
<1>1. ASSUME NEW w \in Workers, ClaimTask(w) \/ WorkerStep(w) \/ WorkerCrash(w)
      PROVE  call'[c] = call[c]
  <2>1. CASE CommitDispatch(w)
    BY <1>t, <2>1, DispatchIsNew DEF TerminalCallStates
  <2> QED
    BY <1>1, <1>t, <2>1, HoldMoves DEF RowsInv
<1>2. ASSUME NEW i \in Ingesters, Ingest(i) PROVE call'[c] = call[c]
  <2> DEFINE d == ing[i].event[1]
  <2>1. CASE call' = call
    BY <2>1
  <2>2. CASE d \in Calls /\ call[d].state \in ActiveCallStates /\ SetCallState(i, NewState(i))
    <3>1. c # d
      BY <2>2 DEF ActiveCallStates, TerminalCallStates
    <3> QED
      BY <1>t, <2>2, <3>1 DEF SetCallState
  <2> QED
    BY <1>t, <1>2, <2>1, <2>2, PipelineEvents DEF Ingest
<1>3. CASE RunOnce
  BY <1>3 DEF RunOnce
<1>4. CASE \/ \E i \in Ingesters : IngestAborted(i) \/ \E e \in Arrivals : IngestRead(i, e)
           \/ \E a \in Agents : AgentLeaseRunsOut(a) \/ HeartbeatGoesStale(a) \/ Heartbeat(a)
           \/ \E b \in Borrowers : BorrowerLeaseRunsOut(b)
           \/ UNCHANGED vars
  BY <1>4 DEF IngestAborted, IngestRead, AgentLeaseRunsOut, HeartbeatGoesStale, Heartbeat,
              BorrowerLeaseRunsOut, vars
<1> QED
  BY <1>1, <1>2, <1>3, <1>4 DEF Next

\* A call of the pipeline that has ended is never written again: no event, report or
\* worker changes its state or its agent ("late events are log-and-ignored", fsm.py:50).
CallsEndOnce ==
    [][\A c \in Calls : call[c].state \in TerminalCallStates => call'[c] = call[c]]_vars

\* It holds while one ingester runs; two can undo an end, as MCLateEvent shows.
THEOREM EndedCallsRest == ASSUME OneIngester PROVE Spec => CallsEndOnce
<1>1. DeliveryInv /\ RowsInv /\ [Next]_vars
        => [\A c \in Calls : call[c].state \in TerminalCallStates
                               => call'[c] = call[c]]_vars
  BY EndedRowsKept
<1>2. DeliveryInv /\ RowsInv /\ [Next]_vars => RowsInv'
  BY RowsStep
<1> QED
  BY <1>1, <1>2, RowsInit, DeliveryInvariant, PTL DEF Spec, CallsEndOnce

-----------------------------------------------------------------------------
(* Convergence, with one ingester and events that follow the commit of the *)
(* call's row: what is recorded has been applied.                          *)

EventsApplied ==
    /\ \A e \in seen : call[e[1]].state # "NONE"
    /\ \A i \in Ingesters : Busy(i) => ing[i].row.state # "NONE"
    /\ CompletedConverges

\* Whatever was lost before it, came after it or came twice, COMPLETED ends its call.
THEOREM CompletedIsFinal ==
    ASSUME OneIngester, ~EarlyEvents PROVE Spec => []CompletedConverges
<1>1. Init => EventsApplied
  BY DEF Init, IngestInit, Resting, Busy, EventsApplied, CompletedConverges
<1>2. DeliveryInv /\ RowsInv /\ EventsApplied /\ [Next]_vars => EventsApplied'
  <2> SUFFICES ASSUME DeliveryInv, RowsInv, EventsApplied, [Next]_vars PROVE EventsApplied'
    OBVIOUS
  <2>t. TypeOK /\ call \in [Calls -> CallRows]
    BY DEF DeliveryInv, TypeOK, SchemaTypeOK
  <2>s. ASSUME UNCHANGED <<call, seen>>,
               \A i \in Ingesters : Busy(i)' => ing'[i].row.state # "NONE"
        PROVE  EventsApplied'
    BY <2>s DEF EventsApplied, CompletedConverges
  <2>u. ASSUME UNCHANGED <<call, seen, ing>> PROVE EventsApplied'
    BY <2>u, <2>s DEF EventsApplied, Busy
  <2>1. CASE UNCHANGED vars
    BY <2>1, <2>u DEF vars
  <2>2. ASSUME NEW w \in Workers, ClaimTask(w) \/ WorkerStep(w) \/ WorkerCrash(w),
               UNCHANGED ing
        PROVE  EventsApplied'
    <3>1. seen' = seen
      BY <2>2 DEF ClaimTask, WorkerStep, WorkerCrash, ReserveAgent, AgentNotFound,
                  ReserveBorrower, BorrowerNotFound, OriginateAccepted, OriginateRefused,
                  OriginateReplyLost, CommitDispatch, DispatchRolledBack, CommitFailure
    <3>2. CASE call' = call
      BY <2>2, <2>u, <3>1, <3>2
    <3>3. CASE CommitDispatch(w)
      <4>1. /\ wk[w].call \in Calls /\ call[wk[w].call].state = "NONE"
            /\ call'[wk[w].call].state # "NONE"
            /\ \A d \in Calls \ {wk[w].call} : call'[d] = call[d]
        BY <3>3, <2>t, DispatchIsNew
      <4>2. \A e \in seen : e[1] # wk[w].call /\ e[1] \in Calls
        BY <4>1, <2>t DEF EventsApplied, TypeOK, SchemaTypeOK, EventIds
      <4>3. <<wk[w].call, "COMPLETED">> \notin seen
        BY <4>1 DEF EventsApplied
      <4> QED
        BY <2>2, <3>1, <4>1, <4>2, <4>3 DEF EventsApplied, CompletedConverges, Busy
    <3> QED
      BY <2>2, <2>t, <3>2, <3>3, HoldMoves DEF RowsInv
  <2>3. ASSUME NEW i \in Ingesters, NEW e \in Arrivals, IngestRead(i, e)
        PROVE  EventsApplied'
    <3>1. call[e[1]].state # "NONE"
      BY DEF Arrivals
    <3>2. \A j \in Ingesters : Busy(j)' => ing'[j].row.state # "NONE"
      BY <2>3, <2>t, <3>1 DEF IngestRead, EventsApplied, Busy, TypeOK, IngestTypeOK
    <3> QED
      BY <2>3, <2>s, <3>2 DEF IngestRead
  <2>4. ASSUME NEW i \in Ingesters, Ingest(i) PROVE EventsApplied'
    <3> DEFINE c == ing[i].event[1]
    <3>1. /\ Record(i) /\ Busy(i) /\ c \in Calls /\ IngestCommit(i)
          /\ ing[i].row = call[c] /\ call[c].state # "NONE"
          /\ seen' = seen \cup {ing[i].event}
      BY <2>4, <2>t, PipelineEvents DEF Ingest, EventsApplied, RowsInv, CopyIsCurrent, Record
    <3>2. \A j \in Ingesters : Busy(j)' => ing'[j].row.state # "NONE"
      BY <2>t, <3>1, RecordedAlone
    <3>m. ASSUME call[c].state \in ActiveCallStates,
                 NewState(i) \in ActiveCallStates \cup TerminalCallStates,
                 SetCallState(i, NewState(i))
          PROVE  /\ call'[c].state = NewState(i)
                 /\ call'[c].state # "NONE" /\ call[c].state \notin TerminalCallStates
                 /\ \A d \in Calls \ {c} : call'[d] = call[d]
      <4>1. /\ call'[c].state = NewState(i)
            /\ \A d \in Calls \ {c} : call'[d] = call[d]
        BY <2>t, <3>1, <3>m DEF SetCallState, CallRows
      <4> QED
        BY <3>m, <4>1 DEF ActiveCallStates, TerminalCallStates
    <3>3. ASSUME NEW d \in Calls
          PROVE  /\ call[d].state # "NONE" => call'[d].state # "NONE"
                 /\ call[d].state \in TerminalCallStates => call'[d] = call[d]
                 /\ d # c => call'[d] = call[d]
      <4>1. CASE call' = call
        BY <4>1
      <4>2. CASE /\ call[c].state \in ActiveCallStates
                 /\ NewState(i) \in ActiveCallStates \cup TerminalCallStates
                 /\ SetCallState(i, NewState(i))
        BY <3>1, <3>m, <4>2
      <4> QED
        BY <2>t, <3>1, <4>1, <4>2, PipelineEvents
    <3>4. ing[i].event = <<c, "COMPLETED">> => call'[c].state \in TerminalCallStates
      <4> SUFFICES ASSUME ing[i].event = <<c, "COMPLETED">>, call[c].state \notin TerminalCallStates
                   PROVE  call'[c].state \in TerminalCallStates
        BY <3>1, <3>3
      <4>1. FsmEvent(i) = "complete"
        BY DEF FsmEvent, FsmEventOf
      <4>2. Applied(i)
        BY <3>1, <4>1 DEF Applied, Applies
      <4>3. NewState(i) \in TerminalCallStates
        BY <3>1, <4>1, <4>2 DEF NewState, NextState, Applied, TerminalCallStates
      <4>4. call[c].state \in ActiveCallStates /\ SetCallState(i, NewState(i))
        BY <2>t, <3>1, <4>2, PipelineEvents
      <4> QED
        BY <3>m, <4>3, <4>4
    <3>5. \A e \in seen' : call'[e[1]].state # "NONE"
      BY <2>t, <3>1, <3>3 DEF EventsApplied, TypeOK, SchemaTypeOK, EventIds
    <3>6. CompletedConverges'
      <4> SUFFICES ASSUME NEW d \in Calls, <<d, "COMPLETED">> \in seen',
                          call'[d].state # "NONE"
                   PROVE  call'[d].state \in TerminalCallStates
        BY DEF CompletedConverges
      <4>1. CASE <<d, "COMPLETED">> \in seen
        BY <4>1, <3>3 DEF EventsApplied, CompletedConverges
      <4>2. CASE <<d, "COMPLETED">> = ing[i].event
        BY <4>2, <3>4
      <4> QED
        BY <3>1, <4>1, <4>2
    <3> QED
      BY <3>2, <3>5, <3>6 DEF EventsApplied
  <2>5. ASSUME NEW i \in Ingesters, IngestAborted(i) PROVE EventsApplied'
    <3>1. \A j \in Ingesters : Busy(j)' => ing'[j].row.state # "NONE"
      BY <2>5, <2>t DEF IngestAborted, EventsApplied, Resting, Busy, TypeOK, IngestTypeOK
    <3> QED
      BY <2>5, <2>s, <3>1 DEF IngestAborted
  <2>6. CASE RunOnce /\ UNCHANGED <<wk, leg, ing>>
    BY <2>6, <2>u DEF RunOnce
  <2>7. CASE \/ \E a \in Agents : AgentLeaseRunsOut(a) \/ HeartbeatGoesStale(a) \/ Heartbeat(a)
             \/ \E b \in Borrowers : BorrowerLeaseRunsOut(b)
    <3>1. UNCHANGED <<call, seen, ing>>
      BY <2>7 DEF AgentLeaseRunsOut, HeartbeatGoesStale, Heartbeat, BorrowerLeaseRunsOut
    <3> QED
      BY <2>u, <3>1
  <2> QED
    BY <2>1, <2>2, <2>3, <2>4, <2>5, <2>6, <2>7 DEF Next
<1>3. DeliveryInv /\ RowsInv /\ [Next]_vars => RowsInv'
  BY RowsStep
<1>4. EventsApplied => CompletedConverges
  BY DEF EventsApplied
<1> QED
  BY <1>1, <1>2, <1>3, <1>4, RowsInit, DeliveryInvariant, PTL DEF Spec

-----------------------------------------------------------------------------
(* The refinement: SmartDialer implements TaskDelivery.                    *)

Dials(t) == {c \in Legs : leg[c].task = t}

\* Steps that the abstract specification does not see.
LEMMA PromiseStutters ==
    ASSUME UNCHANGED <<task, leg>>
    PROVE  UNCHANGED Promise!vars
BY DEF Promise!vars, Legs

\* Initial rows map to an initial state of the promise.
LEMMA PromiseInit == Init => Promise!Init
<1> SUFFICES ASSUME Init PROVE Promise!Init
  OBVIOUS
<1>1. Legs = {}
  BY DEF Init, WorkerInit, Legs
<1> QED
  BY <1>1 DEF Init, Promise!Init, StatusOf

\* What a worker does to its task is a step of the promise.
LEMMA PromiseWorker ==
    ASSUME DeliveryInv, NEW w \in Workers,
           ClaimTask(w) \/ WorkerStep(w) \/ WorkerCrash(w)
    PROVE  [Promise!Next]_(Promise!vars)
<1>a. task \in [Tasks -> TaskStates]
  BY DEF DeliveryInv, TypeOK, SchemaTypeOK
<1>h. wk[w].pc # "idle" => wk[w].task \in Tasks /\ task[wk[w].task] = "PROCESSING"
  BY DEF DeliveryInv, ClaimsHeld
<1>u. wk[w].pc \in {"claimed", "agent_held", "ready"} => Dials(wk[w].task) = {}
  BY DEF DeliveryInv, UndialedUntilOriginate, Dials
<1>v. /\ StatusOf["PENDING"] = "open" /\ StatusOf["PROCESSING"] = "taken"
      /\ StatusOf["DISPATCHED"] = "dispatched" /\ StatusOf["FAILED"] = "failed"
  BY DEF StatusOf
\* A write to one task row, seen through StatusOf.
<1>s. ASSUME NEW t \in Tasks, NEW s \in {"PENDING", "PROCESSING", "DISPATCHED", "FAILED"},
             task' = [task EXCEPT ![t] = s]
      PROVE  [u \in Tasks |-> StatusOf[task[u]]]'
               = [[u \in Tasks |-> StatusOf[task[u]]] EXCEPT ![t] = StatusOf[s]]
  BY <1>a, <1>s
<1>d. ASSUME UNCHANGED leg
      PROVE  UNCHANGED [u \in Tasks |-> {c \in Legs : leg[c].task = u}]
  BY <1>d DEF Legs
<1>1. CASE ClaimTask(w)
  <2>1. PICK t \in Tasks : task[t] = "PENDING" /\ task' = [task EXCEPT ![t] = "PROCESSING"]
    BY <1>1 DEF ClaimTask
  <2>2. Promise!Take(t)
    BY <1>1, <1>s, <1>d, <1>v, <2>1 DEF Promise!Take, ClaimTask
  <2> QED
    BY <2>2 DEF Promise!Next
<1>2. CASE AgentNotFound(w) \/ BorrowerNotFound(w)
  <2>0. PICK t \in Tasks : t = wk[w].task /\ task[t] = "PROCESSING"
    BY <1>2, <1>h DEF AgentNotFound, BorrowerNotFound
  <2>1. /\ Dials(t) = {}
        /\ task' = [task EXCEPT ![t] = "PENDING"]
        /\ UNCHANGED leg
    BY <1>2, <1>u, <2>0 DEF AgentNotFound, BorrowerNotFound
  <2>2. Promise!PutBack(t)
    BY <1>s, <1>d, <1>v, <2>0, <2>1 DEF Promise!PutBack, Dials
  <2> QED
    BY <2>2 DEF Promise!Next
<1>3. CASE OriginateAccepted(w) \/ OriginateReplyLost(w)
  <2>0. PICK t \in Tasks : t = wk[w].task /\ task[t] = "PROCESSING"
    BY <1>3, <1>h DEF OriginateAccepted, OriginateReplyLost
  <2>1. PICK c \in Calls : PlaceLeg(w, c)
    BY <1>3 DEF OriginateAccepted, OriginateReplyLost
  <2>2. /\ Dials(t) = {}
        /\ UNCHANGED task
    BY <1>3, <1>u, <2>0 DEF OriginateAccepted, OriginateReplyLost
  <2>3. /\ c \notin Legs
        /\ leg'[c].task = t
        /\ \A d \in Calls \ {c} : leg'[d] = leg[d]
        /\ Legs' = Legs \cup {c}
    <3>1. leg' = [leg EXCEPT ![c] = [task |-> t, agent |-> wk[w].agent,
                                     borrower |-> wk[w].borrower]]
          /\ leg[c] = NoLeg
      BY <2>0, <2>1 DEF PlaceLeg
    <3>2. leg'[c].task = t /\ \A d \in Calls \ {c} : leg'[d] = leg[d]
      BY <3>1 DEF DeliveryInv, TypeOK, WorkerTypeOK
    <3>3. leg'[c] # NoLeg
      BY <3>2, SchemaAssumption DEF NoLeg
    <3> QED
      BY <3>1, <3>2, <3>3 DEF Legs
  <2>4. Dials(t)' = {c}
    BY <2>2, <2>3 DEF Dials, Legs
  <2>6. ASSUME NEW u \in Tasks \ {t}
        PROVE  Dials(u)' = Dials(u)
    BY <2>3 DEF Dials, Legs
  <2>5. Promise!Dial(t)
    <3>1. [u \in Tasks |-> {d \in Legs : leg[d].task = u}]'
             = [[u \in Tasks |-> {d \in Legs : leg[d].task = u}] EXCEPT ![t] = {c}]
      BY <2>4, <2>6 DEF Dials
    <3>2. \A u \in Tasks : c \notin Dials(u)
      BY <2>3 DEF Dials
    <3> QED
      BY <1>v, <2>0, <2>2, <3>1, <3>2 DEF Promise!Dial, Dials
  <2> QED
    BY <2>5 DEF Promise!Next
<1>4. CASE CommitDispatch(w)
  <2>0. PICK t \in Tasks : t = wk[w].task /\ task[t] = "PROCESSING"
    BY <1>4, <1>h DEF CommitDispatch
  <2>1. /\ Dials(t) # {}
        /\ task' = [task EXCEPT ![t] = "DISPATCHED"]
        /\ UNCHANGED leg
    BY <1>4, <2>0 DEF CommitDispatch, DeliveryInv, PlacedIsDialed, Dials
  <2>2. Promise!Dispatch(t)
    BY <1>s, <1>d, <1>v, <2>0, <2>1 DEF Promise!Dispatch, Dials
  <2> QED
    BY <2>2 DEF Promise!Next
<1>5. CASE CommitFailure(w)
  <2>0. PICK t \in Tasks : t = wk[w].task /\ task[t] = "PROCESSING"
    BY <1>5, <1>h DEF CommitFailure
  <2>1. /\ task' = [task EXCEPT ![t] = "FAILED"]
        /\ UNCHANGED leg
    BY <1>5, <2>0 DEF CommitFailure
  <2>2. Promise!GiveUp(t)
    BY <1>s, <1>d, <1>v, <2>0, <2>1 DEF Promise!GiveUp
  <2> QED
    BY <2>2 DEF Promise!Next
<1>6. CASE \/ ReserveAgent(w) \/ ReserveBorrower(w) \/ OriginateRefused(w)
           \/ DispatchRolledBack(w) \/ WorkerCrash(w)
  BY <1>6, PromiseStutters
     DEF ReserveAgent, ReserveBorrower, OriginateRefused, DispatchRolledBack, WorkerCrash
<1> QED
  BY <1>1, <1>2, <1>3, <1>4, <1>5, <1>6 DEF WorkerStep

\* Every step maps to a step of the promise or to none.
LEMMA PromiseStep ==
    DeliveryInv /\ [Next]_vars => [Promise!Next]_(Promise!vars)
<1> SUFFICES ASSUME DeliveryInv, [Next]_vars PROVE [Promise!Next]_(Promise!vars)
  OBVIOUS
<1>1. CASE \E w \in Workers : ClaimTask(w) \/ WorkerStep(w) \/ WorkerCrash(w)
  BY <1>1, PromiseWorker
<1>2. CASE UNCHANGED <<task, leg>>
  BY <1>2, PromiseStutters
<1>3. ASSUME NEW i \in Ingesters,
             \/ \E e \in Arrivals : IngestRead(i, e) /\ UNCHANGED <<wk, leg>>
             \/ Ingest(i)
             \/ IngestAborted(i) /\ UNCHANGED <<wk, leg>>
      PROVE  UNCHANGED <<task, leg>>
  BY <1>3 DEF IngestRead, Ingest, IngestCommit, IngestAborted, IngestIgnored, IngestAdvanced,
              IngestAttached, IngestUnattached, IngestEnded, Record
<1>4. ASSUME \/ RunOnce /\ UNCHANGED <<wk, leg, ing>>
             \/ \E a \in Agents : AgentLeaseRunsOut(a) \/ HeartbeatGoesStale(a) \/ Heartbeat(a)
             \/ \E b \in Borrowers : BorrowerLeaseRunsOut(b)
      PROVE  UNCHANGED <<task, leg>>
  BY <1>4 DEF RunOnce, AgentLeaseRunsOut, HeartbeatGoesStale, Heartbeat, BorrowerLeaseRunsOut
<1>5. CASE UNCHANGED vars
  BY <1>5, <1>2 DEF vars
<1> QED
  BY <1>1, <1>2, <1>3, <1>4, <1>5 DEF Next

\* The pipeline keeps the promise of TaskDelivery: a task is put back only while
\* it has not been dialed, is dialed at most once, and stays as it was settled.
THEOREM ImplementsPromise == Spec => DeliversAsPromised
BY PromiseInit, PromiseStep, DeliveryInvariant, PTL DEF Spec, DeliversAsPromised, Promise!Spec
=============================================================================
