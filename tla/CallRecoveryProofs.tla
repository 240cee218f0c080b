------------------------- MODULE CallRecoveryProofs -------------------------
(***************************************************************************)
(* Proofs about the attachment of agents in CallRecovery, for any agents,  *)
(* calls and ingesters, and about calls that have ended.  The argument for *)
(* the first is that a call is attached by its one ANSWERED event and      *)
(* gives its agent back by its one COMPLETED event, whatever copies of its *)
(* row the other ingesters and the reaper hold; for the second, that only  *)
(* a copy from before its end can undo a call's end.                       *)
(***************************************************************************)
EXTENDS CallRecovery, TLAPS

\* What the argument needs: calls are dialed without an agent, providers send the
\* four events they do send, each under an id of its own, and their word for a call
\* is never "ringing", which would set an answered call back.
OneEnding ==
    /\ Bound = {}
    /\ Arriving \subseteq {"INITIATED", "RINGING", "ANSWERED", "COMPLETED"}
    /\ "ringing" \notin Reports

-----------------------------------------------------------------------------
(* The machine *)

\* CALL_TRANSITIONS (fsm.py:21): what an event that applies makes of a state.
LEMMA Moves ==
    ASSUME NEW s \in CallStates, NEW event, Applies(s, event)
    PROVE  /\ NextState(s, event) \in CallStates
           /\ event = "answer" => s \in {"RINGING", "UNKNOWN"} /\ NextState(s, event) = "ANSWERED"
           /\ event = "complete" => NextState(s, event) = "COMPLETED"
           /\ event = "ringing" => s = "INITIATED" /\ NextState(s, event) = "RINGING"
           /\ event = "initiate" => s \in {"QUEUED", "RESERVED"}
<1>1. CASE event \in {"complete", "completed"}
  BY <1>1 DEF NextState, CallStates
<1>2. CASE event \notin {"complete", "completed"}
  <2>1. RowsFor(s, event) # {}
    BY <1>2 DEF Applies
  <2>2. PICK row \in RowsFor(s, event) : NextState(s, event) = row[3]
    BY <1>2, <2>1 DEF NextState
  <2>3. row \in CallTransitions /\ row[1] = s /\ row[2] = event
    BY DEF RowsFor
  <2> QED
    BY <2>2, <2>3 DEF CallTransitions, CallStates
<1> QED
  BY <1>1, <1>2

\* A report ends a call in set-up, sets it from INITIATED to RINGING or leaves it
\* (reaper.py:66-75).
LEMMA ReportMoves ==
    ASSUME NEW s \in {"INITIATED", "RINGING", "ANSWERED"}, NEW report \in Reports
    PROVE  /\ Reconciled(s, report) \in CallStates
           /\ \/ Reconciled(s, report) \in TerminalCallStates
              \/ Reconciled(s, report) = s
              \/ report = "ringing"
<1>1. report \in {"initiated", "ringing", "answered", "completed", "failed", "none"}
  BY ReaperAssumption
<1>2. CASE ~Applies(s, report)
  BY <1>2 DEF Reconciled, NextState, CallStates, TerminalCallStates
<1>3. CASE Applies(s, report) /\ report = "completed"
  BY <1>3 DEF Reconciled, NextState, CallStates, TerminalCallStates
<1>4. CASE Applies(s, report) /\ report # "completed"
  <2>1. RowsFor(s, report) # {}
    BY <1>1, <1>4 DEF Applies
  <2>2. PICK row \in RowsFor(s, report) : NextState(s, report) = row[3]
    BY <1>1, <1>4, <2>1 DEF NextState
  <2>3. row \in CallTransitions /\ row[1] = s /\ row[2] = report
    BY DEF RowsFor
  <2>4. report = "ringing" /\ NextState(s, report) \in CallStates
    BY <1>1, <1>4, <2>2, <2>3 DEF CallTransitions, CallStates
  <2> QED
    BY <2>4 DEF Reconciled
<1> QED
  BY <1>2, <1>3, <1>4

\* Whatever the reaper makes of a report is a state.
LEMMA ReconciledTyped ==
    ASSUME NEW s \in CallStates \cup {"NONE"}, NEW report \in Reports
    PROVE  Reconciled(s, report) \in CallStates \cup {"NONE"}
<1>1. CASE report = "none" \/ ~Applies(s, report) \/ report \in {"complete", "completed"}
  BY <1>1 DEF Reconciled, NextState, CallStates
<1>2. CASE ~(report = "none" \/ ~Applies(s, report) \/ report \in {"complete", "completed"})
  <2>1. RowsFor(s, report) # {}
    BY <1>2 DEF Applies
  <2>2. PICK row \in RowsFor(s, report) : Reconciled(s, report) = row[3]
    BY <1>2, <2>1 DEF NextState, Reconciled
  <2>3. row \in CallTransitions
    BY DEF RowsFor
  <2> QED BY <2>2, <2>3 DEF CallTransitions, CallStates
<1> QED BY <1>1, <1>2

-----------------------------------------------------------------------------
(* Types *)

\* What a step writes to a row leaves it a row.
LEMMA RowsKept ==
    /\ \A row \in AgentRows, s \in AgentStatuses : Cleared(row, s) \in AgentRows
    /\ \A row \in AgentRows, l \in Leases : [row EXCEPT !.lease = l] \in AgentRows
    /\ \A row \in AgentRows, h \in Heartbeats : [row EXCEPT !.heartbeat = h] \in AgentRows
    /\ \A row \in CallRows, s \in CallStates : [row EXCEPT !.state = s] \in CallRows
    /\ \A row \in CallRows, a \in Agents \cup {Null} : [row EXCEPT !.agent = a] \in CallRows
    /\ \A row \in CallRows, l \in Leases : [row EXCEPT !.lease = l] \in CallRows
BY DEF Cleared, AgentRows, CallRows, Leases

\* Resting is what an ingester holds between events.
LEMMA RestingTyped == Resting \in [event : EventIds \cup {<<>>}, row : CallRows]
BY DEF Resting, NoCall, CallRows, Leases

\* The initial states are typed.
LEMMA RecoveryInit == Init => TypeOK
<1> SUFFICES ASSUME Init PROVE TypeOK
  OBVIOUS
<1>1. call \in [Calls -> CallRows] /\ agent \in [Agents -> AgentRows]
  BY DEF Init, CallRows, CallStates, AgentRows, AgentStatuses, Leases, Heartbeats
<1>2. borrower \in [Borrowers -> BorrowerRows] /\ task \in [Tasks -> TaskStates] /\ seen = {}
  BY DEF Init, BorrowerRows, Leases, TaskStates
<1>3. IngestTypeOK
  BY RestingTyped DEF Init, IngestInit, IngestTypeOK
<1>4. ReapTypeOK
  BY DEF Init, ReapInit, Rested, ReapTypeOK, NoCall, CallRows, Leases, StatusWrites
<1> QED BY <1>1, <1>2, <1>3, <1>4 DEF TypeOK, SchemaTypeOK

\* What an ingester holds, and what the machine makes of it.
LEMMA Held ==
    ASSUME TypeOK, NEW i \in Ingesters
    PROVE  /\ ing[i].row \in CallRows
           /\ Busy(i) => ing[i].event \in EventIds /\ ing[i].event[1] \in Calls
           /\ Applied(i) => ing[i].row.state \in CallStates /\ NewState(i) \in CallStates
<1>1. ing[i].row \in CallRows /\ ing[i].event \in EventIds \cup {<<>>}
  BY DEF TypeOK, IngestTypeOK
<1>2. Busy(i) => ing[i].event \in EventIds /\ ing[i].event[1] \in Calls
  BY <1>1 DEF Busy, EventIds
<1>3. Applied(i) => ing[i].row.state \in CallStates
  BY <1>1 DEF Applied, CallRows
<1> QED BY <1>1, <1>2, <1>3, Moves DEF NewState, Applied

\* A commit writes its call by the row that was read, and nothing of another call.
LEMMA CommitTyped ==
    ASSUME TypeOK, NEW i \in Ingesters, IngestCommit(i)
    PROVE  agent' \in [Agents -> AgentRows] /\ call' \in [Calls -> CallRows]
<1> DEFINE c == ing[i].event[1]
<1>0. /\ agent \in [Agents -> AgentRows] /\ call \in [Calls -> CallRows]
      /\ c \in Calls
      /\ {"AVAILABLE", "CONNECTED"} \subseteq AgentStatuses
      /\ {"ANSWERED", "CONNECTED"} \subseteq CallStates
  BY Held DEF TypeOK, SchemaTypeOK, IngestCommit, IngestIgnored, IngestAdvanced,
              IngestAttached, IngestUnattached, IngestEnded, Record, AgentStatuses, CallStates
<1>1. ASSUME NEW s \in CallStates, SetCallState(i, s) PROVE call' \in [Calls -> CallRows]
  <2>1. call' = [call EXCEPT ![c] = [call[c] EXCEPT !.state = s]]
    BY <1>0, <1>1 DEF SetCallState
  <2> QED BY <1>0, <2>1, RowsKept
<1>2. CASE IngestIgnored(i)
  BY <1>0, <1>2 DEF IngestIgnored
<1>3. CASE IngestAdvanced(i)
  BY <1>0, <1>1, <1>3, Held DEF IngestAdvanced
<1>4. CASE IngestAttached(i)
  <2>1. PICK a \in FreeAgents :
             /\ agent' = [agent EXCEPT ![a] = Cleared(@, "CONNECTED")]
             /\ call' = [call EXCEPT ![c].state = "CONNECTED", ![c].agent = a]
    BY <1>4 DEF IngestAttached
  <2>2. a \in Agents
    BY DEF FreeAgents
  <2>3. call' = [call EXCEPT ![c] = [[call[c] EXCEPT !.state = "CONNECTED"] EXCEPT !.agent = a]]
    BY <1>0, <2>1
  <2>4. [[call[c] EXCEPT !.state = "CONNECTED"] EXCEPT !.agent = a] \in CallRows
    BY <1>0, <2>2, RowsKept
  <2> QED BY <1>0, <2>1, <2>2, <2>3, <2>4, RowsKept
<1>5. CASE IngestUnattached(i)
  BY <1>0, <1>1, <1>5 DEF IngestUnattached
<1>6. CASE IngestEnded(i)
  <2>1. agent' \in [Agents -> AgentRows]
    BY <1>0, <1>6, RowsKept DEF IngestEnded
  <2> QED BY <1>0, <1>1, <1>6, <2>1, Held DEF IngestEnded
<1> QED BY <1>2, <1>3, <1>4, <1>5, <1>6 DEF IngestCommit

\* What the UPDATE statements make of a row is a row.
LEMMA SweepRows ==
    \A row \in AgentRows :
        /\ Offlined(Reclaimed(row)) \in AgentRows
        /\ Offlined(Reclaimed(row)) # row
              => Offlined(Reclaimed(row)).status \in {"AVAILABLE", "OFFLINE"}
<1>0. {"AVAILABLE", "OFFLINE"} \subseteq AgentStatuses
  BY DEF AgentStatuses
<1>1. \A row \in AgentRows :
        /\ Reclaimed(row) \in AgentRows
        /\ Reclaimed(row) # row => Reclaimed(row).status = "AVAILABLE"
  BY <1>0, RowsKept DEF Reclaimed, Cleared, AgentRows
<1>2. \A row \in AgentRows :
        /\ Offlined(row) \in AgentRows
        /\ Offlined(row) # row => Offlined(row).status = "OFFLINE"
  BY <1>0, RowsKept DEF Offlined, Cleared, AgentRows
<1> QED BY <1>1, <1>2

\* The reaper's steps keep the types.
LEMMA ReapTyped ==
    ASSUME TypeOK, Sweep \/ Begin \/ (\E c \in Calls : Ask(c)) \/ Finish
                         \/ (ReapAborted /\ UNCHANGED ing)
    PROVE  TypeOK'
<1>0. /\ agent \in [Agents -> AgentRows] /\ call \in [Calls -> CallRows]
      /\ {"AVAILABLE", "OFFLINE"} \subseteq AgentStatuses
      /\ NoCall \in CallRows
  BY DEF TypeOK, SchemaTypeOK, AgentStatuses, NoCall, CallRows, Leases
<1>r. /\ reap.held \subseteq Agents /\ reap.copy \in [Calls -> CallRows]
      /\ reap.state \in [Calls -> CallStates \cup {"NONE"}]
      /\ reap.status \in [Agents -> StatusWrites] /\ reap.open \in BOOLEAN
  BY DEF TypeOK, ReapTypeOK
<1>d. Rested \in [open : BOOLEAN, held : SUBSET Agents, copy : [Calls -> CallRows],
                  state : [Calls -> CallStates \cup {"NONE"}],
                  status : [Agents -> StatusWrites]]
  BY <1>0 DEF Rested, StatusWrites
<1>1. CASE Sweep
  <2>1. agent' \in [Agents -> AgentRows]
    BY <1>0, <1>1, SweepRows DEF Sweep, RunOnce
  <2> QED BY <1>1, <2>1
          DEF Sweep, RunOnce, TypeOK, SchemaTypeOK, IngestTypeOK, ReapTypeOK
<1>2. CASE Begin
  <2> DEFINE copy == [c \in Calls |-> IF c \in StuckCalls THEN call[c] ELSE NoCall]
             state == [c \in Calls |-> "NONE"]
             status == [a \in Agents |-> IF a \in Updated
                                        THEN Offlined(Reclaimed(agent[a])).status
                                        ELSE "unread"]
  <2>1. reap' = [open |-> TRUE, held |-> Updated, copy |-> copy, state |-> state,
                 status |-> status]
    BY <1>2 DEF Begin, ReapBegin
  <2>2. status \in [Agents -> StatusWrites]
    <3>1. ASSUME NEW a \in Updated
          PROVE  Offlined(Reclaimed(agent[a])).status \in {"AVAILABLE", "OFFLINE"}
      BY <1>0, SweepRows DEF Updated
    <3> QED BY <3>1 DEF StatusWrites
  <2>3. copy \in [Calls -> CallRows] /\ state \in [Calls -> CallStates \cup {"NONE"}]
    BY <1>0
  <2>4. Updated \in SUBSET Agents
    BY DEF Updated
  <2> HIDE DEF copy, state, status
  <2>5. ReapTypeOK'
    BY <2>1, <2>2, <2>3, <2>4 DEF ReapTypeOK
  <2> QED BY <1>2, <2>5 DEF Begin, ReapBegin, TypeOK, SchemaTypeOK, IngestTypeOK
<1>3. ASSUME NEW c \in Calls, Ask(c) PROVE TypeOK'
  <2>1. PICK report \in Reports :
           reap' = [reap EXCEPT
                       !.copy[c] = NoCall,
                       !.state[c] = IF Reconciled(reap.copy[c].state, report)
                                          = reap.copy[c].state
                                    THEN "NONE"
                                    ELSE Reconciled(reap.copy[c].state, report),
                       !.status = [a \in Agents |-> IF a = reap.copy[c].agent
                                                    THEN StatusAfter(a) ELSE @[a]]]
    BY <1>3 DEF Ask, ReapAsk
  <2> DEFINE next == Reconciled(reap.copy[c].state, report)
             copy == [reap.copy EXCEPT ![c] = NoCall]
             state == [reap.state EXCEPT ![c] = IF next = reap.copy[c].state
                                                THEN "NONE" ELSE next]
             status == [a \in Agents |-> IF a = reap.copy[c].agent
                                         THEN StatusAfter(a) ELSE reap.status[a]]
  <2>2. reap' = [open |-> reap.open, held |-> reap.held, copy |-> copy, state |-> state,
                 status |-> status]
    BY <1>r, <2>1 DEF TypeOK, ReapTypeOK
  <2>3. copy \in [Calls -> CallRows]
    BY <1>0, <1>r
  <2>4. next \in CallStates \cup {"NONE"}
    <3>1. reap.copy[c].state \in CallStates \cup {"NONE"}
      BY <1>r DEF CallRows
    <3> QED BY <3>1, ReconciledTyped
  <2>5. state \in [Calls -> CallStates \cup {"NONE"}]
    BY <1>r, <2>4
  <2>6. status \in [Agents -> StatusWrites]
    <3>1. \A a \in Agents : StatusAfter(a) \in StatusWrites
      BY DEF StatusAfter, StatusWrites
    <3> QED BY <1>r, <3>1
  <2> HIDE DEF copy, state, status
  <2>7. ReapTypeOK'
    BY <1>r, <2>2, <2>3, <2>5, <2>6 DEF ReapTypeOK
  <2> QED BY <1>3, <2>7 DEF Ask, ReapAsk, TypeOK, SchemaTypeOK, IngestTypeOK
<1>4. CASE Finish
  <2>1. call' \in [Calls -> CallRows]
    <3>1. \A c \in Calls : reap.state[c] # "NONE" => reap.state[c] \in CallStates
      BY <1>r
    <3>2. \A c \in Calls : reap.state[c] # "NONE"
                              => [call[c] EXCEPT !.state = reap.state[c]] \in CallRows
      BY <1>0, <3>1, RowsKept
    <3> QED BY <1>0, <1>4, <3>2 DEF Finish, ReapCommit
  <2>2. agent' \in [Agents -> AgentRows]
    <3>1. \A a \in Agents : reap.status[a] \notin {"unread", "kept"}
                               => Cleared(agent[a], reap.status[a]) \in AgentRows
      BY <1>0, <1>r, RowsKept DEF StatusWrites
    <3> QED BY <1>0, <1>4, <3>1 DEF Finish, ReapCommit
  <2> QED BY <1>4, <1>d, <2>1, <2>2
          DEF Finish, ReapCommit, TypeOK, SchemaTypeOK, IngestTypeOK, ReapTypeOK
<1>5. CASE ReapAborted /\ UNCHANGED ing
  BY <1>5, <1>d DEF ReapAborted, TypeOK, SchemaTypeOK, IngestTypeOK, ReapTypeOK
<1> QED BY <1>1, <1>2, <1>3, <1>4, <1>5

\* Every step keeps the types.
LEMMA RecoveryStep == TypeOK /\ [Next]_vars => TypeOK'
<1> SUFFICES ASSUME TypeOK, [Next]_vars PROVE TypeOK'
  OBVIOUS
<1>0. /\ agent \in [Agents -> AgentRows] /\ call \in [Calls -> CallRows]
      /\ ing \in [Ingesters -> [event : EventIds \cup {<<>>}, row : CallRows]]
      /\ seen \subseteq EventIds
  BY DEF TypeOK, SchemaTypeOK, IngestTypeOK
<1>1. ASSUME NEW i \in Ingesters, NEW e \in Calls \X Arriving, IngestRead(i, e),
             UNCHANGED reap
      PROVE  TypeOK'
  <2>1. e \in EventIds /\ e[1] \in Calls
    BY RecoveryAssumption DEF EventIds
  <2>2. [event |-> e, row |-> call[e[1]]] \in [event : EventIds \cup {<<>>}, row : CallRows]
    BY <1>0, <2>1
  <2> QED BY <1>0, <1>1, <2>2
          DEF IngestRead, TypeOK, SchemaTypeOK, IngestTypeOK, ReapTypeOK
<1>2. ASSUME NEW i \in Ingesters, Ingest(i) PROVE TypeOK'
  <2>0. IngestCommit(i) /\ UNCHANGED reap
    BY <1>2 DEF Ingest
  <2>1. Record(i)
    BY <2>0 DEF IngestCommit, IngestIgnored, IngestAdvanced, IngestAttached,
                IngestUnattached, IngestEnded
  <2>2. ing' \in [Ingesters -> [event : EventIds \cup {<<>>}, row : CallRows]]
    BY <1>0, <2>1, RestingTyped DEF Record
  <2>3. seen' \subseteq EventIds
    BY <1>0, <2>1, Held DEF Record
  <2> QED BY <2>0, <2>1, <2>2, <2>3, CommitTyped
          DEF Record, TypeOK, SchemaTypeOK, IngestTypeOK, ReapTypeOK
<1>3. ASSUME NEW i \in Ingesters, IngestAborted(i), UNCHANGED reap PROVE TypeOK'
  BY <1>0, <1>3, RestingTyped
     DEF IngestAborted, TypeOK, SchemaTypeOK, IngestTypeOK, ReapTypeOK
<1>4. CASE Sweep \/ Begin \/ (\E c \in Calls : Ask(c)) \/ Finish
           \/ (ReapAborted /\ UNCHANGED ing)
  BY <1>4, ReapTyped
<1>5. ASSUME NEW c \in Calls, LeaseRunsOut(c) PROVE TypeOK'
  <2>1. "expired" \in Leases
    BY DEF Leases
  <2>2. call' = [call EXCEPT ![c] = [call[c] EXCEPT !.lease = "expired"]]
    BY <1>0, <1>5 DEF LeaseRunsOut
  <2>3. call' \in [Calls -> CallRows]
    BY <1>0, <2>1, <2>2, RowsKept
  <2>4. agent' \in [Agents -> AgentRows]
    BY <1>0, <1>5, <2>1, RowsKept DEF LeaseRunsOut
  <2> QED BY <1>5, <2>3, <2>4
          DEF LeaseRunsOut, TypeOK, SchemaTypeOK, IngestTypeOK, ReapTypeOK
<1>6. ASSUME NEW a \in Agents, HeartbeatStops(a) PROVE TypeOK'
  <2>1. agent' = [agent EXCEPT ![a] = [agent[a] EXCEPT !.heartbeat = "stale"]]
    BY <1>0, <1>6 DEF HeartbeatStops
  <2>2. agent' \in [Agents -> AgentRows]
    BY <1>0, <2>1, RowsKept DEF Heartbeats
  <2> QED BY <1>6, <2>2
          DEF HeartbeatStops, TypeOK, SchemaTypeOK, IngestTypeOK, ReapTypeOK
<1>7. CASE UNCHANGED vars
  BY <1>7 DEF vars, TypeOK, SchemaTypeOK, IngestTypeOK, ReapTypeOK
<1> QED
  BY <1>1, <1>2, <1>3, <1>4, <1>5, <1>6, <1>7 DEF Next

\* Rows of agents and calls, and the copies ingesters hold, keep their types through
\* every event, report and lost transaction (event_ingest_worker.py, reaper.py).
THEOREM RecoveryTypeCorrect == Spec => []TypeOK
BY RecoveryInit, RecoveryStep, PTL DEF Spec

-----------------------------------------------------------------------------
(* The life of an attachment *)

SetUp == {"INITIATED", "RINGING", "ANSWERED"}

\* A call that will not give its agent back any more, and does not need it.
Done(c) == <<c, "COMPLETED">> \in seen /\ call[c].state # "CONNECTED"

\* Ingester i has the event of type t of call c in hand, and a copy of its row in state s.
Holds(i, c, t, s) == Busy(i) /\ ing[i].event = <<c, t>> /\ ing[i].row.state = s

\* States that rows and copies of rows come to.
Reached ==
    /\ \A c \in Calls : call[c].state \in SetUp \cup {"CONNECTED"} \cup TerminalCallStates
    /\ \A i \in Ingesters :
          Busy(i) => ing[i].row.state \in SetUp \cup {"CONNECTED"} \cup TerminalCallStates

\* Nobody reserves an agent here.
StatusRange == \A a \in Agents : agent[a].status \in {"AVAILABLE", "CONNECTED", "OFFLINE"}

\* An event in an ingester's hands is nobody else's, and not recorded.
EventsTaken ==
    \A i \in Ingesters : Busy(i) =>
        /\ ing[i].event \in (Calls \X Arriving) \ seen
        /\ \A j \in Ingesters \ {i} : ing[j].event # ing[i].event

\* A copy of a row names the agent of the row, or was read before it had one.
ReadBefore ==
    \A i \in Ingesters : Busy(i) =>
        ing[i].row.agent \in {Null, call[ing[i].event[1]].agent}

\* A call has rung: it rings, somebody has a copy of it ringing, or it was answered.
Rung(c) ==
    \/ call[c].agent # Null
    \/ call[c].state = "RINGING"
    \/ \E i \in Ingesters : Busy(i) /\ ing[i].event[1] = c /\ ing[i].row.state = "RINGING"

\* Then no event sets it to RINGING any more.
OnceRung ==
    \A c \in Calls : Rung(c) =>
        /\ call[c].state # "INITIATED"
        /\ \A i \in Ingesters : ~Holds(i, c, "RINGING", "INITIATED")

\* A call is attached by its ANSWERED event, and nothing but its end follows.
AnsweredOnce ==
    \A c \in Calls : call[c].agent # Null =>
        /\ <<c, "ANSWERED">> \in seen
        /\ call[c].state \in {"CONNECTED"} \cup TerminalCallStates

\* The agent of a call that is not Done is taken, ...
AttachedTaken ==
    \A c \in Calls, a \in Agents :
        (call[c].agent = a /\ ~Done(c)) => agent[a].status \in {"CONNECTED", "OFFLINE"}

\* ... and no other call that is not Done has that agent.
OneUndone ==
    \A c, d \in Calls :
        (c # d /\ call[c].agent = call[d].agent /\ call[c].agent # Null) => Done(c) \/ Done(d)

\* The calls the reaper selected had no agent; it will end calls, and take agents
\* OFFLINE, and nothing else.
ReapOnly ==
    /\ \A c \in Calls : /\ reap.copy[c].agent = Null
                        /\ reap.copy[c] # NoCall => reap.copy[c].state \in SetUp
                        /\ reap.state[c] \in {"NONE"} \cup TerminalCallStates
    /\ \A a \in Agents : reap.status[a] \in {"unread", "OFFLINE"}

AttachInv ==
    /\ TypeOK /\ Reached /\ StatusRange /\ EventsTaken /\ ReadBefore /\ OnceRung
    /\ AnsweredOnce /\ AttachedTaken /\ OneUndone /\ ReapOnly

\* No call has an agent at the start.
LEMMA AttachInit == OneEnding /\ Init => AttachInv
<1> SUFFICES ASSUME OneEnding, Init PROVE AttachInv
  OBVIOUS
<1>1. \A i \in Ingesters : ~Busy(i)
  BY DEF Init, IngestInit, Resting, Busy
<1>2. \A c \in Calls : call[c].agent = Null /\ call[c].state \in {"INITIATED", "RINGING"}
  BY DEF Init, OneEnding
<1>3. \A a \in Agents : agent[a].status = "AVAILABLE"
  BY DEF Init, OneEnding
<1>4. Null \notin Agents
  BY SchemaAssumption
<1>5. ReapOnly
  BY DEF Init, ReapInit, Rested, ReapOnly, NoCall
<1>6. Reached /\ StatusRange
  BY <1>1, <1>2, <1>3 DEF Reached, StatusRange, SetUp
<1>7. OnceRung
  BY <1>1, <1>2 DEF OnceRung, Rung, Holds
<1> QED
  BY <1>1, <1>2, <1>4, <1>5, <1>6, <1>7, RecoveryInit
     DEF AttachInv, EventsTaken, AnsweredOnce, ReadBefore, AttachedTaken, OneUndone

\* What an event that applies does under OneEnding: it sets a copy from INITIATED to
\* RINGING or from RINGING to ANSWERED, or completes the call.
LEMMA Verdict ==
    ASSUME OneEnding, AttachInv, NEW i \in Ingesters, Busy(i), Applied(i)
    PROVE  \/ /\ ing[i].event[2] = "RINGING" /\ ing[i].row.state = "INITIATED"
              /\ NewState(i) = "RINGING"
           \/ /\ ing[i].event[2] = "ANSWERED" /\ ing[i].row.state = "RINGING"
              /\ NewState(i) = "ANSWERED"
           \/ ing[i].event[2] = "COMPLETED" /\ NewState(i) = "COMPLETED"
<1>1. ing[i].event \in Calls \X Arriving
  BY DEF AttachInv, EventsTaken
<1>2. ing[i].event[2] \in {"INITIATED", "RINGING", "ANSWERED", "COMPLETED"}
  BY <1>1 DEF OneEnding
<1>3. ing[i].row.state \in CallStates /\ Applies(ing[i].row.state, FsmEvent(i))
  BY Held DEF AttachInv, Applied
<1>4. ing[i].row.state \notin {"QUEUED", "RESERVED", "UNKNOWN"}
  BY DEF AttachInv, Reached, SetUp, TerminalCallStates
<1> QED
  BY <1>2, <1>3, <1>4, Moves DEF NewState, FsmEvent, FsmEventOf

\* A step that attaches nothing, frees nobody and keeps what is Done.
LEMMA Undisturbed ==
    ASSUME AttachInv, TypeOK',
           \A c \in Calls : call'[c].agent = call[c].agent,
           \A c \in Calls : (call[c].agent # Null /\ Done(c)) => Done(c)',
           \A a \in Agents : agent[a].status \in {"CONNECTED", "OFFLINE"}
                                => agent'[a].status \in {"CONNECTED", "OFFLINE"}
    PROVE  AttachedTaken' /\ OneUndone'
<1>1. Null \notin Agents
  BY SchemaAssumption
<1>2. AttachedTaken'
  BY <1>1 DEF AttachInv, AttachedTaken
<1>3. OneUndone'
  BY DEF AttachInv, OneUndone
<1> QED BY <1>2, <1>3

\* Recording an event lets go of it, and keeps the events in other hands apart.
LEMMA RecordTakes ==
    ASSUME AttachInv, NEW i \in Ingesters, Record(i)
    PROVE  /\ EventsTaken'
           /\ seen' = seen \cup {ing[i].event}
           /\ \A j \in Ingesters : Busy(j)' => j # i /\ Busy(j) /\ ing'[j] = ing[j]
<1>0. ing' = [ing EXCEPT ![i] = Resting] /\ seen' = seen \cup {ing[i].event} /\ Busy(i)
  BY DEF Record
<1>1. \A j \in Ingesters : ing'[j] = IF j = i THEN Resting ELSE ing[j]
  BY <1>0 DEF AttachInv, TypeOK, IngestTypeOK
<1>2. \A j \in Ingesters : Busy(j)' => j # i /\ Busy(j) /\ ing'[j] = ing[j]
  BY <1>1 DEF Busy, Resting
<1>3. \A j \in Ingesters \ {i} : Busy(j) => ing[j].event # ing[i].event
  BY DEF AttachInv, EventsTaken
<1>4. ASSUME NEW j \in Ingesters, Busy(j)'
      PROVE  /\ ing'[j].event \in (Calls \X Arriving) \ seen'
             /\ \A k \in Ingesters \ {j} : ing'[k].event # ing'[j].event
  <2>1. j # i /\ Busy(j) /\ ing'[j] = ing[j]
    BY <1>2, <1>4
  <2>2. ing[j].event \in (Calls \X Arriving) \ seen /\ ing[j].event # <<>>
    BY <2>1 DEF AttachInv, EventsTaken, Busy
  <2>3. \A k \in Ingesters \ {j} : ing[k].event # ing[j].event
    BY <2>1 DEF AttachInv, EventsTaken
  <2> QED BY <1>0, <1>1, <1>3, <2>1, <2>2, <2>3 DEF Resting
<1> QED BY <1>0, <1>2, <1>4 DEF EventsTaken

\* Copies in hand stay such when no call is detached, none with a copy that names an
\* agent is attached anew, and no other copy is made.
LEMMA CopiesKept ==
    ASSUME AttachInv,
           \A j \in Ingesters : Busy(j)' => Busy(j) /\ ing'[j] = ing[j],
           \A c \in Calls : call[c].agent # Null => call'[c].agent = call[c].agent
    PROVE  ReadBefore'
<1>1. ASSUME NEW j \in Ingesters, Busy(j)'
      PROVE  ing'[j].row.agent \in {Null, call'[ing'[j].event[1]].agent}
  <2>1. Busy(j) /\ ing'[j] = ing[j] /\ ing[j].event[1] \in Calls
    BY <1>1, Held DEF AttachInv
  <2> QED BY <2>1 DEF AttachInv, ReadBefore
<1> QED BY <1>1 DEF ReadBefore

\* No call rings again when no other copy is made, no call is set back to INITIATED,
\* and a call that comes to ring was not ringing anywhere.
LEMMA RungKept ==
    ASSUME AttachInv,
           \A j \in Ingesters : Busy(j)' => Busy(j) /\ ing'[j] = ing[j],
           \A c \in Calls : call[c].state # "INITIATED" => call'[c].state # "INITIATED",
           \A c \in Calls : (call'[c].agent # Null \/ call'[c].state = "RINGING")
                => \/ Rung(c)
                   \/ /\ call'[c].state # "INITIATED"
                      /\ \A j \in Ingesters : ~Holds(j, c, "RINGING", "INITIATED")'
    PROVE  OnceRung'
<1> SUFFICES ASSUME NEW c \in Calls, Rung(c)'
             PROVE  /\ call'[c].state # "INITIATED"
                    /\ \A j \in Ingesters : ~Holds(j, c, "RINGING", "INITIATED")'
  BY DEF OnceRung
<1>1. \A j \in Ingesters : Holds(j, c, "RINGING", "INITIATED")'
                              => Holds(j, c, "RINGING", "INITIATED")
  BY DEF Holds
<1>2. CASE Rung(c)
  BY <1>1, <1>2 DEF AttachInv, OnceRung
<1>3. CASE call'[c].agent # Null \/ call'[c].state = "RINGING"
  BY <1>2, <1>3
<1>4. CASE \E j \in Ingesters : Busy(j)' /\ ing'[j].event[1] = c /\ ing'[j].row.state = "RINGING"
  BY <1>2, <1>4 DEF Rung
<1> QED BY <1>3, <1>4 DEF Rung

\* The commits of an ingester keep AttachInv.
LEMMA CommitAttach ==
    ASSUME OneEnding, AttachInv, NEW i \in Ingesters, Ingest(i), TypeOK'
    PROVE  AttachInv'
<1> DEFINE e == ing[i].event
           c == ing[i].event[1]
<1>c. IngestCommit(i) /\ UNCHANGED reap
  BY DEF Ingest
<1>0. Record(i) /\ Busy(i)
  BY <1>c DEF IngestCommit, IngestIgnored, IngestAdvanced, IngestAttached,
              IngestUnattached, IngestEnded, Record
<1>1. /\ EventsTaken' /\ seen' = seen \cup {e}
      /\ \A j \in Ingesters : Busy(j)' => j # i /\ Busy(j) /\ ing'[j] = ing[j]
  BY <1>0, RecordTakes
<1>2. /\ c \in Calls /\ e \notin seen /\ e \in Calls \X Arriving /\ e = <<c, e[2]>>
      /\ call \in [Calls -> CallRows] /\ agent \in [Agents -> AgentRows]
      /\ Null \notin Agents
  BY <1>0, SchemaAssumption DEF AttachInv, EventsTaken, TypeOK, SchemaTypeOK
<1>3. \A j \in Ingesters : Busy(j)' => ing'[j].event # e
  BY <1>1 DEF EventsTaken
<1>4. ASSUME NEW s, SetCallState(i, s)
      PROVE  /\ \A d \in Calls : /\ call'[d].agent = call[d].agent
                                 /\ d # c => call'[d].state = call[d].state
             /\ call'[c].state = s
  BY <1>2, <1>4 DEF SetCallState, CallRows
<1>5. ReapOnly'
  BY <1>c DEF AttachInv, ReapOnly
<1>6. ASSUME \A d \in Calls : d # c => call'[d].state = call[d].state,
             call'[c].state \in SetUp \cup {"CONNECTED"} \cup TerminalCallStates
      PROVE  Reached'
  BY <1>1, <1>6 DEF AttachInv, Reached
<1>7. CASE IngestIgnored(i)
  <2>1. UNCHANGED <<agent, call>>
    BY <1>7 DEF IngestIgnored
  <2>2. AnsweredOnce' /\ ReadBefore' /\ StatusRange'
    BY <1>1, <2>1, CopiesKept DEF AttachInv, AnsweredOnce, StatusRange
  <2>3. AttachedTaken' /\ OneUndone'
    BY <1>1, <2>1, Undisturbed DEF Done
  <2>4. OnceRung'
    BY <1>1, <2>1, RungKept DEF Rung
  <2>5. Reached'
    BY <1>1, <2>1 DEF AttachInv, Reached
  <2> QED BY <1>1, <1>5, <2>2, <2>3, <2>4, <2>5 DEF AttachInv
<1>8. CASE IngestAdvanced(i)
  <2>0. /\ UNCHANGED agent /\ SetCallState(i, NewState(i)) /\ Applied(i)
        /\ NewState(i) \notin TerminalCallStates
        /\ ~(NewState(i) = "ANSWERED" /\ ing[i].row.agent = Null)
    BY <1>8 DEF IngestAdvanced, AnsweredUnbound
  <2>1. NewState(i) # "ANSWERED"
    <3> SUFFICES ASSUME NewState(i) = "ANSWERED" PROVE FALSE
      OBVIOUS
    <3>1. e[2] = "ANSWERED" /\ call[c].agent # Null
      BY <1>0, <2>0, Verdict DEF AttachInv, ReadBefore
    <3> QED BY <1>2, <3>1 DEF AttachInv, AnsweredOnce
  <2>2. e = <<c, "RINGING">> /\ Holds(i, c, "RINGING", "INITIATED") /\ NewState(i) = "RINGING"
    BY <1>0, <1>2, <2>0, <2>1, Verdict DEF TerminalCallStates, Holds
  <2>3. ~Rung(c)
    BY <1>2, <2>2 DEF AttachInv, OnceRung
  <2>4. AnsweredOnce' /\ ReadBefore' /\ StatusRange'
    BY <1>1, <1>2, <1>4, <2>0, <2>3, CopiesKept DEF AttachInv, AnsweredOnce, Rung, StatusRange
  <2>5. AttachedTaken' /\ OneUndone'
    BY <1>1, <1>4, <2>0, <2>2, Undisturbed DEF Done
  <2>6. OnceRung'
    <3>0. PICK k \in Calls : k = c
      BY <1>2
    <3>1. \A j \in Ingesters : ~Holds(j, k, "RINGING", "INITIATED")'
      BY <1>3, <2>2, <3>0 DEF Holds
    <3>2. \A d \in Calls : d # k => /\ call'[d].agent = call[d].agent
                                    /\ call'[d].state = call[d].state
      BY <1>4, <2>0, <3>0
    <3>3. call'[k].state = "RINGING"
      BY <1>4, <2>0, <2>2, <3>0
    <3>4. \A d \in Calls : call[d].state # "INITIATED" => call'[d].state # "INITIATED"
      BY <3>2, <3>3
    <3>5. \A d \in Calls : (call'[d].agent # Null \/ call'[d].state = "RINGING")
             => \/ Rung(d)
                \/ /\ call'[d].state # "INITIATED"
                   /\ \A j \in Ingesters : ~Holds(j, d, "RINGING", "INITIATED")'
      BY <3>1, <3>2, <3>3 DEF Rung
    <3> QED BY <1>1, <3>4, <3>5, RungKept
  <2>7. Reached'
    BY <1>4, <1>6, <2>0, <2>2 DEF SetUp
  <2> QED BY <1>1, <1>5, <2>4, <2>5, <2>6, <2>7 DEF AttachInv
<1>9. CASE IngestAttached(i)
  <2>0. PICK a \in FreeAgents :
             /\ agent' = [agent EXCEPT ![a] = Cleared(@, "CONNECTED")]
             /\ call' = [call EXCEPT ![c].state = "CONNECTED", ![c].agent = a]
    BY <1>9 DEF IngestAttached
  <2>1. a \in Agents /\ agent[a].status = "AVAILABLE" /\ a # Null
    BY <1>2 DEF FreeAgents
  <2>2. /\ call'[c].state = "CONNECTED" /\ call'[c].agent = a
        /\ \A d \in Calls : d # c => call'[d] = call[d]
    BY <1>2, <2>0 DEF CallRows
  <2>3. /\ agent'[a].status = "CONNECTED"
        /\ \A b \in Agents : b # a => agent'[b] = agent[b]
    BY <1>2, <2>0, <2>1 DEF Cleared, AgentRows
  <2>4. e = <<c, "ANSWERED">> /\ call[c].agent = Null /\ Rung(c)
    <3>1. e[2] = "ANSWERED" /\ ing[i].row.state = "RINGING"
      BY <1>0, <1>9, Verdict DEF IngestAttached, AnsweredUnbound
    <3> QED BY <1>0, <1>2, <3>1 DEF AttachInv, AnsweredOnce, Rung
  <2>5. AnsweredOnce' /\ ReadBefore' /\ StatusRange'
    <3>1. ReadBefore'
      BY <1>1, <2>2, <2>4, CopiesKept
    <3>2. AnsweredOnce'
      BY <1>1, <2>2, <2>4 DEF AttachInv, AnsweredOnce
    <3>3. StatusRange'
      BY <2>3 DEF AttachInv, StatusRange
    <3> QED BY <3>1, <3>2, <3>3
  <2>6. \A d \in Calls \ {c} : call[d].agent = a => Done(d)
    BY <2>1 DEF AttachInv, AttachedTaken
  <2>7. \A d \in Calls \ {c} : Done(d) => Done(d)'
    BY <1>1, <2>2 DEF Done
  <2>8. AttachedTaken'
    BY <2>2, <2>3, <2>7 DEF AttachInv, AttachedTaken
  <2>9. OneUndone'
    BY <2>2, <2>6, <2>7 DEF AttachInv, OneUndone
  <2>10. OnceRung'
    <3>1. \A d \in Calls : call[d].state # "INITIATED" => call'[d].state # "INITIATED"
      BY <2>2
    <3>2. \A d \in Calls : (call'[d].agent # Null \/ call'[d].state = "RINGING") => Rung(d)
      BY <2>2, <2>4 DEF Rung
    <3> QED BY <1>1, <3>1, <3>2, RungKept
  <2>11. Reached'
    BY <1>6, <2>2
  <2> QED BY <1>1, <1>5, <2>5, <2>8, <2>9, <2>10, <2>11 DEF AttachInv
<1>10. CASE IngestUnattached(i)
  <2>0. UNCHANGED agent /\ SetCallState(i, "ANSWERED")
    BY <1>10 DEF IngestUnattached
  <2>1. e = <<c, "ANSWERED">> /\ call[c].agent = Null
    <3>1. e[2] = "ANSWERED"
      BY <1>0, <1>10, Verdict DEF IngestUnattached, AnsweredUnbound
    <3> QED BY <1>2, <3>1 DEF AttachInv, AnsweredOnce
  <2>2. AnsweredOnce' /\ ReadBefore' /\ StatusRange'
    BY <1>1, <1>4, <2>0, <2>1, CopiesKept DEF AttachInv, AnsweredOnce, StatusRange
  <2>3. AttachedTaken' /\ OneUndone'
    BY <1>1, <1>4, <2>0, <2>1, Undisturbed DEF Done
  <2>4. OnceRung'
    <3>1. \A d \in Calls : call[d].state # "INITIATED" => call'[d].state # "INITIATED"
      BY <1>4, <2>0
    <3>2. \A d \in Calls : (call'[d].agent # Null \/ call'[d].state = "RINGING") => Rung(d)
      BY <1>4, <2>0 DEF Rung
    <3> QED BY <1>1, <3>1, <3>2, RungKept
  <2>5. Reached'
    BY <1>4, <1>6, <2>0 DEF SetUp
  <2> QED BY <1>1, <1>5, <2>2, <2>3, <2>4, <2>5 DEF AttachInv
<1>11. CASE IngestEnded(i)
  <2>0. /\ SetCallState(i, NewState(i)) /\ NewState(i) \in TerminalCallStates /\ Applied(i)
        /\ agent' = [a \in Agents |-> IF a \in FreedBy(i)
                                      THEN Cleared(agent[a], "AVAILABLE") ELSE agent[a]]
    BY <1>11 DEF IngestEnded
  <2>1. PICK k \in Calls : k = c
    BY <1>2
  <2>2. e = <<k, "COMPLETED">> /\ ~Done(k) /\ Done(k)' /\ call'[k].state = "COMPLETED"
    BY <1>0, <1>1, <1>2, <1>4, <2>0, <2>1, Verdict DEF Done, TerminalCallStates
  <2>3. \A d \in Calls : Done(d) => Done(d)'
    BY <1>1, <1>4, <2>0, <2>1, <2>2 DEF Done
  <2>f. \A a \in FreedBy(i) : a \in Agents /\ a = call[k].agent
    BY <1>0, <1>2, <2>1 DEF FreedBy, AttachInv, ReadBefore
  <2>4. AnsweredOnce' /\ ReadBefore'
    BY <1>1, <1>4, <2>0, CopiesKept DEF AttachInv, AnsweredOnce
  <2>5. OneUndone'
    BY <1>4, <2>0, <2>3 DEF AttachInv, OneUndone
  <2>6. AttachedTaken'
    <3> SUFFICES ASSUME NEW d \in Calls, NEW a \in Agents, call'[d].agent = a, ~Done(d)'
                 PROVE  agent'[a].status \in {"CONNECTED", "OFFLINE"}
      BY DEF AttachedTaken
    <3>1. call[d].agent = a /\ ~Done(d) /\ d # k
      BY <1>4, <2>0, <2>2, <2>3
    <3>2. a \notin FreedBy(i)
      BY <1>2, <2>2, <2>f, <3>1 DEF AttachInv, OneUndone
    <3> QED BY <2>0, <3>1, <3>2 DEF AttachInv, AttachedTaken
  <2>7. StatusRange'
    BY <1>2, <2>0 DEF AttachInv, StatusRange, Cleared, AgentRows
  <2>8. OnceRung'
    <3>1. \A d \in Calls : call[d].state # "INITIATED" => call'[d].state # "INITIATED"
      BY <1>4, <2>0, <2>1, <2>2
    <3>2. \A d \in Calls : (call'[d].agent # Null \/ call'[d].state = "RINGING") => Rung(d)
      BY <1>4, <2>0, <2>1, <2>2 DEF Rung
    <3> QED BY <1>1, <3>1, <3>2, RungKept
  <2>9. Reached'
    BY <1>4, <1>6, <2>0
  <2> QED BY <1>1, <1>5, <2>4, <2>5, <2>6, <2>7, <2>8, <2>9 DEF AttachInv
<1> QED BY <1>c, <1>7, <1>8, <1>9, <1>10, <1>11 DEF IngestCommit

\* Starting a transaction keeps AttachInv: the copy is that of the row as it is.
LEMMA ReadAttach ==
    ASSUME AttachInv, NEW i \in Ingesters, NEW e \in Calls \X Arriving, IngestRead(i, e),
           UNCHANGED reap, TypeOK'
    PROVE  AttachInv'
<1>0. /\ ing' = [ing EXCEPT ![i] = [event |-> e, row |-> call[e[1]]]]
      /\ UNCHANGED <<agent, call, seen>> /\ e \notin seen
      /\ \A j \in Ingesters : ing[j].event # e
      /\ e[1] \in Calls
  BY DEF IngestRead
<1>1. \A j \in Ingesters : ing'[j] = IF j = i THEN [event |-> e, row |-> call[e[1]]] ELSE ing[j]
  BY <1>0 DEF AttachInv, TypeOK, IngestTypeOK
<1>2. \A j \in Ingesters : (Busy(j)' /\ j # i) => Busy(j)
  BY <1>1 DEF Busy
<1>3. EventsTaken'
  BY <1>0, <1>1, <1>2 DEF AttachInv, EventsTaken
<1>4. ReadBefore'
  BY <1>0, <1>1, <1>2 DEF AttachInv, ReadBefore
<1>5. AttachedTaken' /\ OneUndone'
  BY <1>0, Undisturbed DEF Done
<1>6. AnsweredOnce' /\ StatusRange' /\ ReapOnly'
  BY <1>0 DEF AttachInv, AnsweredOnce, StatusRange, ReapOnly
<1>7. Reached'
  BY <1>0, <1>1, <1>2 DEF AttachInv, Reached
<1>8. OnceRung'
  <2> SUFFICES ASSUME NEW c \in Calls, Rung(c)'
               PROVE  /\ call'[c].state # "INITIATED"
                      /\ \A j \in Ingesters : ~Holds(j, c, "RINGING", "INITIATED")'
    BY DEF OnceRung
  <2>1. Rung(c)
    BY <1>0, <1>1, <1>2 DEF Rung
  <2>2. call[c].state # "INITIATED" /\ \A j \in Ingesters : ~Holds(j, c, "RINGING", "INITIATED")
    BY <2>1 DEF AttachInv, OnceRung
  <2>3. \A j \in Ingesters : j # i => ~Holds(j, c, "RINGING", "INITIATED")'
    BY <1>1, <1>2, <2>2 DEF Holds
  <2>4. ~Holds(i, c, "RINGING", "INITIATED")'
    BY <1>1, <2>2 DEF Holds
  <2> QED BY <1>0, <2>2, <2>3, <2>4
<1> QED BY <1>3, <1>4, <1>5, <1>6, <1>7, <1>8 DEF AttachInv

\* What neither takes an event nor lets one go, attaches no call and moves it at most to
\* its end keeps AttachInv, if it frees no agent that is taken.
LEMMA OthersAttach ==
    ASSUME AttachInv, TypeOK', UNCHANGED <<ing, seen>>, ReapOnly',
           \A c \in Calls : /\ call'[c].agent = call[c].agent
                            /\ call'[c].state # call[c].state
                                  => call'[c].state \in TerminalCallStates,
           \A a \in Agents : \/ agent'[a].status = agent[a].status
                             \/ agent'[a].status = "OFFLINE"
    PROVE  AttachInv'
<1>1. \A j \in Ingesters : Busy(j)' => Busy(j) /\ ing'[j] = ing[j]
  BY DEF Busy
<1>2. EventsTaken'
  BY DEF AttachInv, EventsTaken, Busy
<1>3. ReadBefore'
  BY <1>1, CopiesKept
<1>4. OnceRung'
  <2>1. \A c \in Calls : call[c].state # "INITIATED" => call'[c].state # "INITIATED"
    BY DEF TerminalCallStates
  <2>2. \A c \in Calls : (call'[c].agent # Null \/ call'[c].state = "RINGING") => Rung(c)
    BY DEF Rung, TerminalCallStates
  <2> QED BY <1>1, <2>1, <2>2, RungKept
<1>5. AnsweredOnce' /\ StatusRange'
  BY DEF AttachInv, AnsweredOnce, StatusRange
<1>6. AttachedTaken' /\ OneUndone'
  <2>1. \A c \in Calls : Done(c) => Done(c)'
    BY DEF Done, TerminalCallStates
  <2>2. \A a \in Agents : agent[a].status \in {"CONNECTED", "OFFLINE"}
                             => agent'[a].status \in {"CONNECTED", "OFFLINE"}
    OBVIOUS
  <2> QED BY <2>1, <2>2, Undisturbed
<1>7. Reached'
  BY <1>1 DEF AttachInv, Reached
<1> QED BY <1>2, <1>3, <1>4, <1>5, <1>6, <1>7 DEF AttachInv

\* The reaper ends calls that had no agent when it selected them, and takes agents
\* OFFLINE.
LEMMA ReapAttach ==
    ASSUME AttachInv, OneEnding, TypeOK',
           Sweep \/ Begin \/ (\E c \in Calls : Ask(c)) \/ Finish
                 \/ (ReapAborted /\ UNCHANGED ing)
    PROVE  AttachInv'
<1>0. /\ call \in [Calls -> CallRows] /\ agent \in [Agents -> AgentRows]
      /\ Null \notin Agents
      /\ reap.status \in [Agents -> StatusWrites]
      /\ reap.copy \in [Calls -> CallRows]
      /\ reap.state \in [Calls -> CallStates \cup {"NONE"}]
  BY SchemaAssumption DEF AttachInv, TypeOK, SchemaTypeOK, ReapTypeOK
<1>1. \A a \in Agents : LET row == Offlined(Reclaimed(agent[a]))
                        IN  row = agent[a] \/ row.status = "OFFLINE"
  BY <1>0 DEF AttachInv, StatusRange, Reclaimed, Offlined, Cleared, AgentRows
<1>2. Rested.copy = [c \in Calls |-> NoCall] /\ Rested.state = [c \in Calls |-> "NONE"]
      /\ Rested.status = [a \in Agents |-> "unread"]
  BY DEF Rested
<1>3. ASSUME reap' = Rested PROVE ReapOnly'
  BY <1>2, <1>3 DEF ReapOnly, NoCall
<1>4. CASE Sweep
  <2>1. \A a \in Agents : agent'[a] = Offlined(Reclaimed(agent[a]))
    BY <1>4 DEF Sweep, RunOnce
  <2>2. UNCHANGED <<call, seen, ing, reap>>
    BY <1>4 DEF Sweep, RunOnce
  <2>3. ReapOnly'
    BY <2>2 DEF AttachInv, ReapOnly
  <2>4. \A a \in Agents : agent'[a].status = agent[a].status \/ agent'[a].status = "OFFLINE"
    BY <1>1, <2>1
  <2> QED BY <2>2, <2>3, <2>4, OthersAttach
<1>5. CASE Begin
  <2>1. UNCHANGED <<agent, call, seen, ing>>
    BY <1>5 DEF Begin, ReapBegin
  <2>2. \A c \in StuckCalls : c \in Calls /\ call[c].agent = Null /\ call[c].state \in SetUp
    BY DEF AttachInv, AnsweredOnce, StuckCalls, SetUp, TerminalCallStates
  <2>3. \A c \in Calls : /\ reap'.copy[c] = IF c \in StuckCalls THEN call[c] ELSE NoCall
                         /\ reap'.state[c] = "NONE"
    BY <1>5 DEF Begin, ReapBegin
  <2>4. \A a \in Agents : reap'.status[a] = IF a \in Updated
                                            THEN Offlined(Reclaimed(agent[a])).status
                                            ELSE "unread"
    BY <1>5 DEF Begin, ReapBegin
  <2>5. \A a \in Agents : reap'.status[a] \in {"unread", "OFFLINE"}
    BY <1>1, <2>4 DEF Updated
  <2>6. NoCall.agent = Null
    BY DEF NoCall
  <2>7. ReapOnly'
    BY <2>2, <2>3, <2>5, <2>6 DEF ReapOnly
  <2> QED BY <2>1, <2>7, OthersAttach
<1>6. ASSUME NEW c \in Calls, Ask(c) PROVE AttachInv'
  <2>1. UNCHANGED <<agent, call, seen, ing>> /\ reap.copy[c] # NoCall
    BY <1>6 DEF Ask, ReapAsk
  <2>2. PICK report \in Reports :
           reap' = [reap EXCEPT
                       !.copy[c] = NoCall,
                       !.state[c] = IF Reconciled(reap.copy[c].state, report)
                                          = reap.copy[c].state
                                    THEN "NONE"
                                    ELSE Reconciled(reap.copy[c].state, report),
                       !.status = [a \in Agents |-> IF a = reap.copy[c].agent
                                                    THEN StatusAfter(a) ELSE @[a]]]
    BY <1>6 DEF Ask, ReapAsk
  <2>3. reap.copy[c].state \in SetUp /\ reap.copy[c].agent = Null
    BY <2>1 DEF AttachInv, ReapOnly
  <2>4. \/ Reconciled(reap.copy[c].state, report) \in TerminalCallStates
        \/ Reconciled(reap.copy[c].state, report) = reap.copy[c].state
    BY <2>3, ReportMoves DEF OneEnding, SetUp
  <2>5. \A a \in Agents : reap'.status[a] = reap.status[a]
    BY <1>0, <2>2, <2>3 DEF AttachInv, TypeOK, ReapTypeOK
  <2>6. \A d \in Calls : /\ reap'.copy[d] = IF d = c THEN NoCall ELSE reap.copy[d]
                         /\ d # c => reap'.state[d] = reap.state[d]
    BY <1>0, <2>2 DEF AttachInv, TypeOK, ReapTypeOK
  <2>7. reap'.state[c] \in {"NONE"} \cup TerminalCallStates
    BY <1>0, <2>2, <2>4 DEF AttachInv, TypeOK, ReapTypeOK
  <2>8. NoCall.agent = Null
    BY DEF NoCall
  <2>9. ReapOnly'
    BY <2>5, <2>6, <2>7, <2>8 DEF AttachInv, ReapOnly
  <2> QED BY <2>1, <2>9, OthersAttach
<1>7. CASE Finish
  <2>1. UNCHANGED <<seen, ing>> /\ reap' = Rested
    BY <1>7 DEF Finish, ReapCommit
  <2>2. \A c \in Calls : call'[c] = IF reap.state[c] = "NONE" THEN call[c]
                                    ELSE [call[c] EXCEPT !.state = reap.state[c]]
    BY <1>7 DEF Finish, ReapCommit
  <2>w. /\ \A c \in Calls : reap.state[c] \in {"NONE"} \cup TerminalCallStates
        /\ \A a \in Agents : reap.status[a] \in {"unread", "OFFLINE"}
    BY DEF AttachInv, ReapOnly
  <2>3. ASSUME NEW c \in Calls
        PROVE  /\ call'[c].agent = call[c].agent
               /\ call'[c].state # call[c].state => call'[c].state \in TerminalCallStates
    <3>1. call[c] \in CallRows
      BY <1>0
    <3> QED BY <2>2, <2>w, <3>1 DEF CallRows
  <2>4. \A a \in Agents : agent'[a] = IF reap.status[a] \in {"unread", "kept"} THEN agent[a]
                                      ELSE Cleared(agent[a], reap.status[a])
    BY <1>7 DEF Finish, ReapCommit
  <2>5. ASSUME NEW a \in Agents
        PROVE  agent'[a].status = agent[a].status \/ agent'[a].status = "OFFLINE"
    <3>1. CASE reap.status[a] = "unread"
      BY <2>4, <3>1
    <3>2. CASE reap.status[a] = "OFFLINE"
      <4>1. agent'[a] = Cleared(agent[a], "OFFLINE") /\ agent[a] \in AgentRows
        BY <1>0, <2>4, <3>2
      <4> QED BY <4>1 DEF Cleared, AgentRows
    <3> QED BY <2>w, <3>1, <3>2
  <2> QED BY <1>3, <2>1, <2>3, <2>5, OthersAttach
<1>8. CASE ReapAborted /\ UNCHANGED ing
  <2>1. UNCHANGED <<agent, call, seen, ing>> /\ reap' = Rested
    BY <1>8 DEF ReapAborted
  <2> QED BY <1>3, <2>1, OthersAttach
<1> QED BY <1>4, <1>5, <1>6, <1>7, <1>8

\* Time and dead processes attach nothing.
LEMMA TimeAttach ==
    ASSUME AttachInv, TypeOK',
           \/ \E c \in Calls : LeaseRunsOut(c)
           \/ \E a \in Agents : HeartbeatStops(a)
           \/ UNCHANGED vars
    PROVE  AttachInv'
<1>0. /\ call \in [Calls -> CallRows] /\ agent \in [Agents -> AgentRows]
      /\ UNCHANGED <<ing, seen, reap>>
  BY DEF AttachInv, TypeOK, SchemaTypeOK, LeaseRunsOut, HeartbeatStops, vars
<1>1. \A c \in Calls : call'[c].agent = call[c].agent /\ call'[c].state = call[c].state
  BY <1>0 DEF LeaseRunsOut, HeartbeatStops, vars, CallRows
<1>2. \A a \in Agents : agent'[a].status = agent[a].status
  BY <1>0 DEF LeaseRunsOut, HeartbeatStops, vars, AgentRows
<1>3. ReapOnly'
  BY <1>0 DEF AttachInv, ReapOnly
<1> QED BY <1>0, <1>1, <1>2, <1>3, OthersAttach

\* A transaction that dies lets go of its event.
LEMMA AbortAttach ==
    ASSUME AttachInv, NEW i \in Ingesters, IngestAborted(i), UNCHANGED reap, TypeOK'
    PROVE  AttachInv'
<1>0. ing' = [ing EXCEPT ![i] = Resting] /\ UNCHANGED <<agent, call, seen>>
  BY DEF IngestAborted
<1>1. \A j \in Ingesters : ing'[j] = IF j = i THEN Resting ELSE ing[j]
  BY <1>0 DEF AttachInv, TypeOK, IngestTypeOK
<1>2. \A j \in Ingesters : Busy(j)' => j # i /\ Busy(j) /\ ing'[j] = ing[j]
  BY <1>1 DEF Busy, Resting
<1>3. EventsTaken'
  <2>1. ASSUME NEW j \in Ingesters, Busy(j)', NEW k \in Ingesters \ {j}
        PROVE  ing'[k].event # ing'[j].event
    BY <1>1, <1>2, <2>1 DEF AttachInv, EventsTaken, Busy, Resting
  <2> QED BY <1>0, <1>2, <2>1 DEF AttachInv, EventsTaken
<1>4. ReadBefore'
  BY <1>0, <1>2, CopiesKept
<1>5. AttachedTaken' /\ OneUndone'
  BY <1>0, Undisturbed DEF Done
<1>6. AnsweredOnce' /\ StatusRange' /\ ReapOnly'
  BY <1>0 DEF AttachInv, AnsweredOnce, StatusRange, ReapOnly
<1>7. OnceRung'
  BY <1>0, <1>2, RungKept DEF Rung
<1>8. Reached'
  BY <1>0, <1>2 DEF AttachInv, Reached
<1> QED BY <1>3, <1>4, <1>5, <1>6, <1>7, <1>8 DEF AttachInv

\* Under OneEnding every step keeps AttachInv.
LEMMA AttachStep == OneEnding /\ AttachInv /\ [Next]_vars => AttachInv'
<1> SUFFICES ASSUME OneEnding, AttachInv, [Next]_vars PROVE AttachInv'
  OBVIOUS
<1>1. TypeOK'
  BY RecoveryStep DEF AttachInv
<1> QED
  BY <1>1, CommitAttach, ReadAttach, AbortAttach, ReapAttach, TimeAttach DEF Next

\* AttachInv holds of every state.
LEMMA Attachment == ASSUME OneEnding PROVE Spec => []AttachInv
<1>1. Init => AttachInv
  BY AttachInit
<1>2. AttachInv /\ [Next]_vars => AttachInv'
  BY AttachStep
<1> QED BY <1>1, <1>2, PTL DEF Spec

\* However many ingesters look for agents at once (atomic_attach_agent), no agent is
\* given to two calls.
THEOREM AgentsAttachedOnce == ASSUME OneEnding PROVE Spec => []AttachExclusive
<1>1. AttachInv => AttachExclusive
  <2> SUFFICES ASSUME AttachInv, NEW a \in Agents, NEW c \in Calls, NEW d \in Calls,
                      Connected(c, a), Connected(d, a), c # d
               PROVE  FALSE
    BY DEF AttachExclusive
  <2>1. a # Null
    BY SchemaAssumption
  <2> QED BY <2>1 DEF AttachInv, OneUndone, Done, Connected
<1> QED BY <1>1, Attachment, PTL

\* The agent of a call that is up is not free for another: of the ingesters and the
\* reaper, each with rows read at an earlier moment (event_ingest_worker.py:92,
\* reaper.py:56), none frees it before the call is completed.
THEOREM AttachedAgentsTaken == ASSUME OneEnding PROVE Spec => []AttachedAgentBusy
<1>1. AttachInv => AttachedAgentBusy
  BY DEF AttachInv, AttachedTaken, AttachedAgentBusy, Done, Connected
<1> QED BY <1>1, Attachment, PTL
-----------------------------------------------------------------------------
(* Calls that have ended.  Only a transaction that read the call before it *)
(* ended, and so works on an older state, writes it again.                 *)

\* Ingester i holds a copy of call c from before it ended.
HoldsOlder(i, c) ==
    /\ Busy(i) /\ ing[i].event[1] = c
    /\ ing[i].row.state \notin TerminalCallStates

\* Ended calls are left alone by all but the commit of such an ingester, and that of a
\* reaper that was told of the call after it had selected it in set-up (reaper.py:56).
LEMMA OlderCopyUndoes ==
    ASSUME TypeOK, [Next]_vars, NEW c \in Calls, call[c].state \in TerminalCallStates,
           call'[c].state # call[c].state
    PROVE  \/ \E i \in Ingesters : HoldsOlder(i, c) /\ Ingest(i)
           \/ Finish /\ reap.state[c] # "NONE"
<1>0. call \in [Calls -> CallRows]
  BY DEF TypeOK, SchemaTypeOK
<1>1. ASSUME NEW i \in Ingesters, Ingest(i) PROVE HoldsOlder(i, c)
  <2>0. IngestCommit(i)
    BY <1>1 DEF Ingest
  <2>1. Busy(i)
    BY <2>0 DEF IngestCommit, IngestIgnored, IngestAdvanced, IngestAttached,
                IngestUnattached, IngestEnded, Record
  <2>2. Applied(i) /\ ing[i].event[1] = c
    BY <1>0, <2>0 DEF IngestCommit, IngestIgnored, IngestAdvanced, IngestAttached,
                      IngestUnattached, IngestEnded, SetCallState
  <2> QED BY <2>1, <2>2 DEF HoldsOlder, Applied, Applies
<1>2. ASSUME Finish PROVE reap.state[c] # "NONE"
  BY <1>2 DEF Finish, ReapCommit
<1>3. ASSUME NEW d \in Calls, LeaseRunsOut(d) PROVE FALSE
  BY <1>0, <1>3 DEF LeaseRunsOut, CallRows
<1>4. Sweep \/ Begin \/ (\E d \in Calls : Ask(d)) \/ ReapAborted => UNCHANGED call
  BY DEF Sweep, RunOnce, Begin, ReapBegin, Ask, ReapAsk, ReapAborted
<1> QED
  BY <1>1, <1>2, <1>3, <1>4 DEF Next, IngestRead, IngestAborted, HeartbeatStops, vars

\* Events are processed one at a time, and calls have no lease for the reaper to find.
OneWriter == Leased = {} /\ \A i, j \in Ingesters : i = j

\* Then the copy an ingester holds is the row, and the reaper has no call to ask about.
CopyInv ==
    /\ TypeOK
    /\ reap = Rested
    /\ \A c \in Calls : call[c].lease = "null"
    /\ \A i \in Ingesters : Busy(i) => ing[i].row = call[ing[i].event[1]]

\* No ingester holds a copy at first.
LEMMA CopyInit == OneWriter /\ Init => CopyInv
<1> SUFFICES ASSUME OneWriter, Init PROVE CopyInv
  OBVIOUS
<1>1. \A c \in Calls : call[c].lease = "null"
  BY DEF OneWriter, Init
<1>2. \A i \in Ingesters : ~Busy(i)
  BY DEF Init, IngestInit, Resting, Busy
<1> QED BY <1>1, <1>2, RecoveryInit DEF CopyInv, Init, ReapInit

\* Every step keeps it: who reads is the only one who writes.
LEMMA CopyStep == OneWriter /\ CopyInv /\ [Next]_vars => CopyInv'
<1> SUFFICES ASSUME OneWriter, CopyInv, [Next]_vars PROVE CopyInv'
  OBVIOUS
<1>0. /\ TypeOK /\ TypeOK' /\ call \in [Calls -> CallRows] /\ call' \in [Calls -> CallRows]
      /\ ing \in [Ingesters -> [event : EventIds \cup {<<>>}, row : CallRows]]
  BY RecoveryStep DEF CopyInv, TypeOK, SchemaTypeOK, IngestTypeOK
<1>s. ASSUME call' = call, reap' = reap,
             \A i \in Ingesters : Busy(i)' => ing'[i].row = call[ing'[i].event[1]]
      PROVE  CopyInv'
  BY <1>0, <1>s DEF CopyInv
<1>1. ASSUME NEW i \in Ingesters, NEW e \in Calls \X Arriving, IngestRead(i, e),
             UNCHANGED reap
      PROVE  CopyInv'
  <2>1. ing'[i].event = e /\ ing'[i].row = call[e[1]]
    BY <1>0, <1>1 DEF IngestRead
  <2>2. \A j \in Ingesters : j = i
    BY DEF OneWriter
  <2> QED BY <1>1, <1>s, <2>1, <2>2 DEF IngestRead
<1>2. ASSUME NEW i \in Ingesters, Ingest(i) PROVE CopyInv'
  <2>0. IngestCommit(i) /\ UNCHANGED reap
    BY <1>2 DEF Ingest
  <2>1. Record(i)
    BY <2>0 DEF IngestCommit, IngestIgnored, IngestAdvanced, IngestAttached,
                IngestUnattached, IngestEnded
  <2>2. \A j \in Ingesters : ~Busy(j)'
    <3>1. ing'[i] = Resting /\ \A j \in Ingesters : j = i
      BY <1>0, <2>1 DEF OneWriter, Record
    <3>2. ing'[i].event = <<>>
      BY <3>1 DEF Resting
    <3> QED BY <3>1, <3>2 DEF Busy
  <2>3. ASSUME NEW c \in Calls PROVE call'[c].lease = "null"
    <3> DEFINE d == ing[i].event[1]
    <3>1. d \in Calls /\ \A e \in Calls : call[e] \in CallRows /\ call[e].lease = "null"
      BY <1>0, <2>1, Held DEF Record, CopyInv
    <3>2. ASSUME NEW t, SetCallState(i, t) PROVE call'[c].lease = "null"
      <4>1. call' = [call EXCEPT ![d] = [call[d] EXCEPT !.state = t]]
        BY <1>0, <3>1, <3>2 DEF SetCallState
      <4> QED BY <1>0, <3>1, <4>1 DEF CallRows
    <3>3. CASE IngestAttached(i)
      <4>1. PICK a \in FreeAgents :
               call' = [call EXCEPT ![d].state = "CONNECTED", ![d].agent = a]
        BY <3>3 DEF IngestAttached
      <4>2. call' = [call EXCEPT ![d] = [call[d] EXCEPT !.state = "CONNECTED", !.agent = a]]
        BY <1>0, <3>1, <4>1
      <4> QED BY <1>0, <3>1, <4>2 DEF CallRows
    <3>4. CASE IngestIgnored(i)
      BY <3>1, <3>4 DEF IngestIgnored
    <3> QED BY <2>0, <3>2, <3>3, <3>4
            DEF IngestCommit, IngestAdvanced, IngestUnattached, IngestEnded
  <2> QED BY <1>0, <2>0, <2>2, <2>3 DEF CopyInv
<1>3. ASSUME NEW i \in Ingesters, IngestAborted(i), UNCHANGED reap PROVE CopyInv'
  <2>1. \A j \in Ingesters : ~Busy(j)'
    BY <1>0, <1>3 DEF OneWriter, IngestAborted, Resting, Busy
  <2> QED BY <1>3, <1>s, <2>1 DEF IngestAborted
<1>4. CASE Sweep
  BY <1>4, <1>s DEF Sweep, RunOnce, CopyInv, Busy
<1>5. CASE Begin \/ (\E c \in Calls : Ask(c)) \/ Finish \/ ReapAborted
  <2>1. StuckCalls = {}
    BY DEF StuckCalls, CopyInv
  <2>2. ~reap.open /\ \A c \in Calls : reap.copy[c] = NoCall
    BY DEF CopyInv, Rested
  <2> QED BY <1>5, <2>1, <2>2
          DEF Begin, ReapBegin, Ask, ReapAsk, Finish, ReapCommit, ReapAborted
<1>6. ASSUME NEW c \in Calls, LeaseRunsOut(c) PROVE CopyInv'
  BY <1>6 DEF LeaseRunsOut, CopyInv
<1>7. ASSUME NEW a \in Agents, HeartbeatStops(a) PROVE CopyInv'
  BY <1>7, <1>s DEF HeartbeatStops, CopyInv, Busy
<1>8. CASE UNCHANGED vars
  BY <1>8, <1>s DEF vars, CopyInv, Busy
<1> QED
  BY <1>1, <1>2, <1>3, <1>4, <1>5, <1>6, <1>7, <1>8 DEF Next

\* With one ingester and no call for the reaper to reconcile, a call that has ended
\* stays as it ended, whatever arrives late ("Already terminal: idempotent
\* no-op (duplicate COMPLETED, late ANSWERED, etc.)", fsm.py:52).
THEOREM EndedCallsStay == ASSUME OneWriter PROVE Spec => TerminalStable
<1>1. CopyInv /\ [Next]_vars
        => [\A c \in Calls : call[c].state \in TerminalCallStates
                               => call'[c].state = call[c].state]_vars
  <2> SUFFICES ASSUME CopyInv, [Next]_vars, NEW c \in Calls,
                      call[c].state \in TerminalCallStates, call'[c].state # call[c].state
               PROVE  FALSE
    OBVIOUS
  <2>1. ~Finish
    BY DEF CopyInv, Rested, Finish, ReapCommit
  <2>2. PICK i \in Ingesters : HoldsOlder(i, c)
    BY <2>1, OlderCopyUndoes DEF CopyInv
  <2> QED BY <2>2 DEF HoldsOlder, CopyInv
<1>2. Init => CopyInv
  BY CopyInit
<1>3. CopyInv /\ [Next]_vars => CopyInv'
  BY CopyStep
<1> QED BY <1>1, <1>2, <1>3, PTL DEF Spec, TerminalStable
=============================================================================
