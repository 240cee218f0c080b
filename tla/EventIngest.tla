---------------------------- MODULE EventIngest ----------------------------
(***************************************************************************)
(* app/worker/event_ingest_worker.py: one transaction per provider event.  *)
(* The call row is read without a lock and written back by the commit, so  *)
(* the transaction is two steps: IngestRead, and one of the commits below. *)
(* Everything an ingester does between them rests on the row it read.      *)
(*                                                                         *)
(* Which events reach an ingester, and in which order, is up to the module *)
(* that composes this one.                                                 *)
(***************************************************************************)
EXTENDS Schema

CONSTANT Ingesters

ASSUME IngestAssumption == Null \notin Ingesters

VARIABLE ing    \* ing[i]: the event ingester i works on and the row it read

\* EVENT_TYPE_TO_FSM_EVENT
FsmEventOf ==
    [INITIATED |-> "initiate", RINGING |-> "ringing", ANSWERED |-> "answer",
     CONNECTED |-> "connect", COMPLETED |-> "complete", FAILED |-> "fail",
     CANCELLED |-> "cancel", ABANDONED |-> "abandon"]

Resting == [event |-> <<>>, row |-> NoCall]

IngestTypeOK ==
    ing \in [Ingesters -> [event : EventIds \cup {<<>>}, row : CallRows]]

IngestInit == ing = [i \in Ingesters |-> Resting]

Busy(i) == ing[i].event # <<>>

-----------------------------------------------------------------------------
\* Insert the event, read the call.  An event already recorded is a no-op; one
\* another ingester has inserted and not committed blocks on the unique index.
IngestRead(i, e) ==
    /\ ~Busy(i)
    /\ e \notin seen
    /\ \A j \in Ingesters : ing[j].event # e
    /\ ing' = [ing EXCEPT ![i] = [event |-> e, row |-> call[e[1]]]]
    /\ UNCHANGED <<agent, borrower, task, call, seen>>

\* What the machine makes of the event, given the row that was read.
FsmEvent(i) == FsmEventOf[ing[i].event[2]]
Applied(i) == ing[i].row.state # "NONE" /\ Applies(ing[i].row.state, FsmEvent(i))
NewState(i) == NextState(ing[i].row.state, FsmEvent(i))

Record(i) ==
    /\ Busy(i)
    /\ seen' = seen \cup {ing[i].event}
    /\ ing' = [ing EXCEPT ![i] = Resting]
    /\ UNCHANGED <<borrower, task>>

SetCallState(i, s) == call' = [call EXCEPT ![ing[i].event[1]].state = s]

\* No such call yet, or no such transition: the event is recorded all the same.
IngestIgnored(i) ==
    /\ Record(i)
    /\ ~Applied(i)
    /\ UNCHANGED <<agent, call>>

\* An unbound call is answered.
AnsweredUnbound(i) == NewState(i) = "ANSWERED" /\ ing[i].row.agent = Null

IngestAdvanced(i) ==
    /\ Record(i)
    /\ Applied(i)
    /\ NewState(i) \notin TerminalCallStates
    /\ ~AnsweredUnbound(i)
    /\ SetCallState(i, NewState(i))
    /\ UNCHANGED agent

\* Mutant of FreeAgents: an agent in a call may be attached to another.
FreeAgentsBusyToo == {a \in Agents : agent[a].status \in {"AVAILABLE", "CONNECTED"}}

FreeAgents == {a \in Agents : agent[a].status = "AVAILABLE"}

\* atomic_attach_agent: any AVAILABLE agent, its heartbeat unread.
IngestAttached(i) ==
    /\ Record(i)
    /\ Applied(i)
    /\ AnsweredUnbound(i)
    /\ \E a \in FreeAgents :
          /\ agent' = [agent EXCEPT ![a] = Cleared(@, "CONNECTED")]
          /\ call' = [call EXCEPT ![ing[i].event[1]].state = "CONNECTED",
                                  ![ing[i].event[1]].agent = a]

\* No agent, or each one in the hands of another transaction, so that SKIP LOCKED
\* passes over it: the call stays ANSWERED, unbound.
IngestUnattached(i) ==
    /\ Record(i)
    /\ Applied(i)
    /\ AnsweredUnbound(i)
    /\ SetCallState(i, "ANSWERED")
    /\ UNCHANGED agent

\* The call ends: its agent is freed if it looks busy, whatever it is busy with.
FreedBy(i) ==
    {a \in Agents : /\ a = ing[i].row.agent
                    /\ agent[a].status \in {"CONNECTED", "DIALING", "RESERVED"}}

IngestEnded(i) ==
    /\ Record(i)
    /\ Applied(i)
    /\ NewState(i) \in TerminalCallStates
    /\ SetCallState(i, NewState(i))
    /\ agent' = [a \in Agents |-> IF a \in FreedBy(i)
                                  THEN Cleared(agent[a], "AVAILABLE")
                                  ELSE agent[a]]

\* The transaction dies with its process: the event is not recorded.
IngestAborted(i) ==
    /\ Busy(i)
    /\ ing' = [ing EXCEPT ![i] = Resting]
    /\ UNCHANGED <<agent, borrower, task, call, seen>>

IngestCommit(i) ==
    \/ IngestIgnored(i)
    \/ IngestAdvanced(i)
    \/ IngestAttached(i)
    \/ IngestUnattached(i)
    \/ IngestEnded(i)
=============================================================================
