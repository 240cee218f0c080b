--------------------------- MODULE DialTaskWorker ---------------------------
(***************************************************************************)
(* app/worker/dial_task_worker.py and the reservation statements it calls  *)
(* in app/providers/call_allocator.py: the delivery of one committed dial  *)
(* task.  Each action is one database transaction or one call to the       *)
(* provider; between two of them anything else may run, the worker may     *)
(* crash, and the leases it took may run out.                              *)
(***************************************************************************)
EXTENDS Schema

CONSTANTS
    Workers,
    LostReplies,        \* originate may place the call and still raise
    EnforceForeignKeys  \* the engine checks REFERENCES calls(id) per statement

ASSUME WorkerAssumption ==
    /\ Null \notin Workers
    /\ LostReplies \in BOOLEAN
    /\ EnforceForeignKeys \in BOOLEAN

VARIABLES
    wk,     \* wk[w]: the local variables of execute_task in worker w
    leg     \* leg[c]: the phone call the provider placed for call id c

\* Where a worker stands: nothing in hand, a claimed task, then the agent, then
\* the borrower too, and after originate an accepted or a failed call.
WorkerPcs == {"idle", "claimed", "agent_held", "ready", "placed", "failed"}

Idle == [pc |-> "idle", task |-> Null, agent |-> Null, borrower |-> Null,
         call |-> Null]

\* The provider's side.  The agent and the task of a leg are not sent to it
\* (the idempotency key of the task is never passed on): they are history.
NoLeg == [task |-> Null, borrower |-> Null, agent |-> Null]
Legs == {c \in Calls : leg[c] # NoLeg}

WorkerRows == [pc : WorkerPcs, task : Tasks \cup {Null}, agent : Agents \cup {Null},
               borrower : Borrowers \cup {Null}, call : Calls \cup {Null}]
LegRows == [task : Tasks \cup {Null}, borrower : Borrowers \cup {Null},
            agent : Agents \cup {Null}]

WorkerTypeOK ==
    /\ wk \in [Workers -> WorkerRows]
    /\ leg \in [Calls -> LegRows]

WorkerInit ==
    /\ wk = [w \in Workers |-> Idle]
    /\ leg = [c \in Calls |-> NoLeg]

-----------------------------------------------------------------------------
(* The rows a reservation statement may return.  Its ORDER BY (fairness    *)
(* between agents, priority between borrowers) is a choice among them.     *)

EligibleAgents ==
    {a \in Agents : /\ agent[a].status = "AVAILABLE"
                    /\ agent[a].heartbeat # "stale"
                    /\ agent[a].lease # "live"}

EligibleBorrowers ==
    {b \in Borrowers : /\ b \notin Suppressed
                       /\ borrower[b].call_count < MaxAttempts
                       /\ borrower[b].lease # "live"
                       /\ ActiveCallsOf(b) = {}}

\* FOR UPDATE SKIP LOCKED passes over a row that another process has locked, in
\* whatever transaction, so a statement may find nothing while there is a row.
RowsMayBeLocked(w) == \E x \in Workers : x # w

-----------------------------------------------------------------------------
\* claim_task: PENDING -> PROCESSING in one statement.
ClaimTask(w) ==
    /\ wk[w].pc = "idle"
    /\ \E t \in Tasks :
          /\ task[t] = "PENDING"
          /\ task' = [task EXCEPT ![t] = "PROCESSING"]
          /\ wk' = [wk EXCEPT ![w] = [Idle EXCEPT !.pc = "claimed", !.task = t]]
    /\ UNCHANGED <<agent, borrower, call, seen, leg>>

\* reserve_agent: AVAILABLE -> RESERVED with a fresh lease, committed at once.
ReserveAgent(w) ==
    /\ wk[w].pc = "claimed"
    /\ \E a \in EligibleAgents :
          /\ agent' = [agent EXCEPT ![a].status = "RESERVED", ![a].lease = "live"]
          /\ wk' = [wk EXCEPT ![w].pc = "agent_held", ![w].agent = a]
    /\ UNCHANGED <<borrower, task, call, seen, leg>>

\* No agent: the task goes back to PENDING for a later tick.
AgentNotFound(w) ==
    /\ wk[w].pc = "claimed"
    /\ EligibleAgents = {} \/ RowsMayBeLocked(w)
    /\ task' = [task EXCEPT ![wk[w].task] = "PENDING"]
    /\ wk' = [wk EXCEPT ![w] = Idle]
    /\ UNCHANGED <<agent, borrower, call, seen, leg>>

\* Mutant of ReserveBorrower: the attempt is not counted.
ReserveBorrowerUncounted(w) ==
    /\ wk[w].pc = "agent_held"
    /\ \E b \in EligibleBorrowers :
          /\ borrower' = [borrower EXCEPT ![b].lease = "live"]
          /\ wk' = [wk EXCEPT ![w].pc = "ready", ![w].borrower = b]
    /\ UNCHANGED <<agent, task, call, seen, leg>>

\* reserve_borrower: counts the attempt and leases the borrower.
ReserveBorrower(w) ==
    /\ wk[w].pc = "agent_held"
    /\ \E b \in EligibleBorrowers :
          /\ borrower' = [borrower EXCEPT ![b].call_count = @ + 1,
                                          ![b].lease = "live"]
          /\ wk' = [wk EXCEPT ![w].pc = "ready", ![w].borrower = b]
    /\ UNCHANGED <<agent, task, call, seen, leg>>

\* Mutant of BorrowerNotFound: the agent is released and the task forgotten.
BorrowerNotFoundForgets(w) ==
    /\ wk[w].pc = "agent_held"
    /\ EligibleBorrowers = {} \/ RowsMayBeLocked(w)
    /\ agent' = [agent EXCEPT ![wk[w].agent] = Cleared(@, "AVAILABLE")]
    /\ wk' = [wk EXCEPT ![w] = Idle]
    /\ UNCHANGED <<borrower, task, call, seen, leg>>

\* No borrower: the agent is set AVAILABLE by id, whoever holds it by now.
BorrowerNotFound(w) ==
    /\ wk[w].pc = "agent_held"
    /\ EligibleBorrowers = {} \/ RowsMayBeLocked(w)
    /\ agent' = [agent EXCEPT ![wk[w].agent] = Cleared(@, "AVAILABLE")]
    /\ task' = [task EXCEPT ![wk[w].task] = "PENDING"]
    /\ wk' = [wk EXCEPT ![w] = Idle]
    /\ UNCHANGED <<borrower, call, seen, leg>>

-----------------------------------------------------------------------------
(* provider.originate, outside any transaction.  The reply is ok, a refusal*)
(* or a time-out before anything was placed (also what an OPEN breaker     *)
(* answers), or, when LostReplies, an exception after the call was placed. *)

PlaceLeg(w, c) ==
    /\ leg[c] = NoLeg
    /\ leg' = [leg EXCEPT ![c] = [task |-> wk[w].task, agent |-> wk[w].agent,
                                  borrower |-> wk[w].borrower]]

OriginateAccepted(w) ==
    /\ wk[w].pc = "ready"
    /\ \E c \in Calls :
          /\ PlaceLeg(w, c)
          /\ wk' = [wk EXCEPT ![w].pc = "placed", ![w].call = c]
    /\ UNCHANGED <<agent, borrower, task, call, seen>>

OriginateRefused(w) ==
    /\ wk[w].pc = "ready"
    /\ wk' = [wk EXCEPT ![w].pc = "failed"]
    /\ UNCHANGED <<agent, borrower, task, call, seen, leg>>

OriginateReplyLost(w) ==
    /\ LostReplies
    /\ wk[w].pc = "ready"
    /\ \E c \in Calls : PlaceLeg(w, c)
    /\ wk' = [wk EXCEPT ![w].pc = "failed"]
    /\ UNCHANGED <<agent, borrower, task, call, seen>>

-----------------------------------------------------------------------------
\* The commit that records an accepted call is refused by the unique index on
\* active calls, or by the foreign key: UPDATE dial_tasks SET call_id runs
\* before the INSERT INTO calls is flushed.
CommitRefused(w) ==
    \/ EnforceForeignKeys
    \/ ActiveCallsOf(wk[w].borrower) # {}

\* Success: the call row, the task DISPATCHED, and the agent DIALING by id.
\* reserved_until keeps the value it has by now.
CommitDispatch(w) ==
    /\ wk[w].pc = "placed"
    /\ ~CommitRefused(w)
    /\ call' = [call EXCEPT ![wk[w].call] =
                   [state |-> "INITIATED", agent |-> wk[w].agent,
                    borrower |-> wk[w].borrower, lease |-> "null"]]
    /\ task' = [task EXCEPT ![wk[w].task] = "DISPATCHED"]
    /\ agent' = [agent EXCEPT ![wk[w].agent].status = "DIALING"]
    /\ wk' = [wk EXCEPT ![w] = Idle]
    /\ UNCHANGED <<borrower, seen, leg>>

\* Mutant of DispatchRolledBack: the task is queued for another try.
DispatchRolledBackRetries(w) ==
    /\ wk[w].pc = "placed"
    /\ CommitRefused(w)
    /\ task' = [task EXCEPT ![wk[w].task] = "PENDING"]
    /\ wk' = [wk EXCEPT ![w] = Idle]
    /\ UNCHANGED <<agent, borrower, call, seen, leg>>

\* Mutant of DispatchRolledBack: the task was updated in a transaction of its own.
DispatchRolledBackHalf(w) ==
    /\ wk[w].pc = "placed"
    /\ CommitRefused(w)
    /\ task' = [task EXCEPT ![wk[w].task] = "DISPATCHED"]
    /\ wk' = [wk EXCEPT ![w] = Idle]
    /\ UNCHANGED <<agent, borrower, call, seen, leg>>

\* IntegrityError: rolled back, caught in the worker loop, nothing undone.
DispatchRolledBack(w) ==
    /\ wk[w].pc = "placed"
    /\ CommitRefused(w)
    /\ wk' = [wk EXCEPT ![w] = Idle]
    /\ UNCHANGED <<agent, borrower, task, call, seen, leg>>

\* Mutant of CommitFailure: a failed task is queued for another try.
CommitFailureRetries(w) ==
    /\ wk[w].pc = "failed"
    /\ task' = [task EXCEPT ![wk[w].task] = "PENDING"]
    /\ agent' = [agent EXCEPT ![wk[w].agent] = Cleared(@, "AVAILABLE")]
    /\ borrower' = [borrower EXCEPT ![wk[w].borrower].lease = "null"]
    /\ wk' = [wk EXCEPT ![w] = Idle]
    /\ UNCHANGED <<call, seen, leg>>

\* Failure: the task FAILED, agent and borrower released by id.
CommitFailure(w) ==
    /\ wk[w].pc = "failed"
    /\ task' = [task EXCEPT ![wk[w].task] = "FAILED"]
    /\ agent' = [agent EXCEPT ![wk[w].agent] = Cleared(@, "AVAILABLE")]
    /\ borrower' = [borrower EXCEPT ![wk[w].borrower].lease = "null"]
    /\ wk' = [wk EXCEPT ![w] = Idle]
    /\ UNCHANGED <<call, seen, leg>>

\* The process dies; a restarted one knows nothing of the task.
WorkerCrash(w) ==
    /\ wk[w].pc # "idle"
    /\ wk' = [wk EXCEPT ![w] = Idle]
    /\ UNCHANGED <<agent, borrower, task, call, seen, leg>>

\* Every step of execute_task but the crash.
WorkerStep(w) ==
    \/ ReserveAgent(w)
    \/ AgentNotFound(w)
    \/ ReserveBorrower(w)
    \/ BorrowerNotFound(w)
    \/ OriginateAccepted(w)
    \/ OriginateRefused(w)
    \/ OriginateReplyLost(w)
    \/ CommitDispatch(w)
    \/ DispatchRolledBack(w)
    \/ CommitFailure(w)
=============================================================================
