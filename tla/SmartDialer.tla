---------------------------- MODULE SmartDialer ----------------------------
(***************************************************************************)
(* The dial pipeline: task workers, event ingesters and the reaper over    *)
(* the same rows, a provider that sends events of the calls it placed, and *)
(* time, which lets leases run out and heartbeats go stale.                *)
(*                                                                         *)
(* Init is the moment a decision has been committed: its tasks are PENDING *)
(* and every agent is logged in and free.                                  *)
(***************************************************************************)
EXTENDS DialTaskWorker, EventIngest, Reaper, Sequences

CONSTANTS
    Monitored,      \* agents whose last_heartbeat_at is not NULL
    SlowOriginate,  \* a lease may run out on a worker that still runs
    SlowCalls,      \* a lease may run out on an agent whose call is active
    Mortal,         \* the workers that may crash
    InOrder,        \* events of one call arrive in the order they were sent
    EarlyEvents,    \* an event may arrive before its call has a row
    Arriving        \* the event types that reach an ingester at all

ASSUME DialerAssumption ==
    /\ Monitored \subseteq Agents
    /\ Mortal \subseteq Workers
    /\ {SlowOriginate, SlowCalls, InOrder, EarlyEvents} \subseteq BOOLEAN
    /\ Arriving \subseteq {"INITIATED", "RINGING", "ANSWERED", "COMPLETED"}

vars == <<agent, borrower, task, call, seen, wk, leg, ing>>

Init ==
    /\ agent = [a \in Agents |->
                   [status |-> "AVAILABLE", lease |-> "null",
                    heartbeat |-> IF a \in Monitored THEN "fresh" ELSE "null"]]
    /\ borrower = [b \in Borrowers |-> [call_count |-> 0, lease |-> "null"]]
    /\ task = [t \in Tasks |-> "PENDING"]
    /\ call = [c \in Calls |-> NoCall]
    /\ seen = {}
    /\ WorkerInit
    /\ IngestInit

-----------------------------------------------------------------------------
(* Time.  SlowOriginate and SlowCalls say whether thirty seconds may pass  *)
(* while a running worker holds the row, and while a call is active.       *)

HeldByWorker(a) == \E w \in Workers : wk[w].agent = a

AgentLeaseRunsOut(a) ==
    /\ agent[a].lease = "live"
    /\ SlowOriginate \/ ~HeldByWorker(a)
    /\ SlowCalls \/ ActiveCallsOn(a) = {}
    /\ agent' = [agent EXCEPT ![a].lease = "expired"]
    /\ UNCHANGED <<borrower, task, call, seen, wk, leg, ing>>

BorrowerLeaseRunsOut(b) ==
    /\ borrower[b].lease = "live"
    /\ SlowOriginate \/ \A w \in Workers : wk[w].borrower # b
    /\ borrower' = [borrower EXCEPT ![b].lease = "expired"]
    /\ UNCHANGED <<agent, task, call, seen, wk, leg, ing>>

HeartbeatGoesStale(a) ==
    /\ agent[a].heartbeat = "fresh"
    /\ agent' = [agent EXCEPT ![a].heartbeat = "stale"]
    /\ UNCHANGED <<borrower, task, call, seen, wk, leg, ing>>

\* POST /agents/heartbeat: the timestamp only, never the status.
Heartbeat(a) ==
    /\ agent[a].heartbeat # "fresh"
    /\ a \in Monitored
    /\ agent' = [agent EXCEPT ![a].heartbeat = "fresh"]
    /\ UNCHANGED <<borrower, task, call, seen, wk, leg, ing>>

-----------------------------------------------------------------------------
(* The provider.  originate queues every event of the call before it       *)
(* returns; from then on an event may arrive, arrive again, or never.      *)

Sent == <<"INITIATED", "RINGING", "ANSWERED", "COMPLETED">>

\* Delivered in order, an event never follows a later one of its call.
ArrivesInOrder(c, n) ==
    \A m \in n + 1 .. Len(Sent) : <<c, Sent[m]>> \notin seen

Arrivals ==
    {e \in Legs \X Arriving :
        /\ EarlyEvents \/ call[e[1]].state # "NONE"
        /\ InOrder => \A n \in 1 .. Len(Sent) :
                      Sent[n] = e[2] => ArrivesInOrder(e[1], n)}

Ingest(i) == IngestCommit(i) /\ UNCHANGED <<wk, leg>>

-----------------------------------------------------------------------------
\* CommitDispatch writes call rows without a lease, so that the reaper finds no
\* stuck call here: RunOnce is all it does, and never has to wait for a provider.
Next ==
    \/ \E w \in Workers : \/ ClaimTask(w) /\ UNCHANGED ing
                          \/ WorkerStep(w) /\ UNCHANGED ing
                          \/ w \in Mortal /\ WorkerCrash(w) /\ UNCHANGED ing
    \/ \E i \in Ingesters : \/ \E e \in Arrivals : IngestRead(i, e) /\ UNCHANGED <<wk, leg>>
                            \/ Ingest(i)
                            \/ IngestAborted(i) /\ UNCHANGED <<wk, leg>>
    \/ RunOnce /\ UNCHANGED <<wk, leg, ing>>
    \/ \E a \in Agents : \/ AgentLeaseRunsOut(a)
                         \/ HeartbeatGoesStale(a)
                         \/ Heartbeat(a)
    \/ \E b \in Borrowers : BorrowerLeaseRunsOut(b)

Spec == Init /\ [][Next]_vars

TypeOK == SchemaTypeOK /\ WorkerTypeOK /\ IngestTypeOK

(***************************************************************************)
(* What the program's scheduling gives: the worker loop runs the reaper    *)
(* before every tick, a worker that has claimed a task runs on unless it   *)
(* dies, and time passes.  Nothing forces an event to arrive, a new task   *)
(* to be claimed, or a SKIP LOCKED statement to find a row.                *)
(***************************************************************************)
Fairness ==
    /\ WF_vars(RunOnce /\ UNCHANGED <<wk, leg, ing>>)
    /\ \A w \in Workers : WF_vars(WorkerStep(w) /\ UNCHANGED ing)
    /\ \A a \in Agents : WF_vars(AgentLeaseRunsOut(a))

LiveSpec == Spec /\ Fairness

-----------------------------------------------------------------------------
\* A dial task reaches the provider at most once, however it is claimed,
\* returned, failed, rolled back or abandoned by a crash: the provider is
\* never given its idempotency key, so this rests on the claims alone.
AtMostOnceOrigination ==
    \A c, d \in Legs : leg[c].task = leg[d].task => c = d

\* The calls really placed to a borrower never exceed the attempts counted
\* on its row, nor these the limit, and a suppressed borrower is never
\* called: not when the lease runs out in mid-call, nor after a crash.
AttemptLimit ==
    \A b \in Borrowers :
        LET placed == {c \in Legs : leg[c].borrower = b}
        IN  /\ Cardinality(placed) <= borrower[b].call_count
            /\ borrower[b].call_count <= MaxAttempts
            /\ b \in Suppressed => placed = {}

\* A task row tells the truth: it says DISPATCHED exactly when a call row
\* records the call placed for it, so a FAILED or returned task has none.
DispatchedIffRecorded ==
    \A t \in Tasks :
        task[t] = "DISPATCHED" <=>
            \E c \in Legs : leg[c].task = t /\ call[c].state # "NONE"

\* An agent serves one customer: never two active calls, nor an active call
\* while a worker is setting up another with the same agent.
AgentServesOneCall ==
    \A a \in Agents :
        LET setups == {w \in Workers : wk[w].agent = a}
        IN  Cardinality(setups) + Cardinality(ActiveCallsOn(a)) <= 1

\* Events converge: once COMPLETED is recorded the call row is terminal,
\* whatever arrived before, after or twice.
CompletedConverges ==
    \A c \in Calls :
        <<c, "COMPLETED">> \in seen /\ call[c].state # "NONE"
            => call[c].state \in TerminalCallStates

\* An agent reserved for a call that has no row, or has ended, comes back to
\* the pool (or its call starts): its worker may have died at any point.
IdleAgentReclaimed ==
    \A a \in Agents :
        LET stranded == /\ agent[a].status \in {"RESERVED", "DIALING"}
                        /\ ActiveCallsOn(a) = {}
        IN  stranded ~> ~stranded

\* A task is not lost with a worker that lives: what it has claimed is returned
\* or settled, unless the call was placed and the commit that should have
\* recorded it was refused.  The loop catches that error and the worker goes
\* on, with the task PROCESSING for ever and a call that has no row.
ClaimSettled ==
    \A w \in Workers \ Mortal, t \in Tasks :
        wk[w].task = t ~> \/ task[t] # "PROCESSING"
                          \/ /\ wk[w].task # t
                             /\ \E c \in Legs : leg[c].task = t /\ call[c].state = "NONE"

\* A claimed task does not stay claimed, though its worker may die.
ClaimReclaimed ==
    \A t \in Tasks : task[t] = "PROCESSING" ~> task[t] # "PROCESSING"

\* An accepted call is recorded when its worker gets to commit.
AcceptedIsRecorded ==
    [][\A w \in Workers : wk[w].pc = "placed" /\ wk'[w].pc = "idle"
                              => call'[wk[w].call].state # "NONE"]_vars

-----------------------------------------------------------------------------
\* The pipeline implements the promise of TaskDelivery.
StatusOf ==
    [PENDING |-> "open", PROCESSING |-> "taken", DISPATCHED |-> "dispatched",
     FAILED |-> "failed"]

Promise == INSTANCE TaskDelivery WITH
    status <- [t \in Tasks |-> StatusOf[task[t]]],
    dials <- [t \in Tasks |-> {c \in Legs : leg[c].task = t}]

DeliversAsPromised == Promise!Spec
=============================================================================
