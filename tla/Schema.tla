------------------------------- MODULE Schema -------------------------------
(***************************************************************************)
(* The rows every process of the dialer shares: PostgreSQL is its only     *)
(* shared state (app/domain/models.py, migrations/).  One campaign.        *)
(*                                                                         *)
(* Time is not a number here.  Of a reserved_until column the program only *)
(* ever asks "is it NULL" and "is it past", so a lease is one of three     *)
(* values; of last_heartbeat_at it asks "is it NULL" and "is it more than  *)
(* 60 seconds old".  SmartDialer lets a lease run out and a heartbeat go   *)
(* stale at any moment that its constants allow.                           *)
(*                                                                         *)
(* Columns no code of the dialer reads are left out: reserved_by,          *)
(* claimed_by, claimed_until, attempt_count, last_error and the timestamps.*)
(* retry_after is read and never written, hence always NULL.               *)
(***************************************************************************)
EXTENDS CallFsm, Naturals, FiniteSets

CONSTANTS
    Agents, Borrowers, Tasks,
    Calls,          \* the call ids (fresh uuids) available to a behaviour
    Null,           \* SQL NULL in a foreign key column
    Suppressed,     \* borrowers with suppressed = true
    MaxAttempts     \* borrowers.max_attempts

ASSUME SchemaAssumption ==
    /\ Null \notin Agents \cup Borrowers \cup Tasks \cup Calls
    /\ Suppressed \subseteq Borrowers
    /\ MaxAttempts \in Nat

VARIABLES
    agent,          \* agents:     [status, lease, heartbeat]
    borrower,       \* borrowers:  [call_count, lease]
    task,           \* dial_tasks: its state
    call,           \* calls:      [state, agent, borrower, lease]
    seen            \* provider_events: the event ids recorded so far

AgentStatuses ==
    {"OFFLINE", "AVAILABLE", "RESERVED", "DIALING", "CONNECTED", "WRAP_UP",
     "PAUSED"}

TaskStates ==
    {"PENDING", "PROCESSING", "DISPATCHED", "FAILED", "RECONCILING",
     "CANCELLED"}

Leases == {"null", "live", "expired"}
Heartbeats == {"null", "fresh", "stale"}

\* A call id with no row, or a row of the calls table.
NoCall == [state |-> "NONE", agent |-> Null, borrower |-> Null, lease |-> "null"]

\* States that count as an active call of a borrower, in the partial unique
\* index as in the reservation query.
ActiveCallStates ==
    {"QUEUED", "RESERVED", "INITIATED", "RINGING", "ANSWERED", "CONNECTED"}

ActiveCalls == {c \in Calls : call[c].state \in ActiveCallStates}
ActiveCallsOf(b) == {c \in ActiveCalls : call[c].borrower = b}
ActiveCallsOn(a) == {c \in ActiveCalls : call[c].agent = a}

\* Each event of a call carries its own event_id; a duplicate repeats it.
EventTypes ==
    {"INITIATED", "RINGING", "ANSWERED", "CONNECTED", "COMPLETED", "FAILED",
     "CANCELLED", "ABANDONED"}
EventIds == Calls \X EventTypes

AgentRows == [status : AgentStatuses, lease : Leases, heartbeat : Heartbeats]
BorrowerRows == [call_count : Nat, lease : Leases]
CallRows == [state : CallStates \cup {"NONE"}, agent : Agents \cup {Null},
             borrower : Borrowers \cup {Null}, lease : Leases]

SchemaTypeOK ==
    /\ agent \in [Agents -> AgentRows]
    /\ borrower \in [Borrowers -> BorrowerRows]
    /\ task \in [Tasks -> TaskStates]
    /\ call \in [Calls -> CallRows]
    /\ seen \subseteq EventIds

\* An agent row whose reservation is gone: status s, reserved_until NULL.
Cleared(row, s) == [row EXCEPT !.status = s, !.lease = "null"]
=============================================================================
