------------------------------- MODULE Reaper -------------------------------
(***************************************************************************)
(* app/worker/reaper.py: run_once, one transaction of four steps.  The     *)
(* first two are UPDATE statements; the third asks the provider about      *)
(* every stuck call and is the subject of Reconciler; the fourth releases  *)
(* rows of the leases table, which nothing in the program inserts or reads.*)
(***************************************************************************)
EXTENDS Schema

\* What a provider's get_status may say of a call, lower-cased, or "none" when
\* the call names no provider the reaper was given.  A provider of the program
\* says "completed" of every call it accepted.
CONSTANT Reports

ASSUME ReaperAssumption ==
    /\ Reports # {}
    /\ Reports \subseteq {"initiated", "ringing", "answered", "completed",
                          "failed", "none"}

\* Mutant of Reclaimed: any reservation with a deadline, past or not.
ReclaimedEarly(row) ==
    IF row.status \in {"RESERVED", "DIALING"} /\ row.lease # "null"
    THEN Cleared(row, "AVAILABLE") ELSE row

\* Mutant of Reclaimed: an agent whose worker died before it dialed is passed over.
ReclaimedDialing(row) ==
    IF row.status = "DIALING" /\ row.lease = "expired"
    THEN Cleared(row, "AVAILABLE") ELSE row

\* 1. An expired reservation goes back to AVAILABLE, in a call or not.
Reclaimed(row) ==
    IF row.status \in {"RESERVED", "DIALING"} /\ row.lease = "expired"
    THEN Cleared(row, "AVAILABLE") ELSE row

\* 2. An agent whose heartbeat is stale goes OFFLINE, whatever it is doing.
Offlined(row) ==
    IF row.status # "OFFLINE" /\ row.heartbeat = "stale"
    THEN Cleared(row, "OFFLINE") ELSE row

\* Mutant of StuckCalls: an answered call is taken for one that is up.
StuckBeforeAnswer ==
    {c \in Calls : /\ call[c].state \in {"INITIATED", "RINGING"}
                   /\ call[c].lease = "expired"}

\* 3. Calls in set-up whose own lease is past: such calls ...
StuckCalls ==
    {c \in Calls : /\ call[c].state \in {"INITIATED", "RINGING", "ANSWERED"}
                   /\ call[c].lease = "expired"}

\* ... take the provider's word for their state, or are abandoned.
Reconciled(state, report) ==
    IF report = "none" THEN "ABANDONED" ELSE NextState(state, report)

\* A run that finds no stuck call: two statements and the commit.
RunOnce ==
    /\ StuckCalls = {}
    /\ agent' = [a \in Agents |-> Offlined(Reclaimed(agent[a]))]
    /\ UNCHANGED <<borrower, task, call, seen>>
=============================================================================
