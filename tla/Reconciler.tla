----------------------------- MODULE Reconciler -----------------------------
(***************************************************************************)
(* app/worker/reaper.py: a run_once that finds stuck calls.  It selects    *)
(* them without a lock, awaits the provider's word on each in turn, reads  *)
(* the agent of each, and writes everything at one commit; any other       *)
(* transaction may read and commit in between.                             *)
(*                                                                         *)
(* The commit writes the columns that were assigned another value than was *)
(* read, by primary key: it does not look at what the rows hold by then.   *)
(***************************************************************************)
EXTENDS Reaper

VARIABLE reap   \* the open transaction of the reaper

\* What the transaction will write to an agent's status: nothing as it has not
\* read the row, nothing as the row it read had the value already, or a status.
StatusWrites == {"unread", "kept", "AVAILABLE", "OFFLINE"}

ReapTypeOK ==
    reap \in [open : BOOLEAN,
              held : SUBSET Agents,            \* rows its UPDATEs have locked
              copy : [Calls -> CallRows],      \* stuck calls it has not asked about
              state : [Calls -> CallStates \cup {"NONE"}],      \* states it will write
              status : [Agents -> StatusWrites]]

Rested == [open |-> FALSE, held |-> {}, copy |-> [c \in Calls |-> NoCall],
           state |-> [c \in Calls |-> "NONE"], status |-> [a \in Agents |-> "unread"]]

ReapInit == reap = Rested

\* Rows the two UPDATEs change, locked by them until the commit.
Updated == {a \in Agents : Offlined(Reclaimed(agent[a])) # agent[a]}

\* The two UPDATEs, and the SELECT of the stuck calls.
ReapBegin ==
    /\ ~reap.open
    /\ StuckCalls # {}
    /\ reap' = [open |-> TRUE,
                held |-> Updated,
                copy |-> [c \in Calls |-> IF c \in StuckCalls THEN call[c] ELSE NoCall],
                state |-> [c \in Calls |-> "NONE"],
                status |-> [a \in Agents |-> IF a \in Updated
                                             THEN Offlined(Reclaimed(agent[a])).status
                                             ELSE "unread"]]
    /\ UNCHANGED <<agent, borrower, task, call, seen>>

\* An agent is read once.  It is set AVAILABLE unless it is: also when the
\* second UPDATE has just found it dead.
StatusAfter(a) ==
    CASE reap.status[a] = "unread" /\ agent[a].status = "AVAILABLE" -> "kept"
      [] reap.status[a] = "kept" -> "kept"
      [] OTHER -> "AVAILABLE"

\* get_status of one stuck call, then its agent, freed whether or not the
\* report changes the call.
ReapAsk(c) ==
    /\ reap.copy[c] # NoCall
    /\ \E report \in Reports :
          LET next == Reconciled(reap.copy[c].state, report)
          IN  reap' = [reap EXCEPT
                          !.copy[c] = NoCall,
                          !.state[c] = IF next = reap.copy[c].state THEN "NONE" ELSE next,
                          !.status = [a \in Agents |-> IF a = reap.copy[c].agent
                                                       THEN StatusAfter(a) ELSE @[a]]]
    /\ UNCHANGED <<agent, borrower, task, call, seen>>

\* Mutant of ReapCommit: it frees the agents that the rows name by then.
ReapCommitByRow ==
    /\ reap.open
    /\ \A c \in Calls : reap.copy[c] = NoCall
    /\ call' = [c \in Calls |-> IF reap.state[c] = "NONE" THEN call[c]
                                ELSE [call[c] EXCEPT !.state = reap.state[c]]]
    /\ agent' = [a \in Agents |->
                    IF \E c \in Calls : reap.state[c] # "NONE" /\ call[c].agent = a
                    THEN Cleared(agent[a], "AVAILABLE") ELSE agent[a]]
    /\ reap' = Rested
    /\ UNCHANGED <<borrower, task, seen>>

\* What was assigned, written to whatever the rows hold by then.
ReapCommit ==
    /\ reap.open
    /\ \A c \in Calls : reap.copy[c] = NoCall
    /\ call' = [c \in Calls |-> IF reap.state[c] = "NONE" THEN call[c]
                                ELSE [call[c] EXCEPT !.state = reap.state[c]]]
    /\ agent' = [a \in Agents |-> IF reap.status[a] \in {"unread", "kept"} THEN agent[a]
                                  ELSE Cleared(agent[a], reap.status[a])]
    /\ reap' = Rested
    /\ UNCHANGED <<borrower, task, seen>>

\* The provider raises, or the process dies: rolled back.
ReapAborted ==
    /\ reap.open
    /\ reap' = Rested
    /\ UNCHANGED <<agent, borrower, task, call, seen>>
=============================================================================
