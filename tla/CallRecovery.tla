---------------------------- MODULE CallRecovery ----------------------------
(***************************************************************************)
(* Event ingestion and the reaper over calls the pipeline of SmartDialer   *)
(* never creates but the ingester and the reaper are written for: calls    *)
(* dialed with no agent (tests/test_event_chaos.py, the predictive path)   *)
(* and calls that carry a lease of their own (tests/test_crash_drill.py).  *)
(* The initial states are the fixtures of those tests, several at once.    *)
(***************************************************************************)
EXTENDS EventIngest, Reconciler

CONSTANTS
    Bound,      \* calls dialed for an agent; the others are unbound
    Leased,     \* calls whose row has a reserved_until
    Arriving    \* event types the provider sends, once or more, in any order

ASSUME RecoveryAssumption ==
    /\ Bound \subseteq Calls
    /\ Leased \subseteq Calls
    /\ Arriving \subseteq EventTypes

vars == <<agent, borrower, task, call, seen, ing, reap>>

\* One agent reserved for each bound call, the others free; every lease taken
\* when the call was dialed.
Init ==
    /\ \E dialer \in [Calls -> Agents \cup {Null}],
          state \in [Calls -> {"INITIATED", "RINGING"}] :
          /\ \A c \in Calls : c \in Bound <=> dialer[c] # Null
          /\ \A c, d \in Bound : dialer[c] = dialer[d] => c = d
          /\ call = [c \in Calls |->
                        [state |-> state[c], agent |-> dialer[c], borrower |-> Null,
                         lease |-> IF c \in Leased THEN "live" ELSE "null"]]
          /\ agent = [a \in Agents |->
                        IF \E c \in Bound : dialer[c] = a
                        THEN [status |-> "RESERVED", lease |-> "live",
                              heartbeat |-> "fresh"]
                        ELSE [status |-> "AVAILABLE", lease |-> "null",
                              heartbeat |-> "fresh"]]
    /\ borrower = [b \in Borrowers |-> [call_count |-> 0, lease |-> "null"]]
    /\ task = [t \in Tasks |-> "PENDING"]
    /\ seen = {}
    /\ IngestInit
    /\ ReapInit

\* The lease of a call and that of its agent were taken together.
LeaseRunsOut(c) ==
    /\ call[c].lease = "live"
    /\ call' = [call EXCEPT ![c].lease = "expired"]
    /\ agent' = [a \in Agents |->
                    IF call[c].agent = a /\ agent[a].lease = "live"
                    THEN [agent[a] EXCEPT !.lease = "expired"] ELSE agent[a]]
    /\ UNCHANGED <<borrower, task, seen, ing, reap>>

HeartbeatStops(a) ==
    /\ agent[a].heartbeat = "fresh"
    /\ agent' = [agent EXCEPT ![a].heartbeat = "stale"]
    /\ UNCHANGED <<borrower, task, call, seen, ing, reap>>

\* A commit waits for agents' rows the reaper has locked.
Ingest(i) ==
    /\ IngestCommit(i)
    /\ \A a \in reap.held : agent'[a] = agent[a]
    /\ UNCHANGED reap

\* A run of the reaper that has stuck calls to ask about is several steps.
Sweep == RunOnce /\ ~reap.open /\ UNCHANGED <<ing, reap>>
Begin == ReapBegin /\ UNCHANGED ing
Ask(c) == ReapAsk(c) /\ UNCHANGED ing
Finish == ReapCommit /\ UNCHANGED ing

Next ==
    \/ \E i \in Ingesters : \/ \E e \in Calls \X Arriving : IngestRead(i, e) /\ UNCHANGED reap
                            \/ Ingest(i)
                            \/ IngestAborted(i) /\ UNCHANGED reap
    \/ Sweep
    \/ Begin
    \/ \E c \in Calls : Ask(c) \/ LeaseRunsOut(c)
    \/ Finish
    \/ ReapAborted /\ UNCHANGED ing
    \/ \E a \in Agents : HeartbeatStops(a)

Spec == Init /\ [][Next]_vars

\* Time passes and the worker loop runs the reaper every second.  A run may be
\* cut off by a crash, but not every one of them: hence the strong fairness.
Fairness ==
    /\ WF_vars(Begin)
    /\ \A c \in Calls : SF_vars(Ask(c))
    /\ SF_vars(Finish)
    /\ \A c \in Calls : WF_vars(LeaseRunsOut(c))

LiveSpec == Spec /\ Fairness

TypeOK == SchemaTypeOK /\ IngestTypeOK /\ ReapTypeOK

-----------------------------------------------------------------------------
Connected(c, a) == call[c].state = "CONNECTED" /\ call[c].agent = a

\* Two answered calls never get the same agent, though two ingesters look for
\* one at once, in transactions that read the call before they write it.
AttachExclusive ==
    \A a \in Agents, c, d \in Calls : Connected(c, a) /\ Connected(d, a) => c = d

\* An agent attached to a call is not free for another while that call is up:
\* neither an event that was read before, nor the reaper with the calls it
\* selected before one of them was answered, takes it away.  It rests on the
\* words of the provider's get_status (Reports): one that said "ringing" of a
\* call would have the reaper set an answered call back and free its agent, and
\* the event that ends the call free the agent once more.
AttachedAgentBusy ==
    \A c \in Calls, a \in Agents :
        Connected(c, a) => agent[a].status \in {"CONNECTED", "OFFLINE"}

\* A call with a lease of its own that was left in set-up ends, or is answered
\* with an agent, though its worker died and no event of it ever arrives.
StuckCallResolved ==
    \A c \in Leased :
        call[c].state \in {"INITIATED", "RINGING", "ANSWERED"}
            ~> call[c].state \in TerminalCallStates \cup {"CONNECTED"}

\* A call that has ended stays as it ended, whatever arrives late.
TerminalStable ==
    [][\A c \in Calls : call[c].state \in TerminalCallStates
                           => call'[c].state = call[c].state]_vars
=============================================================================
