----------------------------- MODULE Decisions -----------------------------
(***************************************************************************)
(* The pacing worker's loop (app/worker/pacing_worker.py): rounds of       *)
(* ticks, one campaign after another, each of which decides how many calls *)
(* to place and commits the decision with a dial task for each call, under *)
(* keys made of the tick number.  Tick numbers are counted in the memory   *)
(* of a process, which restarts from 0.                                    *)
(*                                                                         *)
(* What becomes of the tasks is SmartDialer's subject.  Here the delivery  *)
(* that follows a commit ends, or raises; and what the engine proposes and *)
(* the safety controller approves is any number.                           *)
(***************************************************************************)
EXTENDS Integers, FiniteSets, Sequences

CONSTANTS
    Workers, Campaigns,
    Null,
    SameHash,     \* the processes agree on hash(campaign_id)
    MaxApproved,  \* bound: calls approved by a decision
    MaxTick,      \* bound: ticks a process counts for a campaign
    MaxStarts     \* bound: processes started

ASSUME DecisionsAssumption ==
    /\ Null \notin Campaigns
    /\ SameHash \in BOOLEAN
    /\ {MaxApproved, MaxTick, MaxStarts} \subseteq Nat

VARIABLES
    faulty,         \* a delivery may raise
    running, starts,
    tick_counter,   \* _tick_counter of each process
    campaign_ids,   \* those left of each process's round
    deciding,       \* the campaign of each process's transaction, or Null
    dial_decisions, \* n_approved of the rows with a tick number, oldest first
    dial_tasks,
    lost            \* rounds a process has lost to a refused decision

memory == <<tick_counter, campaign_ids, deciding, lost>>
rows == <<dial_decisions, dial_tasks>>
world == <<faulty, running, starts>>
vars == <<world, memory, rows>>

Ticks == 1..MaxTick

\* idempotency_key is campaign, tick and idx; decision tells the row of the tick.
Task(c, t, i, r) == [campaign |-> c, tick |-> t, idx |-> i, decision |-> r]

Init ==
    /\ faulty \in BOOLEAN
    /\ running = {} /\ starts = 0
    /\ tick_counter = [w \in Workers |-> [c \in Campaigns |-> 0]]
    /\ campaign_ids = [w \in Workers |-> {}]
    /\ deciding = [w \in Workers |-> Null]
    /\ dial_decisions = [c \in Campaigns |-> [t \in Ticks |-> <<>>]]
    /\ dial_tasks = {}
    /\ lost = [w \in Workers |-> 0]

-----------------------------------------------------------------------------
(* Processes come and go *)

\* What a process has in memory when it starts; also written at its end.
Blank(w) ==
    /\ tick_counter' = [tick_counter EXCEPT ![w] = [c \in Campaigns |-> 0]]
    /\ campaign_ids' = [campaign_ids EXCEPT ![w] = {}]
    /\ deciding' = [deciding EXCEPT ![w] = Null]
    /\ lost' = [lost EXCEPT ![w] = 0]

Start(w) ==
    /\ w \notin running /\ starts < MaxStarts
    /\ running' = running \cup {w}
    /\ starts' = starts + 1
    /\ UNCHANGED <<faulty, memory, rows>>

\* A transaction that was open is rolled back and its lock released.
Crash(w) ==
    /\ w \in running
    /\ running' = running \ {w}
    /\ Blank(w)
    /\ UNCHANGED <<faulty, starts, rows>>

-----------------------------------------------------------------------------
(* run_worker_loop and tick_campaign *)

\* The reaper's run and the query for active campaigns, with those left out whose
\* counter has come to its bound.
Round(w) ==
    /\ w \in running
    /\ deciding[w] = Null /\ campaign_ids[w] = {}
    /\ campaign_ids' = [campaign_ids EXCEPT ![w] = {c \in Campaigns : tick_counter[w][c] < MaxTick}]
    /\ UNCHANGED <<world, tick_counter, deciding, lost, rows>>

\* The advisory lock excludes those who compute its number alike, until the commit.
Locked(w, c) == SameHash /\ \E v \in Workers \ {w} : deciding[v] = c

\* The lock and the tick's number; campaigns come in any order.
Begin(w, c) ==
    /\ deciding[w] = Null /\ c \in campaign_ids[w]
    /\ ~Locked(w, c)
    /\ tick_counter' = [tick_counter EXCEPT ![w][c] = @ + 1]
    /\ campaign_ids' = [campaign_ids EXCEPT ![w] = @ \ {c}]
    /\ deciding' = [deciding EXCEPT ![w] = c]
    /\ UNCHANGED <<world, lost, rows>>

\* Mutant of KeyTaken: keys are unique by the decision they were made for.
KeyTakenNever(c, t, n) == FALSE

\* The unique constraint on idempotency_key
KeyTaken(c, t, n) ==
    \E task \in dial_tasks : task.campaign = c /\ task.tick = t /\ task.idx < n

\* The row of the decision and those of its tasks, in one transaction; a delivery
\* that raises afterwards loses the rest of the round.
Commit(w, n) ==
    LET c == deciding[w]
        t == tick_counter[w][c]
    IN  /\ ~KeyTaken(c, t, n)
        /\ dial_decisions' = [dial_decisions EXCEPT ![c][t] = Append(@, n)]
        /\ dial_tasks' = dial_tasks \cup
                {Task(c, t, i, Len(dial_decisions[c][t]) + 1) : i \in 0 .. n - 1}
        /\ \/ UNCHANGED campaign_ids
           \/ faulty /\ campaign_ids' = [campaign_ids EXCEPT ![w] = {}]
        /\ UNCHANGED <<tick_counter, lost>>

\* Mutant of Refuse: the tick's number is counted when the decision is committed.
RefuseUncounted(w, n) ==
    LET c == deciding[w]
    IN  /\ KeyTaken(c, tick_counter[w][c], n)
        /\ tick_counter' = [tick_counter EXCEPT ![w][c] = @ - 1]
        /\ campaign_ids' = [campaign_ids EXCEPT ![w] = {}]
        /\ lost' = [lost EXCEPT ![w] = 1]
        /\ UNCHANGED rows

\* The commit fails, the loop prints the error, and the rest of the round is lost.
Refuse(w, n) ==
    LET c == deciding[w]
    IN  /\ KeyTaken(c, tick_counter[w][c], n)
        /\ campaign_ids' = [campaign_ids EXCEPT ![w] = {}]
        /\ lost' = [lost EXCEPT ![w] = @ + 1]
        /\ UNCHANGED <<tick_counter, rows>>

Decide(w) ==
    /\ deciding[w] # Null
    /\ \E n_approved \in 0..MaxApproved : Commit(w, n_approved) \/ Refuse(w, n_approved)
    /\ deciding' = [deciding EXCEPT ![w] = Null]
    /\ UNCHANGED world

Loop(w) == Round(w) \/ (\E c \in Campaigns : Begin(w, c)) \/ Decide(w)

Next == \E w \in Workers : Start(w) \/ Crash(w) \/ Loop(w)

Spec == Init /\ [][Next]_vars

\* A process that runs goes on.
LiveSpec == Spec /\ \A w \in Workers : WF_vars(Loop(w))

TypeOK ==
    /\ running \subseteq Workers /\ starts \in 0..MaxStarts /\ faulty \in BOOLEAN
    /\ tick_counter \in [Workers -> [Campaigns -> 0..MaxTick]]
    /\ campaign_ids \in [Workers -> SUBSET Campaigns]
    /\ \A w \in Workers : \A c \in campaign_ids[w] : tick_counter[w][c] < MaxTick
    /\ deciding \in [Workers -> Campaigns \cup {Null}]
    /\ \A w \in Workers : deciding[w] # Null => tick_counter[w][deciding[w]] \in Ticks
    /\ dial_decisions \in [Campaigns -> [Ticks -> Seq(0..MaxApproved)]]
    /\ dial_tasks \subseteq [campaign : Campaigns, tick : Ticks,
                             idx : 0..MaxApproved, decision : Nat]
    /\ lost \in [Workers -> Nat]

-----------------------------------------------------------------------------
TasksOf(c, t) == {task \in dial_tasks : task.campaign = c /\ task.tick = t}

\* Whatever processes restart, overlap or disagree on the lock, at most one decision
\* with a tick number approved calls, and the tasks with that number are its own, as
\* many as it approved: "This answers 'why 17 calls, not 10?' - query the table by
\* tick_id" (SMARTDIALER_MASTER_PROMPT.md:85).  Decisions that approved none may
\* share the number.
TickExplainsItsCalls ==
    \A c \in Campaigns, t \in Ticks :
        LET n_approved == dial_decisions[c][t]
        IN  /\ \A r, q \in DOMAIN n_approved :
                  (n_approved[r] > 0 /\ n_approved[q] > 0) => r = q
            /\ \A r \in DOMAIN n_approved :
                  n_approved[r] > 0
                      => TasksOf(c, t) = {Task(c, t, i, r) : i \in 0 .. n_approved[r] - 1}
            /\ TasksOf(c, t) # {} => \E r \in DOMAIN n_approved : n_approved[r] > 0

\* A restarted process loses rounds, for every campaign, until its counters have
\* passed the numbers calls were approved under, one round for each at most.
StallIsShort ==
    \A w \in Workers :
        LET passed == {k \in Campaigns \X Ticks :
                          k[2] <= tick_counter[w][k[1]] /\ TasksOf(k[1], k[2]) # {}}
        IN  lost[w] <= Cardinality(passed)

\* A process that runs by itself gets past every tick number that calls were approved
\* under before it started, for each campaign, whichever campaign comes first in its
\* rounds, provided that no delivery raises.
CatchesUp ==
    \A w \in Workers :
        [](running \subseteq {w} /\ ~faulty) =>
            \A c \in Campaigns, t \in Ticks :
                (w \in running /\ TasksOf(c, t) # {})
                    ~> (w \notin running \/ tick_counter[w][c] >= t)
=============================================================================
