# Smart dialer: TLA+ specifications

A verification project for the smart dialer: a telephone dialer for recovery
agents whose processes share nothing but a PostgreSQL database (FastAPI,
SQLAlchemy and asyncio under `src/app`), and a dashboard (React, under
`src/dashboard/src`) that shows what the backend sends or, without a backend,
simulates a dialer of its own. The specifications model the pipeline from a
worker's decision to the end of a call, with crashes, lost replies, lost,
repeated, early and reordered events, and leases that run out at the wrong
moment; the circuit breaker around a provider; and the dashboard's simulated
dialer, the hook that drives it beside a reconnecting socket, its audit trail and its
agent table. TLC checks them on small instances; TLAPS proves the main safety
results for every instance.

## 1. The system

| Part | State it keeps | Operations that change state | Interacts with |
|---|---|---|---|
| Pacing worker (`worker/pacing_worker.py`) | tick counters, in memory | `run_worker_loop`, `tick_campaign`: decide, insert decision and tasks, deliver | engines, safety controller, task worker, reaper |
| Pacing engines (`pacing/`) | none | read counts, propose a number | database |
| Safety controller (`safety/controller.py`) | none | read counts, clamp the number | database, breaker's `state` |
| Dial task worker (`worker/dial_task_worker.py`) | its locals between transactions | `claim_task`, `execute_task` | reservations, provider, database |
| Reservations (`providers/call_allocator.py`) | none | `reserve_agent`, `reserve_borrower`, `dial_progressive` | `agents`, `borrowers` |
| Circuit breaker (`providers/circuit_breaker.py`) | state, failure counts, probe flag, in memory | `state`, `originate`, `record_success`, `record_failure` | one provider |
| Providers A, B (`providers/`) | event queue, call statuses, in memory | `originate`, `get_status`, `stream_events` | breaker, ingester, reaper |
| Event ingester (`worker/event_ingest_worker.py`) | copy of a call row inside a transaction | `ingest_provider_event`, `atomic_attach_agent` | `provider_events`, `calls`, `agents` |
| Reaper (`worker/reaper.py`) | none | `run_once` | `agents`, `calls`, provider's `get_status` |
| Call machine (`domain/fsm.py`) | none | `transition`, `call_transition` | ingester, reaper |
| API (`api/`) | dashboard sockets | heartbeat, campaign settings, read-outs | database, dashboard |
| Simulation (`sim/`) | one process, simulated clock | `run_simulation` | predictive engine, `approve_pure` |
| Client dialer (`sim/clientSim.ts`) | agents, funnel, estimates, decision log | `reset`, `tick`, `recordOperatorAction` | the hook |
| Hook (`hooks/useWebSocket.ts`) | socket, timers, connection status, pause | connect and reconnect, the interval, pause, reset, mode, scenario | backend, client dialer, views |
| Agent table (`components/WorkforceView.tsx`) | filters, order, page | its controls | the data of the hook |
| Figures, audit trail (`KPIGrid`, `OperationsOverview`, `AppHeader`, `AuditTrail`) | chips of the trail | none on the data | the data of the hook |

How a call goes: a tick commits a decision and its `PENDING` dial tasks; the
worker claims a task, reserves an agent, reserves a borrower and calls
`originate`, each in a transaction of its own or in none; a last transaction
writes the call row, `DISPATCHED` on the task and `DIALING` on the agent. Events
of the call come back through the ingester, one transaction each. The reaper runs
before every round of ticks and repairs what crashed workers left. The dashboard
does not take part in this: it reads, over a WebSocket that it opens again after
each loss, and while it has none an interval ticks the simulated dialer once a
second, which settles every call within its tick and logs a decision.

What makes it hard, and the property that goes with it (the whole list, line by
line, is `hazards` in `PROJECT.json`):

- a worker dies between any two of its transactions: no task may be dialed
  twice (`AtMostOnceOrigination`), agents must return (`IdleAgentReclaimed`);
- the provider places a call and its answer is lost: the task must not be tried
  again (`DeliversAsPromised`), nor lie about it (`DispatchedIffRecorded`);
- leases are time-outs, not locks: a holder that is slow writes by id to a row
  somebody else holds (`AgentServesOneCall`, `AttemptLimit`);
- events are lost, repeated, reordered, early, or processed two at a time
  (`CompletedConverges`, `TerminalStable`, `AttachExclusive`, `AttachedAgentBusy`);
- the reaper waits for the provider between reading a stuck call and writing it,
  and ingesters write the same rows meanwhile (`StuckCallResolved`,
  `AttachedAgentBusy`);
- the commit that records a call the provider has accepted may be refused, and the
  error is swallowed (`ClaimSettled`);
- a process counts ticks in memory and makes database keys of them, so a restart
  and a second process meet keys that are taken (`TickExplainsItsCalls`,
  `StallIsShort`, `CatchesUp`);
- the breaker is used across an `await` (`ProbeAlone`), what it does after a
  failed probe rests on old counts (`FailedProbeReopens`), and it leaves OPEN only
  when somebody looks (`OutageEnds`);
- in the dashboard, socket callbacks, timers, renders, effects and clicks come
  in any order (`OneLoop`, `OneConnection`, `PauseHalts`, `StatusTellsConnection`,
  `ConnectionReturns`, `ActionsReachTrail`, `TogglesOnRecord`, `DistinctKeys`);
- the simulated dialer keeps redundant counters over thousands of ticks
  (`CallsAccounted`, `RouteShares`) and clamps what it dials by a
  bound whose inputs the same tick changes (`BinomialBound`,
  `AbandonmentThrottles`, `ProgressiveNeverAbandons`);
- filters, order and page of the table change one by one while the list under
  them is replaced every second (`PagesShareOut`, `OnlyStatusStrands`,
  `AllTeamsListed`).

## 2. The modules

    CallFsm  <-  Schema  <-  DialTaskWorker, EventIngest, Reaper

    DialTaskWorker, EventIngest, Reaper  <-  SmartDialer   <-  SmartDialerProofs
    Reaper                               <-  Reconciler
    EventIngest, Reconciler              <-  CallRecovery  <-  CallRecoveryProofs

    TaskDelivery (abstract), instantiated by SmartDialer
    Decisions       <-  DecisionsProofs
    CircuitBreaker  <-  CircuitBreakerProofs

    DialerEngine (abstract), instantiated by ClientDialer
    DialerEngine  <-  DialerEngineProofs
                  <-  UseWebSocket  <-  UseWebSocketProofs
    ClientDialer  <-  DashboardFigures  <-  ClientDialerProofs
    WorkforceView <-  WorkforceViewProofs

The pipeline:

- **CallFsm**: the transition table and `transition()` as the operators `Applies`
  and `NextState`. The reaper passes lower-cased provider states to the same
  function, and only `completed` among them means anything to it.
- **Schema**: the variables `agent`, `borrower`, `task`, `call` and `seen` are the
  tables `agents`, `borrowers`, `dial_tasks`, `calls` and `provider_events`; each
  is a function from ids to the columns that some code reads.
- **DialTaskWorker**: `claim_task` and `execute_task`. `wk[w]` holds the locals of
  worker `w` and where it stands; each action is one transaction or one call to
  the provider. `leg[c]` is the telephone call the provider placed for call id
  `c`, which exists whether or not a row was ever written for it. It remembers,
  for the properties only, which task and agent it was placed for.
- **EventIngest**: `ingest_provider_event`. The call row is read without a lock
  and written back at commit, so the transaction is two steps: `IngestRead` copies
  the row into `ing[i]`, one of the commits decides by that copy. The attach of
  an agent (`IngestAttached`) is inside the commit: the statement locks the agent.
- **Reaper**: what `run_once` does to a row, and `RunOnce`, a run that finds no
  stuck call: two UPDATE statements and the commit, which is one step.
- **Reconciler**: a run that finds some. `ReapBegin` is the two UPDATEs, whose rows
  stay locked, and the SELECT, which locks nothing; `ReapAsk` the provider's word on one
  call and the read of its agent; `ReapCommit` writes what was assigned, by primary
  key, to whatever the rows hold by then. `reap` is the open transaction.
- **SmartDialer**: all of these over the same rows, plus the provider's events,
  time, crashes and the heartbeat endpoint. It starts when a decision has been
  committed. Its calls have no lease, so the reaper never finds one stuck.
- **CallRecovery**: ingester and reconciler over calls the pipeline does not create
  and the code is nevertheless written for: calls with no agent bound (the
  predictive path, `tests/test_event_chaos.py`) and calls with a lease of their own
  (`tests/test_crash_drill.py`). Its initial states are the rows those tests insert.
- **TaskDelivery**: what durable tasks promise, with no agents, leases or
  processes: taken, dialed at most once, put back only if not dialed, settled once.
  `SmartDialer` implements it with `status` mapped from `task`, and `dials` from the
  legs placed for a task.
- **Decisions**: the worker's loop. A round goes over the campaigns; a tick counts
  in memory (`tick_counter`), takes the advisory lock, and commits a decision with
  its tasks under keys made of campaign, tick and index, or is refused because a
  key is taken, which ends the round. Processes start, die and lose their counters.
- **CircuitBreaker**: one breaker; `originate` is two steps around its `await`.

The dashboard:

- **DialerEngine**: all that the hook relies on of its dialer: a tick number, and a
  log, newest entry first, to which a tick or an operator adds one entry and which
  a reset makes new.
- **ClientDialer**: the dialer. `Tick` is the method `tick` in its order: statuses
  age, calls end, the mode's pacing decides, the carriers share the dials, every
  call is settled, `alpha` is halved or ramped, an entry is logged. It implements
  `DialerEngine` (`KeepsEnginePromise`).
- **DashboardFigures**: what the dashboard finds in the dialer's log: the
  interventions it counts, and the rows the chips of the audit trail leave.
- **UseWebSocket**: the hook and the controls that call it, over `DialerEngine`.
  What a socket, a timer or the interval sets is rendered in a later step
  (`Render`), and the effect that depends on it runs later still (`RunEffect`);
  what a click sets is rendered with its effects inside the click. A second passes
  (`SecondPasses`) before the interval may fire, and every effect that runs clears the
  interval and starts another: also that of a click that switches mode or scenario
  (`Change`; to pick the one selected already, `Reselect`, runs none).
- **WorkforceView**: the agent table and the tab that mounts it.

The proof modules and the MC modules hold no part of the system. `MCClientDialer` and
`MCWorkforceView` define constants a configuration cannot write, `MCSmartDialer` the
symmetry of its runs.

Definitions whose comment begins "Mutant of" are wrong variants of the definition
below them, each a bug this code could plausibly have. Nothing uses them; put in
the place of the original they make the property of the same row of `mutants` in
`PROJECT.json` fail, which is how it is known that the property can fail.

### Abstractions of the pipeline

- *Time.* The program asks of a deadline only whether it is NULL or past. A
  lease is `null`, `live` or `expired`, a heartbeat `null`, `fresh` or `stale`, and
  the passing of time is an action that may happen at any moment the constants
  allow. `SlowOriginate` says whether a lease may run out on a worker that still
  runs, `SlowCalls` whether it may run out on an agent in a call.
- *Order.* `ORDER BY` in the reservation statements (idle time, priority) is a
  choice among the eligible rows, and so is the order of the campaigns of a round.
- *Locks.* A statement with `FOR UPDATE SKIP LOCKED` is one atomic step that may
  also find nothing while another process is around (`RowsMayBeLocked`).
  The fallbacks for SQLite do the same as a read and a guarded update; the fallback
  that looks for an agent lacks the test of the heartbeat. The advisory lock
  excludes two processes only if they compute its number alike (`SameHash`).
- *ORM writes.* `session.get` followed by an assignment and `commit`, with nothing
  awaited from outside and no other statement between them, is one step; otherwise the
  read and the write are two, with what was read in a copy. So the ingester's
  call row is, and every row of the reconciler, which awaits the provider. The commit
  writes the columns that were assigned another value than was read. One exception: the
  end of a call in the ingester (`IngestEnded`) reads the agent, checks it and writes it
  in one step, though a flush of the call row comes in between.
- *Locks held.* An ingester's commit that changes an agent waits for the reconciler's
  transaction if that has updated the agent's row.
- *Decisions.* What an engine proposes and the safety controller approves is any
  number up to `MaxApproved`; the two clamp by counts and reals and change no row.
  The worker takes the progressive engine whatever the campaign's mode. A
  delivery ends, or, where `faulty` was chosen at the start, may raise.
  Campaigns stay active: the return of a tick that finds its campaign made
  inactive (`pacing_worker.py:60`), with the lock still held, is left out.
- *A refused request* leaves events of a call id that never gets a row; the
  ingester records them and does nothing else, so they are left out. A reply that
  is lost after the call was placed is `OriginateReplyLost`.
- *Columns nothing reads* are left out: `reserved_by`, `claimed_by`,
  `claimed_until`, `attempt_count`, `last_error`, timestamps, the inputs a decision
  records. `retry_after` is read and never written, hence NULL.
- *Foreign keys.* `EnforceForeignKeys` TRUE is PostgreSQL, which checks a
  reference at the end of each statement; FALSE is the engine of the tests, SQLite
  with its default, and also what the code evidently intends. All runs take FALSE:
  with TRUE no call is ever recorded, since the task row names the call before
  the call row is flushed (`dial_task_worker.py:214`).
- *Event ids.* A repeated event repeats its id, as both providers do. A resend
  under a new id is not modelled.
- *One campaign* in `SmartDialer`. (`reserve_agent` ignores the campaign of the agent
  it takes.)
- *The breaker's average* is an integer in units of 1/10000, rounded down; its
  count stops at its threshold, beyond which nothing distinguishes two values. Its
  latency average is left out: nothing compares it.

### Abstractions of the dashboard

- *Rates* are integers: the answer rate in percent, `alpha` in thousandths,
  capacities in hundredths of an agent, all rounded down. The bound of a predictive
  tick is the closed form of the code (`SafeTotal`), its roots computed in
  thousandths, each rounded to the side that allows fewer dials; z squared is
  exact. The property compares it with the inequality it was solved from
  (`Safe`, the comment at `clientSim.ts:287`), squared to be rid of the root.
- *Start times.* The seconds an agent starts with are drawn for each agent;
  `StartTimes` is the set of draws a behaviour may begin with.
- *Chance.* Who answers is drawn at random; every outcome is possible.
  `Estimates` is the answer rate after every order of the outcomes of a tick.
- *Numbers that only grow.* Tick numbers are kept modulo `Period`, a common multiple
  of the cycles the code has, and an agent's time in a status stops where no
  limit can tell it from a longer one.
- *Rendering* is a commit (`Render`) and passive effects that run later
  (`RunEffect`). StrictMode and a browser that refuses the URL are chosen at the
  start (`strict`, `blocked`). Which mode or scenario is switched to does not
  matter to the hook, only that the log gets an entry.
- *Left out*: the charts' history, `hasWarning`, the agents' own statistics,
  `lastUpdated`, toasts, the header's filters (nothing is decided by them), the 400
  ms in which the pause button is disabled, the density of the table, and in the
  table's module why agents change status: every tick may change all of them.
- *Searches* are the sets of agents a text matches; *columns* that do not change are
  the order of their values.

## 3. The runs

Passing runs (distinct states):

| Run | Configuration | Checks | Size |
|---|---|---|---|
| Delivery | 3 tasks, a mortal worker and one that lives, 1 agent, 2 borrowers (one suppressed), 2 attempts; lost replies, leases that run out on anyone, refused commits; COMPLETED; fairness | `TypeOK`, `AtMostOnceOrigination`, `AttemptLimit`, `DispatchedIffRecorded`, `DeliversAsPromised`, `ClaimSettled`, `IdleAgentReclaimed` | 213 thousand |
| Prompt | 2 tasks, 2 mortal workers, 2 agents (one monitored); leases outlive set-up and calls, events of all types lost, repeated, reordered, but after the commit | `AgentServesOneCall`, `CompletedConverges` | 115 thousand |
| Attach | 2 unbound calls, one with a lease of its own, 1 agent, 2 ingesters, the reaper in steps; RINGING, ANSWERED, COMPLETED in any order; fairness | `AttachExclusive`, `AttachedAgentBusy`, `StuckCallResolved` | 444 thousand |
| Breaker | 2 callers, default thresholds, outages that begin and end; fairness | `ProbeAlone`, `FailedProbeReopens`, `OutageEnds` | 370 thousand |
| Decisions | 2 processes that disagree on the lock, 2 campaigns, 1 call a decision, 2 ticks, 2 starts; fairness | `TickExplainsItsCalls`, `StallIsShort`, `CatchesUp` | 68 thousand |
| Simulator | 9 agents that come free together or in turns, both modes, the drifting scenario, resets, every outcome of every call, 10 dials | `TypeOK`, `CallsAccounted`, `RouteShares`, `InterventionsFound`, `ProgressiveNeverAbandons`, `AbandonmentThrottles`, `BinomialBound`, `KeepsEnginePromise` | 503 thousand |
| Console | 2 sockets, a log of 3 entries; both builds, a backend that comes and goes; fairness | `OneLoop`, `OneConnection`, `StatusTellsConnection`, `TogglesOnRecord`, `DistinctKeys`, `PauseHalts`, `ConnectionReturns`, `ActionsReachTrail` | 120 thousand |
| Views | 4 agents, 2 teams, 2 statuses and all seven cards, pages of 1 or 3, every control | `TypeOK`, `PagesShareOut`, `OnlyStatusStrands` | 34 thousand |

What they show:

- **Delivery** is the adversarial run: every kind of failure at once. What survives
  is what the claim protocol guarantees with no timing assumption: no task is
  dialed twice, calls placed to a borrower stay within the attempts counted, task
  rows are truthful, and the pipeline implements `TaskDelivery`. Under fairness, agents
  stranded by a dead worker come back, and a claim of a worker that lives is
  returned or settled with one exception, which the property states and the run
  reaches: the provider has accepted the call and the commit that should have
  recorded it is refused, because the borrower's lease has run out and another call
  of that borrower is up. The error is caught by the loop and the task
  stays PROCESSING.
- **Prompt** takes away slowness only. Then an agent has one customer at a time,
  whatever crashes, and a recorded COMPLETED means an ended call.
- **Attach**: two ingesters cannot give one agent to two calls, even while the
  reaper takes it OFFLINE under them, nor is an attached agent set free under its
  call; and a leased call in set-up is ended or connected, even though an ingester
  may write the older state back over the reaper's work, and the reaper over
  the ingester's.
- **Breaker**: one probe at a time while replies are faster than the cooldown, a
  failed probe reopens, and an outage that is over ends for the breaker too.
- **Decisions**: the unique keys do what the lock does not. Two processes may decide
  for one campaign under one tick number, but one of the decisions that approved
  calls is refused, whole. The price is rounds lost: a restarted process loses
  one at most for each tick number that calls were approved under, for all
  campaigns together, and then goes on.
- **Simulator**: the counters balance, the decisions keep the bound they print, and
  the audit trail finds what the safety controller did. Also the engine the hook's
  module relies on.
- **Console**: pausing halts, one interval runs, one connection is open, and the
  dashboard comes back to LIVE by itself.
- **Views**: pages share out the list, and the table leaves its user on a page that is not
  there any more only after a status card or new data.

Bounds of the pipeline's runs. Two workers and two ingesters give every
pairwise race, and a single agent is what they contend for (Prompt has two, one of
which goes OFFLINE); a race of three adds no new kind of step because every step is of
one process against rows. Two attempts are needed for a borrower to be dialed twice;
three tasks for a task to be returned while others are in hand. `Calls` bounds the
calls a behaviour may place (guard of `PlaceLeg`): with as many calls as tasks, a
second dial for a task would have a call id left to take. In Delivery events follow the
commit; early ones have been checked with no agent monitored (311 thousand states). In
Attach INITIATED is left out: it applies to no state a call row has. Each event type is
delivered by its id, once; a repetition is a no-op by `seen`, and an aborted transaction
is the way the same event is tried again. The reaper's reports are those of the providers
in the repository (`completed` for every call they accepted) and, in Attach,
`none` for a call whose provider the reaper does not know.

Bounds of Decisions. `MaxTick`, `MaxApproved` and `MaxStarts` are bounds; two starts are
a restart, or two processes at once, and a first process can fill every tick number
before the second meets them. Campaigns whose counter is at the bound are left out of
a round. `MaxApproved` 2, where a refused decision shares only some of its keys, has
been checked as well (386 thousand states).

Bounds of the dashboard's runs. Nine agents, eight of them leaving wrap-up together in one
draw of the start times, are the fewest for which the bound of a predictive tick allows
more dials than agents; `MaxDials` ends a behaviour after ten dials (a reset does not
clear the carriers' counts), enough to abandon calls and to tick with dials already
counted. The cycles of the code (15 ticks to a ramp, 40 to a phase of the drift) are cut
to 3 and 1, which keeps what matters: whether a tick abandons, ramps or both, and which
carrier state it meets. A log of one entry in Simulator (each property reads its top, or
treats entries alike), of three in Console, where pauses and resets meet old entries at
its far end; `Period` just above it. A development build has two sockets alive, and
OneConnection says that it never has more. One of the two `Switches` in Console: they
differ by their entry's name only. Four agents on pages of one are four pages; on pages of
three a last page that is not full.

Deadlock is checked in every run but two: in Decisions all processes may have died with
no start left, and in Simulator the bound on dials ends a behaviour.

### Violations

Four runs check a statement of the repository that the code does not keep. Each is
a finding in `PROJECT.json`, with the quotation.

- **LongCall**: nothing renews an agent's lease during a call and no event of a
  bound call clears it; after thirty seconds the reaper makes the agent AVAILABLE
  and it is reserved for a second call (`AgentServesOneCall`).
- **DeadClaim**: `claimed_until` is written and never read; the task of a dead
  worker stays PROCESSING (`ClaimReclaimed`).
- **LateEvent**: an ingester that read the call before another ended it writes the
  older state back (`TerminalStable`).
- **AllTeams**: the option "All Teams" has the value `All` and the filter looks for
  `ALL`, so that after a team was chosen it lists nobody (`AllTeamsListed`).

Other constants show more of the kind; no run is kept for them, because each is a
consequence of a choice named above and one sentence tells all there is to see:

- `EnforceForeignKeys` TRUE refuses the commit of every accepted call; each of them is
  then the exception of `ClaimSettled`.
- `EarlyEvents` TRUE in Prompt violates `CompletedConverges`: events that arrive, in
  order, before the call row are recorded and never applied.
- `ProbesMayRaise` TRUE violates `OutageEnds`: a probe that raises leaves its flag set.
  The providers of the repository do not raise.
- `Reports` with "ringing" violates `AttachedAgentBusy`: the reaper, with a copy of a call
  from when it was INITIATED, sets it to RINGING after it has been answered or has ended,
  finds it stuck in its next run, and frees its agent, which serves another call by then.
  The providers of the repository say "completed" of every call they accepted.
- `Change` without end violates the conclusion of `ActionsReachTrail`: an operator who
  switches mode or scenario within every second keeps the interval from firing.

### Fairness

- `RunOnce` in SmartDialer, weak: the loop runs the reaper before each round of ticks.
- `Begin` weak, `Ask(c)` and `Finish` strong in CallRecovery: the reaper is run again and
  again; a run may be cut off between its steps, but not every one.
- `WorkerStep(w)`: a worker that has claimed runs on, unless it is mortal and
  crashes; its wait for the provider ends one way or another. Claiming is not fair:
  nothing forces a new tick to find work.
- `AgentLeaseRunsOut`, `LeaseRunsOut`, `CooldownPasses`: time passes.
- `OriginateAdmitted(r)` in CircuitBreaker: there is always a call to place; the
  loop ticks every second, and a tick that finds agents free inserts tasks.
- `Loop(w)` in Decisions: the process, while it runs, goes round its loop.
  `CatchesUp` is claimed only for a process that runs by itself and for deliveries
  that do not raise: two processes can go on taking each other's keys, and a
  delivery that raises every time starves the campaigns after it.
- In UseWebSocket the browser delivers: the socket's open and close, the
  reconnection timer, renders, effects and, when a second has passed and nothing has
  cleared it, the interval. Nothing is assumed of the operator or of the backend in
  the specification: `ConnectionReturns` has a backend that stays up as its
  premise, and `ActionsReachTrail` an operator who comes to an end of switching.
- None for the arrival of an event, for an ingester to end the transaction it began, for
  a heartbeat, or for a SKIP LOCKED statement to find its row.

## 4. The proofs

`SmartDialerProofs` proves for any finite or infinite sets of workers, ingesters,
agents, borrowers, tasks and calls, and for any values of the switches:

- `TypeCorrect`: `Spec => []TypeOK`;
- `OriginatesAtMostOnce`: `Spec => []AtMostOnceOrigination`;
- `DispatchTellsTheTruth`: `Spec => []DispatchedIffRecorded`;
- `AttemptsAreLimited`: `Spec => []AttemptLimit`;
- `AgentsServeOneCall`: `Spec => []AgentServesOneCall`, if there is one ingester
  (`OneIngester`) and leases outlive set-up and calls (`LeasesOutlast`);
- `CompletedIsFinal`: `Spec => []CompletedConverges`, if there is one ingester and no
  event comes before the commit of its call's row (`~EarlyEvents`);
- `EndedCallsRest`: `Spec => CallsEndOnce`, if there is one ingester: no step writes the
  row of a call that has ended;
- `ImplementsPromise`: `Spec => DeliversAsPromised`, the refinement of `TaskDelivery`;
- `TerminalAbsorbs`, `CompletedEnds`: a terminal state absorbs every event, and
  COMPLETED ends a call from every state that is not terminal.

The argument is one inductive invariant, `DeliveryInv`. That no two legs belong to one
task is not inductive: a worker about to dial must be known to hold a task nobody dialed.
So the invariant says that the task a worker holds is PROCESSING (`ClaimsHeld`), that no
two workers hold the same (`ClaimsExclusive`), that a task with a leg is no longer PENDING
(`DialedForClaimed`), that a worker which has not come to `originate` holds a task nobody
dialed (`UndialedUntilOriginate`), that the call in a worker's hand is a leg of its own
task (`PlacedIsDialed`), and that rows of `calls` exist exactly for dispatched tasks
(`RecordedIsDispatched`, `DispatchedIsRecorded`). `ReadIsRecorded`, that an ingester
holding a row holds one that was written, keeps an ingester's late write from making a
call row of its own. The step lemma has one case per action. The refinement takes the same
invariant: it supplies the guards of `PutBack` (nothing dialed yet) and `Dial` (not dialed
before, by a fresh call id).

`AttemptLimit` has an invariant of its own, `AttemptsInv`: the calls placed to a
borrower and the workers about to dial it, together, are within `call_count`, and
both sets are finite. The lease does not enter: it may run out while its worker still
dials. TLC has checked both invariants on the Delivery instance as well.

The constants of the run Prompt satisfy the conditions of `AgentsServeOneCall`,
`CompletedIsFinal` and `EndedCallsRest`. The run LongCall shows
why leases must outlast their calls, and EarlyEvents TRUE, why an event must not
overtake the commit; with two ingesters one may write back a row that the other has
ended, as LateEvent shows. All three rest on `RowsInv`: a worker
holds an agent from its reservation to the end of its task, a call of the pipeline
always has an agent and no lease, so the reaper finds none stuck, and the copy in the
ingester's hand is the row. `UseInv` adds that an agent is used by one worker or by
one active call, and that no agent in use can be taken (`UsedTaken`), which every
release, by a worker, an event or the reaper, has to keep. `EventsApplied` adds to
`CompletedConverges` that every recorded event found a row. TLC has checked them on the
Prompt instance.

`CallRecoveryProofs` proves `RecoveryTypeCorrect`, and under `OneEnding` also
`AgentsAttachedOnce` (`AttachExclusive`) and `AttachedAgentsTaken` (`AttachedAgentBusy`).
`OneEnding` says that calls are dialed unbound, that providers send the four events
theirs do send, and that `get_status` never says "ringing"; the constants of the run
Attach satisfy it, and calls may have leases. The invariant, `AttachInv`, is that a call
is attached by its one ANSWERED event and gives its agent back by its one
COMPLETED event, whatever copies of its row other ingesters and the reaper hold. An event is in
one pair of hands or recorded (`EventsTaken`); a call that has rung is set to RINGING by no
other event (`OnceRung`), and an attached call has had its ANSWERED (`AnsweredOnce`); a
copy with another agent than the row's was read before that (`ReadBefore`), so no
second event undoes an attachment (`OneUndone`). For the reaper: what it will write to a
call is the end of one (`ReapOnly`), so it sets no call back, and it frees
no agent that is attached (`AttachedTaken`), because the calls it selects in set-up name none.

It also proves the other half of the finding LateEvent. The lemma `OlderCopyUndoes`, with
no condition at all, says that a step that undoes the end of a call is the commit of an
ingester that read the call before it ended, or of a reaper that selected it before. Hence
`EndedCallsStay` (`TerminalStable`) under `OneWriter`: one ingester, and no call with a
lease, so that the reaper rests. Each condition is needed: LateEvent has two ingesters and
no lease, and with one ingester and one lease TLC finds the reaper ending a call between
the ingester's read and its commit.

`DecisionsProofs` proves `DecisionsTypeCorrect`, `TicksAreExplained`
(`TickExplainsItsCalls`) and `RestartsCostFewRounds` (`StallIsShort`), with or without the
lock. `TickExplainsItsCalls` is inductive with the types: keys start at index 0, so a
decision that approves anything meets the key of index 0 of any other that did.
`StallIsShort` is not: the number a process is deciding under counts as passed if another
process took it, so a refusal could lose a round and pass nothing new. `StallInv` counts
only the numbers the process is done with (`Settled`). A refusal means a task has the key,
so the number becomes settled in the step that loses the round; a settled number stays so,
as the counters of a process that lives only grow and tasks are never deleted; and a crash
sets the count and the counters to nothing together. `Cardinality` needs the set to be
finite even where the campaigns are not: a step adds one number to it at most.

`CircuitBreakerProofs` proves for any callers and thresholds:

- `BreakerTypeCorrect`: `Spec => []TypeOK`;
- `OneProbe`: if replies are timely, `Spec => []ProbeAlone`;
- `FailedProbeOpens`: `Spec => FailedProbeReopens`.

Its invariant adds `TripKept`, that a breaker that is not CLOSED still holds the counts
that opened it, and `Alone`, that nothing is at the provider when a cooldown ends.
That one more failure never lowers the average is the lemma `FailureRaises`.

`DialerEngineProofs` and `UseWebSocketProofs` prove of the hook `LoopIsAlone` (`OneLoop`),
`PausedDecidesNothing` (`PauseHalts`), `ConnectionsDoNotMultiply` (`OneConnection`),
`StatusIsTheSockets` (`StatusTellsConnection`), `RecordTellsTheDialer` (`TogglesOnRecord`),
`HookTyped` (`HookTypeOK`) and `KeysAreDistinct` (`DistinctKeys`; of the
engine alone, `EngineKeysDistinct`). `EngineInv` says that tick numbers, down the
log, descend by no more than the places passed, modulo `Period`: the log is shorter
than `Period`, so no number comes twice. `LoopInv` ties the interval to the render that
is shown until that render's effect is due. `ConnInv` adds to `OneConnection` that in a
production build no socket is closed but by the network. `TogglesOnRecord` is
inductive by itself, once the log is seen as positions: a new entry moves each toggle
one place down and drops at most the oldest, so neighbours stay neighbours, and a
toggle is put on top by the click that changes `isSimRunning`.

`ClientDialerProofs` proves, for any pool, scenario and limits, `WellTyped` (`TypeOK`),
`BooksBalance` (`CallsAccounted`), `PrimaryHasItsShare` (`RouteShares`), `ProgressiveIsSafe`
(`ProgressiveNeverAbandons`), `AbandonmentIsAnswered` (`AbandonmentThrottles`), `BoundKept`
(`BinomialBound`), `AuditFinds` (`InterventionsFound`) and `ImplementsEngine`
(`KeepsEnginePromise`). Three invariants are under them. `DialerInv` is the types of what is
counted with the two balances. `TypeInv` adds the log and the rates, and gives `TypeOK`:
its hard part is that a tick's calls, in whatever order they are answered, leave the answer
rate between its clamps. `RecordInv` says that every CRITICAL entry still in the log
is one of the safety controller's, and that the newest predictive decision is too while
carrier B is open.

`BoundKept` is about the closed form: `SafeTotalIsSafe` says that the x_max it computes, squared
and rounded down, satisfies the inequality of the comment, for every capacity and every rate
between the clamps. Its argument is that of the quadratic formula with integers:
the roots exist and are rounded to the right side (`RootRounds`), so 2u x_max + inner is at
most the root of the discriminant, and the squares cancel to u x_max^2 <= cap - inner x_max.
`TypeInv` supplies the range of the rate.

The rate and alpha go through recursive functions (`Estimates`, `Halved`), so their ranges
need an induction, and so does the existence of an integer root. The library's induction
rule takes an operator and is out of reach, but induction over a set is a first-order
statement: `SetInduction` says that a set with 0 that holds the successor of each of its
numbers holds every number, and is proved from the library's fact that inclusion of finite
sets is well-founded. From it follows `Iterated`: a function given by a first value and a
step exists, hence a recursive function satisfies its equation, and any set that holds its
first value and is closed under its step holds all its values.

`WorkforceViewProofs` proves `TableTypeCorrect`, `PagesShareTheList` (`PagesShareOut`) and
`StrandedByStatusOnly` (`OnlyStatusStrands`), for any number of agents and any columns.
`PagesShareTheList` needs that `Index` is a bijection between the listed agents and the
places 0 to n - 1, for every order and its ties.

Assumptions are those named in the modules: `SchemaAssumption`, `WorkerAssumption`,
`IngestAssumption`, `ReaperAssumption`, `DialerAssumption` (one in SmartDialer, one in
ClientDialer), `RecoveryAssumption`, `BreakerAssumption`, `DecisionsAssumption`,
`EngineAssumption`, `HookAssumption`, `PeriodAssumption`, `TableAssumption`,
`NoTeamCalledAll`. They are types of the constants, that NULL is no id, that the log is shorter than
the period of tick numbers, and that no team has the name of the option that stands
for all.

Model-checked only is liveness, which the prover does not reach: `IdleAgentReclaimed`,
`ClaimSettled`, `StuckCallResolved`, `OutageEnds`, `CatchesUp`, `ConnectionReturns` and
`ActionsReachTrail`. Every other property of a passing run is stated by a theorem.

The type invariants of CircuitBreaker, CallRecovery, Decisions and UseWebSocket are proved
and in no run's list.

## 5. What is not modelled

- The engines, the safety controller and the simulation runner: computations over reals
  that change no shared row. What they could propose and approve is covered by "any
  number" in Decisions; the same bound, as the dashboard computes it, is in ClientDialer.
- `dial_progressive`: the same steps without durable tasks, called by the load test and
  tests only. `agent_transition`: called by tests only.
- The fourth step of the reaper: nothing inserts or reads a row of `leases`.
- Reports `failed` and `answered` to the reaper: the module has them, no run gives them,
  as no provider of the repository says so of a call it accepted.
- The API's read-outs and campaign settings, reports, configuration, migrations' indexes
  other than the unique ones.
- Of the dashboard: the figures on the cards, charts, sparklines, dialogs that inspect a
  metric or a decision, layout, and three components nothing imports (`AgentGrid`,
  `CallFunnel`, `PacingPanel`).

Consequences of the models worth knowing, which no run states:

- A call of the pipeline carries no lease of its own, so the reaper never
  reconciles it. An agent set to DIALING by a worker slow enough to have lost its
  reservation keeps a NULL deadline, which the reaper never reclaims either.
- Decisions that approved no call take no key: after a restart several may share a
  tick id.
- The simulated dialer counts every dial since the reset as ringing (`Ringing`),
  though each is settled within its tick: predictive mode dials less and less,
  and stops.
- The abandonment rate shown counts abandoned calls twice below the line: 1 of 33
  answered shows as 2.94%, "Compliant (<3.0%)", and is 3.03%.
- The cards show more dials than there are: "In flight" counts every dial since the reset
  (`KPIGrid.tsx:184`), and the two cards of connected calls (`KPIGrid.tsx:210` and the
  overview) differ by the agents that a reset found talking.
- An agent may stay CONNECTED for ever on a call that has ended, where ANSWERED and
  COMPLETED are processed at once, or the reaper ends a call over an attach:
  `AttachedAgentBusy` is the direction that holds.
- A decision's entry prints the rates its own tick left behind, not those it decided by.
- A development build (StrictMode) keeps two connections, since the cleanup leaves the first
  socket its `onclose`; hence the `strict` of `OneConnection` and `StatusTellsConnection`.

## 6. Plan

1. Decisions over the rows of SmartDialer in one module, with two campaigns: the
   agents one campaign's approval counted may be taken by the other's tasks.
2. The safety controller's `approve` over bounded integers, compared with the bound of
   ClientDialer, which prints the same formula.
