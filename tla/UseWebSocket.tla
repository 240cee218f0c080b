---------------------------- MODULE UseWebSocket ----------------------------
(***************************************************************************)
(* The hook of the dashboard (dashboard/src/hooks/useWebSocket.ts) and the *)
(* controls that call it: a WebSocket that is opened again after it        *)
(* closes, and a simulated dialer that an interval drives while the        *)
(* dashboard is not LIVE and pacing is not paused.                         *)
(*                                                                         *)
(* What a socket, timer or interval callback sets is committed by a later  *)
(* render, and the effect that depends on it runs later still; what a      *)
(* click sets is rendered, and its effects run, within the click.  Any     *)
(* callback may come in between.                                           *)
(***************************************************************************)
EXTENDS DialerEngine, FiniteSets

CONSTANTS
    MaxSockets,  \* bound: sockets alive at once
    Switches     \* which of "Switched Mode", "Switched Scenario" the operator clicks

VARIABLES
    strict,            \* a development build, which mounts every effect twice
    blocked,           \* the browser refuses the URL: new WebSocket throws
    backendUp,
    sockets,           \* the state of each socket, or "none"
    timers,            \* reconnection timers pending
    connectionStatus,  \* as last set
    shown,             \* as last rendered
    effectDue,         \* rendered with another status, its effect not yet run
    loops,             \* intervals alive
    due,               \* a second of theirs has passed, the callback is yet to run
    isSimRunning,
    unshown,           \* newest entries of the log that data, as shown, is without
    isResetModalOpen

connection == <<blocked, backendUp, sockets, timers, connectionStatus>>
rendering == <<shown, effectDue, loops, due>>
vars == <<engine, strict, connection, rendering, isSimRunning, unshown,
          isResetModalOpen>>

ASSUME HookAssumption ==
    /\ Switches \subseteq {"Switched Mode", "Switched Scenario"}
    /\ MaxSockets \in Nat \ {0, 1}

Sockets == 1..MaxSockets

Alive == {s \in Sockets : sockets[s] # "none"}

-----------------------------------------------------------------------------
(* Mounting.  StrictMode mounts, cleans up and mounts again: the first      *)
(* socket has been closed, and its onclose is still to come.                *)

Mounted ==
    [s \in Sockets |->
        IF blocked THEN "none"
        ELSE IF strict THEN IF s = 1 THEN "closing"
                            ELSE IF s = 2 THEN "connecting" ELSE "none"
        ELSE IF s = 1 THEN "connecting" ELSE "none"]

HookInit ==
    /\ Init
    /\ strict \in BOOLEAN /\ blocked \in BOOLEAN /\ backendUp \in BOOLEAN
    /\ sockets = Mounted
    /\ timers = 0
    /\ connectionStatus = "SIMULATOR" /\ shown = "SIMULATOR"
    /\ effectDue = FALSE /\ loops = 1 /\ due = FALSE
    /\ isSimRunning = TRUE
    /\ unshown = 0
    /\ isResetModalOpen = FALSE

-----------------------------------------------------------------------------
(* The connection *)

BackendSwitches ==
    /\ backendUp' = ~backendUp
    /\ UNCHANGED <<blocked, sockets, timers, connectionStatus>>

OnOpen(s) ==
    /\ backendUp /\ sockets[s] = "connecting"
    /\ sockets' = [sockets EXCEPT ![s] = "open"]
    /\ connectionStatus' = "LIVE"
    /\ UNCHANGED <<blocked, backendUp, timers>>

\* Mutant of OnClose: a failed connection is tried again from onerror, too.
OnCloseTwice(s) ==
    /\ sockets[s] = "closing" \/ (~backendUp /\ sockets[s] \in {"connecting", "open"})
    /\ sockets' = [sockets EXCEPT ![s] = "none"]
    /\ connectionStatus' = "SIMULATOR"
    /\ timers' = timers + IF sockets[s] = "connecting" THEN 2 ELSE 1
    /\ timers < 3
    /\ UNCHANGED <<blocked, backendUp>>

\* Mutant of OnClose: only an open connection is opened again.
OnCloseGivesUp(s) ==
    /\ sockets[s] = "closing" \/ (~backendUp /\ sockets[s] \in {"connecting", "open"})
    /\ sockets' = [sockets EXCEPT ![s] = "none"]
    /\ connectionStatus' = "SIMULATOR"
    /\ timers' = timers + IF sockets[s] = "connecting" THEN 0 ELSE 1
    /\ UNCHANGED <<blocked, backendUp>>

\* Mutant of OnClose: the status is left as it was.
OnCloseQuietly(s) ==
    /\ sockets[s] = "closing" \/ (~backendUp /\ sockets[s] \in {"connecting", "open"})
    /\ sockets' = [sockets EXCEPT ![s] = "none"]
    /\ timers' = timers + 1
    /\ UNCHANGED <<blocked, backendUp, connectionStatus>>

\* A connection that fails fires onerror, which closes it, and then onclose.
OnClose(s) ==
    /\ sockets[s] = "closing" \/ (~backendUp /\ sockets[s] \in {"connecting", "open"})
    /\ sockets' = [sockets EXCEPT ![s] = "none"]
    /\ connectionStatus' = "SIMULATOR"
    /\ timers' = timers + 1
    /\ UNCHANGED <<blocked, backendUp>>

Reconnect(s) ==
    /\ timers > 0 /\ sockets[s] = "none"
    /\ timers' = timers - 1
    /\ sockets' = [sockets EXCEPT ![s] = "connecting"]
    /\ UNCHANGED <<blocked, backendUp, connectionStatus>>

Connection ==
    /\ BackendSwitches \/ \E s \in Sockets : OnOpen(s) \/ OnClose(s) \/ Reconnect(s)
    /\ UNCHANGED <<engine, strict, rendering, isSimRunning, unshown, isResetModalOpen>>

-----------------------------------------------------------------------------
(* Rendering, and the effect that owns the interval *)

\* Mutant of Effect: the cleanup is forgotten.
EffectLeaksLoop(status, running) ==
    /\ loops' = (loops + IF status # "LIVE" /\ running THEN 1 ELSE 0) % 4
    /\ UNCHANGED due

\* The cleanup of the last run, which drops its interval and the part of a second that
\* has passed of it, then the effect.
Effect(status, running) ==
    /\ loops' = IF status # "LIVE" /\ running THEN 1 ELSE 0
    /\ due' = FALSE

Render ==
    /\ connectionStatus # shown
    /\ shown' = connectionStatus
    /\ effectDue' = TRUE
    /\ UNCHANGED <<engine, strict, connection, loops, due, isSimRunning, unshown,
                   isResetModalOpen>>

RunEffect ==
    /\ effectDue
    /\ effectDue' = FALSE
    /\ Effect(shown, isSimRunning)
    /\ UNCHANGED <<engine, strict, connection, shown, isSimRunning, unshown,
                   isResetModalOpen>>

SecondPasses ==
    /\ loops > 0 /\ ~due
    /\ due' = TRUE
    /\ UNCHANGED <<engine, strict, connection, shown, effectDue, loops, isSimRunning,
                   unshown, isResetModalOpen>>

\* Mutant of Interval: the data of the tick is not set.
IntervalUnseen ==
    /\ loops > 0 /\ due
    /\ Tick
    /\ unshown' = IF unshown < LogLimit THEN unshown + 1 ELSE LogLimit
    /\ due' = FALSE
    /\ UNCHANGED <<strict, connection, shown, effectDue, loops, isSimRunning,
                   isResetModalOpen>>

Interval ==
    /\ loops > 0 /\ due
    /\ Tick
    /\ unshown' = 0
    /\ due' = FALSE
    /\ UNCHANGED <<strict, connection, shown, effectDue, loops, isSimRunning,
                   isResetModalOpen>>

-----------------------------------------------------------------------------
(* The operator *)

Unseen(n) == IF unshown + n < LogLimit THEN unshown + n ELSE LogLimit

\* The updater records, and a development build may call an updater twice.
Recorded(action, times) ==
    decisions' = IF times = 1 THEN Logged(decisions, Operator(action))
                 ELSE Logged(Logged(decisions, Operator(action)), Operator(action))

\* Mutant of ToggleSim: the effect is left to a later task.
ToggleSimDeferred ==
    /\ isSimRunning' = ~isSimRunning
    /\ \E times \in IF strict THEN {1, 2} ELSE {1} :
          /\ Recorded(IF isSimRunning THEN "Pause Pacing" ELSE "Resume Pacing", times)
          /\ unshown' = Unseen(times)
    /\ effectDue' = TRUE
    /\ UNCHANGED <<tickId, strict, connection, shown, loops, due, isResetModalOpen>>

\* Mutant of ToggleSim: the entry tells the state before the click.
ToggleSimRecordsOld ==
    /\ isSimRunning' = ~isSimRunning
    /\ \E times \in IF strict THEN {1, 2} ELSE {1} :
          /\ Recorded(IF isSimRunning THEN "Resume Pacing" ELSE "Pause Pacing", times)
          /\ unshown' = Unseen(times)
    /\ Effect(shown, isSimRunning')
    /\ effectDue' = FALSE
    /\ UNCHANGED <<tickId, strict, connection, shown, isResetModalOpen>>

ToggleSim ==
    /\ isSimRunning' = ~isSimRunning
    /\ \E times \in IF strict THEN {1, 2} ELSE {1} :
          /\ Recorded(IF isSimRunning THEN "Pause Pacing" ELSE "Resume Pacing", times)
          /\ unshown' = Unseen(times)
    /\ Effect(shown, isSimRunning')
    /\ effectDue' = FALSE
    /\ UNCHANGED <<tickId, strict, connection, shown, isResetModalOpen>>

\* changeMode and changeScenario: the effect depends on both, so the interval starts
\* again.
Change(switch) ==
    /\ Note(switch)
    /\ unshown' = Unseen(1)
    /\ Effect(shown, isSimRunning)
    /\ effectDue' = FALSE
    /\ UNCHANGED <<strict, connection, shown, isSimRunning, isResetModalOpen>>

\* The mode or scenario that is selected already: recorded, and no effect runs.
Reselect(switch) ==
    /\ Note(switch)
    /\ unshown' = Unseen(1)
    /\ UNCHANGED <<strict, connection, rendering, isSimRunning, isResetModalOpen>>

RequestReset ==
    /\ ~isResetModalOpen
    /\ isResetModalOpen' = TRUE
    /\ UNCHANGED <<engine, strict, connection, rendering, isSimRunning, unshown>>

CancelReset ==
    /\ isResetModalOpen
    /\ isResetModalOpen' = FALSE
    /\ UNCHANGED <<engine, strict, connection, rendering, isSimRunning, unshown>>

\* What App gives the modal to call: resetSim, which neither resumes pacing nor touches
\* the interval, and the modal is closed.
OnConfirm ==
    /\ Reset
    /\ unshown' = 0
    /\ isResetModalOpen' = FALSE
    /\ UNCHANGED <<strict, connection, rendering, isSimRunning>>

\* The form is submitted, which takes a reason; the one typed last is offered again.
ConfirmReset == isResetModalOpen /\ OnConfirm

HookNext ==
    \/ Connection \/ Render \/ RunEffect \/ SecondPasses \/ Interval
    \/ ToggleSim \/ \E switch \in Switches : Change(switch) \/ Reselect(switch)
    \/ RequestReset \/ CancelReset \/ ConfirmReset

\* The browser delivers its events, renders and runs its timers.  An interval that is
\* due may be cleared before its callback runs.
Fairness ==
    /\ \A s \in Sockets :
          /\ WF_vars(Connection /\ OnOpen(s))
          /\ WF_vars(Connection /\ OnClose(s))
          /\ WF_vars(Connection /\ Reconnect(s))
    /\ WF_vars(Render) /\ WF_vars(RunEffect)
    /\ WF_vars(SecondPasses) /\ WF_vars(Interval)

HookSpec == HookInit /\ [][HookNext]_vars /\ Fairness

HookTypeOK ==
    /\ tickId \in 0 .. Period - 1
    /\ Len(decisions) \in 1..LogLimit
    /\ {strict, blocked, backendUp, effectDue, due, isSimRunning, isResetModalOpen}
            \subseteq BOOLEAN
    /\ sockets \in [Sockets -> {"none", "connecting", "open", "closing"}]
    /\ {connectionStatus, shown} \subseteq {"LIVE", "SIMULATOR"}
    /\ unshown \in 0..LogLimit
    /\ timers \in Nat

-----------------------------------------------------------------------------
\* One interval drives the dialer while the dashboard shows the simulator and
\* pacing runs, and none otherwise, once the effect of the last render has run.
OneLoop ==
    /\ loops <= 1
    /\ ~effectDue => (loops = 1 <=> shown # "LIVE" /\ isSimRunning)

\* A paused dialer decides nothing and places no call, whatever timers and renders
\* were under way at the click: "Outbound telephony placement safely halted."
\* (useWebSocket.ts:162).
PauseHalts ==
    [][(decisions' # decisions /\ decisions'[1].action = "Decision") => isSimRunning]_vars

\* One connection, or one timer that will open it, at a time; a development
\* build has two, as the cleanup leaves the first socket its onclose.
OneConnection ==
    Cardinality(Alive) + timers <= IF strict THEN 2 ELSE 1

\* In a production build the status is that of the socket: not LIVE without an
\* open one, and not SIMULATOR beside one ("runs when backend WS is in simulator
\* mode", useWebSocket.ts:129).
StatusTellsConnection ==
    ~strict => (connectionStatus = "LIVE" <=> \E s \in Sockets : sockets[s] = "open")

\* The newest pause or resume in the log agrees with the dialer, and in a
\* production build they alternate; a reset forgets them.
TogglesOnRecord ==
    LET toggles == {i \in DOMAIN decisions :
                       decisions[i].action \in {"Pause Pacing", "Resume Pacing"}}
    IN  \A i \in toggles :
          /\ (\A h \in toggles : i <= h)
                => (decisions[i].action = "Resume Pacing" <=> isSimRunning)
          /\ ~strict => \A j \in toggles :
                (i < j /\ \A h \in toggles : h <= i \/ j <= h)
                    => decisions[i].action # decisions[j].action

\* A backend that stays up is shown LIVE for good, unless the browser refuses
\* the connection: the dashboard comes back from every outage by itself.
ConnectionReturns ==
    <>[](backendUp /\ ~blocked) => <>[](shown = "LIVE" /\ loops = 0)

\* The operator comes to an end of switching to other modes and scenarios.
SwitchingEnds == <>[][\A switch \in Switches : ~Change(switch)]_vars

\* What the operator did reaches the audit trail, unless pacing is paused or the
\* dashboard goes LIVE: data is refreshed by ticks and resets only, and an operator who
\* keeps switching mode or scenario within a second keeps the tick away.
ActionsReachTrail ==
    SwitchingEnds => (unshown > 0 ~> (unshown = 0 \/ ~isSimRunning \/ shown = "LIVE"))
=============================================================================
