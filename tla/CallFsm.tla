------------------------------ MODULE CallFsm ------------------------------
(***************************************************************************)
(* The call life-cycle of app/domain/fsm.py: a transition table and a pure *)
(* function that applies one event to one state.  Nothing here is a state  *)
(* machine of its own; EventIngest and Reaper apply NextState to rows of   *)
(* the calls table.                                                        *)
(***************************************************************************)

CallStates ==
    {"QUEUED", "RESERVED", "INITIATED", "RINGING", "ANSWERED", "CONNECTED",
     "COMPLETED", "FAILED", "CANCELLED", "ABANDONED", "UNKNOWN"}

TerminalCallStates == {"COMPLETED", "FAILED", "CANCELLED", "ABANDONED"}

\* Rows of CALL_TRANSITIONS: <<state, event, next state>>.
CallTransitions ==
    { <<"QUEUED",    "reserve",  "RESERVED">>,
      <<"RESERVED",  "initiate", "INITIATED">>,
      <<"QUEUED",    "initiate", "INITIATED">>,
      <<"INITIATED", "ringing",  "RINGING">>,
      <<"INITIATED", "fail",     "FAILED">>,
      <<"RINGING",   "answer",   "ANSWERED">>,
      <<"RINGING",   "fail",     "FAILED">>,
      <<"INITIATED", "cancel",   "CANCELLED">>,
      <<"RINGING",   "cancel",   "CANCELLED">>,
      <<"ANSWERED",  "connect",  "CONNECTED">>,
      <<"ANSWERED",  "abandon",  "ABANDONED">>,
      <<"CONNECTED", "complete", "COMPLETED">>,
      <<"INITIATED", "timeout",  "UNKNOWN">>,
      <<"RINGING",   "timeout",  "UNKNOWN">>,
      <<"UNKNOWN",   "answer",   "ANSWERED">>,
      <<"UNKNOWN",   "fail",     "FAILED">>,
      <<"UNKNOWN",   "complete", "COMPLETED">> }

RowsFor(current, event) ==
    {row \in CallTransitions : row[1] = current /\ row[2] = event}

\* Mutant of Applies: no convergence rule, COMPLETED needs a row of the table.
AppliesByTable(current, event) ==
    /\ current \notin TerminalCallStates
    /\ RowsFor(current, event) # {}

\* transition() says of an event whether it is applied ...  Besides the tokens of
\* the table the reaper passes the states a provider reports, lower-cased, of
\* which "completed" is the only one the convergence rule knows.
Applies(current, event) ==
    /\ current \notin TerminalCallStates
    /\ event \in {"complete", "completed"} \/ RowsFor(current, event) # {}

\* Mutant of NextState: the convergence rule answers with the event's own name.
NextStateEcho(current, event) ==
    IF ~Applies(current, event) THEN current
    ELSE IF event \in {"complete", "completed"} THEN event
    ELSE (CHOOSE row \in RowsFor(current, event) : TRUE)[3]

\* ... and in which state it leaves the call: the same one when it is not.
NextState(current, event) ==
    IF ~Applies(current, event) THEN current
    ELSE IF event \in {"complete", "completed"} THEN "COMPLETED"
    ELSE (CHOOSE row \in RowsFor(current, event) : TRUE)[3]
=============================================================================
