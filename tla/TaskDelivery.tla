---------------------------- MODULE TaskDelivery ----------------------------
(***************************************************************************)
(* What the durable dial tasks promise, with no agents, leases or          *)
(* processes in sight: a task is taken, is dialed at most once in all its  *)
(* life, is put back only while it has not been dialed, and once settled   *)
(* stays settled; a task reported dispatched was dialed.  A taken task may *)
(* be forgotten by whoever took it, but is never taken again.              *)
(***************************************************************************)
CONSTANTS Tasks, Calls

VARIABLES
    status,     \* status[t]: "open", "taken", "dispatched" or "failed"
    dials       \* dials[t]: the calls placed for t

vars == <<status, dials>>

Init ==
    /\ status = [t \in Tasks |-> "open"]
    /\ dials = [t \in Tasks |-> {}]

Take(t) ==
    /\ status[t] = "open"
    /\ status' = [status EXCEPT ![t] = "taken"]
    /\ UNCHANGED dials

PutBack(t) ==
    /\ status[t] = "taken"
    /\ dials[t] = {}
    /\ status' = [status EXCEPT ![t] = "open"]
    /\ UNCHANGED dials

Dial(t) ==
    /\ status[t] = "taken"
    /\ dials[t] = {}
    /\ \E c \in Calls : /\ \A u \in Tasks : c \notin dials[u]
                        /\ dials' = [dials EXCEPT ![t] = {c}]
    /\ UNCHANGED status

Dispatch(t) ==
    /\ status[t] = "taken"
    /\ dials[t] # {}
    /\ status' = [status EXCEPT ![t] = "dispatched"]
    /\ UNCHANGED dials

\* Also when the call was placed and the answer never came back.
GiveUp(t) ==
    /\ status[t] = "taken"
    /\ status' = [status EXCEPT ![t] = "failed"]
    /\ UNCHANGED dials

Next == \E t \in Tasks :
    Take(t) \/ PutBack(t) \/ Dial(t) \/ Dispatch(t) \/ GiveUp(t)

Spec == Init /\ [][Next]_vars
=============================================================================
