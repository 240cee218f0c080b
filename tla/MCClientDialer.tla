--------------------------- MODULE MCClientDialer ---------------------------
(***************************************************************************)
(* A pool of nine agents, eight in wrap-up and one on a call.  One draw    *)
(* lets them come free together, the smallest number for which the         *)
(* predictive bound allows more dials than there are free agents; the      *)
(* other staggers them.                                                    *)
(***************************************************************************)
EXTENDS DashboardFigures

Draws == {[a \in 1..9 |-> 0], [a \in 1..9 |-> IF a % 3 = 0 THEN 0 ELSE 2]}

Talk == [A |-> 2, B |-> 1, C |-> 2, D |-> 1]
=============================================================================
