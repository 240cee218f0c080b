-------------------------- MODULE MCWorkforceView --------------------------
(***************************************************************************)
(* Four agents of two teams on pages of one or three: as many pages as     *)
(* agents, and a last page that is not full.                               *)
(***************************************************************************)
EXTENDS WorkforceView

TwoTeams == <<"Alpha", "Beta", "Alpha", "Beta">>
FixedColumns == [id |-> <<1, 2, 3, 4>>, team |-> <<1, 2, 1, 2>>]
AllOrOne == {Agents, {2}}
=============================================================================
