-------------------------- MODULE DashboardFigures --------------------------
(***************************************************************************)
(* What the dashboard finds in the log of the simulated dialer: the safety *)
(* interventions App.tsx counts, carrier B's chip in AppHeader.tsx, and    *)
(* the rows that the filters of AuditTrail.tsx leave.                      *)
(***************************************************************************)
EXTENDS ClientDialer

\* Clamped decisions and those that abandoned; an entry's reasons decide its category.
safetyInterventions ==
    Cardinality({i \in DOMAIN decisions : decisions[i].category = "SAFETY_CONTROLLER"})

\* The chip of the header and the panel of the overview
isCarrierBChaos == circuitB = "OPEN"

\* The rows the chips of the audit trail leave, as positions in the log
filtered(severity, category) ==
    {i \in DOMAIN decisions : /\ severity \in {"ALL", decisions[i].severity}
                              /\ category \in {"ALL", decisions[i].category}}

\* A tick that abandoned calls is found under CRITICAL with the chip of the safety
\* controller as with all categories, and counts as an intervention; so is the decision
\* of a predictive tick on top of the log while the header warns of carrier B.
InterventionsFound ==
    /\ filtered("CRITICAL", "SAFETY_CONTROLLER") = filtered("CRITICAL", "ALL")
    /\ Cardinality(filtered("CRITICAL", "ALL")) <= safetyInterventions
    /\ (isCarrierBChaos /\ mode = "PREDICTIVE" /\ decisions[1].action = "Decision")
            => 1 \in filtered("ALL", "SAFETY_CONTROLLER")
=============================================================================
