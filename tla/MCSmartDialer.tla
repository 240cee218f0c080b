--------------------------- MODULE MCSmartDialer ---------------------------
EXTENDS SmartDialer, TLC

\* No action tells two agents, borrowers, tasks, calls or workers apart.
Symmetry ==
    Permutations(Monitored) \cup Permutations(Agents \ Monitored)
        \cup Permutations(Borrowers \ Suppressed) \cup Permutations(Tasks)
        \cup Permutations(Calls) \cup Permutations(Workers)
=============================================================================
