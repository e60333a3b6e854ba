-------------------------- MODULE MCJobOrchestrator --------------------------
EXTENDS JobOrchestrator, TLC

CONSTANTS scan, refresh, t1, t2

\* hot_scan needs current_data_refresh.
MCDependsOn == scan :> <<refresh>> @@ refresh :> <<>>

Symmetry == Permutations({t1, t2})
=============================================================================
