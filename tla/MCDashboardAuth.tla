--------------------------- MODULE MCDashboardAuth ---------------------------
(* Small instances of DashboardAuth for TLC.                               *)
EXTENDS DashboardAuthProperties, TLC

Symmetry == Permutations(Secrets) \cup Permutations(Procs)
=============================================================================
