--------------------------- MODULE MCManagedNode ---------------------------
(* Two administrators and two configurations, for TLC.                     *)
EXTENDS ManagedNodeProperties
=============================================================================
