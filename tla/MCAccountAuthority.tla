------------------------- MODULE MCAccountAuthority -------------------------
(* Two administrators and one user, for TLC. *)
EXTENDS AccountAuthorityProperties

=============================================================================
