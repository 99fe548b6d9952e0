------------------------------ MODULE MCSignIn ------------------------------
(* Two browsers and two permits, for TLC.                                  *)
EXTENDS ProviderSignIn

Symmetry == Permutations(Browsers) \cup Permutations(Permits)
=============================================================================
