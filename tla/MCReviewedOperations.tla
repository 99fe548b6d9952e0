------------------------ MODULE MCReviewedOperations ------------------------
(* Small instances of ReviewedOperations for TLC.                          *)
EXTENDS ReviewedOperationsProperties, TLC

Symmetry == Permutations(Procs) \cup Permutations(Tokens)
                \cup Permutations(Configs)
                \cup Permutations(Owners)
=============================================================================
