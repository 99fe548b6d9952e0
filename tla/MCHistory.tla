----------------------------- MODULE MCHistory -----------------------------
(* Small instance of History for TLC.                                      *)
EXTENDS HistoryProperties, TLC

InitialSettings == [refresh |-> 1, retention |-> 2]
SmallSettings == {InitialSettings, [refresh |-> 2, retention |-> 1]}

Symmetry == Permutations(Identities)
=============================================================================
