------------------------- MODULE MCAppendOnlyGuard -------------------------
(***************************************************************************)
(* AppendOnlyGuard on a small instance: two sessions and a table that      *)
(* starts with two rows and may grow.                                      *)
(***************************************************************************)
EXTENDS GuardHistory, TLC

CONSTANTS r1, r2, r3, r4

Interchangeable == Permutations(Sessions) \cup Permutations(Seeds) \cup Permutations(Ids \ Seeds)
=============================================================================
