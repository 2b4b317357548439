------------------------------ MODULE MCDeploy ------------------------------
(***************************************************************************)
(* Deploy for four commits: the one that runs, one with a migration whose  *)
(* API does not come up, its revert, and one with two migrations.          *)
(***************************************************************************)
EXTENDS Deploy

MCHead == [c \in 0 .. 3 |-> CASE c = 1 -> 3 [] c = 3 -> 4 [] OTHER -> 2]
=============================================================================
