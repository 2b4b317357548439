---------------------------- MODULE GuardHistory ----------------------------
(***************************************************************************)
(* AppendOnlyGuard with a note of whether two sessions have ever written   *)
(* side by side: what the triggers of migration 0002 keep of transactions  *)
(* that write one after the other, which is all the triggers can see.      *)
(***************************************************************************)
EXTENDS AppendOnlyGuard

VARIABLE overlapped  \* two transactions have had writes open at once

HistoryInit == Init /\ overlapped = FALSE

HistoryNext ==
  /\ Next
  /\ overlapped' = (overlapped \/ \E s, t \in Sessions :
                                    s # t /\ dirty'[s] # Clean /\ dirty'[t] # Clean)

HistorySpec == HistoryInit /\ [][HistoryNext]_<<vars, overlapped>>

(* While transactions write one after the other every row leads, through its    *)
(* corrections, to exactly one ACTIVE version that exists: what the triggers of *)
(* migration 0002 are for.                                                      *)
SerialChainsEnd == ~overlapped => EveryRowHasAVersion
=============================================================================
