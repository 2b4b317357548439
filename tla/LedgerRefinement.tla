-------------------------- MODULE LedgerRefinement --------------------------
(***************************************************************************)
(* The concurrent write path implements the abstract ledger.  The book is  *)
(* the committed table: a commit is the step that applies a request, the   *)
(* delivery of a reply or an error is the step that answers it, and every  *)
(* other statement is invisible.                                           *)
(***************************************************************************)
EXTENDS Ledger

Book == INSTANCE AbstractLedger WITH
  book <- db,
  asked <- req,
  granted <- [c \in Calls |-> IF code[c] = "ok" THEN result[c] ELSE None]

(* Racing requests, savepoints, locks, retries and failures never show a    *)
(* client anything but a ledger that applies each request at once and once. *)
ImplementsAbstractLedger == Book!Spec
=============================================================================
