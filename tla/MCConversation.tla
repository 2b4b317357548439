--------------------------- MODULE MCConversation ---------------------------
(***************************************************************************)
(* Conversation on small instances: a chat whose ledger already holds a    *)
(* row of its own and one of the other person.                             *)
(***************************************************************************)
EXTENDS Conversation

CONSTANTS mama, LastUpdate

MCUpdates == 1 .. LastUpdate

Earlier(r, actor) ==
  [key |-> r, actor |-> actor, head |-> Omitted,
   body |-> [event |-> r, text |-> r, date |-> r], status |-> "ACTIVE", succ |-> None]

MCSeeds == {0, -1}
MCSeedRow == [r \in MCSeeds |-> Earlier(r, IF r = 0 THEN mama ELSE Me)]
=============================================================================
