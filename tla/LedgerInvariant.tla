--------------------------- MODULE LedgerInvariant --------------------------
(***************************************************************************)
(* The inductive invariant of Ledger: why the properties of Ledger.tla     *)
(* hold.  Each part is a fact that every step of every request keeps.      *)
(***************************************************************************)
EXTENDS LedgerRefinement

IsRecord(c) == req[c] # None /\ req[c].kind = "record"
IsCorrection(c) == req[c] # None /\ req[c].kind = "correct"

(* A request has a payload once it has arrived, and a code once it is done; *)
(* only corrections lock.                                                  *)
Bookkeeping ==
  \A c \in Calls : /\ pc[c] = "idle" <=> req[c] = None
                   /\ pc[c] = "done" <=> code[c] # "pending"
                   /\ pc[c] \in {"locking", "locked", "insert", "flip"} => IsCorrection(c)

(* At most one committed row under each key. *)
KeysUnique ==
  \A r, e \in RowIds : Stored(r) /\ Stored(e) /\ db[r].key = db[e].key => r = e

(* A row lock is held by a correction of that row, from the lock to the commit. *)
LocksOwned ==
  \A r \in RowIds :
    lock[r] # None =>
      /\ Stored(r)
      /\ IsCorrection(lock[r])
      /\ req[lock[r]].target = r
      /\ pc[lock[r]] \in {"locked", "insert", "flip", "answer", "commit"}

(* What a correction knows of its target once it has been judged. *)
HoldsTarget(c) ==
  LET t == req[c].target
  IN /\ IsCorrection(c)
     /\ lock[t] = c
     /\ Stored(t)
     /\ db[t].status = "ACTIVE"
     /\ db[t].actor = req[c].actor

TargetsHeld == \A c \in Calls : pc[c] \in {"insert", "flip"} => HoldsTarget(c)

(* The writes of a request that has inserted its row. *)
OwnRow(c) ==
  NewRow(c, IF req[c].kind = "record" THEN req[c] ELSE Resolved(c, db[req[c].target]))

Inserted(c) == writes[c][c] # NoRow

(* A row in flight is the request's own, and its key is nobody else's. *)
RowsInFlight ==
  \A c \in Calls :
    Inserted(c) =>
      /\ pc[c] \in {"flip", "answer", "commit"}
      /\ writes[c][c] = OwnRow(c)
      /\ Taken(c) = {}
      /\ ~KeyInFlight(c)

(* The only other row a transaction writes is its target, after its own row. *)
OtherWrites ==
  \A c \in Calls, r \in RowIds :
    writes[c][r] # NoRow /\ r # c =>
      /\ Inserted(c)
      /\ pc[c] \in {"answer", "commit"}
      /\ r = req[c].target
      /\ HoldsTarget(c)
      /\ writes[c][r] = Superseded(db[r], c)

(* Between the service's return and the commit: the answer is a row that is  *)
(* stored already, or the request's own, with the target's update beside it. *)
AnswerReady ==
  \A c \in Calls :
    /\ pc[c] = "flip" => Inserted(c)
    /\ pc[c] \in {"answer", "commit"} =>
         \/ ~Inserted(c) /\ result[c] \in Taken(c) /\ IsCheapReplay(c, result[c])
         \/ /\ Inserted(c) /\ result[c] = c
            /\ IsCorrection(c) => HoldsTarget(c) /\ writes[c][req[c].target] # NoRow

(* A row a request has committed says what the request asked for. *)
RowsFaithful ==
  \A c \in Calls :
    Stored(c) =>
      /\ pc[c] \in {"reply", "done"}
      /\ code[c] \in {"pending", "ok", "lost"}
      /\ db[c].key = req[c].key
      /\ IsReplay(c, c)
      /\ IsCorrection(c) => db[req[c].target].actor = db[c].actor

(* A superseded row names the correction that replaced it, and no other does. *)
SuccessorsReal ==
  \A r \in RowIds :
    Stored(r) =>
      \/ db[r].status = "ACTIVE" /\ db[r].succ = None
      \/ /\ db[r].status = "SUPERSEDED"
         /\ db[r].succ \in Calls
         /\ Stored(db[r].succ)
         /\ IsCorrection(db[r].succ)
         /\ req[db[r].succ].target = r

(* A reply that has been decided names the right row. *)
RepliesRight ==
  \A c \in Calls :
    pc[c] = "reply" \/ code[c] = "ok" => result[c] \in Taken(c) /\ IsCheapReplay(c, result[c])

(* What a refusal was based on stays so. *)
RefusalsStand ==
  \A c \in Calls :
    /\ code[c] = "duplicate" => Taken(c) # {}
    /\ code[c] = "not_active" =>
         IsCorrection(c) /\ Stored(req[c].target) /\ db[req[c].target].status = "SUPERSEDED"
    /\ code[c] = "not_allowed" =>
         IsCorrection(c) /\ Stored(req[c].target) /\ db[req[c].target].actor # req[c].actor

(* The rows the API started with stay, so a target that was not found is none of them. *)
SeedsKept ==
  /\ \A s \in Seeds : Stored(s)
  /\ \A c \in Calls :
       pc[c] = "locked" => lock[req[c].target] = c \/ req[c].target \notin Seeds

(* The invariant of the committed table and of every request. *)
IInv ==
  /\ Bookkeeping /\ KeysUnique /\ LocksOwned /\ TargetsHeld
  /\ RowsInFlight /\ OtherWrites /\ AnswerReady
  /\ RowsFaithful /\ SuccessorsReal /\ RepliesRight /\ RefusalsStand /\ SeedsKept
  /\ RetryNeverRefused
=============================================================================
