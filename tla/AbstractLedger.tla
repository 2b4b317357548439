--------------------------- MODULE AbstractLedger ---------------------------
(***************************************************************************)
(* What the ledger promises its clients, with no transaction, lock or      *)
(* retry in sight: a book of rows, one table for everybody.  A request is  *)
(* applied in one step, at most once per idempotency key; it is accepted   *)
(* only when the book holds the row it asked for, and refused only for a   *)
(* reason the book shows.                                                  *)
(***************************************************************************)
CONSTANTS Calls, Seeds, SeedRow, Requests, Omitted, NoRow, None

VARIABLES
  book,     \* row id -> row
  asked,    \* the request each client has sent
  granted,  \* the row an accepted request was answered with
  code      \* how each request was answered

vars == <<book, asked, granted, code>>

RowIds == Seeds \cup Calls

Init ==
  /\ book = [r \in RowIds |-> IF r \in Seeds THEN SeedRow[r] ELSE NoRow]
  /\ asked = [c \in Calls |-> None]
  /\ granted = [c \in Calls |-> None]
  /\ code = [c \in Calls |-> "pending"]

InBook(r) == book[r] # NoRow

(* The rows under c's idempotency key: the request has been applied, or a *)
(* conflicting one has.                                                   *)
UnderKey(c) == {r \in RowIds : InBook(r) /\ book[r].key = asked[c].key}

Filled(field, base) == IF field = Omitted THEN base ELSE field

(* Row r has the head and the author that record request c names, or        *)
(* supersedes the target of correction c.                                   *)
Fits(c, r) ==
  IF asked[c].kind = "record"
  THEN book[r].actor = asked[c].actor /\ book[r].head = asked[c].head
  ELSE InBook(asked[c].target) /\ book[asked[c].target].succ = r

(* Row r is what c asked for, in every field. *)
Answers(c, r) ==
  LET q == asked[c]
  IN /\ Fits(c, r)
     /\ book[r].actor = q.actor
     /\ book[r].head = IF q.kind = "record" THEN q.head ELSE Filled(q.head, book[q.target].head)
     /\ book[r].body = IF q.kind = "record" THEN q.body ELSE Filled(q.body, book[q.target].body)

Ask(c) ==
  /\ asked[c] = None
  /\ \E q \in Requests : asked' = [asked EXCEPT ![c] = q]
  /\ UNCHANGED <<book, granted, code>>

Entry(c, head, body) ==
  [key |-> asked[c].key, actor |-> asked[c].actor, head |-> head, body |-> body,
   status |-> "ACTIVE", succ |-> None]

Record(c) ==
  /\ asked[c] # None /\ asked[c].kind = "record"
  /\ code[c] = "pending" /\ ~InBook(c) /\ UnderKey(c) = {}
  /\ book' = [book EXCEPT ![c] = Entry(c, asked[c].head, asked[c].body)]
  /\ UNCHANGED <<asked, granted, code>>

(* The new version and the retirement of the old one, together. *)
Correct(c) ==
  LET t == asked[c].target
  IN /\ asked[c] # None /\ asked[c].kind = "correct"
     /\ code[c] = "pending" /\ ~InBook(c) /\ UnderKey(c) = {}
     /\ InBook(t) /\ book[t].status = "ACTIVE" /\ book[t].actor = asked[c].actor
     /\ book' = [book EXCEPT
                   ![c] = Entry(c, Filled(asked[c].head, book[t].head),
                                   Filled(asked[c].body, book[t].body)),
                   ![t].status = "SUPERSEDED", ![t].succ = c]
     /\ UNCHANGED <<asked, granted, code>>

Accept(c) ==
  /\ asked[c] # None /\ code[c] = "pending"
  /\ \E r \in UnderKey(c) :
       /\ Fits(c, r)
       /\ granted' = [granted EXCEPT ![c] = r]
  /\ code' = [code EXCEPT ![c] = "ok"]
  /\ UNCHANGED <<book, asked>>

(* Why a request may be refused.  The target that was not found may have  *)
(* come into the book since, but was not there from the start.            *)
Reason(c, why) ==
  LET t == asked[c].target
  IN CASE why = "duplicate" -> \E r \in UnderKey(c) : ~Answers(c, r)
       [] why = "not_found" -> asked[c].kind = "correct" /\ t \notin Seeds
       [] why = "not_active" -> /\ asked[c].kind = "correct" /\ UnderKey(c) = {}
                                /\ InBook(t) /\ book[t].status = "SUPERSEDED"
       [] why = "not_allowed" -> /\ asked[c].kind = "correct"
                                 /\ InBook(t) /\ book[t].actor # asked[c].actor
       [] why = "invalid" -> TRUE
       [] OTHER -> FALSE

(* A refused request has left nothing in the book. *)
Refuse(c) ==
  /\ asked[c] # None /\ code[c] = "pending" /\ ~InBook(c)
  /\ \E why \in {"duplicate", "not_found", "not_active", "not_allowed", "invalid"} :
       /\ Reason(c, why)
       /\ code' = [code EXCEPT ![c] = why]
  /\ UNCHANGED <<book, asked, granted>>

(* A request whose reply is lost may or may not have been applied. *)
Lose(c) ==
  /\ asked[c] # None /\ code[c] = "pending"
  /\ code' = [code EXCEPT ![c] = "lost"]
  /\ UNCHANGED <<book, asked, granted>>

Next ==
  \E c \in Calls : Ask(c) \/ Record(c) \/ Correct(c) \/ Accept(c) \/ Refuse(c) \/ Lose(c)

Spec == Init /\ [][Next]_vars
=============================================================================
