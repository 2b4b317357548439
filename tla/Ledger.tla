------------------------------- MODULE Ledger -------------------------------
(***************************************************************************)
(* The write path of the ledger: any number of HTTP requests to            *)
(* POST /transactions and POST /transactions/{id}/corrections handled at   *)
(* once by the API (api/routes.py, api/idempotency.py) on top of the       *)
(* ledger service (services/ledger_service.py), against one PostgreSQL     *)
(* database at READ COMMITTED.                                             *)
(*                                                                         *)
(* A step is one SQL statement and the Python up to the next one: under    *)
(* READ COMMITTED each statement sees what is committed when it runs, so   *)
(* the interleavings of these steps are those of the real requests.  Each  *)
(* request has its own session and transaction (api/dependencies.py): its  *)
(* uncommitted writes are private, its row lock and its entry in the       *)
(* unique index on the idempotency key are not.                            *)
(*                                                                         *)
(* Data is abstracted to what the code tells apart.  The head of a row     *)
(* stands for its event type and event date (the fields the replay check   *)
(* before the parser compares), the body for its amount and description    *)
(* (the fields the parser produces).                                       *)
(***************************************************************************)
EXTENDS Naturals, FiniteSets

CONSTANTS
  Calls,      \* the HTTP requests; a request inserts at most one row, and that row's id is the request
  Seeds,      \* ids of the rows in the database when the API starts
  SeedRow,    \* the contents of those rows
  Keys,       \* idempotency keys
  Persons,    \* the ledger's people
  Heads,      \* event type and date
  Bodies,     \* amount and description
  Requests,   \* the request payloads that may arrive
  Omitted,    \* a correction's field that is not supplied
  NoRow,      \* no row: an id that is not in the table, or not written by a transaction
  None        \* no lock owner, no successor, no request

RowIds == Seeds \cup Calls

(* The columns of table transactions, and the two statuses of its rows. *)
Row == [key : Keys, actor : Persons, head : Heads, body : Bodies,
        status : {"ACTIVE", "SUPERSEDED"}, succ : RowIds \cup {None}]

(* TransactionCreate names every field; CorrectionCreate names a target and *)
(* at least one of the fields to replace.                                   *)
TransactionCreate ==
  [kind : {"record"}, key : Keys, actor : Persons, target : {None},
   head : Heads, body : Bodies]

CorrectionCreate ==
  {q \in [kind : {"correct"}, key : Keys, actor : Persons, target : RowIds,
          head : Heads \cup {Omitted}, body : Bodies \cup {Omitted}] :
     q.head # Omitted \/ q.body # Omitted}

Codes == {"pending", "ok", "invalid", "duplicate", "not_found", "not_active",
          "not_allowed", "lost"}

Steps == {"idle", "received", "service", "raced", "locking", "locked", "insert",
          "flip", "answer", "commit", "reply", "done"}

ASSUME ConstantsAssumption ==
  /\ Seeds \cap Calls = {}
  /\ None \notin RowIds
  /\ None \notin Requests
  /\ NoRow \notin Row
  /\ Omitted \notin Heads \cup Bodies
  /\ Requests \subseteq TransactionCreate \cup CorrectionCreate

(* A database the program can have left behind: unique keys, nothing superseded. *)
ASSUME SeedAssumption ==
  /\ SeedRow \in [Seeds -> Row]
  /\ \A s \in Seeds : SeedRow[s].status = "ACTIVE" /\ SeedRow[s].succ = None
  /\ \A s, t \in Seeds : SeedRow[s].key = SeedRow[t].key => s = t

VARIABLES
  db,        \* the committed table: row id -> row
  writes,    \* writes[c]: the rows c's open transaction has inserted or updated
  lock,      \* lock[r]: the request whose transaction holds row r FOR UPDATE
  req,       \* the payload of each request
  pc,        \* the statement each request runs next
  result,    \* the row a request will answer with
  counted,   \* the rows its reply's balance was summed over
  code       \* how the request was answered

vars == <<db, writes, lock, req, pc, result, counted, code>>

NoWrites == [r \in RowIds |-> NoRow]

TypeOK ==
  /\ db \in [RowIds -> Row \cup {NoRow}]
  /\ writes \in [Calls -> [RowIds -> Row \cup {NoRow}]]
  /\ lock \in [RowIds -> Calls \cup {None}]
  /\ req \in [Calls -> Requests \cup {None}]
  /\ pc \in [Calls -> Steps]
  /\ result \in [Calls -> RowIds \cup {None}]
  /\ counted \in [Calls -> SUBSET RowIds]
  /\ code \in [Calls -> Codes]

Init ==
  /\ db = [r \in RowIds |-> IF r \in Seeds THEN SeedRow[r] ELSE NoRow]
  /\ writes = [c \in Calls |-> NoWrites]
  /\ lock = [r \in RowIds |-> None]
  /\ req = [c \in Calls |-> None]
  /\ pc = [c \in Calls |-> "idle"]
  /\ result = [c \in Calls |-> None]
  /\ counted = [c \in Calls |-> {}]
  /\ code = [c \in Calls |-> "pending"]

-----------------------------------------------------------------------------
(* What a statement of request c reads. *)

Stored(r) == db[r] # NoRow

(* The rows committed under c's idempotency key (_row_by_idempotency_key). *)
Taken(c) == {r \in RowIds : Stored(r) /\ db[r].key = req[c].key}

(* Another open transaction has inserted c's key: the unique index makes an *)
(* insert of that key wait until that transaction ends.                     *)
MutKeyInFlight(c) == FALSE  \* no unique index

KeyInFlight(c) ==
  \E d \in Calls \ {c} :
    writes[d][d] # NoRow /\ writes[d][d].key = req[c].key

(* The table as c's own statements see it. *)
View(c) == [r \in RowIds |-> IF writes[c][r] # NoRow THEN writes[c][r] ELSE db[r]]

Active(table) == {r \in RowIds : table[r] # NoRow /\ table[r].status = "ACTIVE"}

(* Row e is the correction that superseded c's target. *)
Supersedes(c, e) == Stored(req[c].target) /\ db[req[c].target].succ = e

(* A correction's fields: those supplied, and the target's for the omitted ones. *)
MutResolved(c, base) == [head |-> req[c].head, body |-> req[c].body]

Resolved(c, base) ==
  [head |-> IF req[c].head = Omitted THEN base.head ELSE req[c].head,
   body |-> IF req[c].body = Omitted THEN base.body ELSE req[c].body]

SamePayload(c, e, payload) ==
  /\ db[e].actor = req[c].actor
  /\ db[e].head = payload.head
  /\ db[e].body = payload.body

(* Row e, stored under c's key, is what c asked for: the test of              *)
(* record_transaction after a key conflict, and _replay_or_conflict.          *)
IsReplay(c, e) ==
  IF req[c].kind = "record"
  THEN SamePayload(c, e, req[c])
  ELSE Supersedes(c, e) /\ SamePayload(c, e, Resolved(c, db[req[c].target]))

(* The cheap test of api/idempotency.py, before the parser has run: a record *)
(* is compared on its head and author alone, a correction on its target.     *)
MutIsCheapReplay(c, e) ==  \* the author is not compared
  IF req[c].kind = "record" THEN db[e].head = req[c].head ELSE Supersedes(c, e)

IsCheapReplay(c, e) ==
  IF req[c].kind = "record"
  THEN db[e].actor = req[c].actor /\ db[e].head = req[c].head
  ELSE Supersedes(c, e)

-----------------------------------------------------------------------------
(* How a step ends: what a request goes on to, and what its transaction holds. *)

Goto(c, step) == pc' = [pc EXCEPT ![c] = step]

Unlocked(c) == [r \in RowIds |-> IF lock[r] = c THEN None ELSE lock[r]]

MutRollback(c) == UNCHANGED <<writes, lock>>  \* the session is left open

Rollback(c) ==
  /\ writes' = [writes EXCEPT ![c] = NoWrites]
  /\ lock' = Unlocked(c)

(* The handler raised: get_session rolls back, api/errors.py turns the error *)
(* into the reply.                                                           *)
Refuse(c, why) ==
  /\ Rollback(c)
  /\ Goto(c, "done")
  /\ code' = [code EXCEPT ![c] = why]
  /\ UNCHANGED <<db, req, result, counted>>

(* The service returned row e. *)
AnswerWith(c, e) ==
  /\ result' = [result EXCEPT ![c] = e]
  /\ Goto(c, "answer")
  /\ UNCHANGED <<db, req, counted, code>>

ReplayOrConflict(c, e) ==
  IF IsReplay(c, e)
  THEN Rollback(c) /\ AnswerWith(c, e)
  ELSE Refuse(c, "duplicate")

NewRow(c, payload) ==
  [key |-> req[c].key, actor |-> req[c].actor, head |-> payload.head,
   body |-> payload.body, status |-> "ACTIVE", succ |-> None]

-----------------------------------------------------------------------------
(* Both routes. *)

Receive(c) ==
  /\ pc[c] = "idle"
  /\ \E q \in Requests : req' = [req EXCEPT ![c] = q]
  /\ Goto(c, "received")
  /\ UNCHANGED <<db, writes, lock, result, counted, code>>

(* The person, event type or date of the request is not valid, or the parser *)
(* and the LLM fallback extract nothing from its text.                       *)
Invalid(c) ==
  /\ pc[c] \in {"received", "service"}
  /\ Refuse(c, "invalid")

(* transaction_replay and correction_replay.  The second statement of      *)
(* correction_replay finds what the first one would have: the row that a   *)
(* committed correction supersedes never changes.                          *)
ShortCircuit(c) ==
  /\ pc[c] = "received"
  /\ \/ /\ Taken(c) = {}
        /\ Goto(c, "service")
        /\ UNCHANGED <<db, writes, lock, req, result, counted, code>>
     \/ \E e \in Taken(c) :
          \/ /\ IsCheapReplay(c, e)
             /\ AnswerWith(c, e)
             /\ UNCHANGED <<writes, lock>>
          \/ /\ ~IsCheapReplay(c, e)
             /\ Refuse(c, "duplicate")

(* record_transaction: the INSERT in its savepoint. *)
InsertRecord(c) ==
  /\ pc[c] = "service"
  /\ req[c].kind = "record"
  /\ ~KeyInFlight(c)
  /\ \/ /\ Taken(c) = {}
        /\ writes' = [writes EXCEPT ![c][c] = NewRow(c, req[c])]
        /\ AnswerWith(c, c)
        /\ UNCHANGED lock
     \/ /\ Taken(c) # {}
        /\ Goto(c, "raced")
        /\ UNCHANGED <<db, writes, lock, req, result, counted, code>>

(* The INSERT met the key, and its savepoint is rolled back: the row that won *)
(* is read and compared (record_transaction and apply_correction alike).      *)
ResolveRace(c) ==
  /\ pc[c] = "raced"
  /\ \E e \in Taken(c) : ReplayOrConflict(c, e)

-----------------------------------------------------------------------------
(* apply_correction *)

FirstKeyCheck(c) ==
  /\ pc[c] = "service"
  /\ req[c].kind = "correct"
  /\ \/ /\ Taken(c) = {}
        /\ Goto(c, "locking")
        /\ UNCHANGED <<db, writes, lock, req, result, counted, code>>
     \/ \E e \in Taken(c) : ReplayOrConflict(c, e)

(* SELECT ... FOR UPDATE of the target: waits while another transaction holds *)
(* the row, and locks nothing if there is no such row.                        *)
MutLockFree(c) == TRUE  \* SELECT without FOR UPDATE

LockFree(c) == lock[req[c].target] = None

LockTarget(c) ==
  /\ pc[c] = "locking"
  /\ LockFree(c)
  /\ lock' = IF Stored(req[c].target) THEN [lock EXCEPT ![req[c].target] = c] ELSE lock
  /\ Goto(c, "locked")
  /\ UNCHANGED <<db, writes, req, result, counted, code>>

(* The key is read again under the lock, then the target is judged as it was *)
(* read when the lock was granted.                                           *)
MutRecheck(c) == {}  \* the key is not read again

Recheck(c) == Taken(c)

MutVerdict(c) ==  \* a superseded target is accepted
  LET t == req[c].target
  IN CASE lock[t] # c -> "not_found"
       [] lock[t] = c /\ db[t].actor # req[c].actor -> "not_allowed"
       [] OTHER -> "ok"

Verdict(c) ==
  LET t == req[c].target
  IN CASE lock[t] # c -> "not_found"
       [] lock[t] = c /\ db[t].status # "ACTIVE" -> "not_active"
       [] lock[t] = c /\ db[t].status = "ACTIVE" /\ db[t].actor # req[c].actor -> "not_allowed"
       [] OTHER -> "ok"

JudgeTarget(c) ==
  /\ pc[c] = "locked"
  /\ \/ \E e \in Recheck(c) : ReplayOrConflict(c, e)
     \/ /\ Recheck(c) = {}
        /\ Verdict(c) # "ok"
        /\ Refuse(c, Verdict(c))
     \/ /\ Recheck(c) = {}
        /\ Verdict(c) = "ok"
        /\ Goto(c, "insert")
        /\ UNCHANGED <<db, writes, lock, req, result, counted, code>>

(* The INSERT of the correction; a key conflict rolls the savepoint back, and *)
(* with it the row lock.                                                      *)
InsertCorrection(c) ==
  /\ pc[c] = "insert"
  /\ ~KeyInFlight(c)
  /\ \/ /\ Taken(c) = {}
        /\ writes' = [writes EXCEPT ![c][c] = NewRow(c, Resolved(c, db[req[c].target]))]
        /\ Goto(c, "flip")
        /\ UNCHANGED <<db, lock, req, result, counted, code>>
     \/ /\ Taken(c) # {}
        /\ Rollback(c)
        /\ Goto(c, "raced")
        /\ UNCHANGED <<db, req, result, counted, code>>

Superseded(row, by) == [row EXCEPT !.status = "SUPERSEDED", !.succ = by]

(* The UPDATE of the target, and the release of the savepoint. *)
FlipTarget(c) ==
  /\ pc[c] = "flip"
  /\ writes' = [writes EXCEPT ![c][req[c].target] = Superseded(db[req[c].target], c)]
  /\ AnswerWith(c, c)
  /\ UNCHANGED lock

-----------------------------------------------------------------------------
(* The end of both routes. *)

MutSummed(c) == Active(db) \cup {result[c]}  \* the target's UPDATE is not flushed yet

Summed(c) == Active(View(c))

(* _with_balance: the reply's balance is read inside the open transaction. *)
ReadBalance(c) ==
  /\ pc[c] = "answer"
  /\ counted' = [counted EXCEPT ![c] = Summed(c)]
  /\ Goto(c, "commit")
  /\ UNCHANGED <<db, writes, lock, req, result, code>>

(* get_session commits after the handler returned and before the reply is sent. *)
Commit(c) ==
  /\ pc[c] = "commit"
  /\ db' = View(c)
  /\ Rollback(c)
  /\ Goto(c, "reply")
  /\ UNCHANGED <<req, result, counted, code>>

Deliver(c) ==
  /\ pc[c] = "reply"
  /\ Goto(c, "done")
  /\ code' = [code EXCEPT ![c] = "ok"]
  /\ UNCHANGED <<db, writes, lock, req, result, counted>>

(* The process, the connection or a statement fails: PostgreSQL rolls the open *)
(* transaction back, and the client gets no usable reply.  After the commit    *)
(* only the reply is lost.                                                     *)
Fail(c) ==
  /\ pc[c] \notin {"idle", "done"}
  /\ Refuse(c, "lost")

Progress(c) ==
  \/ ShortCircuit(c) \/ InsertRecord(c) \/ ResolveRace(c)
  \/ FirstKeyCheck(c) \/ LockTarget(c) \/ JudgeTarget(c)
  \/ InsertCorrection(c) \/ FlipTarget(c)
  \/ ReadBalance(c) \/ Commit(c) \/ Deliver(c)

Finished == (\A c \in Calls : pc[c] = "done") /\ UNCHANGED vars

Next ==
  \/ \E c \in Calls : Receive(c) \/ Invalid(c) \/ Progress(c) \/ Fail(c)
  \/ Finished

Spec == Init /\ [][Next]_vars

(* A request that has arrived is run to its end: no step of it waits for *)
(* anything but another transaction's end.                               *)
FairSpec == Spec /\ \A c \in Calls : WF_vars(Progress(c))

-----------------------------------------------------------------------------
(* Properties *)

(* Exactly once: the row a successful reply names is committed, and it is the *)
(* only row under the request's idempotency key, however many requests race   *)
(* for the key and whichever of them is retried (ledger_service.py, the       *)
(* savepoints and the re-checks of both services).                            *)
ExactlyOnce ==
  \A c \in Calls : code[c] = "ok" => Stored(result[c]) /\ Taken(c) = {result[c]}

(* Versions pair up: a committed correction has superseded its target, which  *)
(* the same person registered, and a superseded row was superseded by the     *)
(* correction that names it as target.  Two corrections never supersede the   *)
(* same row and none is left without a predecessor, so the versions of an     *)
(* entry form one line (apply_correction's row lock and its single savepoint).*)
VersionsPairUp ==
  /\ \A c \in Calls :
       Stored(c) /\ req[c].kind = "correct"
         => /\ Supersedes(c, c)
            /\ db[req[c].target].actor = db[c].actor
  /\ \A r \in RowIds :
       Stored(r) /\ db[r].status = "SUPERSEDED"
         => /\ db[r].succ \in Calls
            /\ Stored(db[r].succ)
            /\ req[db[r].succ].kind = "correct"
            /\ req[db[r].succ].target = r

(* When apply_correction flips its target, the target is still ACTIVE in the   *)
(* committed table and locked by this transaction: the append-only trigger of  *)
(* migration 0002 never has to stop the service.                               *)
FlipIsAdmissible ==
  \A c \in Calls :
    pc[c] = "flip" =>
      /\ lock[req[c].target] = c
      /\ Stored(req[c].target)
      /\ db[req[c].target].status = "ACTIVE"
      /\ writes[c][c] # NoRow /\ writes[c][c].status = "ACTIVE"

(* A successful reply names a row of the author and head that a record request  *)
(* gave, and the correction of the very target a correction request gave.       *)
ReplyMatchesRequest ==
  \A c \in Calls :
    code[c] = "ok" =>
      IF req[c].kind = "record"
      THEN db[result[c]].actor = req[c].actor /\ db[result[c]].head = req[c].head
      ELSE Supersedes(c, result[c])

(* T holds, with every row, the correction that superseded it. *)
FollowsCorrections(table, T) ==
  \A r \in T : table[r] # NoRow /\ table[r].succ # None => table[r].succ \in T

(* The versions that row s leads to: the least such set with s in it. *)
LineageIn(table, s) ==
  {r \in RowIds : \A T \in SUBSET RowIds : s \in T /\ FollowsCorrections(table, T) => r \in T}

(* The balance in a reply counts exactly one version of every entry that was in *)
(* the ledger before the first request and of the entry the reply is about, and *)
(* never two versions of any other: a correction is not summed together with    *)
(* the row it replaces, and no entry drops out while it is corrected            *)
(* (get_balance inside the transaction, after the explicit flush).              *)
BalanceCountsEntriesOnce ==
  \A c \in Calls :
    code[c] = "ok" =>
      /\ \A r \in Seeds \cup {result[c]} : Cardinality(counted[c] \cap LineageIn(db, r)) = 1
      /\ \A r \in RowIds : Stored(r) => Cardinality(counted[c] \cap LineageIn(db, r)) <= 1

(* Once a request's row is committed, an identical request is never told that   *)
(* the key conflicts, that the target is not active or that it may not correct  *)
(* it: the retry of a lost reply gets the row (apply_correction's docstring,    *)
(* "this holds for concurrent retries too").                                    *)
RetryNeverRefused ==
  \A c, d \in Calls :
    (req[c] = req[d] /\ Stored(c))
      => code[d] \notin {"duplicate", "not_active", "not_allowed"}

(* A committed row is never deleted or edited: the one change it may see is     *)
(* from ACTIVE to SUPERSEDED, naming a row that the same commit makes ACTIVE    *)
(* (the append-only rule the service keeps and migration 0002 enforces).        *)
OnlySuperseded(r) ==
  /\ db[r].status = "ACTIVE"
  /\ \E e \in RowIds :
       /\ ~Stored(e) /\ Stored(e)'
       /\ db'[e].status = "ACTIVE"
       /\ db'[r] = [db[r] EXCEPT !.status = "SUPERSEDED", !.succ = e]

AppendOnly ==
  [][\A r \in RowIds : Stored(r) => db'[r] = db[r] \/ OnlySuperseded(r)]_vars

(* Every request that arrives is answered: the row lock and the unique index    *)
(* are always taken in that order and given up by commit, rollback or failure,  *)
(* so no two requests wait for each other and none waits for ever.              *)
EveryRequestEnds == \A c \in Calls : pc[c] = "received" ~> pc[c] = "done"
=============================================================================
