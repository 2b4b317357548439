-------------------------- MODULE AppendOnlyGuard --------------------------
(***************************************************************************)
(* Table transaction under any SQL: what its constraints (migration 0001)  *)
(* and its two triggers (migration 0002) keep when several sessions run    *)
(* INSERT, UPDATE and DELETE side by side, at READ COMMITTED, without the  *)
(* ledger service's row locks and checks in front of them.                 *)
(*                                                                         *)
(* An UPDATE locks its row before the BEFORE trigger runs.  The row lock   *)
(* of an UPDATE of superseded_by_id excludes FOR KEY SHARE, because that   *)
(* column has a unique index; the foreign key takes FOR KEY SHARE on the   *)
(* row referred to, at the end of the statement.  A statement that fails   *)
(* aborts its transaction.                                                 *)
(***************************************************************************)
EXTENDS Naturals, FiniteSets

CONSTANTS
  Sessions,   \* the database connections, one open transaction each
  Ids,        \* row ids
  Seeds,      \* the ids in use at the start, all ACTIVE
  Data,       \* the columns no UPDATE may change
  MaxRows,    \* how many rows one INSERT brings
  NoRow, None

Status == {"ACTIVE", "SUPERSEDED"}

Row == [data : Data, status : Status, succ : Ids \cup {None}]

ASSUME GuardAssumption ==
  /\ Seeds \subseteq Ids
  /\ None \notin Ids \cup Sessions
  /\ NoRow \notin Row
  /\ MaxRows \in Nat

VARIABLES
  table,   \* the committed rows
  dirty,   \* dirty[s]: the rows the transaction of s has written
  owner,   \* owner[r]: the session that has updated r and not ended
  shared,  \* shared[r]: the sessions that hold r FOR KEY SHARE
  owed     \* owed[s]: the references of the current statement not yet checked

vars == <<table, dirty, owner, shared, owed>>

Clean == [r \in Ids |-> NoRow]

(* A row of the table is ACTIVE exactly when it has no successor. *)
TypeOK ==
  /\ table \in [Ids -> Row \cup {NoRow}]
  /\ \A r \in Ids : table[r] # NoRow => (table[r].status = "ACTIVE" <=> table[r].succ = None)
  /\ dirty \in [Sessions -> [Ids -> Row \cup {NoRow}]]
  /\ owner \in [Ids -> Sessions \cup {None}]
  /\ shared \in [Ids -> SUBSET Sessions]
  /\ owed \in [Sessions -> SUBSET Ids]

Init ==
  /\ table \in [Ids -> Row \cup {NoRow}]
  /\ \A r \in Ids :
       IF r \in Seeds
       THEN table[r] # NoRow /\ table[r].status = "ACTIVE" /\ table[r].succ = None
       ELSE table[r] = NoRow
  /\ dirty = [s \in Sessions |-> Clean]
  /\ owner = [r \in Ids |-> None]
  /\ shared = [r \in Ids |-> {}]
  /\ owed = [s \in Sessions |-> {}]

-----------------------------------------------------------------------------
(* What a statement of session s sees, and what the database checks. *)

View(s) == [r \in Ids |-> IF dirty[s][r] # NoRow THEN dirty[s][r] ELSE table[r]]

(* CHECK no_self_supersede and status_supersede_consistency. *)
MutChecks(r, row) == row.succ # r  \* no status_supersede_consistency

Checks(r, row) ==
  /\ row.succ # r
  /\ row.status = "ACTIVE" <=> row.succ = None

(* UNIQUE superseded_by_id: no two rows that exist, or that open transactions *)
(* have written, name the same successor.                                     *)
MutSuccessorUnused(r, row) == TRUE  \* no unique constraint

SuccessorUnused(r, row) ==
  row.succ # None =>
    \A e \in Ids \ {r} :
      /\ table[e] # NoRow => table[e].succ # row.succ
      /\ \A s \in Sessions : dirty[s][e] # NoRow => dirty[s][e].succ # row.succ

(* The columns ledger_guard_update lets an UPDATE change, and how. *)
MutCorrectionStep(old, new) ==  \* OLD.status and OLD.superseded_by_id are not looked at
  /\ new.status = "SUPERSEDED" /\ new.succ # None
  /\ new.data = old.data

CorrectionStep(old, new) ==
  /\ old.status = "ACTIVE" /\ new.status = "SUPERSEDED"
  /\ old.succ = None /\ new.succ # None
  /\ new.data = old.data

(* ... and its second test: the successor exists and is ACTIVE. *)
MutSuccessorActive(s, row) ==  \* any row will do
  View(s)[row.succ] # NoRow

SuccessorActive(s, row) ==
  View(s)[row.succ] # NoRow /\ View(s)[row.succ].status = "ACTIVE"

(* The lock an UPDATE of the row takes. *)
RowFree(s, r) == owner[r] \in {None, s} /\ shared[r] \subseteq {s}

Ready(s) == owed[s] = {}

Ended(s) ==
  /\ dirty' = [dirty EXCEPT ![s] = Clean]
  /\ owner' = [r \in Ids |-> IF owner[r] = s THEN None ELSE owner[r]]
  /\ shared' = [r \in Ids |-> shared[r] \ {s}]
  /\ owed' = [owed EXCEPT ![s] = {}]

-----------------------------------------------------------------------------
(* Statements *)

Unused(r) == table[r] = NoRow /\ \A s \in Sessions : dirty[s][r] = NoRow

(* INSERT of at most MaxRows rows; nothing guards what status they come with. *)
Insert(s) ==
  /\ Ready(s)
  /\ \E new \in SUBSET {r \in Ids : Unused(r)} :
       /\ new # {} /\ Cardinality(new) <= MaxRows
       /\ \E rows \in [new -> Row] :
            /\ \A r \in new : Checks(r, rows[r]) /\ SuccessorUnused(r, rows[r])
            /\ \A r, e \in new : rows[r].succ = rows[e].succ => r = e \/ rows[r].succ = None
            /\ dirty' = [dirty EXCEPT ![s] = [r \in Ids |-> IF r \in new THEN rows[r] ELSE @[r]]]
            /\ owed' = [owed EXCEPT ![s] = {rows[r].succ : r \in new} \ {None}]
  /\ UNCHANGED <<table, owner, shared>>

(* UPDATE of one row to anything: the trigger and the constraints decide. *)
Update(s) ==
  /\ Ready(s)
  /\ \E r \in Ids, new \in Row :
       /\ View(s)[r] # NoRow
       /\ RowFree(s, r)
       /\ CorrectionStep(View(s)[r], new)
       /\ SuccessorActive(s, new)
       /\ Checks(r, new) /\ SuccessorUnused(r, new)
       /\ dirty' = [dirty EXCEPT ![s][r] = new]
       /\ owner' = [owner EXCEPT ![r] = s]
       /\ owed' = [owed EXCEPT ![s] = {new.succ}]
  /\ UNCHANGED <<table, shared>>

MutCheckReference(s) ==  \* no foreign key
  /\ owed[s] # {} /\ owed' = [owed EXCEPT ![s] = {}]
  /\ UNCHANGED <<table, dirty, owner, shared>>

(* The foreign key superseded_by_id, at the end of the statement: the row is *)
(* there, and is held FOR KEY SHARE until the transaction ends.              *)
CheckReference(s) ==
  /\ \E t \in owed[s] :
       /\ View(s)[t] # NoRow
       /\ owner[t] \in {None, s}
       /\ shared' = [shared EXCEPT ![t] = @ \cup {s}]
       /\ owed' = [owed EXCEPT ![s] = @ \ {t}]
  /\ UNCHANGED <<table, dirty, owner>>

(* ledger_forbid_delete raises, whatever the row. *)
Delete(s) ==
  /\ Ready(s)
  /\ \E r \in Ids : View(s)[r] # NoRow /\ RowFree(s, r)
  /\ Ended(s)
  /\ UNCHANGED table

Commit(s) ==
  /\ Ready(s)
  /\ table' = View(s)
  /\ Ended(s)

(* A statement fails (a trigger, a constraint, a missing row, a deadlock), the *)
(* client rolls back, or the connection is lost.                               *)
Abort(s) ==
  /\ dirty[s] # Clean
  /\ Ended(s)
  /\ UNCHANGED table

Next ==
  \E s \in Sessions :
    Insert(s) \/ Update(s) \/ CheckReference(s) \/ Delete(s) \/ Commit(s) \/ Abort(s)

Spec == Init /\ [][Next]_vars

-----------------------------------------------------------------------------
(* Properties *)

Exists(r) == table[r] # NoRow

(* T holds, with every row, the row that superseded it. *)
FollowsCorrections(rows, T) ==
  \A r \in T : rows[r] # NoRow /\ rows[r].succ # None => rows[r].succ \in T

(* The versions a row leads to: the least such set with r in it. *)
Onward(rows, r) ==
  {e \in Ids : \A T \in SUBSET Ids : r \in T /\ FollowsCorrections(rows, T) => e \in T}

(* Every row leads to rows that exist, exactly one of them ACTIVE. *)
Versioned(rows) ==
  \A r \in Ids :
    rows[r] # NoRow =>
      /\ \A e \in Onward(rows, r) : rows[e] # NoRow
      /\ Cardinality({e \in Onward(rows, r) : rows[e].status = "ACTIVE"}) = 1

(* Every row leads, through its corrections, to exactly one ACTIVE version that *)
(* exists: chains do not loop and do not end elsewhere (migration 0002,         *)
(* "forked and cyclic chains impossible").                                      *)
EveryRowHasAVersion == Versioned(table)

(* Two rows never supersede each other, not even when two sessions try at the   *)
(* same time and each trigger still sees the other's row ACTIVE: the second     *)
(* foreign key has to wait for the first UPDATE, and the two deadlock.          *)
NoMutualSupersession ==
  \A r, e \in Ids :
    Exists(r) /\ Exists(e) /\ table[r].succ = e => table[e].succ # r

(* Two rows never lead to the same correction, in whatever order two sessions   *)
(* name it (uq_transaction_superseded_by_id, which waits for the other).        *)
NoForks ==
  \A r, e \in Ids :
    Exists(r) /\ Exists(e) /\ table[r].succ = table[e].succ => r = e \/ table[r].succ = None

(* A committed row never goes away, keeps its data, and once superseded keeps   *)
(* its successor: the one change it may see is its correction.                  *)
CommittedRowsStand ==
  [][\A r \in Ids :
       Exists(r) =>
         /\ Exists(r)'
         /\ table'[r].data = table[r].data
         /\ table[r].status = "SUPERSEDED" => table'[r] = table[r]]_vars
=============================================================================
