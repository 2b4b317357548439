---------------------------- MODULE LedgerProofs ----------------------------
(***************************************************************************)
(* Proofs about Ledger, for any sets of requests, rows, keys, people and   *)
(* payloads.                                                               *)
(***************************************************************************)
EXTENDS LedgerInvariant, TLAPS

(* The fields of a request. *)
LEMMA RequestFields ==
  ASSUME NEW q \in Requests
  PROVE  /\ q.kind \in {"record", "correct"}
         /\ q.key \in Keys /\ q.actor \in Persons
         /\ q.kind = "record" => q.head \in Heads /\ q.body \in Bodies
         /\ q.kind = "correct" => /\ q.target \in RowIds
                                  /\ q.head \in Heads \cup {Omitted}
                                  /\ q.body \in Bodies \cup {Omitted}
BY ConstantsAssumption DEF TransactionCreate, CorrectionCreate

(* The fields of a stored row. *)
LEMMA RowFields ==
  ASSUME TypeOK, NEW r \in RowIds, Stored(r)
  PROVE  /\ db[r] \in Row
         /\ db[r].key \in Keys /\ db[r].actor \in Persons
         /\ db[r].head \in Heads /\ db[r].body \in Bodies
         /\ db[r].status \in {"ACTIVE", "SUPERSEDED"}
         /\ db[r].succ \in RowIds \cup {None}
BY DEF TypeOK, Stored, Row

(* The row a request inserts. *)
LEMMA OwnRowFields ==
  ASSUME TypeOK, NEW c \in Calls, req[c] # None,
         IsCorrection(c) => Stored(req[c].target)
  PROVE  /\ OwnRow(c) \in Row
         /\ OwnRow(c) # NoRow
         /\ OwnRow(c).key = req[c].key
         /\ OwnRow(c).actor = req[c].actor
         /\ OwnRow(c).status = "ACTIVE"
         /\ OwnRow(c).succ = None
<1>1. req[c] \in Requests
  BY DEF TypeOK
<1>2. CASE req[c].kind = "record"
  BY <1>1, <1>2, RequestFields, ConstantsAssumption DEF OwnRow, NewRow, Row
<1>3. CASE req[c].kind = "correct"
  <2>1. /\ req[c].target \in RowIds /\ Stored(req[c].target)
    BY <1>1, <1>3, RequestFields DEF IsCorrection
  <2>2. db[req[c].target].head \in Heads /\ db[req[c].target].body \in Bodies
    BY <2>1, RowFields
  <2>3. /\ Resolved(c, db[req[c].target]).head \in Heads
        /\ Resolved(c, db[req[c].target]).body \in Bodies
    BY <1>1, <1>3, <2>2, RequestFields DEF Resolved
  <2>4. OwnRow(c) = NewRow(c, Resolved(c, db[req[c].target]))
    BY <1>3 DEF OwnRow
  <2>5. QED
    BY <1>1, <2>3, <2>4, RequestFields, ConstantsAssumption DEF NewRow, Row
<1>4. QED
  BY <1>1, <1>2, <1>3, RequestFields

(* The API starts with nothing locked, nothing in flight and nothing answered. *)
THEOREM InitInvariant == Init => TypeOK /\ IInv
<1> SUFFICES ASSUME Init PROVE TypeOK /\ IInv
  OBVIOUS
<1>1. TypeOK
  BY SeedAssumption, ConstantsAssumption DEF Init, TypeOK, NoWrites, RowIds, Codes, Steps
<1>2. IInv
  <2>1. /\ \A c \in Calls : ~Stored(c) /\ ~Inserted(c) /\ pc[c] = "idle" /\ code[c] = "pending"
        /\ \A c \in Calls, r \in RowIds : writes[c][r] = NoRow
        /\ \A r \in RowIds : lock[r] = None
        /\ \A r \in RowIds : Stored(r) => r \in Seeds /\ db[r] = SeedRow[r]
    BY ConstantsAssumption DEF Init, NoWrites, RowIds, Stored, Inserted
  <2>2. KeysUnique /\ SuccessorsReal
    BY <2>1, SeedAssumption DEF KeysUnique, SuccessorsReal
  <2>3. Bookkeeping
    BY <2>1 DEF Init, Bookkeeping
  <2>4. \A s \in Seeds : Stored(s)
    BY SeedAssumption, ConstantsAssumption DEF Init, Stored, RowIds
  <2>5. QED
    BY <2>1, <2>2, <2>3, <2>4 DEF IInv, SeedsKept, LocksOwned, TargetsHeld, RowsInFlight, OtherWrites, AnswerReady,
       RowsFaithful, RepliesRight, RefusalsStand, RetryNeverRefused
<1>3. QED
  BY <1>1, <1>2

-----------------------------------------------------------------------------
(* Types *)

(* A rollback clears what the transaction wrote and locked, and nothing else. *)
LEMMA RollbackTypes ==
  ASSUME TypeOK, NEW c \in Calls, Rollback(c)
  PROVE  /\ writes' \in [Calls -> [RowIds -> Row \cup {NoRow}]]
         /\ lock' \in [RowIds -> Calls \cup {None}]
BY DEF TypeOK, Rollback, Unlocked, NoWrites

(* A refusal keeps the types. *)
LEMMA RefuseTypes ==
  ASSUME TypeOK, NEW c \in Calls, NEW why \in Codes, Refuse(c, why)
  PROVE  TypeOK'
<1>1. Rollback(c)
  BY DEF Refuse
<1>2. pc' \in [Calls -> Steps] /\ code' \in [Calls -> Codes]
  BY DEF Refuse, Goto, TypeOK, Steps
<1>3. UNCHANGED <<db, req, result, counted>>
  BY DEF Refuse
<1>4. QED
  BY <1>1, <1>2, <1>3, RollbackTypes DEF TypeOK

(* So does the answer to a key that is taken. *)
LEMMA ReplayTypes ==
  ASSUME TypeOK, NEW c \in Calls, NEW e \in RowIds, ReplayOrConflict(c, e)
  PROVE  TypeOK'
<1>1. CASE Rollback(c) /\ AnswerWith(c, e)
  BY <1>1, RollbackTypes DEF AnswerWith, Goto, TypeOK, Steps
<1>2. CASE Refuse(c, "duplicate")
  BY <1>2, RefuseTypes DEF Codes
<1>3. QED
  BY <1>1, <1>2 DEF ReplayOrConflict

(* A superseded row is a row of the table's schema. *)
LEMMA SupersededType ==
  ASSUME NEW row \in Row, NEW c \in Calls
  PROVE  /\ Superseded(row, c) \in Row
         /\ Superseded(row, c).status = "SUPERSEDED"
         /\ Superseded(row, c).succ = c
         /\ Superseded(row, c).key = row.key
         /\ Superseded(row, c).actor = row.actor
         /\ Superseded(row, c).head = row.head
         /\ Superseded(row, c).body = row.body
BY DEF Superseded, Row, RowIds

(* A transaction's view of the table is a table. *)
LEMMA ViewType ==
  ASSUME TypeOK, NEW c \in Calls
  PROVE  View(c) \in [RowIds -> Row \cup {NoRow}]
BY DEF View, TypeOK

(* Every step keeps the types; the invariant says which rows a step reads. *)
LEMMA StepTypes == TypeOK /\ IInv /\ [Next]_vars => TypeOK'
<1> SUFFICES ASSUME TypeOK, IInv, [Next]_vars PROVE TypeOK'
  OBVIOUS
<1> USE DEF Taken
<1>1. ASSUME NEW c \in Calls, Receive(c) PROVE TypeOK'
  BY <1>1 DEF Receive, Goto, TypeOK, Steps
<1>2. ASSUME NEW c \in Calls, Invalid(c) PROVE TypeOK'
  BY <1>2, RefuseTypes DEF Invalid, Codes
<1>3. ASSUME NEW c \in Calls, ShortCircuit(c) PROVE TypeOK'
  <2>1. CASE Goto(c, "service") /\ UNCHANGED <<db, writes, lock, req, result, counted, code>>
    BY <2>1 DEF Goto, TypeOK, Steps
  <2>2. ASSUME NEW e \in RowIds, AnswerWith(c, e), UNCHANGED <<writes, lock>> PROVE TypeOK'
    BY <2>2 DEF AnswerWith, Goto, TypeOK, Steps
  <2>3. CASE Refuse(c, "duplicate")
    BY <2>3, RefuseTypes DEF Codes
  <2>4. QED
    BY <1>3, <2>1, <2>2, <2>3 DEF ShortCircuit
<1>4. ASSUME NEW c \in Calls, InsertRecord(c) PROVE TypeOK'
  <2>1. CASE Goto(c, "raced") /\ UNCHANGED <<db, writes, lock, req, result, counted, code>>
    BY <2>1 DEF Goto, TypeOK, Steps
  <2>2. CASE writes' = [writes EXCEPT ![c][c] = NewRow(c, req[c])] /\ AnswerWith(c, c) /\ UNCHANGED lock
    <3>1. IsRecord(c)
      BY <1>4 DEF InsertRecord, IInv, Bookkeeping, IsRecord
    <3>2. NewRow(c, req[c]) \in Row
      BY <3>1, OwnRowFields DEF OwnRow, IsRecord, IsCorrection
    <3>3. QED
      BY <2>2, <3>2 DEF AnswerWith, Goto, TypeOK, Steps, RowIds
  <2>3. QED
    BY <1>4, <2>1, <2>2 DEF InsertRecord
<1>5. ASSUME NEW c \in Calls, ResolveRace(c) PROVE TypeOK'
  BY <1>5, ReplayTypes DEF ResolveRace
<1>6. ASSUME NEW c \in Calls, FirstKeyCheck(c) PROVE TypeOK'
  <2>1. CASE Goto(c, "locking") /\ UNCHANGED <<db, writes, lock, req, result, counted, code>>
    BY <2>1 DEF Goto, TypeOK, Steps
  <2>2. QED
    BY <1>6, <2>1, ReplayTypes DEF FirstKeyCheck
<1>7. ASSUME NEW c \in Calls, LockTarget(c) PROVE TypeOK'
  BY <1>7 DEF LockTarget, Goto, TypeOK, Steps
<1>8. ASSUME NEW c \in Calls, JudgeTarget(c) PROVE TypeOK'
  <2>1. CASE Goto(c, "insert") /\ UNCHANGED <<db, writes, lock, req, result, counted, code>>
    BY <2>1 DEF Goto, TypeOK, Steps
  <2>2. Verdict(c) \in Codes
    BY DEF Verdict, Codes
  <2>3. QED
    BY <1>8, <2>1, <2>2, ReplayTypes, RefuseTypes DEF JudgeTarget, Recheck
<1>9. ASSUME NEW c \in Calls, InsertCorrection(c) PROVE TypeOK'
  <2>1. CASE /\ writes' = [writes EXCEPT ![c][c] = NewRow(c, Resolved(c, db[req[c].target]))]
             /\ Goto(c, "flip")
             /\ UNCHANGED <<db, lock, req, result, counted, code>>
    <3>1. HoldsTarget(c)
      BY <1>9 DEF InsertCorrection, IInv, TargetsHeld
    <3>2. NewRow(c, Resolved(c, db[req[c].target])) \in Row
      BY <3>1, OwnRowFields DEF OwnRow, HoldsTarget, IsCorrection
    <3>3. QED
      BY <2>1, <3>2 DEF Goto, TypeOK, Steps, RowIds
  <2>2. CASE /\ Rollback(c) /\ Goto(c, "raced")
             /\ UNCHANGED <<db, req, result, counted, code>>
    BY <2>2, RollbackTypes DEF Goto, TypeOK, Steps
  <2>3. QED
    BY <1>9, <2>1, <2>2 DEF InsertCorrection
<1>10. ASSUME NEW c \in Calls, FlipTarget(c) PROVE TypeOK'
  <2>1. HoldsTarget(c)
    BY <1>10 DEF FlipTarget, IInv, TargetsHeld
  <2>2. req[c].target \in RowIds
    BY <2>1, RequestFields DEF HoldsTarget, IsCorrection, TypeOK
  <2>3. Superseded(db[req[c].target], c) \in Row
    BY <2>1, <2>2, RowFields, SupersededType DEF HoldsTarget
  <2>4. QED
    BY <1>10, <2>2, <2>3 DEF FlipTarget, AnswerWith, Goto, TypeOK, Steps, RowIds
<1>11. ASSUME NEW c \in Calls, ReadBalance(c) PROVE TypeOK'
  BY <1>11 DEF ReadBalance, Summed, Active, Goto, TypeOK, Steps
<1>12. ASSUME NEW c \in Calls, Commit(c) PROVE TypeOK'
  BY <1>12, ViewType, RollbackTypes DEF Commit, Goto, TypeOK, Steps
<1>13. ASSUME NEW c \in Calls, Deliver(c) PROVE TypeOK'
  BY <1>13 DEF Deliver, Goto, TypeOK, Steps, Codes
<1>14. ASSUME NEW c \in Calls, Fail(c) PROVE TypeOK'
  BY <1>14, RefuseTypes DEF Fail, Codes
<1>15. CASE UNCHANGED vars
  BY <1>15 DEF vars, TypeOK
<1>16. QED
  BY <1>1, <1>2, <1>3, <1>4, <1>5, <1>6, <1>7, <1>8, <1>9, <1>10, <1>11, <1>12, <1>13, <1>14,
     <1>15 DEF Next, Progress, Finished

-----------------------------------------------------------------------------
(* What a step changes. *)

(* The table as a request sees it when it has its answer: the committed one if *)
(* it answers with an older row; with its row added, if it records; with its    *)
(* row added and its target flipped, if it corrects.                            *)
LEMMA OwnView ==
  ASSUME TypeOK, IInv, NEW c \in Calls, pc[c] \in {"answer", "commit"}
  PROVE  \/ ~Inserted(c) /\ View(c) = db
         \/ /\ Inserted(c) /\ IsRecord(c) /\ ~Stored(c) /\ Taken(c) = {}
            /\ View(c) = [db EXCEPT ![c] = OwnRow(c)]
         \/ /\ Inserted(c) /\ HoldsTarget(c) /\ ~Stored(c) /\ Taken(c) = {}
            /\ req[c].target \in RowIds \ {c}
            /\ View(c) = [db EXCEPT ![c] = OwnRow(c),
                                ![req[c].target] = Superseded(db[req[c].target], c)]
<1> DEFINE t == req[c].target
<1>1. ~Stored(c)
  BY DEF IInv, RowsFaithful
<1>2. req[c] # None /\ req[c] \in Requests
  BY DEF IInv, Bookkeeping, TypeOK
<1>3. CASE ~Inserted(c)
  <2>1. \A r \in RowIds : writes[c][r] = NoRow
    BY <1>3 DEF IInv, OtherWrites, Inserted
  <2>2. View(c) = db
    BY <2>1 DEF View, TypeOK
  <2>3. QED
    BY <1>3, <2>2
<1>4. CASE Inserted(c)
  <2>1. writes[c][c] = OwnRow(c) /\ Taken(c) = {} /\ c \in RowIds
    BY <1>4 DEF IInv, RowsInFlight, RowIds
  <2>2. CASE req[c].kind = "record"
    <3>1. t = None
      BY <1>2, <2>2, ConstantsAssumption DEF TransactionCreate, CorrectionCreate
    <3>2. \A r \in RowIds \ {c} : writes[c][r] = NoRow
      BY <1>2, <2>2, <3>1 DEF IInv, OtherWrites, HoldsTarget, IsCorrection
    <3>3. View(c) = [db EXCEPT ![c] = OwnRow(c)]
      BY <1>4, <2>1, <3>2 DEF View, TypeOK, Inserted
    <3>4. QED
      BY <1>1, <1>2, <1>4, <2>1, <2>2, <3>3 DEF IsRecord
  <2>3. CASE req[c].kind = "correct"
    <3>1. t \in RowIds
      BY <1>2, <2>3, RequestFields
    <3>2. writes[c][t] # NoRow
      BY <1>2, <1>4, <2>3 DEF IInv, AnswerReady, IsCorrection
    <3>3. t # c
      BY <1>1, <1>2, <1>4, <2>3 DEF IInv, AnswerReady, HoldsTarget, IsCorrection
    <3>4. HoldsTarget(c) /\ writes[c][t] = Superseded(db[t], c)
      BY <3>1, <3>2, <3>3 DEF IInv, OtherWrites
    <3>5. \A r \in RowIds \ {c, t} : writes[c][r] = NoRow
      BY DEF IInv, OtherWrites
    <3>6. View(c) = [db EXCEPT ![c] = OwnRow(c), ![t] = Superseded(db[t], c)]
      BY <1>4, <2>1, <3>1, <3>2, <3>3, <3>4, <3>5 DEF View, TypeOK, Inserted
    <3>7. QED
      BY <1>1, <1>4, <2>1, <3>1, <3>3, <3>4, <3>6
  <2>4. QED
    BY <1>2, <2>2, <2>3, RequestFields
<1>5. QED
  BY <1>3, <1>4

(* So a commit changes nothing, adds a row, or adds a row and flips a target. *)
LEMMA CommitEffect ==
  ASSUME TypeOK, IInv, NEW c \in Calls, Commit(c)
  PROVE  \/ ~Inserted(c) /\ db' = db
         \/ /\ Inserted(c) /\ IsRecord(c) /\ ~Stored(c) /\ Taken(c) = {}
            /\ db' = [db EXCEPT ![c] = OwnRow(c)]
         \/ /\ Inserted(c) /\ HoldsTarget(c) /\ ~Stored(c) /\ Taken(c) = {}
            /\ req[c].target \in RowIds \ {c}
            /\ db' = [db EXCEPT ![c] = OwnRow(c),
                                ![req[c].target] = Superseded(db[req[c].target], c)]
BY OwnView DEF Commit

(* Only a commit changes the table. *)
LEMMA TableUnchanged ==
  ASSUME [Next]_vars, \A c \in Calls : ~Commit(c)
  PROVE  db' = db
BY DEF Next, Progress, Finished, vars, Receive, Invalid, ShortCircuit, InsertRecord, ResolveRace,
   FirstKeyCheck, LockTarget, JudgeTarget, InsertCorrection, FlipTarget, ReadBalance, Deliver,
   Fail, Refuse, AnswerWith, ReplayOrConflict

(* A payload never changes once the request has arrived. *)
LEMMA PayloadsFixed ==
  ASSUME TypeOK, IInv, [Next]_vars, NEW c \in Calls, req[c] # None
  PROVE  req'[c] = req[c]
<1>1. pc[c] # "idle"
  BY DEF IInv, Bookkeeping
<1>2. \A d \in Calls : Receive(d) => req'[c] = req[c]
  BY <1>1 DEF Receive, TypeOK
<1>3. (\A d \in Calls : ~Receive(d)) => req' = req
  BY DEF Next, Progress, Finished, vars, Invalid, ShortCircuit, InsertRecord, ResolveRace,
     FirstKeyCheck, LockTarget, JudgeTarget, InsertCorrection, FlipTarget, ReadBalance, Commit,
     Deliver, Fail, Refuse, AnswerWith, ReplayOrConflict
<1>4. QED
  BY <1>2, <1>3

(* A committed row stays, and keeps everything but an ACTIVE status.         *)
LEMMA RowsKept ==
  ASSUME TypeOK, IInv, [Next]_vars, NEW r \in RowIds, Stored(r)
  PROVE  /\ Stored(r)'
         /\ db'[r] \in Row
         /\ db'[r].key = db[r].key
         /\ db'[r].actor = db[r].actor
         /\ db'[r].head = db[r].head
         /\ db'[r].body = db[r].body
         /\ \/ db'[r] = db[r]
            \/ \E c \in Calls :
                 /\ Commit(c) /\ Inserted(c) /\ HoldsTarget(c) /\ r = req[c].target
                 /\ db[r].status = "ACTIVE"
                 /\ db'[r] = Superseded(db[r], c)
<1> USE ConstantsAssumption DEF Stored
<1>1. CASE \A c \in Calls : ~Commit(c)
  BY <1>1, TableUnchanged, RowFields
<1>2. ASSUME NEW c \in Calls, Commit(c)
      PROVE  \/ db'[r] = db[r]
             \/ /\ Inserted(c) /\ HoldsTarget(c) /\ r = req[c].target
                /\ db[r].status = "ACTIVE"
                /\ db'[r] = Superseded(db[r], c)
  BY <1>2, CommitEffect DEF TypeOK, HoldsTarget
<1>3. ASSUME NEW c \in Calls, db'[r] = Superseded(db[r], c)
      PROVE  /\ db'[r] \in Row
             /\ db'[r].key = db[r].key
             /\ db'[r].actor = db[r].actor
             /\ db'[r].head = db[r].head
             /\ db'[r].body = db[r].body
  BY <1>3, RowFields, SupersededType
<1>4. QED
  BY <1>1, <1>2, <1>3, RowFields

(* The row a commit adds says what the request asked for. *)
LEMMA CommittedRow ==
  ASSUME TypeOK, IInv, NEW c \in Calls, Commit(c), Inserted(c)
  PROVE  /\ db'[c] = OwnRow(c) /\ Stored(c)'
         /\ db'[c].key = req[c].key /\ db'[c].actor = req[c].actor
         /\ db'[c].status = "ACTIVE" /\ db'[c].succ = None
         /\ IsReplay(c, c)'
         /\ IsCorrection(c) => db'[req[c].target].actor = db'[c].actor
<1>1. /\ req[c] # None /\ req[c] \in Requests /\ req'[c] = req[c]
  BY DEF Commit, IInv, Bookkeeping, TypeOK
<1>2. IsCorrection(c) => HoldsTarget(c) /\ req[c].target \in RowIds \ {c}
  BY CommitEffect DEF IsRecord, IsCorrection
<1>3. /\ OwnRow(c) # NoRow
      /\ OwnRow(c).key = req[c].key /\ OwnRow(c).actor = req[c].actor
      /\ OwnRow(c).status = "ACTIVE" /\ OwnRow(c).succ = None
  BY <1>1, <1>2, OwnRowFields DEF HoldsTarget
<1>4. c \in RowIds
  BY DEF RowIds
<1>5. CASE req[c].kind = "record"
  <2>1. db'[c] = OwnRow(c)
    BY <1>4, <1>5, CommitEffect DEF TypeOK, HoldsTarget, IsCorrection
  <2>2. OwnRow(c).head = req[c].head /\ OwnRow(c).body = req[c].body
    BY <1>5 DEF OwnRow, NewRow
  <2>3. QED
    BY <1>1, <1>3, <1>5, <2>1, <2>2 DEF Stored, IsReplay, SamePayload, IsCorrection
<1>6. CASE req[c].kind = "correct"
  <2>1. PICK t \in RowIds \ {c} : t = req[c].target
    BY <1>1, <1>2, <1>6 DEF IsCorrection
  <2>2. Stored(t) /\ db[t].actor = req[c].actor
    BY <1>1, <1>2, <1>6, <2>1 DEF IsCorrection, HoldsTarget
  <2>3. db' = [db EXCEPT ![c] = OwnRow(c), ![t] = Superseded(db[t], c)]
    BY <1>6, <2>1, CommitEffect DEF IsRecord
  <2>4. db'[c] = OwnRow(c) /\ db'[t] = Superseded(db[t], c)
    BY <1>4, <2>1, <2>3 DEF TypeOK
  <2>5. Superseded(db[t], c).succ = c /\ Superseded(db[t], c) \in Row
        /\ Superseded(db[t], c).actor = db[t].actor
        /\ Superseded(db[t], c).head = db[t].head
        /\ Superseded(db[t], c).body = db[t].body
    BY <2>2, RowFields, SupersededType
  <2>6. /\ OwnRow(c).head = Resolved(c, db[t]).head
        /\ OwnRow(c).body = Resolved(c, db[t]).body
    BY <1>6, <2>1 DEF OwnRow, NewRow
  <2>7. Resolved(c, db'[t]) = Resolved(c, db[t])
    BY <2>4, <2>5 DEF Resolved
  <2>8. Supersedes(c, c)'
    BY <1>1, <2>1, <2>4, <2>5, ConstantsAssumption DEF Supersedes, Stored
  <2>9. SamePayload(c, c, Resolved(c, db[req[c].target]))'
    BY <1>1, <1>3, <2>1, <2>4, <2>6, <2>7 DEF SamePayload, Resolved
  <2>10. QED
    BY <1>1, <1>3, <1>6, <2>1, <2>2, <2>4, <2>5, <2>8, <2>9 DEF Stored, IsReplay
<1>7. QED
  BY <1>1, <1>5, <1>6, RequestFields

(* So do the facts about rows that answers and refusals rest on. *)
LEMMA FactsKept ==
  ASSUME TypeOK, IInv, [Next]_vars, NEW c \in Calls, req[c] # None, NEW e \in RowIds
  PROVE  /\ e \in Taken(c) => e \in Taken(c)'
         /\ req[c].kind = "correct" /\ Supersedes(c, e) => Supersedes(c, e)'
         /\ Stored(e) /\ IsCheapReplay(c, e) => IsCheapReplay(c, e)'
         /\ Stored(e) /\ IsReplay(c, e) => IsReplay(c, e)'
<1>1. req'[c] = req[c] /\ req[c] \in Requests
  BY PayloadsFixed DEF TypeOK
<1>2. e \in Taken(c) => e \in Taken(c)'
  BY <1>1, RowsKept DEF Taken
<1>3. CASE req[c].kind = "record"
  <2>1. Stored(e) => db'[e].actor = db[e].actor /\ db'[e].head = db[e].head /\ db'[e].body = db[e].body
    BY RowsKept
  <2>2. QED
    BY <1>1, <1>2, <1>3, <2>1 DEF IsCheapReplay, IsReplay, SamePayload
<1>4. CASE req[c].kind = "correct"
  <2>1. PICK t \in RowIds : t = req[c].target
    BY <1>1, <1>4, RequestFields
  <2>2. Supersedes(c, e) => Supersedes(c, e)'
    <3>1. SUFFICES ASSUME Stored(t), db[t].succ = e
                   PROVE  Supersedes(c, e)'
      BY <2>1 DEF Supersedes
    <3>2. db[t].status = "SUPERSEDED"
      BY <2>1, <3>1, ConstantsAssumption DEF IInv, SuccessorsReal
    <3>3. Stored(t)' /\ db'[t] = db[t]
      BY <3>1, <3>2, RowsKept
    <3>4. QED
      BY <1>1, <2>1, <3>1, <3>3 DEF Supersedes
  <2>3. Stored(e) => db'[e].actor = db[e].actor /\ db'[e].head = db[e].head /\ db'[e].body = db[e].body
    BY RowsKept
  <2>4. Stored(t) => db'[t].head = db[t].head /\ db'[t].body = db[t].body
    BY <2>1, RowsKept
  <2>5. QED
    BY <1>1, <1>2, <1>4, <2>1, <2>2, <2>3, <2>4
       DEF IsCheapReplay, IsReplay, SamePayload, Resolved, Supersedes
<1>5. QED
  BY <1>1, <1>2, <1>3, <1>4, RequestFields, ConstantsAssumption DEF Supersedes

(* What a request may do next. *)
Act(c) == Receive(c) \/ Invalid(c) \/ Progress(c) \/ Fail(c)

(* A step is one request's, or changes nothing. *)
LEMMA StepIsSomeones ==
  ASSUME [Next]_vars
  PROVE  UNCHANGED vars \/ \E c \in Calls : Act(c)
BY DEF Next, Finished, Act

(* A request's step leaves the other requests, their writes and their locks alone. *)
LEMMA OthersUntouched ==
  ASSUME TypeOK, NEW c \in Calls, Act(c), NEW d \in Calls \ {c}
  PROVE  /\ writes'[d] = writes[d]
         /\ pc'[d] = pc[d]
         /\ req'[d] = req[d]
         /\ result'[d] = result[d]
         /\ code'[d] = code[d]
         /\ \A r \in RowIds : lock'[r] = d <=> lock[r] = d
<1> USE DEF TypeOK, Goto
<1>1. ASSUME Rollback(c)
      PROVE  writes'[d] = writes[d] /\ \A r \in RowIds : lock'[r] = d <=> lock[r] = d
  <2>1. writes'[d] = writes[d]
    BY <1>1 DEF Rollback
  <2>2. d # None /\ d # c
    BY ConstantsAssumption DEF RowIds
  <2>3. lock' = Unlocked(c)
    BY <1>1 DEF Rollback
  <2>4. \A r \in RowIds : lock'[r] = IF lock[r] = c THEN None ELSE lock[r]
    BY <2>3 DEF Unlocked
  <2>5. QED
    BY <2>1, <2>2, <2>4
<1>2. ASSUME NEW why \in Codes, Refuse(c, why)
      PROVE  /\ writes'[d] = writes[d] /\ pc'[d] = pc[d] /\ req'[d] = req[d]
             /\ result'[d] = result[d] /\ code'[d] = code[d]
             /\ \A r \in RowIds : lock'[r] = d <=> lock[r] = d
  BY <1>1, <1>2 DEF Refuse
<1>3. ASSUME NEW e \in RowIds, AnswerWith(c, e)
      PROVE  /\ pc'[d] = pc[d] /\ req'[d] = req[d]
             /\ result'[d] = result[d] /\ code'[d] = code[d]
  BY <1>3 DEF AnswerWith
<1>4. ASSUME NEW e \in RowIds, ReplayOrConflict(c, e)
      PROVE  /\ writes'[d] = writes[d] /\ pc'[d] = pc[d] /\ req'[d] = req[d]
             /\ result'[d] = result[d] /\ code'[d] = code[d]
             /\ \A r \in RowIds : lock'[r] = d <=> lock[r] = d
  BY <1>1, <1>2, <1>3, <1>4 DEF ReplayOrConflict, Codes
<1>5. CASE Receive(c)
  BY <1>5 DEF Receive
<1>6. CASE Invalid(c) \/ Fail(c)
  BY <1>2, <1>6 DEF Invalid, Fail, Codes
<1>7. CASE ShortCircuit(c)
  BY <1>2, <1>3, <1>7 DEF ShortCircuit, Taken, Codes
<1>8. CASE InsertRecord(c)
  BY <1>3, <1>8 DEF InsertRecord, RowIds
<1>9. CASE ResolveRace(c)
  BY <1>4, <1>9 DEF ResolveRace, Taken
<1>10. CASE FirstKeyCheck(c)
  BY <1>4, <1>10 DEF FirstKeyCheck, Taken
<1>11. CASE LockTarget(c)
  BY <1>11, ConstantsAssumption DEF LockTarget, LockFree, RowIds
<1>12. CASE JudgeTarget(c)
  <2>1. Verdict(c) \in Codes
    BY DEF Verdict, Codes
  <2>2. QED
    BY <1>2, <1>4, <1>12, <2>1 DEF JudgeTarget, Recheck, Taken
<1>13. CASE InsertCorrection(c)
  BY <1>1, <1>13 DEF InsertCorrection
<1>14. CASE FlipTarget(c)
  BY <1>3, <1>14 DEF FlipTarget, RowIds
<1>15. CASE ReadBalance(c) \/ Deliver(c)
  BY <1>15 DEF ReadBalance, Deliver
<1>16. CASE Commit(c)
  BY <1>1, <1>16 DEF Commit
<1>17. QED
  BY <1>5, <1>6, <1>7, <1>8, <1>9, <1>10, <1>11, <1>12, <1>13, <1>14, <1>15, <1>16 DEF Act, Progress

(* What a step of request c does, by kind. *)

(* It holds no write and no lock any more. *)
HoldsNothing(c) ==
  /\ \A r \in RowIds : writes[c][r] = NoRow
  /\ \A r \in RowIds : lock[r] # c

Refused(c) ==
  \E why \in Codes \ {"pending", "ok"} :
    /\ Refuse(c, why)
    /\ pc[c] \notin {"idle", "done"}
    /\ why # "lost" => pc[c] # "reply"
    /\ why = "not_found" => req[c].target \notin Seeds
    /\ why = "duplicate" => \E e \in Taken(c) : ~IsReplay(c, e)
    /\ why \in {"not_found", "not_active", "not_allowed"} => Taken(c) = {} /\ IsCorrection(c)
    /\ why \in {"not_active", "not_allowed"} => Stored(req[c].target)
    /\ why = "not_active" => db[req[c].target].status = "SUPERSEDED"
    /\ why = "not_allowed" => db[req[c].target].actor # req[c].actor

Replayed(c) ==
  \E e \in Taken(c) :
    /\ pc[c] \in {"received", "service", "raced", "locked"}
    /\ IsCheapReplay(c, e)
    /\ AnswerWith(c, e)
    /\ HoldsNothing(c)'

(* Nothing but its place in the program. *)
Moved(c) ==
  \E step \in {"service", "raced", "locking", "insert", "commit"} :
    /\ Goto(c, step)
    /\ step = "locking" => IsCorrection(c)
    /\ step = "insert" => HoldsTarget(c)
    /\ step = "insert" <=> pc[c] = "locked"
    /\ step = "commit" <=> pc[c] = "answer"
    /\ pc[c] \in {"received", "service", "locked", "answer"}
    /\ UNCHANGED <<db, writes, lock, req, result, code>>

Abandoned(c) ==
  /\ pc[c] = "insert"
  /\ Rollback(c)
  /\ Goto(c, "raced")
  /\ UNCHANGED <<db, req, result, code>>

(* It has put its row in. *)
Placed(c) ==
  /\ \/ pc[c] = "service" /\ IsRecord(c) /\ AnswerWith(c, c)
     \/ pc[c] = "insert" /\ HoldsTarget(c) /\ Goto(c, "flip") /\ UNCHANGED <<req, db, result, code>>
  /\ Taken(c) = {}
  /\ ~KeyInFlight(c)
  /\ writes' = [writes EXCEPT ![c][c] = OwnRow(c)]
  /\ UNCHANGED lock

(* What the full comparison accepts, the cheap one accepts too. *)
LEMMA ReplayIsCheap ==
  ASSUME NEW c \in Calls, NEW e, IsReplay(c, e)
  PROVE  IsCheapReplay(c, e)
BY DEF IsReplay, IsCheapReplay, SamePayload

(* After a rollback the transaction has no writes and no lock. *)
LEMMA RollbackClears ==
  ASSUME TypeOK, NEW c \in Calls, Rollback(c)
  PROVE  HoldsNothing(c)'
<1>1. None # c
  BY ConstantsAssumption DEF RowIds
<1>2. \A r \in RowIds : lock'[r] = IF lock[r] = c THEN None ELSE lock[r]
  BY DEF Rollback, Unlocked
<1>3. writes'[c] = NoWrites
  BY DEF TypeOK, Rollback
<1>4. QED
  BY <1>1, <1>2, <1>3 DEF HoldsNothing, NoWrites

(* A request that has neither locked nor inserted holds nothing. *)
LEMMA EarlyHoldsNothing ==
  ASSUME TypeOK, IInv, NEW c \in Calls,
         pc[c] \in {"idle", "received", "service", "raced", "locking", "reply", "done"}
  PROVE  HoldsNothing(c)
<1>1. \A r \in RowIds : lock[r] # c
  BY ConstantsAssumption DEF IInv, LocksOwned, RowIds
<1>2. ~Inserted(c)
  BY DEF IInv, RowsInFlight
<1>3. \A r \in RowIds : writes[c][r] = NoRow
  BY <1>2 DEF IInv, OtherWrites, Inserted
<1>4. QED
  BY <1>1, <1>3 DEF HoldsNothing

(* What becomes of a request whose key is taken. *)
LEMMA ReplayShape ==
  ASSUME TypeOK, IInv, NEW c \in Calls, NEW e \in Taken(c), ReplayOrConflict(c, e),
         pc[c] \in {"service", "raced", "locked"}
  PROVE  Refused(c) \/ Replayed(c)
<1>1. CASE IsReplay(c, e) /\ Rollback(c) /\ AnswerWith(c, e)
  BY <1>1, ReplayIsCheap, RollbackClears DEF Replayed
<1>2. CASE ~IsReplay(c, e) /\ Refuse(c, "duplicate")
  BY <1>2 DEF Refused, Codes
<1>3. QED
  BY <1>1, <1>2 DEF ReplayOrConflict

(* What any step of a request does to its writes and to its place in the code. *)
LEMMA StepShape ==
  ASSUME TypeOK, IInv, NEW c \in Calls, Act(c)
  PROVE  \/ Receive(c) \/ Refused(c) \/ Replayed(c) \/ Moved(c) \/ Abandoned(c) \/ Placed(c)
         \/ LockTarget(c) \/ FlipTarget(c) \/ Commit(c) \/ Deliver(c)
<1>1. CASE Invalid(c) \/ Fail(c)
  BY <1>1 DEF Invalid, Fail, Refused, Codes
<1>2. CASE ShortCircuit(c)
  <2>1. CASE Goto(c, "service") /\ UNCHANGED <<db, writes, lock, req, result, counted, code>>
    BY <1>2, <2>1 DEF ShortCircuit, Moved
  <2>2. ASSUME NEW e \in Taken(c), IsCheapReplay(c, e), AnswerWith(c, e), UNCHANGED <<writes, lock>>
        PROVE  Replayed(c)
    <3>1. pc[c] = "received"
      BY <1>2 DEF ShortCircuit
    <3>2. HoldsNothing(c)'
      BY <2>2, <3>1, EarlyHoldsNothing DEF HoldsNothing
    <3>3. QED
      BY <2>2, <3>1, <3>2 DEF Replayed
  <2>3. ASSUME NEW e \in Taken(c), ~IsCheapReplay(c, e), Refuse(c, "duplicate")
        PROVE  Refused(c)
    BY <1>2, <2>3, ReplayIsCheap DEF Refused, Codes, ShortCircuit
  <2>4. QED
    BY <1>2, <2>1, <2>2, <2>3 DEF ShortCircuit
<1>3. CASE InsertRecord(c)
  <2>1. pc[c] = "service" /\ ~KeyInFlight(c) /\ IsRecord(c)
    BY <1>3 DEF InsertRecord, IsRecord, IInv, Bookkeeping
  <2>2. OwnRow(c) = NewRow(c, req[c])
    BY <2>1 DEF OwnRow, IsRecord
  <2>3. QED
    BY <1>3, <2>1, <2>2 DEF InsertRecord, Placed, Moved
<1>4. CASE ResolveRace(c)
  BY <1>4, ReplayShape DEF ResolveRace
<1>5. CASE FirstKeyCheck(c)
  <2>1. IsCorrection(c) /\ pc[c] = "service"
    BY <1>5 DEF FirstKeyCheck, IsCorrection, IInv, Bookkeeping
  <2>2. QED
    BY <1>5, <2>1, ReplayShape DEF FirstKeyCheck, Moved
<1>6. CASE JudgeTarget(c)
  <2>1. pc[c] = "locked" /\ IsCorrection(c)
    BY <1>6 DEF JudgeTarget, IInv, Bookkeeping
  <2>2. PICK t \in RowIds : t = req[c].target
    BY <2>1, RequestFields DEF IsCorrection, TypeOK
  <2>3. lock[t] = c => Stored(t) /\ db[t].status \in {"ACTIVE", "SUPERSEDED"}
    BY <2>2, RowFields, ConstantsAssumption DEF IInv, LocksOwned, RowIds
  <2>4. CASE Recheck(c) = {} /\ Verdict(c) # "ok" /\ Refuse(c, Verdict(c))
    <3>1. \/ Verdict(c) = "not_found" /\ lock[t] # c
          \/ Verdict(c) = "not_active" /\ lock[t] = c /\ db[t].status = "SUPERSEDED"
          \/ Verdict(c) = "not_allowed" /\ lock[t] = c /\ db[t].actor # req[c].actor
      BY <2>2, <2>3, <2>4 DEF Verdict
    <3>2. QED
      BY <2>1, <2>2, <2>3, <2>4, <3>1 DEF Refused, Recheck, Codes, IInv, SeedsKept
  <2>5. CASE /\ Verdict(c) = "ok" /\ Goto(c, "insert")
             /\ UNCHANGED <<db, writes, lock, req, result, counted, code>>
    <3>1. HoldsTarget(c)
      BY <2>1, <2>2, <2>3, <2>5 DEF Verdict, HoldsTarget
    <3>2. QED
      BY <2>1, <2>5, <3>1 DEF Moved
  <2>6. QED
    BY <1>6, <2>1, <2>4, <2>5, ReplayShape DEF JudgeTarget, Recheck
<1>7. CASE InsertCorrection(c)
  <2>1. pc[c] = "insert" /\ ~KeyInFlight(c) /\ HoldsTarget(c)
    BY <1>7 DEF InsertCorrection, IInv, TargetsHeld
  <2>2. OwnRow(c) = NewRow(c, Resolved(c, db[req[c].target]))
    BY <2>1 DEF OwnRow, HoldsTarget, IsCorrection
  <2>3. QED
    BY <1>7, <2>1, <2>2 DEF InsertCorrection, Placed, Abandoned
<1>8. CASE ReadBalance(c)
  BY <1>8 DEF ReadBalance, Moved
<1>9. QED
  BY <1>1, <1>2, <1>3, <1>4, <1>5, <1>6, <1>7, <1>8 DEF Act, Progress

(* A held target stays as it is until its holder commits or lets go of it. *)
LEMMA HoldKept ==
  ASSUME TypeOK, IInv, [Next]_vars, NEW c \in Calls, HoldsTarget(c), ~Commit(c)
  PROVE  /\ req'[c] = req[c] /\ req[c].target \in RowIds
         /\ db'[req[c].target] = db[req[c].target]
         /\ lock'[req[c].target] = c => HoldsTarget(c)'
<1>1. /\ req'[c] = req[c]
      /\ req[c].kind = "correct" /\ req[c] # None
  BY PayloadsFixed DEF HoldsTarget, IsCorrection
<1>2. PICK t \in RowIds : t = req[c].target
  BY <1>1, RequestFields DEF TypeOK
<1>3. lock[t] = c /\ Stored(t) /\ db[t].status = "ACTIVE" /\ db[t].actor = req[c].actor
  BY <1>2 DEF HoldsTarget
<1>4. db'[t] = db[t]
  <2>1. ASSUME NEW x \in Calls, Commit(x), HoldsTarget(x), t = req[x].target PROVE FALSE
    BY <1>3, <2>1 DEF HoldsTarget
  <2>2. QED
    BY <1>3, <2>1, RowsKept
<1>5. QED
  BY <1>1, <1>2, <1>3, <1>4 DEF HoldsTarget, Stored, IsCorrection

(* A row appears only by its own request's commit. *)
LEMMA RowsAppear ==
  ASSUME TypeOK, IInv, [Next]_vars, NEW r \in RowIds, Stored(r)', ~Stored(r)
  PROVE  r \in Calls /\ Commit(r) /\ Inserted(r)
<1>1. PICK c \in Calls : Commit(c)
  BY TableUnchanged DEF Stored
<1>2. CASE ~Inserted(c)
  BY <1>1, <1>2, CommitEffect DEF Stored
<1>3. CASE Inserted(c)
  <2>1. r = c
    BY <1>1, <1>3, CommitEffect DEF TypeOK, Stored, HoldsTarget
  <2>2. QED
    BY <1>1, <1>3, <2>1
<1>4. QED
  BY <1>2, <1>3

(* A request's own row, once inserted, does not depend on the others' steps. *)
LEMMA OwnRowKept ==
  ASSUME TypeOK, IInv, [Next]_vars, NEW c \in Calls, req[c] # None,
         IsCorrection(c) => HoldsTarget(c)
  PROVE  OwnRow(c)' = OwnRow(c)
<1>1. req'[c] = req[c] /\ req[c] \in Requests
  BY PayloadsFixed DEF TypeOK
<1>2. CASE req[c].kind = "record"
  BY <1>1, <1>2 DEF OwnRow, NewRow
<1>3. CASE req[c].kind = "correct"
  <2>1. PICK t \in RowIds : t = req[c].target
    BY <1>1, <1>3, RequestFields
  <2>2. db'[t].head = db[t].head /\ db'[t].body = db[t].body
    BY <1>1, <1>3, <2>1, RowsKept, ConstantsAssumption DEF HoldsTarget, IsCorrection, TypeOK
  <2>3. Resolved(c, db[t])' = Resolved(c, db[t])
    BY <1>1, <2>2 DEF Resolved
  <2>4. QED
    BY <1>1, <1>3, <2>1, <2>3 DEF OwnRow, NewRow, Resolved
<1>4. QED
  BY <1>1, <1>2, <1>3, RequestFields

(* What an inserted row implies about its request. *)
LEMMA InsertedFacts ==
  ASSUME TypeOK, IInv, NEW c \in Calls, Inserted(c)
  PROVE  /\ req[c] # None
         /\ IsCorrection(c) => HoldsTarget(c)
         /\ writes[c][c] = OwnRow(c) /\ OwnRow(c).key = req[c].key
<1>1. pc[c] \in {"flip", "answer", "commit"} /\ req[c] # None /\ writes[c][c] = OwnRow(c)
  BY DEF IInv, RowsInFlight, Bookkeeping
<1>2. IsCorrection(c) => HoldsTarget(c)
  BY <1>1 DEF IInv, AnswerReady, TargetsHeld
<1>3. OwnRow(c).key = req[c].key
  BY <1>1, <1>2, OwnRowFields DEF HoldsTarget
<1>4. QED
  BY <1>1, <1>2, <1>3

-----------------------------------------------------------------------------
(* The invariant, part by part. *)

(* Requests have payloads once they have arrived, codes once they are done. *)
LEMMA StepBookkeeping == TypeOK /\ IInv /\ [Next]_vars => Bookkeeping'
<1> SUFFICES ASSUME TypeOK, IInv, [Next]_vars PROVE Bookkeeping'
  OBVIOUS
<1> USE DEF Bookkeeping, IsCorrection, TypeOK, Goto
<1>1. Bookkeeping
  BY DEF IInv
<1>2. CASE UNCHANGED vars
  BY <1>1, <1>2 DEF vars
<1>3. ASSUME NEW c \in Calls, Act(c) PROVE Bookkeeping'
  <2>1. CASE Receive(c)
    BY <1>1, <2>1, ConstantsAssumption DEF Receive
  <2>2. ASSUME NEW why \in Codes \ {"pending"}, Refuse(c, why), pc[c] # "idle"
        PROVE  Bookkeeping'
    BY <1>1, <2>2 DEF Refuse
  <2>3. ASSUME NEW e \in RowIds, AnswerWith(c, e), pc[c] \notin {"idle", "done"}
        PROVE  Bookkeeping'
    BY <1>1, <2>3 DEF AnswerWith
  <2>4. ASSUME NEW e \in RowIds, ReplayOrConflict(c, e), pc[c] \notin {"idle", "done"}
        PROVE  Bookkeeping'
    BY <2>2, <2>3, <2>4 DEF ReplayOrConflict, Codes
  <2>5. CASE Invalid(c) \/ Fail(c)
    BY <2>2, <2>5 DEF Invalid, Fail, Codes
  <2>6. CASE ShortCircuit(c) \/ ResolveRace(c) \/ FirstKeyCheck(c) \/ InsertRecord(c) \/ FlipTarget(c)
    BY <1>1, <2>2, <2>3, <2>4, <2>6
       DEF ShortCircuit, ResolveRace, FirstKeyCheck, InsertRecord, FlipTarget, Taken, RowIds, Codes
  <2>7. CASE JudgeTarget(c)
    <3>1. Verdict(c) \in Codes \ {"pending"}
      BY DEF Verdict, Codes
    <3>2. QED
      BY <1>1, <2>2, <2>4, <2>7, <3>1 DEF JudgeTarget, Recheck, Taken
  <2>8. CASE LockTarget(c) \/ InsertCorrection(c) \/ ReadBalance(c) \/ Commit(c) \/ Deliver(c)
    BY <1>1, <2>8 DEF LockTarget, InsertCorrection, ReadBalance, Commit, Deliver
  <2>9. QED
    BY <1>3, <2>1, <2>5, <2>6, <2>7, <2>8 DEF Act, Progress
<1>4. QED
  BY <1>2, <1>3, StepIsSomeones

(* A commit never brings a key that is stored already. *)
LEMMA StepKeysUnique == TypeOK /\ IInv /\ [Next]_vars => KeysUnique'
<1> SUFFICES ASSUME TypeOK, IInv, [Next]_vars PROVE KeysUnique'
  OBVIOUS
<1>1. KeysUnique
  BY DEF IInv
<1>2. CASE db' = db
  BY <1>1, <1>2 DEF KeysUnique, Stored
<1>3. ASSUME NEW c \in Calls, Commit(c), db' # db PROVE KeysUnique'
  <2>1. /\ \A r \in RowIds : Stored(r) => db[r].key # req[c].key
        /\ Inserted(c)
    BY <1>3, CommitEffect DEF Taken
  <2>2. db'[c].key = req[c].key /\ c \in RowIds
    BY <1>3, <2>1, CommitEffect, CommittedRow DEF RowIds
  <2>3. \A r \in RowIds : Stored(r)' /\ r # c => Stored(r) /\ db'[r].key = db[r].key
    BY <1>3, CommitEffect, RowsKept DEF TypeOK, Stored, HoldsTarget
  <2>4. QED
    BY <1>1, <2>1, <2>2, <2>3 DEF KeysUnique
<1>4. QED
  BY <1>2, <1>3, TableUnchanged

(* A lock is taken and kept by a correction of its row only. *)
LEMMA StepLocksOwned == TypeOK /\ IInv /\ [Next]_vars => LocksOwned'
<1> SUFFICES ASSUME TypeOK, IInv, [Next]_vars PROVE LocksOwned'
  OBVIOUS
<1>1. LocksOwned
  BY DEF IInv
<1>2. CASE UNCHANGED vars
  BY <1>1, <1>2 DEF vars, LocksOwned, IsCorrection, Stored
<1>3. ASSUME NEW c \in Calls, Act(c) PROVE LocksOwned'
  <2> SUFFICES ASSUME NEW r \in RowIds, NEW d \in Calls, lock'[r] = d
               PROVE  /\ Stored(r)' /\ IsCorrection(d)' /\ req'[d].target = r
                      /\ pc'[d] \in {"locked", "insert", "flip", "answer", "commit"}
    BY <1>3, StepTypes DEF LocksOwned, TypeOK
  <2>1. d # None
    BY ConstantsAssumption DEF RowIds
  <2>2. CASE lock[r] = d
    <3>1. /\ Stored(r) /\ IsCorrection(d) /\ req[d].target = r
          /\ pc[d] \in {"locked", "insert", "flip", "answer", "commit"}
      BY <1>1, <2>1, <2>2 DEF LocksOwned
    <3>2. Stored(r)' /\ IsCorrection(d)' /\ req'[d].target = r
      BY <3>1, RowsKept, PayloadsFixed DEF IsCorrection
    <3>3. CASE d # c
      BY <1>3, <3>1, <3>2, <3>3, OthersUntouched
    <3>4. CASE d = c
      <4>1. ~HoldsNothing(c)'
        BY <3>4 DEF HoldsNothing
      <4>2. ~Refused(c) /\ ~Replayed(c) /\ ~Abandoned(c) /\ ~Commit(c)
        BY <4>1, RollbackClears DEF Refused, Replayed, Abandoned, Commit, Refuse
      <4>3. QED
        BY <1>3, <3>1, <3>2, <3>4, <4>2, StepShape
           DEF Receive, Moved, Placed, LockTarget, FlipTarget, Deliver, Goto, AnswerWith, TypeOK
    <3>5. QED
      BY <3>3, <3>4
  <2>3. CASE lock[r] # d
    <3>1. d = c
      BY <1>3, <2>3, OthersUntouched
    <3>2. ~HoldsNothing(c)'
      BY <3>1 DEF HoldsNothing
    <3>3. ~Refused(c) /\ ~Replayed(c) /\ ~Abandoned(c) /\ ~Commit(c)
      BY <3>2, RollbackClears DEF Refused, Replayed, Abandoned, Commit, Refuse
    <3>4. LockTarget(c)
      BY <1>3, <2>3, <3>1, <3>3, StepShape
         DEF Receive, Moved, Placed, FlipTarget, Deliver
    <3>5. IsCorrection(c) /\ Stored(req[c].target) /\ r = req[c].target
      BY <2>3, <3>1, <3>4 DEF LockTarget, IInv, Bookkeeping, TypeOK
    <3>6. QED
      BY <3>1, <3>4, <3>5 DEF LockTarget, Goto, TypeOK, Stored, IsCorrection
  <2>4. QED
    BY <2>2, <2>3
<1>4. QED
  BY <1>2, <1>3, StepIsSomeones

(* A judged target stays ACTIVE and locked until its correction is written. *)
LEMMA StepTargetsHeld == TypeOK /\ IInv /\ [Next]_vars => TargetsHeld'
<1> SUFFICES ASSUME TypeOK, IInv, [Next]_vars PROVE TargetsHeld'
  OBVIOUS
<1>1. TargetsHeld
  BY DEF IInv
<1>2. CASE UNCHANGED vars
  BY <1>1, <1>2 DEF vars, TargetsHeld, HoldsTarget, IsCorrection, Stored
<1>3. ASSUME NEW c \in Calls, Act(c) PROVE TargetsHeld'
  <2> SUFFICES ASSUME NEW d \in Calls, pc'[d] \in {"insert", "flip"} PROVE HoldsTarget(d)'
    BY DEF TargetsHeld
  <2>1. ASSUME HoldsTarget(d), ~Commit(d), lock'[req[d].target] = lock[req[d].target]
        PROVE  HoldsTarget(d)'
    BY <2>1, HoldKept DEF HoldsTarget
  <2>2. CASE d # c
    <3>1. pc[d] = pc'[d] /\ HoldsTarget(d)
      BY <1>1, <1>3, <2>2, OthersUntouched DEF TargetsHeld
    <3>2. req[d].target \in RowIds /\ ~Commit(d)
      BY <3>1, HoldKept DEF Commit
    <3>3. QED
      BY <1>3, <2>1, <2>2, <3>1, <3>2, OthersUntouched DEF HoldsTarget
  <2>3. CASE d = c
    <3>1. Moved(c) \/ Placed(c)
      BY <1>3, <2>3, StepShape DEF Receive, Refused, Replayed, Abandoned, LockTarget, FlipTarget,
         Commit, Deliver, Refuse, AnswerWith, Goto, TypeOK
    <3>2. HoldsTarget(c) /\ UNCHANGED lock
      BY <2>3, <3>1 DEF Moved, Placed, AnswerWith, Goto, TypeOK
    <3>3. ~Commit(c)
      BY <3>1 DEF Moved, Placed, Commit
    <3>4. QED
      BY <2>1, <2>3, <3>2, <3>3
  <2>4. QED
    BY <2>2, <2>3
<1>4. QED
  BY <1>2, <1>3, StepIsSomeones

(* Only an insertion changes whose rows are in flight. *)
LEMMA InFlightOrigin ==
  ASSUME TypeOK, IInv, NEW c \in Calls, Act(c), Inserted(c)'
  PROVE  \/ Placed(c) /\ ~Inserted(c)
         \/ /\ Inserted(c) /\ writes'[c][c] = writes[c][c]
            /\ FlipTarget(c) \/ (Moved(c) /\ pc[c] = "answer")
<1>1. c \in RowIds
  BY DEF RowIds
<1>2. ~HoldsNothing(c)'
  BY <1>1 DEF HoldsNothing, Inserted
<1>3. ~Refused(c) /\ ~Replayed(c) /\ ~Abandoned(c) /\ ~Commit(c)
  BY <1>2, RollbackClears DEF Refused, Replayed, Abandoned, Commit, Refuse
<1>4. pc[c] \in {"idle", "received", "service", "raced", "locking", "locked", "insert", "reply", "done"}
        => ~Inserted(c)
  BY DEF IInv, RowsInFlight
<1>5. CASE FlipTarget(c)
  <2>1. c # req[c].target /\ Inserted(c)
    <3>1. Inserted(c) /\ HoldsTarget(c)
      BY <1>5 DEF FlipTarget, IInv, AnswerReady, TargetsHeld
    <3>2. Stored(c) => pc[c] \in {"reply", "done"}
      BY DEF IInv, RowsFaithful
    <3>3. QED
      BY <1>5, <3>1, <3>2 DEF FlipTarget, HoldsTarget
  <2>2. writes'[c][c] = writes[c][c]
    BY <1>1, <1>5, <2>1 DEF FlipTarget, TypeOK
  <2>3. QED
    BY <1>5, <2>1, <2>2
<1>6. QED
  BY <1>1, <1>3, <1>4, <1>5, StepShape
     DEF Receive, Moved, Placed, LockTarget, Deliver, Inserted

(* A row in flight stays the only one under its key. *)
LEMMA StepRowsInFlight == TypeOK /\ IInv /\ [Next]_vars => RowsInFlight'
<1> SUFFICES ASSUME TypeOK, IInv, [Next]_vars, NEW d \in Calls, Inserted(d)'
             PROVE  /\ pc'[d] \in {"flip", "answer", "commit"}
                    /\ writes'[d][d] = OwnRow(d)'
                    /\ Taken(d)' = {}
                    /\ ~KeyInFlight(d)'
  BY DEF RowsInFlight
<1>1. CASE UNCHANGED vars
  <2>1. Inserted(d)
    BY <1>1 DEF vars, Inserted
  <2>2. /\ pc[d] \in {"flip", "answer", "commit"} /\ writes[d][d] = OwnRow(d)
        /\ Taken(d) = {} /\ ~KeyInFlight(d)
    BY <2>1 DEF IInv, RowsInFlight
  <2>3. OwnRow(d)' = OwnRow(d)
    BY <2>1, InsertedFacts, OwnRowKept
  <2>4. QED
    BY <1>1, <2>2, <2>3 DEF vars, Taken, Stored, KeyInFlight
<1>2. ASSUME NEW c \in Calls, Act(c)
      PROVE  /\ pc'[d] \in {"flip", "answer", "commit"}
             /\ writes'[d][d] = OwnRow(d)'
             /\ Taken(d)' = {}
             /\ ~KeyInFlight(d)'
  <2>1. CASE ~Inserted(d)
    <3>1. d = c
      BY <1>2, <2>1, OthersUntouched DEF Inserted
    <3>2. Placed(c)
      BY <1>2, <2>1, <3>1, InFlightOrigin
    <3>3. /\ req[c] # None /\ (IsCorrection(c) => HoldsTarget(c)) /\ req' = req /\ db' = db
      BY <3>2 DEF Placed, AnswerWith, HoldsTarget, IsCorrection, IsRecord
    <3>4. OwnRow(c)' = OwnRow(c) /\ c \in RowIds
      BY <3>3, OwnRowKept DEF RowIds
    <3>5. pc'[c] \in {"flip", "answer", "commit"} /\ writes'[c][c] = OwnRow(c)
      BY <3>2, <3>4 DEF Placed, AnswerWith, Goto, TypeOK
    <3>6. Taken(c)' = {}
      BY <3>2, <3>3 DEF Placed, Taken, Stored
    <3>7. ~KeyInFlight(c)'
      BY <1>2, <3>2, <3>3, OthersUntouched DEF Placed, KeyInFlight
    <3>8. QED
      BY <3>1, <3>4, <3>5, <3>6, <3>7
  <2>2. CASE Inserted(d)
    <3>1. /\ pc[d] \in {"flip", "answer", "commit"} /\ writes[d][d] = OwnRow(d)
          /\ Taken(d) = {} /\ ~KeyInFlight(d)
          /\ req[d] # None /\ OwnRow(d).key = req[d].key /\ req'[d] = req[d]
      BY <2>2, InsertedFacts, PayloadsFixed DEF IInv, RowsInFlight
    <3>2. OwnRow(d)' = OwnRow(d)
      BY <2>2, InsertedFacts, OwnRowKept
    <3>3. pc'[d] \in {"flip", "answer", "commit"} /\ writes'[d][d] = writes[d][d]
      <4>1. CASE d # c
        BY <1>2, <3>1, <4>1, OthersUntouched
      <4>2. CASE d = c
        BY <1>2, <2>2, <3>1, <4>2, InFlightOrigin DEF FlipTarget, Moved, AnswerWith, Goto, TypeOK
      <4>3. QED
        BY <4>1, <4>2
    <3>4. ASSUME NEW x \in Calls \ {d}, Inserted(x)
          PROVE  req[x].key # req[d].key /\ req'[x] = req[x]
      BY <2>2, <3>1, <3>4, InsertedFacts, PayloadsFixed DEF Inserted, KeyInFlight
    <3>5. Taken(d)' = {}
      <4>1. SUFFICES ASSUME NEW r \in RowIds, Stored(r)', db'[r].key = req[d].key PROVE FALSE
        BY <3>1 DEF Taken
      <4>2. CASE Stored(r)
        BY <3>1, <4>1, <4>2, RowsKept DEF Taken
      <4>3. CASE ~Stored(r)
        <5>1. r \in Calls /\ Commit(r) /\ Inserted(r)
          BY <4>1, <4>3, RowsAppear
        <5>2. db'[r].key = req[r].key
          BY <5>1, CommittedRow
        <5>3. r # d
          <6>1. \A e \in Calls : Commit(e) => ~Inserted(e)'
            BY RollbackClears DEF Commit, HoldsNothing, Inserted, RowIds
          <6>2. QED
            BY <5>1, <6>1
        <5>4. QED
          BY <3>4, <4>1, <5>1, <5>2, <5>3
      <4>4. QED
        BY <4>2, <4>3
    <3>6. ~KeyInFlight(d)'
      <4>1. SUFFICES ASSUME NEW x \in Calls \ {d}, Inserted(x)', writes'[x][x].key = req[d].key
                     PROVE  FALSE
        BY <3>1 DEF KeyInFlight, Inserted
      <4>2. CASE writes'[x][x] = writes[x][x]
        BY <3>1, <4>1, <4>2 DEF KeyInFlight, Inserted
      <4>3. CASE writes'[x][x] # writes[x][x]
        <5>1. x = c
          BY <1>2, <4>3, OthersUntouched
        <5>2. Placed(c)
          BY <1>2, <4>1, <4>3, <5>1, InFlightOrigin
        <5>3. writes'[c][c].key = req[c].key
          <6>1. IsCorrection(c) => HoldsTarget(c)
            BY <5>2 DEF Placed, IsCorrection, IsRecord
          <6>2. req[c] # None
            BY <5>2 DEF Placed, IsRecord, HoldsTarget, IsCorrection
          <6>3. OwnRow(c).key = req[c].key
            BY <6>1, <6>2, OwnRowFields DEF HoldsTarget
          <6>4. QED
            BY <5>2, <6>3 DEF Placed, TypeOK, RowIds
        <5>4. KeyInFlight(c)
          BY <2>2, <3>1, <4>1, <5>1, <5>3 DEF KeyInFlight, Inserted
        <5>5. QED
          BY <5>2, <5>4 DEF Placed
      <4>4. QED
        BY <4>2, <4>3
    <3>7. QED
      BY <3>1, <3>2, <3>3, <3>5, <3>6
  <2>3. QED
    BY <2>1, <2>2
<1>3. QED
  BY <1>1, <1>2, StepIsSomeones

(* The one other row a transaction writes is its target. *)
LEMMA StepOtherWrites == TypeOK /\ IInv /\ [Next]_vars => OtherWrites'
<1> SUFFICES ASSUME TypeOK, IInv, [Next]_vars, NEW d \in Calls, NEW r \in RowIds,
                    writes'[d][r] # NoRow, r # d
             PROVE  /\ Inserted(d)' /\ pc'[d] \in {"answer", "commit"} /\ r = req'[d].target
                    /\ HoldsTarget(d)' /\ writes'[d][r] = Superseded(db'[r], d)
  BY DEF OtherWrites, Superseded
<1>1. ASSUME writes[d][r] # NoRow, writes'[d][r] = writes[d][r], Inserted(d)', ~Commit(d),
             pc'[d] \in {"answer", "commit"}, lock'[r] = d
      PROVE  /\ r = req'[d].target /\ HoldsTarget(d)' /\ writes'[d][r] = Superseded(db'[r], d)
  <2>1. r = req[d].target /\ HoldsTarget(d) /\ writes[d][r] = Superseded(db[r], d)
    BY <1>1 DEF IInv, OtherWrites
  <2>2. QED
    BY <1>1, <2>1, HoldKept
<1>2. CASE writes[d][r] # NoRow
  <2>1. /\ Inserted(d) /\ pc[d] \in {"answer", "commit"} /\ r = req[d].target
        /\ HoldsTarget(d) /\ lock[r] = d
    BY <1>2 DEF IInv, OtherWrites, HoldsTarget
  <2>2. CASE UNCHANGED vars
    BY <1>1, <1>2, <2>1, <2>2 DEF vars, Inserted, Commit, Goto, TypeOK
  <2>3. ASSUME NEW c \in Calls \ {d}, Act(c)
        PROVE  /\ writes'[d] = writes[d] /\ pc'[d] = pc[d] /\ lock'[r] = d /\ ~Commit(d)
    <3>1. /\ writes'[d] = writes[d] /\ pc'[d] = pc[d] /\ lock'[r] = d
      BY <2>1, <2>3, OthersUntouched
    <3>2. ~Commit(d)
      BY <2>1, <3>1 DEF Commit, Goto, TypeOK
    <3>3. QED
      BY <3>1, <3>2
  <2>4. CASE Act(d)
    <3>1. Moved(d) /\ pc[d] = "answer"
      <4>1. ~HoldsNothing(d)'
        BY DEF HoldsNothing
      <4>2. ~Refused(d) /\ ~Replayed(d) /\ ~Abandoned(d) /\ ~Commit(d)
        BY <4>1, RollbackClears DEF Refused, Replayed, Abandoned, Commit, Refuse
      <4>3. QED
        BY <2>1, <2>4, <4>2, StepShape DEF Receive, Moved, Placed, LockTarget, FlipTarget, Deliver
    <3>2. /\ UNCHANGED <<writes, lock>> /\ pc'[d] = "commit" /\ ~Commit(d)
      BY <3>1 DEF Moved, Goto, TypeOK, Commit
    <3>3. QED
      BY <1>1, <1>2, <2>1, <3>2 DEF Inserted
  <2>5. QED
    BY <1>1, <1>2, <2>1, <2>2, <2>3, <2>4, StepIsSomeones DEF Inserted
<1>3. CASE writes[d][r] = NoRow
  <2>1. Act(d)
    <3>1. ~UNCHANGED vars
      BY <1>3 DEF vars
    <3>2. \A c \in Calls \ {d} : ~Act(c)
      BY <1>3, OthersUntouched
    <3>3. QED
      BY <3>1, <3>2, StepIsSomeones
  <2>2. FlipTarget(d)
    <3>1. ~HoldsNothing(d)'
      BY DEF HoldsNothing
    <3>2. ~Refused(d) /\ ~Replayed(d) /\ ~Abandoned(d) /\ ~Commit(d)
      BY <3>1, RollbackClears DEF Refused, Replayed, Abandoned, Commit, Refuse
    <3>3. Placed(d) => writes'[d][r] = NoRow
      BY <1>3 DEF Placed, TypeOK
    <3>4. QED
      BY <1>3, <2>1, <3>2, <3>3, StepShape DEF Receive, Moved, LockTarget, Deliver
  <2>3. Inserted(d) /\ HoldsTarget(d) /\ ~Commit(d) /\ ~Stored(d)
    BY <2>2 DEF FlipTarget, IInv, AnswerReady, TargetsHeld, Commit, RowsFaithful
  <2>4. PICK t \in RowIds : t = req[d].target
    BY <2>3, HoldKept
  <2>5. t # d /\ d \in RowIds
    BY <2>3, <2>4 DEF HoldsTarget, RowIds
  <2>6. /\ writes' = [writes EXCEPT ![d][t] = Superseded(db[t], d)]
        /\ UNCHANGED <<lock, db, req>> /\ pc'[d] = "answer"
    BY <2>2, <2>4 DEF FlipTarget, AnswerWith, Goto, TypeOK
  <2>7. r = t /\ writes'[d][t] = Superseded(db[t], d)
    BY <1>3, <2>4, <2>5, <2>6 DEF TypeOK
  <2>8. Inserted(d)'
    BY <2>3, <2>5, <2>6 DEF Inserted, TypeOK
  <2>9. HoldsTarget(d)'
    BY <2>3, <2>6, HoldKept DEF HoldsTarget
  <2>10. QED
    BY <2>4, <2>6, <2>7, <2>8, <2>9
<1>4. QED
  BY <1>2, <1>3

(* The row a request will answer with is stored, or its own. *)
LEMMA StepAnswerReady == TypeOK /\ IInv /\ [Next]_vars => AnswerReady'
<1> SUFFICES ASSUME TypeOK, IInv, [Next]_vars, NEW d \in Calls
             PROVE  /\ pc'[d] = "flip" => Inserted(d)'
                    /\ pc'[d] \in {"answer", "commit"} =>
                         \/ ~Inserted(d)' /\ result'[d] \in Taken(d)' /\ IsCheapReplay(d, result[d])'
                         \/ /\ Inserted(d)' /\ result'[d] = d
                            /\ IsCorrection(d)' => HoldsTarget(d)' /\ writes'[d][req'[d].target] # NoRow
  BY DEF AnswerReady
<1> DEFINE Goal == /\ pc'[d] = "flip" => Inserted(d)'
                   /\ pc'[d] \in {"answer", "commit"} =>
                         \/ ~Inserted(d)' /\ result'[d] \in Taken(d)' /\ IsCheapReplay(d, result[d])'
                         \/ /\ Inserted(d)' /\ result'[d] = d
                            /\ IsCorrection(d)' => HoldsTarget(d)' /\ writes'[d][req'[d].target] # NoRow
<1>1. AnswerReady
  BY DEF IInv
(* What was ready stays ready while the writes, the answer and the lock stay. *)
<1>2. ASSUME pc[d] \in {"flip", "answer", "commit"}, ~Commit(d),
             writes'[d] = writes[d], result'[d] = result[d],
             \A r \in RowIds : lock[r] = d => lock'[r] = d,
             pc'[d] = pc[d] \/ (pc[d] = "answer" /\ pc'[d] = "commit")
      PROVE  Goal
  <2>1. req[d] # None /\ req'[d] = req[d]
    BY <1>2, PayloadsFixed DEF IInv, Bookkeeping
  <2>2. CASE pc[d] = "flip"
    BY <1>1, <1>2, <2>2 DEF AnswerReady, Inserted
  <2>3. CASE /\ pc[d] # "flip" /\ ~Inserted(d)
             /\ result[d] \in Taken(d) /\ IsCheapReplay(d, result[d])
    <3>1. PICK e \in RowIds : e = result[d] /\ Stored(e)
      BY <2>3 DEF Taken
    <3>2. e \in Taken(d)' /\ IsCheapReplay(d, e)'
      BY <2>1, <2>3, <3>1, FactsKept
    <3>3. IsCheapReplay(d, result[d])' /\ result'[d] \in Taken(d)'
      BY <1>2, <3>1, <3>2 DEF IsCheapReplay, Supersedes
    <3>4. ~Inserted(d)' /\ pc'[d] # "flip"
      BY <1>2, <2>3 DEF Inserted
    <3>5. QED
      BY <3>3, <3>4
  <2>4. CASE pc[d] # "flip" /\ Inserted(d) /\ result[d] = d
             /\ (IsCorrection(d) => HoldsTarget(d) /\ writes[d][req[d].target] # NoRow)
    <3>1. IsCorrection(d) => HoldsTarget(d)'
      BY <1>2, <2>4, HoldKept DEF HoldsTarget
    <3>2. QED
      BY <1>2, <2>1, <2>4, <3>1 DEF Inserted, IsCorrection
  <2>5. QED
    BY <1>1, <1>2, <2>2, <2>3, <2>4 DEF AnswerReady
<1> HIDE DEF Goal
<1>3. ASSUME UNCHANGED vars PROVE Goal
  <2>1. /\ ~Commit(d) /\ pc'[d] = pc[d] /\ writes'[d] = writes[d] /\ result'[d] = result[d]
        /\ \A r \in RowIds : lock[r] = d => lock'[r] = d
    BY <1>3 DEF vars, Commit, Goto, TypeOK
  <2>2. CASE pc[d] \in {"flip", "answer", "commit"}
    BY <1>2, <2>1, <2>2
  <2>3. QED
    BY <2>1, <2>2 DEF Goal
<1>4. ASSUME NEW c \in Calls \ {d}, Act(c) PROVE Goal
  <2>1. /\ writes'[d] = writes[d] /\ pc'[d] = pc[d] /\ result'[d] = result[d]
        /\ \A r \in RowIds : lock[r] = d => lock'[r] = d
    BY <1>4, OthersUntouched
  <2>2. ~Commit(d)
    BY <2>1 DEF Commit, Goto, TypeOK
  <2>3. CASE pc[d] \in {"flip", "answer", "commit"}
    BY <1>2, <2>1, <2>2, <2>3
  <2>4. QED
    BY <2>1, <2>3 DEF Goal
<1> USE DEF Goal
<1>5. CASE Act(d)
  <2>1. CASE Replayed(d)
    <3>1. PICK e \in Taken(d) : IsCheapReplay(d, e) /\ AnswerWith(d, e) /\ HoldsNothing(d)'
                                /\ pc[d] \in {"received", "service", "raced", "locked"}
      BY <2>1 DEF Replayed
    <3>2. /\ pc'[d] = "answer" /\ result'[d] = e /\ ~Inserted(d)' /\ UNCHANGED <<db, req>>
      BY <3>1 DEF AnswerWith, Goto, HoldsNothing, Inserted, RowIds, TypeOK
    <3>3. e \in Taken(d)' /\ IsCheapReplay(d, result[d])'
      BY <3>1, <3>2 DEF Taken, Stored, IsCheapReplay, Supersedes
    <3>4. QED
      BY <3>2, <3>3
  <2>2. CASE Placed(d)
    <3>1. /\ writes'[d][d] = OwnRow(d)
          /\ (pc[d] = "service" /\ IsRecord(d) /\ result'[d] = d /\ pc'[d] = "answer" /\ req' = req)
             \/ pc'[d] = "flip"
      BY <2>2 DEF Placed, AnswerWith, Goto, TypeOK, RowIds
    <3>2. OwnRow(d) # NoRow
      BY <2>2, OwnRowFields DEF Placed, IsRecord, IsCorrection, HoldsTarget
    <3>3. QED
      BY <3>1, <3>2 DEF Inserted, IsRecord, IsCorrection
  <2>3. CASE FlipTarget(d)
    <3>1. Inserted(d) /\ HoldsTarget(d) /\ ~Commit(d) /\ ~Stored(d)
      BY <2>3 DEF FlipTarget, IInv, AnswerReady, TargetsHeld, Commit, RowsFaithful
    <3>2. PICK t \in RowIds \ {d} : t = req[d].target
      BY <3>1, HoldKept DEF HoldsTarget
    <3>3. /\ writes' = [writes EXCEPT ![d][t] = Superseded(db[t], d)]
          /\ UNCHANGED <<lock, db, req>> /\ pc'[d] = "answer" /\ result'[d] = d
      BY <2>3, <3>2 DEF FlipTarget, AnswerWith, Goto, TypeOK
    <3>4. writes'[d][d] = writes[d][d] /\ writes'[d][t] = Superseded(db[t], d)
      BY <3>2, <3>3 DEF TypeOK, RowIds
    <3>5. Superseded(db[t], d) # NoRow
      BY <3>1, <3>2, RowFields, SupersededType, ConstantsAssumption DEF HoldsTarget
    <3>6. HoldsTarget(d)'
      BY <3>1, <3>3, HoldKept DEF HoldsTarget
    <3>7. QED
      BY <3>1, <3>2, <3>3, <3>4, <3>5, <3>6 DEF Inserted
  <2>4. CASE Moved(d)
    <3>1. CASE pc[d] = "answer"
      <4>1. pc'[d] = "commit" /\ UNCHANGED <<writes, result, lock>> /\ ~Commit(d)
        BY <2>4, <3>1 DEF Moved, Goto, TypeOK, Commit
      <4>2. QED
        BY <1>2, <3>1, <4>1
    <3>2. CASE pc[d] # "answer"
      BY <2>4, <3>2 DEF Moved, Goto, TypeOK
    <3>3. QED
      BY <3>1, <3>2
  <2>5. Receive(d) \/ Refused(d) \/ Abandoned(d) \/ LockTarget(d) \/ Commit(d) \/ Deliver(d)
          => pc'[d] \in {"received", "done", "raced", "locked", "reply"}
    BY DEF Receive, Refused, Abandoned, LockTarget, Commit, Deliver, Refuse, Goto, TypeOK
  <2>6. QED
    BY <1>5, <2>1, <2>2, <2>3, <2>4, <2>5, StepShape
<1>6. QED
  BY <1>3, <1>4, <1>5, StepIsSomeones

(* A committed row goes on saying what its request asked for. *)
LEMMA StepRowsFaithful == TypeOK /\ IInv /\ [Next]_vars => RowsFaithful'
<1> SUFFICES ASSUME TypeOK, IInv, [Next]_vars, NEW d \in Calls, Stored(d)'
             PROVE  /\ pc'[d] \in {"reply", "done"}
                    /\ code'[d] \in {"pending", "ok", "lost"}
                    /\ db'[d].key = req'[d].key
                    /\ IsReplay(d, d)'
                    /\ IsCorrection(d)' => db'[req'[d].target].actor = db'[d].actor
  BY DEF RowsFaithful
<1>1. d \in RowIds
  BY DEF RowIds
<1>2. CASE Stored(d)
  <2>1. /\ pc[d] \in {"reply", "done"} /\ code[d] \in {"pending", "ok", "lost"}
        /\ db[d].key = req[d].key /\ IsReplay(d, d) /\ req[d] # None
        /\ IsCorrection(d) => db[req[d].target].actor = db[d].actor
    BY <1>2 DEF IInv, RowsFaithful, Bookkeeping
  <2>2. req'[d] = req[d] /\ db'[d].key = db[d].key /\ db'[d].actor = db[d].actor /\ IsReplay(d, d)'
    BY <1>1, <1>2, <2>1, PayloadsFixed, RowsKept, FactsKept
  <2>3. IsCorrection(d)' => db'[req'[d].target].actor = db'[d].actor
    <3>1. SUFFICES ASSUME IsCorrection(d) PROVE db'[req[d].target].actor = db[d].actor
      BY <2>2 DEF IsCorrection
    <3>2. PICK t \in RowIds : t = req[d].target
      BY <3>1, RequestFields DEF IsCorrection, TypeOK
    <3>3. Stored(t)
      BY <2>1, <3>1, <3>2, RequestFields DEF IsReplay, Supersedes, IsCorrection
    <3>4. QED
      BY <2>1, <3>1, <3>2, <3>3, RowsKept
  <2>4. pc'[d] \in {"reply", "done"} /\ code'[d] \in {"pending", "ok", "lost"}
    <3>1. CASE UNCHANGED vars
      BY <2>1, <3>1 DEF vars
    <3>2. ASSUME NEW c \in Calls \ {d}, Act(c) PROVE pc'[d] = pc[d] /\ code'[d] = code[d]
      BY <3>2, OthersUntouched
    <3>3. CASE Act(d)
      BY <2>1, <3>3 DEF Act, Progress, Receive, Invalid, ShortCircuit, InsertRecord, ResolveRace,
         FirstKeyCheck, LockTarget, JudgeTarget, InsertCorrection, FlipTarget, ReadBalance, Commit,
         Deliver, Fail, Refuse, Goto, TypeOK
    <3>4. QED
      BY <2>1, <3>1, <3>2, <3>3, StepIsSomeones
  <2>5. QED
    BY <2>1, <2>2, <2>3, <2>4
<1>3. CASE ~Stored(d)
  <2>1. Commit(d) /\ Inserted(d)
    BY <1>1, <1>3, RowsAppear
  <2>2. pc'[d] = "reply" /\ code'[d] = "pending" /\ req' = req
    BY <2>1 DEF Commit, Goto, TypeOK, IInv, Bookkeeping
  <2>3. QED
    BY <2>1, <2>2, CommittedRow DEF IsCorrection
<1>4. QED
  BY <1>2, <1>3

(* A superseded row goes on naming the correction that replaced it. *)
LEMMA StepSuccessorsReal == TypeOK /\ IInv /\ [Next]_vars => SuccessorsReal'
<1> SUFFICES ASSUME TypeOK, IInv, [Next]_vars, NEW r \in RowIds, Stored(r)'
             PROVE  \/ db'[r].status = "ACTIVE" /\ db'[r].succ = None
                    \/ /\ db'[r].status = "SUPERSEDED"
                       /\ db'[r].succ \in Calls
                       /\ Stored(db[r].succ)'
                       /\ IsCorrection(db[r].succ)'
                       /\ req'[db'[r].succ].target = r
  BY DEF SuccessorsReal
<1>1. CASE ~Stored(r)
  BY <1>1, RowsAppear, CommittedRow
<1>2. CASE Stored(r) /\ db'[r] = db[r]
  <2>1. CASE db[r].status = "ACTIVE" /\ db[r].succ = None
    BY <1>2, <2>1
  <2>2. CASE /\ db[r].status = "SUPERSEDED" /\ db[r].succ \in Calls /\ Stored(db[r].succ)
             /\ IsCorrection(db[r].succ) /\ req[db[r].succ].target = r
    <3>1. PICK s \in Calls : s = db[r].succ
      BY <2>2
    <3>2. s \in RowIds /\ Stored(s) /\ IsCorrection(s) /\ req[s].target = r
      BY <2>2, <3>1 DEF RowIds
    <3>3. Stored(s)' /\ req'[s] = req[s]
      BY <3>2, RowsKept, PayloadsFixed DEF IsCorrection
    <3>4. QED
      BY <1>2, <2>2, <3>1, <3>2, <3>3 DEF IsCorrection, Stored
  <2>3. QED
    BY <1>2, <2>1, <2>2 DEF IInv, SuccessorsReal
<1>3. ASSUME NEW c \in Calls, Stored(r), Commit(c), Inserted(c), HoldsTarget(c), r = req[c].target,
             db'[r] = Superseded(db[r], c)
      PROVE  /\ db'[r].status = "SUPERSEDED" /\ db'[r].succ = c
             /\ Stored(c)' /\ IsCorrection(c)' /\ req'[c].target = r
  <2>1. db'[r].status = "SUPERSEDED" /\ db'[r].succ = c
    BY <1>3, RowFields, SupersededType
  <2>2. Stored(c)' /\ req' = req
    BY <1>3, CommittedRow DEF Commit
  <2>3. QED
    BY <1>3, <2>1, <2>2 DEF HoldsTarget, IsCorrection
<1>4. QED
  BY <1>1, <1>2, <1>3, RowsKept DEF Stored, IsCorrection

(* A reply that has been decided goes on being right. *)
LEMMA StepRepliesRight == TypeOK /\ IInv /\ [Next]_vars => RepliesRight'
<1> SUFFICES ASSUME TypeOK, IInv, [Next]_vars, NEW d \in Calls, pc'[d] = "reply" \/ code'[d] = "ok"
             PROVE  result'[d] \in Taken(d)' /\ IsCheapReplay(d, result[d])'
  BY DEF RepliesRight
<1>1. ASSUME result[d] \in Taken(d), IsCheapReplay(d, result[d]), result'[d] = result[d], req[d] # None
      PROVE  result'[d] \in Taken(d)' /\ IsCheapReplay(d, result[d])'
  <2>1. PICK e \in RowIds : e = result[d] /\ Stored(e)
    BY <1>1 DEF Taken
  <2>2. e \in Taken(d)' /\ IsCheapReplay(d, e)'
    BY <1>1, <2>1, FactsKept
  <2>3. QED
    BY <1>1, <2>1, <2>2 DEF IsCheapReplay, Supersedes
<1>2. pc[d] = "reply" \/ code[d] = "ok"
        => result[d] \in Taken(d) /\ IsCheapReplay(d, result[d]) /\ req[d] # None
  BY DEF IInv, RepliesRight, Bookkeeping
<1>3. CASE UNCHANGED vars
  BY <1>1, <1>2, <1>3 DEF vars
<1>4. ASSUME NEW c \in Calls \ {d}, Act(c)
      PROVE  pc'[d] = pc[d] /\ code'[d] = code[d] /\ result'[d] = result[d]
  BY <1>4, OthersUntouched
<1>5. CASE Act(d)
  <2>1. code[d] # "ok"
    BY <1>5 DEF IInv, Bookkeeping, Act, Progress, Receive, Invalid, ShortCircuit, InsertRecord,
       ResolveRace, FirstKeyCheck, LockTarget, JudgeTarget, InsertCorrection, FlipTarget, ReadBalance,
       Commit, Deliver, Fail
  <2>2. Commit(d) \/ Deliver(d)
    BY <1>5, <2>1, StepShape DEF Receive, Refused, Replayed, Moved, Abandoned, Placed, LockTarget,
       FlipTarget, Refuse, AnswerWith, Goto, TypeOK
  <2>3. CASE Deliver(d)
    BY <1>1, <1>2, <2>3 DEF Deliver
  <2>4. CASE Commit(d) /\ ~Inserted(d)
    <3>1. result[d] \in Taken(d) /\ IsCheapReplay(d, result[d]) /\ req[d] # None
      BY <2>4 DEF Commit, IInv, AnswerReady, Bookkeeping
    <3>2. QED
      BY <1>1, <2>4, <3>1 DEF Commit
  <2>5. CASE Commit(d) /\ Inserted(d)
    <3>1. result'[d] = d /\ req' = req
      BY <2>5 DEF Commit, IInv, AnswerReady
    <3>2. d \in Taken(d)' /\ IsReplay(d, d)'
      BY <2>5, <3>1, CommittedRow DEF Taken, RowIds
    <3>3. IsCheapReplay(d, d)'
      BY <3>2 DEF IsReplay, IsCheapReplay, SamePayload
    <3>4. QED
      BY <3>1, <3>2, <3>3 DEF IsCheapReplay, Supersedes
  <2>6. QED
    BY <2>2, <2>3, <2>4, <2>5
<1>6. QED
  BY <1>1, <1>2, <1>3, <1>4, <1>5, StepIsSomeones

(* What a refusal rested on does not change. *)
LEMMA StepRefusalsStand == TypeOK /\ IInv /\ [Next]_vars => RefusalsStand'
<1> DEFINE Stands(d) ==
      /\ code[d] = "duplicate" => Taken(d) # {}
      /\ code[d] = "not_active" =>
           IsCorrection(d) /\ Stored(req[d].target) /\ db[req[d].target].status = "SUPERSEDED"
      /\ code[d] = "not_allowed" =>
           IsCorrection(d) /\ Stored(req[d].target) /\ db[req[d].target].actor # req[d].actor
<1> SUFFICES ASSUME TypeOK, IInv, [Next]_vars, NEW d \in Calls PROVE Stands(d)'
  BY DEF RefusalsStand
<1>1. Stands(d)
  BY DEF IInv, RefusalsStand
<1>2. ASSUME code'[d] = code[d] PROVE Stands(d)'
  <2>1. CASE code[d] = "duplicate"
    <3>1. PICK e \in RowIds : e \in Taken(d)
      BY <1>1, <2>1 DEF Taken
    <3>2. req[d] # None
      BY <2>1 DEF IInv, Bookkeeping
    <3>3. e \in Taken(d)'
      BY <3>1, <3>2, FactsKept
    <3>4. QED
      BY <1>2, <2>1, <3>3
  <2>2. CASE code[d] \in {"not_active", "not_allowed"}
    <3>1. IsCorrection(d) /\ req'[d] = req[d]
      BY <1>1, <2>2, PayloadsFixed DEF IsCorrection
    <3>2. PICK t \in RowIds : t = req[d].target
      BY <3>1, RequestFields DEF IsCorrection, TypeOK
    <3>3. Stored(t) /\ Stored(t)' /\ db'[t].actor = db[t].actor
      BY <1>1, <2>2, <3>2, RowsKept
    <3>4. db[t].status = "SUPERSEDED" => db'[t].status = "SUPERSEDED"
      BY <3>3, RowsKept
    <3>5. QED
      BY <1>1, <1>2, <2>2, <3>1, <3>2, <3>3, <3>4 DEF IsCorrection
  <2>3. QED
    BY <1>2, <2>1, <2>2
<1>3. CASE Refused(d)
  <2>1. PICK why \in Codes \ {"pending", "ok"} :
          /\ Refuse(d, why)
          /\ why = "duplicate" => Taken(d) # {}
          /\ why \in {"not_active", "not_allowed"} => IsCorrection(d) /\ Stored(req[d].target)
          /\ why = "not_active" => db[req[d].target].status = "SUPERSEDED"
          /\ why = "not_allowed" => db[req[d].target].actor # req[d].actor
    BY <1>3 DEF Refused
  <2>2. code'[d] = why /\ db' = db /\ req' = req
    BY <2>1 DEF Refuse, TypeOK
  <2>3. QED
    BY <2>1, <2>2 DEF Taken, Stored, IsCorrection
<1>4. CASE Act(d) /\ ~Refused(d)
  <2>1. CASE Deliver(d)
    BY <2>1 DEF Deliver, TypeOK
  <2>2. CASE ~Deliver(d)
    <3>1. code'[d] = code[d]
      BY <1>4, <2>2, StepShape DEF Receive, Replayed, Moved, Abandoned, Placed, LockTarget, FlipTarget,
         Commit, AnswerWith
    <3>2. QED
      BY <1>2, <3>1
  <2>3. QED
    BY <2>1, <2>2
<1>5. ASSUME NEW c \in Calls \ {d}, Act(c) PROVE code'[d] = code[d]
  BY <1>5, OthersUntouched
<1>6. UNCHANGED vars => code'[d] = code[d]
  BY DEF vars
<1>7. QED
  BY <1>2, <1>3, <1>4, <1>5, <1>6, StepIsSomeones

(* The rows the API started with stay. *)
LEMMA StepSeedsKept == TypeOK /\ IInv /\ [Next]_vars => SeedsKept'
<1> SUFFICES ASSUME TypeOK, IInv, [Next]_vars PROVE SeedsKept'
  OBVIOUS
<1>1. \A s \in Seeds : Stored(s)'
  BY RowsKept DEF IInv, SeedsKept, RowIds
<1>2. ASSUME NEW d \in Calls, pc'[d] = "locked"
      PROVE  lock'[req'[d].target] = d \/ req'[d].target \notin Seeds
  <2>1. CASE pc[d] = "locked"
    <3>1. /\ lock[req[d].target] = d \/ req[d].target \notin Seeds
          /\ req'[d] = req[d] /\ IsCorrection(d)
      BY <2>1, PayloadsFixed DEF IInv, SeedsKept, Bookkeeping
    <3>2. req[d].target \in RowIds
      BY <3>1, RequestFields DEF IsCorrection, TypeOK
    <3>3. ASSUME NEW c \in Calls \ {d}, Act(c) PROVE \A r \in RowIds : lock[r] = d => lock'[r] = d
      BY <3>3, OthersUntouched
    <3>4. ~Act(d)
      BY <1>2, <2>1, StepShape DEF Receive, Refused, Replayed, Moved, Abandoned, Placed, LockTarget,
         FlipTarget, Commit, Deliver, Refuse, AnswerWith, Goto, TypeOK
    <3>5. QED
      BY <3>1, <3>2, <3>3, <3>4, StepIsSomeones DEF vars
  <2>2. CASE pc[d] # "locked"
    <3>1. Act(d)
      <4>1. ~UNCHANGED vars
        BY <1>2, <2>2 DEF vars
      <4>2. \A c \in Calls \ {d} : ~Act(c)
        BY <1>2, <2>2, OthersUntouched
      <4>3. QED
        BY <4>1, <4>2, StepIsSomeones
    <3>2. LockTarget(d)
      BY <1>2, <2>2, <3>1, StepShape DEF Receive, Refused, Replayed, Moved, Abandoned, Placed,
         FlipTarget, Commit, Deliver, Refuse, AnswerWith, Goto, TypeOK
    <3>3. IsCorrection(d) /\ req' = req
      BY <3>2 DEF LockTarget, IInv, Bookkeeping
    <3>4. PICK t \in RowIds : t = req[d].target
      BY <3>3, RequestFields DEF IsCorrection, TypeOK
    <3>5. QED
      BY <3>2, <3>3, <3>4 DEF LockTarget, TypeOK, IInv, SeedsKept
  <2>3. QED
    BY <2>1, <2>2
<1>3. QED
  BY <1>1, <1>2 DEF SeedsKept

(* A request whose twin has committed finds its row at every check it makes. *)
LEMMA StepRetryNeverRefused == TypeOK /\ IInv /\ [Next]_vars => RetryNeverRefused'
<1> SUFFICES ASSUME TypeOK, IInv, [Next]_vars, NEW a \in Calls, NEW b \in Calls,
                    req'[a] = req'[b], Stored(a)',
                    code'[b] \in {"duplicate", "not_active", "not_allowed"}
             PROVE  FALSE
  BY DEF RetryNeverRefused
<1>1. Bookkeeping' /\ RowsFaithful' /\ RefusalsStand' /\ a \in RowIds
  BY StepBookkeeping, StepRowsFaithful, StepRefusalsStand DEF RowIds
(* The row of a was there before this step, or is committed by it. *)
<1>2. CASE Stored(a)
  <2>1. req[a] # None /\ req'[a] = req[a]
    BY <1>2, PayloadsFixed DEF IInv, RowsFaithful, Bookkeeping
  <2>2. b # a /\ req[b] # None /\ req[b] = req[a]
    <3>1. b # a
      BY <1>1 DEF RowsFaithful
    <3>2. req[b] # None
      <4>1. SUFFICES ASSUME req[b] = None PROVE FALSE
        OBVIOUS
      <4>2. pc[b] = "idle" /\ code[b] = "pending"
        BY <4>1 DEF IInv, Bookkeeping
      <4>3. \A c \in Calls \ {b} : Act(c) => code'[b] = code[b]
        BY OthersUntouched
      <4>4. Act(b) => code'[b] = code[b]
        BY <4>2 DEF Act, Progress, Receive, Invalid, ShortCircuit, InsertRecord, ResolveRace,
           FirstKeyCheck, LockTarget, JudgeTarget, InsertCorrection, FlipTarget, ReadBalance,
           Commit, Deliver, Fail
      <4>5. QED
        BY <4>2, <4>3, <4>4, StepIsSomeones DEF vars
    <3>3. QED
      BY <2>1, <3>1, <3>2, PayloadsFixed
  <2>3. code[b] \notin {"duplicate", "not_active", "not_allowed"}
    BY <1>2, <2>2 DEF IInv, RetryNeverRefused
  <2>4. Act(b)
    <3>1. \A c \in Calls \ {b} : Act(c) => code'[b] = code[b]
      BY OthersUntouched
    <3>2. QED
      BY <2>3, <3>1, StepIsSomeones DEF vars
  <2>5. Refused(b)
    BY <2>3, <2>4, StepShape DEF Receive, Replayed, Moved, Abandoned, Placed, LockTarget, FlipTarget,
       Commit, Deliver, AnswerWith, TypeOK
  <2>6. a \in Taken(b) /\ IsReplay(b, a)
    BY <1>1, <1>2, <2>2 DEF IInv, RowsFaithful, Taken, IsReplay, SamePayload, Resolved, Supersedes
  <2>7. PICK e \in Taken(b) : ~IsReplay(b, e)
    <3>1. PICK why \in Codes :
            /\ Refuse(b, why)
            /\ why = "duplicate" => \E e \in Taken(b) : ~IsReplay(b, e)
            /\ why \in {"not_active", "not_allowed"} => Taken(b) = {}
      BY <2>5 DEF Refused
    <3>2. code'[b] = why
      BY <3>1 DEF Refuse, TypeOK
    <3>3. QED
      BY <2>6, <3>1, <3>2
  <2>8. e = a
    BY <2>6, <2>7 DEF IInv, KeysUnique, Taken
  <2>9. QED
    BY <2>6, <2>7, <2>8
<1>3. CASE ~Stored(a)
  <2>1. Commit(a) /\ Inserted(a)
    BY <1>1, <1>3, RowsAppear
  <2>2. /\ req' = req /\ code' = code /\ req[a] # None
        /\ Taken(a) = {} /\ (IsCorrection(a) => HoldsTarget(a))
    BY <2>1, InsertedFacts DEF Commit, IInv, RowsInFlight
  <2>3. Taken(b) = {}
    BY <2>2 DEF Taken
  <2>4. /\ code[b] # "duplicate"
        /\ IsCorrection(b) /\ Stored(req[b].target)
        /\ db[req[b].target].status = "SUPERSEDED" \/ db[req[b].target].actor # req[b].actor
    BY <2>2, <2>3 DEF IInv, RefusalsStand
  <2>5. QED
    BY <2>2, <2>4 DEF IsCorrection, HoldsTarget
<1>4. QED
  BY <1>2, <1>3

-----------------------------------------------------------------------------
(* Theorems *)

(* Every variable keeps its type, and IInv holds, in every reachable state. *)
THEOREM Invariant == Spec => [](TypeOK /\ IInv)
<1>1. TypeOK /\ IInv /\ [Next]_vars => (TypeOK /\ IInv)'
  BY StepTypes, StepBookkeeping, StepKeysUnique, StepLocksOwned, StepTargetsHeld, StepRowsInFlight,
     StepOtherWrites, StepAnswerReady, StepRowsFaithful, StepSuccessorsReal, StepRepliesRight,
     StepRefusalsStand, StepSeedsKept, StepRetryNeverRefused DEF IInv
<1>2. QED
  BY InitInvariant, <1>1, PTL DEF Spec

(* The variables have their types: no request ever writes a row outside the *)
(* schema of migration 0001.                                                *)
THEOREM TypeCorrect == Spec => []TypeOK
<1>1. QED
  BY Invariant, PTL

(* A key is stored at most once and the reply names its row, for any number *)
(* of racing requests and retries.                                          *)
THEOREM RecordedExactlyOnce == Spec => []ExactlyOnce
<1>1. TypeOK /\ IInv => ExactlyOnce
  <2> SUFFICES ASSUME TypeOK, IInv, NEW c \in Calls, code[c] = "ok"
               PROVE  Stored(result[c]) /\ Taken(c) = {result[c]}
    BY DEF ExactlyOnce
  <2>1. result[c] \in Taken(c)
    BY DEF IInv, RepliesRight
  <2>2. \A e \in Taken(c) : e = result[c]
    BY <2>1 DEF IInv, KeysUnique, Taken
  <2>3. QED
    BY <2>1, <2>2 DEF Taken
<1>2. QED
  BY Invariant, <1>1, PTL

(* The versions of an entry form one line, whoever corrects it and however often. *)
THEOREM VersionsFormALine == Spec => []VersionsPairUp
<1>1. TypeOK /\ IInv => VersionsPairUp
  <2> SUFFICES ASSUME TypeOK, IInv PROVE VersionsPairUp
    OBVIOUS
  <2>1. ASSUME NEW c \in Calls, Stored(c), req[c].kind = "correct"
        PROVE  Supersedes(c, c) /\ db[req[c].target].actor = db[c].actor
    BY <2>1 DEF IInv, RowsFaithful, IsReplay, Bookkeeping, IsCorrection
  <2>2. ASSUME NEW r \in RowIds, Stored(r), db[r].status = "SUPERSEDED"
        PROVE  /\ db[r].succ \in Calls /\ Stored(db[r].succ)
               /\ req[db[r].succ].kind = "correct" /\ req[db[r].succ].target = r
    BY <2>2 DEF IInv, SuccessorsReal, IsCorrection
  <2>3. QED
    BY <2>1, <2>2 DEF VersionsPairUp
<1>2. QED
  BY Invariant, <1>1, PTL

(* The service never asks for an update that the append-only trigger refuses. *)
THEOREM FlipsAreAdmissible == Spec => []FlipIsAdmissible
<1>1. TypeOK /\ IInv => FlipIsAdmissible
  <2> SUFFICES ASSUME TypeOK, IInv, NEW c \in Calls, pc[c] = "flip"
               PROVE  /\ lock[req[c].target] = c
                      /\ Stored(req[c].target)
                      /\ db[req[c].target].status = "ACTIVE"
                      /\ writes[c][c] # NoRow /\ writes[c][c].status = "ACTIVE"
    BY DEF FlipIsAdmissible
  <2>1. HoldsTarget(c) /\ Inserted(c)
    BY DEF IInv, TargetsHeld, AnswerReady
  <2>2. writes[c][c].status = "ACTIVE"
    BY <2>1, InsertedFacts, OwnRowFields DEF HoldsTarget
  <2>3. QED
    BY <2>1, <2>2 DEF HoldsTarget, Inserted
<1>2. QED
  BY Invariant, <1>1, PTL

(* A successful reply is about what its request asked for. *)
THEOREM RepliesMatch == Spec => []ReplyMatchesRequest
<1>1. TypeOK /\ IInv => ReplyMatchesRequest
  BY DEF IInv, RepliesRight, ReplyMatchesRequest, IsCheapReplay
<1>2. QED
  BY Invariant, <1>1, PTL

(* A retry of a committed request is never refused. *)
THEOREM RetriesSucceed == Spec => []RetryNeverRefused
<1>1. IInv => RetryNeverRefused
  BY DEF IInv
<1>2. QED
  BY Invariant, <1>1, PTL

(* No committed row is deleted or edited, except to be superseded by the row *)
(* that the same commit adds.                                                *)
THEOREM LedgerIsAppendOnly == Spec => AppendOnly
<1>1. ASSUME TypeOK, IInv, [Next]_vars, NEW r \in RowIds, Stored(r)
      PROVE  db'[r] = db[r] \/ OnlySuperseded(r)
  <2>1. ASSUME NEW c \in Calls, Commit(c), Inserted(c), HoldsTarget(c), r = req[c].target,
               db[r].status = "ACTIVE", db'[r] = Superseded(db[r], c)
        PROVE  OnlySuperseded(r)
    <3>1. Stored(c)' /\ db'[c].status = "ACTIVE" /\ c \in RowIds
      BY <1>1, <2>1, CommittedRow DEF RowIds
    <3>2. ~Stored(c)
      BY <1>1, <2>1, CommitEffect
    <3>3. QED
      BY <2>1, <3>1, <3>2 DEF OnlySuperseded, Superseded
  <2>2. QED
    BY <1>1, <2>1, RowsKept
<1>2. TypeOK /\ IInv /\ [Next]_vars => [\A r \in RowIds : Stored(r) => db'[r] = db[r] \/ OnlySuperseded(r)]_vars
  BY <1>1
<1>3. QED
  BY Invariant, <1>2, PTL DEF Spec, AppendOnly
=============================================================================
