----------------------- MODULE LedgerRefinementProofs -----------------------
(***************************************************************************)
(* Proof that the concurrent write path implements AbstractLedger, for any *)
(* sets of requests, rows, keys, people and payloads: each commit is the   *)
(* abstract step that applies its request, each reply the step that        *)
(* answers it, and everything else is invisible.                           *)
(***************************************************************************)
EXTENDS LedgerProofs

Granted == [c \in Calls |-> IF code[c] = "ok" THEN result[c] ELSE None]

BookVars == <<db, req, Granted, code>>

(* The answers already given do not change. *)
LEMMA GrantedKept ==
  ASSUME TypeOK, IInv, NEW c \in Calls, Act(c), ~Deliver(c)
  PROVE  Granted' = Granted
<1>1. \A d \in Calls \ {c} : code'[d] = code[d] /\ result'[d] = result[d]
  BY OthersUntouched
<1>2. code[c] # "ok"
  BY DEF IInv, Bookkeeping, Act, Progress, Receive, Invalid, ShortCircuit, InsertRecord,
     ResolveRace, FirstKeyCheck, LockTarget, JudgeTarget, InsertCorrection, FlipTarget,
     ReadBalance, Commit, Deliver, Fail
<1>3. code'[c] # "ok"
  BY <1>2, StepShape DEF Receive, Refused, Replayed, Moved, Abandoned, Placed, LockTarget,
     FlipTarget, Commit, Refuse, AnswerWith, TypeOK
<1>4. QED
  BY <1>1, <1>2, <1>3 DEF Granted

(* The database the API starts with is the book the clients start with. *)
LEMMA BookInit == Init => Book!Init
BY ConstantsAssumption DEF Init, Book!Init, Book!RowIds, RowIds

(* The abstract book holds what the table holds. *)
LEMMA BookReads ==
  ASSUME NEW c \in Calls
  PROVE  /\ Book!UnderKey(c) = Taken(c)
         /\ \A r \in RowIds : Book!InBook(r) <=> Stored(r)
         /\ \A e \in RowIds : req[c].kind \in {"record", "correct"} =>
              (Book!Fits(c, e) <=> IsCheapReplay(c, e))
BY DEF Book!UnderKey, Book!RowIds, Book!InBook, Book!Fits, Taken, RowIds, Stored, IsCheapReplay, Supersedes

(* A request's arrival is the abstract Ask. *)
LEMMA ReceiveAsks ==
  ASSUME TypeOK, IInv, NEW c \in Calls, Receive(c)
  PROVE  Book!Ask(c)
<1>1. req[c] = None
  BY DEF Receive, IInv, Bookkeeping
<1>2. Granted' = Granted
  BY DEF Receive, Granted
<1>3. QED
  BY <1>1, <1>2 DEF Receive, Book!Ask, Granted

(* A commit with a row is the abstract Record or Correct; without one it is invisible. *)
LEMMA CommitApplies ==
  ASSUME TypeOK, IInv, NEW c \in Calls, Commit(c)
  PROVE  Book!Record(c) \/ Book!Correct(c) \/ UNCHANGED BookVars
<1>1. UNCHANGED <<req, code>> /\ code[c] = "pending" /\ req[c] # None /\ req[c] \in Requests
  BY DEF Commit, IInv, Bookkeeping, TypeOK
<1>2. Granted' = Granted
  BY DEF Commit, Granted
<1>3. CASE ~Inserted(c)
  BY <1>1, <1>2, <1>3, CommitEffect DEF BookVars
<1>4. CASE Inserted(c) /\ req[c].kind = "record"
  <2>1. /\ ~Stored(c) /\ Taken(c) = {} /\ db' = [db EXCEPT ![c] = OwnRow(c)]
    BY <1>4, CommitEffect DEF HoldsTarget, IsCorrection
  <2>2. OwnRow(c) = Book!Entry(c, req[c].head, req[c].body)
    BY <1>4 DEF OwnRow, NewRow, Book!Entry
  <2>3. QED
    BY <1>1, <1>2, <1>4, <2>1, <2>2, BookReads DEF Book!Record, RowIds, Granted
<1>5. CASE Inserted(c) /\ req[c].kind = "correct"
  <2>1. PICK t \in RowIds \ {c} : t = req[c].target
    BY <1>5, CommitEffect DEF IsRecord
  <2>2. /\ HoldsTarget(c) /\ ~Stored(c) /\ Taken(c) = {}
        /\ db' = [db EXCEPT ![c] = OwnRow(c), ![t] = Superseded(db[t], c)]
    BY <1>5, <2>1, CommitEffect DEF IsRecord
  <2>3. OwnRow(c) = Book!Entry(c, Book!Filled(req[c].head, db[t].head),
                                  Book!Filled(req[c].body, db[t].body))
    BY <1>5, <2>1 DEF OwnRow, NewRow, Resolved, Book!Entry, Book!Filled
  <2>4. db' = [db EXCEPT ![c] = OwnRow(c), ![t].status = "SUPERSEDED", ![t].succ = c]
    BY <2>1, <2>2 DEF Superseded, TypeOK, RowIds
  <2>5. Stored(t) /\ db[t].status = "ACTIVE" /\ db[t].actor = req[c].actor
    BY <2>1, <2>2 DEF HoldsTarget
  <2>6. QED
    BY <1>1, <1>2, <1>5, <2>1, <2>2, <2>3, <2>4, <2>5, BookReads DEF Book!Correct, RowIds, Granted
<1>6. QED
  BY <1>1, <1>3, <1>4, <1>5, RequestFields

(* The delivery of a reply is the abstract Accept. *)
LEMMA DeliverAccepts ==
  ASSUME TypeOK, IInv, NEW c \in Calls, Deliver(c)
  PROVE  Book!Accept(c)
<1>1. code[c] = "pending" /\ req[c] # None /\ req[c] \in Requests
  BY DEF Deliver, IInv, Bookkeeping, TypeOK
<1>2. result[c] \in Taken(c) /\ IsCheapReplay(c, result[c])
  BY DEF Deliver, IInv, RepliesRight
<1>3. result[c] \in Book!UnderKey(c) /\ Book!Fits(c, result[c])
  BY <1>1, <1>2, BookReads, RequestFields DEF Taken
<1>4. Granted' = [Granted EXCEPT ![c] = result[c]]
  BY DEF Granted, Deliver, TypeOK
<1>5. QED
  BY <1>1, <1>3, <1>4 DEF Deliver, Book!Accept, Granted

(* An error is the abstract Refuse, with its reason in the book, or Lose. *)
LEMMA RefusedHasReason ==
  ASSUME TypeOK, IInv, NEW c \in Calls, Refused(c), Granted' = Granted
  PROVE  Book!Refuse(c) \/ Book!Lose(c)
<1>1. PICK why \in Codes \ {"pending", "ok"} :
        /\ Refuse(c, why)
        /\ pc[c] \notin {"idle", "done"}
        /\ why # "lost" => pc[c] # "reply"
        /\ why = "not_found" => req[c].target \notin Seeds
        /\ why = "duplicate" => \E e \in Taken(c) : ~IsReplay(c, e)
        /\ why \in {"not_found", "not_active", "not_allowed"} => Taken(c) = {} /\ IsCorrection(c)
        /\ why \in {"not_active", "not_allowed"} => Stored(req[c].target)
        /\ why = "not_active" => db[req[c].target].status = "SUPERSEDED"
        /\ why = "not_allowed" => db[req[c].target].actor # req[c].actor
  BY DEF Refused
<1>2. code[c] = "pending" /\ req[c] # None /\ req[c] \in Requests /\ c \in RowIds
  BY <1>1 DEF IInv, Bookkeeping, TypeOK, RowIds
<1>3. code' = [code EXCEPT ![c] = why] /\ UNCHANGED <<db, req>>
  BY <1>1 DEF Refuse
<1>4. CASE why = "lost"
  BY <1>2, <1>3, <1>4 DEF Book!Lose, Granted
<1>5. CASE why # "lost"
  <2>1. ~Stored(c)
    BY <1>1, <1>5 DEF IInv, RowsFaithful
  <2>2. Book!Reason(c, why)
    <3>1. CASE why = "duplicate"
      <4>1. PICK e \in Taken(c) : ~IsReplay(c, e)
        BY <1>1, <3>1
      <4>2. ~Book!Answers(c, e)
        BY <1>2, <4>1, RequestFields
           DEF Book!Answers, Book!Fits, Book!Filled, Book!InBook, IsReplay, SamePayload, Resolved,
               Supersedes, Stored
      <4>3. QED
        BY <3>1, <4>1, <4>2, BookReads DEF Book!Reason
    <3>2. CASE why \in {"not_found", "not_active", "not_allowed"}
      <4>1. PICK t \in RowIds : t = req[c].target
        BY <1>1, <1>2, <3>2, RequestFields DEF IsCorrection
      <4>2. QED
        BY <1>1, <3>2, <4>1, BookReads DEF Book!Reason, IsCorrection
    <3>3. CASE why = "invalid"
      BY <3>3 DEF Book!Reason
    <3>4. QED
      BY <1>5, <3>1, <3>2, <3>3 DEF Codes
  <2>3. QED
    BY <1>2, <1>3, <1>5, <2>1, <2>2, BookReads DEF Book!Refuse, Codes, Granted
<1>6. QED
  BY <1>4, <1>5

(* Every step of the implementation is a step of the abstract ledger, or none. *)
LEMMA StepSimulates == TypeOK /\ IInv /\ [Next]_vars => [Book!Next]_BookVars
<1> SUFFICES ASSUME TypeOK, IInv, [Next]_vars
             PROVE  Book!Next \/ UNCHANGED BookVars
  OBVIOUS
<1>1. CASE UNCHANGED vars
  BY <1>1 DEF vars, BookVars, Granted
<1>2. ASSUME NEW c \in Calls, Act(c) PROVE Book!Next \/ UNCHANGED BookVars
  <2>1. CASE Receive(c)
    BY <2>1, ReceiveAsks DEF Book!Next
  <2>2. CASE Commit(c)
    BY <2>2, CommitApplies DEF Book!Next
  <2>3. CASE Deliver(c)
    BY <2>3, DeliverAccepts DEF Book!Next
  <2>4. CASE Refused(c) /\ ~Deliver(c)
    BY <1>2, <2>4, GrantedKept, RefusedHasReason DEF Book!Next
  <2>5. CASE Replayed(c) \/ Moved(c) \/ Abandoned(c) \/ Placed(c) \/ LockTarget(c) \/ FlipTarget(c)
    <3>1. UNCHANGED <<db, req, code>>
      BY <2>5 DEF Replayed, Moved, Abandoned, Placed, LockTarget, FlipTarget, AnswerWith
    <3>2. CASE Deliver(c)
      BY <2>3, <3>2
    <3>3. CASE ~Deliver(c)
      BY <1>2, <3>1, <3>3, GrantedKept DEF BookVars
    <3>4. QED
      BY <3>2, <3>3
  <2>6. QED
    BY <1>2, <2>1, <2>2, <2>3, <2>4, <2>5, StepShape
<1>3. QED
  BY <1>1, <1>2, StepIsSomeones

(* The API implements the abstract ledger: whatever the interleaving, the     *)
(* failures and the retries, its clients see each request applied at once and *)
(* at most once, and refused only for a reason the ledger shows.              *)
THEOREM LedgerImplementsBook == Spec => ImplementsAbstractLedger
<1>1. TypeOK /\ IInv /\ [Next]_vars => [Book!Next]_(Book!vars)
  BY StepSimulates DEF BookVars, Granted, Book!vars
<1>2. QED
  BY BookInit, Invariant, <1>1, PTL DEF Spec, ImplementsAbstractLedger, Book!Spec
=============================================================================
