------------------------ MODULE LedgerBalanceProofs ------------------------
(***************************************************************************)
(* The balance in a reply counts every entry once, for any sets of         *)
(* requests, rows, keys, people and payloads.                              *)
(***************************************************************************)
EXTENDS LedgerProofs, FiniteSetTheorems

(* Of the rows counted, exactly one, or at most one, is in the lineage. *)
One(rows, lineage) == \E h \in RowIds : rows \cap lineage = {h}
AtMostOne(rows, lineage) == \E h \in RowIds : rows \cap lineage \subseteq {h}

(* Every committed row leads to exactly one ACTIVE row. *)
OneHead(table) ==
  \A r \in RowIds : table[r] # NoRow => One(Active(table), LineageIn(table, r))

(* What the rows a request has counted are to a table: rows of it, one of every *)
(* entry it started with and of the answer's, at most one of every other.       *)
CountedIn(table, rows, answer) ==
  /\ rows \subseteq RowIds /\ answer \in RowIds
  /\ \A r \in Seeds \cup rows \cup {answer} : table[r] # NoRow
  /\ \A r \in RowIds : table[r] # NoRow => AtMostOne(rows, LineageIn(table, r))
  /\ \A r \in Seeds \cup {answer} : One(rows, LineageIn(table, r))

(* Until c commits, its count is right for the table as c sees it, which other *)
(* commits change under it; from then on, for the committed table.             *)
BalanceInv ==
  /\ OneHead(db)
  /\ \A c \in Calls :
       /\ pc[c] = "commit" => CountedIn(View(c), counted[c], result[c])
       /\ pc[c] = "reply" \/ code[c] = "ok" => CountedIn(db, counted[c], result[c])

-----------------------------------------------------------------------------
(* Lineages *)

(* A lineage starts at its row, follows corrections, and is the least such set. *)
LEMMA LineageFacts ==
  ASSUME NEW table, NEW r \in RowIds, NEW lineage, lineage = LineageIn(table, r),
         \A x \in RowIds : table[x] # NoRow => table[x].succ \in RowIds \cup {None}
  PROVE  /\ lineage \subseteq RowIds
         /\ r \in lineage
         /\ FollowsCorrections(table, lineage)
         /\ \A T \in SUBSET RowIds : r \in T /\ FollowsCorrections(table, T) => lineage \subseteq T
<1>1. /\ lineage \subseteq RowIds /\ r \in lineage
      /\ \A T \in SUBSET RowIds : r \in T /\ FollowsCorrections(table, T) => lineage \subseteq T
  BY DEF LineageIn
<1>2. ASSUME NEW x \in lineage, table[x] # NoRow, table[x].succ # None
      PROVE  table[x].succ \in lineage
  <2>1. x \in RowIds /\ table[x].succ \in RowIds
    BY <1>1, <1>2
  <2>2. ASSUME NEW T \in SUBSET RowIds, r \in T, FollowsCorrections(table, T)
        PROVE  table[x].succ \in T
    BY <1>1, <1>2, <2>2 DEF FollowsCorrections
  <2> QED  BY <2>1, <2>2 DEF LineageIn
<1> QED  BY <1>1, <1>2 DEF FollowsCorrections

(* Every successor is a row of the table. *)
Linked(table) ==
  \A r \in RowIds :
    table[r] # NoRow =>
      table[r].succ = None \/ (table[r].succ \in RowIds /\ table[table[r].succ] # NoRow)

(* The table with a new row d; unless t is None, row t is superseded by it. *)
Extended(old, new, d, t) ==
  /\ d \in RowIds /\ old[d] = NoRow
  /\ new[d] # NoRow /\ new[d].status = "ACTIVE" /\ new[d].succ = None
  /\ \A r \in RowIds \ {d, t} : new[r] = old[r]
  /\ t # None =>
       /\ t \in RowIds \ {d}
       /\ old[t] # NoRow /\ old[t].status = "ACTIVE" /\ old[t].succ = None
       /\ new[t] # NoRow /\ new[t].status = "SUPERSEDED" /\ new[t].succ = d

(* The new row begins a lineage of its own, and joins those of the row it *)
(* supersedes; no other lineage changes.                                  *)
LEMMA LineageGrows ==
  ASSUME NEW old, NEW new, NEW d, NEW t, Linked(old), Extended(old, new, d, t)
  PROVE  /\ Linked(new)
         /\ \A r \in RowIds : new[r] # NoRow <=> (old[r] # NoRow \/ r = d)
         /\ LineageIn(new, d) = {d}
         /\ \A r \in RowIds :
              old[r] # NoRow =>
                /\ \A x \in LineageIn(old, r) : old[x] # NoRow
                /\ LineageIn(new, r) = IF t \in LineageIn(old, r)
                                       THEN LineageIn(old, r) \cup {d}
                                       ELSE LineageIn(old, r)
<1> USE ConstantsAssumption
<1>1. \A r \in RowIds : new[r] # NoRow <=> (old[r] # NoRow \/ r = d)
  BY DEF Extended
<1>2. Linked(new)
  BY <1>1 DEF Linked, Extended
<1>3. /\ \A x \in RowIds : old[x] # NoRow => old[x].succ \in RowIds \cup {None}
      /\ \A x \in RowIds : new[x] # NoRow => new[x].succ \in RowIds \cup {None}
  BY <1>2 DEF Linked
<1>4. LineageIn(new, d) = {d}
  <2>1. FollowsCorrections(new, {d}) /\ d \in RowIds
    BY DEF FollowsCorrections, Extended
  <2> QED  BY <2>1, <1>3, LineageFacts
<1>5. ASSUME NEW r \in RowIds, old[r] # NoRow
      PROVE  /\ \A x \in LineageIn(old, r) : old[x] # NoRow
             /\ LineageIn(new, r) = IF t \in LineageIn(old, r)
                                    THEN LineageIn(old, r) \cup {d}
                                    ELSE LineageIn(old, r)
  <2>1. PICK L : L = LineageIn(old, r)
    OBVIOUS
  <2>2. PICK M : M = LineageIn(new, r)
    OBVIOUS
  <2>3. /\ L \subseteq RowIds /\ r \in L /\ FollowsCorrections(old, L)
        /\ \A T \in SUBSET RowIds : r \in T /\ FollowsCorrections(old, T) => L \subseteq T
    BY <2>1, <1>3, LineageFacts
  <2>4. /\ M \subseteq RowIds /\ r \in M /\ FollowsCorrections(new, M)
        /\ \A T \in SUBSET RowIds : r \in T /\ FollowsCorrections(new, T) => M \subseteq T
    BY <2>2, <1>3, LineageFacts
  <2>5. \A x \in L : old[x] # NoRow
    <3>1. FollowsCorrections(old, {x \in RowIds : old[x] # NoRow})
      BY DEF FollowsCorrections, Linked
    <3>2. L \subseteq {x \in RowIds : old[x] # NoRow}
      BY <3>1, <2>3, <1>5
    <3> QED  BY <3>2
  <2>6. L \subseteq M
    <3>1. FollowsCorrections(old, M)
      BY <2>4 DEF FollowsCorrections, Extended
    <3> QED  BY <3>1, <2>3, <2>4
  <2>7. CASE t \in L
    <3>1. t # None /\ d \in RowIds
      BY <2>3, <2>7 DEF Extended
    <3>2. FollowsCorrections(new, L \cup {d})
      BY <2>3, <3>1 DEF FollowsCorrections, Extended
    <3>3. M \subseteq L \cup {d}
      BY <2>3, <2>4, <3>1, <3>2
    <3>4. d \in M
      BY <2>4, <2>6, <2>7, <3>1 DEF FollowsCorrections, Extended
    <3>5. M = L \cup {d}
      BY <2>6, <3>3, <3>4
    <3> QED  BY <2>1, <2>2, <2>5, <2>7, <3>5
  <2>8. CASE t \notin L
    <3>1. FollowsCorrections(new, L)
      BY <2>3, <2>5, <2>8 DEF FollowsCorrections, Extended
    <3>2. M = L
      BY <2>3, <2>4, <2>6, <3>1
    <3> QED  BY <2>1, <2>2, <2>5, <2>8, <3>2
  <2> QED  BY <2>7, <2>8
<1> QED  BY <1>1, <1>2, <1>4, <1>5

(* A table in which every row leads to one ACTIVE row is extended to another. *)
LEMMA HeadsKept ==
  ASSUME NEW old, NEW new, NEW d, NEW t, Linked(old), Extended(old, new, d, t), OneHead(old)
  PROVE  OneHead(new)
<1> USE ConstantsAssumption
<1>1. Active(new) = (Active(old) \ {t}) \cup {d}
  BY DEF Active, Extended
<1>2. SUFFICES ASSUME NEW r \in RowIds, new[r] # NoRow
               PROVE  One(Active(new), LineageIn(new, r))
  BY DEF OneHead
<1>3. d \in RowIds
  BY DEF Extended
<1>4. CASE r = d
  BY <1>1, <1>3, <1>4, LineageGrows DEF One
<1>5. CASE r # d
  <2>1. old[r] # NoRow
    BY <1>2, <1>5, LineageGrows
  <2>2. PICK L : L = LineageIn(old, r)
    OBVIOUS
  <2>3. PICK h \in RowIds : Active(old) \cap L = {h}
    BY <2>1, <2>2 DEF OneHead, One
  <2>4. d \notin L
    BY <2>1, <2>2, LineageGrows DEF Extended
  <2>5. CASE t \in L
    <3>1. t # None
      BY <2>5, <2>2 DEF LineageIn
    <3>2. t \in Active(old)
      BY <3>1 DEF Active, Extended
    <3>3. LineageIn(new, r) = L \cup {d}
      BY <2>1, <2>2, <2>5, LineageGrows
    <3>4. Active(new) \cap (L \cup {d}) = {d}
      BY <1>1, <2>3, <2>5, <3>2
    <3> QED  BY <1>3, <3>3, <3>4 DEF One
  <2>6. CASE t \notin L
    <3>1. LineageIn(new, r) = L
      BY <2>1, <2>2, <2>6, LineageGrows
    <3>2. Active(new) \cap L = {h}
      BY <1>1, <2>3, <2>4, <2>6
    <3> QED  BY <3>1, <3>2 DEF One
  <2> QED  BY <2>5, <2>6
<1> QED  BY <1>4, <1>5

(* A row that was not counted adds itself to lineages without their count. *)
LEMMA CountKept ==
  ASSUME NEW old, NEW new, NEW d, NEW t, Linked(old), Extended(old, new, d, t),
         NEW rows, d \notin rows, NEW r \in RowIds, old[r] # NoRow
  PROVE  rows \cap LineageIn(new, r) = rows \cap LineageIn(old, r)
BY LineageGrows

-----------------------------------------------------------------------------
(* Requests *)

(* The committed table is linked, and so is what a request sees of it, which is *)
(* the committed table or an extension of it.                                   *)
LEMMA ViewExtends ==
  ASSUME TypeOK, IInv, NEW c \in Calls, pc[c] \in {"answer", "commit"}
  PROVE  /\ Linked(db)
         /\ ~Inserted(c) => View(c) = db
         /\ Inserted(c) => /\ ~Stored(c) /\ result[c] = c
                           /\ \E t : /\ Extended(db, View(c), c, t)
                                     /\ t # None => HoldsTarget(c) /\ t = req[c].target
         /\ Linked(View(c))
<1> USE ConstantsAssumption
<1>1. Linked(db)
  BY DEF Linked, IInv, SuccessorsReal, Stored, RowIds
<1>2. CASE ~Inserted(c)
  <2>1. View(c) = db
    BY <1>2, OwnView
  <2> QED  BY <1>1, <1>2, <2>1
<1>3. CASE Inserted(c)
  <2>1. req[c] # None /\ result[c] = c /\ ~Stored(c) /\ c \in RowIds
    BY <1>3, OwnView DEF IInv, Bookkeeping, AnswerReady, RowIds
  <2>2. IsCorrection(c) => Stored(req[c].target)
    BY <1>3, OwnView DEF HoldsTarget, IsRecord, IsCorrection
  <2>3. OwnRow(c) # NoRow /\ OwnRow(c).status = "ACTIVE" /\ OwnRow(c).succ = None
    BY <2>1, <2>2, OwnRowFields
  <2>4. CASE View(c) = [db EXCEPT ![c] = OwnRow(c)]
    <3>1. Extended(db, View(c), c, None)
      BY <2>1, <2>3, <2>4 DEF Extended, Stored, TypeOK
    <3> QED  BY <1>1, <1>3, <2>1, <3>1, LineageGrows
  <2>5. CASE /\ HoldsTarget(c)
             /\ req[c].target \in RowIds \ {c}
             /\ View(c) = [db EXCEPT ![c] = OwnRow(c),
                                     ![req[c].target] = Superseded(db[req[c].target], c)]
    <3>1. PICK t \in RowIds \ {c} : t = req[c].target
      BY <2>5
    <3>2. Stored(t) /\ db[t].status = "ACTIVE"
      BY <2>5, <3>1 DEF HoldsTarget
    <3>3. db[t].succ = None
      BY <3>2 DEF IInv, SuccessorsReal
    <3>4. /\ Superseded(db[t], c) # NoRow
          /\ Superseded(db[t], c).status = "SUPERSEDED"
          /\ Superseded(db[t], c).succ = c
      BY <3>2, RowFields, SupersededType
    <3>5. View(c) = [db EXCEPT ![c] = OwnRow(c), ![t] = Superseded(db[t], c)]
      BY <2>5, <3>1
    <3>6. Extended(db, View(c), c, t)
      BY <2>1, <2>3, <3>1, <3>2, <3>3, <3>4, <3>5 DEF Extended, Stored, TypeOK
    <3> QED  BY <1>1, <1>3, <2>1, <2>5, <3>1, <3>6, LineageGrows
  <2> QED  BY <1>3, <2>4, <2>5, OwnView
<1> QED  BY <1>2, <1>3

(* What a request sees keeps one head per row. *)
LEMMA ViewHeads ==
  ASSUME TypeOK, IInv, BalanceInv, NEW c \in Calls, pc[c] \in {"answer", "commit"}
  PROVE  OneHead(View(c))
<1>1. OneHead(db)
  BY DEF BalanceInv
<1>2. CASE Inserted(c)
  <2>1. PICK t : Extended(db, View(c), c, t)
    BY <1>2, ViewExtends
  <2> QED  BY <1>1, <2>1, HeadsKept, ViewExtends
<1> QED  BY <1>1, <1>2, ViewExtends

(* Only a request's own read changes what it has counted, and it reaches the    *)
(* commit through that read, the reply through the commit, and the code "ok"    *)
(* through the reply.                                                           *)
LEMMA CountedBy ==
  ASSUME TypeOK, IInv, NEW d \in Calls, Act(d)
  PROVE  /\ \A c \in Calls : counted'[c] # counted[c] => c = d /\ ReadBalance(d)
         /\ pc'[d] = "commit" => ReadBalance(d)
         /\ pc'[d] = "reply" => Commit(d)
         /\ code'[d] = "ok" => Deliver(d)
<1> USE DEF TypeOK, Goto
<1>1. code[d] # "ok"
  <2>1. pc[d] # "done"
    BY DEF Act, Progress, Receive, Invalid, ShortCircuit, InsertRecord, ResolveRace, FirstKeyCheck,
       LockTarget, JudgeTarget, InsertCorrection, FlipTarget, ReadBalance, Commit, Deliver, Fail
  <2> QED  BY <2>1 DEF IInv, Bookkeeping
<1>2. ASSUME NEW why \in Codes \ {"ok"}, Refuse(d, why)
      PROVE  counted' = counted /\ pc'[d] = "done" /\ code'[d] # "ok"
  BY <1>2 DEF Refuse, Codes
<1>3. ASSUME NEW e \in RowIds, AnswerWith(d, e)
      PROVE  counted' = counted /\ pc'[d] = "answer" /\ code'[d] # "ok"
  BY <1>1, <1>3 DEF AnswerWith
<1>4. ASSUME NEW e \in RowIds, ReplayOrConflict(d, e)
      PROVE  counted' = counted /\ pc'[d] \in {"answer", "done"} /\ code'[d] # "ok"
  BY <1>1, <1>2, <1>3, <1>4 DEF ReplayOrConflict, Codes
<1>5. CASE Receive(d)
  BY <1>1, <1>5 DEF Receive
<1>6. CASE Invalid(d) \/ Fail(d)
  BY <1>2, <1>6 DEF Invalid, Fail, Codes
<1>7. CASE ShortCircuit(d)
  BY <1>1, <1>2, <1>3, <1>7 DEF ShortCircuit, Taken, Codes
<1>8. CASE InsertRecord(d)
  BY <1>1, <1>3, <1>8 DEF InsertRecord, RowIds
<1>9. CASE ResolveRace(d) \/ FirstKeyCheck(d)
  BY <1>1, <1>4, <1>9 DEF ResolveRace, FirstKeyCheck, Taken
<1>10. CASE LockTarget(d) \/ InsertCorrection(d)
  BY <1>1, <1>10 DEF LockTarget, InsertCorrection
<1>11. CASE JudgeTarget(d)
  <2>1. Verdict(d) \in Codes
    BY DEF Verdict, Codes
  <2>2. CASE \E e \in Recheck(d) : ReplayOrConflict(d, e)
    BY <1>4, <2>2 DEF Recheck, Taken
  <2>3. CASE Verdict(d) # "ok" /\ Refuse(d, Verdict(d))
    BY <1>2, <2>1, <2>3
  <2>4. CASE Goto(d, "insert") /\ UNCHANGED <<counted, code>>
    BY <1>1, <2>4
  <2> QED  BY <1>11, <2>2, <2>3, <2>4 DEF JudgeTarget
<1>12. CASE FlipTarget(d)
  BY <1>1, <1>3, <1>12 DEF FlipTarget, RowIds
<1>13. CASE ReadBalance(d) \/ Commit(d) \/ Deliver(d)
  BY <1>1, <1>13 DEF ReadBalance, Commit, Deliver
<1> QED
  BY <1>5, <1>6, <1>7, <1>8, <1>9, <1>10, <1>11, <1>12, <1>13 DEF Act, Progress

(* A table in which every row leads to one ACTIVE row may be counted. *)
LEMMA CountIsRight ==
  ASSUME NEW table, OneHead(table), NEW answer \in RowIds, table[answer] # NoRow,
         \A s \in Seeds : table[s] # NoRow
  PROVE  CountedIn(table, Active(table), answer)
<1>1. \A r \in RowIds : table[r] # NoRow => One(Active(table), LineageIn(table, r))
  BY DEF OneHead
<1>2. \A r \in RowIds : table[r] # NoRow => AtMostOne(Active(table), LineageIn(table, r))
  BY <1>1 DEF One, AtMostOne
<1>3. \A r \in Seeds \cup Active(table) \cup {answer} : r \in RowIds /\ table[r] # NoRow
  BY DEF Active, RowIds
<1> QED  BY <1>1, <1>2, <1>3 DEF CountedIn

(* A count stays right when the table grows by a row that it does not have. *)
LEMMA CountStaysRight ==
  ASSUME NEW old, NEW new, NEW d, NEW t, Linked(old), Extended(old, new, d, t),
         NEW rows, NEW answer, CountedIn(old, rows, answer)
  PROVE  CountedIn(new, rows, answer)
<1>1. d \notin rows /\ answer \in RowIds /\ d \in RowIds
  BY DEF CountedIn, Extended
<1>2. \A r \in RowIds : new[r] # NoRow <=> (old[r] # NoRow \/ r = d)
  BY LineageGrows
<1>3. \A r \in RowIds : old[r] # NoRow => rows \cap LineageIn(new, r) = rows \cap LineageIn(old, r)
  BY <1>1, CountKept
<1>4. ASSUME NEW r \in RowIds, new[r] # NoRow PROVE AtMostOne(rows, LineageIn(new, r))
  <2>1. CASE r = d
    BY <1>1, <2>1, LineageGrows DEF AtMostOne
  <2>2. CASE r # d
    BY <1>2, <1>3, <1>4, <2>2 DEF AtMostOne, CountedIn
  <2> QED  BY <2>1, <2>2
<1>5. ASSUME NEW r \in Seeds \cup {answer} PROVE One(rows, LineageIn(new, r))
  BY <1>1, <1>3 DEF One, CountedIn, RowIds
<1>6. \A r \in Seeds \cup rows \cup {answer} : new[r] # NoRow
  BY <1>1, <1>2 DEF CountedIn, RowIds
<1> QED  BY <1>1, <1>4, <1>5, <1>6 DEF CountedIn

(* Another request's commit extends what a request that waits to commit sees. *)
LEMMA ViewGrows ==
  ASSUME TypeOK, IInv, NEW c \in Calls, pc[c] = "commit", NEW d \in Calls \ {c}, Commit(d),
         NEW t, Extended(db, db', d, t), t # None => HoldsTarget(d) /\ t = req[d].target,
         writes'[c] = writes[c]
  PROVE  Extended(View(c), View(c)', d, t)
<1> USE ConstantsAssumption
<1>1. d \in RowIds /\ ~Stored(d)
  BY DEF Extended, Stored
<1>2. writes[c][d] = NoRow
  BY <1>1 DEF IInv, OtherWrites, HoldsTarget
<1>3. t # None => writes[c][t] = NoRow
  <2> SUFFICES ASSUME t # None, writes[c][t] # NoRow PROVE FALSE
    OBVIOUS
  <2>1. t \in RowIds /\ Stored(t) /\ lock[t] = d
    BY DEF Extended, Stored, HoldsTarget
  <2>2. t # c
    BY <2>1 DEF IInv, RowsFaithful
  <2>3. HoldsTarget(c) /\ t = req[c].target
    BY <2>1, <2>2 DEF IInv, OtherWrites
  <2> QED  BY <2>1, <2>3 DEF HoldsTarget
<1>4. \A r \in RowIds :
        /\ View(c)[r] = IF writes[c][r] # NoRow THEN writes[c][r] ELSE db[r]
        /\ View(c)'[r] = IF writes[c][r] # NoRow THEN writes[c][r] ELSE db'[r]
  BY DEF View
<1> QED  BY <1>1, <1>2, <1>3, <1>4 DEF Extended

(* A step of a request keeps the counts right. *)
LEMMA StepBalance ==
  ASSUME TypeOK, IInv, BalanceInv, NEW d \in Calls, Act(d), (TypeOK /\ IInv)'
  PROVE  BalanceInv'
<1>1. \A c \in Calls \ {d} : /\ writes'[c] = writes[c] /\ pc'[c] = pc[c]
                             /\ result'[c] = result[c] /\ code'[c] = code[c]
                             /\ counted'[c] = counted[c]
  BY OthersUntouched, CountedBy
<1>2. ASSUME NEW c \in Calls, pc[c] \in {"commit", "reply"} \/ code[c] = "ok"
      PROVE  CountedIn(IF pc[c] = "commit" THEN View(c) ELSE db, counted[c], result[c])
  BY <1>2 DEF BalanceInv
<1>3. ASSUME ~Commit(d), db' = db, NEW c \in Calls \ {d}
      PROVE  /\ pc'[c] = "commit" => CountedIn(View(c), counted[c], result[c])'
             /\ pc'[c] = "reply" \/ code'[c] = "ok" => CountedIn(db, counted[c], result[c])'
  <2>1. View(c)' = View(c)
    BY <1>1, <1>3 DEF View
  <2> QED  BY <1>1, <1>3, <2>1 DEF BalanceInv
<1>4. CASE ~Commit(d)
  <2>1. db' = db
    BY <1>4 DEF Act, Progress, Receive, Invalid, ShortCircuit, InsertRecord, ResolveRace,
       FirstKeyCheck, LockTarget, JudgeTarget, InsertCorrection, FlipTarget, ReadBalance, Deliver,
       Fail, Refuse, AnswerWith, ReplayOrConflict
  <2>2. ASSUME pc'[d] = "commit"
        PROVE  CountedIn(View(d), counted[d], result[d])'
    <3>1. ReadBalance(d)
      BY <2>2, CountedBy
    <3>2. /\ View(d)' = View(d) /\ result'[d] = result[d] /\ pc[d] = "answer"
          /\ counted'[d] = Active(View(d))
      BY <3>1 DEF ReadBalance, View, Summed, TypeOK
    <3>3. result[d] \in RowIds /\ View(d)[result[d]] # NoRow
      <4>1. CASE Inserted(d)
        BY <3>2, <4>1, ViewExtends DEF Extended
      <4>2. CASE ~Inserted(d)
        BY <3>2, <4>2, ViewExtends DEF IInv, AnswerReady, Taken, Stored
      <4> QED  BY <4>1, <4>2
    <3>4. \A s \in Seeds : View(d)[s] # NoRow
      BY DEF IInv, SeedsKept, Stored, View, RowIds
    <3>5. OneHead(View(d))
      BY <3>2, ViewHeads
    <3>6. CountedIn(View(d), Active(View(d)), result[d])
      BY <3>3, <3>4, <3>5, CountIsRight
    <3> QED  BY <3>2, <3>6
  <2>3. ASSUME pc'[d] = "reply" \/ code'[d] = "ok"
        PROVE  CountedIn(db, counted[d], result[d])'
    <3>1. Deliver(d)
      BY <1>4, <2>3, CountedBy
    <3>2. pc[d] = "reply" /\ UNCHANGED <<db, counted, result>>
      BY <3>1 DEF Deliver
    <3> QED  BY <3>2 DEF BalanceInv
  <2>4. OneHead(db')
    BY <2>1 DEF BalanceInv
  <2> QED  BY <1>3, <1>4, <2>1, <2>2, <2>3, <2>4 DEF BalanceInv
<1>5. CASE Commit(d)
  <2>1. /\ db' = View(d) /\ pc[d] = "commit" /\ pc'[d] = "reply" /\ code'[d] = code[d]
        /\ counted' = counted /\ result' = result
    BY <1>5 DEF Commit, Goto, TypeOK
  <2>2. OneHead(db')
    BY <2>1, ViewHeads
  <2>3. CountedIn(db', counted'[d], result'[d])
    BY <2>1 DEF BalanceInv
  <2>4. ASSUME NEW c \in Calls \ {d}
        PROVE  /\ pc'[c] = "commit" => CountedIn(View(c), counted[c], result[c])'
               /\ pc'[c] = "reply" \/ code'[c] = "ok" => CountedIn(db, counted[c], result[c])'
    <3>1. CASE ~Inserted(d)
      <4>1. db' = db
        BY <2>1, <3>1, ViewExtends
      <4>2. View(c)' = View(c)
        BY <1>1, <4>1 DEF View
      <4> QED  BY <1>1, <4>1, <4>2 DEF BalanceInv
    <3>2. CASE Inserted(d)
      <4>1. PICK t : /\ Extended(db, db', d, t)
                     /\ t # None => HoldsTarget(d) /\ t = req[d].target
        BY <2>1, <3>2, ViewExtends
      <4>2. ASSUME pc[c] = "commit"
            PROVE  CountedIn(View(c)', counted[c], result[c])
        <5>1. Extended(View(c), View(c)', d, t)
          BY <1>1, <1>5, <4>1, <4>2, ViewGrows
        <5>2. Linked(View(c)) /\ CountedIn(View(c), counted[c], result[c])
          BY <4>2, ViewExtends DEF BalanceInv
        <5> QED  BY <5>1, <5>2, CountStaysRight
      <4>3. ASSUME pc[c] = "reply" \/ code[c] = "ok"
            PROVE  CountedIn(db', counted[c], result[c])
        <5>1. Linked(db)
          BY <2>1, ViewExtends
        <5>2. CountedIn(db, counted[c], result[c])
          BY <4>3 DEF BalanceInv
        <5> QED  BY <4>1, <5>1, <5>2, CountStaysRight
      <4> QED  BY <1>1, <4>2, <4>3
    <3> QED  BY <3>1, <3>2
  <2>5. pc'[d] # "commit"
    BY <2>1
  <2> QED  BY <2>2, <2>3, <2>4, <2>5 DEF BalanceInv
<1> QED  BY <1>4, <1>5

(* The table starts with seeds that nothing supersedes, each a lineage of its own. *)
LEMMA InitBalance == Init => BalanceInv
<1> SUFFICES ASSUME Init PROVE BalanceInv
  OBVIOUS
<1>1. \A r \in RowIds :
        /\ db[r] # NoRow => db[r].status = "ACTIVE" /\ db[r].succ = None
  BY SeedAssumption DEF Init
<1>2. OneHead(db)
  <2> SUFFICES ASSUME NEW r \in RowIds, db[r] # NoRow
               PROVE  Active(db) \cap LineageIn(db, r) = {r}
    BY DEF OneHead, One
  <2>1. FollowsCorrections(db, {r})
    BY <1>1 DEF FollowsCorrections
  <2>2. LineageIn(db, r) = {r}
    BY <1>1, <2>1, LineageFacts
  <2> QED  BY <1>1, <2>2 DEF Active
<1>3. \A c \in Calls : pc[c] = "idle" /\ code[c] = "pending"
  BY DEF Init
<1> QED  BY <1>2, <1>3 DEF BalanceInv

(* The balance of every reply counts one version of every entry there was when *)
(* it was read, and of its own, and two of none, whatever is recorded and       *)
(* corrected at the same time.                                                  *)
THEOREM BalancesCountEntriesOnce == Spec => []BalanceCountsEntriesOnce
<1>1. BalanceInv => BalanceCountsEntriesOnce
  <2> SUFFICES ASSUME BalanceInv, NEW c \in Calls, code[c] = "ok"
               PROVE  /\ \A r \in Seeds \cup {result[c]} :
                           Cardinality(counted[c] \cap LineageIn(db, r)) = 1
                      /\ \A r \in RowIds :
                           Stored(r) => Cardinality(counted[c] \cap LineageIn(db, r)) <= 1
    BY DEF BalanceCountsEntriesOnce
  <2>1. CountedIn(db, counted[c], result[c])
    BY DEF BalanceInv
  <2>2. ASSUME NEW r \in Seeds \cup {result[c]}
        PROVE  Cardinality(counted[c] \cap LineageIn(db, r)) = 1
    <3>1. PICK h \in RowIds : counted[c] \cap LineageIn(db, r) = {h}
      BY <2>1 DEF CountedIn, One
    <3> QED  BY <3>1, FS_Singleton
  <2>3. ASSUME NEW r \in RowIds, Stored(r)
        PROVE  Cardinality(counted[c] \cap LineageIn(db, r)) <= 1
    <3>1. PICK h \in RowIds : counted[c] \cap LineageIn(db, r) \subseteq {h}
      BY <2>1, <2>3 DEF CountedIn, AtMostOne, Stored
    <3>2. CASE counted[c] \cap LineageIn(db, r) = {}
      BY <3>2, FS_EmptySet
    <3>3. CASE counted[c] \cap LineageIn(db, r) = {h}
      BY <3>3, FS_Singleton
    <3> QED  BY <3>1, <3>2, <3>3
  <2> QED  BY <2>2, <2>3
<1>2. BalanceInv /\ UNCHANGED vars => BalanceInv'
  <2> SUFFICES ASSUME BalanceInv, UNCHANGED vars PROVE BalanceInv'
    OBVIOUS
  <2>1. \A c \in Calls : View(c)' = View(c)
    BY DEF vars, View
  <2> QED  BY <2>1 DEF vars, BalanceInv
<1>3. /\ TypeOK /\ IInv /\ BalanceInv
      /\ [Next]_vars /\ (TypeOK /\ IInv)'
      => BalanceInv'
  BY <1>2, StepIsSomeones, StepBalance
<1> QED  BY Invariant, InitBalance, <1>1, <1>3, PTL DEF Spec
=============================================================================
