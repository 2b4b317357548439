----------------------- MODULE AppendOnlyGuardProofs -----------------------
(***************************************************************************)
(* What the constraints and triggers of table transaction keep for any     *)
(* number of sessions, rows and statements: rows are typed, committed rows *)
(* stand, chains do not fork, no two rows supersede each other, and the    *)
(* chains of transactions that write one after the other end.              *)
(***************************************************************************)
EXTENDS GuardHistory, FiniteSetTheorems, TLAPS

(* A row written but not committed is written by one session; if it is an *)
(* update, that session owns the row and has made the correction step.    *)
WritesOwned ==
  \A s \in Sessions, r \in Ids :
    dirty[s][r] # NoRow =>
      /\ \A t \in Sessions : dirty[t][r] # NoRow => t = s
      /\ Checks(r, dirty[s][r])
      /\ table[r] # NoRow => owner[r] = s /\ CorrectionStep(table[r], dirty[s][r])

(* Row r, as s has written it or as it is committed. *)
Version(r, row) == row # NoRow /\ (row = table[r] \/ \E s \in Sessions : row = dirty[s][r])

(* No two rows name the same successor, committed or not. *)
SuccessorsDistinct ==
  \A r, e \in Ids : \A x, y \in Row :
    Version(r, x) /\ Version(e, y) /\ r # e /\ x.succ = y.succ => x.succ = None

GuardInv == TypeOK /\ WritesOwned /\ SuccessorsDistinct
-----------------------------------------------------------------------------
(* What every statement starts from is a row, if it is anything. *)
LEMMA ViewRow ==
  ASSUME TypeOK, NEW s \in Sessions, NEW r \in Ids, View(s)[r] # NoRow
  PROVE  View(s)[r] \in Row
BY DEF TypeOK, View

(* A session's end: what it wrote is gone, or committed as it was. *)
LEMMA EndedTypes ==
  ASSUME TypeOK, NEW s \in Sessions, Ended(s)
  PROVE  /\ dirty' \in [Sessions -> [Ids -> Row \cup {NoRow}]]
         /\ owner' \in [Ids -> Sessions \cup {None}]
         /\ shared' \in [Ids -> SUBSET Sessions]
         /\ owed' \in [Sessions -> SUBSET Ids]
         /\ dirty'[s] = Clean
         /\ \A t \in Sessions \ {s} : dirty'[t] = dirty[t]
         /\ \A r \in Ids : owner[r] # s => owner'[r] = owner[r]
<1>1. Clean \in [Ids -> Row \cup {NoRow}]
  BY DEF Clean
<1> QED  BY <1>1 DEF Ended, TypeOK

(* The initial table is typed, and nothing is in flight. *)
LEMMA InitGuard == Init => GuardInv
<1> SUFFICES ASSUME Init PROVE GuardInv
  OBVIOUS
<1>1. \A s \in Sessions, r \in Ids : dirty[s][r] = NoRow
  BY DEF Init, Clean
<1>2. TypeOK
  <2>1. Clean \in [Ids -> Row \cup {NoRow}]
    BY DEF Clean
  <2> QED  BY <2>1 DEF Init, TypeOK
<1>3. WritesOwned
  BY <1>1 DEF WritesOwned
<1>4. SuccessorsDistinct
  <2> SUFFICES ASSUME NEW r \in Ids, NEW x \in Row, Version(r, x)
               PROVE  x.succ = None
    BY DEF SuccessorsDistinct
  <2>1. x = table[r] /\ x # NoRow
    BY <1>1 DEF Version
  <2> QED  BY <2>1 DEF Init
<1> QED  BY <1>2, <1>3, <1>4 DEF GuardInv

-----------------------------------------------------------------------------
(* An INSERT brings rows nobody has, that satisfy every constraint. *)
LEMMA StepInsert ==
  ASSUME GuardInv, NEW s \in Sessions, Insert(s)
  PROVE  GuardInv'
<1> USE DEF GuardInv
<1>1. PICK new \in SUBSET {r \in Ids : Unused(r)} :
        \E rows \in [new -> Row] :
          /\ \A r \in new : Checks(r, rows[r]) /\ SuccessorUnused(r, rows[r])
          /\ \A r, e \in new : rows[r].succ = rows[e].succ => r = e \/ rows[r].succ = None
          /\ dirty' = [dirty EXCEPT ![s] = [r \in Ids |-> IF r \in new THEN rows[r] ELSE @[r]]]
          /\ owed' = [owed EXCEPT ![s] = {rows[r].succ : r \in new} \ {None}]
  BY DEF Insert
<1>2. PICK rows \in [new -> Row] :
        /\ \A r \in new : Checks(r, rows[r]) /\ SuccessorUnused(r, rows[r])
        /\ \A r, e \in new : rows[r].succ = rows[e].succ => r = e \/ rows[r].succ = None
        /\ dirty' = [dirty EXCEPT ![s] = [r \in Ids |-> IF r \in new THEN rows[r] ELSE @[r]]]
        /\ owed' = [owed EXCEPT ![s] = {rows[r].succ : r \in new} \ {None}]
  BY <1>1
<1>3. UNCHANGED <<table, owner, shared>>
  BY DEF Insert
<1>4. \A r \in new : r \in Ids /\ rows[r] \in Row /\ table[r] = NoRow
                     /\ \A t \in Sessions : dirty[t][r] = NoRow
  BY <1>2 DEF Unused
<1>5. /\ \A t \in Sessions, r \in Ids :
           dirty'[t][r] = IF t = s /\ r \in new THEN rows[r] ELSE dirty[t][r]
      /\ dirty' \in [Sessions -> [Ids -> Row \cup {NoRow}]]
  BY <1>2, <1>4 DEF TypeOK
<1>6. TypeOK'
  <2>1. {rows[r].succ : r \in new} \ {None} \subseteq Ids
    BY <1>4 DEF Row
  <2>2. owed' \in [Sessions -> SUBSET Ids]
    BY <1>2, <2>1 DEF TypeOK
  <2> QED  BY <1>3, <1>5, <2>2 DEF TypeOK
<1>7. WritesOwned'
  <2> SUFFICES ASSUME NEW t \in Sessions, NEW r \in Ids, dirty'[t][r] # NoRow
               PROVE  /\ \A u \in Sessions : dirty'[u][r] # NoRow => u = t
                      /\ Checks(r, dirty'[t][r])
                      /\ table'[r] # NoRow =>
                           owner'[r] = t /\ CorrectionStep(table'[r], dirty'[t][r])
    BY DEF WritesOwned, Checks, CorrectionStep
  <2>1. CASE t = s /\ r \in new
    BY <2>1, <1>2, <1>3, <1>4, <1>5
  <2>2. CASE ~(t = s /\ r \in new)
    <3>1. dirty'[t][r] = dirty[t][r] /\ r \notin new
      BY <2>2, <1>4, <1>5
    <3> QED  BY <3>1, <1>3, <1>5 DEF WritesOwned
  <2> QED  BY <2>1, <2>2
<1>8. SuccessorsDistinct'
  <2>1. ASSUME NEW r \in Ids, NEW x, Version(r, x)'
        PROVE  Version(r, x) \/ (r \in new /\ x = rows[r])
    BY <2>1, <1>3, <1>5 DEF Version
  <2>2. ASSUME NEW r \in new, NEW e \in Ids, e # r, NEW y, Version(e, y),
               rows[r].succ = y.succ
        PROVE  y.succ = None
    BY <2>2, <1>2 DEF SuccessorUnused, Version
  <2> SUFFICES ASSUME NEW r \in Ids, NEW e \in Ids, NEW x \in Row, NEW y \in Row,
                      Version(r, x)', Version(e, y)', r # e, x.succ = y.succ
               PROVE  x.succ = None
    BY DEF SuccessorsDistinct, Version
  <2>3. CASE Version(r, x) /\ Version(e, y)
    BY <2>3 DEF SuccessorsDistinct
  <2>4. CASE Version(r, x) /\ e \in new /\ y = rows[e]
    BY <2>4, <2>2
  <2>5. CASE r \in new /\ x = rows[r] /\ Version(e, y)
    BY <2>5, <2>2
  <2>6. CASE r \in new /\ x = rows[r] /\ e \in new /\ y = rows[e]
    BY <2>6, <1>2
  <2> QED  BY <2>1, <2>3, <2>4, <2>5, <2>6
<1> QED  BY <1>6, <1>7, <1>8

(* An UPDATE that passes the trigger takes a row nobody else has written *)
(* one step further.                                                     *)
LEMMA StepUpdate ==
  ASSUME GuardInv, NEW s \in Sessions, Update(s)
  PROVE  GuardInv'
<1> USE DEF GuardInv
<1>1. PICK r \in Ids, new \in Row :
        /\ View(s)[r] # NoRow
        /\ RowFree(s, r)
        /\ CorrectionStep(View(s)[r], new)
        /\ Checks(r, new) /\ SuccessorUnused(r, new)
        /\ dirty' = [dirty EXCEPT ![s][r] = new]
        /\ owner' = [owner EXCEPT ![r] = s]
        /\ owed' = [owed EXCEPT ![s] = {new.succ}]
  BY DEF Update
<1>2. UNCHANGED <<table, shared>>
  BY DEF Update
<1>3. /\ \A t \in Sessions, e \in Ids :
           dirty'[t][e] = IF t = s /\ e = r THEN new ELSE dirty[t][e]
      /\ \A e \in Ids : owner'[e] = IF e = r THEN s ELSE owner[e]
      /\ new # NoRow
  BY <1>1, GuardAssumption DEF TypeOK
<1>4. TypeOK'
  <2>1. new.succ \in Ids
    BY <1>1 DEF CorrectionStep, Row
  <2> QED  BY <2>1, <1>1, <1>2 DEF TypeOK
<1>5. table[r] # NoRow => CorrectionStep(table[r], new)
  <2> SUFFICES ASSUME table[r] # NoRow PROVE CorrectionStep(table[r], new)
    OBVIOUS
  <2>1. dirty[s][r] = NoRow
    <3> SUFFICES ASSUME dirty[s][r] # NoRow PROVE FALSE
      OBVIOUS
    <3>1. CorrectionStep(table[r], dirty[s][r])
      BY DEF WritesOwned
    <3>2. View(s)[r] = dirty[s][r]
      BY DEF View
    <3> QED  BY <3>1, <3>2, <1>1 DEF CorrectionStep
  <2>2. View(s)[r] = table[r]
    BY <2>1 DEF View
  <2> QED  BY <2>2, <1>1
<1>6. \A t \in Sessions : dirty[t][r] # NoRow => t = s
  <2> SUFFICES ASSUME NEW t \in Sessions, dirty[t][r] # NoRow, t # s PROVE FALSE
    OBVIOUS
  <2>1. CASE table[r] # NoRow
    BY <2>1, <1>1, GuardAssumption DEF WritesOwned, RowFree
  <2>2. CASE table[r] = NoRow
    <3>1. dirty[s][r] # NoRow
      BY <2>2, <1>1 DEF View
    <3> QED  BY <3>1 DEF WritesOwned
  <2> QED  BY <2>1, <2>2
<1>7. WritesOwned'
  <2> SUFFICES ASSUME NEW t \in Sessions, NEW e \in Ids, dirty'[t][e] # NoRow
               PROVE  /\ \A u \in Sessions : dirty'[u][e] # NoRow => u = t
                      /\ Checks(e, dirty'[t][e])
                      /\ table'[e] # NoRow =>
                           owner'[e] = t /\ CorrectionStep(table'[e], dirty'[t][e])
    BY DEF WritesOwned, Checks, CorrectionStep
  <2>1. CASE e = r
    <3>1. t = s
      BY <2>1, <1>3, <1>6
    <3> QED  BY <2>1, <3>1, <1>1, <1>2, <1>3, <1>5, <1>6
  <2>2. CASE e # r
    BY <2>2, <1>2, <1>3 DEF WritesOwned
  <2> QED  BY <2>1, <2>2
<1>8. SuccessorsDistinct'
  <2>1. ASSUME NEW e \in Ids, NEW x, Version(e, x)'
        PROVE  Version(e, x) \/ (e = r /\ x = new)
    BY <2>1, <1>2, <1>3 DEF Version
  <2>2. ASSUME NEW e \in Ids, e # r, NEW y, Version(e, y), new.succ = y.succ
        PROVE  y.succ = None
    BY <2>2, <1>1 DEF SuccessorUnused, Version
  <2> SUFFICES ASSUME NEW d \in Ids, NEW e \in Ids, NEW x \in Row, NEW y \in Row,
                      Version(d, x)', Version(e, y)', d # e, x.succ = y.succ
               PROVE  x.succ = None
    BY DEF SuccessorsDistinct, Version
  <2>3. CASE Version(d, x) /\ Version(e, y)
    BY <2>3 DEF SuccessorsDistinct
  <2>4. CASE Version(d, x) /\ e = r /\ y = new
    BY <2>4, <2>2
  <2>5. CASE d = r /\ x = new /\ Version(e, y)
    BY <2>5, <2>2
  <2> QED  BY <2>1, <2>3, <2>4, <2>5
<1> QED  BY <1>4, <1>7, <1>8

(* A session that ends without committing leaves the others as they were. *)
LEMMA StepEnded ==
  ASSUME GuardInv, NEW s \in Sessions, Ended(s), UNCHANGED table
  PROVE  GuardInv'
<1> USE DEF GuardInv
<1>1. /\ \A r \in Ids : dirty'[s][r] = NoRow
      /\ \A t \in Sessions \ {s}, r \in Ids : dirty'[t][r] = dirty[t][r]
      /\ \A r \in Ids : owner[r] # s => owner'[r] = owner[r]
  BY EndedTypes DEF Clean
<1>2. TypeOK'
  BY EndedTypes DEF TypeOK
<1>3. WritesOwned'
  BY <1>1 DEF WritesOwned, Checks, CorrectionStep
<1>4. ASSUME NEW r \in Ids, NEW x, Version(r, x)' PROVE Version(r, x)
  BY <1>1, <1>4 DEF Version
<1>5. SuccessorsDistinct'
  BY <1>4 DEF SuccessorsDistinct
<1> QED  BY <1>2, <1>3, <1>5

(* A commit turns versions in flight into committed ones, and adds none. *)
LEMMA StepCommit ==
  ASSUME GuardInv, NEW s \in Sessions, Commit(s)
  PROVE  GuardInv'
<1> USE DEF GuardInv
<1>1. /\ \A r \in Ids : dirty'[s][r] = NoRow
      /\ \A t \in Sessions \ {s}, r \in Ids : dirty'[t][r] = dirty[t][r]
      /\ \A r \in Ids : owner[r] # s => owner'[r] = owner[r]
  BY EndedTypes DEF Clean, Commit
<1>2. \A r \in Ids : table'[r] = IF dirty[s][r] # NoRow THEN dirty[s][r] ELSE table[r]
  BY DEF Commit, View
<1>3. TypeOK'
  <2>1. table' \in [Ids -> Row \cup {NoRow}]
    BY DEF Commit, View, TypeOK
  <2>2. \A r \in Ids :
          table'[r] # NoRow => (table'[r].status = "ACTIVE" <=> table'[r].succ = None)
    <3> SUFFICES ASSUME NEW r \in Ids, table'[r] # NoRow
                 PROVE  table'[r].status = "ACTIVE" <=> table'[r].succ = None
      OBVIOUS
    <3>1. CASE dirty[s][r] # NoRow
      <4>1. table'[r] = dirty[s][r] /\ Checks(r, dirty[s][r])
        BY <3>1, <1>2 DEF WritesOwned
      <4> QED  BY <4>1 DEF Checks
    <3>2. CASE dirty[s][r] = NoRow
      <4>1. table'[r] = table[r]
        BY <3>2, <1>2
      <4> QED  BY <4>1 DEF TypeOK
    <3> QED  BY <3>1, <3>2
  <2> QED  BY <2>1, <2>2, EndedTypes DEF Commit, TypeOK
<1>4. WritesOwned'
  <2> SUFFICES ASSUME NEW t \in Sessions, NEW r \in Ids, dirty'[t][r] # NoRow
               PROVE  /\ \A u \in Sessions : dirty'[u][r] # NoRow => u = t
                      /\ Checks(r, dirty'[t][r])
                      /\ table'[r] # NoRow =>
                           owner'[r] = t /\ CorrectionStep(table'[r], dirty'[t][r])
    BY DEF WritesOwned, Checks, CorrectionStep
  <2>1. t # s /\ dirty[t][r] = dirty'[t][r]
    BY <1>1
  <2>2. dirty[s][r] = NoRow
    BY <2>1 DEF WritesOwned
  <2> QED  BY <2>1, <2>2, <1>1, <1>2 DEF WritesOwned
<1>5. ASSUME NEW r \in Ids, NEW x, Version(r, x)' PROVE Version(r, x)
  BY <1>1, <1>2, <1>5 DEF Version
<1>6. SuccessorsDistinct'
  BY <1>5 DEF SuccessorsDistinct
<1> QED  BY <1>3, <1>4, <1>6

(* Every step of every session keeps the invariant. *)
LEMMA GuardStep == GuardInv /\ [Next]_vars => GuardInv'
<1> SUFFICES ASSUME GuardInv, [Next]_vars PROVE GuardInv'
  OBVIOUS
<1>1. CASE UNCHANGED vars
  BY <1>1 DEF vars, GuardInv, TypeOK, WritesOwned, SuccessorsDistinct, Version, Checks,
              CorrectionStep
<1>2. ASSUME NEW s \in Sessions, CheckReference(s) PROVE GuardInv'
  BY <1>2 DEF CheckReference, GuardInv, TypeOK, WritesOwned, SuccessorsDistinct, Version,
              Checks, CorrectionStep
<1>3. CASE Next
  BY <1>2, <1>3, StepInsert, StepUpdate, StepEnded, StepCommit DEF Next, Delete, Abort
<1> QED  BY <1>1, <1>3

-----------------------------------------------------------------------------
(* The invariant holds in every reachable state, whatever SQL is run. *)
THEOREM GuardInvariant == Spec => []GuardInv
BY InitGuard, GuardStep, PTL DEF Spec

(* Rows and locks are typed, and a committed row is ACTIVE exactly when it has *)
(* no successor.                                                               *)
THEOREM GuardTypes == Spec => []TypeOK
BY GuardInvariant, PTL DEF GuardInv

(* Chains do not fork: no two committed rows name the same successor, whatever  *)
(* the sessions write and in whatever order they commit.                        *)
THEOREM ChainsDoNotFork == Spec => []NoForks
<1>1. GuardInv => NoForks
  <2> SUFFICES ASSUME GuardInv, NEW r \in Ids, NEW e \in Ids, Exists(r), Exists(e),
                      table[r].succ = table[e].succ, r # e
               PROVE  table[r].succ = None
    BY DEF NoForks
  <2>1. table[r] \in Row /\ table[e] \in Row
    BY DEF Exists, GuardInv, TypeOK
  <2>2. Version(r, table[r]) /\ Version(e, table[e])
    BY DEF Version, Exists
  <2> QED  BY <2>1, <2>2 DEF GuardInv, SuccessorsDistinct
<1> QED  BY <1>1, GuardInvariant, PTL

(* Committed rows stand: no commit drops one, changes its data, or gives a   *)
(* superseded one another successor.                                         *)
THEOREM CommittedRowsAreKept == Spec => CommittedRowsStand
<1> DEFINE Kept(r) ==
      /\ Exists(r)'
      /\ table'[r].data = table[r].data
      /\ table[r].status = "SUPERSEDED" => table'[r] = table[r]
<1>1. GuardInv /\ [Next]_vars => [\A r \in Ids : Exists(r) => Kept(r)]_vars
  <2> SUFFICES ASSUME GuardInv, Next, NEW r \in Ids, Exists(r) PROVE Kept(r)
    OBVIOUS
  <2>1. CASE UNCHANGED table
    BY <2>1 DEF Exists
  <2>2. ASSUME NEW s \in Sessions, Commit(s) PROVE Kept(r)
    <3>1. table'[r] = IF dirty[s][r] # NoRow THEN dirty[s][r] ELSE table[r]
      BY <2>2 DEF Commit, View
    <3>2. dirty[s][r] # NoRow => CorrectionStep(table[r], dirty[s][r])
      BY DEF GuardInv, WritesOwned, Exists
    <3> QED  BY <3>1, <3>2 DEF Exists, CorrectionStep
  <2> QED
    BY <2>1, <2>2 DEF Next, Insert, Update, CheckReference, Delete, Abort
<1>2. Spec => [][\A r \in Ids : Exists(r) => Kept(r)]_vars
  BY <1>1, GuardInvariant, PTL DEF Spec
<1> QED  BY <1>2 DEF CommittedRowsStand
-----------------------------------------------------------------------------
(* Two rows never supersede each other.                                    *)

(* A reference a session has written is owed to its foreign key, or the row is  *)
(* there for the session and held.                                              *)
ReferencesHeld ==
  \A s \in Sessions, r \in Ids :
    dirty[s][r] # NoRow /\ dirty[s][r].succ # None /\ dirty[s][r].succ \notin owed[s] =>
      View(s)[dirty[s][r].succ] # NoRow /\ s \in shared[dirty[s][r].succ]

(* Nobody holds a row that another session has updated. *)
LocksExclude ==
  \A r \in Ids, s \in Sessions : s \in shared[r] => owner[r] \in {None, s}

(* The row a committed row refers to is there. *)
ReferencesReal ==
  \A r \in Ids : Exists(r) /\ table[r].succ # None => Exists(table[r].succ)

(* Nowhere in rows do two supersede each other. *)
NoPairIn(rows) ==
  \A r, e \in Ids :
    rows[r] # NoRow /\ rows[e] # NoRow /\ rows[r].succ = e => rows[e].succ # r

(* Two sessions may each have written one half of a pair, and then both wait *)
(* for ever to refer to the other's row.                                     *)
HalvesWait ==
  \A s, t \in Sessions, r, e \in Ids :
    /\ s # t
    /\ dirty[s][r] # NoRow /\ dirty[s][r].succ = e
    /\ dirty[t][e] # NoRow /\ dirty[t][e].succ = r
    => e \in owed[s] /\ r \in owed[t]

PairInv ==
  /\ GuardInv /\ ReferencesHeld /\ LocksExclude /\ ReferencesReal /\ HalvesWait
  /\ NoPairIn(table)
  /\ \A s \in Sessions : NoPairIn(View(s))

(* What a session sees of a row, and of what kind it is. *)
LEMMA SeenTypes ==
  ASSUME TypeOK, NEW s \in Sessions, NEW r \in Ids
  PROVE  /\ View(s)[r] = IF dirty[s][r] # NoRow THEN dirty[s][r] ELSE table[r]
         /\ View(s)[r] \in Row \cup {NoRow}
         /\ dirty[s][r] # NoRow => dirty[s][r] \in Row
         /\ table[r] # NoRow => table[r] \in Row
BY DEF View, TypeOK

(* At the start nothing refers to anything. *)
LEMMA InitPairs == Init => PairInv
<1> SUFFICES ASSUME Init PROVE PairInv
  OBVIOUS
<1>1. GuardInv
  BY InitGuard
<1>2. \A s \in Sessions, r \in Ids : dirty[s][r] = NoRow
  BY DEF Init, Clean
<1>3. \A r \in Ids : Exists(r) => table[r].succ = None
  BY DEF Init, Exists
<1>4. ReferencesHeld /\ LocksExclude /\ ReferencesReal /\ HalvesWait
  BY <1>2, <1>3 DEF Init, ReferencesHeld, LocksExclude, ReferencesReal, HalvesWait
<1>5. \A s \in Sessions, r \in Ids : View(s)[r] = table[r]
  BY <1>2 DEF View
<1>6. NoPairIn(table)
  BY <1>3, GuardAssumption DEF NoPairIn, Exists
<1>7. \A s \in Sessions : NoPairIn(View(s))
  BY <1>5, <1>6 DEF NoPairIn
<1> QED  BY <1>1, <1>4, <1>6, <1>7 DEF PairInv

(* One row more, r as row: by INSERT if nobody has it, by UPDATE if s sees it     *)
(* ACTIVE and may lock it.                                                        *)
LEMMA WritesKeepPairs ==
  ASSUME PairInv, GuardInv', NEW s \in Sessions, NEW r \in Ids, NEW row \in Row, Ready(s),
         row.succ # r,
         dirty' = [dirty EXCEPT ![s][r] = row],
         \/ Unused(r) /\ owner' = owner
         \/ /\ View(s)[r] # NoRow /\ RowFree(s, r) /\ owner' = [owner EXCEPT ![r] = s]
            /\ View(s)[row.succ] # NoRow /\ View(s)[row.succ].succ = None,
         owed' = [owed EXCEPT ![s] = {row.succ} \ {None}],
         UNCHANGED <<table, shared>>
  PROVE  PairInv'
<1> USE DEF PairInv, GuardInv
<1>1. /\ row # NoRow
      /\ \A t \in Sessions, e \in Ids :
           dirty'[t][e] = IF t = s /\ e = r THEN row ELSE dirty[t][e]
      /\ \A t \in Sessions : owed'[t] = IF t = s THEN {row.succ} \ {None} ELSE owed[t]
      /\ owed[s] = {}
      /\ row.succ \in Ids \cup {None}
  BY GuardAssumption DEF TypeOK, Ready, Row
<1>2. \A t \in Sessions, e \in Ids :
        View(t)'[e] = IF t = s /\ e = r THEN row ELSE View(t)[e]
  BY <1>1 DEF View
<1>3. ASSUME NEW t \in Sessions, NEW e \in Ids, dirty[t][e] # NoRow, dirty[t][e].succ = r
      PROVE  (t # s /\ r \in owed[t]) \/ (t = s /\ ~Unused(r))
  <2>1. CASE r \in owed[t]
    BY <2>1, <1>1
  <2>2. CASE r \notin owed[t]
    <3>1. View(t)[r] # NoRow /\ t \in shared[r]
      BY <2>2, <1>3, GuardAssumption DEF ReferencesHeld
    <3>2. ~Unused(r)
      BY <3>1 DEF Unused, View
    <3>3. t = s
      BY <3>1, <3>2 DEF RowFree
    <3> QED  BY <3>2, <3>3
  <2> QED  BY <2>1, <2>2
<1>4. ASSUME NEW e \in Ids, row.succ = e, View(s)[e] # NoRow, View(s)[e].succ = r
      PROVE  FALSE
  <2>1. Unused(r)
    BY <1>4, GuardAssumption
  <2>2. CASE dirty[s][e] # NoRow
    BY <1>3, <1>4, <2>1, <2>2 DEF View
  <2>3. CASE dirty[s][e] = NoRow
    <3>1. Exists(e) /\ table[e].succ = r /\ r # None
      BY <1>4, <2>3, GuardAssumption DEF View, Exists
    <3> QED  BY <3>1, <2>1 DEF ReferencesReal, Exists, Unused
  <2> QED  BY <2>2, <2>3
<1>5. ReferencesHeld'
  <2> SUFFICES ASSUME NEW t \in Sessions, NEW e \in Ids, dirty'[t][e] # NoRow,
                      dirty'[t][e].succ # None, dirty'[t][e].succ \notin owed'[t]
               PROVE  View(t)'[dirty'[t][e].succ] # NoRow /\ t \in shared[dirty'[t][e].succ]
    BY DEF ReferencesHeld
  <2>1. ~(t = s /\ e = r)
    BY <1>1
  <2>2. dirty'[t][e] = dirty[t][e] /\ dirty[t][e].succ \notin owed[t] /\ dirty[t][e].succ \in Ids
    BY <2>1, <1>1, SeenTypes DEF Row
  <2>3. View(t)[dirty[t][e].succ] # NoRow /\ t \in shared[dirty[t][e].succ]
    BY <2>2 DEF ReferencesHeld
  <2> QED  BY <2>2, <2>3, <1>1, <1>2
<1>6. LocksExclude'
  BY DEF LocksExclude, RowFree, TypeOK
<1>7. ReferencesReal'
  BY DEF ReferencesReal, Exists
<1>8. HalvesWait'
  <2> SUFFICES ASSUME NEW t \in Sessions, NEW u \in Sessions, NEW d \in Ids, NEW e \in Ids, t # u,
                      dirty'[t][d] # NoRow, dirty'[t][d].succ = e,
                      dirty'[u][e] # NoRow, dirty'[u][e].succ = d
               PROVE  e \in owed'[t] /\ d \in owed'[u]
    BY DEF HalvesWait
  <2>1. CASE t = s /\ d = r
    BY <2>1, <1>1, <1>3, GuardAssumption
  <2>2. CASE u = s /\ e = r
    BY <2>2, <1>1, <1>3, GuardAssumption
  <2>3. CASE ~(t = s /\ d = r) /\ ~(u = s /\ e = r)
    <3>1. e \in owed[t] /\ d \in owed[u]
      BY <2>3, <1>1 DEF HalvesWait
    <3> QED  BY <3>1, <1>1
  <2> QED  BY <2>1, <2>2, <2>3
<1>9. NoPairIn(table)'
  BY DEF NoPairIn
<1>10. ASSUME NEW t \in Sessions PROVE NoPairIn(View(t)')
  <2> SUFFICES ASSUME NEW d \in Ids, NEW e \in Ids, View(t)'[d] # NoRow, View(t)'[e] # NoRow,
                      View(t)'[d].succ = e, View(t)'[e].succ = d
               PROVE  FALSE
    BY DEF NoPairIn
  <2>1. CASE t = s /\ d = r
    BY <2>1, <1>2, <1>4
  <2>2. CASE t = s /\ e = r
    BY <2>2, <1>2, <1>4
  <2>3. CASE ~(t = s /\ d = r) /\ ~(t = s /\ e = r)
    BY <2>3, <1>2 DEF NoPairIn
  <2> QED  BY <2>1, <2>2, <2>3
<1>11. \A t \in Sessions : NoPairIn(View(t))'
  BY <1>10 DEF NoPairIn
<1> QED  BY <1>5, <1>6, <1>7, <1>8, <1>9, <1>11

(* The end of a session: what it wrote is gone, or in the table as it saw it. *)
LEMMA EndsKeepPairs ==
  ASSUME PairInv, GuardInv', NEW s \in Sessions, Ended(s),
         \/ table' = table
         \/ Ready(s) /\ table' = View(s)
  PROVE  PairInv'
<1> USE DEF PairInv, GuardInv
<1>1. /\ \A e \in Ids : dirty'[s][e] = NoRow
      /\ \A t \in Sessions \ {s} : dirty'[t] = dirty[t] /\ owed'[t] = owed[t]
      /\ \A e \in Ids : shared'[e] = shared[e] \ {s}
      /\ \A e \in Ids : owner'[e] = IF owner[e] = s THEN None ELSE owner[e]
  BY DEF Ended, Clean, TypeOK
<1>2. \A e \in Ids : Exists(e) => table'[e] # NoRow
  BY DEF View, Exists
<1>3. \A t \in Sessions, e \in Ids :
        View(t)'[e] = IF t # s /\ dirty[t][e] # NoRow THEN dirty[t][e] ELSE table'[e]
  BY <1>1 DEF View
<1>4. NoPairIn(table')
  OBVIOUS
<1>5. ReferencesHeld'
  <2> SUFFICES ASSUME NEW t \in Sessions, NEW e \in Ids, dirty'[t][e] # NoRow,
                      dirty'[t][e].succ # None, dirty'[t][e].succ \notin owed'[t]
               PROVE  View(t)'[dirty'[t][e].succ] # NoRow /\ t \in shared'[dirty'[t][e].succ]
    BY DEF ReferencesHeld
  <2>1. t # s /\ dirty'[t][e] = dirty[t][e] /\ owed'[t] = owed[t] /\ dirty[t][e].succ \in Ids
    BY <1>1, SeenTypes DEF Row
  <2>2. View(t)[dirty[t][e].succ] # NoRow /\ t \in shared[dirty[t][e].succ]
    BY <2>1 DEF ReferencesHeld
  <2> QED  BY <2>1, <2>2, <1>1, <1>2, <1>3 DEF View, Exists
<1>6. LocksExclude'
  BY <1>1 DEF LocksExclude
<1>7. ReferencesReal'
  <2>1. CASE table' = table
    BY <2>1 DEF ReferencesReal, Exists
  <2>2. CASE Ready(s) /\ table' = View(s)
    <3> SUFFICES ASSUME NEW e \in Ids, View(s)[e] # NoRow, View(s)[e].succ # None
                 PROVE  View(s)[View(s)[e].succ] # NoRow
      BY <2>2 DEF ReferencesReal, Exists
    <3>1. CASE dirty[s][e] # NoRow
      BY <3>1, <2>2, SeenTypes DEF ReferencesHeld, Ready
    <3>2. CASE dirty[s][e] = NoRow
      <4>1. Exists(e) /\ View(s)[e] = table[e] /\ table[e].succ \in Ids
        BY <3>2, SeenTypes DEF Exists, Row
      <4> QED  BY <4>1, SeenTypes DEF ReferencesReal, Exists
    <3> QED  BY <3>1, <3>2
  <2> QED  BY <2>1, <2>2
<1>8. HalvesWait'
  BY <1>1 DEF HalvesWait
<1>9. ASSUME NEW t \in Sessions, NEW d \in Ids, NEW e \in Ids,
             View(t)'[d] # NoRow, View(t)'[e] # NoRow, View(t)'[d].succ = e, View(t)'[e].succ = d
      PROVE  FALSE
  <2>1. CASE t = s
    BY <2>1, <1>3, <1>4, <1>9 DEF NoPairIn
  <2>2. CASE t # s
    <3>1. ASSUME NEW x \in Ids, NEW y \in Ids, dirty[t][x] # NoRow, dirty[t][x].succ = y,
                 table'[y] # NoRow, table'[y].succ = x, dirty[t][y] = NoRow
          PROVE  FALSE
      <4>1. CASE table'[y] = table[y]
        <5>1. View(t)[x] = dirty[t][x] /\ View(t)[y] = table[y]
          BY <3>1 DEF View
        <5> QED  BY <5>1, <4>1, <3>1 DEF NoPairIn
      <4>2. CASE table'[y] # table[y]
        <5>1. Ready(s) /\ dirty[s][y] # NoRow /\ dirty[s][y].succ = x
          BY <4>2, <3>1 DEF View
        <5> QED  BY <5>1, <3>1, <2>2 DEF HalvesWait, Ready
      <4> QED  BY <4>1, <4>2
    <3>2. CASE dirty[t][d] # NoRow /\ dirty[t][e] # NoRow
      <4>1. View(t)[d] = dirty[t][d] /\ View(t)[e] = dirty[t][e]
        BY <3>2 DEF View
      <4> QED  BY <4>1, <3>2, <2>2, <1>3, <1>9 DEF NoPairIn
    <3>3. CASE dirty[t][d] = NoRow /\ dirty[t][e] = NoRow
      BY <3>3, <1>3, <1>4, <1>9 DEF NoPairIn
    <3>4. CASE dirty[t][d] # NoRow /\ dirty[t][e] = NoRow
      BY <3>1, <3>4, <2>2, <1>3, <1>9
    <3>5. CASE dirty[t][d] = NoRow /\ dirty[t][e] # NoRow
      BY <3>1, <3>5, <2>2, <1>3, <1>9
    <3> QED  BY <3>2, <3>3, <3>4, <3>5
  <2> QED  BY <2>1, <2>2
<1>10. \A t \in Sessions : NoPairIn(View(t))'
  BY <1>9 DEF NoPairIn
<1>11. NoPairIn(table)'
  BY <1>4
<1> QED  BY <1>5, <1>6, <1>7, <1>8, <1>10, <1>11

(* A foreign key that finds its row free finds no half of a pair there. *)
LEMMA ChecksKeepPairs ==
  ASSUME PairInv, GuardInv', NEW s \in Sessions, CheckReference(s)
  PROVE  PairInv'
<1> USE DEF PairInv, GuardInv
<1>1. PICK r \in Ids :
        /\ r \in owed[s] /\ View(s)[r] # NoRow /\ owner[r] \in {None, s}
        /\ shared' = [shared EXCEPT ![r] = @ \cup {s}]
        /\ owed' = [owed EXCEPT ![s] = @ \ {r}]
  BY DEF CheckReference, TypeOK
<1>2. UNCHANGED <<table, dirty, owner>>
  BY DEF CheckReference
<1>3. /\ \A t \in Sessions : owed'[t] = IF t = s THEN owed[s] \ {r} ELSE owed[t]
      /\ \A e \in Ids : shared'[e] = IF e = r THEN shared[r] \cup {s} ELSE shared[e]
      /\ \A t \in Sessions : View(t)' = View(t)
  BY <1>1, <1>2 DEF TypeOK, View
<1>4. ASSUME NEW t \in Sessions, t # s PROVE dirty[t][r] = NoRow
  <2> SUFFICES ASSUME dirty[t][r] # NoRow PROVE FALSE
    OBVIOUS
  <2>1. dirty[s][r] = NoRow
    BY <1>4 DEF WritesOwned
  <2>2. table[r] # NoRow
    BY <2>1, <1>1 DEF View
  <2>3. owner[r] = t
    BY <2>2 DEF WritesOwned
  <2> QED  BY <2>3, <1>1, <1>4, GuardAssumption
<1>5. ReferencesHeld'
  <2> SUFFICES ASSUME NEW t \in Sessions, NEW e \in Ids, dirty[t][e] # NoRow,
                      dirty[t][e].succ # None, dirty[t][e].succ \notin owed'[t]
               PROVE  View(t)[dirty[t][e].succ] # NoRow /\ t \in shared'[dirty[t][e].succ]
    BY <1>2, <1>3 DEF ReferencesHeld
  <2>1. dirty[t][e].succ \in Ids
    BY SeenTypes DEF Row
  <2>2. CASE t = s /\ dirty[t][e].succ = r
    BY <2>2, <1>1, <1>3
  <2>3. CASE ~(t = s /\ dirty[t][e].succ = r)
    <3>1. dirty[t][e].succ \notin owed[t]
      BY <2>3, <1>3
    <3> QED  BY <3>1, <2>1, <1>3 DEF ReferencesHeld
  <2> QED  BY <2>2, <2>3
<1>6. LocksExclude'
  BY <1>1, <1>2, <1>3 DEF LocksExclude
<1>7. ReferencesReal'
  BY <1>2 DEF ReferencesReal, Exists
<1>8. HalvesWait'
  <2> SUFFICES ASSUME NEW t \in Sessions, NEW u \in Sessions, NEW d \in Ids, NEW e \in Ids, t # u,
                      dirty[t][d] # NoRow, dirty[t][d].succ = e,
                      dirty[u][e] # NoRow, dirty[u][e].succ = d
               PROVE  e \in owed'[t] /\ d \in owed'[u]
    BY <1>2 DEF HalvesWait
  <2>1. e \in owed[t] /\ d \in owed[u]
    BY DEF HalvesWait
  <2>2. ~(t = s /\ e = r) /\ ~(u = s /\ d = r)
    BY <1>4
  <2> QED  BY <2>1, <2>2, <1>3
<1>9. NoPairIn(table)' /\ \A t \in Sessions : NoPairIn(View(t))'
  BY <1>2, <1>3 DEF NoPairIn
<1> QED  BY <1>5, <1>6, <1>7, <1>8, <1>9

(* An INSERT of one row. *)
LEMMA InsertsOneRow ==
  ASSUME MaxRows = 1, IsFiniteSet(Ids), TypeOK, NEW s \in Sessions, Insert(s)
  PROVE  /\ Ready(s) /\ UNCHANGED <<table, owner, shared>>
         /\ \E r \in Ids, row \in Row :
              /\ Unused(r) /\ Checks(r, row)
              /\ dirty' = [dirty EXCEPT ![s][r] = row]
              /\ owed' = [owed EXCEPT ![s] = {row.succ} \ {None}]
<1>1. PICK new \in SUBSET {r \in Ids : Unused(r)} :
        /\ new # {} /\ Cardinality(new) <= 1
        /\ \E rows \in [new -> Row] :
             /\ \A r \in new : Checks(r, rows[r])
             /\ dirty' = [dirty EXCEPT ![s] = [r \in Ids |-> IF r \in new THEN rows[r] ELSE @[r]]]
             /\ owed' = [owed EXCEPT ![s] = {rows[r].succ : r \in new} \ {None}]
  BY DEF Insert
<1>2. PICK r \in new : TRUE
  BY <1>1
<1>3. new = {r}
  <2>1. IsFiniteSet(new)
    BY FS_Subset
  <2>2. Cardinality(new) = 1
    BY <2>1, <1>1, FS_CardinalityType, FS_EmptySet
  <2> QED  BY <2>1, <2>2, <1>2, FS_Singleton
<1>4. PICK rows \in [new -> Row] :
        /\ \A e \in new : Checks(e, rows[e])
        /\ dirty' = [dirty EXCEPT ![s] = [e \in Ids |-> IF e \in new THEN rows[e] ELSE @[e]]]
        /\ owed' = [owed EXCEPT ![s] = {rows[e].succ : e \in new} \ {None}]
  BY <1>1
<1>5. r \in Ids /\ Unused(r) /\ rows[r] \in Row /\ Checks(r, rows[r])
  BY <1>2, <1>4
<1>6. dirty' = [dirty EXCEPT ![s][r] = rows[r]]
  <2>1. [e \in Ids |-> IF e \in new THEN rows[e] ELSE dirty[s][e]] = [dirty[s] EXCEPT ![r] = rows[r]]
    BY <1>3, <1>5 DEF TypeOK
  <2> QED  BY <1>4, <2>1
<1>7. owed' = [owed EXCEPT ![s] = {rows[r].succ} \ {None}]
  <2>1. {rows[e].succ : e \in new} = {rows[r].succ}
    BY <1>3
  <2> QED  BY <1>4, <2>1
<1>8. Ready(s) /\ UNCHANGED <<table, owner, shared>>
  BY DEF Insert
<1> QED  BY <1>5, <1>6, <1>7, <1>8

(* An UPDATE of one row: from ACTIVE, to superseded by a row seen ACTIVE. *)
LEMMA UpdatesOneRow ==
  ASSUME GuardInv, NEW s \in Sessions, Update(s)
  PROVE  /\ Ready(s) /\ UNCHANGED <<table, shared>>
         /\ \E r \in Ids, row \in Row :
              /\ View(s)[r] # NoRow /\ RowFree(s, r)
              /\ CorrectionStep(View(s)[r], row)
              /\ row.succ \in Ids \ {r}
              /\ View(s)[row.succ] # NoRow /\ View(s)[row.succ].succ = None
              /\ dirty' = [dirty EXCEPT ![s][r] = row]
              /\ owner' = [owner EXCEPT ![r] = s]
              /\ owed' = [owed EXCEPT ![s] = {row.succ} \ {None}]
<1>1. PICK r \in Ids, row \in Row :
        /\ View(s)[r] # NoRow
        /\ RowFree(s, r)
        /\ CorrectionStep(View(s)[r], row)
        /\ SuccessorActive(s, row)
        /\ Checks(r, row)
        /\ dirty' = [dirty EXCEPT ![s][r] = row]
        /\ owner' = [owner EXCEPT ![r] = s]
        /\ owed' = [owed EXCEPT ![s] = {row.succ}]
  BY DEF Update
<1>2. row.succ \in Ids \ {r} /\ {row.succ} = {row.succ} \ {None}
  BY <1>1, GuardAssumption DEF CorrectionStep, Row, Checks
<1>3. View(s)[row.succ] # NoRow /\ View(s)[row.succ].succ = None
  <2>1. CASE dirty[s][row.succ] # NoRow
    BY <2>1, <1>1, <1>2 DEF SuccessorActive, View, GuardInv, WritesOwned, Checks
  <2>2. CASE dirty[s][row.succ] = NoRow
    BY <2>2, <1>1, <1>2 DEF SuccessorActive, View, GuardInv, TypeOK
  <2> QED  BY <2>1, <2>2
<1>4. Ready(s) /\ UNCHANGED <<table, shared>>
  BY DEF Update
<1> QED  BY <1>1, <1>2, <1>3, <1>4

(* One row at a time, every step keeps pairs away. *)
LEMMA PairStep ==
  ASSUME MaxRows = 1, IsFiniteSet(Ids), PairInv, [Next]_vars
  PROVE  PairInv'
<1>1. GuardInv'
  BY GuardStep DEF PairInv
<1>2. CASE UNCHANGED vars
  <2>1. \A t \in Sessions : View(t)' = View(t)
    BY <1>2 DEF vars, View
  <2> QED
    BY <1>1, <1>2, <2>1 DEF vars, PairInv, ReferencesHeld, LocksExclude, ReferencesReal, HalvesWait,
       NoPairIn, Exists
<1>3. ASSUME NEW s \in Sessions, Insert(s) PROVE PairInv'
  <2>1. TypeOK
    BY DEF PairInv, GuardInv
  <2> QED  BY <1>1, <1>3, <2>1, InsertsOneRow, WritesKeepPairs DEF Checks
<1>4. ASSUME NEW s \in Sessions, Update(s) PROVE PairInv'
  <2>1. GuardInv
    BY DEF PairInv
  <2> QED  BY <1>1, <1>4, <2>1, UpdatesOneRow, WritesKeepPairs
<1>5. ASSUME NEW s \in Sessions, CheckReference(s) PROVE PairInv'
  BY <1>1, <1>5, ChecksKeepPairs
<1>6. ASSUME NEW s \in Sessions, Delete(s) \/ Commit(s) \/ Abort(s) PROVE PairInv'
  BY <1>1, <1>6, EndsKeepPairs DEF Delete, Commit, Abort
<1> QED  BY <1>2, <1>3, <1>4, <1>5, <1>6 DEF Next

(* As long as an INSERT brings one row, as the service's do, two rows never *)
(* supersede each other, whatever the sessions write.                       *)
THEOREM PairsNeverSupersedeEachOther ==
  ASSUME MaxRows = 1, IsFiniteSet(Ids)
  PROVE  Spec => []NoMutualSupersession
<1>1. PairInv => NoMutualSupersession
  BY DEF PairInv, NoPairIn, NoMutualSupersession, Exists
<1>2. PairInv /\ [Next]_vars => PairInv'
  BY PairStep
<1> QED  BY <1>1, <1>2, InitPairs, PTL DEF Spec

-----------------------------------------------------------------------------
(* Chains end, while transactions write one after the other.               *)

(* Rows of the table's schema, ACTIVE exactly when nothing supersedes them. *)
Proper(rows) ==
  \A r \in Ids :
    rows[r] # NoRow =>
      /\ rows[r].succ \in Ids \cup {None}
      /\ rows[r].status = "ACTIVE" <=> rows[r].succ = None

ActiveIn(rows, chain) == {e \in chain : rows[e].status = "ACTIVE"}

(* Every row leads to rows that exist, and to one ACTIVE one. *)
Complete(rows) ==
  \A r \in Ids :
    rows[r] # NoRow =>
      /\ \A e \in Onward(rows, r) : rows[e] # NoRow
      /\ \E h \in Ids : ActiveIn(rows, Onward(rows, r)) = {h}

(* As long as the sessions have written one after the other: one at most is   *)
(* writing, every committed row leads to an ACTIVE one, and so does every row *)
(* a session sees, if the references it still owes its foreign key are real.  *)
SerialInv ==
  ~overlapped =>
    /\ \A s, t \in Sessions : s # t => dirty[s] = Clean \/ dirty[t] = Clean
    /\ Complete(table)
    /\ \A s \in Sessions :
         (\A t \in owed[s] : View(s)[t] # NoRow) => Complete(View(s))

(* A chain starts at its row, follows corrections, and is the least such set. *)
LEMMA OnwardFacts ==
  ASSUME NEW rows, Proper(rows), NEW r \in Ids, NEW chain, chain = Onward(rows, r)
  PROVE  /\ chain \subseteq Ids
         /\ r \in chain
         /\ FollowsCorrections(rows, chain)
         /\ \A T \in SUBSET Ids : r \in T /\ FollowsCorrections(rows, T) => chain \subseteq T
<1>1. /\ chain \subseteq Ids /\ r \in chain
      /\ \A T \in SUBSET Ids : r \in T /\ FollowsCorrections(rows, T) => chain \subseteq T
  BY DEF Onward
<1>2. ASSUME NEW x \in chain, rows[x] # NoRow, rows[x].succ # None
      PROVE  rows[x].succ \in chain
  <2>1. x \in Ids /\ rows[x].succ \in Ids
    BY <1>1, <1>2 DEF Proper
  <2>2. ASSUME NEW T \in SUBSET Ids, r \in T, FollowsCorrections(rows, T)
        PROVE  rows[x].succ \in T
    BY <1>1, <1>2, <2>2 DEF FollowsCorrections
  <2> QED  BY <2>1, <2>2 DEF Onward
<1> QED  BY <1>1, <1>2 DEF FollowsCorrections

(* A new row, which nothing refers to: it ends its own chain, or leads on to a *)
(* row that is there.                                                          *)
LEMMA NewRowIsComplete ==
  ASSUME NEW old, NEW new, Proper(old), Proper(new), Complete(old),
         NEW r \in Ids, old[r] = NoRow, new[r] # NoRow, new[r].succ # r,
         new[r].succ # None => new[new[r].succ] # NoRow,
         \A e \in Ids \ {r} : new[e] = old[e]
  PROVE  Complete(new)
<1> USE GuardAssumption
<1>1. ASSUME NEW x \in Ids, old[x] # NoRow
      PROVE  /\ Onward(new, x) = Onward(old, x)
             /\ \A e \in Onward(new, x) : new[e] # NoRow
             /\ \E h \in Ids : ActiveIn(new, Onward(new, x)) = {h}
  <2>1. PICK L : L = Onward(old, x)
    OBVIOUS
  <2>2. PICK M : M = Onward(new, x)
    OBVIOUS
  <2>3. /\ L \subseteq Ids /\ x \in L /\ FollowsCorrections(old, L)
        /\ \A T \in SUBSET Ids : x \in T /\ FollowsCorrections(old, T) => L \subseteq T
    BY <2>1, OnwardFacts
  <2>4. /\ M \subseteq Ids /\ x \in M /\ FollowsCorrections(new, M)
        /\ \A T \in SUBSET Ids : x \in T /\ FollowsCorrections(new, T) => M \subseteq T
    BY <2>2, OnwardFacts
  <2>5. \A e \in L : e # r /\ old[e] # NoRow /\ new[e] = old[e]
    BY <1>1, <2>1, <2>3 DEF Complete
  <2>6. FollowsCorrections(new, L) /\ FollowsCorrections(old, M)
    BY <2>3, <2>4, <2>5 DEF FollowsCorrections
  <2>7. M = L
    BY <2>3, <2>4, <2>6
  <2>8. ActiveIn(new, L) = ActiveIn(old, L)
    BY <2>5 DEF ActiveIn
  <2> QED  BY <1>1, <2>1, <2>2, <2>5, <2>7, <2>8 DEF Complete
<1>2. /\ \A e \in Onward(new, r) : new[e] # NoRow
      /\ \E h \in Ids : ActiveIn(new, Onward(new, r)) = {h}
  <2>1. PICK M : M = Onward(new, r)
    OBVIOUS
  <2>2. /\ M \subseteq Ids /\ r \in M /\ FollowsCorrections(new, M)
        /\ \A T \in SUBSET Ids : r \in T /\ FollowsCorrections(new, T) => M \subseteq T
    BY <2>1, OnwardFacts
  <2>3. CASE new[r].succ = None
    <3>1. FollowsCorrections(new, {r})
      BY <2>3 DEF FollowsCorrections
    <3>2. M = {r}
      BY <2>2, <3>1
    <3>3. ActiveIn(new, {r}) = {r}
      BY <2>3 DEF ActiveIn, Proper
    <3> QED  BY <2>1, <3>2, <3>3
  <2>4. CASE new[r].succ # None
    <3>1. PICK e \in Ids \ {r} : e = new[r].succ /\ old[e] # NoRow
      BY <2>4 DEF Proper
    <3>2. PICK L : L = Onward(new, e)
      OBVIOUS
    <3>3. /\ L \subseteq Ids /\ e \in L /\ FollowsCorrections(new, L)
          /\ \A T \in SUBSET Ids : e \in T /\ FollowsCorrections(new, T) => L \subseteq T
      BY <3>2, OnwardFacts
    <3>4. FollowsCorrections(new, L \cup {r})
      BY <3>1, <3>3 DEF FollowsCorrections
    <3>5. e \in M
      BY <2>2, <2>4, <3>1 DEF FollowsCorrections
    <3>6. M = L \cup {r}
      BY <2>2, <3>3, <3>4, <3>5
    <3>7. ActiveIn(new, M) = ActiveIn(new, L)
      BY <2>4, <3>6 DEF ActiveIn, Proper
    <3> QED  BY <1>1, <2>1, <3>1, <3>2, <3>6, <3>7
  <2> QED  BY <2>3, <2>4
<1> QED  BY <1>1, <1>2 DEF Complete

(* The ACTIVE end r of a chain is superseded by another ACTIVE row, which *)
(* takes its place.                                                       *)
LEMMA CorrectionIsComplete ==
  ASSUME NEW old, NEW new, Proper(old), Proper(new), Complete(old),
         NEW r \in Ids, old[r] # NoRow, old[r].succ = None,
         NEW e \in Ids \ {r}, old[e] # NoRow, old[e].succ = None,
         new[r] # NoRow, new[r].succ = e,
         \A x \in Ids \ {r} : new[x] = old[x]
  PROVE  Complete(new)
<1> USE GuardAssumption
<1> SUFFICES ASSUME NEW x \in Ids, new[x] # NoRow
             PROVE  /\ \A y \in Onward(new, x) : new[y] # NoRow
                    /\ \E h \in Ids : ActiveIn(new, Onward(new, x)) = {h}
  BY DEF Complete
<1>1. PICK L : L = Onward(old, x)
  OBVIOUS
<1>2. PICK M : M = Onward(new, x)
  OBVIOUS
<1>3. /\ L \subseteq Ids /\ x \in L /\ FollowsCorrections(old, L)
      /\ \A T \in SUBSET Ids : x \in T /\ FollowsCorrections(old, T) => L \subseteq T
  BY <1>1, OnwardFacts
<1>4. /\ M \subseteq Ids /\ x \in M /\ FollowsCorrections(new, M)
      /\ \A T \in SUBSET Ids : x \in T /\ FollowsCorrections(new, T) => M \subseteq T
  BY <1>2, OnwardFacts
<1>5. old[x] # NoRow
  OBVIOUS
<1>6. PICK h \in Ids : ActiveIn(old, L) = {h}
  BY <1>1, <1>5 DEF Complete
<1>7. \A y \in L : old[y] # NoRow /\ new[y] # NoRow
  BY <1>1, <1>3, <1>5 DEF Complete
<1>8. L \subseteq M
  <2>1. FollowsCorrections(old, M)
    BY <1>4 DEF FollowsCorrections
  <2> QED  BY <2>1, <1>3, <1>4
<1>9. /\ old[r].status = "ACTIVE" /\ old[e].status = "ACTIVE"
      /\ new[r].status # "ACTIVE" /\ new[e] = old[e]
  BY DEF Proper
<1>10. CASE r \in L
  <2>1. h = r /\ e \notin L
    BY <1>6, <1>9, <1>10 DEF ActiveIn
  <2>2. FollowsCorrections(new, L \cup {e})
    BY <1>3, <1>9 DEF FollowsCorrections
  <2>3. e \in M
    BY <1>4, <1>8, <1>10 DEF FollowsCorrections
  <2>4. M = L \cup {e}
    BY <1>3, <1>4, <1>8, <2>2, <2>3
  <2>5. ActiveIn(new, M) = {e}
    BY <1>3, <1>6, <1>9, <2>1, <2>4 DEF ActiveIn
  <2> QED  BY <1>2, <1>7, <1>9, <2>4, <2>5
<1>11. CASE r \notin L
  <2>1. FollowsCorrections(new, L)
    BY <1>3, <1>11 DEF FollowsCorrections
  <2>2. M = L
    BY <1>3, <1>4, <1>8, <2>1
  <2>3. ActiveIn(new, L) = ActiveIn(old, L)
    BY <1>3, <1>11 DEF ActiveIn
  <2> QED  BY <1>2, <1>6, <1>7, <2>2, <2>3
<1> QED  BY <1>10, <1>11

(* What a session sees, and what is committed, is of the table's schema. *)
LEMMA SeenIsProper ==
  ASSUME GuardInv
  PROVE  Proper(table) /\ \A s \in Sessions : Proper(View(s))
<1>1. \A s \in Sessions, r \in Ids :
        dirty[s][r] # NoRow =>
          /\ dirty[s][r] \in Row
          /\ dirty[s][r].status = "ACTIVE" <=> dirty[s][r].succ = None
  BY DEF GuardInv, WritesOwned, Checks, TypeOK
<1>2. Proper(table)
  BY DEF Proper, GuardInv, TypeOK, Row
<1>3. ASSUME NEW s \in Sessions PROVE Proper(View(s))
  <2>1. ASSUME NEW r \in Ids, View(s)[r] # NoRow
        PROVE  /\ View(s)[r].succ \in Ids \cup {None}
               /\ View(s)[r].status = "ACTIVE" <=> View(s)[r].succ = None
    <3>1. CASE dirty[s][r] # NoRow
      BY <3>1, <1>1 DEF View, Row
    <3>2. CASE dirty[s][r] = NoRow
      BY <3>2, <2>1, <1>2 DEF View, Proper
    <3> QED  BY <3>1, <3>2
  <2> QED  BY <2>1 DEF Proper
<1> QED  BY <1>2, <1>3

(* At the start every row is the end of its own chain. *)
LEMMA InitSerial == HistoryInit => SerialInv
<1> SUFFICES ASSUME HistoryInit PROVE SerialInv
  OBVIOUS
<1>1. GuardInv /\ \A s \in Sessions : dirty[s] = Clean
  BY InitGuard DEF HistoryInit, Init
<1>2. \A r \in Ids : table[r] # NoRow => table[r].status = "ACTIVE" /\ table[r].succ = None
  BY DEF HistoryInit, Init
<1>3. Complete(table)
  <2> SUFFICES ASSUME NEW r \in Ids, table[r] # NoRow
               PROVE  /\ \A e \in Onward(table, r) : table[e] # NoRow
                      /\ ActiveIn(table, Onward(table, r)) = {r}
    BY DEF Complete
  <2>1. FollowsCorrections(table, {r})
    BY <1>2 DEF FollowsCorrections
  <2>2. Onward(table, r) = {r}
    BY <1>1, <2>1, SeenIsProper, OnwardFacts
  <2> QED  BY <1>2, <2>2 DEF ActiveIn
<1>4. ASSUME NEW s \in Sessions PROVE View(s) = table
  BY <1>1 DEF View, Clean, GuardInv, TypeOK
<1> QED  BY <1>1, <1>3, <1>4 DEF SerialInv

(* A session that has written nothing sees the committed table. *)
LEMMA CleanView ==
  ASSUME TypeOK, NEW s \in Sessions, dirty[s] = Clean
  PROVE  View(s) = table
BY DEF View, Clean, TypeOK

(* A statement that writes row r: the session goes on to see complete chains if *)
(* the reference it has made is real, and it is the only one that writes.       *)
LEMMA WritesKeepChains ==
  ASSUME GuardInv, SerialInv, NEW s \in Sessions, NEW r \in Ids, NEW row \in Row,
         row.status = "ACTIVE" <=> row.succ = None,
         Ready(s), UNCHANGED table, dirty' = [dirty EXCEPT ![s][r] = row],
         owed' = [owed EXCEPT ![s] = {row.succ} \ {None}],
         ~overlapped,
         \A t \in Sessions : s # t => dirty'[s] = Clean \/ dirty'[t] = Clean,
         \/ Unused(r) /\ row.succ # r
         \/ /\ View(s)[r] # NoRow /\ View(s)[r].succ = None
            /\ row.succ \in Ids \ {r}
            /\ View(s)[row.succ] # NoRow /\ View(s)[row.succ].succ = None
  PROVE  /\ Complete(table')
         /\ \A t \in Sessions :
              (\A e \in owed'[t] : View(t)'[e] # NoRow) => Complete(View(t)')
<1> USE GuardAssumption
<1>1. row # NoRow
  OBVIOUS
<1>2. Complete(table) /\ table' = table
  BY DEF SerialInv
<1>3. dirty'[s][r] = row /\ \A e \in Ids \ {r} : dirty'[s][e] = dirty[s][e]
  BY DEF GuardInv, TypeOK
<1>4. ASSUME NEW t \in Sessions \ {s} PROVE Complete(View(t)')
  <2>1. dirty'[s] # Clean
    <3>1. Clean[r] = NoRow
      BY DEF Clean
    <3> QED  BY <1>1, <1>3, <3>1
  <2>2. dirty'[t] = Clean
    BY <2>1
  <2>3. \A e \in Ids : dirty'[t][e] = NoRow
    BY <2>2 DEF Clean
  <2>4. View(t)' = table
    BY <1>2, <2>3 DEF View, GuardInv, TypeOK
  <2> QED  BY <1>2, <2>4
<1>5. ASSUME \A e \in owed'[s] : View(s)'[e] # NoRow
      PROVE  Complete(View(s)')
  <2>1. PICK old : old = View(s)
    OBVIOUS
  <2>2. PICK new : new = View(s)'
    OBVIOUS
  <2>3. /\ new[r] = row
        /\ \A e \in Ids \ {r} : new[e] = old[e]
    BY <1>1, <1>2, <1>3, <2>1, <2>2 DEF View
  <2>4. Complete(old)
    BY <2>1 DEF SerialInv, Ready
  <2>5. Proper(old) /\ Proper(new)
    <3>1. Proper(old)
      BY <2>1, SeenIsProper
    <3>2. row.succ \in Ids \cup {None}
      BY DEF Row
    <3>3. Proper(new)
      BY <2>3, <3>1, <3>2 DEF Proper
    <3> QED  BY <3>1, <3>3
  <2>6. row.succ # None => new[row.succ] # NoRow
    BY <1>5, <2>2 DEF GuardInv, TypeOK
  <2>7. CASE Unused(r) /\ row.succ # r
    <3>1. old[r] = NoRow
      BY <2>1, <2>7 DEF Unused, View
    <3>2. Complete(new)
      BY <1>1, <2>3, <2>4, <2>5, <2>6, <2>7, <3>1, NewRowIsComplete
    <3> QED  BY <2>2, <3>2
  <2>8. CASE /\ View(s)[r] # NoRow /\ View(s)[r].succ = None
             /\ row.succ \in Ids \ {r}
             /\ View(s)[row.succ] # NoRow /\ View(s)[row.succ].succ = None
    <3>1. PICK e \in Ids \ {r} : e = row.succ
      BY <2>8
    <3>2. Complete(new)
      BY <1>1, <2>1, <2>3, <2>4, <2>5, <2>8, <3>1, CorrectionIsComplete
    <3> QED  BY <2>2, <3>2
  <2> QED  BY <2>7, <2>8
<1> QED  BY <1>2, <1>4, <1>5

(* The end of a session: the table is what it was, or what the session saw. *)
LEMMA EndsKeepChains ==
  ASSUME GuardInv, GuardInv', SerialInv, NEW s \in Sessions, Ended(s), ~overlapped,
         \/ table' = table
         \/ Ready(s) /\ table' = View(s)
  PROVE  /\ Complete(table')
         /\ \A t \in Sessions :
              (\A e \in owed'[t] : View(t)'[e] # NoRow) => Complete(View(t)')
<1>1. /\ \A e \in Ids : dirty'[s][e] = NoRow
      /\ \A t \in Sessions \ {s} : dirty'[t] = dirty[t] /\ owed'[t] = owed[t]
  BY DEF Ended, Clean, GuardInv, TypeOK
<1>2. Complete(table')
  BY DEF SerialInv, Ready
<1>3. ASSUME NEW t \in Sessions, t = s \/ dirty[t] = Clean
      PROVE  Complete(View(t)')
  <2>1. \A e \in Ids : dirty'[t][e] = NoRow
    BY <1>1, <1>3 DEF Clean
  <2>2. View(t)' = table'
    BY <2>1 DEF View, GuardInv, TypeOK
  <2> QED  BY <1>2, <2>2
<1>4. ASSUME NEW t \in Sessions, t # s, dirty[t] # Clean
      PROVE  View(t)' = View(t) /\ owed'[t] = owed[t]
  <2>1. dirty[s] = Clean
    BY <1>4 DEF SerialInv
  <2>2. table' = table
    BY <2>1, CleanView DEF GuardInv
  <2> QED  BY <1>1, <1>4, <2>2 DEF View
<1> QED  BY <1>2, <1>3, <1>4 DEF SerialInv

(* Every step keeps chains ending, while nothing overlaps. *)
LEMMA SerialStep ==
  ASSUME MaxRows = 1, IsFiniteSet(Ids), GuardInv, SerialInv, [HistoryNext]_<<vars, overlapped>>
  PROVE  SerialInv'
<1>1. GuardInv'
  BY GuardStep DEF HistoryNext, vars
<1>2. CASE UNCHANGED <<vars, overlapped>>
  <2>1. \A t \in Sessions : View(t)' = View(t)
    BY <1>2 DEF vars, View
  <2> QED  BY <1>2, <2>1 DEF vars, SerialInv
<1>3. CASE HistoryNext
  <2> SUFFICES ASSUME ~overlapped'
               PROVE  /\ \A s, t \in Sessions : s # t => dirty'[s] = Clean \/ dirty'[t] = Clean
                      /\ Complete(table')
                      /\ \A t \in Sessions :
                           (\A e \in owed'[t] : View(t)'[e] # NoRow) => Complete(View(t)')
    BY DEF SerialInv, Clean
  <2>1. ~overlapped /\ \A s, t \in Sessions : s # t => dirty'[s] = Clean \/ dirty'[t] = Clean
    BY <1>3 DEF HistoryNext
  <2> DEFINE Chains == /\ Complete(table')
                       /\ \A t \in Sessions :
                            (\A e \in owed'[t] : View(t)'[e] # NoRow) => Complete(View(t)')
  <2>2. ASSUME NEW s \in Sessions, Insert(s) PROVE Chains
    <3>1. TypeOK
      BY DEF GuardInv
    <3> QED  BY <2>1, <2>2, <3>1, InsertsOneRow, WritesKeepChains DEF Checks
  <2>3. ASSUME NEW s \in Sessions, Update(s) PROVE Chains
    <3>1. PICK r \in Ids, row \in Row :
            /\ View(s)[r] # NoRow /\ CorrectionStep(View(s)[r], row)
            /\ row.succ \in Ids \ {r}
            /\ View(s)[row.succ] # NoRow /\ View(s)[row.succ].succ = None
            /\ dirty' = [dirty EXCEPT ![s][r] = row]
            /\ owed' = [owed EXCEPT ![s] = {row.succ} \ {None}]
      BY <2>3, UpdatesOneRow
    <3>2. View(s)[r].succ = None /\ (row.status = "ACTIVE" <=> row.succ = None)
      BY <3>1 DEF CorrectionStep
    <3>3. Ready(s) /\ UNCHANGED table
      BY <2>3 DEF Update
    <3> QED  BY <2>1, <3>1, <3>2, <3>3, WritesKeepChains
  <2>4. ASSUME NEW s \in Sessions, CheckReference(s) PROVE Chains
    <3>1. PICK r \in owed[s] : View(s)[r] # NoRow /\ owed' = [owed EXCEPT ![s] = @ \ {r}]
      BY <2>4 DEF CheckReference
    <3>2. UNCHANGED <<table, dirty>>
      BY <2>4 DEF CheckReference
    <3>3. \A t \in Sessions : /\ View(t)' = View(t)
                              /\ owed'[t] = IF t = s THEN owed[s] \ {r} ELSE owed[t]
      BY <3>1, <3>2 DEF View, GuardInv, TypeOK
    <3> QED  BY <2>1, <3>1, <3>2, <3>3 DEF SerialInv
  <2>5. ASSUME NEW s \in Sessions, Delete(s) \/ Commit(s) \/ Abort(s) PROVE Chains
    BY <1>1, <2>1, <2>5, EndsKeepChains DEF Delete, Commit, Abort
  <2> QED  BY <1>3, <2>1, <2>2, <2>3, <2>4, <2>5 DEF HistoryNext, Next
<1> QED  BY <1>2, <1>3

(* As long as an INSERT brings one row and transactions write one after the    *)
(* other, every row leads, through its corrections, to exactly one ACTIVE row. *)
THEOREM SerialChainsAlwaysEnd ==
  ASSUME MaxRows = 1, IsFiniteSet(Ids)
  PROVE  HistorySpec => []SerialChainsEnd
<1>1. SerialInv => SerialChainsEnd
  <2> SUFFICES ASSUME Complete(table) PROVE Versioned(table)
    BY DEF SerialInv, SerialChainsEnd, EveryRowHasAVersion
  <2>1. ASSUME NEW r \in Ids, table[r] # NoRow
        PROVE  /\ \A e \in Onward(table, r) : table[e] # NoRow
               /\ Cardinality({e \in Onward(table, r) : table[e].status = "ACTIVE"}) = 1
    <3>1. PICK h \in Ids : ActiveIn(table, Onward(table, r)) = {h}
      BY <2>1 DEF Complete
    <3> QED  BY <2>1, <3>1, FS_Singleton DEF Complete, ActiveIn
  <2> QED  BY <2>1 DEF Versioned
<1>2. HistoryInit => GuardInv /\ SerialInv
  BY InitGuard, InitSerial DEF HistoryInit
<1>3. GuardInv /\ SerialInv /\ [HistoryNext]_<<vars, overlapped>> => (GuardInv /\ SerialInv)'
  BY GuardStep, SerialStep DEF HistoryNext, vars
<1> QED  BY <1>1, <1>2, <1>3, PTL DEF HistorySpec
=============================================================================
