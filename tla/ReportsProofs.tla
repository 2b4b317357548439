--------------------------- MODULE ReportsProofs ---------------------------
(***************************************************************************)
(* Proofs about the reports, for any calendar whose months follow each     *)
(* other, any clock, any number of requests, rows and chats.  A sum over a *)
(* set is the fold of the community modules, a function defined by its own *)
(* values on smaller sets: what a proof needs of it follows by taking a    *)
(* minimal set at which a claim about such a function fails.               *)
(***************************************************************************)
EXTENDS Reports, FiniteSetTheorems, WellFoundedInduction, TLAPS

-----------------------------------------------------------------------------
(* The calendar *)

(* The day in Lima never goes back. *)
LEMMA DaysPass ==
  ASSUME NEW h \in Int, NEW k \in Int, h <= k
  PROVE  LimaDay(h) \in Int /\ LimaDay(h) <= LimaDay(k)
BY DEF LimaDay

(* Months are numbers, and have a first day. *)
LEMMA MonthsAreNumbers ==
  ASSUME NEW m \in DOMAIN FirstDay
  PROVE  m \in Int /\ m \in 12 * 2000 .. 12 * 2100 + 11 /\ FirstDay[m] \in Int
<1>1. m \in 12 * 2000 .. 12 * 2100 + 11 /\ FirstDay[m] \in Int
  BY CalendarAssumption
<1>2. QED
  BY <1>1

(* A day of month m belongs to m and to no other month. *)
LEMMA MonthIsTheOne ==
  ASSUME NEW m \in DOMAIN FirstDay, m + 1 \in DOMAIN FirstDay,
         NEW day \in Int, FirstDay[m] <= day, day < FirstDay[m + 1]
  PROVE  MonthOf(day) = m
<1> DEFINE In(n) == FirstDay[n] <= day /\ n + 1 \in DOMAIN FirstDay /\ day < FirstDay[n + 1]
<1>1. ASSUME NEW n \in DOMAIN FirstDay, In(n)
      PROVE  n = m
  <2>1. m \in Int /\ n \in Int /\ FirstDay[m] \in Int /\ FirstDay[n] \in Int
        /\ FirstDay[m + 1] \in Int /\ FirstDay[n + 1] \in Int
    BY <1>1, MonthsAreNumbers
  <2>2. CASE m < n
    <3>1. FirstDay[m + 1] <= FirstDay[n]
      BY <2>1, <2>2, CalendarAssumption
    <3>2. QED
      BY <3>1, <2>1, <1>1
  <2>3. CASE n < m
    <3>1. FirstDay[n + 1] <= FirstDay[m]
      BY <2>1, <2>3, <1>1, CalendarAssumption
    <3>2. QED
      BY <3>1, <2>1, <1>1
  <2>4. QED
    BY <2>1, <2>2, <2>3
<1>2. In(m)
  OBVIOUS
<1>3. QED
  BY <1>1, <1>2 DEF MonthOf

(* The month of the present day, in Lima or in UTC, and its neighbours. *)
LEMMA PresentMonth ==
  ASSUME NEW hour \in Start .. End, NEW day \in {LimaDay(hour), UTCDay(hour)}
  PROVE  /\ day \in Int
         /\ {MonthOf(day) - 1, MonthOf(day), MonthOf(day) + 1} \subseteq DOMAIN FirstDay
         /\ FirstDay[MonthOf(day)] <= day /\ day < FirstDay[MonthOf(day) + 1]
<1>1. hour \in Int /\ day \in Int
  BY CalendarAssumption DEF LimaDay, UTCDay
<1>2. PICK m \in DOMAIN FirstDay :
        {m - 1, m + 1} \subseteq DOMAIN FirstDay /\ FirstDay[m] <= day /\ day < FirstDay[m + 1]
  BY CalendarAssumption
<1>3. MonthOf(day) = m
  BY <1>1, <1>2, MonthIsTheOne
<1>4. QED
  BY <1>1, <1>2, <1>3

(* The month Prep mensual asks for is the one before the present one. *)
LEMMA AskedMonth ==
  ASSUME NEW hour \in Start .. End, now = hour
  PROVE  /\ LastMonth.year \in Nat /\ LastMonth.month \in 1 .. 12
         /\ ValidPeriod(LastMonth.year, LastMonth.month)
         /\ MonthIndex(LastMonth.year, LastMonth.month) = MonthOf(UTCDay(now)) - 1
<1> DEFINE this == MonthOf(UTCDay(now))
<1>1. {this - 1, this, this + 1} \subseteq DOMAIN FirstDay
  BY PresentMonth
<1>2. this \in Int /\ this - 1 \in 12 * 2000 .. 12 * 2100 + 11
      /\ FirstDay[this - 1] \in Int /\ FirstDay[this] \in Int /\ FirstDay[this - 1] < FirstDay[this]
  <2>1. this \in Int /\ FirstDay[this] \in Int
    BY <1>1, MonthsAreNumbers
  <2>2. this - 1 \in DOMAIN FirstDay /\ this \in DOMAIN FirstDay
    BY <1>1
  <2>3. this - 1 \in 12 * 2000 .. 12 * 2100 + 11 /\ FirstDay[this - 1] \in Int
    BY <2>2, MonthsAreNumbers
  <2>4. FirstDay[this - 1] < FirstDay[this]
    BY <2>1, <2>2, CalendarAssumption
  <2>5. QED
    BY <2>1, <2>3, <2>4
<1>3. MonthOf(FirstDay[this] - 1) = this - 1
  <2>1. this - 1 + 1 = this
    BY <1>2
  <2>2. QED
    BY <1>1, <1>2, <2>1, MonthIsTheOne
<1>4. LastMonth = [year |-> (this - 1) \div 12, month |-> ((this - 1) % 12) + 1]
  BY <1>3 DEF LastMonth
<1> DEFINE m == this - 1
<1>5. m \in Int /\ m \in 12 * 2000 .. 12 * 2100 + 11
  BY <1>2
<1> HIDE DEF m
<1>6. /\ m \div 12 \in 2000 .. 2100 /\ (m % 12) + 1 \in 1 .. 12
      /\ 12 * (m \div 12) + ((m % 12) + 1) - 1 = m
  BY <1>5
<1>7. LastMonth.year = m \div 12 /\ LastMonth.month = (m % 12) + 1
  BY <1>4 DEF m
<1>8. MonthIndex(LastMonth.year, LastMonth.month) = m /\ ValidPeriod(LastMonth.year, LastMonth.month)
  BY <1>5, <1>6, <1>7 DEF MonthIndex, ValidPeriod
<1>9. QED
  BY <1>6, <1>7, <1>8 DEF m

-----------------------------------------------------------------------------
(* The invariant *)

(* A row that counts has no successor, and no row is dated in the future. *)
Rows ==
  \A r \in Book!RowIds : Book!InBook(r) =>
    /\ book[r].status = "ACTIVE" => book[r].succ = None
    /\ book[r].head.date <= LimaDay(now)

(* What was offered is no later than today, whenever today is; a correction *)
(* has its target.                                                          *)
Requested ==
  /\ \A c \in offered : asked[c] # None /\ asked[c].head.date <= LimaDay(now)
  /\ \A c \in Calls :
       IF asked[c] = None THEN code[c] = "pending"
       ELSE asked[c].kind = "correct" => asked[c].target \in Book!RowIds

(* The month of a monthly report that has rows, or will have them. *)
Dates(rep) == Period(rep.year, rep.month)

InCalendar(rep) ==
  {MonthIndex(rep.year, rep.month), MonthIndex(rep.year, rep.month) + 1} \subseteq DOMAIN FirstDay

(* A row a report shows is in the book, of its month, and not followed by its own *)
(* correction; once the balance is read it is summed there, or corrected.         *)
Reading(rep) ==
  /\ rep.todo = Statements => rep.rows = {}
  /\ rep.todo = Statements \/ rep.rows # {} => InCalendar(rep)
  /\ \A e \in rep.rows :
       /\ Book!InBook(e) /\ book[e].head.date \in Dates(rep) /\ book[e].succ \notin rep.rows
       /\ rep.todo = <<>> /\ ~rep.failed => e \in rep.summed \/ book[e].status = "SUPERSEDED"

IInv ==
  /\ TypeOK
  /\ code = [c \in Calls |-> code[c]] /\ HoyIsAccepted
  /\ Rows /\ Requested
  /\ \A p \in Chats : Reading(report[p])

(* The clock is at an hour, not before the start. *)
LEMMA Clock ==
  ASSUME TypeOK
  PROVE  now \in Int /\ LimaDay(now) \in Int /\ LimaDay(Start) <= LimaDay(now)
<1>1. now \in Int /\ Start \in Int /\ Start <= now
  BY CalendarAssumption DEF TypeOK
<1>2. QED
  BY <1>1, DaysPass

(* The fields of a row of the book. *)
LEMMA RowFields ==
  ASSUME TypeOK, NEW r \in Book!RowIds, Book!InBook(r)
  PROVE  /\ book[r] \in Row /\ book[r].head.date \in Int
         /\ book[r].status \in {"ACTIVE", "SUPERSEDED"} /\ book[r].succ \in Calls \cup {None}
<1>1. book[r] \in Row
  BY DEF TypeOK, Book!InBook
<1>2. QED
  BY <1>1 DEF Row

(* The ledger and the reports at the start. *)
LEMMA InitIInv == Init => IInv
<1> SUFFICES ASSUME Init PROVE IInv
  OBVIOUS
<1>1. /\ asked = [c \in Calls |-> None] /\ code = [c \in Calls |-> "pending"]
      /\ book = [r \in Book!RowIds |-> IF r \in Seeds THEN SeedRow[r] ELSE NoRow]
  BY DEF Init, Book!Init
<1>2. TypeOK
  <2>1. now \in Start .. End
    BY CalendarAssumption DEF Init
  <2>2. book \in [Book!RowIds -> Row \cup {NoRow}] /\ asked \in [Calls -> Request \cup {None}]
    BY <1>1, SeedAssumption
  <2>3. Idle \in Report
    BY DEF Idle, Report
  <2>4. QED
    BY <2>1, <2>2, <2>3 DEF Init, TypeOK
<1>3. Rows
  BY <1>1, SeedAssumption DEF Rows, Book!InBook, Book!RowIds, Init
<1>4. Requested /\ HoyIsAccepted
  BY <1>1 DEF Requested, HoyIsAccepted, Init
<1>5. \A p \in Chats : Reading(report[p])
  BY DEF Init, Idle, Reading, Statements
<1>6. QED
  BY <1>1, <1>2, <1>3, <1>4, <1>5 DEF IInv

-----------------------------------------------------------------------------
(* Every step keeps it *)

(* What a request that is sent looks like. *)
LEMMA AskShape ==
  ASSUME IInv, NEW c \in Calls, AskRecord(c) \/ AskCorrection(c)
  PROVE  \E q \in Request :
           /\ asked[c] = None /\ asked' = [asked EXCEPT ![c] = q]
           /\ q.kind = "correct" => q.target \in Book!RowIds
           /\ offered' # offered => offered' = offered \cup {c} /\ q.head.date <= LimaDay(now)
           /\ UNCHANGED <<now, report, book, granted, code>>
<1>1. TypeOK /\ Rows /\ LimaDay(now) \in Int /\ Typed \subseteq Int
  BY Clock, CalendarAssumption DEF IInv
<1>2. \A d \in Buttons : d \in Int /\ d <= LimaDay(now)
  BY <1>1 DEF Buttons, limaISO
<1>3. \A t \in Book!RowIds : Book!InBook(t) => book[t].head.date \in Int /\ book[t].head.date <= LimaDay(now)
  BY <1>1, RowFields DEF Rows
<1>4. ASSUME NEW kind \in {"record", "correct"}, NEW t \in Book!RowIds \cup {None}, NEW d \in Int,
             Ask(c, kind, t, d)
      PROVE  \E q \in Request :
               /\ asked[c] = None /\ asked' = [asked EXCEPT ![c] = q]
               /\ q.kind = kind /\ q.target = t /\ q.head.date = d
               /\ UNCHANGED <<now, report, book, granted, code>>
  <2>1. PICK a \in Authors, m \in Movements :
          asked' = [asked EXCEPT ![c] =
                      [kind |-> kind, key |-> c, actor |-> a, target |-> t,
                       head |-> [event |-> m.event, date |-> d], body |-> m.amount]]
    BY <1>4 DEF Ask
  <2>2. m.event \in EventType /\ m.amount \in Int
    BY SeedAssumption
  <2>3. [kind |-> kind, key |-> c, actor |-> a, target |-> t,
         head |-> [event |-> m.event, date |-> d], body |-> m.amount] \in Request
    BY <2>2 DEF Request
  <2>4. QED
    BY <1>4, <2>1, <2>3 DEF Ask
<1>5. CASE AskRecord(c)
  <2>1. CASE offered' = offered \cup {c} /\ \E d \in Buttons : Ask(c, "record", None, d)
    BY <2>1, <1>2, <1>4
  <2>2. CASE UNCHANGED offered /\ \E d \in Typed : Ask(c, "record", None, d)
    BY <2>2, <1>1, <1>4
  <2>3. QED
    BY <1>5, <2>1, <2>2 DEF AskRecord
<1>6. CASE AskCorrection(c)
  <2>1. PICK t \in Book!RowIds :
          /\ Book!InBook(t)
          /\ \/ /\ offered' = offered \cup {c}
                /\ \E d \in Buttons \cup {book[t].head.date} : Ask(c, "correct", t, d)
             \/ UNCHANGED offered /\ \E d \in Typed : Ask(c, "correct", t, d)
    BY <1>6 DEF AskCorrection
  <2>2. CASE offered' = offered \cup {c}
             /\ \E d \in Buttons \cup {book[t].head.date} : Ask(c, "correct", t, d)
    BY <2>1, <2>2, <1>2, <1>3, <1>4
  <2>3. CASE UNCHANGED offered /\ \E d \in Typed : Ask(c, "correct", t, d)
    BY <2>1, <2>3, <1>1, <1>4
  <2>4. QED
    BY <2>1, <2>2, <2>3
<1>7. QED
  BY <1>5, <1>6

(* A request is made with a date that was offered or typed. *)
LEMMA AskKeeps ==
  ASSUME IInv, NEW c \in Calls, AskRecord(c) \/ AskCorrection(c)
  PROVE  IInv'
<1>1. PICK q \in Request :
        /\ asked[c] = None /\ asked' = [asked EXCEPT ![c] = q]
        /\ q.kind = "correct" => q.target \in Book!RowIds
        /\ offered' # offered => offered' = offered \cup {c} /\ q.head.date <= LimaDay(now)
        /\ UNCHANGED <<now, report, book, granted, code>>
  BY AskShape
<1>2. TypeOK'
  BY <1>1 DEF IInv, TypeOK
<1>3. Requested'
  BY <1>1, SeedAssumption DEF IInv, TypeOK, Requested, LimaDay
<1>4. HoyIsAccepted'
  BY <1>1 DEF IInv, HoyIsAccepted, Requested
<1>5. Rows' /\ \A p \in Chats : Reading(report[p])'
  BY <1>1 DEF IInv, Rows, Reading, InCalendar, Dates, Book!InBook
<1>6. QED
  BY <1>1, <1>2, <1>3, <1>4, <1>5 DEF IInv

(* A request that is applied adds its row, and retires at most one that counted. *)
LEMMA ApplyShape ==
  ASSUME IInv, NEW c \in Calls, Apply(c)
  PROVE  /\ book' = [r \in Book!RowIds |-> book'[r]]
         /\ ~Book!InBook(c) /\ book'[c] \in Row /\ book'[c].status = "ACTIVE" /\ book'[c].succ = None
         /\ book'[c].head.date <= LimaDay(now)
         /\ \A r \in Book!RowIds \ {c} :
              \/ book'[r] = book[r]
              \/ Book!InBook(r) /\ book'[r] = [book[r] EXCEPT !.status = "SUPERSEDED", !.succ = c]
         /\ UNCHANGED <<now, offered, report, asked, code>>
<1>1. /\ asked[c] \in Request /\ asked[c].head \in [event : EventType, date : Int]
      /\ asked[c].key \in Calls /\ asked[c].actor \in Authors /\ asked[c].body \in Int
      /\ asked[c].head.date <= LimaDay(now) /\ c \in Book!RowIds
  <2>1. asked[c] \in Request
    BY DEF Apply, IInv, TypeOK
  <2>2. QED
    BY <2>1 DEF Apply, Dated, Request, Book!RowIds
<1>2. \A head \in [event : EventType, date : Int], body \in Int : Book!Entry(c, head, body) \in Row
  BY <1>1 DEF Book!Entry, Row
<1>3. CASE Book!Record(c)
  <2> DEFINE e == Book!Entry(c, asked[c].head, asked[c].body)
  <2>1. /\ ~Book!InBook(c) /\ book' = [book EXCEPT ![c] = e]
        /\ UNCHANGED <<now, offered, report, asked, code>>
    BY <1>3 DEF Book!Record, Apply
  <2>2. e \in Row /\ e.status = "ACTIVE" /\ e.succ = None /\ e.head = asked[c].head
    BY <1>1, <1>2 DEF Book!Entry
  <2> HIDE DEF e
  <2>3. QED
    BY <1>1, <2>1, <2>2 DEF IInv, TypeOK
<1>4. CASE Book!Correct(c)
  <2> DEFINE t == asked[c].target
             head == Book!Filled(asked[c].head, book[t].head)
             e == Book!Entry(c, head, Book!Filled(asked[c].body, book[t].body))
  <2>1. /\ ~Book!InBook(c) /\ Book!InBook(t) /\ UNCHANGED <<now, offered, report, asked, code>>
        /\ book' = [book EXCEPT ![c] = e, ![t].status = "SUPERSEDED", ![t].succ = c]
    BY <1>4 DEF Book!Correct, Apply
  <2>2. t \in Book!RowIds /\ t # c
    BY <1>4, <2>1 DEF IInv, Requested, Book!Correct
  <2>3. book[t] \in Row /\ book[t].head.date <= LimaDay(now)
    BY <2>1, <2>2 DEF IInv, TypeOK, Rows, Book!InBook
  <2>4. book[t].head \in [event : EventType, date : Int] /\ book[t].body \in Int
    BY <2>3 DEF Row
  <2>5. e \in Row /\ e.status = "ACTIVE" /\ e.succ = None /\ e.head.date <= LimaDay(now)
    BY <1>1, <1>2, <2>3, <2>4 DEF Book!Entry, Book!Filled
  <2> HIDE DEF e
  <2>6. QED
    BY <1>1, <2>1, <2>2, <2>3, <2>5 DEF IInv, TypeOK
<1>5. QED
  BY <1>3, <1>4 DEF Apply

(* A request is applied: reports under way go on being about their month. *)
LEMMA ApplyKeeps ==
  ASSUME IInv, NEW c \in Calls, Apply(c)
  PROVE  IInv'
<1>1. \A r \in Book!RowIds \ {c} : Book!InBook(r) => book[r] \in Row
  BY RowFields DEF IInv
<1>2. \A r \in Book!RowIds \ {c} : book'[r] \in Row \cup {NoRow}
  <2>1. \A row \in Row : [row EXCEPT !.status = "SUPERSEDED", !.succ = c] \in Row
    BY DEF Row
  <2>2. QED
    BY <1>1, <2>1, ApplyShape DEF IInv, TypeOK
<1>3. TypeOK'
  BY <1>2, ApplyShape DEF IInv, TypeOK
<1>4. ASSUME NEW r \in Book!RowIds, r # c
      PROVE  /\ Book!InBook(r) <=> Book!InBook(r)'
             /\ Book!InBook(r) => /\ book'[r].head = book[r].head
                                 /\ \/ book'[r] = book[r]
                                    \/ book'[r].status = "SUPERSEDED" /\ book'[r].succ = c
  <2>1. CASE book'[r] = book[r]
    BY <2>1 DEF Book!InBook
  <2>2. CASE Book!InBook(r) /\ book'[r] = [book[r] EXCEPT !.status = "SUPERSEDED", !.succ = c]
    <3>1. book[r] \in Row
      BY <1>1, <1>4, <2>2
    <3>2. /\ book'[r] \in Row /\ book'[r].head = book[r].head
          /\ book'[r].status = "SUPERSEDED" /\ book'[r].succ = c
      BY <2>2, <3>1 DEF Row
    <3>3. QED
      BY <2>2, <3>2, SeedAssumption DEF Book!InBook
  <2>3. QED
    BY <1>4, <2>1, <2>2, ApplyShape
<1>5. Rows'
  BY <1>4, ApplyShape DEF IInv, Rows, LimaDay
<1>6. Requested' /\ HoyIsAccepted' /\ (code = [d \in Calls |-> code[d]])'
  BY ApplyShape DEF IInv, Requested, HoyIsAccepted, LimaDay
<1>7. ASSUME NEW p \in Chats
      PROVE  Reading(report[p])'
  <2>1. ASSUME NEW e \in report[p].rows
        PROVE  /\ Book!InBook(e)' /\ book'[e].head = book[e].head /\ book'[e].succ \notin report[p].rows
               /\ book[e].status = "SUPERSEDED" => book'[e].status = "SUPERSEDED"
    <3>1. /\ e \in Book!RowIds /\ c \notin report[p].rows
          /\ Book!InBook(e) /\ book[e].succ \notin report[p].rows
      BY ApplyShape DEF IInv, TypeOK, Report, Reading
    <3>2. QED
      BY <1>4, <3>1
  <2>2. Reading(report[p]) /\ report' = report
    BY ApplyShape DEF IInv
  <2>3. QED
    BY <2>1, <2>2 DEF Reading, InCalendar, Dates
<1>8. QED
  BY <1>3, <1>5, <1>6, <1>7 DEF IInv

(* A date that was offered is good, so the reason of a refusal is another. *)
LEMMA RefuseKeeps ==
  ASSUME IInv, NEW c \in Calls, Refuse(c)
  PROVE  IInv'
<1>1. /\ UNCHANGED <<now, offered, report, book, asked>> /\ asked[c] # None
      /\ code' = [d \in Calls |-> code'[d]] /\ \A d \in Calls \ {c} : code'[d] = code[d]
  BY DEF Refuse, Book!Refuse, IInv
<1>2. c \in offered => code'[c] # "invalid"
  BY DEF Refuse, Dated, IInv, Requested
<1>3. HoyIsAccepted' /\ Requested'
  BY <1>1, <1>2 DEF IInv, TypeOK, HoyIsAccepted, Requested, LimaDay
<1>4. QED
  BY <1>1, <1>3 DEF IInv, TypeOK, Rows, Reading, InCalendar, Dates, Book!InBook, LimaDay

(* A step of the reports changes nothing else. *)
LEMMA ReportStep ==
  ASSUME IInv, UNCHANGED <<now, offered, ledger>>,
         report' = [p \in Chats |-> report'[p]],
         \A p \in Chats : report'[p] \in Report /\ Reading(report'[p])
  PROVE  IInv'
<1>1. UNCHANGED <<now, offered, book, asked, granted, code>>
  BY DEF ledger
<1>2. TypeOK'
  BY <1>1 DEF IInv, TypeOK
<1>3. Rows' /\ Requested' /\ HoyIsAccepted' /\ (code = [c \in Calls |-> code[c]])'
  BY <1>1 DEF IInv, Rows, Requested, HoyIsAccepted, Book!InBook, LimaDay
<1>4. \A p \in Chats : Reading(report[p])'
  BY <1>1 DEF Reading, InCalendar, Dates, Book!InBook
<1>5. QED
  BY <1>2, <1>3, <1>4 DEF IInv

(* The statements of a report, one after the other. *)
LEMMA Stages ==
  /\ <<"balance">> # <<>> /\ Statements # <<"balance">> /\ Statements # <<>>
  /\ Head(Statements) = "rows" /\ Tail(Statements) = <<"balance">>
  /\ Head(<<"balance">>) = "balance" /\ Tail(<<"balance">>) = <<>>
<1>1. Len(<<>>) = 0 /\ Len(<<"balance">>) = 1 /\ Len(Statements) = 2
  BY DEF Statements
<1>2. QED
  BY <1>1 DEF Statements

(* A report reads, or fails. *)
LEMMA RunKeeps ==
  ASSUME IInv, NEW p \in Chats, ReadRows(p) \/ ReadBalance(p) \/ Fail(p)
  PROVE  IInv'
<1> DEFINE old == report[p]
           new == report'[p]
<1>1. old \in Report /\ Reading(old) /\ UNCHANGED <<now, offered, ledger>>
  BY DEF IInv, TypeOK, ReadRows, ReadBalance, Fail, Run
<1>2. report' = [report EXCEPT ![p] = new]
  BY DEF IInv, TypeOK, ReadRows, ReadBalance, Fail, Run
<1>3. new \in Report /\ Reading(new)
  <2>1. CASE ReadRows(p)
    <3> DEFINE now_shown == {e \in Counted(book) : book[e].head.date \in Period(old.year, old.month)}
    <3>1. /\ old.todo = Statements /\ old.rows = {}
          /\ new = [old EXCEPT !.rows = now_shown, !.todo = <<"balance">>]
      <4>1. Run(p, "rows", [old EXCEPT !.rows = now_shown])
        BY <2>1 DEF ReadRows
      <4>2. old.todo = Statements
        BY <1>1, <4>1, Stages DEF Run, Report, Statements
      <4>3. QED
        BY <1>1, <4>1, <4>2, Stages DEF Run, Reading, IInv, TypeOK
    <3>2. now_shown \subseteq Book!RowIds
      BY DEF Counted
    <3> HIDE DEF now_shown, old, new
    <3>3. new \in Report
      BY <1>1, <3>1, <3>2 DEF Report
    <3> USE DEF now_shown
    <3>4. \A e \in now_shown : Book!InBook(e) /\ book[e].succ = None
      BY DEF Counted, IInv, Rows, Book!InBook
    <3>5. None \notin now_shown
      BY <3>2, SeedAssumption
    <3>6. new.todo = <<"balance">> /\ new.rows = now_shown /\ new.year = old.year /\ new.month = old.month
      BY <1>1, <3>1 DEF Report
    <3>7. QED
      <4> HIDE DEF now_shown
      <4>1. InCalendar(new)
        BY <1>1, <3>1, <3>6 DEF Reading, InCalendar
      <4>2. \A e \in new.rows : book[e].head.date \in Dates(new)
        BY <3>6 DEF now_shown, Dates
      <4>3. QED
        BY <3>3, <3>4, <3>5, <3>6, <4>1, <4>2, Stages DEF Reading
  <2>2. CASE ReadBalance(p)
    <3>1. /\ old.todo = <<"balance">>
          /\ new = [old EXCEPT !.summed = Counted(book), !.todo = <<>>]
      <4>1. Run(p, "balance", [old EXCEPT !.summed = Counted(book)])
        BY <2>2 DEF ReadBalance
      <4>2. old.todo = <<"balance">>
        BY <1>1, <4>1, Stages DEF Run, Report, Statements
      <4>3. QED
        BY <1>1, <4>1, <4>2, Stages DEF Run, IInv, TypeOK
    <3>2. Counted(book) \subseteq Book!RowIds
      BY DEF Counted
    <3> HIDE DEF old, new
    <3>3. new \in Report
      BY <1>1, <3>1, <3>2 DEF Report
    <3>4. \A e \in old.rows : e \in Counted(book) \/ book[e].status = "SUPERSEDED"
      <4> SUFFICES ASSUME NEW e \in old.rows
          PROVE  e \in Counted(book) \/ book[e].status = "SUPERSEDED"
        OBVIOUS
      <4>1. e \in Book!RowIds /\ Book!InBook(e)
        BY <1>1 DEF Reading, Report
      <4>2. QED
        BY <4>1, RowFields DEF Counted, IInv, Book!InBook
    <3>5. /\ new.todo = <<>> /\ new.rows = old.rows /\ new.year = old.year /\ new.month = old.month
          /\ new.summed = Counted(book)
      BY <1>1, <3>1 DEF Report
    <3>6. QED
      <4>1. new.rows # {} => InCalendar(new)
        BY <1>1, <3>5 DEF Reading, InCalendar
      <4>2. QED
        BY <1>1, <3>3, <3>4, <3>5, <4>1, Stages DEF Reading, Dates
  <2>3. CASE Fail(p)
    <3>1. new = [old EXCEPT !.todo = <<>>, !.failed = TRUE]
      BY <1>1, <2>3 DEF Fail, IInv, TypeOK
    <3> HIDE DEF old, new
    <3>2. new \in Report /\ new.todo = <<>> /\ new.failed /\ new.rows = old.rows
          /\ new.year = old.year /\ new.month = old.month
      BY <1>1, <3>1 DEF Report
    <3>3. QED
      BY <1>1, <3>2 DEF Reading, InCalendar, Dates, Statements
  <2>4. QED
    BY <2>1, <2>2, <2>3
<1> HIDE DEF old, new
<1>4. report' = [q \in Chats |-> report'[q]] /\ \A q \in Chats \ {p} : report'[q] = report[q]
  BY <1>2 DEF IInv, TypeOK
<1>5. \A q \in Chats : report'[q] \in Report /\ Reading(report'[q])
  BY <1>3, <1>4 DEF IInv, TypeOK, new
<1>6. QED
  BY <1>1, <1>4, <1>5, ReportStep

(* A schedule starts reports that have shown nothing. *)
LEMMA TriggerKeeps ==
  ASSUME IInv, NEW r \in Report, Trigger(r), r.rows = {}, r.todo = Statements => InCalendar(r)
  PROVE  IInv'
<1>1. report' = [p \in Chats |-> r] /\ UNCHANGED <<now, offered, ledger>>
  BY DEF Trigger
<1>2. Reading(r)
  BY DEF Reading
<1>3. \A p \in Chats : report'[p] \in Report /\ Reading(report'[p])
  BY <1>1, <1>2
<1>4. report' = [p \in Chats |-> report'[p]]
  BY <1>1
<1>5. QED
  BY <1>1, <1>3, <1>4, ReportStep

(* Sunday evening. *)
LEMMA WeeklyKeeps ==
  ASSUME IInv, Weekly
  PROVE  IInv'
<1> DEFINE r == [Idle EXCEPT !.todo = <<"balance">>]
<1>1. r \in Report /\ r.rows = {} /\ r.todo # Statements
  BY Stages DEF Idle, Report
<1>2. Trigger(r)
  BY DEF Weekly
<1> HIDE DEF r
<1>3. QED
  BY <1>1, <1>2, TriggerKeeps

(* The first of the month in Lima at 07:00 is the first of the month in UTC. *)
LEMMA MonthlyAsks ==
  ASSUME IInv, Monthly
  PROVE  /\ LastMonth.year \in Nat /\ LastMonth.month \in 1 .. 12
         /\ ValidPeriod(LastMonth.year, LastMonth.month)
         /\ MonthIndex(LastMonth.year, LastMonth.month) = MonthOf(LimaDay(now)) - 1
         /\ LimaDay(now) = FirstDay[MonthOf(LimaDay(now))]
<1>1. now \in Start .. End /\ now \in Int /\ now % 24 = 12
  BY CalendarAssumption DEF IInv, TypeOK, Monthly
<1>2. UTCDay(now) = LimaDay(now)
  BY <1>1 DEF UTCDay, LimaDay
<1>3. QED
  BY <1>1, <1>2, AskedMonth DEF Monthly

(* The first of the month. *)
LEMMA MonthlyKeeps ==
  ASSUME IInv, Monthly
  PROVE  IInv'
<1> DEFINE last == LastMonth
           r == [Idle EXCEPT !.todo = Statements, !.year = last.year, !.month = last.month]
           this == MonthOf(LimaDay(now))
<1>1. Trigger(r)
  BY DEF Monthly
<1>2. last.year \in Nat /\ last.month \in 1 .. 12 /\ MonthIndex(last.year, last.month) = this - 1
      /\ ValidPeriod(last.year, last.month)
  BY MonthlyAsks
<1>3. this \in Int /\ {this - 1, this} \subseteq DOMAIN FirstDay
  BY PresentMonth, MonthsAreNumbers DEF IInv, TypeOK
<1> HIDE DEF last, this
<1>4. r \in Report /\ r.rows = {} /\ r.year = last.year /\ r.month = last.month
  BY <1>2 DEF Idle, Report, Statements
<1>5. InCalendar(r)
  BY <1>2, <1>3, <1>4 DEF InCalendar
<1> HIDE DEF r
<1>6. QED
  BY <1>1, <1>4, <1>5, TriggerKeeps

(* Time passes. *)
LEMMA TickKeeps ==
  ASSUME IInv, Tick
  PROVE  IInv'
<1>1. /\ now' \in Start .. End /\ LimaDay(now) <= LimaDay(now') /\ LimaDay(now') \in Int
      /\ LimaDay(now) \in Int
      /\ UNCHANGED <<offered, report, book, asked, granted, code>>
  <2>1. now \in Int /\ Start <= now
    BY Clock, CalendarAssumption DEF IInv, TypeOK
  <2>2. PICK hour \in now + 1 .. End : now' = hour
    BY DEF Tick
  <2>3. hour \in Int /\ now <= hour /\ hour \in Start .. End
    BY <2>1, CalendarAssumption
  <2>4. QED
    BY <2>1, <2>2, <2>3, DaysPass DEF Tick, ledger
<1>2. TypeOK' /\ HoyIsAccepted'
  BY <1>1 DEF IInv, TypeOK, HoyIsAccepted
<1>3. Rows'
  <2> SUFFICES ASSUME NEW r \in Book!RowIds, Book!InBook(r)
      PROVE  book[r].head.date <= LimaDay(now')
    BY <1>1 DEF IInv, Rows, Book!InBook, LimaDay
  <2>1. book[r].head.date \in Int /\ book[r].head.date <= LimaDay(now)
    BY RowFields DEF IInv, Rows
  <2>2. QED
    BY <1>1, <2>1
<1>4. Requested'
  <2> SUFFICES ASSUME NEW c \in offered
      PROVE  asked[c].head.date <= LimaDay(now')
    BY <1>1 DEF IInv, Requested, LimaDay
  <2>1. asked[c] \in Request /\ asked[c].head.date <= LimaDay(now)
    BY DEF IInv, TypeOK, Requested
  <2>2. QED
    BY <1>1, <2>1 DEF Request
<1>5. \A p \in Chats : Reading(report[p])'
  BY <1>1 DEF IInv, Reading, InCalendar, Dates, Book!InBook
<1>6. QED
  BY <1>1, <1>2, <1>3, <1>4, <1>5 DEF IInv

(* Every step keeps the invariant. *)
LEMMA NextKeeps == IInv /\ [Next]_vars => IInv'
<1> SUFFICES ASSUME IInv, [Next]_vars PROVE IInv'
  OBVIOUS
<1>1. ASSUME NEW c \in Calls, AskRecord(c) \/ AskCorrection(c)
      PROVE  IInv'
  BY <1>1, AskKeeps
<1>2. ASSUME NEW c \in Calls, Apply(c)
      PROVE  IInv'
  BY <1>2, ApplyKeeps
<1>3. ASSUME NEW c \in Calls, Refuse(c)
      PROVE  IInv'
  BY <1>3, RefuseKeeps
<1>4. ASSUME NEW p \in Chats, ReadRows(p) \/ ReadBalance(p) \/ Fail(p)
      PROVE  IInv'
  BY <1>4, RunKeeps
<1>5. CASE UNCHANGED vars
  BY <1>5 DEF vars, ledger, IInv, TypeOK, Rows, Requested, HoyIsAccepted, Reading, InCalendar,
     Dates, Book!InBook, LimaDay
<1>6. QED
  BY <1>1, <1>2, <1>3, <1>4, <1>5, WeeklyKeeps, MonthlyKeeps, TickKeeps DEF Next, Finished

(* The inductive invariant holds in every reachable state. *)
THEOREM Invariant == Spec => []IInv
BY InitIInv, NextKeeps, PTL DEF Spec

-----------------------------------------------------------------------------
(* What follows *)

(* Rows, requests and reports keep their types: a report is always about a month *)
(* and about rows of the table.                                                  *)
THEOREM TypeCorrect == Spec => []TypeOK
<1>1. IInv => TypeOK
  BY DEF IInv
<1>2. QED
  BY <1>1, Invariant, PTL

(* A date the workflow offered is never refused as in the future, at whatever *)
(* hours it is pressed, sent and judged (limaISO and _today_lima).            *)
THEOREM OfferedDatesAreGood == Spec => []HoyIsAccepted
<1>1. IInv => HoyIsAccepted
  BY DEF IInv
<1>2. QED
  BY <1>1, Invariant, PTL

(* The table of a monthly report has rows of its month only, and never a row *)
(* together with its own correction.                                         *)
THEOREM TablesShowEntriesOnce == Spec => []EntriesShownOnce
<1>1. IInv => EntriesShownOnce
  <2> SUFFICES ASSUME IInv, NEW p \in Chats, NEW e \in report[p].rows
      PROVE  /\ MonthOf(book[e].head.date) = MonthIndex(report[p].year, report[p].month)
             /\ book[e].succ \notin report[p].rows
    BY DEF EntriesShownOnce
  <2> DEFINE m == MonthIndex(report[p].year, report[p].month)
             day == book[e].head.date
  <2>1. /\ e \in Book!RowIds /\ Book!InBook(e) /\ book[e].succ \notin report[p].rows
        /\ day \in FirstDay[m] .. FirstDay[m + 1] - 1 /\ {m, m + 1} \subseteq DOMAIN FirstDay
    BY DEF IInv, TypeOK, Report, Reading, InCalendar, Dates, Period
  <2> HIDE DEF m
  <2>2. day \in Int
    BY <2>1, RowFields DEF IInv
  <2> HIDE DEF day
  <2>3. FirstDay[m] \in Int /\ FirstDay[m + 1] \in Int
    BY <2>1, MonthsAreNumbers
  <2>4. MonthOf(day) = m
    BY <2>1, <2>2, <2>3, MonthIsTheOne
  <2>5. QED
    BY <2>1, <2>4 DEF m, day
<1>2. QED
  BY <1>1, Invariant, PTL

(* A row in the table of a monthly report that was sent is summed in its *)
(* balance, or has been corrected since.                                 *)
THEOREM TablesAreSummed == Spec => []TableIsSummed
<1>1. IInv => TableIsSummed
  BY DEF IInv, Reading, TableIsSummed, Sent
<1>2. QED
  BY <1>1, Invariant, PTL

(* The monthly report is about the month that has just ended in Lima, whatever *)
(* the calendar and wherever a year begins in it.                              *)
THEOREM ReportsTheLastMonth == Spec => MonthJustEnded
<1> DEFINE Starts ==
      \A p \in Chats :
        report[p].todo = <<>> /\ report'[p].todo = Statements =>
          /\ ValidPeriod(report'[p].year, report'[p].month)
          /\ MonthIndex(report'[p].year, report'[p].month) + 1 = MonthOf(LimaDay(now))
          /\ \A day \in Period(report'[p].year, report'[p].month) : day < LimaDay(now)
<1>1. IInv /\ [Next]_vars => [Starts]_report
  <2> SUFFICES ASSUME IInv, [Next]_vars, NEW p \in Chats,
                      report[p].todo = <<>>, report'[p].todo = Statements
      PROVE  /\ ValidPeriod(report'[p].year, report'[p].month)
             /\ MonthIndex(report'[p].year, report'[p].month) + 1 = MonthOf(LimaDay(now))
             /\ \A day \in Period(report'[p].year, report'[p].month) : day < LimaDay(now)
    OBVIOUS
  <2>1. Monthly
    <3>1. ~Weekly
      <4>1. Weekly => report'[p].todo = <<"balance">>
        BY DEF Weekly, Trigger, Idle
      <4>2. QED
        BY <4>1, Stages
    <3>2. report'[p] # report[p]
      BY Stages
    <3>3. \A q \in Chats : ~(ReadRows(q) \/ ReadBalance(q) \/ Fail(q))
      <4> SUFFICES ASSUME NEW q \in Chats, ReadRows(q) \/ ReadBalance(q) \/ Fail(q)
          PROVE  FALSE
        OBVIOUS
      <4>1. report[q].todo # <<>> /\ \A r \in Chats \ {q} : report'[r] = report[r]
        BY DEF ReadRows, ReadBalance, Fail, Run, IInv, TypeOK
      <4>2. QED
        BY <4>1, <3>2
    <3>4. QED
      BY <3>1, <3>2, <3>3 DEF Next, vars, AskRecord, AskCorrection, Ask, Apply, Refuse, Tick, Finished
  <2> DEFINE last == LastMonth
  <2>2. report'[p].year = last.year /\ report'[p].month = last.month
    <3>1. report' = [q \in Chats |-> [Idle EXCEPT !.todo = Statements, !.year = last.year,
                                                  !.month = last.month]]
      BY <2>1 DEF Monthly, Trigger
    <3> HIDE DEF last
    <3>2. QED
      BY <3>1 DEF Idle
  <2> DEFINE this == MonthOf(LimaDay(now))
  <2>3. /\ ValidPeriod(last.year, last.month) /\ MonthIndex(last.year, last.month) = this - 1
        /\ LimaDay(now) = FirstDay[this]
    BY <2>1, MonthlyAsks
  <2>4. this \in Int /\ FirstDay[this] \in Int /\ {this - 1, this} \subseteq DOMAIN FirstDay
    BY PresentMonth, MonthsAreNumbers DEF IInv, TypeOK
  <2>5. FirstDay[this - 1] \in Int
    BY <2>4, MonthsAreNumbers
  <2> HIDE DEF last, this
  <2>6. Period(last.year, last.month) = FirstDay[this - 1] .. FirstDay[this] - 1
    BY <2>3, <2>4 DEF Period
  <2>7. \A day \in Period(last.year, last.month) : day < LimaDay(now)
    BY <2>3, <2>4, <2>5, <2>6
  <2>8. QED
    BY <2>2, <2>3, <2>4, <2>7 DEF this
<1>2. QED
  BY <1>1, Invariant, PTL DEF Spec, MonthJustEnded

-----------------------------------------------------------------------------
(* Sums: what get_balance adds up, in whatever order.                      *)

(* The element a fold takes first. *)
First(T) == CHOOSE r \in T : TRUE

(* The fold's table of sums: of every subset of S, the effects of its rows. *)
Adds(b, S, sums) ==
  sums = [T \in SUBSET S |->
            IF T = {} THEN 0 ELSE signed_effect(b[First(T)]) + sums[T \ {First(T)}]]

Total(b, S) == MapThenSumSet(LAMBDA r : signed_effect(b[r]), S)

Summable(b, S) == IsFiniteSet(S) /\ \A r \in S : signed_effect(b[r]) \in Int

(* Among sets of rows there is one without smaller ones: the induction used here. *)
LEMMA Minimal ==
  ASSUME NEW S, IsFiniteSet(S), NEW sets, sets \subseteq SUBSET S, sets # {}
  PROVE  \E T \in sets : \A U \in SUBSET T : U \in sets => U = T
<1>1. IsWellFoundedOn(StrictSubsetOrdering(S), SUBSET S)
  BY FS_StrictSubsetOrderingWellFounded, FS_FiniteSubsetsOfFinite
<1>2. PICK T \in sets : \A U \in sets : ~(<<U, T>> \in StrictSubsetOrdering(S))
  BY <1>1, WFMin
<1> QED  BY <1>2 DEF StrictSubsetOrdering

(* The entries of a table of sums. *)
LEMMA AddsFields ==
  ASSUME NEW b, NEW S, NEW sums, Adds(b, S, sums), NEW T \in SUBSET S
  PROVE  /\ T = {} => sums[T] = 0
         /\ T # {} => /\ First(T) \in T
                      /\ sums[T] = signed_effect(b[First(T)]) + sums[T \ {First(T)}]
BY Zenon DEF Adds, First

(* The same, row by row. *)
LEMMA AddsMore ==
  ASSUME NEW b, NEW S, NEW sums, Adds(b, S, sums), NEW T \in SUBSET S, T # {}, NEW r, r = First(T)
  PROVE  r \in T /\ sums[T] = signed_effect(b[r]) + sums[T \ {r}]
BY Zenon DEF Adds, First

(* Two tables of sums agree where both are defined. *)
LEMMA AddsAgree ==
  ASSUME NEW b, NEW S, IsFiniteSet(S), NEW sums, Adds(b, S, sums),
         NEW P \in SUBSET S, NEW part, Adds(b, P, part), NEW T \in SUBSET P
  PROVE  part[T] = sums[T]
<1> PICK bad : bad = {U \in SUBSET P : part[U] # sums[U]}
  OBVIOUS
<1> SUFFICES ASSUME bad # {} PROVE FALSE
  OBVIOUS
<1>1. bad \subseteq SUBSET P /\ IsFiniteSet(P)
  BY FS_Subset
<1>2. PICK U \in bad : \A W \in SUBSET U : W \in bad => W = U
  BY <1>1, Minimal
<1>3. U \in SUBSET P /\ U \in SUBSET S /\ part[U] # sums[U]
  OBVIOUS
<1>4. U # {}
  <2>1. U = {} => part[U] = 0 /\ sums[U] = 0
    BY <1>3, AddsFields
  <2> QED  BY <1>3, <2>1
<1>5. PICK r : r = First(U)
  OBVIOUS
<1>6. /\ r \in U
      /\ part[U] = signed_effect(b[r]) + part[U \ {r}]
      /\ sums[U] = signed_effect(b[r]) + sums[U \ {r}]
  <2>1. /\ r \in U
        /\ part[U] = signed_effect(b[r]) + part[U \ {r}]
    BY <1>3, <1>4, <1>5, AddsMore
  <2>2. sums[U] = signed_effect(b[r]) + sums[U \ {r}]
    BY <1>3, <1>4, <1>5, AddsMore
  <2> QED  BY <2>1, <2>2
<1>7. part[U \ {r}] = sums[U \ {r}]
  <2>1. U \ {r} \in SUBSET U /\ U \ {r} # U /\ U \ {r} \in SUBSET P
    BY <1>3, <1>6
  <2> QED  BY <1>2, <2>1
<1> QED  BY <1>3, <1>6, <1>7

(* A finite set has a table of sums. *)
LEMMA AddsExists ==
  ASSUME NEW b, NEW S, IsFiniteSet(S)
  PROVE  \E sums : Adds(b, S, sums)
<1>a. PICK bad : bad = {P \in SUBSET S : ~\E sums : Adds(b, P, sums)}
  OBVIOUS
<1>b. SUFFICES ASSUME bad # {} PROVE FALSE
  BY <1>a
<1>1. bad \subseteq SUBSET S
  BY <1>a
<1>2. PICK P \in bad : \A U \in SUBSET P : U \in bad => U = P
  BY <1>1, <1>b, Minimal
<1>3. IsFiniteSet(P) /\ P \in SUBSET S /\ ~\E sums : Adds(b, P, sums)
  <2>1. P \in SUBSET S /\ ~\E sums : Adds(b, P, sums)
    BY <1>a
  <2> QED  BY <2>1, FS_Subset
<1> DEFINE of == [U \in SUBSET P |-> CHOOSE sums : Adds(b, U, sums)]
<1>4. ASSUME NEW U \in SUBSET P, U # P
      PROVE  Adds(b, U, of[U])
  <2>1. \E sums : Adds(b, U, sums)
    BY <1>a, <1>2, <1>3, <1>4
  <2> QED  BY <2>1
<1>c. PICK sub : sub = of
  OBVIOUS
<1>5. \A U \in SUBSET P : U # P => Adds(b, U, sub[U])
  BY <1>4, <1>c
<1> HIDE DEF of
<1> DEFINE rest(U) == U \ {First(U)}
           sum(U) == IF U = {} THEN 0 ELSE signed_effect(b[First(U)]) + sub[rest(U)][rest(U)]
<1>d. PICK all : all = [U \in SUBSET P |-> sum(U)]
  OBVIOUS
<1>6. ASSUME NEW U \in SUBSET P, U # {}
      PROVE  First(U) \in U /\ rest(U) \in SUBSET P /\ rest(U) \in SUBSET U /\ rest(U) # P
  BY <1>6 DEF First
<1>7. ASSUME NEW U \in SUBSET P, U # P
      PROVE  sum(U) = sub[U][U]
  <2>1. Adds(b, U, sub[U]) /\ IsFiniteSet(U)
    BY <1>3, <1>5, <1>7, FS_Subset
  <2>2. CASE U = {}
    BY <2>1, <2>2, AddsFields
  <2>3. CASE U # {}
    <3>1. Adds(b, rest(U), sub[rest(U)])
      BY <1>5, <1>6, <2>3
    <3>2. sub[rest(U)][rest(U)] = sub[U][rest(U)]
      <4>a. PICK V : V = rest(U)
        OBVIOUS
      <4>b. PICK part, whole : part = sub[V] /\ whole = sub[U]
        OBVIOUS
      <4>1. V \in SUBSET U /\ V \in SUBSET V /\ Adds(b, V, part) /\ Adds(b, U, whole)
        BY <2>1, <2>3, <3>1, <1>6, <4>a, <4>b
      <4>2. part[V] = whole[V]
        BY <2>1, <4>1, AddsAgree
      <4> QED  BY <4>2, <4>a, <4>b
    <3>3. sub[U][U] = signed_effect(b[First(U)]) + sub[U][rest(U)]
      BY <2>1, <2>3, AddsFields
    <3> QED  BY <2>3, <3>2, <3>3
  <2> QED  BY <2>2, <2>3
<1>8. ASSUME NEW U \in SUBSET P
      PROVE  sum(U) = IF U = {} THEN 0 ELSE signed_effect(b[First(U)]) + all[rest(U)]
  <2>1. CASE U = {}
    BY <2>1
  <2>2. CASE U # {}
    <3>1. rest(U) \in SUBSET P /\ rest(U) # P
      BY <1>6, <2>2
    <3> PICK V : V = rest(U)
      OBVIOUS
    <3>2. all[V] = sum(V) /\ sum(V) = sub[V][V]
      <4> HIDE DEF sum
      <4> QED  BY <3>1, <1>7, <1>d
    <3> QED  BY <2>2, <3>2
  <2> QED  BY <2>1, <2>2
<1>9. Adds(b, P, all)
  <2>1. all = [U \in SUBSET P |-> IF U = {} THEN 0 ELSE signed_effect(b[First(U)]) + all[rest(U)]]
    <3> HIDE DEF sum, rest
    <3> QED  BY <1>8, <1>d
  <2> QED  BY <2>1 DEF Adds
<1> QED  BY <1>3, <1>9

(* The sums of integers are integers. *)
LEMMA AddsInt ==
  ASSUME NEW b, NEW S, IsFiniteSet(S), NEW sums, Adds(b, S, sums),
         \A r \in S : signed_effect(b[r]) \in Int, NEW T \in SUBSET S
  PROVE  sums[T] \in Int
<1>a. PICK bad : bad = {U \in SUBSET S : sums[U] \notin Int}
  OBVIOUS
<1>b. SUFFICES ASSUME bad # {} PROVE FALSE
  BY <1>a
<1>1. bad \subseteq SUBSET S
  BY <1>a
<1>2. PICK U \in bad : \A W \in SUBSET U : W \in bad => W = U
  BY <1>1, <1>b, Minimal
<1>3. U \in SUBSET S /\ sums[U] \notin Int
  BY <1>a
<1>4. U # {}
  <2>1. U = {} => sums[U] = 0
    BY <1>3, AddsFields
  <2> QED  BY <1>3, <2>1
<1>5. PICK r : r = First(U)
  OBVIOUS
<1>6. r \in U /\ sums[U] = signed_effect(b[r]) + sums[U \ {r}]
  BY <1>3, <1>4, <1>5, AddsMore
<1>7. U \ {r} \in SUBSET U /\ U \ {r} # U /\ U \ {r} \in SUBSET S
  BY <1>3, <1>6
<1>8. sums[U \ {r}] \in Int
  BY <1>a, <1>2, <1>7
<1> QED  BY <1>3, <1>6, <1>8

(* Any row may be taken out first: the order of a sum does not matter. *)
LEMMA AddsAny ==
  ASSUME NEW b, NEW S, IsFiniteSet(S), NEW sums, Adds(b, S, sums),
         \A r \in S : signed_effect(b[r]) \in Int, NEW T \in SUBSET S, NEW x \in T
  PROVE  sums[T] = signed_effect(b[x]) + sums[T \ {x}]
<1> DEFINE Splits(U) == \A y \in U : sums[U] = signed_effect(b[y]) + sums[U \ {y}]
<1>a. PICK bad : bad = {U \in SUBSET S : ~Splits(U)}
  OBVIOUS
<1>b. SUFFICES ASSUME bad # {} PROVE FALSE
  BY <1>a
<1>1. bad \subseteq SUBSET S
  BY <1>a
<1>2. PICK U \in bad : \A W \in SUBSET U : W \in bad => W = U
  BY <1>1, <1>b, Minimal
<1>3. U \in SUBSET S /\ ~Splits(U)
  BY <1>a
<1>4. PICK y \in U : sums[U] # signed_effect(b[y]) + sums[U \ {y}]
  BY <1>3
<1>5. PICK r : r = First(U)
  OBVIOUS
<1>6. r \in U /\ sums[U] = signed_effect(b[r]) + sums[U \ {r}]
  BY <1>3, <1>4, <1>5, AddsMore
<1>7. r # y
  BY <1>4, <1>6
<1>8. ASSUME NEW z \in U
      PROVE  Splits(U \ {z})
  <2>1. U \ {z} \in SUBSET U /\ U \ {z} # U /\ U \ {z} \in SUBSET S
    BY <1>3
  <2>2. U \ {z} \notin bad
    BY <1>2, <2>1
  <2> HIDE DEF Splits
  <2> QED  BY <1>a, <2>1, <2>2
<1>9. PICK V : V = U \ {r, y}
  OBVIOUS
<1>10. sums[U \ {r}] = signed_effect(b[y]) + sums[V]
  <2>1. (U \ {r}) \ {y} = V /\ y \in U \ {r}
    BY <1>7, <1>9
  <2> QED  BY <1>6, <1>8, <2>1
<1>11. sums[U \ {y}] = signed_effect(b[r]) + sums[V]
  <2>1. (U \ {y}) \ {r} = V /\ r \in U \ {y}
    BY <1>6, <1>7, <1>9
  <2> QED  BY <1>8, <2>1
<1>12. signed_effect(b[r]) \in Int /\ signed_effect(b[y]) \in Int /\ sums[V] \in Int
  <2>1. r \in S /\ y \in S /\ V \in SUBSET S
    BY <1>3, <1>6, <1>9
  <2> QED  BY <2>1, AddsInt
<1> QED  BY <1>4, <1>6, <1>10, <1>11, <1>12

(* The fold of the model is the entry of such a table. *)
LEMMA TotalIs ==
  ASSUME NEW b, NEW S, IsFiniteSet(S)
  PROVE  \E sums : Adds(b, S, sums) /\ Total(b, S) = sums[S]
<1> DEFINE table == CHOOSE sums : Adds(b, S, sums)
<1>1. Adds(b, S, table)
  BY AddsExists, Zenon
<1>2. Total(b, S) = table[S]
  BY Zenon DEF Total, MapThenSumSet, MapThenFoldSet, Adds, First
<1> QED  BY <1>1, <1>2

(* A row counts with its own effect, and once. *)
LEMMA TotalOfOne ==
  ASSUME NEW b, NEW S, IsFiniteSet(S), \A r \in S : signed_effect(b[r]) \in Int, NEW x \in S
  PROVE  /\ Total(b, S) \in Int /\ Total(b, S \ {x}) \in Int
         /\ Total(b, S) = signed_effect(b[x]) + Total(b, S \ {x})
<1>1. PICK sums : Adds(b, S, sums) /\ Total(b, S) = sums[S]
  BY TotalIs
<1>2. PICK rest : rest = S \ {x}
  OBVIOUS
<1>3. IsFiniteSet(rest) /\ rest \in SUBSET S /\ rest \in SUBSET rest
  BY <1>2, FS_Subset
<1>4. PICK part : Adds(b, rest, part) /\ Total(b, rest) = part[rest]
  BY <1>3, TotalIs
<1>5. part[rest] = sums[rest]
  <2>1. Adds(b, S, sums) /\ Adds(b, rest, part) /\ rest \in SUBSET S /\ rest \in SUBSET rest
    BY <1>1, <1>3, <1>4
  <2> QED  BY ONLY <2>1, AddsAgree, IsFiniteSet(S)
<1>6. sums[S] = signed_effect(b[x]) + sums[rest]
  BY <1>1, <1>2, AddsAny
<1>7. sums[S] \in Int /\ sums[rest] \in Int
  BY <1>1, <1>3, AddsInt
<1> QED  BY <1>1, <1>2, <1>4, <1>5, <1>6, <1>7

(* The same effects give the same sum. *)
LEMMA TotalSame ==
  ASSUME NEW b, NEW e, NEW S, IsFiniteSet(S),
         \A r \in S : signed_effect(b[r]) = signed_effect(e[r])
  PROVE  Total(b, S) = Total(e, S)
<1>1. PICK sums : Adds(b, S, sums) /\ Total(b, S) = sums[S]
  BY TotalIs
<1>2. PICK other : Adds(e, S, other) /\ Total(e, S) = other[S]
  BY TotalIs
<1>3. Adds(e, S, sums)
  <2>1. sums = [T \in SUBSET S |->
                  IF T = {} THEN 0 ELSE signed_effect(b[First(T)]) + sums[T \ {First(T)}]]
    BY <1>1 DEF Adds
  <2>2. \A T \in SUBSET S : T # {} => signed_effect(b[First(T)]) = signed_effect(e[First(T)])
    BY DEF First
  <2>3. \A T \in SUBSET S :
          (IF T = {} THEN 0 ELSE signed_effect(b[First(T)]) + sums[T \ {First(T)}])
          = IF T = {} THEN 0 ELSE signed_effect(e[First(T)]) + sums[T \ {First(T)}]
    BY <2>2
  <2> QED  BY <2>1, <2>3 DEF Adds
<1>4. sums[S] = other[S]
  BY <1>2, <1>3, AddsAgree
<1> QED  BY <1>1, <1>2, <1>4

(* What get_balance returns. *)
LEMMA NetIsTotal ==
  ASSUME NEW b
  PROVE  Net(b) = Total(b, Counted(b))
BY Zenon DEF Net, Total

-----------------------------------------------------------------------------
(* The balance *)

Finite == IsFiniteSet(Counted(book))

(* What a row of the book adds to the balance is a number of cents. *)
LEMMA EffectIsInt ==
  ASSUME NEW row \in Row
  PROVE  signed_effect(row) \in Int
<1>1. row.head.event \in EventType /\ row.body \in Int
  BY DEF Row
<1>2. SIGN[row.head.event] \in {1, -1}
  BY <1>1 DEF EventType, SIGN
<1>3. QED
  BY <1>1, <1>2 DEF signed_effect

(* So does every row that counts. *)
LEMMA CountedEffects ==
  ASSUME TypeOK, NEW r \in Counted(book)
  PROVE  signed_effect(book[r]) \in Int
<1>1. book[r] \in Row
  BY RowFields DEF Counted, Book!InBook
<1>2. QED
  BY <1>1, EffectIsInt

(* A new entry starts to count, and the others go on as they were. *)
LEMMA RecordCounts ==
  ASSUME IInv, NEW c \in Calls, Apply(c), asked[c].kind = "record",
         NEW new, new = book'
  PROVE  /\ c \notin Counted(book) /\ Counted(new) = Counted(book) \cup {c}
         /\ \A r \in Counted(book) : new[r] = book[r]
         /\ new[c] \in Row /\ new[c].head = asked[c].head /\ new[c].body = asked[c].body
<1>1. Book!Record(c)
  BY DEF Apply, Book!Correct
<1>2. /\ c \in Book!RowIds /\ book[c] = NoRow
      /\ new = [book EXCEPT ![c] = Book!Entry(c, asked[c].head, asked[c].body)]
  BY <1>1 DEF Book!Record, Book!InBook, Book!RowIds
<1>3. \A r \in Book!RowIds : r # c => new[r] = book[r]
  BY <1>2 DEF IInv, TypeOK
<1>4. new[c] = Book!Entry(c, asked[c].head, asked[c].body) /\ new[c] \in Row /\ new[c].status = "ACTIVE"
  BY <1>2, ApplyShape DEF IInv, TypeOK
<1>5. new[c].head = asked[c].head /\ new[c].body = asked[c].body /\ new[c] # NoRow
  BY <1>4, SeedAssumption DEF Book!Entry
<1>6. QED
  BY <1>2, <1>3, <1>4, <1>5 DEF Counted

(* The old version stops counting in the step in which the new one starts. *)
LEMMA CorrectionCounts ==
  ASSUME IInv, NEW c \in Calls, Apply(c), asked[c].kind # "record",
         NEW new, new = book', NEW t, t = asked[c].target
  PROVE  /\ c \notin Counted(book) /\ t \in Counted(book)
         /\ Counted(new) = (Counted(book) \ {t}) \cup {c}
         /\ \A r \in Counted(book) \ {t} : new[r] = book[r]
         /\ new[c] \in Row
<1>1. Book!Correct(c)
  BY DEF Apply, Book!Record
<1>2. PICK e : e = Book!Entry(c, Book!Filled(asked[c].head, book[t].head),
                                 Book!Filled(asked[c].body, book[t].body))
  OBVIOUS
<1>3. /\ c \in Book!RowIds /\ book[c] = NoRow /\ book[t] # NoRow /\ book[t].status = "ACTIVE"
      /\ new = [book EXCEPT ![c] = e, ![t].status = "SUPERSEDED", ![t].succ = c]
  BY <1>1, <1>2 DEF Book!Correct, Book!InBook, Book!RowIds
<1>4. t \in Book!RowIds /\ t # c /\ book[t] \in Row
  <2>1. asked[c] \in Request /\ asked[c].kind = "correct"
    BY <1>1 DEF Book!Correct, IInv, TypeOK
  <2>2. t \in Book!RowIds
    BY <1>1, <2>1 DEF Book!Correct, IInv, Requested
  <2>3. QED
    BY <1>3, <2>2 DEF IInv, TypeOK
<1>5. \A r \in Book!RowIds : r # c /\ r # t => new[r] = book[r]
  BY <1>3 DEF IInv, TypeOK
<1>6. new[t].status = "SUPERSEDED"
  <2>1. new[t] = [book[t] EXCEPT !.status = "SUPERSEDED", !.succ = c]
    BY <1>3, <1>4 DEF IInv, TypeOK
  <2>2. QED
    BY <1>4, <2>1 DEF Row
<1>7. new[c] \in Row /\ new[c].status = "ACTIVE" /\ new[c] # NoRow
  BY ApplyShape, SeedAssumption
<1>8. QED
  BY <1>3, <1>4, <1>5, <1>6, <1>7 DEF Counted

(* Only a request changes the book, and only with a row of its own. *)
LEMMA WhoApplies ==
  ASSUME IInv, [Next]_vars, book' # book
  PROVE  \E c \in Calls : Apply(c)
BY DEF Next, vars, ledger, AskRecord, AskCorrection, Ask, Refuse, Book!Refuse, ReadRows, ReadBalance,
   Run, Fail, Weekly, Monthly, Trigger, Tick, Finished

(* A row comes into the book by the step of its own request. *)
LEMMA AppliesItself ==
  ASSUME IInv, [Next]_vars, NEW c \in Calls, Applied(c)
  PROVE  Apply(c)
<1>1. book' # book
  BY DEF Applied, Book!InBook
<1>2. PICK d \in Calls : Apply(d)
  BY <1>1, WhoApplies
<1>3. c \in Book!RowIds
  BY DEF Book!RowIds
<1>4. c # d => book'[c] = book[c] \/ Book!InBook(c)
  BY <1>2, <1>3, ApplyShape
<1>5. QED
  BY <1>2, <1>4 DEF Applied, Book!InBook

(* However many rows there may be, those that count are always finitely many. *)
LEMMA FiniteInit == ASSUME IsFiniteSet(Seeds), Init PROVE Finite
<1>1. Counted(book) \subseteq Seeds
  BY DEF Init, Book!Init, Counted
<1>2. QED
  BY <1>1, FS_Subset DEF Finite

(* A step adds one row that counts at most. *)
LEMMA FiniteStep ==
  ASSUME IInv, Finite, [Next]_vars
  PROVE  Finite'
<1>1. CASE book' = book
  BY <1>1 DEF Finite, Counted
<1>2. CASE book' # book
  <2>1. PICK c \in Calls : Apply(c)
    BY <1>2, WhoApplies
  <2>2. PICK new, t : new = book' /\ t = asked[c].target
    OBVIOUS
  <2>3. Counted(new) \subseteq Counted(book) \cup {c}
    <3>1. CASE asked[c].kind = "record"
      BY <2>1, <2>2, <3>1, RecordCounts
    <3>2. CASE asked[c].kind # "record"
      BY <2>1, <2>2, <3>2, CorrectionCounts
    <3>3. QED
      BY <3>1, <3>2
  <2>4. IsFiniteSet(Counted(book) \cup {c})
    BY FS_AddElement DEF Finite
  <2>5. QED
    BY <2>2, <2>3, <2>4, FS_Subset DEF Finite
<1>3. QED
  BY <1>1, <1>2

(* So they are in every reachable state. *)
LEMMA AlwaysFinite == ASSUME IsFiniteSet(Seeds) PROVE Spec => []Finite
<1>1. Init => Finite
  BY FiniteInit
<1>2. IInv /\ Finite /\ [Next]_vars => Finite'
  BY FiniteStep
<1>3. QED
  BY <1>1, <1>2, Invariant, PTL DEF Spec

(* The balance after an entry is recorded. *)
LEMMA RecordMoves ==
  ASSUME IInv, Finite, NEW c \in Calls, Apply(c), asked[c].kind = "record",
         NEW new, new = book'
  PROVE  /\ Net(new) = Net(book) + signed_effect(new[c])
         /\ Net(book) \in Int /\ signed_effect(new[c]) \in Int
<1>1. PICK old, all : old = Counted(book) /\ all = Counted(new)
  OBVIOUS
<1>2. /\ c \notin old /\ all = old \cup {c} /\ \A r \in old : new[r] = book[r]
      /\ signed_effect(new[c]) \in Int
  BY <1>1, RecordCounts, EffectIsInt
<1>3. IsFiniteSet(old) /\ IsFiniteSet(all) /\ all \ {c} = old /\ c \in all
  <2>1. IsFiniteSet(old)
    BY <1>1 DEF Finite
  <2>2. QED
    BY <1>2, <2>1, FS_AddElement
<1>4. \A r \in old : signed_effect(book[r]) \in Int
  BY <1>1, CountedEffects DEF IInv
<1>5. \A r \in all : signed_effect(new[r]) \in Int
  BY <1>2, <1>4
<1>6. /\ Total(new, all) = signed_effect(new[c]) + Total(new, old)
      /\ Total(new, old) \in Int
  BY <1>3, <1>5, TotalOfOne
<1>7. Total(book, old) = Total(new, old)
  <2>1. \A r \in old : signed_effect(book[r]) = signed_effect(new[r])
    BY <1>2
  <2>2. QED
    BY <1>3, <2>1, TotalSame
<1>8. Net(book) = Total(book, old) /\ Net(new) = Total(new, all)
  BY <1>1, NetIsTotal
<1>9. QED
  BY <1>2, <1>6, <1>7, <1>8

(* The balance after a correction. *)
LEMMA CorrectionMoves ==
  ASSUME IInv, Finite, NEW c \in Calls, Apply(c), asked[c].kind # "record",
         NEW new, new = book', NEW t, t = asked[c].target
  PROVE  Net(new) = Net(book) + signed_effect(new[c]) - signed_effect(book[t])
<1>1. PICK old, all : old = Counted(book) /\ all = Counted(new)
  OBVIOUS
<1>2. PICK rest : rest = old \ {t}
  OBVIOUS
<1>3. /\ c \notin old /\ t \in old /\ all = rest \cup {c} /\ \A r \in rest : new[r] = book[r]
      /\ signed_effect(new[c]) \in Int
  BY <1>1, <1>2, CorrectionCounts, EffectIsInt
<1>4. IsFiniteSet(old) /\ IsFiniteSet(rest) /\ IsFiniteSet(all) /\ all \ {c} = rest /\ c \in all
  <2>1. IsFiniteSet(old)
    BY <1>1 DEF Finite
  <2>2. IsFiniteSet(rest)
    BY <1>2, <2>1, FS_Subset
  <2>3. QED
    BY <1>2, <1>3, <2>1, <2>2, FS_AddElement
<1>5. \A r \in old : signed_effect(book[r]) \in Int
  BY <1>1, CountedEffects DEF IInv
<1>6. \A r \in all : signed_effect(new[r]) \in Int
  BY <1>2, <1>3, <1>5
<1>7. /\ Total(new, all) = signed_effect(new[c]) + Total(new, rest)
      /\ Total(new, rest) \in Int
  <2>1. /\ Total(new, all) = signed_effect(new[c]) + Total(new, all \ {c})
        /\ Total(new, all \ {c}) \in Int
    BY <1>4, <1>6, TotalOfOne
  <2>2. QED
    BY <1>4, <2>1
<1>8. Total(book, old) = signed_effect(book[t]) + Total(book, rest)
  BY <1>2, <1>3, <1>4, <1>5, TotalOfOne
<1>9. Total(book, rest) = Total(new, rest)
  <2>1. \A r \in rest : signed_effect(book[r]) = signed_effect(new[r])
    BY <1>3
  <2>2. QED
    BY <1>4, <2>1, TotalSame
<1>10. Net(book) = Total(book, old) /\ Net(new) = Total(new, all)
  BY <1>1, NetIsTotal
<1>11. QED
  BY <1>3, <1>5, <1>7, <1>8, <1>9, <1>10

(* An entry moves the balance by its own effect and a correction by the        *)
(* difference of the two versions, however many rows get_balance has to add up *)
(* and in whatever order.                                                      *)
THEOREM BalanceMoves ==
  ASSUME IsFiniteSet(Seeds)
  PROVE  Spec => BalanceMovesByTheDifference
<1> DEFINE Moves ==
      \A c \in Calls :
        Applied(c) =>
          Net(book') = Net(book) + signed_effect(book'[c])
                       - (IF asked[c].kind = "record" THEN 0
                          ELSE signed_effect(book[asked[c].target]))
<1>1. IInv /\ Finite /\ [Next]_vars => [Moves]_book
  <2> SUFFICES ASSUME IInv, Finite, [Next]_vars, NEW c \in Calls, Applied(c)
      PROVE  Net(book') = Net(book) + signed_effect(book'[c])
                          - (IF asked[c].kind = "record" THEN 0
                             ELSE signed_effect(book[asked[c].target]))
    OBVIOUS
  <2>1. PICK new, t : new = book' /\ t = asked[c].target
    OBVIOUS
  <2>2. Apply(c)
    BY AppliesItself
  <2>3. CASE asked[c].kind = "record"
    BY <2>1, <2>2, <2>3, RecordMoves
  <2>4. CASE asked[c].kind # "record"
    BY <2>1, <2>2, <2>4, CorrectionMoves
  <2>5. QED
    BY <2>3, <2>4
<1>2. QED
  BY <1>1, Invariant, AlwaysFinite, PTL DEF Spec, BalanceMovesByTheDifference

(* Whoever owes and pays back the debt owes nothing afterwards (erratum X1). *)
THEOREM DebtsCanBeSettled ==
  ASSUME IsFiniteSet(Seeds)
  PROVE  Spec => RepaymentSettles
<1> DEFINE Settles ==
      \A c \in Calls :
        /\ Applied(c) /\ asked[c].kind = "record"
        /\ \/ /\ Direction(Net(book)) = "erick_owes_mama"
              /\ asked[c].head.event = "erick_devuelve" /\ asked[c].body = Net(book)
           \/ /\ Direction(Net(book)) = "mama_owes_erick"
              /\ asked[c].head.event = "mama_devuelve" /\ asked[c].body = -Net(book)
        => Direction(Net(book')) = "no_debt"
<1>1. IInv /\ Finite /\ [Next]_vars => [Settles]_book
  <2> SUFFICES ASSUME IInv, Finite, [Next]_vars, NEW c \in Calls,
                      Applied(c), asked[c].kind = "record",
                      \/ asked[c].head.event = "erick_devuelve" /\ asked[c].body = Net(book)
                      \/ asked[c].head.event = "mama_devuelve" /\ asked[c].body = -Net(book)
      PROVE  Direction(Net(book')) = "no_debt"
    OBVIOUS
  <2>1. PICK new : new = book'
    OBVIOUS
  <2>2. /\ Net(new) = Net(book) + signed_effect(new[c]) /\ Net(book) \in Int
        /\ new[c].head = asked[c].head /\ new[c].body = asked[c].body
    BY <2>1, AppliesItself, RecordMoves, RecordCounts
  <2>3. signed_effect(new[c]) = -Net(book)
    BY <2>2 DEF signed_effect, SIGN
  <2>4. Net(new) = 0
    BY <2>2, <2>3
  <2>5. QED
    BY <2>1, <2>4 DEF Direction
<1>2. QED
  BY <1>1, Invariant, AlwaysFinite, PTL DEF Spec, RepaymentSettles
=============================================================================
