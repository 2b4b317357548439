------------------------------ MODULE Reports ------------------------------
(***************************************************************************)
(* What the two people are told of the ledger: the balance and whose debt  *)
(* it is (domain/events.py, domain/balance.py), the weekly and the monthly *)
(* report (reports/service.py) and the n8n schedules that fetch them, one  *)
(* request for each chat, while entries and corrections go on being        *)
(* recorded.  The ledger is the abstract one, which Ledger.tla implements. *)
(*                                                                         *)
(* Time is counted in hours UTC and days from an arbitrary one; Lima is    *)
(* five hours behind, always.  An entry's head is its event type and date, *)
(* its body the amount in cents.  Layout and wording are left out.         *)
(***************************************************************************)
EXTENDS Integers, Sequences, FiniteSets, FiniteSetsExt

CONSTANTS
  Calls,        \* the requests to record and to correct
  Seeds,        \* the rows in the ledger before them
  SeedRow,      \* the contents of those rows
  Authors,      \* who sends them
  Chats,        \* who is sent the reports (TELEGRAM_AUTHORIZED_IDS)
  Movements,    \* what is recorded: event types with amounts
  FirstDay,     \* the first day of each month; months are counted from year 0
  Typed,        \* the dates a person may type instead of pressing Hoy or Ayer
  Start, End,   \* the hours between which the clock runs
  Omitted, NoRow, None

VARIABLES
  now,      \* the hour; the API and n8n read the same clock
  offered,  \* the requests whose date is one the workflow offered
  report,   \* the report on its way to each chat
  book, asked, granted, code   \* the ledger

ledger == <<book, asked, granted, code>>
vars == <<now, offered, report, ledger>>

Book == INSTANCE AbstractLedger WITH Requests <- {}

-----------------------------------------------------------------------------
(* The calendar *)

LimaDay(hour) == (hour - 5) \div 24

UTCDay(hour) == hour \div 24

MonthOf(day) ==
  CHOOSE m \in DOMAIN FirstDay :
    FirstDay[m] <= day /\ m + 1 \in DOMAIN FirstDay /\ day < FirstDay[m + 1]

MonthIndex(year, month) == 12 * year + month - 1

MutPeriod(year, month) ==  \* up to the first of the next month
  FirstDay[MonthIndex(year, month)] .. FirstDay[MonthIndex(year, month) + 1]

(* date(year, month, 1) and calendar.monthrange *)
Period(year, month) ==
  FirstDay[MonthIndex(year, month)] .. FirstDay[MonthIndex(year, month) + 1] - 1

(* _validate_period *)
ValidPeriod(year, month) == year \in 2000 .. 2100 /\ month \in 1 .. 12

ASSUME CalendarAssumption ==
  /\ Start \in Nat /\ End \in Nat /\ Start <= End
  /\ \A m \in DOMAIN FirstDay : m \in 12 * 2000 .. 12 * 2100 + 11 /\ FirstDay[m] \in Int
  /\ \A m, n \in DOMAIN FirstDay : m < n => FirstDay[m] < FirstDay[n]
  /\ \A hour \in Start .. End : \A day \in {LimaDay(hour), UTCDay(hour)} :
       \E m \in DOMAIN FirstDay :
         /\ {m - 1, m + 1} \subseteq DOMAIN FirstDay
         /\ FirstDay[m] <= day /\ day < FirstDay[m + 1]
  /\ Typed \subseteq Int

-----------------------------------------------------------------------------
(* The balance *)

MutSIGN ==  \* a repayment booked as a new debt, as before erratum X1
  [mama_entrega_dinero |-> 1, erick_gasta_para_mama |-> -1, erick_entrega_dinero |-> -1,
   mama_devuelve |-> -1, erick_devuelve |-> 1]

(* Money that goes from Mama to Erick raises the balance, and money that goes *)
(* the other way lowers it.                                                   *)
SIGN ==
  [mama_entrega_dinero |-> 1, erick_gasta_para_mama |-> -1, erick_entrega_dinero |-> -1,
   mama_devuelve |-> 1, erick_devuelve |-> -1]

EventType == DOMAIN SIGN

signed_effect(row) == SIGN[row.head.event] * row.body

MutCounted(b) == {r \in Book!RowIds : b[r] # NoRow}  \* superseded rows too

(* The rows a report is about: status = ACTIVE. *)
Counted(b) == {r \in Book!RowIds : b[r] # NoRow /\ b[r].status = "ACTIVE"}

(* compute_balance: positive when Erick owes Mama. *)
Net(b) == MapThenSumSet(LAMBDA r : signed_effect(b[r]), Counted(b))

Direction(net) ==
  IF net > 0 THEN "erick_owes_mama" ELSE IF net < 0 THEN "mama_owes_erick" ELSE "no_debt"

-----------------------------------------------------------------------------
(* State *)

Row ==
  [key : Calls \cup Seeds, actor : Authors, head : [event : EventType, date : Int],
   body : Int, status : {"ACTIVE", "SUPERSEDED"}, succ : Calls \cup {None}]

Request ==
  [kind : {"record", "correct"}, key : Calls, actor : Authors, target : Book!RowIds \cup {None},
   head : [event : EventType, date : Int], body : Int]

ASSUME SeedAssumption ==
  /\ Seeds \cap Calls = {} /\ None \notin Book!RowIds /\ NoRow \notin Row /\ None \notin Request
  /\ SeedRow \in [Seeds -> Row]
  /\ \A s \in Seeds : /\ SeedRow[s].status = "ACTIVE" /\ SeedRow[s].succ = None
                     /\ SeedRow[s].head.date <= LimaDay(Start)
  /\ Movements \subseteq [event : EventType, amount : Int]

(* The statements a report has still to run, whether it failed, its period, and  *)
(* what they have read: the rows of the table, the rows summed in the balance.   *)
Report ==
  [todo : {<<"rows", "balance">>, <<"balance">>, <<>>}, failed : BOOLEAN, year : Nat \cup {None},
   month : 1 .. 12 \cup {None}, rows : SUBSET Book!RowIds, summed : SUBSET Book!RowIds]

Idle ==
  [todo |-> <<>>, failed |-> FALSE, year |-> None, month |-> None, rows |-> {}, summed |-> {}]

TypeOK ==
  /\ now \in Start .. End
  /\ book \in [Book!RowIds -> Row \cup {NoRow}]
  /\ asked \in [Calls -> Request \cup {None}]
  /\ offered \subseteq Calls
  /\ report \in [Chats -> Report]

Init ==
  /\ now = Start
  /\ offered = {}
  /\ report = [p \in Chats |-> Idle]
  /\ Book!Init

-----------------------------------------------------------------------------
(* Recording, with a date the workflow offers or the person types *)

MutLimaISO(off) == UTCDay(now) + off  \* the date in UTC

(* limaISO, in both workflows *)
limaISO(off) == LimaDay(now) + off

(* Hoy and Ayer *)
Buttons == {limaISO(0), limaISO(-1)}

Ask(c, kind, target, date) ==
  /\ asked[c] = None
  /\ \E a \in Authors, m \in Movements :
       asked' = [asked EXCEPT ![c] =
                   [kind |-> kind, key |-> c, actor |-> a, target |-> target,
                    head |-> [event |-> m.event, date |-> date], body |-> m.amount]]
  /\ UNCHANGED <<now, report, book, granted, code>>

AskRecord(c) ==
  \/ offered' = offered \cup {c} /\ \E date \in Buttons : Ask(c, "record", None, date)
  \/ UNCHANGED offered /\ \E date \in Typed : Ask(c, "record", None, date)

(* What a correction does not replace is the target's, its date for one. *)
AskCorrection(c) ==
  \E t \in {r \in Book!RowIds : Book!InBook(r)} :
    \/ /\ offered' = offered \cup {c}
       /\ \E date \in Buttons \cup {book[t].head.date} : Ask(c, "correct", t, date)
    \/ UNCHANGED offered /\ \E date \in Typed : Ask(c, "correct", t, date)

(* _check_event_date, with _today_lima *)
Dated(c) == asked[c].head.date <= LimaDay(now)

Apply(c) ==
  /\ asked[c] # None /\ Dated(c)
  /\ Book!Record(c) \/ Book!Correct(c)
  /\ UNCHANGED <<now, offered, report>>

(* Among the reasons of the abstract ledger "invalid" is here the date. *)
Refuse(c) ==
  /\ Book!Refuse(c)
  /\ code'[c] = "invalid" <=> ~Dated(c)
  /\ UNCHANGED <<now, offered, report>>

-----------------------------------------------------------------------------
(* The schedules and the reports *)

Trigger(next) ==
  /\ \A p \in Chats : report[p].todo = <<>>
  /\ report' = [p \in Chats |-> next]
  /\ UNCHANGED <<now, offered, ledger>>

(* Sundays at 19:00 in Lima (any day here). *)
Weekly ==
  /\ now % 24 = 0
  /\ Trigger([Idle EXCEPT !.todo = <<"balance">>])

MutLastMonth ==  \* the JavaScript month, which counts from 0, of the same year
  LET m == MonthOf(UTCDay(now)) IN [year |-> m \div 12, month |-> m % 12]

(* Prep mensual: day 0 of the present month, in UTC. *)
LastMonth ==
  LET m == MonthOf(FirstDay[MonthOf(UTCDay(now))] - 1)
  IN [year |-> m \div 12, month |-> (m % 12) + 1]

MutStatements == <<"balance", "rows">>

(* monthly_report: two statements, each of which sees what is committed by then. *)
Statements == <<"rows", "balance">>

(* The first of the month at 07:00 in Lima. *)
Monthly ==
  /\ now % 24 = 12
  /\ LimaDay(now) = FirstDay[MonthOf(LimaDay(now))]
  /\ Trigger([Idle EXCEPT !.todo = Statements, !.year = LastMonth.year, !.month = LastMonth.month])

Run(p, statement, result) ==
  /\ report[p].todo # <<>> /\ Head(report[p].todo) = statement
  /\ report' = [report EXCEPT ![p] = [result EXCEPT !.todo = Tail(@)]]
  /\ UNCHANGED <<now, offered, ledger>>

(* The current entries of the period, by event date. *)
ReadRows(p) ==
  LET r == report[p]
  IN /\ ValidPeriod(r.year, r.month)
     /\ Run(p, "rows", [r EXCEPT !.rows = {e \in Counted(book) :
                                               book[e].head.date \in Period(r.year, r.month)}])

(* get_balance *)
ReadBalance(p) == Run(p, "balance", [report[p] EXCEPT !.summed = Counted(book)])

(* The request or the message fails, and is not tried again. *)
Fail(p) ==
  /\ report[p].todo # <<>>
  /\ report' = [report EXCEPT ![p].todo = <<>>, ![p].failed = TRUE]
  /\ UNCHANGED <<now, offered, ledger>>

(* A day begins in UTC, or in Lima, or it is 07:00 in Lima. *)
Tick ==
  /\ \E hour \in now + 1 .. End :
       /\ hour % 24 \in {0, 5, 12}
       /\ now' = hour
  /\ UNCHANGED <<offered, report, ledger>>

Finished == now = End /\ UNCHANGED vars

Next ==
  \/ \E c \in Calls : AskRecord(c) \/ AskCorrection(c) \/ Apply(c) \/ Refuse(c)
  \/ \E p \in Chats : ReadRows(p) \/ ReadBalance(p) \/ Fail(p)
  \/ Weekly \/ Monthly \/ Tick \/ Finished

Spec == Init /\ [][Next]_vars

-----------------------------------------------------------------------------
(* Properties *)

Applied(c) == ~Book!InBook(c) /\ Book!InBook(c)'

(* An entry moves the balance by its own effect, and a correction by the        *)
(* difference of the two versions, whatever it changes: the old version stops   *)
(* counting in the step in which the new one starts (get_balance sums the       *)
(* ACTIVE rows).                                                                *)
BalanceMovesByTheDifference ==
  [][\A c \in Calls :
       Applied(c) =>
         Net(book') = Net(book) + signed_effect(book'[c])
                      - (IF asked[c].kind = "record" THEN 0
                         ELSE signed_effect(book[asked[c].target]))]_book

(* Whoever owes pays back exactly the debt, and there is none, whichever of the *)
(* two owed (domain/events.py, erratum X1: the repayment doubled the debt).     *)
RepaymentSettles ==
  [][\A c \in Calls :
       /\ Applied(c) /\ asked[c].kind = "record"
       /\ \/ /\ Direction(Net(book)) = "erick_owes_mama"
             /\ asked[c].head.event = "erick_devuelve" /\ asked[c].body = Net(book)
          \/ /\ Direction(Net(book)) = "mama_owes_erick"
             /\ asked[c].head.event = "mama_devuelve" /\ asked[c].body = -Net(book)
       => Direction(Net(book')) = "no_debt"]_book

(* A date the workflow offered is never refused as in the future: Hoy and Ayer  *)
(* stay good however close to midnight they are pressed and however late the    *)
(* confirmation comes, and whatever the date is in UTC.                         *)
HoyIsAccepted == \A c \in offered : code[c] # "invalid"

(* The table of a monthly report shows movements of its month only, and none    *)
(* together with its own correction, whatever is recorded while it is read.     *)
EntriesShownOnce ==
  \A p \in Chats : \A e \in report[p].rows :
    /\ MonthOf(book[e].head.date) = MonthIndex(report[p].year, report[p].month)
    /\ book[e].succ \notin report[p].rows

Sent(p) == report[p].todo = <<>> /\ ~report[p].failed

(* The two statements may see two ledgers, but in that order: an entry in the   *)
(* table is summed in the balance above it, unless it has been corrected.       *)
TableIsSummed ==
  \A p \in Chats : Sent(p) =>
    \A e \in report[p].rows : e \in report[p].summed \/ book[e].status = "SUPERSEDED"

(* The monthly report is about the month before the present one in Lima, at the *)
(* turn of a year too, a month the API accepts and all of whose days are over   *)
(* (Prep mensual reckons in UTC, with months that count from 0).                *)
MonthJustEnded ==
  [][\A p \in Chats :
       report[p].todo = <<>> /\ report'[p].todo = Statements =>
         /\ ValidPeriod(report'[p].year, report'[p].month)
         /\ MonthIndex(report'[p].year, report'[p].month) + 1 = MonthOf(LimaDay(now))
         /\ \A day \in Period(report'[p].year, report'[p].month) : day < LimaDay(now)]_report
=============================================================================
