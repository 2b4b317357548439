---------------------------- MODULE Conversation ----------------------------
(***************************************************************************)
(* One person's Telegram chat, as the n8n workflows handle it              *)
(* (n8n/workflow-a-registro.json, n8n/workflow-b-correccion.json): every   *)
(* update is an execution of its own, which reads the conversation state   *)
(* from Redis, decides, and writes the whole state back.  Executions run   *)
(* side by side, and nothing orders one's write after another's read.      *)
(*                                                                         *)
(* The ledger API is the abstract ledger, which Ledger.tla implements.     *)
(*                                                                         *)
(* An update stands for its update_id and for the data it carries: a draft *)
(* names the updates that supplied its event type, text and date.  What    *)
(* messages say is left out, and so is an update from a stranger, which    *)
(* changes no state.  A message is sent after the state it goes with has   *)
(* been stored, and no workflow looks at what became of it.                *)
(***************************************************************************)
EXTENDS Integers, Sequences, FiniteSets, SequencesExt

CONSTANTS
  Updates,     \* the updates Telegram delivers, 1 .. n; also the requests they may send
  Seeds,       \* the rows in the ledger before the first of them, as integers below 1
  SeedRow,     \* the contents of those rows
  Inputs,      \* the kinds of update the user sends
  Me,          \* the person the chat belongs to
  MaxLive,     \* how many executions run at once
  PickerSize,  \* how many rows the correction picker lists
  Omitted, NoRow, None

ASSUME ConversationAssumption ==
  /\ Updates = 1 .. Cardinality(Updates)
  /\ \A s \in Seeds : s \in Int \ Updates
  /\ MaxLive \in Nat \ {0} /\ PickerSize \in Nat \ {0}

VARIABLES
  conv,       \* the conversation state in Redis; Idle when the key is absent
  pc,         \* the node each execution runs next
  kind,       \* what the user did
  seen,       \* the conversation state an execution carries
  summary,    \* summary[k]: the summary made and stored under idempotency key k
  cancelled,  \* the keys of the states that CANCELAR deleted
  expired,    \* the keys of the summaries whose session expired, and nobody held it
  book, asked, granted, code   \* the ledger

chat == <<conv, pc, kind, seen>>
history == <<summary, cancelled, expired>>
ledger == <<book, asked, granted, code>>
vars == <<chat, history, ledger>>

Book == INSTANCE AbstractLedger WITH Calls <- Updates, Requests <- {}

-----------------------------------------------------------------------------
(* Updates and states *)

(* "date" is one of the buttons Hoy and Ayer, "otra" the third; a "datetext"  *)
(* is a message that reads AAAA-MM-DD; "confirm" is CONFIRMAR or REINTENTAR;  *)
(* "continue" and "switch" answer the question about an unfinished entry.     *)
Texts == {"text", "datetext"}
CorrButtons == {"pick", "scope"}
Kinds == Texts \cup CorrButtons
         \cup {"corregir", "evt", "date", "otra", "confirm", "cancel", "continue", "switch"}

ASSUME InputsAssumption == Inputs \subseteq Kinds

RegistrationSteps ==
  {"WAITING_EVENT_TYPE", "WAITING_TRANSACTION_TEXT", "WAITING_DATE",
   "WAITING_DATE_MANUAL", "WAITING_CONFIRMATION", "PROCESSING"}

CorrectionSteps ==
  {"WAITING_CORRECTION_SELECTION", "WAITING_CORRECTION_SCOPE",
   "WAITING_CORRECTION_EVENT_TYPE", "WAITING_CORRECTION_TEXT", "WAITING_CORRECTION_DATE",
   "WAITING_CORRECTION_DATE_MANUAL", "WAITING_CORRECTION_CONFIRMATION",
   "PROCESSING_CORRECTION"}

Scopes == {"tipo", "md", "fecha", "todo"}

(* What a step of either workflow waits for. *)
Expected(step) ==
  CASE step \in {"WAITING_EVENT_TYPE", "WAITING_CORRECTION_EVENT_TYPE"} -> {"evt"}
    [] step \in {"WAITING_TRANSACTION_TEXT", "WAITING_CORRECTION_TEXT"} -> Texts
    [] step \in {"WAITING_DATE", "WAITING_CORRECTION_DATE"} -> {"date", "otra"}
    [] step \in {"WAITING_DATE_MANUAL", "WAITING_CORRECTION_DATE_MANUAL"} -> {"datetext"}
    [] step \in {"WAITING_CONFIRMATION", "WAITING_CORRECTION_CONFIRMATION"} -> {"confirm"}
    [] step = "WAITING_CORRECTION_SELECTION" -> {"pick"}
    [] step = "WAITING_CORRECTION_SCOPE" -> {"scope"}
    [] OTHER -> {}

Sources == Updates \cup Seeds \cup {None}
Draft == [event : Sources, text : Sources, date : Sources]
NoDraft == [event |-> None, text |-> None, date |-> None]

(* The fields of a draft, and those of a row for the ones it does not have. *)
Patched(draft, base) ==
  [f \in DOMAIN draft |-> IF draft[f] = None THEN base[f] ELSE draft[f]]

(* The rows of the ledger as the chat may meet them, and what it sends. *)
Row ==
  [key : Updates \cup Seeds, actor : {Me} \cup {SeedRow[s].actor : s \in Seeds},
   head : {Omitted} \cup {SeedRow[s].head : s \in Seeds}, body : Draft,
   status : {"ACTIVE", "SUPERSEDED"}, succ : Book!RowIds \cup {None}]

Summary == [target : Book!RowIds \cup {None}, body : Draft]

Request ==
  [kind : {"record", "correct"}, key : Updates, actor : {Me}, target : Book!RowIds \cup {None},
   head : {Omitted}, body : Draft]

(* The rows already there were not recorded in this chat: their keys and what *)
(* they say come from elsewhere.                                              *)
ASSUME SeedAssumption ==
  /\ SeedRow \in [Seeds -> Row]
  /\ \A s \in Seeds :
       SeedRow[s].key \in Seeds /\ SeedRow[s].body \in [{"event", "text", "date"} -> Seeds]

ASSUME NamesAssumption ==
  /\ None \notin Book!RowIds /\ None \notin Scopes
  /\ None \notin Summary /\ None \notin Request
  /\ NoRow \notin Row
  /\ Omitted \notin Draft

State ==
  [step : RegistrationSteps \cup CorrectionSteps \cup {"IDLE"}, draft : Draft,
   key : Updates \cup {None}, target : Book!RowIds \cup {None},
   scope : Scopes \cup {None}, list : Seq(Book!RowIds)]

Fresh(step) ==
  [step |-> step, draft |-> NoDraft, key |-> None, target |-> None, scope |-> None,
   list |-> <<>>]

Idle == Fresh("IDLE")

Processing(state) == state.step \in {"PROCESSING", "PROCESSING_CORRECTION"}

Nodes == {"waiting", "registration", "resume", "ask", "correction", "correctionSM",
          "show", "list", "picker", "post", "posted", "done"}

TypeOK ==
  /\ conv \in State
  /\ pc \in [Updates -> Nodes]
  /\ kind \in [Updates -> Kinds \cup {None}]
  /\ seen \in [Updates -> State]
  /\ \A k \in Updates :
       summary[k] # None => summary[k] \in Summary
  /\ cancelled \subseteq Updates
  /\ expired \subseteq Updates
  /\ \A r \in Book!RowIds :
       Book!InBook(r) => book[r].body \in Draft /\ None \notin {book[r].body[f] : f \in DOMAIN NoDraft}
  /\ \A u \in Updates : code[u] # "pending" => asked[u] # None

Init ==
  /\ conv = Idle
  /\ pc = [u \in Updates |-> "waiting"]
  /\ kind = [u \in Updates |-> None]
  /\ seen = [u \in Updates |-> Idle]
  /\ summary = [k \in Updates |-> None]
  /\ cancelled = {}
  /\ expired = {}
  /\ Book!Init

-----------------------------------------------------------------------------
(* How an execution goes on *)

Live == {u \in Updates : pc[u] \notin {"waiting", "done"}}

Goto(u, node) == pc' = [pc EXCEPT ![u] = node]

(* All that is left to do is at "node"; what the execution carried is forgotten. *)
Leave(u, node) ==
  /\ Goto(u, node)
  /\ kind' = [kind EXCEPT ![u] = None]
  /\ seen' = [seen EXCEPT ![u] = Idle]

(* The execution ends. *)
End(u) == Leave(u, "done")

(* Redis: SET of the whole state (which restarts its TTL), or DEL. *)
Store(u, state) == conv' = state /\ End(u)

(* CANCELAR answers the same in every step, PROCESSING included. *)
Cancelled(u) ==
  /\ cancelled' = IF seen[u].key = None THEN cancelled ELSE cancelled \cup {seen[u].key}
  /\ Store(u, Idle)
  /\ UNCHANGED <<summary, expired, ledger>>

Ignored(u) ==
  /\ End(u)
  /\ UNCHANGED <<conv, history, ledger>>

Advance(u, state) ==
  /\ Store(u, state)
  /\ UNCHANGED <<history, ledger>>

(* The state is stored, and then the API is called with it. *)
Send(u, state) ==
  /\ conv' = state
  /\ seen' = [seen EXCEPT ![u] = state]
  /\ Goto(u, "post")
  /\ UNCHANGED <<kind, history, ledger>>

(* A summary is made and stored, under the key its confirmation will use.  From *)
(* here on it can be confirmed.                                                 *)
StoreSummary(u, state, body) ==
  /\ summary' = [summary EXCEPT ![state.key] = [target |-> state.target, body |-> body]]
  /\ conv' = state
  /\ Leave(u, "show")
  /\ UNCHANGED <<cancelled, expired, ledger>>

(* The message with the summary and its buttons is sent.  An error of Telegram's *)
(* is ignored, and the execution may be lost before: the user need not see it.   *)
Show(u) ==
  /\ pc[u] = "show"
  /\ Ignored(u)

-----------------------------------------------------------------------------
(* Workflow A: from the trigger to the state machine *)

Route(k, step) ==
  CASE k = "continue" -> "resume"
    [] k = "switch" -> "correction"
    [] k = "corregir" /\ step \in RegistrationSteps -> "ask"
    [] k \in CorrButtons \/ step \in CorrectionSteps -> "correction"
    [] k = "corregir" /\ step = "IDLE" -> "correction"
    [] OTHER -> "registration"

(* Parse update, Load state, Router. *)
Load(u) ==
  /\ pc[u] = "waiting"
  /\ \A v \in Updates : v < u => pc[v] # "waiting"
  /\ Cardinality(Live) < MaxLive
  /\ \E k \in Inputs :
       /\ kind' = [kind EXCEPT ![u] = k]
       /\ Goto(u, Route(k, conv.step))
  /\ seen' = [seen EXCEPT ![u] = conv]
  /\ UNCHANGED <<conv, history, ledger>>

(* /corregir during a registration: the state is stored again as it was read, *)
(* and the user is asked what to do with it.                                  *)
AskPending(u) ==
  /\ pc[u] = "ask"
  /\ Advance(u, seen[u])

(* Continuar registro: the state is stored again as it was read. *)
Resume(u) ==
  /\ pc[u] = "resume"
  /\ Advance(u, seen[u])

-----------------------------------------------------------------------------
(* Workflow A: Registro SM *)

Registering(u, step) ==
  /\ pc[u] = "registration"
  /\ seen[u].step = step
  /\ kind[u] \in Expected(step)

CancelRegistration(u) ==
  /\ pc[u] = "registration"
  /\ kind[u] = "cancel"
  /\ Cancelled(u)

StartRegistration(u) ==
  /\ pc[u] = "registration"
  /\ kind[u] # "cancel"
  /\ seen[u].step = "IDLE"
  /\ Advance(u, Fresh("WAITING_EVENT_TYPE"))

ChooseEventType(u) ==
  /\ Registering(u, "WAITING_EVENT_TYPE")
  /\ Advance(u, [Fresh("WAITING_TRANSACTION_TEXT") EXCEPT !.draft.event = u])

GiveText(u) ==
  /\ Registering(u, "WAITING_TRANSACTION_TEXT")
  /\ Advance(u, [seen[u] EXCEPT !.step = "WAITING_DATE", !.draft.text = u])

OtherDate(u) ==
  /\ Registering(u, "WAITING_DATE")
  /\ kind[u] = "otra"
  /\ Advance(u, [seen[u] EXCEPT !.step = "WAITING_DATE_MANUAL"])

MutKeyFor(u, state) ==  \* the key of the entry's first update
  IF state.draft.event = None THEN u ELSE state.draft.event

(* The idempotency key of a summary: the update that completed it. *)
KeyFor(u, state) == IF state.step \in RegistrationSteps \/ state.key = None THEN u ELSE state.key

(* summary(dateISO): the entry is complete. *)
GiveDate(u) ==
  /\ Registering(u, "WAITING_DATE") \/ Registering(u, "WAITING_DATE_MANUAL")
  /\ kind[u] # "otra"
  /\ LET state == [seen[u] EXCEPT !.step = "WAITING_CONFIRMATION", !.draft.date = u,
                                  !.key = KeyFor(u, seen[u])]
     IN StoreSummary(u, state, state.draft)

MutConfirmed(u, step) ==  \* the key of the confirmation, not of the summary
  [seen[u] EXCEPT !.step = step, !.key = u]

Confirmed(u, step) == [seen[u] EXCEPT !.step = step]

Confirm(u) ==
  /\ Registering(u, "WAITING_CONFIRMATION")
  /\ Send(u, Confirmed(u, "PROCESSING"))

(* Anything else is answered with the same question, or in PROCESSING not at all. *)
(* In WAITING_CONFIRMATION the question comes with CONFIRMAR, not the summary.    *)
Reprompt(u) ==
  /\ pc[u] = "registration"
  /\ kind[u] # "cancel"
  /\ seen[u].step # "IDLE"
  /\ kind[u] \notin Expected(seen[u].step)
  /\ Ignored(u)

-----------------------------------------------------------------------------
(* Workflow B: Correccion SM, on the state it reads again *)

LoadB(u) ==
  /\ pc[u] = "correction"
  /\ seen' = [seen EXCEPT ![u] = conv]
  /\ Goto(u, "correctionSM")
  /\ UNCHANGED <<conv, kind, history, ledger>>

Restarts(u) == kind[u] \in {"switch", "corregir"} \/ seen[u].step = "IDLE"

Correcting(u, step) ==
  /\ pc[u] = "correctionSM"
  /\ ~Restarts(u)
  /\ seen[u].step = step
  /\ kind[u] \in Expected(step)

CancelCorrection(u) ==
  /\ pc[u] = "correctionSM"
  /\ kind[u] = "cancel"
  /\ Cancelled(u)

IgnoreWhileProcessing(u) ==
  /\ pc[u] = "correctionSM"
  /\ kind[u] # "cancel"
  /\ seen[u].step = "PROCESSING_CORRECTION"
  /\ Ignored(u)

(* A new correction; the state stored so far is not asked about. *)
StartCorrection(u) ==
  /\ pc[u] = "correctionSM"
  /\ kind[u] # "cancel"
  /\ seen[u].step # "PROCESSING_CORRECTION"
  /\ Restarts(u)
  /\ Goto(u, "list")
  /\ UNCHANGED <<conv, kind, seen, history, ledger>>

(* list_recent_transactions: the newest rows first (event dates taken as equal). *)
MutMine(r) == Book!InBook(r) /\ book[r].status = "ACTIVE"  \* everybody's rows

Mine(r) == Book!InBook(r) /\ book[r].status = "ACTIVE" /\ book[r].actor = Me

(* As many of them as the picker takes, the newest first. *)
Recent ==
  LET mine == {r \in Book!RowIds : Mine(r)}
  IN {rows \in SeqOf(mine, PickerSize) :
        /\ \A i, j \in DOMAIN rows : i < j => rows[i] > rows[j]
        /\ \A r \in mine \ Range(rows) :
             Len(rows) = PickerSize /\ \A i \in DOMAIN rows : rows[i] > r}

(* GET /transactions; an answer without rows is any error. *)
FetchList(u) ==
  /\ pc[u] = "list"
  /\ \E rows \in Recent \cup {<<>>} :
       seen' = [seen EXCEPT ![u] =
                  IF rows = <<>> THEN Idle
                  ELSE [Fresh("WAITING_CORRECTION_SELECTION") EXCEPT !.list = rows]]
  /\ Goto(u, "picker")
  /\ UNCHANGED <<conv, kind, history, ledger>>

ShowPicker(u) ==
  /\ pc[u] = "picker"
  /\ Advance(u, seen[u])

(* The button's index is looked up in the list the state holds now. *)
Pick(u) ==
  /\ Correcting(u, "WAITING_CORRECTION_SELECTION")
  /\ \E i \in 1 .. PickerSize :
       Advance(u, IF i > Len(seen[u].list) THEN Idle
                  ELSE [seen[u] EXCEPT !.step = "WAITING_CORRECTION_SCOPE",
                                       !.target = seen[u].list[i]])

FirstStep(scope) ==
  CASE scope \in {"tipo", "todo"} -> "WAITING_CORRECTION_EVENT_TYPE"
    [] scope = "md" -> "WAITING_CORRECTION_TEXT"
    [] scope = "fecha" -> "WAITING_CORRECTION_DATE"

ChooseScope(u) ==
  /\ Correcting(u, "WAITING_CORRECTION_SCOPE")
  /\ \E scope \in Scopes :
       Advance(u, [seen[u] EXCEPT !.step = FirstStep(scope), !.scope = scope])

(* toConfirm: what the row will be. *)
ToConfirm(u, draft) ==
  LET state == [seen[u] EXCEPT !.step = "WAITING_CORRECTION_CONFIRMATION", !.draft = draft,
                               !.key = KeyFor(u, seen[u])]
  IN StoreSummary(u, state, Patched(draft, book[state.target].body))

(* After a field of a correction of everything comes the next one. *)
MutThen(scope, next) == "toConfirm"  \* the other fields are not asked for

Then(scope, next) == IF scope = "todo" THEN next ELSE "toConfirm"

NewField(u, draft, next) ==
  IF Then(seen[u].scope, next) = "toConfirm"
  THEN ToConfirm(u, draft)
  ELSE Advance(u, [seen[u] EXCEPT !.step = next, !.draft = draft])

NewEventType(u) ==
  /\ Correcting(u, "WAITING_CORRECTION_EVENT_TYPE")
  /\ NewField(u, [seen[u].draft EXCEPT !.event = u], "WAITING_CORRECTION_TEXT")

NewText(u) ==
  /\ Correcting(u, "WAITING_CORRECTION_TEXT")
  /\ NewField(u, [seen[u].draft EXCEPT !.text = u], "WAITING_CORRECTION_DATE")

OtherNewDate(u) ==
  /\ Correcting(u, "WAITING_CORRECTION_DATE")
  /\ kind[u] = "otra"
  /\ Advance(u, [seen[u] EXCEPT !.step = "WAITING_CORRECTION_DATE_MANUAL"])

NewDate(u) ==
  /\ \/ Correcting(u, "WAITING_CORRECTION_DATE")
     \/ Correcting(u, "WAITING_CORRECTION_DATE_MANUAL")
  /\ kind[u] # "otra"
  /\ ToConfirm(u, [seen[u].draft EXCEPT !.date = u])

ConfirmCorrection(u) ==
  /\ Correcting(u, "WAITING_CORRECTION_CONFIRMATION")
  /\ Send(u, Confirmed(u, "PROCESSING_CORRECTION"))

(* Anything else: the picker and the date are asked again, every other step   *)
(* (a step of a registration too) is given up.                                *)
Misunderstood(u) ==
  LET step == seen[u].step
  IN /\ pc[u] = "correctionSM"
     /\ ~Restarts(u)
     /\ kind[u] # "cancel"
     /\ step # "PROCESSING_CORRECTION"
     /\ step \in RegistrationSteps \/ kind[u] \notin Expected(step)
     /\ IF step \in {"WAITING_CORRECTION_SELECTION", "WAITING_CORRECTION_DATE"}
        THEN Ignored(u)
        ELSE Advance(u, Idle)
-----------------------------------------------------------------------------
(* The calls to the API *)

MutFields(state) == state.draft  \* the fields that were not given are sent empty

(* A correction sends only the fields it replaces; the service takes the others *)
(* from the target, whose fields never change.                                  *)
Fields(state) ==
  IF state.step = "PROCESSING" THEN state.draft
  ELSE Patched(state.draft, book[state.target].body)

(* The body the state machine built when CONFIRMAR was pressed. *)
ApiBody(state) ==
  [kind |-> IF state.step = "PROCESSING" THEN "record" ELSE "correct",
   key |-> state.key, actor |-> Me, target |-> state.target,
   head |-> Omitted, body |-> Fields(state)]

(* POST /transactions, or POST /transactions/{id}/corrections. *)
Post(u) ==
  /\ pc[u] = "post"
  /\ asked' = [asked EXCEPT ![u] = ApiBody(seen[u])]
  /\ Goto(u, "posted")
  /\ UNCHANGED <<conv, kind, seen, history, book, granted, code>>

(* The API applies a request or decides its answer, whether or not the execution *)
(* that sent it still waits.  A target that was there when the request was sent  *)
(* is found: rows never go.                                                      *)
Service(u) ==
  /\ \/ Book!Record(u) \/ Book!Correct(u)
     \/ Book!Accept(u) \/ Book!Refuse(u) \/ Book!Lose(u)
  /\ code'[u] = "not_found" => ~Book!InBook(asked[u].target)
  /\ UNCHANGED <<chat, history>>

(* Handle API, 2xx: the state is deleted, whatever it is by now. *)
Registered(u) ==
  /\ pc[u] = "posted"
  /\ code[u] = "ok"
  /\ Advance(u, Idle)

Reverted(u) ==
  [seen[u] EXCEPT !.step = IF @ = "PROCESSING" THEN "WAITING_CONFIRMATION"
                           ELSE "WAITING_CORRECTION_CONFIRMATION"]

(* Handle API, an error: the summary waits for REINTENTAR or CANCELAR.  A lost *)
(* answer may still arrive as an error.                                        *)
Rejected(u) ==
  /\ pc[u] = "posted"
  /\ code[u] \notin {"pending", "ok"}
  /\ Advance(u, Reverted(u))

(* The call times out or cannot connect, or n8n restarts: the execution ends, *)
(* and no node of the workflow handles it.                                    *)
Die(u) ==
  /\ u \in Live
  /\ Ignored(u)

MutExpirable == conv # Idle /\ ~Processing(conv)  \* PROCESSING is stored without a TTL

Expirable == conv # Idle

(* The TTL of half an hour, restarted by every SET.  A call is answered or has *)
(* timed out well before that.                                                 *)
Expire ==
  /\ Expirable
  /\ \A u \in Live : pc[u] \notin {"post", "posted"}
  /\ expired' = IF conv.key = None \/ Live # {} THEN expired ELSE expired \cup {conv.key}
  /\ conv' = Idle
  /\ UNCHANGED <<pc, kind, seen, summary, cancelled, ledger>>

-----------------------------------------------------------------------------
Registration(u) ==
  \/ CancelRegistration(u) \/ StartRegistration(u) \/ ChooseEventType(u)
  \/ GiveText(u) \/ OtherDate(u) \/ GiveDate(u) \/ Confirm(u) \/ Reprompt(u)

Correction(u) ==
  \/ LoadB(u) \/ CancelCorrection(u) \/ IgnoreWhileProcessing(u) \/ StartCorrection(u)
  \/ FetchList(u) \/ ShowPicker(u) \/ Pick(u) \/ ChooseScope(u)
  \/ NewEventType(u) \/ NewText(u) \/ OtherNewDate(u) \/ NewDate(u)
  \/ ConfirmCorrection(u) \/ Misunderstood(u)

Execute(u) ==
  \/ AskPending(u) \/ Resume(u) \/ Registration(u) \/ Correction(u)
  \/ Show(u) \/ Post(u) \/ Registered(u) \/ Rejected(u)

Finished ==
  /\ \A u \in Updates : pc[u] = "done" /\ (asked[u] # None => code[u] # "pending")
  /\ conv = Idle
  /\ UNCHANGED vars

Next ==
  \/ \E u \in Updates : Load(u) \/ Execute(u) \/ Service(u) \/ Die(u)
  \/ Expire
  \/ Finished

Spec == Init /\ [][Next]_vars

(* n8n runs an execution to its end, the API answers every request, and Redis *)
(* drops a key nobody sets again.                                             *)
FairSpec ==
  /\ Spec
  /\ \A u \in Updates : WF_vars(Execute(u)) /\ WF_vars(Service(u))
  /\ WF_vars(Expire)

-----------------------------------------------------------------------------
(* Properties *)

Recorded == {u \in Updates : Book!InBook(u)}

(* A row in the ledger is, field by field, the summary made under the key it  *)
(* was recorded with: a correction of the row that was picked, or a new entry *)
(* (the state carried from the summary to the confirmation and to the POST,   *)
(* however many other updates write the state in between).  It is what the    *)
(* message says, if the message arrived: that it did is not claimed.          *)
RecordedAsSummarized ==
  \A r \in Recorded :
    LET k == book[r].key
    IN /\ k \in Updates /\ summary[k] # None
       /\ book[r].body = summary[k].body
       /\ IF summary[k].target = None
          THEN asked[r].kind = "record"
          ELSE book[summary[k].target].succ = r

(* A summary is recorded at most once, however often it is confirmed, retried *)
(* or confirmed twice at once (pending_idempotency_key, made with the summary *)
(* and kept by PROCESSING and by the revert).                                 *)
OneRowPerSummary ==
  \A r, e \in Recorded : r # e => book[r].body # book[e].body

(* When the user is asked to confirm, the draft has exactly the fields the    *)
(* entry or the chosen scope needs, and a correction has its target.          *)
ScopeFields(scope) ==
  CASE scope = "tipo" -> {"event"} [] scope = "md" -> {"text"} [] scope = "fecha" -> {"date"}
    [] OTHER -> {"event", "text", "date"}

AsksForTheScope ==
  conv.step \in {"WAITING_CONFIRMATION", "WAITING_CORRECTION_CONFIRMATION"} \/ Processing(conv)
    => /\ {f \in DOMAIN NoDraft : conv.draft[f] # None} = ScopeFields(conv.scope)
       /\ conv.key # None
       /\ conv.step \in CorrectionSteps => conv.target # None

(* The API never tells the user that a row is not theirs or does not exist, nor *)
(* that the key was used for something else: the picker offers one's own rows,  *)
(* and a key stands for one payload.                                            *)
RefusalsAreDeserved ==
  \A u \in Updates : code[u] \notin {"not_allowed", "not_found", "duplicate"}

(* A conversation never stays in PROCESSING, even when the execution that was  *)
(* to end it is lost (the TTL on the SET of PROCESSING).                       *)
ProcessingEnds == Processing(conv) ~> ~Processing(conv)

-----------------------------------------------------------------------------
(* What the documents say and the workflows do not do *)

(* A session that ended without success has registered nothing: one the user    *)
(* cancelled (PHASE-2.10 section 13), or one that expired (section 19).         *)
EndedSessionsLeaveNothing == \A r \in Recorded : book[r].key \notin cancelled \cup expired
=============================================================================
