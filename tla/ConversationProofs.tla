------------------------- MODULE ConversationProofs -------------------------
(***************************************************************************)
(* What one person's chat keeps however many updates it handles and        *)
(* however its executions overlap: whatever state an execution carries or  *)
(* Redis holds, a summary that waits for its confirmation is still the one *)
(* made under its key, and what is recorded is a summary, once.            *)
(***************************************************************************)
EXTENDS Conversation, FiniteSetTheorems, TLAPS

FieldNames == {"event", "text", "date"}

Given(draft) == {f \in FieldNames : draft[f] # None}

(* The steps at which a summary has been made. *)
SummarySteps ==
  {"WAITING_CONFIRMATION", "PROCESSING", "WAITING_CORRECTION_CONFIRMATION",
   "PROCESSING_CORRECTION"}

(* The steps of a correction whose row has been picked. *)
TargetSteps == CorrectionSteps \ {"WAITING_CORRECTION_SELECTION"}

(* The scopes a step may be reached with, and the fields given by then. *)
ScopesAt(step) ==
  CASE step = "WAITING_CORRECTION_EVENT_TYPE" -> {"tipo", "todo"}
    [] step = "WAITING_CORRECTION_TEXT" -> {"md", "todo"}
    [] step \in {"WAITING_CORRECTION_DATE", "WAITING_CORRECTION_DATE_MANUAL"} -> {"fecha", "todo"}
    [] step \in {"WAITING_CORRECTION_CONFIRMATION", "PROCESSING_CORRECTION"} -> Scopes
    [] OTHER -> {None}

FieldsAt(step, scope) ==
  CASE step = "WAITING_TRANSACTION_TEXT" -> {"event"}
    [] step \in {"WAITING_DATE", "WAITING_DATE_MANUAL"} -> {"event", "text"}
    [] step \in SummarySteps -> ScopeFields(scope)
    [] step = "WAITING_CORRECTION_TEXT" /\ scope = "todo" -> {"event"}
    [] step \in {"WAITING_CORRECTION_DATE", "WAITING_CORRECTION_DATE_MANUAL"}
         /\ scope = "todo" -> {"event", "text"}
    [] OTHER -> {}

(* A row the person may correct. *)
Own(r) == r \in Book!RowIds /\ Book!InBook(r) /\ book[r].actor = Me

(* The update has had its effect; it may still have a summary to send. *)
Handled(u) == pc[u] \in {"show", "done"}

(* What stands in a field was said by an update that has been handled. *)
Settled(body) == \A f \in FieldNames : body[f] \in Updates => Handled(body[f])

(* What the summary of a state says. *)
Said(state) ==
  IF state.target = None THEN state.draft ELSE Patched(state.draft, book[state.target].body)

(* A conversation state that the workflows go on from correctly: what was given *)
(* fits the step, what was picked is the person's, and the summary is still the *)
(* one that was made under its key.                                             *)
Good(state) ==
  /\ state.scope \in ScopesAt(state.step)
  /\ Given(state.draft) = FieldsAt(state.step, state.scope)
  /\ \A i \in DOMAIN state.list : Own(state.list[i])
  /\ IF state.step \in TargetSteps THEN Own(state.target) ELSE state.target = None
  /\ Settled(state.draft)
  /\ IF state.step \in SummarySteps
     THEN /\ state.key \in Updates
          /\ summary[state.key] = [target |-> state.target, body |-> Said(state)]
     ELSE state.key = None

StatesGood ==
  /\ Good(conv)
  /\ \A u \in Updates : Good(seen[u])
  /\ \A u \in Updates : pc[u] \in {"post", "posted"} => Processing(seen[u])

Made(k) == summary[k] # None

(* A summary is complete, made by an update that has been handled, and unlike *)
(* every other summary.                                                       *)
SummariesGood ==
  /\ \A k \in Updates :
       Made(k) =>
         /\ Handled(k)
         /\ Given(summary[k].body) = FieldNames
         /\ Settled(summary[k].body)
         /\ summary[k].target # None => Own(summary[k].target)
  /\ \A k, l \in Updates : Made(k) /\ Made(l) /\ summary[k].body = summary[l].body => k = l

(* What an execution sends is the summary made under the key it sends. *)
RequestsGood ==
  \A u \in Updates :
    asked[u] # None =>
      /\ asked[u] \in Request
      /\ pc[u] \in {"posted", "done"}
      /\ summary[asked[u].key] = [target |-> asked[u].target, body |-> asked[u].body]
      /\ asked[u].kind = "record" <=> asked[u].target = None

(* A row was recorded for one request, and a correction has retired its target. *)
RowsGood ==
  /\ \A s \in Seeds :
       Book!InBook(s) /\ book[s].key \in Seeds
  /\ \A r \in Book!RowIds :
       Book!InBook(r) => Given(book[r].body) = FieldNames /\ Settled(book[r].body)
  /\ \A r \in Recorded :
       /\ asked[r] # None
       /\ book[r].key = asked[r].key
       /\ book[r].actor = Me
       /\ book[r].body = asked[r].body
       /\ IF asked[r].target = None
          THEN book[r].head = Omitted
          ELSE LET t == asked[r].target
               IN Own(t) /\ book[t].status = "SUPERSEDED" /\ book[t].succ = r
                  /\ book[r].head = book[t].head
  /\ \A r, e \in Recorded : book[r].key = book[e].key => r = e

(* The variables as functions, for all but the ones TypeOK bounds. *)
Typed ==
  /\ TypeOK
  /\ summary \in [Updates -> Summary \cup {None}]
  /\ book \in [Book!RowIds -> Row \cup {NoRow}]
  /\ asked \in [Updates -> Request \cup {None}]
  /\ code \in [Updates -> {"pending", "ok", "lost", "invalid", "duplicate", "not_found",
                           "not_active", "not_allowed"}]
  /\ DOMAIN granted = Updates

ConvInv ==
  /\ Typed /\ StatesGood /\ SummariesGood /\ RequestsGood /\ RowsGood /\ RefusalsAreDeserved

-----------------------------------------------------------------------------
(* What has happened stays: an update that has been handled, a summary that   *)
(* was made, and what a row of the ledger says.                               *)
Kept ==
  /\ \A k \in Updates : Handled(k) => Handled(k)'
  /\ \A k \in Updates : Made(k) => summary'[k] = summary[k]
  /\ \A r \in Book!RowIds :
       Book!InBook(r) => /\ Book!InBook(r)'
                         /\ book'[r].actor = book[r].actor
                         /\ book'[r].body = book[r].body

(* What stands in a field was said by an update that has been handled, or by u. *)
SettledBut(u, body) ==
  \A f \in FieldNames : body[f] \in Updates => Handled(body[f]) \/ body[f] = u

(* The rows there may be. *)
LEMMA RowIdsAre == Book!RowIds = Seeds \cup Updates
BY DEF Book!RowIds

(* A draft is a function from the three fields. *)
LEMMA SourcesAreNamed == Draft = [FieldNames -> Sources] /\ DOMAIN NoDraft = FieldNames
BY DEF Draft, FieldNames, NoDraft

(* A registration needs all the fields. *)
LEMMA ScopeOfNone == ScopeFields(None) = FieldNames
BY NamesAssumption DEF ScopeFields, Scopes, FieldNames

(* A field of a correction is the new one if it was given, or the row's. *)
LEMMA PatchedDraft ==
  ASSUME NEW draft \in Draft, NEW base \in Draft
  PROVE  /\ Patched(draft, base) \in Draft
         /\ \A f \in FieldNames :
              Patched(draft, base)[f] = IF draft[f] = None THEN base[f] ELSE draft[f]
BY SourcesAreNamed DEF Patched

(* A row of the ledger has every column, and one that may be corrected is there. *)
LEMMA RowOf ==
  ASSUME ConvInv, NEW r \in Book!RowIds, Book!InBook(r)
  PROVE  /\ book[r] \in Row
         /\ Given(book[r].body) = FieldNames
         /\ Settled(book[r].body)
BY DEF ConvInv, Typed, RowsGood, Book!InBook

(* What a state would record is a draft. *)
LEMMA SaidIsDraft ==
  ASSUME ConvInv, NEW s \in State, s.target # None => Own(s.target)
  PROVE  Said(s) \in Draft /\ [target |-> s.target, body |-> Said(s)] \in Summary
<1>1. s.draft \in Draft /\ s.target \in Book!RowIds \cup {None}
  BY DEF State
<1>2. CASE s.target = None
  BY <1>1, <1>2 DEF Said, Summary
<1>3. CASE s.target # None
  <2>1. book[s.target].body \in Draft
    BY <1>3, RowOf DEF Own, Row
  <2>2. Patched(s.draft, book[s.target].body) \in Draft
    BY <1>1, <2>1, PatchedDraft
  <2> QED  BY <1>1, <1>3, <2>2 DEF Said, Summary
<1> QED  BY <1>2, <1>3

(* A summary is not the absence of one. *)
LEMMA SummaryIsMade ==
  ASSUME NEW k \in Updates, summary[k] \in Summary
  PROVE  Made(k)
BY NamesAssumption DEF Made

(* One's own rows stay one's own. *)
LEMMA OwnStands ==
  ASSUME Kept, NEW r, Own(r)
  PROVE  Own(r)'
BY DEF Kept, Own, Book!InBook, Book!RowIds

(* What was settled stays so. *)
LEMMA SettledStands ==
  ASSUME Kept, NEW body, Settled(body)
  PROVE  Settled(body)'
BY DEF Kept, Settled

(* A good state stays one, whatever happens around it. *)
LEMMA GoodStands ==
  ASSUME ConvInv, Kept, NEW s \in State, Good(s)
  PROVE  Good(s)'
<1>1. s.scope \in ScopesAt(s.step) /\ Given(s.draft) = FieldsAt(s.step, s.scope)
  BY DEF Good
<1>2. \A i \in DOMAIN s.list : Own(s.list[i])'
  BY OwnStands DEF Good
<1>3. IF s.step \in TargetSteps THEN Own(s.target)' ELSE s.target = None
  BY OwnStands DEF Good
<1>4. Settled(s.draft)'
  BY SettledStands DEF Good
<1>5. s.target # None => Own(s.target)
  BY DEF Good
<1>6. Said(s)' = Said(s)
  <2>1. CASE s.target = None
    BY <2>1 DEF Said
  <2>2. CASE s.target # None
    BY <2>2, <1>5 DEF Said, Kept, Own
  <2> QED  BY <2>1, <2>2
<1>7. ASSUME s.step \in SummarySteps
      PROVE  s.key \in Updates /\ summary'[s.key] = [target |-> s.target, body |-> Said(s)]
  <2>1. s.key \in Updates /\ summary[s.key] = [target |-> s.target, body |-> Said(s)]
    BY <1>7 DEF Good
  <2>2. Made(s.key)
    BY <2>1, <1>5, SaidIsDraft, SummaryIsMade
  <2> QED  BY <2>1, <2>2 DEF Kept
<1>8. s.step \notin SummarySteps => s.key = None
  BY DEF Good
<1> QED  BY <1>1, <1>2, <1>3, <1>4, <1>6, <1>7, <1>8 DEF Good

-----------------------------------------------------------------------------
(* A step of the chat that sends nothing: what it stores and carries is good, *)
(* and a summary it makes is new.                                             *)
LEMMA ChatStep ==
  ASSUME ConvInv, Kept, UNCHANGED ledger,
         conv' \in State, pc' \in [Updates -> Nodes],
         kind' \in [Updates -> Kinds \cup {None}], seen' \in [Updates -> State],
         summary' \in [Updates -> Summary \cup {None}],
         cancelled' \subseteq Updates, expired' \subseteq Updates,
         StatesGood', SummariesGood',
         \A u \in Updates : asked[u] # None => pc'[u] \in {"posted", "done"}
  PROVE  ConvInv'
<1>1. UNCHANGED <<book, asked, granted, code>>
  BY DEF ledger
<1>2. Typed'
  BY <1>1 DEF ConvInv, Typed, TypeOK, Book!InBook, Book!RowIds
<1>3. RequestsGood'
  <2> SUFFICES ASSUME NEW u \in Updates, asked[u] # None
               PROVE  summary'[asked[u].key] = [target |-> asked[u].target, body |-> asked[u].body]
    BY <1>1 DEF ConvInv, RequestsGood
  <2>1. /\ asked[u].key \in Updates
        /\ summary[asked[u].key] = [target |-> asked[u].target, body |-> asked[u].body]
        /\ summary[asked[u].key] \in Summary
    BY DEF ConvInv, RequestsGood, Request, Summary
  <2> QED  BY <2>1, SummaryIsMade DEF Kept
<1>4. RowsGood'
  <2>1. \A r \in Book!RowIds : Book!InBook(r) => Settled(book[r].body)'
    BY <1>1, RowOf, SettledStands
  <2> QED  BY <1>1, <2>1 DEF ConvInv, RowsGood, Recorded, Own, Book!InBook, Book!RowIds
<1>5. RefusalsAreDeserved'
  BY <1>1 DEF ConvInv, RefusalsAreDeserved
<1> QED  BY <1>2, <1>3, <1>4, <1>5 DEF ConvInv

(* What the chat holds now. *)
LEMMA StatesHeld ==
  ASSUME ConvInv
  PROVE  /\ conv \in State /\ Good(conv)
         /\ \A u \in Updates : seen[u] \in State /\ Good(seen[u])
BY DEF ConvInv, Typed, TypeOK, StatesGood

(* Nothing given, nothing picked: the states a workflow starts from. *)
LEMMA FreshState ==
  ASSUME NEW step \in RegistrationSteps \cup CorrectionSteps \cup {"IDLE"}
  PROVE  /\ Fresh(step) \in State
         /\ Fresh(step).step = step /\ Fresh(step).draft = NoDraft
         /\ Fresh(step).key = None /\ Fresh(step).target = None
         /\ Fresh(step).scope = None /\ Fresh(step).list = <<>>
<1>1. NoDraft \in Draft
  BY DEF NoDraft, Draft, Sources
<1>2. <<>> \in Seq(Book!RowIds)
  OBVIOUS
<1> QED  BY <1>1, <1>2 DEF Fresh, State

(* An empty draft has nothing in it. *)
LEMMA NothingGiven == Given(NoDraft) = {} /\ Settled(NoDraft)
<1>1. \A f \in FieldNames : NoDraft[f] = None
  BY DEF NoDraft, FieldNames
<1>2. None \notin Updates
  BY NamesAssumption, RowIdsAre
<1> QED  BY <1>1, <1>2 DEF Given, Settled

(* A conversation that begins is a good one. *)
LEMMA FreshGood ==
  ASSUME NEW step \in {"IDLE", "WAITING_EVENT_TYPE", "WAITING_CORRECTION_SELECTION"}
  PROVE  Good(Fresh(step)) /\ Good(Fresh(step))'
<1>1. step \in RegistrationSteps \cup CorrectionSteps \cup {"IDLE"}
  BY DEF RegistrationSteps, CorrectionSteps
<1>2. step \notin TargetSteps \cup SummarySteps
  BY DEF TargetSteps, CorrectionSteps, SummarySteps
<1>3. ScopesAt(step) = {None} /\ FieldsAt(step, None) = {}
  BY DEF ScopesAt, FieldsAt, SummarySteps
<1>4. Settled(NoDraft)'
  <2>1. \A f \in FieldNames : NoDraft[f] \notin Updates
    BY NamesAssumption, RowIdsAre DEF NoDraft, FieldNames
  <2> QED  BY <2>1 DEF Settled
<1>5. /\ Fresh(step).step = step /\ Fresh(step).draft = NoDraft
      /\ Fresh(step).key = None /\ Fresh(step).target = None
      /\ Fresh(step).scope = None /\ DOMAIN Fresh(step).list = {}
  BY <1>1, FreshState
<1>6. Good(Fresh(step))
  BY <1>2, <1>3, <1>5, NothingGiven DEF Good
<1>7. Good(Fresh(step))'
  BY <1>2, <1>3, <1>4, <1>5, NothingGiven DEF Good
<1> QED  BY <1>6, <1>7

(* So is none at all. *)
LEMMA IdleIs == Idle \in State /\ Idle.key = None /\ ~Processing(Idle) /\ Good(Idle) /\ Good(Idle)'
BY FreshState, FreshGood DEF Idle, Processing

-----------------------------------------------------------------------------
(* An execution that ends: Redis is left as it was, or given a good state. *)
LEMMA StepEnds ==
  ASSUME ConvInv, NEW u \in Updates, End(u), UNCHANGED <<summary, ledger>>,
         conv' \in State, Good(conv)',
         cancelled' \subseteq Updates, expired' \subseteq Updates
  PROVE  ConvInv'
<1>1. /\ pc' = [pc EXCEPT ![u] = "done"]
      /\ kind' = [kind EXCEPT ![u] = None]
      /\ seen' = [seen EXCEPT ![u] = Idle]
  BY DEF End, Leave, Goto
<1>2. /\ pc \in [Updates -> Nodes] /\ kind \in [Updates -> Kinds \cup {None}]
      /\ seen \in [Updates -> State] /\ summary \in [Updates -> Summary \cup {None}]
  BY DEF ConvInv, Typed, TypeOK
<1>3. Kept
  BY <1>1, <1>2 DEF Kept, Handled, ledger, Book!InBook
<1>4. \A v \in Updates : Good(seen[v])'
  <2> SUFFICES ASSUME NEW v \in Updates PROVE Good(seen[v])'
    OBVIOUS
  <2>1. CASE v = u
    BY <2>1, <1>1, <1>2, IdleIs
  <2>2. CASE v # u
    <3>1. seen'[v] = seen[v]
      BY <2>2, <1>1, <1>2
    <3> QED  BY <3>1, <1>3, StatesHeld, GoodStands
  <2> QED  BY <2>1, <2>2
<1>5. \A v \in Updates : pc'[v] \in {"post", "posted"} => Processing(seen[v])'
  BY <1>1, <1>2 DEF ConvInv, StatesGood, Processing
<1>6. StatesGood'
  BY <1>4, <1>5 DEF StatesGood
<1>7. SummariesGood'
  <2> SUFFICES ASSUME NEW k \in Updates, Made(k)
               PROVE  /\ Handled(k)'
                      /\ Settled(summary[k].body)'
                      /\ summary[k].target # None => Own(summary[k].target)'
    BY DEF ConvInv, SummariesGood, Made
  <2> QED  BY <1>3, SettledStands, OwnStands DEF ConvInv, SummariesGood, Kept
<1>8. \A v \in Updates : asked[v] # None => pc'[v] \in {"posted", "done"}
  BY <1>1, <1>2 DEF ConvInv, RequestsGood
<1>9. "done" \in Nodes
  BY DEF Nodes
<1> QED  BY <1>1, <1>2, <1>3, <1>6, <1>7, <1>8, <1>9, IdleIs, ChatStep

(* An execution may store any state that is good once it has ended. *)
LEMMA StepAdvances ==
  ASSUME ConvInv, NEW u \in Updates, NEW s \in State, Advance(u, s), Good(s)'
  PROVE  ConvInv'
<1>1. End(u) /\ conv' = s /\ UNCHANGED <<summary, cancelled, expired, ledger>>
  BY DEF Advance, Store, history
<1>2. cancelled \subseteq Updates /\ expired \subseteq Updates
  BY DEF ConvInv, Typed, TypeOK
<1> QED  BY <1>1, <1>2, StepEnds

(* The end of an execution takes nothing back. *)
LEMMA EndKeeps ==
  ASSUME ConvInv, NEW u \in Updates, End(u), UNCHANGED <<summary, ledger>>
  PROVE  Kept /\ Handled(u)'
BY DEF ConvInv, Typed, TypeOK, End, Leave, Goto, Kept, Handled, ledger, Book!InBook

(* An update that changes nothing. *)
LEMMA StepIgnored ==
  ASSUME ConvInv, NEW u \in Updates, Ignored(u)
  PROVE  ConvInv'
<1>1. End(u) /\ UNCHANGED <<conv, summary, cancelled, expired, ledger>>
  BY DEF Ignored, history
<1>2. cancelled \subseteq Updates /\ expired \subseteq Updates
  BY DEF ConvInv, Typed, TypeOK
<1>3. Good(conv)'
  BY <1>1, EndKeeps, StatesHeld, GoodStands
<1> QED  BY <1>1, <1>2, <1>3, StatesHeld, StepEnds

(* CANCELAR stores the absence of a conversation. *)
LEMMA StepCancelled ==
  ASSUME ConvInv, NEW u \in Updates, Cancelled(u)
  PROVE  ConvInv'
<1>1. /\ End(u) /\ conv' = Idle
      /\ cancelled' = IF seen[u].key = None THEN cancelled ELSE cancelled \cup {seen[u].key}
      /\ UNCHANGED <<summary, expired, ledger>>
  BY DEF Cancelled, Store
<1>2. cancelled' \subseteq Updates /\ expired' \subseteq Updates
  BY <1>1, StatesHeld DEF State, ConvInv, Typed, TypeOK
<1> QED  BY <1>1, <1>2, IdleIs, StepEnds

(* The execution goes on, with what it carries and what it has stored good. *)
LEMMA StepGoesOn ==
  ASSUME ConvInv, NEW u \in Updates, NEW node \in Nodes, NEW s \in State,
         pc[u] \notin {"posted", "show", "done"}, node \notin {"posted", "done"},
         pc' = [pc EXCEPT ![u] = node], seen' = [seen EXCEPT ![u] = s],
         conv' \in {conv, s}, Good(s), node = "post" => Processing(s),
         kind' \in [Updates -> Kinds \cup {None}], UNCHANGED <<history, ledger>>
  PROVE  ConvInv'
<1>1. /\ pc \in [Updates -> Nodes] /\ seen \in [Updates -> State]
      /\ summary \in [Updates -> Summary \cup {None}]
      /\ cancelled \subseteq Updates /\ expired \subseteq Updates
  BY DEF ConvInv, Typed, TypeOK
<1>2. UNCHANGED <<summary, cancelled, expired>>
  BY DEF history
<1>3. Kept
  BY <1>1, <1>2 DEF Kept, Handled, ledger, Book!InBook
<1>4. conv' \in State /\ Good(conv)'
  BY <1>3, StatesHeld, GoodStands
<1>5. ASSUME NEW v \in Updates
      PROVE  Good(seen[v])' /\ (pc'[v] \in {"post", "posted"} => Processing(seen[v])')
  <2>1. CASE v = u
    <3>1. seen'[v] = s /\ pc'[v] = node
      BY <2>1, <1>1
    <3> QED  BY <3>1, <1>3, GoodStands DEF Processing
  <2>2. CASE v # u
    <3>1. seen'[v] = seen[v] /\ pc'[v] = pc[v]
      BY <2>2, <1>1
    <3>2. Good(seen[v])'
      BY <3>1, <1>3, StatesHeld, GoodStands
    <3> QED  BY <3>1, <3>2 DEF Processing, ConvInv, StatesGood
  <2> QED  BY <2>1, <2>2
<1>6. StatesGood'
  BY <1>4, <1>5 DEF StatesGood
<1>7. SummariesGood'
  <2> SUFFICES ASSUME NEW k \in Updates, Made(k)
               PROVE  /\ Handled(k)'
                      /\ Settled(summary[k].body)'
                      /\ summary[k].target # None => Own(summary[k].target)'
    BY <1>2 DEF ConvInv, SummariesGood, Made
  <2> QED  BY <1>3, SettledStands, OwnStands DEF ConvInv, SummariesGood, Kept
<1>8. \A v \in Updates : asked[v] # None => pc'[v] \in {"posted", "done"}
  BY <1>1 DEF ConvInv, RequestsGood
<1>9. pc' \in [Updates -> Nodes] /\ seen' \in [Updates -> State]
  BY <1>1
<1> QED  BY <1>1, <1>2, <1>3, <1>4, <1>6, <1>7, <1>8, <1>9, ChatStep

(* A summary is made under the key of the update that completed it, and Redis   *)
(* is given the state that waits for its confirmation.                          *)
LEMMA StepSummarizes ==
  ASSUME ConvInv, NEW u \in Updates, pc[u] \notin {"posted", "show", "done"}, NEW s \in State,
         StoreSummary(u, s, Said(s)), s.key = u,
         s.step \in {"WAITING_CONFIRMATION", "WAITING_CORRECTION_CONFIRMATION"},
         s.scope \in ScopesAt(s.step), Given(s.draft) = ScopeFields(s.scope),
         \A i \in DOMAIN s.list : Own(s.list[i]),
         IF s.step = "WAITING_CORRECTION_CONFIRMATION" THEN Own(s.target) ELSE s.target = None,
         SettledBut(u, s.draft),
         \E f \in FieldNames : s.draft[f] = u
  PROVE  ConvInv'
<1> DEFINE body == Said(s)
<1>0. /\ pc \in [Updates -> Nodes] /\ kind \in [Updates -> Kinds \cup {None}]
      /\ seen \in [Updates -> State] /\ summary \in [Updates -> Summary \cup {None}]
      /\ cancelled \subseteq Updates /\ expired \subseteq Updates
  BY DEF ConvInv, Typed, TypeOK
<1>1. /\ summary' = [summary EXCEPT ![u] = [target |-> s.target, body |-> body]]
      /\ conv' = s
      /\ pc' = [pc EXCEPT ![u] = "show"]
      /\ kind' = [kind EXCEPT ![u] = None]
      /\ seen' = [seen EXCEPT ![u] = Idle]
      /\ UNCHANGED <<cancelled, expired, ledger>>
  BY DEF StoreSummary, Leave, Goto
<1>2. /\ s.draft \in Draft /\ s.target \in Book!RowIds \cup {None}
      /\ body \in Draft /\ [target |-> s.target, body |-> body] \in Summary
  <2>1. s.target # None => Own(s.target)
    OBVIOUS
  <2> QED  BY <2>1, SaidIsDraft DEF State
<1>3. ~Made(u)
  BY DEF ConvInv, SummariesGood, Handled
<1>4. Kept
  BY <1>0, <1>1, <1>3 DEF Kept, Handled, ledger, Book!InBook
<1>5. Settled(s.draft)'
  BY <1>0, <1>1 DEF Settled, SettledBut, Handled
<1>6. /\ SettledBut(u, body)
      /\ \E f \in FieldNames : body[f] = u
      /\ Given(body) = FieldNames
  <2>0. None \notin Updates
    BY NamesAssumption, RowIdsAre
  <2>1. CASE s.target = None
    <3>1. body = s.draft
      BY <2>1 DEF Said
    <3>2. s.step = "WAITING_CONFIRMATION"
      BY <2>1, NamesAssumption DEF Own
    <3>3. s.scope = None
      BY <3>2 DEF ScopesAt
    <3> QED  BY <3>1, <3>2, <3>3, ScopeOfNone
  <2>2. CASE s.target # None
    <3>1. Own(s.target)
      BY <2>2
    <3>2. /\ book[s.target].body \in Draft
          /\ Given(book[s.target].body) = FieldNames /\ Settled(book[s.target].body)
      BY <3>1, RowOf DEF Own, Row
    <3>3. \A f \in FieldNames :
            body[f] = IF s.draft[f] = None THEN book[s.target].body[f] ELSE s.draft[f]
      BY <2>2, <3>2, <1>2, PatchedDraft DEF Said
    <3> QED  BY <2>0, <3>2, <3>3 DEF Given, Settled, SettledBut
  <2> QED  BY <2>1, <2>2
<1>7. Settled(body)' /\ Said(s)' = body
  <2>1. s.target # None => book'[s.target].body = book[s.target].body
    BY <1>4 DEF Kept, Own
  <2>2. Said(s)' = body
    BY <2>1 DEF Said
  <2> QED  BY <2>2, <1>0, <1>1, <1>6 DEF Settled, SettledBut, Handled
<1>8. Good(conv)'
  <2>1. s.step \in TargetSteps <=> s.step = "WAITING_CORRECTION_CONFIRMATION"
    BY DEF TargetSteps, CorrectionSteps
  <2>2. FieldsAt(s.step, s.scope) = ScopeFields(s.scope) /\ s.step \in SummarySteps
    BY DEF FieldsAt, SummarySteps
  <2>3. \A i \in DOMAIN s.list : Own(s.list[i])'
    BY <1>4, OwnStands
  <2>4. Own(s.target) => Own(s.target)'
    BY <1>4, OwnStands
  <2>5. summary'[s.key] = [target |-> s.target, body |-> Said(s)']
    BY <1>0, <1>1, <1>7
  <2>6. Good(s)'
    BY <2>1, <2>2, <2>3, <2>4, <2>5, <1>5 DEF Good
  <2> QED  BY <1>1, <2>6
<1>9. \A v \in Updates : Good(seen[v])'
  <2> SUFFICES ASSUME NEW v \in Updates PROVE Good(seen[v])'
    OBVIOUS
  <2>1. CASE v = u
    BY <2>1, <1>0, <1>1, IdleIs
  <2>2. CASE v # u
    <3>1. seen'[v] = seen[v]
      BY <2>2, <1>0, <1>1
    <3> QED  BY <3>1, <1>4, StatesHeld, GoodStands
  <2> QED  BY <2>1, <2>2
<1>10. StatesGood'
  <2>1. \A v \in Updates : pc'[v] \in {"post", "posted"} => Processing(seen[v])'
    BY <1>0, <1>1 DEF ConvInv, StatesGood, Processing
  <2> QED  BY <2>1, <1>8, <1>9 DEF StatesGood
<1>11. SummariesGood'
  <2>1. ASSUME NEW k \in Updates, Made(k)'
        PROVE  /\ Handled(k)'
               /\ Given(summary'[k].body) = FieldNames
               /\ Settled(summary[k].body)'
               /\ summary'[k].target # None => Own(summary[k].target)'
               /\ k # u => Made(k) /\ summary'[k] = summary[k]
    <3>1. CASE k = u
      <4>1. summary'[k].body = body /\ summary'[k].target = s.target
        BY <3>1, <1>0, <1>1
      <4> QED  BY <4>1, <3>1, <1>0, <1>1, <1>4, <1>6, <1>7, OwnStands DEF Handled
    <3>2. CASE k # u
      <4>1. summary'[k] = summary[k] /\ Made(k)
        BY <2>1, <3>2, <1>0, <1>1 DEF Made
      <4>2. /\ Handled(k) /\ Given(summary[k].body) = FieldNames
            /\ Settled(summary[k].body) /\ (summary[k].target # None => Own(summary[k].target))
        BY <4>1 DEF ConvInv, SummariesGood
      <4> QED  BY <3>2, <4>1, <4>2, <1>4, SettledStands, OwnStands DEF Kept
    <3> QED  BY <3>1, <3>2
  <2>2. ASSUME NEW k \in Updates, k # u, Made(k)'
        PROVE  summary'[k].body # summary'[u].body
    <3>1. Made(k) /\ summary'[k] = summary[k] /\ summary'[u].body = body
      BY <2>1, <2>2, <1>0, <1>1
    <3>2. Settled(summary[k].body)
      BY <3>1 DEF ConvInv, SummariesGood
    <3> QED  BY <3>1, <3>2, <1>6 DEF Settled, Handled
  <2>3. ASSUME NEW k \in Updates, NEW l \in Updates, Made(k)', Made(l)',
               summary'[k].body = summary'[l].body
        PROVE  k = l
    <3>1. CASE k = u \/ l = u
      BY <3>1, <2>2, <2>3
    <3>2. CASE k # u /\ l # u
      BY <3>2, <2>1, <2>3 DEF ConvInv, SummariesGood
    <3> QED  BY <3>1, <3>2
  <2> QED  BY <2>1, <2>3 DEF SummariesGood
<1>12. \A v \in Updates : asked[v] # None => pc'[v] \in {"posted", "done"}
  BY <1>0, <1>1 DEF ConvInv, RequestsGood
<1>13. /\ pc' \in [Updates -> Nodes] /\ kind' \in [Updates -> Kinds \cup {None}]
       /\ seen' \in [Updates -> State] /\ summary' \in [Updates -> Summary \cup {None}]
  BY <1>0, <1>1, <1>2, IdleIs DEF Nodes
<1> QED  BY <1>0, <1>1, <1>4, <1>10, <1>11, <1>12, <1>13, ChatStep

-----------------------------------------------------------------------------
(* What an execution stores as it read it is still good. *)
LEMMA StepStoresCarried ==
  ASSUME ConvInv, NEW u \in Updates, Advance(u, seen[u])
  PROVE  ConvInv'
<1>1. End(u) /\ UNCHANGED <<summary, ledger>>
  BY DEF Advance, Store, history
<1>2. PICK s : s = seen[u]
  OBVIOUS
<1>3. s \in State /\ Good(s)
  BY <1>2, StatesHeld
<1>4. Good(s)'
  BY <1>1, <1>3, EndKeeps, GoodStands
<1> QED  BY <1>2, <1>3, <1>4, StepAdvances

(* Any step that ends the conversation. *)
LEMMA StepStoresIdle ==
  ASSUME ConvInv, NEW u \in Updates, Advance(u, Idle)
  PROVE  ConvInv'
BY IdleIs, StepAdvances

(* A draft with a field more, given by the update that is being handled. *)
With(draft, f, u) == [draft EXCEPT ![f] = u]

(* An update that gives a field puts itself there. *)
LEMMA FieldGiven ==
  ASSUME NEW u \in Updates, NEW f \in FieldNames, NEW draft \in Draft, Settled(draft)
  PROVE  /\ With(draft, f, u) \in Draft
         /\ Given(With(draft, f, u)) = Given(draft) \cup {f}
         /\ SettledBut(u, With(draft, f, u))
         /\ With(draft, f, u)[f] = u
<1>1. None \notin Updates
  BY NamesAssumption, RowIdsAre
<1>2. PICK d : d = With(draft, f, u)
  OBVIOUS
<1>3. /\ d \in [FieldNames -> Sources]
      /\ \A g \in FieldNames : d[g] = IF g = f THEN u ELSE draft[g]
  BY <1>2, SourcesAreNamed DEF Sources, With
<1>4. Given(d) = Given(draft) \cup {f}
  BY <1>1, <1>3 DEF Given
<1>5. SettledBut(u, d)
  BY <1>3 DEF Settled, SettledBut
<1> QED  BY <1>2, <1>3, <1>4, <1>5, SourcesAreNamed

(* Once it has ended, what it said is settled. *)
LEMMA FieldSettled ==
  ASSUME NEW u \in Updates, NEW d, SettledBut(u, d), Kept, Handled(u)'
  PROVE  Settled(d)'
BY DEF Settled, SettledBut, Kept

(* What an execution of the registration carries has no target and no scope. *)
LEMMA Carried ==
  ASSUME ConvInv, NEW u \in Updates
  PROVE  /\ seen[u] \in State /\ seen[u].draft \in Draft /\ Settled(seen[u].draft)
         /\ \A i \in DOMAIN seen[u].list : Own(seen[u].list[i])
         /\ seen[u].scope \in ScopesAt(seen[u].step)
         /\ Given(seen[u].draft) = FieldsAt(seen[u].step, seen[u].scope)
         /\ seen[u].step \in TargetSteps => Own(seen[u].target)
         /\ seen[u].step \notin TargetSteps => seen[u].target = None
         /\ seen[u].step \notin SummarySteps => seen[u].key = None
BY StatesHeld DEF Good, State

(* A state without a summary is good when these parts are. *)
LEMMA PlainGood ==
  ASSUME ConvInv, Kept, NEW s \in State, s.step \notin SummarySteps, s.key = None,
         s.scope \in ScopesAt(s.step), Given(s.draft) = FieldsAt(s.step, s.scope),
         Settled(s.draft)', \A i \in DOMAIN s.list : Own(s.list[i]),
         IF s.step \in TargetSteps THEN Own(s.target) ELSE s.target = None
  PROVE  Good(s)'
<1>1. /\ \A i \in DOMAIN s.list : Own(s.list[i])'
      /\ IF s.step \in TargetSteps THEN Own(s.target)' ELSE s.target = None
  BY OwnStands
<1> QED  BY <1>1 DEF Good

-----------------------------------------------------------------------------
(* Workflow A *)

(* An update arrives and reads the state. *)
LEMMA StepLoad ==
  ASSUME ConvInv, NEW u \in Updates, Load(u)
  PROVE  ConvInv'
<1>1. PICK k \in Inputs : /\ kind' = [kind EXCEPT ![u] = k]
                          /\ Goto(u, Route(k, conv.step))
  BY DEF Load
<1>2. Route(k, conv.step) \in {"resume", "correction", "ask", "registration"}
  BY DEF Route
<1>3. kind' \in [Updates -> Kinds \cup {None}]
  BY <1>1, InputsAssumption DEF ConvInv, Typed, TypeOK
<1>4. PICK s : s = conv
  OBVIOUS
<1> QED  BY <1>1, <1>2, <1>3, <1>4, StatesHeld, StepGoesOn DEF Load, Goto, Nodes

(* When there is no conversation, a registration begins. *)
LEMMA StepStartRegistration ==
  ASSUME ConvInv, NEW u \in Updates, StartRegistration(u)
  PROVE  ConvInv'
<1>1. Fresh("WAITING_EVENT_TYPE") \in State
  BY FreshState DEF RegistrationSteps
<1> QED  BY <1>1, FreshGood, StepAdvances DEF StartRegistration

(* The first field of a registration. *)
LEMMA StepChooseEventType ==
  ASSUME ConvInv, NEW u \in Updates, ChooseEventType(u)
  PROVE  ConvInv'
<1>1. PICK fresh : fresh = Fresh("WAITING_TRANSACTION_TEXT")
  OBVIOUS
<1>2. PICK s : s = [fresh EXCEPT !.draft.event = u]
  OBVIOUS
<1>3. Advance(u, s)
  BY <1>1, <1>2 DEF ChooseEventType
<1>4. Kept /\ Handled(u)'
  BY <1>3, EndKeeps DEF Advance, Store, history
<1>5. /\ fresh \in State /\ fresh.draft = NoDraft /\ fresh.key = None
      /\ fresh.target = None /\ fresh.scope = None /\ fresh.list = <<>>
      /\ fresh.step = "WAITING_TRANSACTION_TEXT"
  BY <1>1, FreshState DEF RegistrationSteps
<1>6. NoDraft \in Draft /\ Given(NoDraft) = {} /\ Settled(NoDraft)
  BY <1>5, NothingGiven DEF State
<1>7. PICK d : d = With(NoDraft, "event", u)
  OBVIOUS
<1>8. d \in Draft /\ Given(d) = {"event"} /\ Settled(d)'
  <2>1. "event" \in FieldNames
    BY DEF FieldNames
  <2>2. d \in Draft /\ Given(d) = Given(NoDraft) \cup {"event"} /\ SettledBut(u, d)
    BY <2>1, <1>6, <1>7, FieldGiven
  <2>3. Settled(d)'
    BY <2>2, <1>4, FieldSettled
  <2> QED  BY <2>2, <2>3, <1>6
<1>9. /\ s \in State /\ s.step = "WAITING_TRANSACTION_TEXT" /\ s.draft = d
      /\ s.key = None /\ s.target = None /\ s.scope = None /\ s.list = <<>>
  <2>1. s = [fresh EXCEPT !.draft = d]
    BY <1>2, <1>5, <1>7 DEF With
  <2> QED  BY <2>1, <1>5, <1>8 DEF State
<1>10. /\ s.step \notin SummarySteps /\ s.step \notin TargetSteps
       /\ ScopesAt(s.step) = {None} /\ FieldsAt(s.step, None) = {"event"}
  BY <1>9 DEF SummarySteps, TargetSteps, CorrectionSteps, ScopesAt, FieldsAt
<1>11. Good(s)'
  <2>1. Settled(s.draft)'
    BY <1>8, <1>9
  <2>2. Given(s.draft) = FieldsAt(s.step, s.scope) /\ s.scope \in ScopesAt(s.step)
    BY <1>8, <1>9, <1>10
  <2>3. DOMAIN s.list = {}
    BY <1>9
  <2> QED  BY <2>1, <2>2, <2>3, <1>4, <1>9, <1>10, PlainGood
<1> QED  BY <1>3, <1>9, <1>11, StepAdvances

(* The second. *)
LEMMA StepGiveText ==
  ASSUME ConvInv, NEW u \in Updates, GiveText(u)
  PROVE  ConvInv'
<1>1. PICK s : s = [seen[u] EXCEPT !.step = "WAITING_DATE", !.draft.text = u]
  OBVIOUS
<1>2. Advance(u, s) /\ seen[u].step = "WAITING_TRANSACTION_TEXT"
  BY <1>1 DEF GiveText, Registering
<1>3. Kept /\ Handled(u)'
  BY <1>2, EndKeeps DEF Advance, Store, history
<1>4. /\ Given(seen[u].draft) = {"event"} /\ seen[u].scope = None
      /\ seen[u].target = None /\ seen[u].key = None
  BY <1>2, Carried DEF FieldsAt, ScopesAt, TargetSteps, CorrectionSteps, SummarySteps
<1>5. PICK draft : draft = seen[u].draft
  OBVIOUS
<1>6. PICK d : d = With(draft, "text", u)
  OBVIOUS
<1>7. d \in Draft /\ Given(d) = {"event", "text"} /\ Settled(d)'
  <2>1. "text" \in FieldNames /\ draft \in Draft /\ Settled(draft)
    BY <1>5, Carried DEF FieldNames
  <2>2. d \in Draft /\ Given(d) = Given(draft) \cup {"text"} /\ SettledBut(u, d)
    BY <2>1, <1>6, FieldGiven
  <2>3. Settled(d)'
    BY <2>2, <1>3, FieldSettled
  <2> QED  BY <2>2, <2>3, <1>4, <1>5
<1>8. /\ s \in State /\ s.step = "WAITING_DATE" /\ s.draft = d
      /\ s.key = None /\ s.target = None /\ s.scope = None /\ s.list = seen[u].list
  <2>1. s = [seen[u] EXCEPT !.step = "WAITING_DATE", !.draft = d]
    BY <1>1, <1>5, <1>6 DEF With
  <2> QED  BY <2>1, <1>4, <1>7, Carried DEF State, RegistrationSteps
<1>9. /\ s.step \notin SummarySteps /\ s.step \notin TargetSteps
      /\ ScopesAt(s.step) = {None} /\ FieldsAt(s.step, None) = {"event", "text"}
  BY <1>8 DEF SummarySteps, TargetSteps, CorrectionSteps, ScopesAt, FieldsAt
<1>10. Good(s)'
  <2>1. /\ Given(s.draft) = FieldsAt(s.step, s.scope) /\ s.scope \in ScopesAt(s.step)
        /\ Settled(s.draft)' /\ \A i \in DOMAIN s.list : Own(s.list[i])
    BY <1>7, <1>8, <1>9, Carried
  <2> QED  BY <2>1, <1>3, <1>8, <1>9, PlainGood
<1> QED  BY <1>2, <1>8, <1>10, StepAdvances

(* The person will type the date. *)
LEMMA StepOtherDate ==
  ASSUME ConvInv, NEW u \in Updates, OtherDate(u)
  PROVE  ConvInv'
<1>1. /\ Advance(u, [seen[u] EXCEPT !.step = "WAITING_DATE_MANUAL"])
      /\ seen[u].step = "WAITING_DATE"
  BY DEF OtherDate, Registering
<1>2. Kept
  BY <1>1, EndKeeps DEF Advance, Store, history
<1>3. /\ Given(seen[u].draft) = {"event", "text"} /\ seen[u].scope = None
      /\ seen[u].target = None /\ seen[u].key = None
  BY <1>1, Carried DEF FieldsAt, ScopesAt, TargetSteps, CorrectionSteps, SummarySteps
<1>4. PICK t : t = [seen[u] EXCEPT !.step = "WAITING_DATE_MANUAL"]
  OBVIOUS
<1>5. /\ t \in State /\ t.step = "WAITING_DATE_MANUAL" /\ t.draft = seen[u].draft
      /\ t.key = None /\ t.target = None /\ t.scope = None /\ t.list = seen[u].list
  BY <1>3, <1>4, Carried DEF State, RegistrationSteps
<1>6. Settled(t.draft)'
  BY <1>2, <1>5, Carried, SettledStands
<1>7. Good(t)'
  BY <1>2, <1>3, <1>5, <1>6, PlainGood, Carried
     DEF SummarySteps, TargetSteps, CorrectionSteps, ScopesAt, FieldsAt
<1> QED  BY <1>1, <1>4, <1>5, <1>7, StepAdvances

(* The last field: the summary is made. *)
LEMMA StepGiveDate ==
  ASSUME ConvInv, NEW u \in Updates, GiveDate(u)
  PROVE  ConvInv'
<1>0. PICK draft, d : draft = seen[u].draft /\ d = With(draft, "date", u)
  OBVIOUS
<1>1. /\ seen[u].step \in {"WAITING_DATE", "WAITING_DATE_MANUAL"}
      /\ pc[u] = "registration"
  BY DEF GiveDate, Registering
<1>2. PICK s : /\ s = [seen[u] EXCEPT !.step = "WAITING_CONFIRMATION", !.draft.date = u,
                                      !.key = KeyFor(u, seen[u])]
               /\ StoreSummary(u, s, s.draft)
  BY DEF GiveDate
<1>3. /\ Given(seen[u].draft) = {"event", "text"} /\ seen[u].scope = None
      /\ seen[u].target = None /\ KeyFor(u, seen[u]) = u
  BY <1>1, Carried DEF FieldsAt, ScopesAt, TargetSteps, CorrectionSteps, SummarySteps, KeyFor,
                       RegistrationSteps
<1>4. /\ d \in Draft /\ Given(d) = FieldNames
      /\ SettledBut(u, d)
      /\ d["date"] = u
  <2>1. "date" \in FieldNames /\ draft \in Draft /\ Settled(draft)
    BY <1>0, Carried DEF FieldNames
  <2>2. /\ d \in Draft /\ Given(d) = Given(draft) \cup {"date"}
        /\ SettledBut(u, d)
        /\ d["date"] = u
    BY <2>1, <1>0, FieldGiven
  <2> QED  BY <2>2, <1>0, <1>3 DEF FieldNames
<1>5. /\ s \in State /\ s.step = "WAITING_CONFIRMATION" /\ s.draft = d /\ s.key = u
      /\ s.target = None /\ s.scope = None /\ s.list = seen[u].list
  <2>1. s = [seen[u] EXCEPT !.step = "WAITING_CONFIRMATION", !.draft = d, !.key = u]
    BY <1>0, <1>2, <1>3 DEF With
  <2>2. seen[u] \in State
    BY Carried
  <2> QED  BY <2>1, <2>2, <1>3, <1>4 DEF State, RegistrationSteps
<1>6. Said(s) = s.draft
  BY <1>5 DEF Said
<1>7. s.scope \in ScopesAt(s.step)
  BY <1>5 DEF ScopesAt
<1>8. "date" \in FieldNames
  BY DEF FieldNames
<1>9. /\ Given(s.draft) = ScopeFields(s.scope)
      /\ \A i \in DOMAIN s.list : Own(s.list[i])
      /\ SettledBut(u, s.draft)
      /\ \E f \in FieldNames : s.draft[f] = u
  BY <1>4, <1>5, <1>8, ScopeOfNone, Carried
<1>10. StoreSummary(u, s, Said(s)) /\ pc[u] \notin {"posted", "show", "done"}
  BY <1>1, <1>2, <1>6
<1>11. IF s.step = "WAITING_CORRECTION_CONFIRMATION" THEN Own(s.target) ELSE s.target = None
  BY <1>5
<1> QED  BY <1>5, <1>7, <1>9, <1>10, <1>11, StepSummarizes

(* Confirmed, or handed back after an error: the same summary at another step. *)
LEMMA SameSummary ==
  ASSUME ConvInv, NEW u \in Updates, NEW s, NEW step, s = [seen[u] EXCEPT !.step = step],
         \/ {seen[u].step, step} \subseteq {"WAITING_CONFIRMATION", "PROCESSING"}
         \/ {seen[u].step, step} \subseteq {"WAITING_CORRECTION_CONFIRMATION", "PROCESSING_CORRECTION"}
  PROVE  s \in State /\ Good(s) /\ s.step = step
<1>1. PICK t : t = seen[u]
  OBVIOUS
<1>2. t \in State /\ Good(t)
  BY <1>1, StatesHeld
<1>3. /\ s \in State /\ s.step = step /\ s.draft = t.draft /\ s.key = t.key
      /\ s.target = t.target /\ s.scope = t.scope /\ s.list = t.list
  BY <1>1, <1>2 DEF State, RegistrationSteps, CorrectionSteps
<1>4. /\ t.step \in SummarySteps /\ step \in SummarySteps
      /\ t.step \in TargetSteps <=> step \in TargetSteps
      /\ ScopesAt(t.step) = ScopesAt(step)
      /\ FieldsAt(t.step, t.scope) = ScopeFields(t.scope)
      /\ FieldsAt(step, t.scope) = ScopeFields(t.scope)
  BY <1>1 DEF SummarySteps, TargetSteps, CorrectionSteps, ScopesAt, FieldsAt
<1>5. Said(s) = Said(t)
  BY <1>3 DEF Said
<1> QED  BY <1>2, <1>3, <1>4, <1>5 DEF Good

(* A confirmation stores PROCESSING and goes on to the POST with its own summary. *)
LEMMA StepSends ==
  ASSUME ConvInv, NEW u \in Updates, NEW step, Send(u, Confirmed(u, step)),
         pc[u] \in {"registration", "correctionSM"},
         \/ seen[u].step = "WAITING_CONFIRMATION" /\ step = "PROCESSING"
         \/ seen[u].step = "WAITING_CORRECTION_CONFIRMATION" /\ step = "PROCESSING_CORRECTION"
  PROVE  ConvInv'
<1>1. PICK s : s = [seen[u] EXCEPT !.step = step]
  OBVIOUS
<1>2. s \in State /\ Good(s) /\ s.step = step
  BY <1>1, SameSummary
<1>3. /\ conv' = s /\ seen' = [seen EXCEPT ![u] = s] /\ pc' = [pc EXCEPT ![u] = "post"]
      /\ UNCHANGED <<kind, history, ledger>>
  BY <1>1 DEF Send, Confirmed, Goto
<1>4. Processing(s) /\ "post" \in Nodes
  BY <1>2 DEF Processing, Nodes
<1>5. kind' \in [Updates -> Kinds \cup {None}]
  BY <1>3 DEF ConvInv, Typed, TypeOK
<1> QED  BY <1>2, <1>3, <1>4, <1>5, StepGoesOn

(* Whatever Registro SM does. *)
LEMMA StepRegistration ==
  ASSUME ConvInv, NEW u \in Updates, Registration(u)
  PROVE  ConvInv'
<1>1. CASE Confirm(u)
  BY <1>1, StepSends DEF Confirm, Registering
<1>2. CASE Reprompt(u)
  BY <1>2, StepIgnored DEF Reprompt
<1>3. CASE CancelRegistration(u)
  BY <1>3, StepCancelled DEF CancelRegistration
<1> QED  BY <1>1, <1>2, <1>3, StepStartRegistration, StepChooseEventType, StepGiveText,
            StepOtherDate, StepGiveDate DEF Registration

-----------------------------------------------------------------------------
(* Workflow B *)

(* Workflow B reads the state again. *)
LEMMA StepLoadB ==
  ASSUME ConvInv, NEW u \in Updates, LoadB(u)
  PROVE  ConvInv'
<1>1. PICK s : s = conv
  OBVIOUS
<1>2. /\ pc[u] = "correction" /\ seen' = [seen EXCEPT ![u] = s]
      /\ pc' = [pc EXCEPT ![u] = "correctionSM"] /\ conv' = conv /\ kind' = kind
      /\ UNCHANGED <<history, ledger>>
  BY <1>1 DEF LoadB, Goto
<1>3. s \in State /\ Good(s)
  BY <1>1, StatesHeld
<1>4. kind' \in [Updates -> Kinds \cup {None}]
  BY <1>2 DEF ConvInv, Typed, TypeOK
<1> QED  BY <1>2, <1>3, <1>4, StepGoesOn DEF Nodes

(* A new correction begins, whatever was stored. *)
LEMMA StepStartCorrection ==
  ASSUME ConvInv, NEW u \in Updates, StartCorrection(u)
  PROVE  ConvInv'
<1>1. PICK s : s = seen[u]
  OBVIOUS
<1>2. /\ pc[u] = "correctionSM" /\ seen' = seen
      /\ pc' = [pc EXCEPT ![u] = "list"] /\ conv' = conv /\ kind' = kind
      /\ UNCHANGED <<history, ledger>>
  BY DEF StartCorrection, Goto
<1>3. s \in State /\ Good(s)
  BY <1>1, StatesHeld
<1>4. kind' \in [Updates -> Kinds \cup {None}] /\ seen' = [seen EXCEPT ![u] = s]
  BY <1>1, <1>2 DEF ConvInv, Typed, TypeOK
<1> QED  BY <1>2, <1>3, <1>4, StepGoesOn DEF Nodes

(* The rows the picker offers are the person's. *)
LEMMA RecentIsOwn ==
  ASSUME NEW rows \in Recent
  PROVE  rows \in Seq(Book!RowIds) /\ \A i \in DOMAIN rows : Own(rows[i])
<1> DEFINE mine == {r \in Book!RowIds : Mine(r)}
<1>1. PICK n \in 0 .. PickerSize : rows \in [1 .. n -> mine]
  BY DEF Recent, SeqOf
<1>2. n \in Nat
  BY <1>1, ConversationAssumption
<1>3. \A i \in DOMAIN rows : rows[i] \in mine
  BY <1>1
<1>4. rows \in [1 .. n -> Book!RowIds]
  BY <1>1
<1> QED  BY <1>2, <1>3, <1>4 DEF Mine, Own

(* The picker's list is of the person's own rows. *)
LEMMA StepFetchList ==
  ASSUME ConvInv, NEW u \in Updates, FetchList(u)
  PROVE  ConvInv'
<1>1. PICK rows \in Recent \cup {<<>>} :
        seen' = [seen EXCEPT ![u] =
                   IF rows = <<>> THEN Idle
                   ELSE [Fresh("WAITING_CORRECTION_SELECTION") EXCEPT !.list = rows]]
  BY DEF FetchList
<1>2. PICK s : s = IF rows = <<>> THEN Idle
                   ELSE [Fresh("WAITING_CORRECTION_SELECTION") EXCEPT !.list = rows]
  OBVIOUS
<1>3. /\ pc[u] = "list" /\ seen' = [seen EXCEPT ![u] = s]
      /\ pc' = [pc EXCEPT ![u] = "picker"] /\ conv' = conv /\ kind' = kind
      /\ UNCHANGED <<history, ledger>>
  BY <1>1, <1>2 DEF FetchList, Goto
<1>4. s \in State /\ Good(s)
  <2>1. CASE rows = <<>>
    BY <2>1, <1>2, IdleIs
  <2>2. CASE rows # <<>>
    <3>1. rows \in Seq(Book!RowIds) /\ \A i \in DOMAIN rows : Own(rows[i])
      BY <2>2, RecentIsOwn
    <3>2. PICK fresh : fresh = Fresh("WAITING_CORRECTION_SELECTION")
      OBVIOUS
    <3>3. fresh \in State /\ Good(fresh)
      BY <3>2, FreshState, FreshGood DEF CorrectionSteps
    <3>4. /\ s \in State /\ s.step = fresh.step /\ s.draft = fresh.draft /\ s.key = fresh.key
          /\ s.target = fresh.target /\ s.scope = fresh.scope /\ s.list = rows
      BY <2>2, <1>2, <3>1, <3>2, <3>3 DEF State
    <3>5. Said(s) = Said(fresh)
      BY <3>4 DEF Said
    <3> QED  BY <3>1, <3>3, <3>4, <3>5 DEF Good
  <2> QED  BY <2>1, <2>2
<1>5. kind' \in [Updates -> Kinds \cup {None}]
  BY <1>3 DEF ConvInv, Typed, TypeOK
<1> QED  BY <1>3, <1>4, <1>5, StepGoesOn DEF Nodes

(* A row of the list is picked. *)
LEMMA StepPick ==
  ASSUME ConvInv, NEW u \in Updates, Pick(u)
  PROVE  ConvInv'
<1>1. PICK i \in 1 .. PickerSize :
        Advance(u, IF i > Len(seen[u].list) THEN Idle
                   ELSE [seen[u] EXCEPT !.step = "WAITING_CORRECTION_SCOPE",
                                        !.target = seen[u].list[i]])
  BY DEF Pick
<1>2. CASE i > Len(seen[u].list)
  BY <1>1, <1>2, StepStoresIdle
<1>3. CASE ~(i > Len(seen[u].list))
  <2>1. PICK s : s = [seen[u] EXCEPT !.step = "WAITING_CORRECTION_SCOPE",
                                     !.target = seen[u].list[i]]
    OBVIOUS
  <2>2. Advance(u, s) /\ seen[u].step = "WAITING_CORRECTION_SELECTION"
    BY <1>1, <1>3, <2>1 DEF Pick, Correcting
  <2>3. Kept
    BY <2>2, EndKeeps DEF Advance, Store, history
  <2>4. /\ Given(seen[u].draft) = {} /\ seen[u].scope = None /\ seen[u].key = None
    BY <2>2, Carried DEF FieldsAt, ScopesAt, SummarySteps
  <2>5. i \in DOMAIN seen[u].list
    <3>1. seen[u].list \in Seq(Book!RowIds) /\ i \in Nat \ {0}
      BY <1>1, ConversationAssumption, Carried DEF State
    <3> QED  BY <3>1, <1>3
  <2>6. Own(seen[u].list[i])
    BY <2>5, Carried
  <2>7. /\ s \in State /\ s.step = "WAITING_CORRECTION_SCOPE" /\ s.draft = seen[u].draft
        /\ s.key = None /\ s.target = seen[u].list[i] /\ s.scope = None /\ s.list = seen[u].list
    BY <2>1, <2>4, <2>6, Carried DEF State, CorrectionSteps, Own
  <2>8. /\ s.step \notin SummarySteps /\ s.step \in TargetSteps
        /\ ScopesAt(s.step) = {None} /\ FieldsAt(s.step, None) = {}
    BY <2>7 DEF SummarySteps, TargetSteps, CorrectionSteps, ScopesAt, FieldsAt
  <2>9. Settled(s.draft)'
    BY <2>3, <2>7, Carried, SettledStands
  <2>10. /\ Given(s.draft) = FieldsAt(s.step, s.scope) /\ s.scope \in ScopesAt(s.step)
         /\ Own(s.target) /\ \A j \in DOMAIN s.list : Own(s.list[j])
    BY <2>4, <2>6, <2>7, <2>8, Carried
  <2>11. Good(s)'
    BY <2>3, <2>7, <2>8, <2>9, <2>10, PlainGood
  <2> QED  BY <2>2, <2>7, <2>11, StepAdvances
<1> QED  BY <1>2, <1>3

(* What is to be corrected is chosen. *)
LEMMA StepChooseScope ==
  ASSUME ConvInv, NEW u \in Updates, ChooseScope(u)
  PROVE  ConvInv'
<1>1. PICK scope \in Scopes :
        Advance(u, [seen[u] EXCEPT !.step = FirstStep(scope), !.scope = scope])
  BY DEF ChooseScope
<1>2. PICK s : s = [seen[u] EXCEPT !.step = FirstStep(scope), !.scope = scope]
  OBVIOUS
<1>3. Advance(u, s) /\ seen[u].step = "WAITING_CORRECTION_SCOPE"
  BY <1>1, <1>2 DEF ChooseScope, Correcting
<1>4. Kept
  BY <1>3, EndKeeps DEF Advance, Store, history
<1>5. /\ Given(seen[u].draft) = {} /\ seen[u].key = None /\ Own(seen[u].target)
  BY <1>3, Carried DEF FieldsAt, SummarySteps, TargetSteps, CorrectionSteps
<1>6. \/ scope \in {"tipo", "todo"} /\ FirstStep(scope) = "WAITING_CORRECTION_EVENT_TYPE"
      \/ scope = "md" /\ FirstStep(scope) = "WAITING_CORRECTION_TEXT"
      \/ scope = "fecha" /\ FirstStep(scope) = "WAITING_CORRECTION_DATE"
  BY DEF Scopes, FirstStep
<1>7. /\ s \in State /\ s.step = FirstStep(scope) /\ s.draft = seen[u].draft /\ s.key = None
      /\ s.target = seen[u].target /\ s.scope = scope /\ s.list = seen[u].list
  BY <1>2, <1>5, <1>6, Carried DEF State, CorrectionSteps
<1>8. /\ s.step \notin SummarySteps /\ s.step \in TargetSteps
      /\ s.scope \in ScopesAt(s.step) /\ FieldsAt(s.step, s.scope) = {}
  BY <1>6, <1>7 DEF SummarySteps, TargetSteps, CorrectionSteps, ScopesAt, FieldsAt
<1>9. Settled(s.draft)'
  BY <1>4, <1>7, Carried, SettledStands
<1>10. /\ Given(s.draft) = FieldsAt(s.step, s.scope) /\ Own(s.target)
       /\ \A i \in DOMAIN s.list : Own(s.list[i])
  BY <1>5, <1>7, <1>8, Carried
<1>11. Good(s)'
  BY <1>4, <1>7, <1>8, <1>9, <1>10, PlainGood
<1> QED  BY <1>3, <1>7, <1>11, StepAdvances

(* The last field a correction asks for: what the row will be is summed up. *)
LEMMA StepToConfirm ==
  ASSUME ConvInv, NEW u \in Updates, NEW f \in FieldNames,
         pc[u] = "correctionSM", seen[u].step \in TargetSteps \ SummarySteps,
         seen[u].scope \in Scopes, Given(seen[u].draft) \cup {f} = ScopeFields(seen[u].scope),
         ToConfirm(u, [seen[u].draft EXCEPT ![f] = u])
  PROVE  ConvInv'
<1>0. PICK draft, d : draft = seen[u].draft /\ d = With(draft, f, u)
  OBVIOUS
<1>1. PICK s : /\ s = [seen[u] EXCEPT !.step = "WAITING_CORRECTION_CONFIRMATION", !.draft = d,
                                      !.key = KeyFor(u, seen[u])]
               /\ StoreSummary(u, s, Patched(d, book[s.target].body))
  BY <1>0 DEF ToConfirm, With
<1>2. /\ seen[u].key = None /\ Own(seen[u].target) /\ KeyFor(u, seen[u]) = u
  BY Carried DEF KeyFor
<1>3. /\ d \in Draft /\ Given(d) = ScopeFields(seen[u].scope)
      /\ SettledBut(u, d)
      /\ d[f] = u
  <2>1. draft \in Draft /\ Settled(draft)
    BY <1>0, Carried
  <2>2. /\ d \in Draft /\ Given(d) = Given(draft) \cup {f}
        /\ SettledBut(u, d)
        /\ d[f] = u
    BY <2>1, <1>0, FieldGiven
  <2> QED  BY <2>2, <1>0
<1>4. /\ s \in State /\ s.step = "WAITING_CORRECTION_CONFIRMATION" /\ s.draft = d /\ s.key = u
      /\ s.target = seen[u].target /\ s.scope = seen[u].scope /\ s.list = seen[u].list
  <2>1. s = [seen[u] EXCEPT !.step = "WAITING_CORRECTION_CONFIRMATION", !.draft = d, !.key = u]
    BY <1>1, <1>2
  <2>2. seen[u] \in State
    BY Carried
  <2> QED  BY <2>1, <2>2, <1>3 DEF State, CorrectionSteps
<1>5. s.target # None
  BY <1>2, <1>4, NamesAssumption DEF Own
<1>6. StoreSummary(u, s, Said(s))
  BY <1>1, <1>4, <1>5 DEF Said
<1>7. s.scope \in ScopesAt(s.step)
  BY <1>4 DEF ScopesAt
<1>8. /\ Given(s.draft) = ScopeFields(s.scope)
      /\ \A i \in DOMAIN s.list : Own(s.list[i])
      /\ SettledBut(u, s.draft)
      /\ \E g \in FieldNames : s.draft[g] = u
  BY <1>3, <1>4, Carried
<1>9. IF s.step = "WAITING_CORRECTION_CONFIRMATION" THEN Own(s.target) ELSE s.target = None
  BY <1>2, <1>4
<1>10. pc[u] \notin {"posted", "show", "done"}
  OBVIOUS
<1> QED  BY <1>4, <1>6, <1>7, <1>8, <1>9, <1>10, StepSummarizes

(* A field of a correction of everything: the next one is asked for. *)
LEMMA StepNextField ==
  ASSUME ConvInv, NEW u \in Updates, NEW f \in FieldNames, NEW next \in TargetSteps \ SummarySteps,
         seen[u].step \in TargetSteps \ SummarySteps, seen[u].scope \in ScopesAt(next),
         Given(seen[u].draft) \cup {f} = FieldsAt(next, seen[u].scope),
         Advance(u, [seen[u] EXCEPT !.step = next, !.draft = [seen[u].draft EXCEPT ![f] = u]])
  PROVE  ConvInv'
<1>1. PICK draft : draft = seen[u].draft
  OBVIOUS
<1>2. PICK d : d = With(draft, f, u)
  OBVIOUS
<1>3. PICK s : s = [seen[u] EXCEPT !.step = next, !.draft = d]
  OBVIOUS
<1>4. Advance(u, s)
  BY <1>1, <1>2, <1>3 DEF With
<1>5. Kept /\ Handled(u)'
  BY <1>4, EndKeeps DEF Advance, Store, history
<1>6. /\ d \in Draft /\ Given(d) = Given(draft) \cup {f} /\ Settled(d)'
  <2>1. draft \in Draft /\ Settled(draft)
    BY <1>1, Carried
  <2>2. d \in Draft /\ Given(d) = Given(draft) \cup {f} /\ SettledBut(u, d)
    BY <2>1, <1>2, FieldGiven
  <2>3. Settled(d)'
    BY <2>2, <1>5, FieldSettled
  <2> QED  BY <2>2, <2>3
<1>7. seen[u].key = None /\ Own(seen[u].target)
  BY Carried
<1>8. /\ s \in State /\ s.step = next /\ s.draft = d /\ s.key = None
      /\ s.target = seen[u].target /\ s.scope = seen[u].scope /\ s.list = seen[u].list
  BY <1>3, <1>6, <1>7, Carried DEF State, TargetSteps
<1>9. /\ Given(s.draft) = FieldsAt(s.step, s.scope) /\ Own(s.target)
      /\ s.scope \in ScopesAt(s.step) /\ Settled(s.draft)'
      /\ \A i \in DOMAIN s.list : Own(s.list[i])
  BY <1>1, <1>6, <1>7, <1>8, Carried
<1>10. s.step \notin SummarySteps /\ s.step \in TargetSteps
  BY <1>8
<1>11. Good(s)'
  BY <1>5, <1>8, <1>9, <1>10, PlainGood
<1> QED  BY <1>4, <1>8, <1>11, StepAdvances

(* The event type of a correction. *)
LEMMA StepNewEventType ==
  ASSUME ConvInv, NEW u \in Updates, NewEventType(u)
  PROVE  ConvInv'
<1>1. /\ pc[u] = "correctionSM" /\ seen[u].step = "WAITING_CORRECTION_EVENT_TYPE"
      /\ NewField(u, [seen[u].draft EXCEPT !["event"] = u], "WAITING_CORRECTION_TEXT")
  BY DEF NewEventType, Correcting
<1>2. /\ seen[u].scope \in {"tipo", "todo"} /\ Given(seen[u].draft) = {}
      /\ seen[u].step \in TargetSteps \ SummarySteps
  BY <1>1, Carried DEF ScopesAt, FieldsAt, SummarySteps, TargetSteps, CorrectionSteps
<1>3. CASE seen[u].scope = "tipo"
  <2>1. ToConfirm(u, [seen[u].draft EXCEPT !["event"] = u])
    BY <1>1, <1>3 DEF NewField, Then
  <2>2. Given(seen[u].draft) \cup {"event"} = ScopeFields(seen[u].scope) /\ seen[u].scope \in Scopes
    BY <1>2, <1>3 DEF ScopeFields, Scopes
  <2> QED  BY <1>1, <1>2, <2>1, <2>2, StepToConfirm DEF FieldNames
<1>4. CASE seen[u].scope = "todo"
  <2>1. Advance(u, [seen[u] EXCEPT !.step = "WAITING_CORRECTION_TEXT",
                                   !.draft = [seen[u].draft EXCEPT !["event"] = u]])
    BY <1>1, <1>4 DEF NewField, Then
  <2>2. /\ "WAITING_CORRECTION_TEXT" \in TargetSteps \ SummarySteps
        /\ seen[u].scope \in ScopesAt("WAITING_CORRECTION_TEXT")
        /\ Given(seen[u].draft) \cup {"event"} = FieldsAt("WAITING_CORRECTION_TEXT", seen[u].scope)
    BY <1>2, <1>4 DEF ScopesAt, FieldsAt, SummarySteps, TargetSteps, CorrectionSteps
  <2> QED  BY <1>2, <2>1, <2>2, StepNextField DEF FieldNames
<1> QED  BY <1>2, <1>3, <1>4

(* The text of a correction. *)
LEMMA StepNewText ==
  ASSUME ConvInv, NEW u \in Updates, NewText(u)
  PROVE  ConvInv'
<1>1. /\ pc[u] = "correctionSM" /\ seen[u].step = "WAITING_CORRECTION_TEXT"
      /\ NewField(u, [seen[u].draft EXCEPT !["text"] = u], "WAITING_CORRECTION_DATE")
  BY DEF NewText, Correcting
<1>2. /\ seen[u].scope \in {"md", "todo"}
      /\ Given(seen[u].draft) = IF seen[u].scope = "todo" THEN {"event"} ELSE {}
      /\ seen[u].step \in TargetSteps \ SummarySteps
  BY <1>1, Carried DEF ScopesAt, FieldsAt, SummarySteps, TargetSteps, CorrectionSteps
<1>3. CASE seen[u].scope = "md"
  <2>1. ToConfirm(u, [seen[u].draft EXCEPT !["text"] = u])
    BY <1>1, <1>3 DEF NewField, Then
  <2>2. Given(seen[u].draft) \cup {"text"} = ScopeFields(seen[u].scope) /\ seen[u].scope \in Scopes
    BY <1>2, <1>3 DEF ScopeFields, Scopes
  <2> QED  BY <1>1, <1>2, <2>1, <2>2, StepToConfirm DEF FieldNames
<1>4. CASE seen[u].scope = "todo"
  <2>1. Advance(u, [seen[u] EXCEPT !.step = "WAITING_CORRECTION_DATE",
                                   !.draft = [seen[u].draft EXCEPT !["text"] = u]])
    BY <1>1, <1>4 DEF NewField, Then
  <2>2. /\ "WAITING_CORRECTION_DATE" \in TargetSteps \ SummarySteps
        /\ seen[u].scope \in ScopesAt("WAITING_CORRECTION_DATE")
        /\ Given(seen[u].draft) \cup {"text"} = FieldsAt("WAITING_CORRECTION_DATE", seen[u].scope)
    BY <1>2, <1>4 DEF ScopesAt, FieldsAt, SummarySteps, TargetSteps, CorrectionSteps
  <2> QED  BY <1>2, <2>1, <2>2, StepNextField DEF FieldNames
<1> QED  BY <1>2, <1>3, <1>4

(* The date of a correction will be typed. *)
LEMMA StepOtherNewDate ==
  ASSUME ConvInv, NEW u \in Updates, OtherNewDate(u)
  PROVE  ConvInv'
<1>1. PICK s : s = [seen[u] EXCEPT !.step = "WAITING_CORRECTION_DATE_MANUAL"]
  OBVIOUS
<1>2. Advance(u, s) /\ seen[u].step = "WAITING_CORRECTION_DATE"
  BY <1>1 DEF OtherNewDate, Correcting
<1>3. Kept
  BY <1>2, EndKeeps DEF Advance, Store, history
<1>4. seen[u].key = None /\ Own(seen[u].target)
  BY <1>2, Carried DEF SummarySteps, TargetSteps, CorrectionSteps
<1>5. /\ s \in State /\ s.step = "WAITING_CORRECTION_DATE_MANUAL" /\ s.draft = seen[u].draft
      /\ s.key = None /\ s.target = seen[u].target /\ s.scope = seen[u].scope
      /\ s.list = seen[u].list
  BY <1>1, <1>4, Carried DEF State, CorrectionSteps
<1>6. /\ s.step \notin SummarySteps /\ s.step \in TargetSteps
      /\ ScopesAt(s.step) = ScopesAt(seen[u].step)
      /\ FieldsAt(s.step, s.scope) = FieldsAt(seen[u].step, s.scope)
  BY <1>2, <1>5 DEF SummarySteps, TargetSteps, CorrectionSteps, ScopesAt, FieldsAt
<1>7. Settled(s.draft)'
  BY <1>3, <1>5, Carried, SettledStands
<1>8. /\ Given(s.draft) = FieldsAt(s.step, s.scope) /\ s.scope \in ScopesAt(s.step)
      /\ Own(s.target) /\ \A i \in DOMAIN s.list : Own(s.list[i])
  BY <1>4, <1>5, <1>6, Carried
<1>9. Good(s)'
  BY <1>3, <1>5, <1>6, <1>7, <1>8, PlainGood
<1> QED  BY <1>2, <1>5, <1>9, StepAdvances

(* The date of a correction: the summary is made. *)
LEMMA StepNewDate ==
  ASSUME ConvInv, NEW u \in Updates, NewDate(u)
  PROVE  ConvInv'
<1>1. /\ pc[u] = "correctionSM"
      /\ seen[u].step \in {"WAITING_CORRECTION_DATE", "WAITING_CORRECTION_DATE_MANUAL"}
      /\ ToConfirm(u, [seen[u].draft EXCEPT !["date"] = u])
  BY DEF NewDate, Correcting
<1>2. /\ seen[u].scope \in {"fecha", "todo"}
      /\ Given(seen[u].draft) = IF seen[u].scope = "todo" THEN {"event", "text"} ELSE {}
      /\ seen[u].step \in TargetSteps \ SummarySteps
  BY <1>1, Carried DEF ScopesAt, FieldsAt, SummarySteps, TargetSteps, CorrectionSteps
<1>3. Given(seen[u].draft) \cup {"date"} = ScopeFields(seen[u].scope) /\ seen[u].scope \in Scopes
  BY <1>2 DEF ScopeFields, Scopes
<1> QED  BY <1>1, <1>2, <1>3, StepToConfirm DEF FieldNames

(* Whatever Correccion SM does. *)
LEMMA StepCorrection ==
  ASSUME ConvInv, NEW u \in Updates, Correction(u)
  PROVE  ConvInv'
<1>1. CASE CancelCorrection(u)
  BY <1>1, StepCancelled DEF CancelCorrection
<1>2. CASE IgnoreWhileProcessing(u)
  BY <1>2, StepIgnored DEF IgnoreWhileProcessing
<1>3. CASE ShowPicker(u)
  BY <1>3, StepStoresCarried DEF ShowPicker
<1>4. CASE ConfirmCorrection(u)
  BY <1>4, StepSends DEF ConfirmCorrection, Correcting
<1>5. CASE Misunderstood(u)
  BY <1>5, StepIgnored, StepStoresIdle DEF Misunderstood
<1> QED  BY <1>1, <1>2, <1>3, <1>4, <1>5, StepLoadB, StepStartCorrection, StepFetchList, StepPick,
            StepChooseScope, StepNewEventType, StepNewText, StepOtherNewDate, StepNewDate
         DEF Correction

-----------------------------------------------------------------------------
(* The calls to the API *)

(* While the chat's states and summaries stand, they stay good. *)
LEMMA ChatStands ==
  ASSUME ConvInv, Kept, UNCHANGED <<conv, seen, summary>>,
         \A u \in Updates : pc'[u] \in {"post", "posted"} => pc[u] \in {"post", "posted"}
  PROVE  StatesGood' /\ SummariesGood'
<1>1. Good(conv)' /\ \A u \in Updates : Good(seen[u])'
  BY StatesHeld, GoodStands
<1>2. \A u \in Updates : pc'[u] \in {"post", "posted"} => Processing(seen[u])'
  BY DEF ConvInv, StatesGood, Processing
<1>3. SummariesGood'
  <2> SUFFICES ASSUME NEW k \in Updates, Made(k)
               PROVE  /\ Handled(k)'
                      /\ Settled(summary[k].body)'
                      /\ summary[k].target # None => Own(summary[k].target)'
    BY DEF ConvInv, SummariesGood, Made
  <2> QED  BY SettledStands, OwnStands DEF ConvInv, SummariesGood, Kept
<1> QED  BY <1>1, <1>2, <1>3 DEF StatesGood

(* What is sent is what was summed up. *)
LEMMA BodySent ==
  ASSUME ConvInv, NEW s \in State, Good(s), Processing(s)
  PROVE  LET q == ApiBody(s)
         IN /\ q \in Request
            /\ summary[q.key] = [target |-> q.target, body |-> q.body]
            /\ q.kind = "record" <=> q.target = None
<1>1. /\ s.key \in Updates /\ summary[s.key] = [target |-> s.target, body |-> Said(s)]
      /\ IF s.step \in TargetSteps THEN Own(s.target) ELSE s.target = None
  BY DEF Good, Processing, SummarySteps
<1>2. s.step = "PROCESSING" <=> s.target = None
  <2>1. s.step \in TargetSteps <=> s.step # "PROCESSING"
    BY DEF Processing, TargetSteps, CorrectionSteps
  <2>2. Own(s.target) => s.target # None
    BY NamesAssumption DEF Own
  <2> QED  BY <2>1, <2>2, <1>1
<1>3. Fields(s) = Said(s)
  BY <1>2 DEF Fields, Said
<1>4. s.target \in Book!RowIds \cup {None} /\ Said(s) \in Draft
  BY <1>1, SaidIsDraft DEF State
<1> QED  BY <1>1, <1>2, <1>3, <1>4 DEF ApiBody, Request

(* The request carries what the execution carries. *)
LEMMA StepPost ==
  ASSUME ConvInv, NEW u \in Updates, Post(u)
  PROVE  ConvInv'
<1>1. PICK q : q = ApiBody(seen[u])
  OBVIOUS
<1>2. /\ asked' = [asked EXCEPT ![u] = q]
      /\ pc[u] = "post" /\ pc' = [pc EXCEPT ![u] = "posted"]
      /\ UNCHANGED <<conv, kind, seen, summary, cancelled, expired, book, granted, code>>
  BY <1>1 DEF Post, Goto, history
<1>3. /\ q \in Request /\ summary[q.key] = [target |-> q.target, body |-> q.body]
      /\ q.kind = "record" <=> q.target = None
  BY <1>1, <1>2, BodySent, StatesHeld DEF ConvInv, StatesGood
<1>4. pc \in [Updates -> Nodes] /\ asked \in [Updates -> Request \cup {None}]
  BY DEF ConvInv, Typed, TypeOK
<1>5. Kept
  BY <1>2, <1>4 DEF Kept, Handled, Book!InBook
<1>6. StatesGood' /\ SummariesGood'
  BY <1>2, <1>4, <1>5, ChatStands
<1>7. Typed'
  <2>1. pc' \in [Updates -> Nodes] /\ asked' \in [Updates -> Request \cup {None}]
    BY <1>2, <1>3, <1>4 DEF Nodes
  <2>2. \A v \in Updates : code[v] # "pending" => asked'[v] # None
    BY <1>2, <1>3, <1>4, NamesAssumption DEF ConvInv, Typed, TypeOK
  <2> QED  BY <1>2, <2>1, <2>2 DEF ConvInv, Typed, TypeOK, Book!InBook, Book!RowIds
<1>8. RequestsGood'
  <2> SUFFICES ASSUME NEW v \in Updates, asked'[v] # None
               PROVE  /\ asked'[v] \in Request
                      /\ pc'[v] \in {"posted", "done"}
                      /\ summary[asked'[v].key] = [target |-> asked'[v].target, body |-> asked'[v].body]
                      /\ asked'[v].kind = "record" <=> asked'[v].target = None
    BY <1>2 DEF RequestsGood
  <2>1. CASE v = u
    BY <2>1, <1>2, <1>3, <1>4
  <2>2. CASE v # u
    BY <2>2, <1>2, <1>4 DEF ConvInv, RequestsGood
  <2> QED  BY <2>1, <2>2
<1>9. RowsGood'
  <2>1. \A r \in Book!RowIds : Book!InBook(r) => Settled(book[r].body)'
    BY <1>2, <1>5, RowOf, SettledStands
  <2>2. \A r \in Recorded : asked'[r] = asked[r]
    BY <1>2, <1>4 DEF ConvInv, RowsGood, RequestsGood, Recorded
  <2> QED  BY <1>2, <2>1, <2>2 DEF ConvInv, RowsGood, Recorded, Own, Book!InBook, Book!RowIds
<1>10. RefusalsAreDeserved'
  BY <1>2 DEF ConvInv, RefusalsAreDeserved
<1> QED  BY <1>6, <1>7, <1>8, <1>9, <1>10 DEF ConvInv

(* The ledger's answers and losses: no row changes. *)
LEMMA StepAnswered ==
  ASSUME ConvInv, UNCHANGED <<chat, history, book, asked>>, DOMAIN granted' = Updates,
         NEW u \in Updates, asked[u] # None,
         NEW why \in {"ok", "lost", "invalid", "not_active"}, code' = [code EXCEPT ![u] = why]
  PROVE  ConvInv'
<1>1. UNCHANGED <<conv, pc, kind, seen, summary, cancelled, expired, book, asked>>
  BY DEF chat, history
<1>2. Kept
  BY <1>1 DEF Kept, Handled, Book!InBook
<1>3. StatesGood' /\ SummariesGood'
  BY <1>1, <1>2, ChatStands
<1>4. Typed' /\ RefusalsAreDeserved'
  BY <1>1 DEF ConvInv, Typed, TypeOK, RefusalsAreDeserved, Book!InBook, Book!RowIds
<1>5. RequestsGood'
  BY <1>1 DEF ConvInv, RequestsGood
<1>6. RowsGood'
  <2>1. \A r \in Book!RowIds : Book!InBook(r) => Settled(book[r].body)'
    BY <1>1, <1>2, RowOf, SettledStands
  <2> QED  BY <1>1, <2>1 DEF ConvInv, RowsGood, Recorded, Own, Book!InBook, Book!RowIds
<1> QED  BY <1>3, <1>4, <1>5, <1>6 DEF ConvInv

(* A request is applied: its row is new, and a correction retires its target,  *)
(* whose columns stay what they were.                                          *)
LEMMA StepApplied ==
  ASSUME ConvInv, UNCHANGED <<chat, history, asked, granted, code>>,
         NEW u \in Updates, asked[u] # None, ~Book!InBook(u), Book!UnderKey(u) = {},
         NEW new, book' = new,
         new \in [Book!RowIds -> Row \cup {NoRow}], new[u] \in Row,
         new[u].key = asked[u].key, new[u].actor = Me, new[u].body = asked[u].body,
         \A r \in Book!RowIds \ {u} :
           /\ new[r] # NoRow <=> book[r] # NoRow
           /\ book[r] # NoRow =>
                /\ new[r].key = book[r].key /\ new[r].actor = book[r].actor
                /\ new[r].head = book[r].head /\ new[r].body = book[r].body
                /\ r # asked[u].target =>
                     new[r].status = book[r].status /\ new[r].succ = book[r].succ,
         IF asked[u].target = None
         THEN new[u].head = Omitted
         ELSE LET t == asked[u].target
              IN /\ Own(t) /\ book[t].status = "ACTIVE"
                 /\ new[t].status = "SUPERSEDED" /\ new[t].succ = u
                 /\ new[u].head = book[t].head
  PROVE  ConvInv'
<1>1. UNCHANGED <<conv, pc, kind, seen, summary, cancelled, expired, asked, granted, code>>
  BY DEF chat, history
<1>2. /\ book \in [Book!RowIds -> Row \cup {NoRow}] /\ NoRow \notin Row
      /\ u \in Book!RowIds /\ book[u] = NoRow /\ new[u] # NoRow
      /\ Seeds \cap Updates = {}
  BY NamesAssumption, ConversationAssumption, RowIdsAre DEF ConvInv, Typed, Book!InBook
<1>3. /\ asked[u] \in Request
      /\ summary[asked[u].key] = [target |-> asked[u].target, body |-> asked[u].body]
      /\ Made(asked[u].key)
  <2>1. /\ asked[u] \in Request /\ asked[u].key \in Updates
        /\ summary[asked[u].key] = [target |-> asked[u].target, body |-> asked[u].body]
        /\ [target |-> asked[u].target, body |-> asked[u].body] \in Summary
    BY DEF ConvInv, RequestsGood, Request, Summary
  <2> QED  BY <2>1, SummaryIsMade
<1>4. Given(asked[u].body) = FieldNames /\ Settled(asked[u].body)
  <2>1. asked[u].key \in Updates
    BY <1>3 DEF Request
  <2> QED  BY <2>1, <1>3 DEF ConvInv, SummariesGood
<1>5. Kept
  BY <1>1, <1>2 DEF Kept, Handled, Book!InBook
<1>6. StatesGood' /\ SummariesGood'
  BY <1>1, <1>5, ChatStands
<1>7. \A r \in Book!RowIds :
        /\ new[r].body \in Draft \/ new[r] = NoRow
        /\ new[r] # NoRow => Given(new[r].body) = FieldNames /\ Settled(new[r].body)'
  <2> SUFFICES ASSUME NEW r \in Book!RowIds, new[r] # NoRow
               PROVE  /\ new[r].body \in Draft
                      /\ Given(new[r].body) = FieldNames /\ Settled(new[r].body)'
    OBVIOUS
  <2>1. new[r].body \in Draft
    BY DEF Row
  <2>2. CASE r = u
    BY <2>1, <2>2, <1>4, <1>5, SettledStands
  <2>3. CASE r # u
    <3>1. Book!InBook(r) /\ new[r].body = book[r].body
      BY <2>3 DEF Book!InBook
    <3> QED  BY <2>1, <3>1, <1>5, RowOf, SettledStands
  <2> QED  BY <2>2, <2>3
<1>8. Typed'
  <2>1. \A r \in Book!RowIds :
          new[r] # NoRow => new[r].body \in Draft /\ None \notin {new[r].body[f] : f \in DOMAIN NoDraft}
    BY <1>7, SourcesAreNamed DEF Given
  <2>2. TypeOK'
    BY <2>1, <1>1 DEF ConvInv, Typed, TypeOK, Book!InBook, Book!RowIds
  <2> QED  BY <2>2, <1>1 DEF ConvInv, Typed, Book!RowIds
<1>9. RequestsGood' /\ RefusalsAreDeserved'
  BY <1>1 DEF ConvInv, RequestsGood, RefusalsAreDeserved
<1>10. ASSUME NEW r, Own(r), r # u
       PROVE  Own(r)'
  BY <1>10, <1>5, OwnStands
<1>11. ASSUME NEW r \in Updates, new[r] # NoRow
       PROVE  /\ asked[r] # None
              /\ new[r].key = asked[r].key /\ new[r].actor = Me /\ new[r].body = asked[r].body
              /\ IF asked[r].target = None
                 THEN new[r].head = Omitted
                 ELSE LET t == asked[r].target
                      IN Own(t)' /\ new[t].status = "SUPERSEDED" /\ new[t].succ = r
                         /\ new[r].head = new[t].head
  <2>1. CASE r = u
    <3>1. CASE asked[u].target = None
      BY <2>1, <3>1
    <3>2. CASE asked[u].target # None
      <4> DEFINE t == asked[u].target
      <4>1. t # u /\ t \in Book!RowIds
        BY <3>2, <1>2 DEF Own, Book!InBook
      <4>2. new[t].head = book[t].head
        BY <4>1, <3>2 DEF Own, Book!InBook
      <4> QED  BY <2>1, <3>2, <4>1, <4>2, <1>10
    <3> QED  BY <3>1, <3>2
  <2>2. CASE r # u
    <3>1. r \in Recorded /\ r \in Book!RowIds
      BY <2>2, <1>11, RowIdsAre DEF Recorded, Book!InBook
    <3>2. /\ asked[r] # None
          /\ new[r].key = asked[r].key /\ new[r].actor = Me /\ new[r].body = asked[r].body
          /\ new[r].head = book[r].head
      BY <2>2, <3>1, <1>11 DEF ConvInv, RowsGood, Recorded, Book!InBook
    <3>3. CASE asked[r].target = None
      BY <3>1, <3>2, <3>3 DEF ConvInv, RowsGood
    <3>4. CASE asked[r].target # None
      <4> DEFINE t == asked[r].target
      <4>1. /\ Own(t) /\ book[t].status = "SUPERSEDED" /\ book[t].succ = r
            /\ book[r].head = book[t].head
        BY <3>1, <3>4 DEF ConvInv, RowsGood
      <4>2. t # u /\ t \in Book!RowIds /\ book[t] # NoRow
        BY <4>1, <1>2 DEF Own, Book!InBook
      <4>3. t # asked[u].target
        BY <4>1, <4>2, NamesAssumption
      <4>4. new[t].status = "SUPERSEDED" /\ new[t].succ = r /\ new[t].head = book[t].head
        BY <4>1, <4>2, <4>3
      <4> QED  BY <3>2, <3>4, <4>1, <4>2, <4>4, <1>10
    <3> QED  BY <3>3, <3>4
  <2> QED  BY <2>1, <2>2
<1>12. ASSUME NEW r \in Updates, NEW e \in Updates, new[r] # NoRow, new[e] # NoRow,
              new[r].key = new[e].key
       PROVE  r = e
  <2>1. ASSUME NEW x \in Updates, x # u, new[x] # NoRow
        PROVE  new[x].key # asked[u].key
    BY <2>1, RowIdsAre DEF Book!UnderKey, Book!InBook
  <2>2. CASE r = u \/ e = u
    BY <2>1, <2>2, <1>12
  <2>3. CASE r # u /\ e # u
    BY <2>3, <1>12, RowIdsAre DEF ConvInv, RowsGood, Recorded, Book!InBook
  <2> QED  BY <2>2, <2>3
<1>13. \A s \in Seeds : new[s] # NoRow /\ new[s].key \in Seeds
  BY <1>2, RowIdsAre DEF ConvInv, RowsGood, Book!InBook
<1>14. RowsGood'
  <2>1. \A r \in Recorded' : r \in Updates /\ new[r] # NoRow
    BY DEF Recorded, Book!InBook
  <2> QED  BY <1>1, <1>7, <1>11, <1>12, <1>13, <2>1 DEF RowsGood, Book!InBook, Book!RowIds
<1> QED  BY <1>6, <1>8, <1>9, <1>14 DEF ConvInv

(* What is known of a request the ledger has not decided. *)
LEMMA AskedIs ==
  ASSUME ConvInv, NEW u \in Updates, asked[u] # None
  PROVE  /\ asked[u] \in Request /\ asked[u].key \in Updates /\ asked[u].actor = Me
         /\ asked[u].head = Omitted /\ asked[u].body \in Draft /\ asked[u].body # Omitted
         /\ asked[u].kind \in {"record", "correct"}
         /\ asked[u].kind = "record" <=> asked[u].target = None
         /\ asked[u].target # None => Own(asked[u].target)
         /\ summary[asked[u].key] = [target |-> asked[u].target, body |-> asked[u].body]
         /\ Made(asked[u].key)
<1>1. /\ asked[u] \in Request
      /\ asked[u].kind = "record" <=> asked[u].target = None
      /\ summary[asked[u].key] = [target |-> asked[u].target, body |-> asked[u].body]
  BY DEF ConvInv, RequestsGood
<1>2. /\ asked[u].key \in Updates /\ asked[u].actor = Me /\ asked[u].kind \in {"record", "correct"}
      /\ asked[u].head = Omitted /\ asked[u].body \in Draft
      /\ [target |-> asked[u].target, body |-> asked[u].body] \in Summary
  BY <1>1 DEF Request, Summary
<1>3. asked[u].body # Omitted
  BY <1>2, NamesAssumption
<1>4. Made(asked[u].key)
  BY <1>1, <1>2, SummaryIsMade
<1>5. asked[u].target # None => Own(asked[u].target)
  BY <1>1, <1>2, <1>4 DEF ConvInv, SummariesGood
<1> QED  BY <1>1, <1>2, <1>3, <1>4, <1>5

(* The API records a summary, whose key has no row yet. *)
LEMMA StepRecord ==
  ASSUME ConvInv, NEW u \in Updates, Book!Record(u), UNCHANGED <<chat, history>>
  PROVE  ConvInv'
<1>1. /\ asked[u] # None /\ asked[u].kind = "record" /\ ~Book!InBook(u) /\ Book!UnderKey(u) = {}
      /\ book' = [book EXCEPT ![u] = Book!Entry(u, asked[u].head, asked[u].body)]
      /\ UNCHANGED <<asked, granted, code>>
  BY DEF Book!Record
<1>2. PICK new : new = book'
  OBVIOUS
<1>3. PICK entry : entry = Book!Entry(u, asked[u].head, asked[u].body)
  OBVIOUS
<1>4. /\ entry \in Row /\ entry.key = asked[u].key /\ entry.actor = Me
      /\ entry.head = Omitted /\ entry.body = asked[u].body
  BY <1>1, <1>3, AskedIs DEF Book!Entry, Row
<1>5. book \in [Book!RowIds -> Row \cup {NoRow}] /\ u \in Book!RowIds
  BY RowIdsAre DEF ConvInv, Typed
<1>6. /\ new \in [Book!RowIds -> Row \cup {NoRow}] /\ new[u] = entry
      /\ \A r \in Book!RowIds \ {u} : new[r] = book[r]
  BY <1>1, <1>2, <1>3, <1>4, <1>5
<1>7. asked[u].target = None
  BY <1>1, AskedIs
<1> QED  BY <1>1, <1>2, <1>4, <1>6, <1>7, StepApplied

(* The API records a correction and retires its target. *)
LEMMA StepCorrect ==
  ASSUME ConvInv, NEW u \in Updates, Book!Correct(u), UNCHANGED <<chat, history>>
  PROVE  ConvInv'
<1>1. PICK t : t = asked[u].target
  OBVIOUS
<1>2. PICK entry : entry = Book!Entry(u, Book!Filled(asked[u].head, book[t].head),
                                         Book!Filled(asked[u].body, book[t].body))
  OBVIOUS
<1>3. /\ asked[u] # None /\ asked[u].kind = "correct" /\ ~Book!InBook(u) /\ Book!UnderKey(u) = {}
      /\ Book!InBook(t) /\ book[t].status = "ACTIVE"
      /\ book' = [book EXCEPT ![u] = entry, ![t].status = "SUPERSEDED", ![t].succ = u]
      /\ UNCHANGED <<asked, granted, code>>
  BY <1>1, <1>2 DEF Book!Correct
<1>4. asked[u].target # None /\ Own(t) /\ t \in Book!RowIds /\ t # u
  BY <1>1, <1>3, AskedIs DEF Own
<1>5. /\ book \in [Book!RowIds -> Row \cup {NoRow}] /\ u \in Book!RowIds /\ book[t] \in Row
  BY <1>4, RowIdsAre, RowOf DEF ConvInv, Typed, Own
<1>6. /\ entry \in Row /\ entry.key = asked[u].key /\ entry.actor = Me
      /\ entry.head = book[t].head /\ entry.body = asked[u].body
  BY <1>2, <1>3, <1>5, AskedIs DEF Book!Entry, Book!Filled, Row
<1>7. PICK new : new = book'
  OBVIOUS
<1>8. PICK old : old = [book[t] EXCEPT !.status = "SUPERSEDED", !.succ = u]
  OBVIOUS
<1>9. /\ old \in Row /\ old.key = book[t].key /\ old.actor = book[t].actor
      /\ old.head = book[t].head /\ old.body = book[t].body
      /\ old.status = "SUPERSEDED" /\ old.succ = u
  BY <1>5, <1>8 DEF Row
<1>10. new = [book EXCEPT ![u] = entry, ![t] = old]
  BY <1>3, <1>4, <1>5, <1>7, <1>8
<1>11. /\ new \in [Book!RowIds -> Row \cup {NoRow}] /\ new[u] = entry /\ new[t] = old
       /\ \A r \in Book!RowIds \ {u, t} : new[r] = book[r]
  BY <1>4, <1>5, <1>6, <1>9, <1>10
<1>12. new[t] # NoRow /\ book[t] # NoRow
  BY <1>5, <1>9, <1>11, NamesAssumption
<1>13. \A r \in Book!RowIds \ {u} :
         /\ new[r] # NoRow <=> book[r] # NoRow
         /\ book[r] # NoRow =>
              /\ new[r].key = book[r].key /\ new[r].actor = book[r].actor
              /\ new[r].head = book[r].head /\ new[r].body = book[r].body
              /\ r # asked[u].target =>
                   new[r].status = book[r].status /\ new[r].succ = book[r].succ
  BY <1>1, <1>9, <1>11, <1>12
<1>14. /\ new[u] \in Row /\ new[u].key = asked[u].key /\ new[u].actor = Me
       /\ new[u].body = asked[u].body
  BY <1>6, <1>11
<1>15. LET p == asked[u].target
       IN /\ Own(p) /\ book[p].status = "ACTIVE"
          /\ new[p].status = "SUPERSEDED" /\ new[p].succ = u
          /\ new[u].head = book[p].head
  BY <1>1, <1>3, <1>4, <1>6, <1>9, <1>11
<1> QED  BY <1>3, <1>4, <1>7, <1>11, <1>13, <1>14, <1>15, StepApplied

(* No request is refused but for its text, or because its target has been *)
(* corrected since.                                                       *)
LEMMA StepRefuse ==
  ASSUME ConvInv, NEW u \in Updates, Book!Refuse(u), UNCHANGED <<chat, history>>,
         code'[u] = "not_found" => ~Book!InBook(asked[u].target)
  PROVE  ConvInv'
<1>1. PICK why \in {"duplicate", "not_found", "not_active", "not_allowed", "invalid"} :
        Book!Reason(u, why) /\ code' = [code EXCEPT ![u] = why]
  BY DEF Book!Refuse
<1>2. asked[u] # None /\ UNCHANGED <<book, asked, granted>>
  BY DEF Book!Refuse
<1>3. why # "duplicate"
  <2> SUFFICES ASSUME why = "duplicate" PROVE FALSE
    OBVIOUS
  <2>1. PICK r \in Book!UnderKey(u) : ~Book!Answers(u, r)
    BY <1>1 DEF Book!Reason
  <2>2. r \in Book!RowIds /\ Book!InBook(r) /\ book[r].key = asked[u].key
    BY <2>1 DEF Book!UnderKey
  <2>3. asked[u].key \in Updates /\ Seeds \cap Updates = {}
    BY <1>2, AskedIs, ConversationAssumption
  <2>4. r \in Recorded
    BY <2>2, <2>3, RowIdsAre DEF ConvInv, RowsGood, Recorded
  <2>5. /\ asked[r] # None /\ book[r].key = asked[r].key /\ book[r].actor = Me
        /\ book[r].body = asked[r].body
        /\ IF asked[r].target = None
           THEN book[r].head = Omitted
           ELSE LET t == asked[r].target
                IN Own(t) /\ book[t].succ = r /\ book[r].head = book[t].head
    BY <2>4 DEF ConvInv, RowsGood
  <2>6. /\ r \in Updates
        /\ summary[asked[r].key] = [target |-> asked[r].target, body |-> asked[r].body]
        /\ summary[asked[u].key] = [target |-> asked[u].target, body |-> asked[u].body]
    BY <1>2, <2>4, <2>5, AskedIs DEF Recorded
  <2>7. asked[r].target = asked[u].target /\ asked[r].body = asked[u].body
    <3>1. [target |-> asked[r].target, body |-> asked[r].body]
            = [target |-> asked[u].target, body |-> asked[u].body]
      BY <2>2, <2>5, <2>6
    <3> QED  BY <3>1
  <2>8. Book!Answers(u, r)
    <3>1. CASE asked[u].target = None
      <4>1. asked[u].kind = "record"
        BY <3>1, <1>2, AskedIs
      <4> QED  BY <3>1, <4>1, <1>2, <2>5, <2>7, AskedIs DEF Book!Answers, Book!Fits
    <3>2. CASE asked[u].target # None
      <4>1. asked[u].kind # "record"
        BY <3>2, <1>2, AskedIs
      <4> QED  BY <3>2, <4>1, <1>2, <2>5, <2>7, AskedIs
               DEF Book!Answers, Book!Fits, Book!Filled, Own
    <3> QED  BY <3>1, <3>2
  <2> QED  BY <2>1, <2>8
<1>4. why # "not_found" /\ why # "not_allowed"
  <2>1. why \in {"not_found", "not_allowed"} => asked[u].kind = "correct"
    BY <1>1 DEF Book!Reason
  <2>2. why \in {"not_found", "not_allowed"} => Own(asked[u].target)
    BY <2>1, <1>2, AskedIs
  <2>3. why = "not_allowed" => book[asked[u].target].actor # Me
    BY <1>1, <1>2, AskedIs DEF Book!Reason
  <2>4. why = "not_found" => ~Book!InBook(asked[u].target)
    BY <1>1 DEF ConvInv, Typed
  <2> QED  BY <2>2, <2>3, <2>4 DEF Own
<1>5. DOMAIN granted' = Updates
  BY <1>2 DEF ConvInv, Typed
<1> QED  BY <1>1, <1>2, <1>3, <1>4, <1>5, StepAnswered

(* Whatever the API does with a request. *)
LEMMA StepService ==
  ASSUME ConvInv, NEW u \in Updates, Service(u)
  PROVE  ConvInv'
<1>1. UNCHANGED <<chat, history>> /\ (code'[u] = "not_found" => ~Book!InBook(asked[u].target))
  BY DEF Service
<1>2. CASE Book!Accept(u)
  <2>1. /\ asked[u] # None /\ code' = [code EXCEPT ![u] = "ok"] /\ UNCHANGED <<book, asked>>
        /\ DOMAIN granted' = DOMAIN granted
    BY <1>2 DEF Book!Accept
  <2> QED  BY <1>1, <2>1, StepAnswered DEF ConvInv, Typed
<1>3. CASE Book!Lose(u)
  <2>1. /\ asked[u] # None /\ code' = [code EXCEPT ![u] = "lost"]
        /\ UNCHANGED <<book, asked, granted>>
    BY <1>3 DEF Book!Lose
  <2> QED  BY <1>1, <2>1, StepAnswered DEF ConvInv, Typed
<1> QED  BY <1>1, <1>2, <1>3, StepRecord, StepCorrect, StepRefuse DEF Service

(* An answer other than 2xx puts the summary back. *)
LEMMA StepRejected ==
  ASSUME ConvInv, NEW u \in Updates, Rejected(u)
  PROVE  ConvInv'
<1>1. pc[u] = "posted" /\ Advance(u, Reverted(u)) /\ Processing(seen[u])
  BY DEF Rejected, ConvInv, StatesGood
<1>2. PICK step : step = IF seen[u].step = "PROCESSING" THEN "WAITING_CONFIRMATION"
                         ELSE "WAITING_CORRECTION_CONFIRMATION"
  OBVIOUS
<1>3. PICK s : s = [seen[u] EXCEPT !.step = step]
  OBVIOUS
<1>4. Advance(u, s)
  BY <1>1, <1>2, <1>3 DEF Reverted
<1>5. s \in State /\ Good(s)
  BY <1>1, <1>2, <1>3, SameSummary DEF Processing
<1>6. Good(s)'
  BY <1>4, <1>5, EndKeeps, GoodStands DEF Advance, Store, history
<1> QED  BY <1>4, <1>5, <1>6, StepAdvances

(* Redis drops the key. *)
LEMMA StepExpire ==
  ASSUME ConvInv, Expire
  PROVE  ConvInv'
<1>1. /\ conv' = Idle /\ UNCHANGED <<pc, kind, seen, summary, cancelled, ledger>>
      /\ expired' = IF conv.key = None \/ Live # {} THEN expired ELSE expired \cup {conv.key}
  BY DEF Expire
<1>2. Kept
  BY <1>1 DEF Kept, Handled, ledger, Book!InBook
<1>3. \A u \in Updates : Good(seen[u])'
  BY <1>1, <1>2, StatesHeld, GoodStands
<1>4. \A u \in Updates : pc'[u] \in {"post", "posted"} => Processing(seen[u])'
  BY <1>1 DEF ConvInv, StatesGood, Processing
<1>5. StatesGood'
  BY <1>1, <1>3, <1>4, IdleIs DEF StatesGood
<1>6. SummariesGood'
  <2> SUFFICES ASSUME NEW k \in Updates, Made(k)
               PROVE  /\ Settled(summary[k].body)'
                      /\ summary[k].target # None => Own(summary[k].target)'
    BY <1>1 DEF ConvInv, SummariesGood, Made, Handled
  <2> QED  BY <1>1, <1>2, SettledStands, OwnStands DEF ConvInv, SummariesGood
<1>7. conv.key \in Updates \cup {None}
  BY StatesHeld DEF State
<1>8. \A u \in Updates : asked[u] # None => pc'[u] \in {"posted", "done"}
  BY <1>1 DEF ConvInv, RequestsGood
<1>9. /\ expired' \subseteq Updates /\ cancelled' \subseteq Updates
      /\ pc' \in [Updates -> Nodes] /\ kind' \in [Updates -> Kinds \cup {None}]
      /\ seen' \in [Updates -> State] /\ summary' \in [Updates -> Summary \cup {None}]
  BY <1>1, <1>7 DEF ConvInv, Typed, TypeOK
<1> QED  BY <1>1, <1>2, <1>5, <1>6, <1>8, <1>9, IdleIs, ChatStep

-----------------------------------------------------------------------------
(* Before the first update nothing is said, made or sent, and the rows of the  *)
(* ledger are complete.                                                        *)
LEMMA InitConv == Init => ConvInv
<1> SUFFICES ASSUME Init PROVE ConvInv
  OBVIOUS
<1>1. /\ conv = Idle /\ pc = [u \in Updates |-> "waiting"]
      /\ kind = [u \in Updates |-> None] /\ seen = [u \in Updates |-> Idle]
      /\ summary = [k \in Updates |-> None] /\ cancelled = {} /\ expired = {}
      /\ book = [r \in Book!RowIds |-> IF r \in Seeds THEN SeedRow[r] ELSE NoRow]
      /\ asked = [u \in Updates |-> None] /\ granted = [u \in Updates |-> None]
      /\ code = [u \in Updates |-> "pending"]
  BY DEF Init, Book!Init
<1>2. /\ book \in [Book!RowIds -> Row \cup {NoRow}]
      /\ \A r \in Book!RowIds : Book!InBook(r) => r \in Seeds /\ book[r] = SeedRow[r]
  BY <1>1, SeedAssumption, RowIdsAre DEF Book!InBook
<1>3. \A s \in Seeds : \A f \in FieldNames : SeedRow[s].body[f] \in Seeds
  BY SeedAssumption DEF FieldNames
<1>4. /\ \A s \in Seeds : s # None /\ s \notin Updates
      /\ \A r \in Updates : r \notin Seeds
  BY NamesAssumption, ConversationAssumption, RowIdsAre
<1>5. Typed
  <2>1. \A r \in Book!RowIds : Book!InBook(r) =>
          book[r].body \in Draft /\ None \notin {book[r].body[f] : f \in DOMAIN NoDraft}
    BY <1>2, <1>3, <1>4, SourcesAreNamed, SeedAssumption DEF Row
  <2>2. TypeOK
    BY <1>1, <2>1, IdleIs DEF TypeOK, Nodes
  <2> QED  BY <1>1, <1>2, <2>2 DEF Typed
<1>6. StatesGood
  BY <1>1, IdleIs DEF StatesGood
<1>7. SummariesGood /\ RequestsGood /\ RefusalsAreDeserved
  BY <1>1 DEF SummariesGood, RequestsGood, RefusalsAreDeserved, Made
<1>8. RowsGood
  <2>1. \A s \in Seeds : Book!InBook(s) /\ book[s].key \in Seeds
    BY <1>1, SeedAssumption, NamesAssumption, RowIdsAre DEF Book!InBook
  <2>2. \A r \in Book!RowIds : Book!InBook(r) => Given(book[r].body) = FieldNames /\ Settled(book[r].body)
    BY <1>2, <1>3, <1>4 DEF Given, Settled
  <2>3. Recorded = {}
    BY <1>2, <1>4, RowIdsAre DEF Recorded
  <2> QED  BY <2>1, <2>2, <2>3 DEF RowsGood
<1> QED  BY <1>5, <1>6, <1>7, <1>8 DEF ConvInv

(* Steps that change nothing. *)
LEMMA StepStutters ==
  ASSUME ConvInv, UNCHANGED vars
  PROVE  ConvInv'
<1>1. /\ UNCHANGED <<conv, pc, kind, seen, summary, cancelled, expired>>
      /\ UNCHANGED <<book, asked, granted, code>>
  BY DEF vars, chat, history, ledger
<1>2. Kept
  BY <1>1 DEF Kept, Handled, Book!InBook
<1>3. StatesGood' /\ SummariesGood'
  BY <1>1, <1>2, ChatStands
<1>4. /\ \A u \in Updates : asked[u] # None => pc'[u] \in {"posted", "done"}
      /\ cancelled' \subseteq Updates /\ expired' \subseteq Updates /\ conv' \in State
      /\ pc' \in [Updates -> Nodes] /\ kind' \in [Updates -> Kinds \cup {None}]
      /\ seen' \in [Updates -> State] /\ summary' \in [Updates -> Summary \cup {None}]
  BY <1>1 DEF ConvInv, RequestsGood, Typed, TypeOK
<1> QED  BY <1>1, <1>2, <1>3, <1>4, ChatStep DEF ledger

(* Every step of the chat, of the ledger and of time keeps the invariant. *)
LEMMA NextConv == ConvInv /\ [Next]_vars => ConvInv'
<1> SUFFICES ASSUME ConvInv, [Next]_vars PROVE ConvInv'
  OBVIOUS
<1>1. ASSUME NEW u \in Updates, Execute(u) PROVE ConvInv'
  <2>0. CASE Show(u)
    BY <2>0, StepIgnored DEF Show
  <2>1. CASE Registered(u)
    BY <2>1, StepStoresIdle DEF Registered
  <2>2. CASE AskPending(u) \/ Resume(u)
    BY <2>2, StepStoresCarried DEF AskPending, Resume
  <2> QED  BY <1>1, <2>0, <2>1, <2>2, StepRegistration, StepCorrection, StepPost, StepRejected
           DEF Execute
<1>2. ASSUME NEW u \in Updates, Die(u) PROVE ConvInv'
  BY <1>2, StepIgnored DEF Die
<1>3. CASE Finished
  BY <1>3, StepStutters DEF Finished
<1>4. CASE UNCHANGED vars
  BY <1>4, StepStutters
<1> QED  BY <1>1, <1>2, <1>3, <1>4, StepLoad, StepService, StepExpire DEF Next

(* The inductive invariant of a chat. *)
THEOREM ConvInvariant == Spec => []ConvInv
BY InitConv, NextConv, PTL DEF Spec

(* What the chat stores, carries, makes and sends is what it is declared to be. *)
THEOREM ConversationTypes == Spec => []TypeOK
<1>1. ConvInv => TypeOK
  BY DEF ConvInv, Typed
<1> QED  BY <1>1, ConvInvariant, PTL

(* However many updates write the state between a summary, its confirmation    *)
(* and the request, and however often it is retried: a recorded row is, field  *)
(* by field, the summary made under the key it was recorded with.  The theorem *)
(* is about the draft; whether the message showing it arrived is another thing.*)
THEOREM RowsAreSummaries == Spec => []RecordedAsSummarized
<1>1. ASSUME ConvInv, NEW r \in Recorded
      PROVE  LET k == book[r].key
             IN /\ k \in Updates /\ summary[k] # None
                /\ book[r].body = summary[k].body
                /\ IF summary[k].target = None
                   THEN asked[r].kind = "record"
                   ELSE book[summary[k].target].succ = r
  <2>1. /\ r \in Updates /\ asked[r] # None /\ book[r].key = asked[r].key
        /\ book[r].body = asked[r].body
        /\ asked[r].target # None => book[asked[r].target].succ = r
    BY <1>1 DEF ConvInv, RowsGood, Recorded
  <2>2. /\ asked[r].key \in Updates /\ Made(asked[r].key)
        /\ summary[asked[r].key].body = asked[r].body
        /\ summary[asked[r].key].target = asked[r].target
        /\ asked[r].target = None => asked[r].kind = "record"
    <3>1. /\ summary[asked[r].key] = [target |-> asked[r].target, body |-> asked[r].body]
          /\ asked[r].key \in Updates /\ Made(asked[r].key)
          /\ asked[r].kind = "record" <=> asked[r].target = None
      BY <1>1, <2>1, AskedIs
    <3> QED  BY <3>1
  <2> QED  BY <2>1, <2>2 DEF Made
<1>2. ConvInv => RecordedAsSummarized
  BY <1>1 DEF RecordedAsSummarized
<1> QED  BY <1>2, ConvInvariant, PTL

(* A summary is recorded at most once, however often it is confirmed, retried *)
(* or confirmed twice at once.                                                *)
THEOREM SummariesAreRecordedOnce == Spec => []OneRowPerSummary
<1>1. ASSUME ConvInv, NEW r \in Recorded, NEW e \in Recorded, book[r].body = book[e].body
      PROVE  r = e
  <2>1. \A x \in Recorded : /\ x \in Updates /\ asked[x] # None
                            /\ book[x].key = asked[x].key /\ book[x].body = asked[x].body
    BY <1>1 DEF ConvInv, RowsGood, Recorded
  <2>2. \A x \in Recorded : /\ asked[x].key \in Updates /\ Made(asked[x].key)
                            /\ summary[asked[x].key].body = asked[x].body
    <3> SUFFICES ASSUME NEW x \in Recorded
                 PROVE  /\ asked[x].key \in Updates /\ Made(asked[x].key)
                        /\ summary[asked[x].key].body = asked[x].body
      OBVIOUS
    <3>1. /\ summary[asked[x].key] = [target |-> asked[x].target, body |-> asked[x].body]
          /\ asked[x].key \in Updates /\ Made(asked[x].key)
      BY <1>1, <2>1, AskedIs
    <3> QED  BY <3>1
  <2>3. asked[r].key = asked[e].key
    BY <1>1, <2>1, <2>2 DEF ConvInv, SummariesGood
  <2> QED  BY <1>1, <2>1, <2>3 DEF ConvInv, RowsGood
<1>2. ConvInv => OneRowPerSummary
  BY <1>1 DEF OneRowPerSummary
<1> QED  BY <1>2, ConvInvariant, PTL

(* The user is never told that a row is not theirs or does not exist, nor that *)
(* the key was used for something else.                                        *)
THEOREM RefusalsDeserved == Spec => []RefusalsAreDeserved
<1>1. ConvInv => RefusalsAreDeserved
  BY DEF ConvInv
<1> QED  BY <1>1, ConvInvariant, PTL

(* When the user is asked to confirm, the draft has exactly the fields the     *)
(* entry or the chosen scope needs, and a correction has its target.           *)
THEOREM ScopeIsAskedFor == Spec => []AsksForTheScope
<1>1. ASSUME ConvInv, conv.step \in SummarySteps
      PROVE  /\ {f \in DOMAIN NoDraft : conv.draft[f] # None} = ScopeFields(conv.scope)
             /\ conv.key # None
             /\ conv.step \in CorrectionSteps => conv.target # None
  <2>1. /\ Given(conv.draft) = FieldsAt(conv.step, conv.scope) /\ conv.key \in Updates
        /\ conv.step \in TargetSteps => Own(conv.target)
    BY <1>1, StatesHeld DEF Good
  <2>2. FieldsAt(conv.step, conv.scope) = ScopeFields(conv.scope)
    BY <1>1 DEF FieldsAt, SummarySteps
  <2>3. conv.step \in CorrectionSteps => conv.step \in TargetSteps
    BY <1>1 DEF TargetSteps, SummarySteps
  <2>4. conv.key # None /\ (Own(conv.target) => conv.target # None)
    BY <2>1, NamesAssumption, RowIdsAre DEF Own
  <2> QED  BY <2>1, <2>2, <2>3, <2>4, SourcesAreNamed DEF Given
<1>2. ConvInv => AsksForTheScope
  BY <1>1 DEF AsksForTheScope, Processing, SummarySteps
<1> QED  BY <1>2, ConvInvariant, PTL

=============================================================================
