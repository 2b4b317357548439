# monthly-financial-ledger: formal models, checks and proofs

A ledger that two people keep in a Telegram chat. n8n workflows hold the
conversation, a FastAPI service holds the rules, PostgreSQL holds the rows, and
nothing is ever edited: a mistake is corrected by a new row that supersedes the
old one. This directory holds TLA+ models of the parts whose correctness depends
on the order in which things happen, the TLC runs that check them on small
instances, and TLAPS proofs of what matters most for any instance.

## 1. The system

| component | where | its state | its operations |
|---|---|---|---|
| write API | `src/money_ledger/api/{routes,idempotency,dependencies,errors,schemas}.py` | one SQLAlchemy session and transaction per request | `POST /transactions`, `POST /transactions/{id}/corrections`; commit after the handler and before the reply |
| ledger service | `services/ledger_service.py` | none of its own | `record_transaction`, `apply_correction`, `get_balance`, `list_recent_transactions` |
| table `transaction` | `models/transaction.py`, `migrations/versions/0001*`, `0002*` | the rows | CHECK, UNIQUE, FOREIGN KEY; a DELETE trigger that always raises, an UPDATE trigger that lets the correction step through |
| registration workflow | `n8n/workflow-a-registro.json` | conversation state | one execution per Telegram update: read, decide, write, sometimes POST |
| correction workflow | `n8n/workflow-b-correccion.json` | the same state, read again | picker, scope, new fields, confirmation, POST |
| Redis key `mlbot:conv:<chat>` | the workflows' Redis nodes | step, draft, idempotency key, target, list; TTL 1800 s | GET, SET with TTL, DEL |
| parsing and money | `parsing/*.py`, `domain/money.py` | none | text to amount and description, LLM fallback, cents |
| domain rules | `domain/events.py`, `domain/balance.py` | none | sign of an event, balance and its direction |
| reports | `reports/*.py`, `n8n/workflow-reporte-*.json` | none | weekly text, monthly rows and balance, image; two schedules |
| deployment | `deploy/`, `.github/workflows/`, `migrations/env.py` | workflow runs, compose file, schema, container | push, approval, re-run; fetch, pull, migrate, replace, health gate |

How they interact. An update starts an execution of workflow A, which reads the
state from Redis, routes, and either handles the update (*Registro SM*) or calls
workflow B, which reads the state a second time. A confirmation first stores
`PROCESSING` with the idempotency key of the summary, then calls the API. The
answer deletes the state (2xx) or puts the summary back (any error). The API
opens a transaction, looks for the key, parses, calls the service, sums the
balance, commits and replies. Executions run side by side, API requests run side
by side, and only PostgreSQL orders anything.

What is hard about it, and what has to be true:

* **API and service** - requests race for a key, for a row, or for both; a
  transaction may be lost at any statement; a reply may be lost after the
  commit, and the client tries again. A key must be applied at most once, a
  retry must get its row, versions of an entry must form one line, replies must
  be about the request, nobody may wait for ever.
* **Table** - the constraints and triggers should keep the chain of corrections
  sound whatever SQL is run and however sessions interleave.
* **Workflows** - every update is a read-modify-write of one Redis key with no
  lock. Presses come twice, late, from old messages; executions are lost with
  the state left in `PROCESSING`. What is recorded must be the summary that was made
  under its key, once; a conversation must not hang; the documents promise more
  (section 5).
* **Parsing** - an amount comes out of free text by regular expressions and
  checks that lean on each other: a part of a number, a signed one or another
  currency must never be read, and a plain text always.
* **Balance, reports** - the sign of a repayment was once inverted; "today" and
  "last month" are reckoned by three clocks (Lima in the service, UTC in n8n, the
  cron); a monthly report is two statements beside concurrent commits. A repayment
  must settle, a date that was offered must be good, a report must show its month
  and agree with its own balance as far as two statements can.
* **Deployment** - a run may be cut off while its script goes on, be re-run, be
  overtaken by a newer commit. The API must never run on a schema that lacks what
  its image needs, an old script must never undo a new deployment, a green run
  must mean that its image is up.

`PROJECT.json` lists the hazards line by line, with the properties that cover them.

## 2. The modules

| module | what it is |
|---|---|
| `AbstractLedger` | what a client may rely on: a book in which a request is applied in one step, at most once per key, and refused only for a reason the book shows |
| `Ledger` | the write path, one SQL statement per step, any number of concurrent requests |
| `LedgerRefinement` | `Ledger` implements `AbstractLedger` (the book is the committed table) |
| `LedgerInvariant` | the inductive invariant `IInv`, in twelve named parts and `RetryNeverRefused` |
| `LedgerProofs`, `LedgerBalanceProofs`, `LedgerRefinementProofs` | the theorems about `Ledger` |
| `Conversation` | one chat: workflows A and B, Redis, on top of the abstract ledger |
| `ConversationProofs` | the theorems about `Conversation` |
| `AppendOnlyGuard` | the table's constraints and triggers under arbitrary SQL |
| `GuardHistory` | `AppendOnlyGuard` with a note of whether two sessions have ever written side by side |
| `AppendOnlyGuardProofs` | the theorems about both |
| `Reports` | the balance, the weekly and the monthly report, the calendar, on top of the abstract ledger |
| `ReportsProofs` | the theorems about `Reports` |
| `Deploy` | workflow runs, the script on the server, the migration |
| `DeployProofs` | the theorems about `Deploy` |
| `Parsing` | how the amount of a request is read: the deterministic parser, the LLM behind it, the money rules, the error codes |
| `ParsingProofs` | the theorems about `Parsing` |
| `MCLedger`, `MCConversation`, `MCAppendOnlyGuard`, `MCParsing`, `MCReports`, `MCDeploy` | the small instances |

`Ledger` implements `AbstractLedger`; `Conversation` and `Reports` are built on
`AbstractLedger`, and so speak of the real write path as far as a client can see
it. `Parsing` details the refusal that `Ledger` calls `Invalid`; `Reports` details
its dates.

### Ledger

A step is one SQL statement and the Python up to the next one. Under READ
COMMITTED a statement sees what is committed when it starts, so interleaving
these steps gives the interleavings of real requests. `db` is the committed
table, `writes[c]` what request `c` has written and not committed, `lock` the
`FOR UPDATE` locks, `pc[c]` the next statement:

| action | code |
|---|---|
| `Receive`, `Invalid` | request arrives; person, event type, date, text or amount refused |
| `ShortCircuit` | `transaction_replay`, `correction_replay` |
| `InsertRecord`, `ResolveRace` | `record_transaction`: INSERT in its savepoint; the row that won is compared |
| `FirstKeyCheck`, `LockTarget`, `JudgeTarget` | `apply_correction`: key, `FOR UPDATE`, key again and verdict |
| `InsertCorrection`, `FlipTarget` | INSERT of the correction, UPDATE of the target |
| `ReadBalance`, `Commit`, `Deliver` | `_with_balance`, the commit of `get_session`, the reply |
| `Fail` | process, connection or statement lost: rollback; after the commit, only the reply is lost |

The unique index is in the guard of both INSERTs: while another open transaction
has inserted the key the INSERT waits, and what it does then depends on how that
transaction ended. Rows are abstracted: *head* is event type and date (what the
replay check before the parser compares), *body* amount and description.
Deadlock is checked, and says little: `Fail` is possible for every request that is
open. That waits end is what `EveryRequestEnds` says, which assumes nothing of
`Fail`.

The versions of an entry, `LineageIn(db, r)`, are the least set of rows that
contains `r` and the successor of each of its rows (`FollowsCorrections`). A
recursive operator would say the same to TLC and nothing to the prover.
`AppendOnlyGuard!Onward` is defined in the same way.

### Conversation

Each update is an execution with its own program counter and its own copy of the
state (`seen`). `conv` is the Redis key. The body of an entry names the updates
that supplied its event type, text and date, so that mixing two drafts is
visible as a mixed body. `Die` ends an execution anywhere (timeout, restart of
n8n); `Expire` is the TTL; the API call is two steps, `Post` and the answer, and
between them the abstract ledger applies or refuses the request. All of
`Registro SM` and `Correccion SM` is there, one action per branch. A summary takes
two steps, as in the workflows: `StoreSummary` is the SET, from which on the summary
can be confirmed, and `Show` the message, which may fail, or never be sent because
the execution was lost. `summary` is what was made under each key, and says nothing
of what has arrived.

Left out: wording, the other messages, notifications to the other person, updates from strangers
(they reach no node that stores anything), and the calendar: *Hoy*, *Ayer* and a
typed date are "the date that update gave".

Assumed: Telegram's updates start executions in their order; a POST is answered
or times out well before 1800 s (so `Expire` does not fire under an execution
that is calling the API); the picker's five rows are two here, newest first.

### AppendOnlyGuard

Sessions run any INSERT, UPDATE or DELETE. What the model knows of PostgreSQL: an
UPDATE locks its row before the BEFORE trigger; because `superseded_by_id` has a
unique index that lock excludes `FOR KEY SHARE`; the foreign key takes `FOR KEY
SHARE` on the row referred to at the end of the statement and so may wait; the
unique index waits for the other transaction; a failed statement or a deadlock
aborts the transaction (`Abort`). A wait has no action of its own: it is a guard
that does not hold. Session `s` may abort whenever it has written something, so
a deadlock of the database shows as an abort and not as a stuck model.

### Parsing

A text is a sequence of lexemes: runs of digits (all zeros or all nonzero, by
length), runs of letters, blanks, `.`, `,`, `-`, `+`, `S/`, `soles`/`PEN`, a
foreign sign, a foreign word. Texts are not blank, which `TransactionCreate`
refuses. The expressions are given by what they match of such a text: `Readings`
is every number of digits and decimals `_AMOUNT_RE` may take from a position,
with its lookbehind (`Separator` before) and lookahead (`NotGlued`), and `Match`
the greedy choice among them; `SolMarker` and `ForeignMarker` carry the word
boundaries. `Parsed` is `parse_raw_text`, with its checks. Around it a request
goes `ReadText` or `ReadStructured`, then `Validate` or `ExtractorRaises` if
there is an LLM to ask (v1 configures none; the model has both), then `Record`
with `normalize_amount`. A decimal value is its sign and its numbers of digits.
`Ledger` has all of this as the one refusal `Invalid`.

Left out: what the description says, characters that are digits to Unicode only,
and the names of the keys the LLM may not send (`allowed`).

### Reports

`now` is the hour in UTC; Lima is five hours behind. `Ask` makes a request with a
date: one of the workflow's buttons (`limaISO`) or one that was typed; in between
the clock may run, and `Apply` and `Refuse` judge the date by the service's day in
Lima (`Dated`). `Weekly` and `Monthly` are the schedules; `LastMonth` is *Prep
mensual* with its UTC clock. Both put one request per chat on its way, whose
statements `ReadRows` and `ReadBalance` each see what is committed by then, in
`monthly_report`'s order. `Fail` is any node of the workflow or the API that does
not answer; the workflow does not try again. The ledger is `AbstractLedger`, so a
correction and the flip of its target are one step, which is what `Ledger`
implements. `Net` and `Direction` are `compute_balance` and `direction_for` over
the rows `get_balance` selects.

Months are a constant, `FirstDay`: any strictly increasing calendar. The day of
the week is left open (`Weekly` on any day at 19:00). A message of several parts,
the picture and its layout are left out.

### Deploy

`run[c]` is the workflow run of commit `c` as GitHub shows it, `script[c]` the
next command of the script that run started, `schema` the number of migrations in
the database, `container` the commit whose image is the API. `Enter` is the
concurrency group: a newer run replaces the one that waits, never the one in
progress. `CutOff` ends the run (15 minutes without an answer, or a lost
connection) and leaves the script going; a script nobody reads ends at its next
`echo` (`Then`: SIGPIPE or a write error under `set -e`), and `docker rm` and
`compose up` have no `echo` between them. `alembic upgrade head` is two steps,
the revision read and the transaction that moves it on: a second upgrade that
finds the row gone on fails (`StillThere`). `Crash` is a failure of any command or
the loss of the server, `GiveUp` what the script itself reports. The health gate
runs in whatever container is up.

Assumed: an approval with CI and the build takes longer than the seconds a script
that was cut off after its migration needs for `rm` and `up` (`Approve` waits for
those two commands only; nothing is assumed about fetch, pull and migration). One
script per commit at a time: `Rerun` waits for the commit's own script. A migration
is additive: an older image works on a newer schema, which is what the documents
ask of migrations.

## 3. The runs

| run | what it asks | bounds | distinct states |
|---|---|---|---|
| `ledger_safety` | types, exactly once, versions pair up, flips admissible, replies match, retries succeed, balance, append-only, `IInv`, refinement | 3 requests, 1 earlier row, 3 keys, 2 people, 2 heads, 2 bodies | 398 000 |
| `ledger_liveness` | every request that arrives ends | 3 requests, 2 earlier rows, 4 payloads that contend for 2 keys and both rows | 173 000 |
| `conversation` | types, recorded as summarized, one row per summary, refusals, scope | 6 updates, 2 executions at a time, cancellation | 655 000 |
| `processing_ends` | `PROCESSING` ends | 7 updates, 1 execution at a time, all kinds | 48 000 |
| `guard_concurrent` | forks, mutual supersession, append-only, chains of sessions that never overlapped | 2 sessions, 4 ids, 2 data values, 1 row per INSERT | 25 500 |
| `parsing` | numbers read whole, limits, signs, currencies, plain texts | texts of 4 lexemes (6 of fewer kinds), values around every limit | 278 000 |
| `reports` | dates offered, tables and balances, repayments, the month | 2 requests, 1 earlier entry, 2 chats, 4 movements, the night of New Year | 999 000 |
| `deploy` | schema before image, no late script, honest success, every run ends | 4 commits, 2 of them with migrations, 1 unhealthy | 64 000 |
| `session_ends`, `guard_cycle`, `failures_as_documented`, `revert_cannot_be_deployed` | four statements of the repository that the code does not keep | small | |

Why the bounds are enough. Every race in the service is between two requests,
over one key or one row; the third is the retry that comes after, or the
correction of the correction. In `ledger_liveness` a correction that has locked one
row may wait for the key of one that has locked the other, while the third request
waits for a row or a key of either. The thirteen payloads of `MCRequests` pairwise
differ in exactly the fields the code compares (key, author, head, body, target,
omitted fields). A registration takes five updates and a correction of one field
five, so six leaves room for a second confirmation, a cancellation or a stray
button (and seven in `processing_ends`, one at a time); two executions at a time is what two quick presses are. In the
guard, a cycle needs three rows and a fork two referring rows and a successor.
A text needs two lexemes around a number to be glued, signed or grouped, and six
to hold a number in three groups and a word; `ParsingProofs` has every length.
In `reports` the night from 31 December, 19:00 in Lima, to 07:00 has all three
clocks on both sides of midnight, of a month and of a year; months have three days,
since only first and last days matter, and `ReportsProofs` has any calendar. Two
requests are an entry and its correction, or a debt and its repayment, and the
amounts are such that a repayment meets a debt exactly in both directions. In
`deploy` an interference needs a script that was cut off and a run after it; four
commits add a third that replaces a waiting one, and the revert.
Requests and sessions are interchangeable, and symmetry is declared in the
runs without liveness.

Fairness. `Ledger!FairSpec` is weak fairness of each request's own steps: a
thread of the API runs, and PostgreSQL grants a waiting statement what it waits
for. Weak fairness is enough, because a competitor takes the lock or the key at
most once, after which nothing disables the request's next step again.
Nothing is assumed about `Fail`,
`Invalid` or new arrivals. `Conversation!FairSpec` is weak fairness of each
execution, of the API's answer, and of `Expire` (Redis does drop a key nobody
sets); loading further updates is not fair. `Deploy!FairSpec` is weak fairness of
what GitHub does with a run that waits (it starts it when the group is free, and
ends one that nobody approves after 30 days) and of each script: a server that is
up runs the next command, and every command ends, if only by a failure. Pushes,
re-runs, cuts and crashes are not fair.

`guard_concurrent` and `guard_cycle` run under `HistorySpec` of `GuardHistory`,
which only remembers whether two sessions have ever had writes open at once, for
`SerialChainsEnd`; it allows what `AppendOnlyGuard!Next` allows.

## 4. The proofs

`tlapm` checks, for every value of the constants that satisfies
`ConstantsAssumption` and `SeedAssumption` (ids, keys and null values distinct,
a consistent table at the start):

* `Invariant`: `Spec => [](TypeOK /\ IInv)`.
* `RecordedExactlyOnce`, `VersionsFormALine`, `FlipsAreAdmissible`,
  `RepliesMatch`, `RetriesSucceed`, `LedgerIsAppendOnly`, `TypeCorrect`.
* `LedgerImplementsBook`: `Spec => ImplementsAbstractLedger`.

The argument. None of the properties is inductive: `ExactlyOnce` says nothing of
a request that has inserted and not committed. `IInv` adds what holds in
between. A row in flight is the only row under its key, committed or not
(`RowsInFlight`), which is what the unique index gives; a lock belongs to a
correction of that row from `LockTarget` to `Commit` (`LocksOwned`), so a target
that was judged ACTIVE still is when it is flipped (`TargetsHeld`), and the
other row a transaction writes is that target (`OtherWrites`); the row an answer
names is stored or the request's own (`AnswerReady`); a committed row says what
its request asked (`RowsFaithful`), names its successor truly
(`SuccessorsReal`); what a reply or a refusal rested on does not change
(`RepliesRight`, `RefusalsStand`, `SeedsKept`). `RetryNeverRefused` is carried
along, because it is about a pair of requests one of which may have committed at
any moment of the other's. `LedgerProofs` first describes the effect of a commit
(`CommitEffect`) and what every other step leaves alone (`TableUnchanged`,
`OthersUntouched`, `RowsKept`, `FactsKept`), then shows each part of `IInv` kept.
The refinement rests on the same invariant: `Commit` with a row is the abstract
`Record` or `Correct`, `Deliver` is `Accept`, an error is `Refuse` or `Lose`.

`LedgerBalanceProofs` proves `BalancesCountEntriesOnce`: the rows summed for a
reply hold exactly one version of the entry that was answered and of every entry
of the start, and never two of any other. A balance is read before the commit and
is about a table that other requests go on changing, so `BalanceInv` says it of
the table as the request sees it, committed rows and its own (`CountedIn` of
`View(c)`), until it commits, and of `db` afterwards. Each commit extends that
view by one new row, the successor of at most one row, which was ACTIVE and whose
lineage the new row prolongs; the rows counted and what they lead to stay as they
were. That every committed row leads to one ACTIVE row (`OneHead`) goes by the
same induction over the commits.

`AppendOnlyGuardProofs` proves, for any number of sessions, rows and rows per
INSERT, `GuardTypes`, `ChainsDoNotFork` and `CommittedRowsAreKept`. `GuardInv`
says that among the committed rows and all rows in flight no two different rows
name the same successor, that an update in flight still starts from the
committed row it read (its row lock), and that a row in flight without a lock is
new. For INSERTs of one row and a finite table `PairsNeverSupersedeEachOther` adds
`NoMutualSupersession`. Its `PairInv` says that what a session has referred to it
holds or still owes to its foreign key (`ReferencesHeld`), that a held row is
nobody else's (`LocksExclude`), and so that two sessions with one half of a pair
each both still owe their foreign key, and neither can commit (`HalvesWait`).
`SerialChainsAlwaysEnd` is `SerialChainsEnd` for the same: transactions that write
one after the other leave each row with one current version that exists.
`SerialInv` says it of the committed table and of every session's view whose
references are real, because a statement may point at a row that does not exist
until its foreign key is looked at: an INSERT adds an end to a chain or a chain of
its own, an UPDATE ties the end of one chain to a row that was ACTIVE, whose chain
is therefore that row alone.

`ParsingProofs` proves the five properties of the run for texts of any length
(`NumbersAreReadWhole`, `LimitsAgree`, `SignsNeverRead`, `ForeignNeverRead`,
`PlainNeverRefused`). A reading that leaves no digit over is the only number of
the text (`NothingLeftIsWhole`); taking the marks of soles out moves no digit, and a
sign before marks that stand apart stays before the number (`MarkersHoldNoDigits`,
`SignsShow`); a plain text has the whole
number as its greedy match (`PlainParses`). `ReadingInv` then says that a value is
one the parser may return for the text, or one of the LLM that has passed the
money rules, and that whoever went on without a value was refused by the parser.

`ConversationProofs` proves, for any number of updates, executions at a time and
rows of the picker, `ConversationTypes`, `RowsAreSummaries`,
`SummariesAreRecordedOnce`, `RefusalsDeserved` and `ScopeIsAskedFor`. The assumptions
say that updates are numbered in their order, that the rows already there were not
recorded in this chat, and that names of different kinds differ. What makes the
properties hard is that any execution may carry any earlier state and write it
back over a later one. `ConvInv` therefore says the same of the state in Redis and
of every state an execution carries (`Good`): the fields given are those the step
has asked for; the list and the target are rows of the person; and from the
summary on, the key is one under which the summary of exactly this target and these
fields was made. What a summary is made of belongs to the execution that makes it,
which has nothing left to do but send the message (`Handled`). A summary never changes and differs from every other, because a field of it
was said by an update that made no other (`SummariesGood`); what is sent is a summary under its own
key (`RequestsGood`); what is recorded was sent, a key has one row, and a
correction has retired its target (`RowsGood`). An old state written back is a
`Good` one still, since everything `Good` refers to only grows (`Kept`).

`ReportsProofs` proves, on any calendar and for any number of requests and chats,
`TypeCorrect`, `OfferedDatesAreGood`, `TablesShowEntriesOnce`, `TablesAreSummed` and
`ReportsTheLastMonth`, and of the balance, for any finite number of rows at the
start, `BalanceMoves` and `DebtsCanBeSettled`. The invariant says that no row is dated after today and an
ACTIVE one has no successor (`Rows`), that what was offered is no later than today
(`Requested`), and what a report that is under way may hold (`Reading`): its rows are of
its month and exclude each other's corrections, and once the balance is read each
of them is summed there or has been superseded since, because rows are read first.
The balance is a fold of the community modules, whose definition is a function that
is given by its own values on smaller sets. Such a function exists for every finite
set (`AddsExists`), any two of them agree (`AddsAgree`), and any row may be taken out
first (`AddsAny`); each is shown at a minimal set at which it would fail
(`Minimal`, from the library's theorems on well-founded orders). So a row counts
with its own effect (`TotalOfOne`), the rows that count are always finitely many
(`AlwaysFinite`), and a step adds one and takes out at most one (`RecordCounts`,
`CorrectionCounts`).

`DeployProofs` proves, for any history of commits and migrations, `TypeCorrect`,
`SchemaIsEnough`, `ApiIsReplacedOnce` and `SuccessIsReal`. Runs belong to pushed
commits (`Pushed`); a script belongs to a run that is or was followed, and past its
fetch the compose file is no older than its commit (`Working`); past its migration
the schema is enough (`Migrated`); who is about to replace the container is alone,
and one that is followed finds its own container at the gate (`Alone`).

Model-checked only: the three liveness properties `EveryRequestEnds`,
`ProcessingEnds` and `EveryRunEnds` (fairness and ENABLED are out of the prover's
reach), and the four statements of section 5, which are false. Every other property of
every run is the statement of a theorem. The bounds of the runs that remain in the
theorems are `MaxRows = 1` in the last two of `AppendOnlyGuardProofs` (the rows an
INSERT brings, all the program ever does), and that the table is finite there and
the ledger of `Reports` at the start.

## 5. Where the documents and the code part

* `session_ends`: a session that ended is recorded all the same, in two ways.
  CANCELAR during `PROCESSING` answers "Operacion cancelada." and deletes the state
  while the POST goes on; PHASE-2.10 section 13 and
  `docs/block-6-n8n-telegram.md:143` say otherwise. And `PROCESSING` is stored with
  the same TTL as every other step: if the execution is lost, the session expires
  over a recorded entry; PHASE-2.10 section 19 exempts `PROCESSING`. (Without the
  TTL `ProcessingEnds` would fail instead: that is its mutant.)
* `guard_cycle`: the UPDATE trigger alone does not make cycles impossible. Session
  1 supersedes r1 by r3; session 2 has meanwhile updated r2 to r1 (ACTIVE when its
  trigger looked) and waits for r1's key-share lock; session 1 commits and
  updates r3 to r2, still ACTIVE to it. Both commit. Two rows cannot do it
  (`NoMutualSupersession`: the second foreign key waits, and the two deadlock), and
  the service never does, since it points a locked row at a row it has just
  inserted (`FlipIsAdmissible`).
* `failures_as_documented`, likewise two. The foreign words need a word boundary,
  and there is none between a digit and a letter: "50USD taxi" becomes 50 soles,
  where the parser's docstring calls any marker terminal. (`ForeignIsTerminal` is
  what does hold.) And `validate_amount` quantizes before it checks the range:
  `quantize` raises `decimal.InvalidOperation` beyond 26 integer digits, a 500, where
  the resolver's docstring promises `LLMFallbackError`, and `INVALID_AMOUNT` would be
  due on the structured path. v1 has no LLM, and n8n sends texts only.
* `revert_cannot_be_deployed`: `docs/block-8-cicd-deploy.md:315` rolls back by `git
  revert` and the pipeline. When the bad commit had a migration, the image of the
  revert does not know the revision the database is at, `alembic upgrade head`
  fails, and the bad image goes on running. (`SchemaSuffices` is what does hold.)

Not a run: `/corregir` during an unfinished correction restarts without the question
that PHASE-2.10 section 20 wants for both kinds of session (`Router` asks about
registrations only; the model's `AskPending` does as the code).

Nor is it one that a summary can be confirmed without having been seen. The SET comes
before the message, whose node ignores an error, and the execution may be lost in
between. The draft is then recorded by an older CONFIRMAR, or by the reprompt of
`WAITING_CONFIRMATION`, which has the button but not the summary. PHASE-2.10 (lines 171
and 411), `docs/block-6-n8n-telegram.md` (lines 122 and 178) and `n8n/README.md:173`
have the summary shown and then confirmed. The model has these steps, but no message
that arrives: `RecordedAsSummarized` is about the summary that was made.

Nor the signs that a mark of soles hides. `_PEN_RE` takes out a mark between word
boundaries, so that "-PEN35 taxi", "-soles35 taxi" and "-soles. 35 taxi" keep theirs,
no sign stands right before the number, and they become 35 soles, as "50USD taxi" becomes 50.
The model reads them in the same way, and `SignsAreRefused` is about marks that stand
apart.

Nor that `SuccessIsServed` admits a compose file newer than the image: a re-run of
an older commit fetches `origin/main`, and no document says otherwise.

## 6. The plan, and what is not modelled

Planned: that `Ledger` implements `AppendOnlyGuard` too, so that the statements of the
service are among those the constraints and triggers are checked against (today the
link is `FlipIsAdmissible`, which is about one statement of each correction); and the
lemmas about sums, lineages and chains in a form the modules can share.

Not modelled, and why:

* Rendering (`reports/render.py`, `labels.py`), serialization, settings and the
  engine: formatting and wiring, without an order or a state of their own.
* Identity and API key: a lookup and a comparison; a request that fails them never
  reaches the ledger.
* The notification to the other person, which PHASE-2.10 section 17 and
  `docs/block-6-n8n-telegram.md` (lines 137 and 193) promise, and texts of messages: no
  step of the conversation depends on them. A notification may be lost like any other
  message.
* The LLM's content (any answer, in `Parsing`); what CI tests and how an image is
  built (the choice between `Approve` and `Decline`).
* PostgreSQL, Redis, n8n, Telegram, GitHub and Docker themselves, which are
  modelled by what the code relies on.
