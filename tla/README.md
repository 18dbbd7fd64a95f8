# MIAF: a TLA+ verification project

MIAF is a self-hosted accounting application for a person and their small
business: double-entry books, invoices and bills, ingestion of receipts and
bank statements, periodic checks ("heartbeats") that raise alerts, and an agent
that drafts entries. This directory models the parts of it in which the order
of events matters, checks them with TLC and proves the central results with
TLAPS. Paths below are relative to `src/apps/api/app/` unless they start with
`src/`.

## The system

One FastAPI process serves every request with an async SQLAlchemy session on
PostgreSQL. `api/deps.py:get_db` gives each request one transaction: it commits
when the handler returns and rolls back when it raises. Three facts about it
shape nearly every module here:

* the isolation level is PostgreSQL's default, READ COMMITTED, so that every
  statement sees what was committed before that statement;
* no handler asks for a lock (`with_for_update` never occurs) and no row has a
  version column, so a handler's checks are on what its session read, and its
  writes go by primary key to whatever the row is by then. An UPDATE that is
  flushed early does lock its row until the commit, which is what makes the
  limit of `Telegram` exact;
* the session writes only the columns a handler changed from what it had read.

A `scheduler` process posts to the API at intervals; `worker` is an empty loop;
the web interface and the Telegram webhook are clients.

### Inventory

| component | state | operations | what is hard | what makes it correct |
|---|---|---|---|---|
| journal (`services/journal.py`) | `journal_entries`, `journal_lines` | create, update, delete drafts; post; void by reversal | reads and writes of overlapping requests; two-row void | booked entries balance, are frozen; one mirror-image reversal per voided entry |
| ledger, trial balance (`services/ledger.py`, `trial_balance.py`) | none | reports | which statuses count | the columns agree; voiding cancels exactly |
| business documents (`services/business.py`) | invoices, bills, their lines, payments | create, update, post, pay | stale totals, overlapping posts and payments, entries voided behind the document's back | documents agree with control accounts; payments settle; no unclaimed entry |
| audit (`services/audit.py`) | `audit_logs` | append, in the transaction of the change | rollback of one without the other | the trail accounts for every entry |
| heartbeat (`services/heartbeat.py`, `src/services/scheduler`) | `heartbeat_runs`, `alerts`, `generated_reports` | sweep of all tenants, manual run, dismiss, resolve | overlapping sweeps, a failure half-way, client time-outs, deduplication by a read | few duplicates, no alerts of failed runs, lasting conditions are reported |
| documents (`services/ingestion.py`) | attachments, extractions, candidates, source transactions, object store | upload, extract, rerun, answer, approve, reject | rerun after approval, approve ∥ approve, same bytes twice, orphaned objects | one draft per approved document, review state agrees with the draft |
| CSV import (`services/ingestion.py`) | import batches, source transactions | import with deduplication by hash, automatic drafts | bad rows, re-import, overlapping imports | a transaction is imported once, none is lost unnoticed |
| classifier, memory (`services/classifier.py`, `services/memory.py`) | memories, merchant rules among them | suggest, learn from a posted correction, create, update, expire, delete | rules forgotten and learned again, two rules for a merchant | what was taught last is what is suggested |
| sign-in (`services/auth.py`, `api/auth.py`) | users, tenants, sessions, login attempts | register the first owner, login, logout, revoke all, expire, clean up | two first owners, what a refusal rolls back, sessions that end under a request | one workspace; expired sessions are refused |
| invites, entities (`services/invite.py`, `services/entities.py`) | invite tokens, entities, members | create or refresh, accept, revoke; create an entity | accept ∥ revoke, accept ∥ create an entity, a renewed invite | one account per invite, of the right workspace, in every entity of it |
| accounts (`services/accounts.py`) | chart of accounts | create, update, delete, seed | deletion ∥ first use, cycles of parents | references hold and have the right type |
| personal finance (`services/personal.py`) | budgets, goals, debts, investment accounts, snapshots | create, update, delete, replace lines; reports | overlapping replacement, periods changed by halves, links to deleted accounts | lines of one payload, periods in order |
| reports (`services/business.py`, `services/personal.py`) | net-worth snapshots | statements, dashboards, aging, net worth, spending | dates on boundaries, voids and back-dated entries | the reports agree with one another and with the documents |
| agent (`services/agent.py`) | audit rows; through its tools drafts, documents, payments, budgets, goals, debts, memories | a turn: confirmed calls, planned calls | a tool that fails half-way, a replayed confirmation, overlapping turns that read the same rows | nothing sensitive without confirmation, nothing unlogged; one at a time, nothing twice |
| telegram (`services/telegram.py`) | links, messages | inbound message, relink | redelivered and overlapping updates | each draft has its reply; the limit holds |
| skills, settings, OCR, document AI | single rows, calculations | insert, update, compute | little | formulas |

`PROJECT.json` lists the components with their files, and every hazard with the
line where it bites and the properties that would catch it.

## Modules

```
Sums                    the sum of a finite family of integers
JournalLines            lines of an entry and their arithmetic
  Ledger                what the books promise (abstract)
    Journal             the journal endpoints as overlapping requests
    Billing             invoices, bills and payments over the same ledger
    LedgerProofs        theorems about Ledger, and lemmas on sums
      BillingProofs       theorems about Billing
Settlement              what an invoice or bill promises (abstract), which
                        Billing INSTANCEs with its refinement mapping
Reports                 statements, dashboards, aging and net worth over the books
Heartbeat               sweeps, alerts and the scheduler
Documents               from an uploaded file to a draft entry
Imports                 bank rows, drafts, learned rules and memories
Access                  registration, sessions, invites, entities and members
Personal                the chart of accounts and the plans over it
Agent                   turns of the assistant and their tools
  Telegram              deliveries of the webhook, beside and through Agent
AccessProofs, DocumentsProofs, ImportsProofs
                        theorems about the module of that name
BooksProofs             about Journal, and about the Reports over the books
PlanningProofs          about Personal, and about the alerts of Heartbeat
TelegramProofs          about Telegram, and about Agent, which it extends
MCJournal, MCBilling, MCReports, MCHeartbeat, MCDocuments, MCImports,
MCAccess, MCPersonal, MCTelegram                 small instances for TLC
```

### JournalLines

Lines are `[account, debit, credit]` in whole cents. A request inserts all the
lines it writes together and a later one deletes them together, so the lines of
an entry are kept in batches: `lines[q]` is what request `q` inserted and nobody
has deleted. This is what makes two overlapping edits distinguishable: each
deletes only the batches it read. `Balanced` is `_validate_balance`, `Reversed`
the swap of `void_entry`, `Net` what a report adds up.

### Ledger

The abstract specification. Its only variable is the table of committed
entries. `WriteDraft` may do anything to a draft; `Book` needs a balanced draft;
`Enter` writes and books in one commit (invoices, bills and payments do);
`Reverse` voids an entry and books its mirror image. The sums of the reports are
defined here (`Counted`, `AccountBalance`): voided entries are counted beside
their reversals, as the query in `trial_balance.py:55-59` does. (The docstring at
line 36 of that file says voided entries are excluded; `VoidingUndoes` is the
property that would fail if the query did what the docstring says.)

### Journal

| action | code |
|---|---|
| `ReadEntry`, `ReadLines` | `get_entry_scoped`: the row, then `selectinload` of the lines as a second statement |
| `Create`, `Update`, `Delete`, `Post`, `Void` | the service function, the audit row and the commit of the endpoint |
| `Rollback` | a refusal, a database error, a crash or a lost connection before the commit |

Between the reads and the final step of a request any other request may run
from beginning to end. The flush and the commit of a request are one step: its
writes are by primary key, take row locks, and become visible together. A
write to a row that has disappeared fails (`Exists(e)` in `Update`, `Post`,
`Void`), except deleting it again, which SQLAlchemy only warns about. A request
uses its own identity for the entry it inserts, hence `entries[r]`. Several
accounts, links to other entries, dates and texts are data that no property
tells apart; `header` stands for the columns of the row that an update may
change. The merchant rule that `post_entry` may learn is in `Imports`.

`Serial` is an assumption about the environment, not about the code: when it is
TRUE, no two requests in flight name the same entry. The promise of `Ledger`
holds under it, and `journal_unbalanced` shows that it does not hold without
it: two voids book two reversals, and a delete removes a posted entry, in the same
way. What survives without it is checked by `journal_overlap`.

### Billing

`docs` are invoices and bills, `payments` the payments, `entries` the ledger they
book into. `Column` is the session's habit of writing only what the handler
changed from what it read; `Rewritten`, `Posted` and `PaidDown` are the column
assignments of update, post and payment. Posting and paying call
`create_draft` and `post_entry` on a new entry in the same transaction, which is
`EnterPosted`: since post validates the lines the same session just inserted, no
other request can come between. `VoidEntry` is the journal's void endpoint
applied to such an entry, in one step (its interleavings are Journal's), to see
what the documents make of it. One revenue and one expense account; the lines
one request inserts on a document are kept as their sum; customers, vendors,
numbers and dates are left out; journal entries typed by hand on the control
accounts are excluded by leaving the other journal endpoints out.

`Settled` is an instance of `Settlement`, the promise of one document: once
issued it asks for a fixed sum, payments take exactly their amount off it and
never more than is outstanding, and it is settled when nothing is left. The
refinement mapping reads `phase`, `outstanding` and `received` off the status, the
balance and the payments. Two payments that overlap break it (both are checked
against the balance before either), so it is stated, like `ControlAgrees` and
`EveryEntryClaimed`, for `Serial`: no two requests in flight name the same document.
That the entries billing books keep the promise of `Ledger` needs no such
assumption, and is proved for either value of `Serial`.

### Reports

The books grow in single steps (their interleavings are the subject of Journal
and Billing): `BookByHand`, `CreateDocument`, `PostDocument` and `Pay` for
invoices and bills, `VoidEntry` for any entry, each dated on any day, in any order.
`TakeSnapshot` stores the net worth of a day, over an earlier one of that day.
The reports are operators on the books, one for each: `BalanceSheet`,
`IncomeStatement`, `CashFlow`, `GrossProfit`, `MonthOf` (the dashboards), `NetWorth`,
`Spending`, `Dependency`, `Aging`, `Billed`. In the run the chart has one account of
every kind that a report tells apart, and users book by hand on the receivable
account, so that the premise of `SubledgersAgree` (`OwnControls`) is false in some states and true in others.
A bill may be charged to any asset account (`Other`), the receivable one included. A reader is one step, so that a dashboard whose
statements see different commits is not covered.

### Heartbeat

`Sweep` is the list of heartbeats `run-defaults` runs, tenant by tenant, in one
transaction. `Tick` starts a sweep, whether or not an earlier one is still in
progress: the scheduler's `urlopen` gives up after 15 s and the API does not
notice. `RunManually` runs one. `Check` is one heartbeat: its condition is
evaluated, `_create_alert` looks for an open alert of the same key among the
rows it can see (committed ones and its own), and inserts. `Fail` and `RollBack`
are the `except` branches of `run_heartbeat` and `get_db`; `Crash` is the
process dying. `ReadAlert` and `CloseAlert` are the two halves of
`update_alert_status`. The conditions themselves are data that changes at will
(`Change`): a heartbeat makes one check here, where the real ones make up to a
dozen in a row. Resolving and dismissing are one way of closing;
`resolved_at` and generated reports are not modelled.

Identities of rows are reused once an alert is closed and nobody is about to
write it, so that infinitely many alerts fit in a finite table;
`AlertRowsAssumption` says how many rows suffice for `Check` never to run out.

### Documents

A request stores a file or opens an attachment, reads (`Read`: the copies of its
bytes, the extraction, the candidate), and ends in one of the handlers.

| action | code |
|---|---|
| `Store`, `Open` | `store_attachment`; the look-up of the attachment in the other handlers |
| `Extract` | `_extract_document_from_attachment`, for an upload or a rerun: a new source transaction, the extraction written or overwritten, the candidate upserted |
| `Classify`, `Answer` | `classify_document`; `answer_document_question`, which ends in it |
| `Approve`, `Reject` | `approve_candidate` (`create_draft_from_document` leads there too), `reject_document` |

`Upsert` is `_upsert_extraction_candidate`. It suggests an existing candidate
again whatever its status, which is what `documents_redrafted` turns into two
drafts of one transaction. An item is `[amount, open]`: whether an amount is known and which
blocking questions are open. The amount of the item and the amount of its source
transaction are kept apart, because the code does: an answer to `missing_amount`
changes only the former, and approval uses the latter. `twins <= 1` in `Extract`
is `scalar_one_or_none` raising on a third upload of the same bytes. Which item,
status and answers come out is a choice; document types that never become
candidates, and accounts the classifier does not find, make no candidate in the
code and are left out here, as are audit rows and the deletion of the draft by
the journal. The approval endpoint that names a candidate directly reads the
candidate before the extraction; the model has one order, and one step for all
three reads, which is exact as long as requests on the same bytes do not overlap:
`Serial`, an assumption about the environment under which these properties are
checked. The code does nothing to ensure it: two overlapping reruns insert two
candidates, and two overlapping uploads of one file flag neither.

### Imports

| action | code |
|---|---|
| `BeginImport`, `Import` | `import_csv_transactions`: what every row comes to given the transactions before it (`ImportRow`), with the draft of an outflow, and the commit of transactions, drafts and the batch |
| `Correct`, `Discard`, `BeginPost`, `Post` | `update_draft`, `delete_draft` and `post_entry` of an imported draft, with the rule the post learns (`Learned`) |
| `CreateMemory`, `BeginUpdateMemory`, `UpdateMemory`, `ExpireMemory`, `DeleteMemory` | the memory endpoints |
| `ToggleCash` | account 1110 comes and goes, which makes drafts fail |

`LearnedIsUsed` has two halves, after `Teaches`. A post with another account than
the keywords' teaches it, and the next import of the merchant uses it. A post with
the keywords' account returns early (`services/journal.py:362-363`) and leaves the
suggestions as they were: when an earlier rule had suggested another account and
the user corrected the draft back, the rule stays and the next import suggests that
account again. `src/docs/INGESTION.md:226-230` says of every corrected and posted
draft that it "creates or updates a merchant rule memory"; the property states what
the code does.

A row is its content hash, its merchant and its direction; `Alike` says whose
rules match, `Keyword` what the built-in keywords say. The order in which the
database returns rules is not determined, so the first match is a choice. The
answer of an endpoint that lists memories validates `keywords` as a list
(`schemas/memory.py:46`), and learned rules store an object
(`classifier.py:136-139`): updating such a memory without replacing the keywords
fails and is rolled back (`Shown`), and the list itself fails as long as a learned
rule is in it, contrary to `src/docs/user-guide.md:94`.

### Access

`Tick` is the clock. `BeginRegisterOwner`, `BeginInvite`, `BeginAccept`,
`BeginRevoke` and `BeginCreateEntity` are the checks of a handler, the action
without `Begin` its writes and commit; `Login`, `Logout`, `RevokeAll` and `Cleanup`
(the scheduler's job) read nothing another request changes and are one step. A
request made with a session updates its `last_seen_at`, so that it fails if the
session row is gone (`Seen`), but goes on if the session has only expired. `EmailFree`
is the unique constraint on users. A refused login is rolled back with the row
that would have counted it, so the window of failures is always empty.

### Personal

Accounts have a type and a parent, plans (budgets, goals, debts, investment
accounts) a period, a link and lines. `Restricted` and `Unlinked` are the foreign
keys' ON DELETE RESTRICT and SET NULL; `Merged` is the session's habit of writing
only the columns that changed; `Replaced` deletes the lines that were read and
inserts those of the payload, each marked with its replacement (`rev`). `Use` and
`Release` are journal entries coming to name an account and ceasing to. The
foreign keys keep every reference whatever overlaps (`LinksHold`); periods and
lines are only kept one request at a time. Longer cycles of parents are possible
even then: the code looks no further than the account itself.

### Agent and Telegram

A turn executes the calls the user confirmed and then those that were planned;
what is planned is a choice among `Turns`. Each call is blocked by the policy, held
for confirmation, executed, blocked by an error of the tool, or ends the turn with
an error of another sort (`Escaped`), which rolls it back; each leaves a row in
`books.log` but in the last case. A tool that fails after a write keeps the write:
the customer or vendor of a document that was refused.

| action | code |
|---|---|
| `BeginChat`; `Receive`, `Lock` | `_check_agent_rate_limit` and the prompt row, of a chat or of a message that is answered by the assistant |
| `ReadForChat`, `ReadForAnswer` | what the tools of the turn read of entries, documents, customers and vendors, without locks: `saw[c]` |
| `Chat`, the second case of `Answer` | the rest of `AgentService.chat`: checks on `saw[c]` and on the turn's own changes, writes, and the commit |
| `BeginPostEntry`, `BeginPostDocument`, `UserPosts` | users who post entries and documents themselves |

Other requests may begin and commit between any two of these, so that what a tool
checks may be stale when it is written: two turns that both read an entry as a
draft both log a completed post, and two that both read a balance both record a
payment (`services/business.py:585-589`). A write is made of the row as it is by then
(`Written`: only the columns that changed); what a unique constraint decides, the
number of a document, a customer's name or a budget, is decided by what is committed
by then. The reads of one turn are one step, and so are its writes with its
commit. Budgets, goals, debts and memories are written without a confirmation: the
tool for debts passes `confirmed=True` itself (`services/agent.py:1096`) to a
service that asks for it, and the one for memories the consent
(`services/agent.py:1161`).

So the properties have two parts. However turns overlap, whatever the assistant
wrote is in the log by exactly one completed call, an entry it posted by one at
least, nothing that asks for a confirmation went without, a party is billed once a
day, and a balance is between zero and the total. Only one request at a time is an
entry posted by one call, and do the payments and the balance of a document add up
to its total, however often a confirmation is sent again. `PromptsBounded` says by
how much overlapping turns exceed the limit of prompts.

A delivery of the webhook reads the link (`Receive`), updates its `last_seen_at`,
which locks the row, counts the messages of the last minute (`Lock`), and ends in
`Answer`, `LimitReply` or `Refuse`, or in `Rollback`, after which the update may be
delivered again: `Receive` is always possible, since nothing looks for the message
id. The limit of a minute is exact thanks to that lock; the mode was read before
it, so that a switch of the mode by an overlapping delivery may be lost. Texts
are what the handler makes of them; the pages of summaries are one (`"photo"`). A
delivery is taken to wait for the row for less than a minute, and a link to name a
business entity that has its accounts (without one, an expense would be a question to the
assistant).

## Runs

| run | instance | shows |
|---|---|---|
| `journal_overlap` | 5 requests, any interleaving | what the code keeps by itself: `VoidedHasReversal`, `AuditExplains`, `UneditedBooksBalance` |
| `journal_serial` | 6 requests, one at a time per entry | `BooksBalance`, `ReversalMirrors`, `FrozenOnceBooked`, `VoidingUndoes`, and refinement of `Ledger` (`LedgerSpec`) |
| `journal_unbalanced` | 3 requests, any interleaving | violated: update ∥ post leaves an unbalanced posted entry |
| `billing` | 6 requests, one at a time per document | refinement of `Ledger` (`LedgerSpec`) and of `Settlement` (`ImplementsSettlement`), `ControlAgrees`, `EveryEntryClaimed` |
| `heartbeat` | 2 slots, 2 users, 2 heartbeats for one alert, 1 failure | `AlertsBounded`, and the liveness property `Reported` |
| `documents_serial` | 5 requests, one file and its copies, 2 questions, one request at a time per file | `DuplicatesSurfaced`, `OneCandidate`, `ApprovedIsDrafted` |
| `documents_redrafted` | 4 requests, one file | violated: approve, classify, approve drafts one transaction twice |
| `access` | 2 emails, 2 clients, 2 session tokens, 2 workspaces, 4 entities, 2 invites, one tick | `AcceptedOnce` however requests overlap; one at a time, `InvitesAndOwnersSettled`, `JoinsEveryEntity` |
| `personal` | 2 clients, 3 accounts, one plan of any kind, 2 replacements of its lines | `LinksHold` however requests overlap; one at a time, `PeriodsInOrder`, `LinesOfOnePayload` |
| `reports` | 3 entries, 1 document, 1 snapshot, days in three months, one on a month's end | `ReportsAgree`, `SubledgersAgree`, `SnapshotsExplained` |
| `imports` | 2 clients, 5 rows of 2 similar merchants, 2 imports, 3 transactions, 2 memories | `PendingExplained` however requests overlap; one at a time, `ImportedOnce`, `OneRuleEach`, `LearnedIsUsed` |
| `assistant` | 2 clients, chats and messages, limits of 1, 2 days, 3 rows of messages and calls | however turns and deliveries overlap, `PromptsBounded`, `RepliesExplained` and the first parts of `ActionsExplained` and `ConfirmationsBounded`; one at a time, the rest of these two |

Most runs also check the type invariant of their module; those of `reports`, `imports`
and `assistant` leave it out (that of the assistant is proved). Where a module has a variable `serial`, it is chosen at the start of a
behaviour, so that one run shows what the code keeps by itself and what only when
clients wait for one another; the code does nothing to make them.

**Bounds.** In Journal, Billing and Documents a request is used once, so the number
of requests bounds the length of every behaviour. Five let the journal create an
entry, overlap two operations on it and follow up with two more (the anomalies
found need three); six let billing create, edit, post, pay twice and void; five let a
document be uploaded, approved, extracted again and approved again, or three
copies of one file be uploaded with two operations to spare. Payloads are a
balanced and an unbalanced pair of lines; amounts are 1 and 2, so that a document
can be paid in parts, exactly, or not at all. One file is enough for documents,
since handlers relate only attachments with the same bytes. In the other modules
clients come back, and what bounds a behaviour is the size of the tables: two
clients for an overlap; two invites and two emails for a second invite of one
person and for one to each; a plan whose lines are replaced twice; days on
and after the end of a month, and late enough for the last bucket of aging; files
with a row twice, a row that cannot be read and an inflow; two memories for two
rules that may disagree. `MaxRows` of `assistant` counts messages and calls
together. The heartbeat instance is bounded in space but not in time: behaviours
are infinite, with at most `MaxFailures` failures. What is interchangeable is
declared symmetric in the runs that check safety; the liveness run uses no symmetry.
`CHECK_DEADLOCK FALSE` in all but the heartbeat run: when every bound is reached,
the system rests.

**Fairness.** Only `Heartbeat` states any: the scheduler's interval job fires
every five minutes and catches every error of the previous call
(`src/services/scheduler/scheduler/main.py`), so a tick that can start does
(`WF` on `Tick`); a coroutine that was started is driven to its end (`WF` on
`RunStep`). Manual runs leave one slot free (`Reserved`), since the API takes on
any number of requests and manual runs cannot keep a tick from starting.
Nothing is assumed of users, of the conditions, or that a failure ever occurs.

Each property of a passing run has a mutant: an operator defined just before the
one it replaces, with a bug that code could plausibly have, under which TLC must
find the property violated.

## Proofs

TLAPS proves these for every number of requests, clients and rows, every chart of
accounts, all payloads, files and turns, and, for the reports, all days and lengths of
months. Where a theorem says "one at a time" it
has `Serial` as a hypothesis, or the property has `serial` as its premise; the others
hold however requests overlap.

| module | theorem | says |
|---|---|---|
| `LedgerProofs` | `LedgerSafe`, `LedgerFrozen`, `LedgerVoidingUndoes` | the abstract ledger balances, its booked entries are frozen, voiding takes out of every account balance what the entry had moved |
| `BooksProofs` | `JournalSafe`, `JournalImplementsLedger`, `JournalFreezes`, `JournalVoidingUndoes` | one at a time: `BooksBalance`, `ReversalMirrors`, `LedgerSpec`, `FrozenOnceBooked`, `VoidingUndoes` |
| | `JournalOverlapSafe` | `TypeOK`, `VoidedHasReversal`, `AuditExplains`, `UneditedBooksBalance` |
| | `ReportsStatementsAgree`, `ReportsSubledgersAgree`, `ReportsSnapshotsExplained` | `ReportsAgree`, `SubledgersAgree`, `SnapshotsExplained`, `ReportsTypeOK` |
| `BillingProofs` | `BillingSafe`, `BillingImplementsLedger`, `BillingFreezes` | `TypeOK`, `BooksBalance`, `LedgerSpec`, `FrozenOnceBooked` |
| | `BillingClaimsEntries`, `BillingSettles`, `BillingControlAgrees` | one at a time: `EveryEntryClaimed`, `ImplementsSettlement`, `ControlAgrees` |
| `ImportsProofs` | `ImportsSafe`, `LearnedIsUsedNext` | `TypeOK`, `PendingExplained`; one at a time, `ImportedOnce`, `OneRuleEach`, `LearnedIsUsed` |
| `AccessProofs` | `AccessSafe`, `AcceptingJoinsEveryEntity` | `TypeOK`, `AcceptedOnce`; one at a time, `InvitesAndOwnersSettled`, `JoinsEveryEntity` |
| `PlanningProofs` | `PersonalSafe` | `TypeOK`, `LinksHold`; one at a time, `PeriodsInOrder`, `LinesOfOnePayload` |
| | `HeartbeatSafe` | `HeartbeatTypeOK`, `AlertsBounded` |
| `DocumentsProofs` | `DocumentsTyped`, `DocumentsSafe` | `TypeOK`; one at a time, `DuplicatesSurfaced`, `OneCandidate`, `ApprovedIsDrafted` |
| `TelegramProofs` | `TelegramTyped`, `AgentExplained`, `PromptsLimited`, `RepliesHold` | `TypeOK`, `PromptsBounded`, `RepliesExplained`, and `ActionsExplained` and `ConfirmationsBounded`, whose parts on a second post and on payments are for one at a time |

### The arguments

**Ledger.** `LedgerInv` has, beside the properties, `LinksMatchStatus`: without it a
draft that names an entry could be booked. That swapping the sides of every line
swaps the two totals, and that a new term adds itself to a sum, are inductions;
the lemmas on sums argue by a least counterexample, over finite sets or over the
length of a sequence, from the library's `WFMin`. `AccountBalance` of every account
then moves by `Net` of the reversal, which is minus that of the entry.

**Journal.** One at a time, `SerialInv` says that what a request has read is still
what the table says (`ReadsCurrent`), because nobody else has the entry in hand
(`OneAtATime`), and that an identity that has not committed names no row
(`NoIdReuse`). Each action then maps to an action of `Ledger` or to a stutter.
With overlaps, `OverlapInv` says how far a read may be out of date (`ReadsLag`): a
reversal was never a draft, so that no request may delete one, and what was read
as booked is booked or gone; while nothing was edited, the lines read are those
of the entry.

**Billing.** An entry that a document or a payment books is validated by the
session that wrote it, so that stale reads may book it twice but never out of
balance: this is the whole of `BillingInv`. One at a time, `SerialInv` adds that reads
are current and that documents and payments name what was booked for them; paying
then takes the amount off `due` and off the control account in one step.
`BillingControlAgrees` has the hypothesis `Expense # Receivable`: a bill may be charged
to any asset account, 1200 included (`business.py:451`, `business.py:521`), and then
that account no longer says what customers owe. TLC refutes the property in a chart
where the two are one.

**Reports.** Every report is a sum over the entries, each adding up another part of
them, so the proofs are about one sum, `Moves(accounts, from, to)`. What an entry of
two lines moves into assets and expenses it moves into liabilities, equity and
income (`EntryBalances`); term by term this is `BooksBalanced`, a balance sheet that balances.
`PeriodsAdd` cuts the time in two: a day is before the cut or after it, on the cut
itself before. That the months until a day add up (`MonthsTotal`) and that rows add up
to their totals (`PartsTotal`) exchange the order of a double sum (`SumsExchanged`), after
which each entry is in one month (`OneMonth`, from the arithmetic of `MonthStart`) and
each side of it in one row (`OnePart`).

`ReportsAgree` needs only the types. `SnapshotsExplained` is inductive with them: a new
entry adds the same term to both sides (`TotalGrows`, `SinceGrows`), and since a void only
adds its reversal and both statuses count, nothing that was summed changes.
`SubledgersInv` says of every document how its status, balance and entries belong
together, and of the books, as long as `OwnControls` holds, that a control account
has what its documents still ask for (`Agrees`). `OwnControls` is no invariant; but it
held before every step after which it holds (`OwnBefore`), as a voided entry stays
voided. Each document is in one bucket (`AgingAddsUp`).

**Imports.** `BankRows` is the invariant behind `PendingExplained`: a transaction is
matched if and only if one entry names it, and it names a batch whose counts
cover its rows. What one import adds is a recursion over the rows of its file; `Tallied`
is true of the progress after every row, by a least row after which it would not
be (`ImportedTallied`), and `ImportLeaves` joins it with what is there. An import that
overlaps another only appends, so the invariant does not depend on what was read.
One at a time, `SerialInv` says that reads are current: then no row of the file that
was in the table is added, none twice (`ImportRowDistinct`), and the rule a post
rewrites is the only one of its merchant. `PostTeaches` follows the rule that is
inserted, rewritten or revived into `Matching`.

**Access.** Users, invites and entities are never deleted, so that what a request
names is there when it writes (`UsersLast`, `NamedRowsLast`), and `AcceptedOnce` rests
on the unique email alone. One at a time, what a request checked still holds when
it commits: the invite is not revoked, its role and the entities of its workspace
are those that were read.

**Personal.** `ChecksHold` says of each request in flight what is left of its checks:
an account that was found is there or was deleted since, and if it is there it has
its type; the foreign keys decide the rest at the commit. Periods and lines need
`OneAtATime`.

**Heartbeat.** Committed rows no longer tell which request inserted them. `Chargeable`
says that every open alert can be charged to a slot, no two of one key to the
same one and an uncommitted one to the slot that inserted it: a check inserts only
where its slot has no such alert, and a slot whose alert was committed sees it. So
there are at most as many open alerts of a key as slots, and with `AlertRowsAssumption`
there is always a free row.

**Documents.** `DocInv` says that a row bears the identity of a request that has
committed, and that what rows and reads name is there; `CommitKeeps` carries the
reads of a request over the commits of the others. One at a time, `SerialDocInv`
adds that reads are current: then an extraction or a classification finds the
candidate there is, and the copies it counts are those in the table.

**Agent and Telegram.** A turn works on books that are not committed, so the
conditions are operators on any books (`GoodBooks`). `RefsThere` is what makes them
inductive: no row of the log names what is not there yet, so that the row of a call
is the only one that names what it made. What a turn has read is `Within` the books
it writes to, however old it is: rows are never deleted, so a tool that found its
row can write to it. Each tool keeps both; a turn is a recursion over its calls, and
keeps them as long as it goes on, by a least call that would not (`Goes`,
`TurnDoes`). One at a time, `ReadsCurrent` adds that the rows were not changed since
they were read: then a tool posts what is a draft and pays at most what is owed, and
keeps `ExactBooks`, of which `Settles` needs what one more payment adds to a
recursive sum (`PaidAppend`) and `PostsOnce` that no row of the log names a draft's
post. The limit of prompts is kept by counting the turns under way with the prompts
(`PromptsLeft`): a turn may begin while `prompts < Limit`, and at most all clients but
one have begun since then. The limit of a minute is kept by the row of the
link: one delivery holds it (`OneHolder`), and while it does there is room for the
message it will answer (`RoomHeld`).

### What the theorems assume

Only the named `ASSUME`s of the modules, on constants, which TLC evaluates in
the runs: `None` (`Nil`, `NoSnapshot`) is no row and no request; the chart has 1110
and 1200 as assets and 2100 as a liability, days and months are positive and the
days that things are dated finitely many; files are sequences of rows, each of a
known merchant; payloads, amounts and days are what
their types say; requests, slots, users and clients are finitely many, and there
is a client; bounds are naturals; account codes are unique, so that the control
accounts are not each other nor cash or income (`ControlAssumption`).

### What is only model-checked

`Reported` is liveness under fairness, and out of the prover's reach. Every other
property of a passing run is stated by a theorem. The two runs that expect a
violation show that the hypotheses on interleavings are needed.

## Not modelled

Validation failures of every kind are a `Rollback`. Roles and tenancy filters are
modelled in `Access`; elsewhere they are taken to have let the request through.
Not modelled are skills (calculations on their arguments), settings, encryption,
OCR, document AI and Tailscale (wrappers round external programs), the web
interface, customers, vendors, tax rates, reserves and closing periods (inserts
that no operation reads back: closing a period does not keep anybody from
booking in it), generated reports, embeddings, reviews and events of memories.
Some hazards of `PROJECT.json` have no property because the code does
nothing about them and promises nothing: their notes say so.

## Plan

Done: JournalLines, Ledger, Journal, Settlement, Billing, Heartbeat, Documents,
Imports, Access, Personal, Reports, Agent, Telegram, and proofs about each of
them.

What could follow:

1. What survives in Documents when requests on the same bytes overlap, beyond
   the types and references of `DocInv`.
2. Dashboards whose statements are steps of their own in Reports, and what the
   figures of one page may then say of one another.
3. Several subjects per alert type in Heartbeat, and generated reports.
