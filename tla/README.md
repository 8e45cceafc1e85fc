# Verification of wlasny-lepszy-ksef

TLA+ models of the invoicing system in `src/`: a FastAPI application on MySQL that
issues Polish invoices, sends them to KSeF (the national e-invoice system), imports
purchase invoices from it and hands monthly batches to an accounting office.  A
scheduler process, or a cron script, works on a table of jobs beside the web
requests.  The models are checked with TLC on small instances, and the most
important properties are proved with TLAPS for every value of the constants.

## 1. The system

| Part | Code | State | Operations | Correct means |
|---|---|---|---|---|
| Invoice service | `app/services/invoice_service.py` | `invoice`, lines, parties, VAT summary, payloads, events | create, update, approve (generates and sends the XML), retry the send | approved invoices do not change; what was sent is what is on file; a failed send can be retried |
| KSeF service | `app/services/ksef_service.py` | the same rows, `integration_job` | send (live or mock), poll one status, poll a batch | a SENT invoice is polled; its verdict is KSeF's; a finished poll job has delivered it |
| Job queue and scheduler | `app/workers/scheduler.py`, `scripts/run_worker_once.py`, `app/db/models/integration_job.py` | job rows, `scheduler_state` | claim, execute, fail, reschedule, poll batch, synthetic jobs | one process per job; at most `max_attempts` attempts; nothing forgotten |
| Heartbeat and status | `scheduler.py`, `ui/routes.py` (worker status) | `scheduler_state`, `worker_heartbeat` | write per task, 5-second heartbeat, cooldown, widget | a tick is not disturbed; the widget tells what the worker does |
| Accounting | `app/services/accounting_service.py`, `ui/routes.py` | `accounting_batch`, its items, accounting columns of `invoice` | qualify, reject, undo, generate a monthly batch, add, remove, send, settings | an invoice is in at most one batch, counts agree with items, sent batches do not change |
| Purchase import | `app/services/ksef_import_service.py`, `ksef_xml_parser.py` | invoices, parties | fetch a range, import one XML after another | each document is imported once and whole; one party per seller |
| Amounts | `invoice_service.py`, `ksef_xml_parser.py` | lines, totals, VAT summary, FA(3) document | compute, sum, write, parse | totals and document agree; an import reads what was written |
| KSeF client | `app/adapters/ksef/real_client.py` | access token, key caches | authenticate, send in a session, ask a status, fetch | stale tokens and keys are replaced |
| Login | `app/core/security.py`, `ui/routes.py` | failed-login counter, lockout, session nonce | login, TOTP, logout, administration | lockout after the limit; logout ends every session |
| Notifications | `notification_service.py`, `scheduler.py` | `notification_log`, `invoice.notification_status`, a job | create, send, book | a record of a delivery is true; a booking delivers once |
| Board monitor | `github_monitor_service.py`, `discord.py` | board state file | fetch, compare, tell, save | readers of the channel know the saved state |
| Parties, users, REST API, UI forms, PDF, configuration, migrations | `ui/routes.py`, `api/`, `pdf_service.py`, `core/config.py`, `alembic/` | tables | CRUD and rendering | a party in use is not deleted |

How they interact: a web request owns a database session and a transaction.  It
calls the services directly; the services leave rows in `integration_job`; the
scheduler reads them.  There are no other messages: the database is the only shared
state between the web threads, the scheduler daemon and the cron script, except that
the threads of one process also share module-level caches (`scheduler_state`,
the KSeF client).

What is hard here.  (a) Every guard is a check on an unlocked snapshot (InnoDB at
REPEATABLE READ, plain SELECT), so two overlapping requests can both pass it.
(b) The row lock that serialises them is taken only by a flush, and the HTTP call to
KSeF is made while it is held.  (c) An exception rolls the transaction back and a
second one records the failure, while KSeF keeps what it received.  (d) A tick of the
scheduler polls many invoices on one session, commits them job by job, and any
exception counts as a rejection.  (e) Jobs of a tick that dies stay claimed.
(f) The threads of one process share caches and dictionaries without a lock (KSeF
tokens and keys, `scheduler_state`), and two processes share the board's state file.
(g) E-mails and Discord messages go out before the record of them is committed.
(h) Amounts are rounded per line and added up in four places.
`PROJECT.json` lists every such hazard at its line.

## 2. Modules

| Module | Models | Checked by | Proofs |
|---|---|---|---|
| `KsefDispatch` | approve, retry, edit, the poll batch, KSeF | `MCKsefDispatch` with six configurations | `KsefDispatchProofs` |
| `JobQueue` | `integration_job` and several scheduler processes, all job types | `MCJobQueue` | `JobQueueProofs` |
| `JobLifecycle` | abstract specification of one table of jobs | implemented by both modules above | the refinement is proved in both |
| `AccountingBatches` | qualifying invoices, collecting them in batches, sending the batches | `MCAccountingBatches` with two configurations | `AccountingBatchesProofs` |
| `PurchaseImport` | the import loop on one session, parties beside it | `MCPurchaseImport` | `PurchaseImportProofs` |
| `AuthSession` | entering with one account, its nonce, lockout and TOTP | `MCSideBySide` | `AuthSessionProofs` |
| `InvoiceMoney` | amounts from the line to the document and back | `MCSideBySide` with two configurations | `InvoiceMoneyProofs` |
| `Notifications` | e-mails about an invoice, by hand and by the scheduler | `MCSideBySide` | `NotificationsProofs` |
| `BoardMonitor` | the project board, its state file and the channel | `MCSideBySide` | `SideBySideProofs` |
| `WorkerStatus` | tick and heartbeat on `scheduler_state` and one row | `MCSideBySide` | `SideBySideProofs` |
| `KsefClient` | access token and key caches of one process | `MCSideBySide` | `SideBySideProofs` |
| `SideBySide` | the last six together | `MCSideBySide` | `SideBySideProofs` |

### KsefDispatch

State: `invoice` is the committed row (whether `approved_at` is set,
`ksef_status_code`, the reference of the last submission, the KSeF number, and one
value for all the user can edit); `payload` the latest committed KSEF_XML payload;
`sendJobs` the statuses of its SEND_TO_KSEF rows; `pollJob` the POLL_KSEF_STATUS row
of each submission; `ksef` what KSeF itself holds; `request[t]` and `worker[w]` the
uncommitted session of each web thread and scheduler process; `mode` the setting
`ksef_mode`.

| Code | Actions |
|---|---|
| `approve_invoice` (`invoice_service.py:214-360`) | `BeginApprove` (load, guards, XML), `FlushApproval` (line 290), `SendReturns` / `AnswerLost` / `SendRaises`, `CommitSend` (358) or `Reload` (296-299) and `CommitFailure` (352) |
| `retry_ksef_send` (363-456) | `BeginRetry`, `InsertRetryJob` (406), `MarkSent` (`ksef_service.py:69`) or `LockError`, then as above |
| `update_invoice` (152-206) | `BeginEdit`, `CommitEdit` |
| `process_send_to_ksef_job`, `_process_real_send`, `_process_mock_send` | `MarkSent`, the send actions, `CommitSend` |
| `_claim_all_jobs` for poll jobs | `Claim` |
| `process_poll_ksef_status_job`, `process_poll_ksef_status_batch` | `BeginPolling`, `PollAccepted`, `PollPending`, `PollRejected`, `PollFails` |
| the end of `process_all_jobs` | `FinishJob` (one commit per job), `EndTick` |
| death of a thread or process, failed commit, exception out of a tick | `AbortRequest`, `AbortWorker` |
| KSeF | `Decide`, and `Received` inside the send actions |

A request is cut where another actor can come in: the unlocked load, the flush that
takes the row lock, the network call, the commit, and after an exception the
rollback, the second load and the second commit.  Steps between two cuts touch only
the session, which nobody else reads, and are one action.  The locks are InnoDB's:
an UPDATE owns the row until the transaction ends, the insertion of a child row
shares its parent, and two sharers that both want to own it deadlock, whereupon one
flush raises (`LockError`).  The unit of work writes only columns whose value
changed from what it loaded: `Assigned` in the workers, `seen` in `CommitFailure`.

What is abstracted.  The invoice's content is a value, and its XML is that value;
validation passes.  Only the poll jobs are followed through their life here;
SEND_TO_KSEF rows are created finished, and their statuses are enough.  The event
row that the poll handler inserts only shares the invoice's row; it is modelled as
owning it, which adds waiting and removes no write.  The mock client accepts at once:
in mock mode the code records the acceptance itself.

### JobQueue

The whole table with jobs of every type.  `Select` and `CommitClaim` are the two
halves of `_claim_all_jobs` (`FOR UPDATE SKIP LOCKED`, then the commit that releases
the locks); `Start`, `Succeed`, `Raise`, `FailJob`, `RescheduleJob` and
`FailureNotRecorded` are the loop of `process_all_jobs` with its two `except` blocks;
`PollAnswered`, `PollRaises` and `CommitPolled` are the batch at its end; `Abort` is a
process that dies or an exception that leaves the function.  `effects` counts how
often the job's work was done outside the database, where no rollback reaches it.

Two branches of the source cannot be taken and are left out: the POLL_KSEF_STATUS
case of `_execute_job` (line 165; line 323 skips those jobs) and the early return of
SEND_ACCOUNTING_BATCH (line 191 compares an aware with a naive time, so that it raises
instead of rescheduling; that is `Raise`).  `Succeed` does the work and commits in one
step; `Raise` after the work and `Abort` cover a failure between the two.

### JobLifecycle

What the table promises of each job: taken at most `MaxAttempts` times, put back only
if it may be taken again, DONE and FAILED are final, and failed early only by types
that give up early.  Several jobs may move in one step, because one commit covers
several rows.  `JobQueue` implements it with `EarlyFailing <- PollJobs`,
`KsefDispatch` with its poll jobs, all of which may fail early.

### AccountingBatches

State: `invoice` (the accounting columns), `item` (the `accounting_batch_invoice` row
of each invoice; `invoice_id` is unique, so there is at most one), `batch`, `job` (the
waiting SEND_ACCOUNTING_BATCH rows) and `txn[t]`, what an open transaction has loaded
and will write.  `overlaps` is a history variable: it counts the transactions that
began while another was open.

| Code | Actions |
|---|---|
| `qualify_purchase_invoice` (`accounting_service.py:92`), `invoice_reject_accounting`, `update_accounting_status` (45), `invoice_undo_qualify` (`ui/routes.py:1391`) | `BeginQualify`, `BeginReject`, `BeginSetStatus`, `BeginUndo`, then `CommitMark` |
| `generate_monthly_purchase_batch` (137) | `BeginGenerate`, `CommitGenerate` |
| `add_single_invoice_to_batch` (253) | `BeginAdd`, `CommitAdd` |
| `batch_remove_invoice` (`ui/routes.py:2026`) | `BeginRemove`, `CommitRemove`, or `CommitRemoveLast` when the loaded counter says the batch is empty |
| `update_batch_settings` (379) | `BeginSettings`, `CommitSettings` |
| SEND_ACCOUNTING_BATCH (`scheduler.py:184`), `send_accounting_batch_notification` (344) | `BeginSend`, `CommitSend`, or `EndJob` when the comparison of line 191 raises or the batch is gone |
| a refused commit, a death | `Rollback` |

Every handler reads without locks and flushes existing rows only when it commits, so
two steps are enough.  Begin decides and fixes the assignments; Commit writes the
columns that differ from what was loaded (`Keep` marks the others), subject to the
unique index on items and the foreign keys.  `generate` selects its invoices
`FOR UPDATE`, so it reads them as they are at its commit; the batch and its counter
it has read before.  All invoices are of one month.  `Init` also has the databases
that were in use before the migration `20260516_0002` added `send_at`: only an open
batch of theirs can have none, and only such a batch is ever sent.

### PurchaseImport

State: `invoice[n]` is the committed row of each invoice number (its document, its
status, whether its lines were written, the seller's party), `party` the committed
party rows, `importer[w]` a session: the documents still to do, its snapshot, what it
has flushed, and whether a failed flush has left it unusable (`dead`).  The rest is
history: what a loop reported (`imported`, `failed`), what a death interrupted, and
whether sessions were open at once (`crossed`).

| Code | Actions |
|---|---|
| the callers: `ui/routes.py`, `api/routes/purchase_invoices.py`, the scheduler's job, the script | `BeginFetch`, `EndRequest` (session closed) or `EndJob` (committed with the job's row) |
| the loop of `ksef_import_service.py` and its `except` | `SkipKnown`, `RaiseAtOnce`, `Logs`, `Poisons` |
| `import_invoice_xml`, `create_invoice`, `_get_or_create_party` | `StartImport`, `FlushInvoice` / `FlushRaises`, `LinkNewParty` / `LinkParty` / `LinkRefused` / `SellerAmbiguous`, `LinesRaise`, `CommitDraft` |
| the second commit (number and status) | `MarkAccepted` / `FlushRaises` |
| `party_create_submit`, `party_delete` (`ui/routes.py`) | `AddParty`, `BeginDelete`, `CommitDelete` |
| a death | `Die` |

An exception of one document is only logged.  What it had flushed stays in the session
and is published by the commit of the next document; after an error of the database
itself nobody calls `rollback()`, so all later documents of the loop raise.  Both are
in the model, and the properties say what nevertheless holds.

### AuthSession

State: `account` is the `app_user` row (`meta` is its one JSON column with nonce and
last TOTP step, written as a whole), `visit[t]` what an open request has loaded and
will write, `tokens` the nonces of issued session tokens.

| Code | Actions |
|---|---|
| `record_failed_login_attempt` (`core/security.py:33`), from the form, the code step and Basic | `BeginWrongPassword`, `BeginWrongCode`, `BeginReusedCode` |
| `api/dependencies/auth.py` | `BeginBasic` |
| login form, TOTP step, logout (`ui/routes.py`) | `BeginLogin`, `PasswordBeforeCode`, `BeginCode`, `BeginLogout`, `SessionResolves` |
| user administration | `BeginEditUser`, `BeginSetPassword`, `BeginUnlock`, `BeginSetTotp`, `DeleteUser` |
| the commit of each | `CommitVisit`, which writes the columns that differ; `AbandonVisit` |

### InvoiceMoney

`sheet` is the invoice with its stored lines, header totals and VAT summary, `document`
the FA(3) document, `copy` the invoice that an import of it creates.  `Net`, `Vat` and
`Totals` follow `_calculate_line_amounts`, `_recalculate_invoice` and
`_rebuild_vat_summary` (`invoice_service.py:595-683`), `Fa3`
the XML generator, `Parsed` the parser.  `CreateInvoice`, `UpdateLines`, `UpdateOther`,
`Approve` and `ImportDocument` are one transaction each.  `UpdateLines` sums the lines it
replaces, since the loaded collection is not refreshed; that is the run `totals`.

The API takes any decimal number (`schemas/invoice.py:37-53`), and amounts are computed from
what was sent, so a payload counts in units: `One` of them make a quantity of 1, `Grosz` a
grosz, `Point` one per cent.  `Net` rounds up to three times: the product (615), what
the percentage leaves (618), and the difference to the fixed discount (625), which is a
rounding only if the discount is not in whole grosze.  `StoredLine` keeps
quantity and price as the code stores them, cut to six places (570-571; `Quantized`, which
rounds a half to the even place, where a place is `Place` units), and the document's rows
are made from the stored line (902-903).  So a quantity may be stored as 0, which the
validation refuses (`validation_service.py:90`), and a document may tell a
quantity that is not the one that was multiplied.  Not modelled: the 28 significant digits
of Python's `Decimal` context, which amounts of invoices stay below, and the upper limits of
the columns.

### Notifications

A session creates a notification (`BeginCreate`, `CommitCreate`) and sends it
(`BeginSend`, then the mail server, then `CommitSent`), or does both
(`CommitCreateAndSend`).  SEND_BOOKED_NOTIFICATION does the same as one attempt of its
job: `ClaimBooking` .. `DecideBooking`, which reads the status back.  The mail server accepts,
fails, or takes the message and then fails (`MailArrivesAndRaises`).  `blurred` records
that an attempt died, was misinformed, or shared its notification.

### BoardMonitor

`FetchBoard` (one page), `Compare` with the file, `SendMessage` (cut after
`MessageLines` changes) or `MessageLost`, `BeginSave` and `EndSave` (truncate, write) are
the steps of `check_board_changes`; two processes share the file.  `told` is what a
reader of the channel believes.  `missed` holds the issues of which a change was lost.

### WorkerStatus

`tick` walks through `process_all_jobs` and `heart` through `_heartbeat_tick`; both change
`memory` (`scheduler_state`) and write the row through sessions of their own
(`write[th]`), of which only changed columns reach the row.  `Widget` is what the
interface makes of the row.  `finished` is the age of the end of the last tick, which
grows in any phase (`FifteenSecondsPass`); the heartbeat rests only in a cooldown.

### KsefClient

One process has one client (`ksef_service.py:32-37`), and all its threads use it without a
lock.  `users` is the process: the web process, whose requests send (`approve_invoice`,
`invoice_service.py:294`, and `retry_ksef_send`, 410) and fetch, any number of them at once,
or the scheduler's, whose one thread asks for statuses and fetches and never sends,
because SEND_TO_KSEF rows are created in progress or finished.

| Code (`real_client.py`) | Actions |
|---|---|
| `_ensure_authenticated` (206) | `BeginCall`: with a valid access token on to the request, else to the token's key |
| `_get_mf_token_key`, `_get_mf_session_key` (336-352): `if self._der and self._id: return self._der, self._id` | `SeeCertificate`, `SeeKeyId`, `TakeCertificate`, `TakeKeyId`, four reads; then `FetchKey`, `StoreCertificate`, `StoreKeyId` |
| `_rsa_encrypt` (354) of a certificate that has become None: `TypeError` | `NoCertificate` |
| `_authenticate` (216) | `Authenticated`, `AuthenticationRefused` |
| fetch, status | `Requested` |
| `_send_invoice_inner` (86), the session | `WantsSession`, the reads of the session's key, `Sent` |
| `send_invoice` (58), `_invalidate_cached_key` (79-84) | `RetryWithNewKey`, then `EmptyCertificate` and `EmptyKeyId` of the token's key and of the session's, four assignments; `SessionRefused` |
| network, another answer of KSeF, an access token that lapses during the call | `CallFails` |

Each action reads or assigns one attribute, so that any other request can come in between.
`crossed` is history: what other calls did to a call while it was under way, `"emptied"` when
one emptied half of an entry, `"misled"` when one stored half of a replaced key; `rotated` says
that the ministry replaced a key meanwhile, `outdated` that the call began with a replaced
token key in the cache.  Abstracted: the access token and its expiry, assigned one after the
other, are one value (`access`), and a half of a key is a serial number.  Two
requests that both find no client may each make one, of which one is kept; a client that
nobody else uses behaves like a single request after a restart.

### SideBySide

The last six components share no state: they touch different tables, files and
dictionaries, and none calls another.  (The scheduler starts the board monitor and the
notification job, but passes them nothing the models tell apart.)  So their composition
is checked with one of them moving (`part`) and the others at rest in an initial
state: an interleaving of two components leaves each of them in states that it reaches
alone.  `SideBySideProofs` proves the direction that matters: a behaviour of `SideSpec`
is a behaviour of each component's own specification.

## 3. Runs

| Run | Instance | Question |
|---|---|---|
| `race` | 1 invoice, 2 requests, 1 worker, 2 contents, 2 submissions, 2 attempts, 1 death, both modes | do the locks and the commits keep the invariants under every overlap? |
| `serial` | 2 invoices, 1 request, 1 worker, 2 submissions, 1 death, both modes | what do the guards promise when requests do not overlap? two invoices share a poll batch |
| `fair` | 1 invoice, 2 requests, 1 worker, 3 attempts, fairness | does polling end, does every request end? |
| `jobqueue` | 2 processes, 2 poll jobs, 1 other job, 2 attempts, 1 death, fairness | exclusive claims, bounded work, refinement, every job ends |
| `forward` | 2 requests | refutes README.md:514: a failed overlapping approval takes SENT back to QUEUED |
| `edit` | 2 requests | refutes `invoice_service.py:161`: an edit commits after the approval |
| `giveup` | 1 request, fairness, nobody dies | refutes README.md:140: polling stops before KSeF has decided |
| `batches` | 2 invoices, 2 batches, 2 transactions, 1 overlap at any point, an invoice enters a batch at most twice | which agreement of invoices, items, counters and batches holds? |
| `batchsent` | 1 invoice, 1 transaction at a time, fairness | refutes README.md:39: a generated batch is not sent |
| `import` | 2 sessions (1 the scheduler's), 3 documents of 2 sellers and 2 numbers, 1 with a bad line, 1 party by hand, 1 death, fairness | what is on file, complete or half done, and why; every import ends |
| `sidebyside` | the six components, 2 actors each | what each promises under its overlaps, losses and deaths |
| `totals` | the same, its amounts | refutes README.md:120: an update of the lines leaves the totals one edit behind |

Properties of `race`.  `SendsAreExclusive`: never two requests inside the send of one
invoice.  `SentIsPolled`: a SENT invoice has a poll job of its own reference that has
not succeeded.  `VerdictIsKsefs`: KSeF numbers and refusals on file are KSeF's, about
a document of that invoice.  `DoneJobDelivered`: a poll job is DONE only when the
invoice has its number, although one session serves the batch and the jobs are
committed one by one.  `QueuedCanBeRetried`: the failure path leaves everything the
guards of a retry ask for.  `ImplementsLifecycle`: the poll jobs implement
`JobLifecycle`.  Properties of `serial`, which fail when requests overlap (runs
`forward` and `edit` show how): `SentIsOnFile`, `StatusMovesForward`.

Properties of `batches`.  `MembershipAgrees`, under any overlap: an invoice that names
a batch has its item there, and no item outlives its batch.  Its converse is false
under overlap: a removal that was loaded before another removal and a new add clears
the column and leaves the new item, after which the invoice can enter no batch.
`SerialBooksBalance`: until two transactions overlap, `item_count` is the number of
items, and invoices and items agree; so no batch with invoices is deleted as empty.
`SentWhole`: until then a batch becomes SENT together with every invoice in it.  These two
are promises of sequences of operations: the code does lose counts when they overlap, and an
invoice added during a send is in a sent batch unsent.

Properties of `import`.  `AcceptedIsWhole`: an invoice that counts as received has its
lines and the document of its number, although commits also publish what failed
documents left behind.  `ReportedIsOnFile`: a reported document stays on file.
`LeftoversHaveACause`: a draft that nobody completes is the trace of a death or of a
logged failure.  `OnePartyPerSeller` and `PartyKept` hold until sessions overlap, through
failed documents, deaths and deletions in sequence: the look-up of a seller and the check
before a deletion read snapshots, so that two sessions can make two parties of one seller and
a deletion can take a link that has just been made.  `ImportsEnd`.

Properties of `sidebyside`.  `NonceNeverReturns`: a replaced nonce never becomes current
again, although every request writes back metadata it loaded earlier.  `Lockout`: while
the account is open, at most two wrong answers have been taken, or `n + n(n+1)/2` once
`n` requests overlap and lose counts: five for the run's two.  `CodeUsedOnce`: until two
requests overlap, one session is opened per stored time step; the code itself is accepted
twice at the border of two steps, because the clock is read a second time.
`LinesRounded`: the net of a line is off by at most half a grosz for each rounding it went
through (`Roundings`, one to three), its VAT by half a grosz.  `HeaderMatchesSummary`,
`DocumentBalances` and `CopyKeepsAmounts` relate line, header, summary, document and
re-import, with the exceptions the code has, which are named in the properties.
Those of `CopyKeepsAmounts` (`TellsAll`): a discount, reverse charge, a rate that its `P_12` does not tell,
a code that `P12_MAP` does not know, and a quantity or a price sent with more than six
places, for which the copy's amounts do differ (0.3333333333 x 1 000 000 is 333 333.33 on
the invoice and 333 333.00 in the copy).
`DeliveryIsRecordedTruly`: no record claims an e-mail that did not arrive, and the job
mails twice only for a reason.  `ReadersAreUpToDate`: what a pass saves it has told, except
of issues whose last change fell to a loss or a death, which the code does not mend.
`GapsAreRaced`: the two gaps of the status (a tick that dies of an emptied list, a
cooldown without results) need the heartbeat to act on an outdated phase.
`RefusalsHaveACause`: a key that was replaced between two calls costs no send, whatever the
requests of the process read, store and empty at the same time.  A call is refused only if a
key was replaced during it, another call emptied the cache or stored a replaced key
meanwhile, or it kept the token's replaced key when its access token lapsed; and only
an emptied cache leaves it without a certificate.

Bounds.  Two requests are enough for every pair of overlapping requests on a row, and
a third can only repeat what a pair does, since a row has one owner.  Two submissions
allow a duplicate and an older poll job that is decided after a newer one.  Two
attempts are one that asks KSeF and one that gives up (three under fairness, so that
a job is put back twice).  `MaxAborts = 1` lets a death happen at any point; the
invariants do not depend on how many.  The constants `MaxSubmissions` and
`MaxAborts` exist only to make the state space finite: KSeF receives no further
document once `MaxSubmissions` are in, while `SendRaises` remains possible.
`CHECK_DEADLOCK FALSE` is set because users may stop and every job may be finished.
In `batches` one overlap (`MaxOverlaps`) shows every pair of transactions that can
meet, in every state that transactions in sequence lead to, and what follows in
sequence afterwards; two overlaps, without the API's own statuses, were checked as well
and show nothing else.  Two batches and `MaxItems = 2` let an invoice be removed and enter
another batch, two invoices let a batch keep one.
The API may set any accounting status; `batches` lets it set `qualified` with either
answer (`ApiStatuses`), which no handler of the interface does to a rejected invoice.
Requests, or invoices, are symmetric in `race`, `serial`, `forward`, `edit` and `batches`, the
requests of the client and of the login in `sidebyside` (3.2 million states, the largest run);
the other runs, the liveness ones among them, use no symmetry.
In `import` two documents of one seller let a failure be followed by a commit that
publishes its rows, and two with one number let sessions collide on the unique index;
six party ids are more than can be created.  `MaxFetches = 2`: one fetch each, or two in
sequence on one session.  In `sidebyside` two actors show every overlapping pair;
`MaxClock = 2` and `MaxNonces = 3` allow a second login and a reuse of a code after a
logout in between; the
payloads of `MCPayloads` meet every branch of the amounts and a half at each of the three
roundings, and four of them lose digits when they are stored, one down to 0; two lines share a
VAT group or not; `MaxRotations = 1` replaces each key once, at any point of two calls and with
a call before and after, and a second replacement only repeats the first; `PageSize = 1` and
`MessageLines = 1` make the second issue fall off the page and out of the message.
The proofs of section 4 carry every safety property of the passing runs beyond these bounds.

Fairness (`Fairness` in both modules).  A request that has begun and a tick that has
begun run on; whoever waits for a row gets it although others keep coming, because
InnoDB queues waiters (strong fairness in `KsefDispatch`; `JobQueue` has no waiting,
and weak fairness is enough).  A NEW job is claimed eventually: the interval trigger
fires for ever (`scheduler.py:418-425`) and the backoff is at most 300 s (43-45), but
in between the job may be held back or all processes busy, hence strong fairness.
KSeF decides every document.  In `AccountingBatches` the scheduler takes up every job
that waits and finishes the send it has begun.  In `PurchaseImport` a session that has begun
runs on, and one that waits for a row is refused at the latest when the lock times out
(`ImportFairness`, weak: an importer always has a step of its own, and none of them takes
a document up again).  Nothing is assumed of users, except in `PollingEnds`:
they do not keep requests on an invoice overlapping for ever (`UsersPause`).  A
death excuses the liveness properties: nothing reads `locked_at`, so jobs of a dead
tick stay PROCESSING (`scheduler.py:149-151`).

Every property also has a mutant: an operator beside the definition it replaces,
with a plausible mistake, under which TLC finds the property violated.

## 4. Proofs

`KsefDispatchProofs` and `JobQueueProofs` prove, for every number of invoices,
requests, workers, contents, submissions and attempts, and from the assumptions
`BoundsAssumption`, `ModesAssumption`, `NoneAssumption` and `QueueAssumption` only:
type correctness, every invariant of the runs `race`, `serial` and `jobqueue`, and that both
specifications implement `JobLifecycle`.  `AccountingBatchesProofs` proves every property
of the run `batches`, for any finite set of invoices, any transactions, overlaps and
bounds, from `BatchesAssumption`.

None of the invariants of `KsefDispatch` is inductive alone.  `IInv` adds
- `RequestsOK`: what a request at each point has loaded, and that one that holds a
  reference holds KSeF's latest answer to its own document, not yet on file;
- `JobsOK`: a poll job exists exactly for a reference that some request committed;
- `HeldOK`: the jobs in a worker's batch are PROCESSING and in nobody else's hands,
  and a result waiting to be committed agrees with KSeF's verdict;
- `WritesOK`: what a worker's session has yet to write is a verdict of KSeF on that
  invoice, and every accepted job still to be finished has its number among the
  writes or already on file: this carries `DoneJobDelivered` over the first commit of
  a batch, which writes all invoices while the other jobs are still PROCESSING;
- `SnapshotOK`: a status the worker's snapshot shows as ACCEPTED or REJECTED really
  was reached, so leaving an unchanged column unwritten loses no verdict.

`SentIsOnFile`, `StatusMovesForward` and `NoEditAfterApproval` fail when two requests on
one invoice overlap, which is what `forward` and `edit` show.  They are proved of every
behaviour in which none do, `Spec /\ []OneRequestPerInvoice`: any number of requests about different
invoices, any workers, any deaths.  A single request thread, as in `serial`, always
behaves like that (`OneThreadIsSerial`).  The inductive invariant is `SerialOK`, on top of `IInv`:
- `LoadedOK`: what a request has loaded is still what the row says (`Current`), so that
  the guards it passed without a lock still hold when it commits;
- `DraftsOK`: an invoice that was never approved has no reference, and a reference has a
  document at KSeF;
- `PollsOK`, `TurnsOK`, `PolledOnce`: a poll job is about the reference its invoice carries,
  and the invoice is SENT as long as the job waits, is in a batch or has a pending result;
- `FreshOK`: a worker's unsaved write is for a SENT invoice whose job it has just polled,
  which is why no worker takes a status back.

Workers are not restricted: they may overlap each other and any request.

`IInv` of `JobQueue` says which jobs a process at each point holds (`HeldOK`), what
their rows say (`WaitingOK`, `PolledOK`), and counts the work against the attempts
(`WorkOK`), with `ClaimsAreExclusive`.  The refinement theorems use `IInv` to show that a step maps
to a step of `JobLifecycle` or leaves the jobs alone.

For `AccountingBatches`, `IInv` adds to the types and `MembershipAgrees` what a removal
knows (`Current`): the item it will delete is the invoice's present one or an older
one, and while it is the present one an invoice that was loaded without a batch still
has none.  That is what keeps a stale removal from deleting an item under an invoice
that names its batch.  Item ids make it inductive: an invoice enters a batch only with
a new id (`Aging`).  For the properties of sequences without overlap, `SerialOK` says
that at most one transaction is open (`Alone`), that what it has loaded is what the
tables hold (`Exact`), and that the books balance (`Books`); each commit is a small
computation with cardinalities (`PutBooks`, `RemovesAlone`).

`PurchaseImportProofs` proves every invariant of the run `import`, for any documents,
numbers, sellers, parties and sessions, from `ImportAssumption`.  `IInv` says, of a session,
that the rows it has flushed are of its own documents and its own numbers, that nobody
else has flushed the same number (the unique index), and that the row it is about to
mark is the committed draft of the document in hand, whose lines are there; of the
tables, that drafts have one of the three causes.  Until sessions overlap, the
snapshot of the one that is open equals the tables.

`AuthSessionProofs`, from `AuthAssumption`: `IInv` adds `NoncesOK` (a request about to replace
the nonce writes one that was never current and that no other request is about to
write), `StepsOK` (the stored step is the last one a session was opened with) and
`CountsOK` (the counter is at least the number of wrong answers).  They give
`NonceNeverReturns`, `CodeUsedOnce`, and the lockout of requests in sequence.  For requests
that overlap, `LostOK` counts what can still be lost.  The counter goes back to `k + 1`
only when a request that has loaded `k` commits, and at three the account is locked, so
only those that have loaded 0 or 1 and wait to commit matter (`Waiting(0)`,
`Waiting(1)`).  Each of the former sets the counter back to 1, after which all the others
may load that: `Room(a)` is twice what `a` of them still allow.  `LostOK` bounds the
wrong answers taken so far plus what the waiting ones have room for, and `LockedInTime`
follows for any number of requests; the run's five is the case of two.

`InvoiceMoneyProofs` proves the four properties of the amounts for any payloads, scale and
number of lines, from `MoneyAssumption`, which says of a payload only that its numbers are
whole in the units they are counted in.  `HalfUpOff` bounds one rounding for every dividend and
divisor, `HalfUpExact` says that a whole number of grosze is not rounded at all, `ThreeRoundings`
bounds the sequence product, percentage, difference, and `StoredLineRounded` gives the
bound of a stored line, where a rounding that does not take place costs nothing.  The rest are sums.  The library's induction theorems take
an operator, which the provers cannot instantiate, so induction over a finite set is
stated with the set of the subsets that have the property (`SubsetsFirst`, `OneByOne`), and
proved from the library's minimum of a well-founded relation (`LeastNumber`).  The library's
sum is a recursive function under a CHOOSE; `AddsOnce` and `SumUnfolds` show that it exists
and is unique, `SumRemove` that its order does not matter, and the other lemmas split a
sum by a partition of the lines (`SumApart`, `SumByGroup`).  `SummaryAddsUp` adds the groups of
the VAT summary up to the header, `DocumentAddsUp` the P_13 and P_14 fields to P_15: the
codes partition the lines among the fields, and the exempt ones have no VAT.
`ReadBack` shows that a line whose code and rate survive P_12 and whose quantity and price
survive their storing is calculated to the same amounts by the importer, from what
`ParsedIs` says the importer reads.  The inductive invariant `MoneyInv` says that the stored lines are
lines of allowed payloads, that header and summary agree, that the document is
the one of the approved sheet and the copy the one of the document.

`NotificationsProofs`, from `NotifyAssumption`: `NotifyInv` says that a sender who was told
"sent" is right (`SendersKnow`), counts deliveries against attempts (`Counted`), and,
while nothing is blurred, that the job's notification is its own (`JobAlone`) and its stage
tells how many e-mails it has delivered (`JobStage`).

`SideBySideProofs` proves the promise of the client for any number of requests, all of which
may send at once.  `ClientInv` speaks of calls that `Expects` the current key: those to which
nothing was done meanwhile, and which either found no replaced key of the token or have
emptied the session's key themselves.  Such a call meets only the current key in the cache,
however half of an entry it is (`CacheRight`), and has only halves of it in hand
(`PairRight`); and what it has seen there stays unless another call empties it
(`NothingVanishes`), which is why both halves are there when it uses them.  `CrossedKeeps` and
`CacheStep` show that a store or an emptying by another call keeps this or counts as a
crossing.  The module also proves the promise of
the status (`StatusInv`: unless raced, the heartbeat is off while the tick has a list,
and its open write changes no list), and of the board (`BoardInv`: what a reader
believes follows the process at work from the file it compares with to the file it
saves).  `EachAlone` then shows that side by side each component behaves as it does
alone, and `SidePromises` carries the theorems about it to `SideSpec`.

Only model-checked: the liveness properties `PollingEnds`, `RequestsEnd`, `JobsEnd` and
`ImportsEnd`, since fairness and ENABLED are out of the prover's reach.
Every safety property of a passing run is stated by a theorem.

## 5. Findings

1. `forward`: the failure handlers store QUEUED over whatever the other request
   committed (`invoice_service.py:304`, `415`).
2. `edit`: the guard of `update_invoice` reads a snapshot (160) and nothing is
   locked or checked again at the commit (204).
3. `giveup`: any exception of a status request ends the polling
   (`ksef_service.py:280-285`, `scheduler.py:372-377`), and a SENT invoice cannot be retried.
4. `totals`: an update that replaces the lines adds up the lines it has replaced, because
   the loaded collection is not refreshed before the sums are made; the next update of
   anything repairs it.
5. `batchsent`: every batch the code creates has a date, and the job that would send
   it raises when it compares that date (`scheduler.py:191`).

Facts that the models rest on and no document contradicts: after a failed send no NEW
job exists (`invoice_service.py:322-338`), so only a user's retry sends a QUEUED invoice;
tax rates 4 and 3 have no field in the document and their net counts as reverse charge
there; a token key that KSeF refuses stays cached until the process restarts.

## 6. Not modelled, and what is left

Not modelled: texts (XML and PDF layout, e-mail wording, the XSD check, which is a
library), listing and filtering, request parsing and role checks, configuration and
migrations: they keep no state that another step reads.  The mock client has no state of
its own; its outcomes are in `KsefDispatch`.  Editing a party's columns, deactivating one
and assigning roles change nothing the properties tell apart.  The synthetic jobs of the
scheduler and the Discord summary of a tick only report.

What is left: two open monthly batches of one period, against the comment of
`accounting_service.py:147`; and what an accountant may do to a batch that has been sent.
