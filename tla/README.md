# Forge ERP in TLA+

A verification development for the Go backend of Forge ERP (`src/backend`).
It models how concurrent HTTP requests, background workers, event handlers,
repeated calls and crashes interleave over PostgreSQL: in the general ledger,
the stock ledger and customer billing in full detail, and in most of the
packages around them one by one. TLC checks the models on small instances;
TLAPS proves most of the invariants the runs check for every instance.

## 1. The system

The backend is one Go process (more may run beside it) in front of one
PostgreSQL database. Every package under `internal/` follows one pattern:

    HTTP handler -> Service (optional, opens a transaction) -> PGStore -> SQL

Isolation is READ COMMITTED everywhere. Nothing is cached between requests, so
the concurrency of the system is the concurrency of its SQL statements, and
what matters is *which statements share a transaction* and *which rows or
advisory locks they hold*. Two helpers decide that.

* `platform.TxEntity` (`platform/rls.go:27`) opens a transaction, commits when
  its function returns nil and rolls back otherwise.
* `platform.JoinTx` (`platform/dbtx.go:32`) lets a store method be atomic by
  itself or join its caller. Given the pool it opens a transaction and `finish`
  commits or rolls back. Given a transaction it joins it, and `finish` is
  `func(error) error { return nil }`. Nearly every caller writes
  `return finish(err)`, so **a joined method turns its own refusals into
  success**. SQL errors still abort the transaction; refusals decided in Go
  (locked year, insufficient stock, overpayment) do not.

The methods that use `JoinTx` are `catalog.AppendMovement`, `sales.CreateDoc`,
`UpdateDocLines` and `RecordPayment`, `finance.PostEntry` and the bank transfer,
`procurement.CreateDoc` and `RecordPayment`, and a loan repayment in `members`.
They are called joined by year-end close, payroll, expense payout, asset
depreciation and disposal, SEPA, member loans, till checkout and production;
they are called with the pool by stock transfers, shipments, receptions, till
returns and the plain handlers. Both cases are in the models.

A second pattern is as frequent. A row is read in one statement, judged in Go,
and written in another with `WHERE row_version = $n`; there is no transaction
around the two, and the version is all that stands between a decision and its
effect. Every package also has a `MemoryStore`, where one mutex makes the two a
single step, and it is against that store that the handler tests run.

### Components

| component (`internal/...`) | state | what makes it hard | what makes it correct | modules |
|---|---|---|---|---|
| `finance` ledger | entries with a hash chain per entity, fiscal years, close log, posting rows | posters race for the chain head, closes race with posts, a crash between an entry and its posting row | one unforked, verifiable chain; nothing posted into a closed year; lock and log agree | `Ledger` |
| `finance` bank accounts | account rows by reference, statements | imports overlap, wait for each other's references and deadlock | every reference once, transfers even | `Bank` |
| `finance`, `reporting` reports | none; several statements without a snapshot | what is read moves between two statements | a report is of some moment, or bracketed by two | `Reports` |
| `hr` payroll | runs, lines | two posters; PostEntry's refusal is lost in the join | a booked run is posted, once | `Ledger` |
| `hr` expense claims | claim, lines, entry, event | payout races with payout, cancellation and new lines | booked and announced once | `Claims` |
| `platform/trigger` | outbox rows, locks of the relays | a relay publishes before it marks, and dies | at least once, more often only after an abort | `Outbox` |
| `platform/cron` | jobs, runs, advisory lock | two leaders, a tick that rolls back work that is done, pruning | one run per due time; the newest runs stay | `Scheduler` |
| `agenda` reminders | events, advisory lock | the daemon and the dispatch endpoint | a reminder goes out once | `Reminders` |
| `catalog` stock | level rows, movement ledger | lost updates, first row of a cell, deadlocks | level = sum of movements, never below zero | `Stock` |
| `stocktransfer`, shipments, receptions | document status | one movement per line, each its own transaction, then the flip | finished means every line moved | `Stock` |
| `pos` | session, sales, offline queue | replay, retry and crash; returns in several transactions; the Z report | the queue tells what was rung; bounded returns | `Stock`, `Till` |
| `manufacturing` | orders, operations, workstations | racing completions, new schedules and cancellations; bookings read unlocked | delivered once; shares make the whole; overload flagged | `Stock`, `Workshop`, `Planning` |
| `sales` | invoices, credit notes, payments, allocations, counters | unlocked balances, checks without a transaction | references gapless, money conserved, paid means covered | `Billing` |
| `procurement` | supplier invoices, payments, counter | as sales; a leaked transaction | numbers gapless, paid means allocated | `Supplies` |
| `payments` | attempts, webhook notices | repeated, reordered notices against refunds | announced once, truthfully | `Gateway` |
| `members` loans | loan, schedule, entries | a series of statements with the entry first | a repaid loan has collected its principal | `Loans` |
| `assets` | schedule, asset, entries | versions, year locks, disposal while a period is posted | schedule and ledger agree | `Depreciation` |
| `booking`, `events` | reservations, registrations | seats are counted and then taken | overbooking is bounded by the racers | `Reservations` |
| 19 packages with a status and a version (`services`, `hr`, `sepa`, `kb`, ...) | 33 kinds of rows | check and write are two statements | legal moves only; as atomic as the in-memory stores | `Lifecycles`, `RowsInMemory` |
| `documentsvc` | object storage, version rows, current pointer; folder tree | three writes without a transaction; moves that pass each other | one line of history; no cycle without a race | `Files`, `Folders` |
| `mailing` | campaign, recipients, opt-outs | racing expansions and senders, crash after a mail | mailed once; opt-outs last | `Campaigns` |
| `dataio` | rows of four contexts | lines committed one by one; pages by OFFSET while rows move | the report is true; an export misses only what moved | `Exchange` |
| `identity` OAuth vault | a token per owner | the provider forgets a token before its successor is stored | a stored token is usable | `Vault` |
| HTTP interface, 335 handlers | one row, calls on the wire | lost, late and repeated calls, a crash before the event | one effect where something guards it; true answers | `Calls`, `Handlers` |
| process start (`cmd/api`) | migrations, seeds | replicas of different builds start, race and die | a process serves on the schema it embeds | `Boot` |

PROJECT.json lists every component with what is left out of it, and every hazard
at its line with the properties that would catch it going wrong.

Components interact by calls inside a transaction (payroll, depreciation and
claims -> ledger, checkout -> sales and catalog, production -> catalog), by
shared rows (level rows, counter rows, the entity's advisory lock), and by
events: a sales status change publishes `sales.document.status`, whose
subscriber in `cmd/api/main.go:293` calls the auto-poster; its errors are logged
only, and the operator can trigger the same posting over HTTP.

## 2. The modules

| module | models | proofs |
|---|---|---|
| `Books` | pure functions of the ledger: `Entry.Validate`, `Chain`, `VerifyChain`, `TrialBalance`, `BuildClosingLines` | |
| `Ledger` | the ledger of one entity, with payroll runs and fiscal years | `LedgerProofs` |
| `LedgerPromise` | what the ledger promises its readers, without locks or hashes | refinement proved in `LedgerProofs` |
| `Stock` | level rows, the movement ledger and the four workflows over them | `StockProofs` |
| `Billing` | invoices, credit notes, payments and credits of one entity | `BillingProofs` |
| `RowRules`, `Lifecycles` | the transition, edit and child tables of 33 kinds of rows, and the PostgreSQL stores that apply them | `OperationsProofs` |
| `RowsInMemory` | the same calls on the in-memory stores, atomic | refinement proved in `OperationsProofs` |
| `Reservations`, `Till`, `Gateway` | one component each; `MCOperations` composes them with `Lifecycles` and those of the next row | `OperationsProofs` |
| `Loans`, `Depreciation`, `Supplies`, `Bank`, `Reports` | one component each, those whose amounts must add up | `MoneyProofs`; `OperationsProofs` for `Reports` |
| `Reminders`, `Scheduler`, `Boot` | the daemons and the start of the process | `WorkersProofs` |
| `Outbox`, `Claims` | the relay, and the expense claims that stage its events; `MCWorkers` composes these with the daemons | `WorkersProofs` |
| `Planning`, `Workshop`, `Files`, `Folders`, `Campaigns`, `Exchange`, `Vault` | one component each | `BackofficeProofs` |
| `Calls`, `TradeHandlers`, `OfficeHandlers`, `Handlers` | a call over the wire, and what each handler makes of a second one; `MCBackoffice` composes these | `BackofficeProofs` |
| `MCLedger`, `MCStock`, `MCBilling`, `MCWorkers`, `MCOperations`, `MCBackoffice` | the instances TLC checks | |
| `Sums` | none of the code: facts about sums and folds, with an induction over finite sets | cited by the proofs |

They share one style. A constant set `Reqs` or `Requests` stands for concurrent
requests; `pc[r]` is the SQL statement request `r` runs next and `"idle"` between
requests; `work[r]` (or variables of its own in the older modules) holds the Go
locals that survive from one statement to the next. **One action is one SQL
statement that reads or locks what another request may change**, together with
the Go code up to the next one. Statements after the last such read are taken
with the COMMIT, since READ COMMITTED shows them to nobody earlier. `Crash(r)`
is the death of the process, connection or context at any statement; it rolls
the open transaction back and frees its locks. History variables (`said`,
`moved`, `notices`, `mailed`, ...) remember what has left the database: sent
messages, published events, goods.

### Ledger

`entries` is the committed `ferp_entries` of one entity in id order; `fiscal` and
`trail` are the fiscal years and their close log; `postings` maps an invoice to
its entry; `runs` is payroll status; `chainLock` is the holder of
`pg_advisory_xact_lock(hashtext('ferp_entries'), entity)`.

| action | code |
|---|---|
| `RequestPost` ... `InsertEntry`, `InsertConflict` | `PGStore.PostEntry`, `finance/store.go:176-231`: advisory lock, year check, chain head, insert with its two unique constraints |
| `FindPosting`, `LoadInvoice`, `RecordPosting` | `Poster.PostValidated`, `finance/autopost.go:213-280`: the entry commits before its posting row |
| `RequestRun`, `ClaimRun` | `PayrollService.Post`, `hr/payroll_service.go:42`: flip by row version, then a joined PostEntry |
| `ReadYear`, `ReadTrial`, `CommitReopen` | `Service.CloseYear` and `ReopenYear`, `finance/service.go:80-167`: the year and trial balance are read before the lock |
| `CheckYear` | the disjunct for runs is the joined `finish`: the run commits without an entry |
| `MoveInvoice`, `CreateFiscalYear` | the sales side and the fiscal-year handler |

Hashes are modelled without collisions: the hash of a chain is the sequence of
the hashed contents. The contents are what `Chain` writes to SHA-256 (journal,
reference, date, legs, not the memo). An account book is a set of accounts with a
type; legs are signed amounts per account.

### Stock

A *cell* is a product in a warehouse. `level`/`known` are the committed level
rows; `booked` is the opening quantity plus all committed movements and
`moved[d][i]` counts the movements of line `i` of document `d`: together, the
movement ledger. `holder` is the row lock (or the uncommitted insert) of a cell,
`counter` the invoice counter row that serializes sales.

`LockLevel` is `SELECT ... FOR UPDATE` (which locks nothing when there is no
row), `WriteOwn`/`WriteJoined` the guard, insert and upsert of
`AppendMovement` (`catalog/store.go:148-184`), `RefuseOwn`/`RefuseJoined` its
refusal in the two transaction modes. `Joined(d)` tells which workflow is in
which mode. `Check` is the unlocked availability check of checkout and
production, `FinishDirect`, `CommitJoined` and `RollbackJoined` the ends of the
workflows. `Deadlocked`/`AbortDeadlocked` model PostgreSQL's deadlock detector,
which is external to the repository.

### Billing

`status`, `total`, `version` are `ferp_documents`; `payments`, `paid`, `credited`
the payments, allocations and credit allocations; `nextRef` and `counter` the
month's counter row and its holder.

| action | code |
|---|---|
| `BeginMove`, `WriteMove` | `PGStore.SetStatus`, `sales/store.go:179-198` with the transition table `documents/kernel.go:73` |
| `Edit` | `UpdateDocLines`, `sales/store.go:202-244`, one step because it locks the row first |
| `BeginPay`, `ReadGross`, `ReadPaid`, `TakeRef`, `CommitPayment` | `RecordPayment`, `sales/store.go:246-318`, with `AllocateAcross` (`sales/domain.go:131`) taken one invoice at a time |
| `BeginClone`, `CreateNote` | `Handler.CreateCreditNote`, `sales/handler.go:331` |
| `BeginCredit` ... `CreditApply` | `ApplyCredit` and `InvoiceBalance`, `sales/store.go:320-367`, four statements without a transaction |

The steps of a payment after the counter are one action: payments of a month
queue on the counter row, an edit waits for the KEY SHARE lock that the foreign
key of an allocation takes on the invoice, and a status change that waits for
the row comes after the COMMIT (it is not stopped by it: payments leave
`row_version` alone). `Supplies` has the same shape for supplier payments.

### Rows

`Lifecycles` is one row of one of 33 kinds. Each kind has its own create, move and
edit action, named after its store method and mapped to it; the tables of
`RowRules` are the `CanTransition`, edit and child rules of the packages'
`domain.go`. `Read` is the unlocked read with the checks on it, `WriteMove` and
`WriteEdit` the conditional update, the `Add...` actions the children (a task, a
vote, a time entry), whose insert nothing ties to the status that allowed it.
`RowsInMemory` is the abstract specification: one step per call.

### Workers

`Reminders` and `Scheduler` elect a leader per tick by
`pg_try_advisory_xact_lock`; a tick marks what is due inside its transaction,
does the work outside it, and can die in between (`DieTick`). `Outbox` claims
rows with SKIP LOCKED, publishes them one by one, marks and commits; `Claims`
EXTENDS it and emits the event in the transaction that pays. `Boot` is one start
after the other of replicas with different sets of embedded migrations: check,
apply, commit per version, preflight, and seeds that look and then insert row by
row.

### Calls

`Calls` has one row, clients that ask, send again what got no answer, and copies
that arrive late; the server takes a copy (`Takes`), publishes, answers, or dies.
Ten operators (`Put`, `Keyed`, `Changed`, `Moved`, `Removed`, ...) say what a
store operation does when it comes a second time. `TradeHandlers` and
`OfficeHandlers` give each of the 335 handlers the operator its SQL has, with
the event it publishes; handlers that stand together in the source and are about
one resource are one definition, with their names above it. `TradeCalls` and
`OfficeCalls` are their disjunctions; `Handlers` assembles the interface.

## 3. What the runs check

Requests are few because every hazard found in the code needs two actors; the
third request of `ledger_posting` lets a waiter be overtaken.

| run | instance | distinct states |
|---|---|---|
| `ledger_posting` | 3 requests, 1 year, two manual entries in two journals, 1 invoice | 64,000 |
| `ledger_closing` | 2 requests, two overlapping years, two manual entries, two closings of one year | 60,000 |
| `ledger_live` | 2 requests, a run, an invoice, a closing, fairness | 21,000 |
| `stock` | 2 requests, two cells (one without a row yet), a movement, a transfer, a sale and an order that lock in opposite orders, fairness | 29,000 |
| `billing` | 2 requests, two invoices, one credit note, a payment of one invoice and one over both, edits and status changes | 326,000 |
| `workers` | 2 replicas, 2 requests, 2 events, 2 jobs, a draft and a paid claim, 2 builds of 2 and 3 migrations, fairness | 235,000 |
| `operations` | 2 interchangeable requests; a row of each kind, 2 windows over 2 seats, a till with sales of 1 or of 2 units, a counter and an offline row, 1 attempt, 2 loan terms, 2 depreciation plans, 2 supplier invoices, 2 bank accounts with 5 statement files and 2 transfers, books of 3 entries with 4 documents | 602,000 |
| `backoffice` | 2 interchangeable requests; 2 orders on 2 workstations, an order of 2 steps, a file with 2 contents, 3 folders, 2 addresses, the HTTP interface with 2 clients, CSV files of 2 lines, a token | 818,000 |

The composed runs (`workers`, `operations`, `backoffice`) hold several components
that share no row in the code either. Each behaviour has one of them in `focus`;
the others rest in their initial state, so their state spaces add up instead of
multiplying. Deadlock is checked in the ledger runs, where a client can always
send another request. The other systems may stop: when every document is done,
the clock has run out or the bounds are reached, nobody has anything left to ask.

Bounds. References are unique per journal, so the book of `Ledger` is bounded by
the entries that may be posted. Every other bound is a constant of its module:

| bound | value | why it is enough |
|---|---|---|
| `MoveLimit` (Stock) | 2 | how often a line may be moved again: the double move happens |
| `VersionLimit`, `PaymentLimit` (Billing) | 2, 2 | one edit of each draft, two payments begun together plus one: every race of a read with a write |
| `Horizon`, `Batch`, `FaultLimit` (Reminders) | 1, 1, 2 | due now and due later, a second batch, a tick and a dispatch that die |
| `Retention`, `EventLimit` (Scheduler) | 1, 1 | a second run is pruned; one change of a schedule, run by hand or dying tick at any point |
| `LineLimit`, `RelayBatch`, `FaultLimit` (Claims) | 1, 2, 1 | a line added after its check, a batch of both events, one abort of a request or relay |
| `BootLimit` | 2 | two starts beside each other, or one that dies and the next |
| `ChangeLimit` (Lifecycles) | 6 | versions of a row: the longest way through a table (four moves) and an approval |
| `RowLimit` (Reservations) | 3 | one party more than the seats |
| `UnitLimit` (Till) | 2 units, in 2 sales or in 1 | a replay beside the counter; a sale returned in parts |
| `GiveLimit`, `MoveLimit`, `PaymentLimit` (Gateway, Supplies) | 2 | each effect a second time |
| `AssetLimit` (`ChangeLimit` of Depreciation), `ReportLimit` (that of Reports) | 3, 4 | an action between any two statements |
| `RowLimit` (Bank) | 3 | both lines of a statement beside a row of another request |
| `MostLent` (Loans) | 1,000,000 | what TLC's integers can count in a schedule; the code lends up to a million times that |
| `ScheduleLimit` (Planning), `RoundLimit` (Workshop), `MailRounds` (Campaigns) | 2, 2, 4 | a rescheduled order beside another; a lost round and its repetition |
| `VersionLimit` (Files), `MoveLimit` (Folders) | 3, 2 | two uploads of one number and one after them; two moves that cross |
| `SendLimit`, `FaultLimit`, `IdLimit` (Handlers) | 2, 1, 2 | a repeated call, one crash, a row and its successor |
| `RowLimit`, `PageSize`, `ChangeLimit` (Exchange) | 4, 1, 1 | several pages, one edit between two of them |
| `TokenLimit`, `RefreshLimit`, `TokenFaults` (Vault), `MailFaults` (Campaigns) | 3, 3, 1, 1 | racing refreshes, one of which is lost; a sender that dies |

Amounts are 1 to 3: "part", "all" and "too much". Pure functions are checked over
enumerated inputs by ASSUME in the MC modules: an annuity collects its principal
exactly (`ScheduleIsExact`) and a depreciation plan adds up to its cost
(`SchedulesSumToCost`), which are also proved for all terms and plans; matching
pairs whatever can be paired (`MatchesAll`), the
filters of the intra-EU declaration split it (`FiltersPartition`), the preflight
reports ready on a prefix only (`ReadyIsAPrefix`).

### The properties

Each has a mutant of the code that breaks it, in PROJECT.json.

* Ledger: `ChainIntact`, `TamperEvident`, `PostedOnce`; `TrailExplainsLock`,
  `CloseIsExact`, `KeepsPromise` (the refinement of `LedgerPromise`);
  `EntryHasItsRun`, `RequestsFinish`.
* Stock: `KnownLevelIsSum`, `NeverOversold`, `MovesWithItsFlip`,
  `DoneMeansMoved`, `RequestsFinish`.
* Billing: `RefsGapless`, `MoneyConserved`, `PaidIsCovered`,
  `CreditsFromValidatedNotes`, `ValidatedAsRead`. `PaidIsCovered` is about
  requests that do not set `paid` by hand: the transition table lets a client do
  so (`kernel.go:89`), whatever was paid.
* Workers: `SentOnce`; `RunsAddUp` (a job fires once per due time, and its newest
  runs are kept); `DeliveredAtLeastOnce` (marked means published, and a repetition
  needs an abort); `PaidOnce`; `StartsAgree` (a process serves on the schema it
  embeds; a seed in part or twice needs a start that died or met another);
  `DueWorkIsDone` (liveness: reminders, jobs, events, starts).
* Operations: `StepsAreLegal`, `LateChildrenAreFew`, `RowsAreAtomic` (the
  refinement of the in-memory stores), `OverbookingIsBounded`, `AnnouncedOnce`;
  `TillAddsUp` (the queue tells the truth; returns and late sales are bounded);
  `DebtsAreSettled` (loans, supplier payments, depreciation);
  `AccountsTellTheBank` (statements count once, transfers are even, a statement
  ends with the balance); `ReportsAreOfTheirTime` (books are whole, a profit is of
  a moment, receivables are bracketed, the two stores agree).
* Backoffice: `WorkIsPlannedAndMadeOnce`, `FilesAndFoldersLast`,
  `EachIsMailedOnce`, `OptOutLasts`, `ResendsAreSafe` (one effect where something
  guards it, true answers, events follow commits), `ExchangesAddUp` (reports are
  true, dry runs foretell, exports miss only what moved, invalid rows come from
  the older routes), `TokensStayUsable`.

Several of them say what races *can* do, since the code does not exclude them:
overbooking by one party per racer, returns by one sale's worth per racer, a
cycle of folders only of moves that crossed, a mail sent twice only by a campaign
that was taken over while it was being sent. They bound the damage, and their
mutants widen it.

### Where the repository says otherwise

Each of these runs checks one sentence of a comment or a document and finds the
behaviour that contradicts it.

| run | sentence | what happens |
|---|---|---|
| `ledger_stranded` | `hr/payroll_service.go:15`: a ledger failure rolls the run back | posting into a locked year: the joined PostEntry returns nil and the run commits as posted without an entry. The same `finish` lets a sale (`pos/service.go`) or an order (`manufacturing/store.go`) commit without a movement that was refused after their own availability check |
| `ledger_close_race` | `finance/service.go:66`: the P&L is carried forward, then the year is locked | an entry commits between the trial balance and the chain lock. Independently, the trial balance has no date bound, so a close also takes what is dated in the next year |
| `stock_twice` | `stocktransfer/service.go:19`: atomically through the caller's transaction | there is no caller's transaction: two validations move the goods twice, and a refused later line leaves earlier ones posted |
| `billing_overpaid` | `docs/DIFFERENCES.md:29`: overpayments are refused | two payments read the full balance before either commits |

The modules state more such sentences, in a section of their own at the end. They
have no run. To see the behaviour, make the definition the only INVARIANT of the
run that holds its module; `DisposalKnowsItsBooks` is about steps and goes under
PROPERTY.

| definition | sentence | what the code does |
|---|---|---|
| `RacersReturnTheExistingEntry` (Ledger) | `finance/autopost.go:5` | of two auto-posts that both find no posting row, one fails on the unique reference, as does every retry after a crash before the row |
| `JournalChainVerifies` (Ledger) | `finance/handler.go:241` | the chain links all journals of the entity; over one of two it is reported broken |
| `LevelIsSum` (Stock) | `catalog/store.go:147` | the first movements of a cell have no row to lock; a later upsert overwrites an earlier one |
| `PaidWhatIsClaimed` (Claims) | `hr/store.go:160` | a line whose draft check passed is added to a claim that is paid by then |
| `MarkedWasSent` (Reminders) | `agenda/worker.go:17` | the dispatch endpoint marks first and publishes then; a death in between loses the reminder |
| `GapsAreReported`, `SalesAreSeededOnce` (Boot) | `docs/OPERATIONS.md:26`, `cmd/api/main.go:885` | the boot fills gaps before it looks for them; sales are seeded again while no invoice exists |
| `NeverOverbooked` (Reservations) | `booking/handler.go:109` | seats are counted and taken in two statements |
| `ReplayedOnce` (Till) | `pos/session.go:84` | two replays read one queued row, or a replay dies before it marks it |
| `RefundNoticesCount` (Gateway) | `payments/handler.go:484` | a refund notice is answered as a duplicate of the capture and dropped |
| `ClosedIsRepaid` (Loans) | `members/handler.go:536` | a crash after the last line leaves the loan disbursed for good |
| `EveryPeriodCanBePosted`, `DisposalKnowsItsBooks` (Depreciation) | `assets/depreciation.go:90`, `assets/dep_service.go:133` | a period of zero has no valid entry and stops the plan; a period posted while a disposal waits is not in its gain |
| `NothingIsLost` (Supplies) | `platform/dbtx.go:26` | `procurement/store.go:282` returns without `finish`: the transaction and its counter lock leak |
| `SameTransferReruns` (Bank) | `finance/bankimport_test.go:143` | true in memory; PostgreSQL refuses the references of the first run |
| `MarginsCoverSales`, `ServicesAreDeclared` (Reports) | `reporting/report.go:143`, `reporting/deb.go:96` | the PostgreSQL list of documents has no lines: no margins, and every document is goods |
| `ProposalCanBePosted` (Reports) | `reporting/compta.go:279` | a revenue account with a debit balance is proposed a negative debit |
| `PeriodIsOfAMoment`, `PiecesCountOnce`, `EveryDebtIsListed` (Reports) | `reporting/report.go:2`, `:252`, `:218` | reads without a snapshot; the 500 newest documents only |
| `OverloadIsAlwaysFlagged` (Planning) | `manufacturing/workstation.go:144` | two orders scheduled at the same time do not see each other |
| `ConsumedOnce` (Workshop) | `manufacturing/service.go:81` | producing looks before a schedule is made and consumes after its steps did |
| `BytesLast`, `NextIsFree` (Files) | `documentsvc/ecm.go:273-275` | the loser of two uploads deletes the winner's bytes; after a crash between version row and pointer every later upload conflicts |
| `NoCycle` (Folders) | `documentsvc/ecm.go:169` | two moves pass each other |
| `DoneIsDelivered` (Campaigns) | `mailing/service.go:81` | a recipient is added while the campaign is being sent |
| `RowsAreValidated`, `ExportsImportBack`, `SalesAreExported` (Exchange) | `dataio/dataio_test.go:259`, `dataio.go:2`, `exchange.go:92` | the database store of the older routes does not validate; a prospect is exported without a role; sales are listed without lines |
| `SameContract` (Vault) | `identity/oauth.go:379` | in memory a row that was deleted and saved anew is taken for the one that was read |

## 4. Fairness

`ledger_live` and `stock`: `WF` of a request's own statements, since the Go
handler runs its next statement unless the request dies, and a death is an answer
too. `SF` of the statements that wait (advisory lock, row locks, the counter
row): PostgreSQL keeps a queue per lock and grants in order of arrival, so a
waiter is not overtaken for ever. Deadlock detection is fair because
`deadlock_timeout` runs in every waiting backend.

`workers`: `SF` of `Lead`, since every replica's ticker keeps ticking and the try
for the advisory lock succeeds for some tick that finds it free; `WF` of what a
tick, a relay run or a start does next, since each is a loop of one goroutine.

Nothing makes a client send a request, an operator retry or a process die.
`operations` and `backoffice` state no fairness and check safety only: what those
components owe after a request is sent is an answer, which `RequestsFinish`
shows for the two modules where requests wait for each other the most.

## 5. What is proved

All theorems hold for every set of requests, replicas, documents, years, accounts
or amounts that satisfies the named assumptions of the modules
(`AccountsAssumption`, `LedgerAssumption`, `StockAssumption`,
`BillingAssumption`, `LifecyclesAssumption`, `RemindersAssumption`, and
`ConstantsOK` of each other component, which the composing modules assume as
`LoanAssumption`, `BankAssumption`, `HttpAssumption` and so on). These give constants
their types and what the handlers validate (a loan has 1 to 360 instalments, a
depreciation rate is a part of the whole), and make `Requests` finite where
requests are counted; TLC evaluates them in the runs.
Two theorems need more: `EntriesHaveTheirRuns` that the reference `PAY-<id>` of
a payroll run is nobody else's (`RunsAreApart`), `ClosesExactly` that the
retained-earnings account is not a revenue or expense account. The second is
what the code leaves to its caller: `BuildClosingLines` looks the account up and
never at its type (`tax.go:173-177`), and a close into a revenue account would
not leave that account at zero.

Sums over sets are `MapThenSumSet` in the modules, defined by recursion. `Sums`
proves what they need of it from the definition: what a sum is when an element is
added, changed, or the set is split; and that a fold over a sequence has a run of
values, each made of the one before (`FoldRuns`). Its induction is stated with sets in the
place of operators (`NatInSet`, `SetInSet`: a property is the set of what has
it), which first-order provers can instantiate, and rests on the library's
well-foundedness of `<`.

* **Types** (`TypeCorrect` in `LedgerProofs`, `OperationsProofs` and
  `WorkersProofs`, `StockTypeCorrect`, `BillingTypeCorrect`; the other components
  of `OperationsProofs` and those of `BackofficeProofs` have theirs inside their
  invariants). Each needs a
  strengthening that relates the program counter to the request's body (`JobOK`
  and its like): an entry is only inserted with a draft, a payment only reads a
  balance while there is an invoice left to read. For Stock and Billing this is
  where "no level, allocation or rest is negative" is proved.
* **Ledger.** The inductive invariant says that whoever is between the advisory
  lock and its COMMIT holds the lock, and that at the insert the head it read
  still is the chain head. From it follow `ChainVerifies` and `NoForks` (the
  unique constraint on `prev_hash` never fires: the lock alone suffices; no run
  checks it). `ForgeriesAreSeen` adds the length of every hash to it: a dropped or
  swapped entry leaves a hash of the wrong length where it was, for a chain of any
  length. `ClosesExactly` adds up the legs of a close: the accounts it zeroes
  against the retained earnings. `TrailIsTrue` shows that lock and log agree: a
  second close of a year, begun on a stale read, is stopped by the check that
  PostEntry makes under the lock. `ImplementsPromise` maps every step to a step or
  stutter of `LedgerPromise`. `PostsOnce` rests on three facts: what an auto-post
  carries is its invoice's entry (`AutoInv`), references are unique per journal
  (`RefInv`), and a posting row points at an entry with the invoice's content
  (`RowInv`). `EntriesHaveTheirRuns` adds whose entry a request has in hand
  (`SourceInv`): only a run's own post carries the run's entry, and it commits
  with the flip.
* **Stock.** `JoinedIsAtomic`: the movements of sales and orders appear with
  their flip, once. `NeverOversells`: what a transaction has locked is never
  more than what was booked, even for first rows, where updates can be lost; the
  guard is therefore conservative although the check before it is stale.
  `DoneIsMoved`: a request that works on line `i` has moved the lines before it
  (`PassedInv`, `LineInv`), and movements only grow (`MovedGrows`), so whoever
  flips has moved them all, though another may have done so too. `LevelsAreSums`:
  for a level row that exists, what its locker has read still is the level
  (`RowInv`), and so the sum of the movements (`SumInv`).
* **Billing.** `RefsAreGapless` from `HoldsCounter` (whoever is about to commit
  holds the counter row and its number is still the next one).
  `PaidInvoicesAreCovered` for clients that do not set `paid` themselves.
  `ValidatesWhatWasRead` and `CreditsAreValidated` from one invariant: while the
  row version is the one a status change has read, so is the total, and a note
  is still a draft; so a validated note has no way back, and a stale status
  change never wins. `NoMoneyLost`: what a payment has handed out and what is left
  of it make its amount (`SpreadOK`), whatever stale balances it was handed out
  by; at the commit nothing is left, so both sides of `MoneyInv` grow by the same.
* **Rows.** `LegalSteps`: what a request has read and checked still holds when
  its conditional update finds the version it read (`SeenInv`). `FewLateChildren`
  counts the children in flight at each change (`LateInv`).
  `ImplementsRowsInMemory`: with the same invariant every step of the PostgreSQL
  stores is one atomic call of the in-memory stores, or none; what the handler
  tests show on the fakes carries over, for all kinds.
* **Workers.** The theorems of `WorkersProofs` are about the composed system
  `MCSpec`. `SentOnceHolds`, from the one leader (`LeaderInv`), the row lock of a
  mark that is not committed (`OpenInv`) and what a dispatch has marked and not
  sent (`DispatchInv`): whoever may send an event next is the only one, and nobody
  has sent it but ticks that were rolled back. `SchedulerAddsUp`: a job has fired once more
  than it was rolled back only while a tick has it marked (`FiredInv`), runs have
  numbers of their own and what a tick deletes is older than what it leaves
  (`RunInv`), and the committed runs, like those the open tick sees, hold enough of
  every job (`KeepInv`).
  `Delivers`: a row that a relay has
  published and not marked is locked by that relay alone, and the copies of a row
  on the bus are one more than the aborts that gave it back (`RelayInv`).
  `StartsLeaveOrder`: what a start has passed in its build is applied
  (`SchemaInv`); the rows of a seed come in order (`OrderInv`), end where a start
  is at work or has ended (`HalfInv`), and come once where no start has ended and no
  two have met (`OnceInv`).
* **Claims.** `PaysOnce`, for `Claims` alone and in the composed system: an expense
  is booked and announced once. While the row version is the one a request has
  read, the status is (`ReadInv`); the flip holds the row to the commit
  (`LockInv`); a claim with an event is paid, and no status follows that one.
* **Operations.** Also about the composed `MCSpec`; a component that is not in
  focus is framed out first. `OverbooksNoFurther`: of the requests that have
  counted and not yet taken, one was the last to count, and when it did there was
  room for it (`Raced`); the others add one party each. It is proved at every
  instant, with registrations revived by a status change counted apart.
  `AnnouncesOnce`: what a request is about to announce nobody has announced and
  nobody else is about to (`TellingInv`), and what was announced is what became of
  the attempt (`ToldInv`), since a status is only ever left for one of which
  nothing has been said. `TillIsBounded`: a queued row has rung nothing, and what
  it rang and those that hold it are no more than the requests (`QueueInv`);
  returns of a sale race as bookings do (`CreditInv`); what is back on the shelf
  and what is about to be are together what was credited (`RestockInv`); sales
  after the Z report were ringing when it was drawn (`RingingInv`).
  `ReportsTellTheirTime`: entries and accounts are only added and a due only
  shrinks, so what a report read at one moment is still there at the next
  (`SinceInv`), and each invariant follows one report through its statements. An
  entry is on accounts and in a journal that are there, so the accounts read after
  the entries cover them (`FecInv`, `WalkInv`; an entry posted before the report
  began is read or in a journal whose turn is still to come), and a journal is
  even because every entry of it is. The profit over the accounts read before the
  balance misses none of its entries if no account was created (`ProfitInv`). Each
  invoice of the list is read once, and what is read lies between what was due and
  what is due (`DuesInv`). For the statement both parts are of the same entries
  (`StatementInv`). That the two stores compute one VAT return is an induction over
  the entries and over the legs of each: what the leg-by-leg fold has in the bucket
  of a rate is the sum, by type and side, of the rows passed so far (`EntryAdds`).
* **Money** (`MoneyProofs`, about the same `MCSpec`). `AmortisationIsExact` and
  `SchedulesAreExact`: for every loan and every plan the code accepts, the schedule
  ends with nothing left and its lines make the principal, or the cost. These are
  inductions over the lines, of recursive functions whose next line is given; the
  binary search for the annuity is shown to end with a payment that clears the
  loan. `DebtsGetSettled` rests on them and on three invariants. Of a loan
  (`LoanInv`): the ledger has the disbursement before the loan says so
  (`DisbursedInv`), a line is marked paid after its entry, and who finds no line open
  closes a loan that is collected (`CollectingInv`, `CollectedInv`). Of a supplier payment (`SupplyInv`): what it has
  handed out and has left make its amount, whatever stale balances it read
  (`SpreadInv`), also where it names an invoice twice. Of an asset (`AssetInv`): the
  periods posted are the first ones and make what has accumulated (`PostedInv`), each
  has one entry or was skipped (`EntriesInv`), and nobody posts a period beyond the
  next one, or with a version of the schedule later than the period (`PostingInv`),
  so the loser of two finds another version and is rolled back.
  `BankAddsUp`: the ids of rows are their own (`IdInv`), as are the references
  (`RefInv`), those of transactions under way included; each answered line is on its
  account (`KeptInv`); the rows an import has inserted and those it found there are
  together the lines it has passed (`ImportingInv`); both legs of a transfer are
  there or none (`MovingInv`), and the answers have counted what was inserted
  (`CountInv`). The order of a bank statement is a ranking of its rows by date and
  id, and its running balance, a fold in that order, ends with the sum of them all:
  sums do not depend on the names of what is summed (`SumRenamed`).
* **Backoffice.** Also about the composed `MCSpec`, one component after the other.
  `TokensAreUsable`: a row version is one token of one connection (`ConnInv`), what
  the provider has handed to a refresh is that refresh's alone (`HandedInv`), and
  every stored connection has a token that is taken, in the row or in somebody's
  hands, or has lost it (`UsableInv`). `EveryoneIsMailedOnce`: while a campaign has
  the version a request has read it is where the request left it (`TakenInv`), so
  it has one sender, who has crossed off whom he has mailed (`SenderInv`), and who is
  queued is on his list (`ListInv`). `OptOutsLast` is an action property; its proof
  looks at what each step takes into its hands. `FilesAndTreeLast`: a request is
  at most one revision ahead (`LineInv`) and has its bytes for itself until
  somebody writes under its number (`BytesInv`). For the folders the invariant is
  about sets, not ways: whatever set of folders leads only into itself contains
  two folders that passed each other, and a walk in progress has seen every such
  set that its move would close (`Walked`); `WayIsChain` and `CircleIsClosed`
  take the recursive way up of the model to these sets. `WorkIsPlanned`: who
  completes a step finds the earlier ones done unless the schedule he read has been
  replaced (`StepsInv`), so the shares add up to the last one's remainder
  (`ShareInv`). Of any orders no two of which are blind to each other, the last to be
  written knows the loads of the others (`LastInv`), since no one was
  rescheduled after it was read without leaving a trace in `blind`; where these
  orders are too much for a day, that one is flagged. No order of writing has to be
  remembered for this: the invariant claims it of every set of orders at once.
  `ResendsAreHarmless`: of each of the ten operators of `Calls` it is shown what a
  second arrival does, and of each of the 335 handlers only that it is a use of one
  of them. `ExchangesAreAccounted`: the report of an import counts the lines up to
  where it is (`ImportInv`, `LegacyInv`, a fold over the lines by induction); the
  rows of an export are ranked by the order of its pages, and of those ranked before
  the next page it lacks no more than there were edits since it began (`ExportsInv`).

Only model-checked:

* the liveness properties (`RequestsFinish`, `DueWorkIsDone`): fairness and
  ENABLED are outside the prover;
* the pure functions that no invariant needs (`MatchesAll`, `FiltersPartition`,
  `ReadyIsAPrefix`): TLC evaluates them over enumerated inputs.

## 6. What is not modelled

A third of the backend's lines is mapped. The rest is, for the most part:

* decoding, validation of fields, SQL text, row scanning, PDF and label layout,
  the generated API description, seeds' contents, the frontend and deployment;
* sessions, permissions, row-level security, the OAuth sign-in, rate limits;
* the event bus in the process (synchronous, its subscribers registered at
  start), reference numbering and the tamper log (called by their own tests, or
  the same chaining as the ledger), the workflow rule tables;
* payroll amounts, the derivation of an invoice's entry from its lines (`DocEntry`
  and `RunEntry` are constants), SEPA files and the posting of payouts, valuation,
  lots and serial numbers of stock, cash counts, proposals, orders and
  conversions of documents, currency rates, search.

PROJECT.json says for each component what is left out of it.

Bounds of the abstraction that a reader should know: one row or document of a
kind at a time in `Lifecycles` and `Calls`; payments of one month (one counter
row) in `Billing` and `Supplies`; invoice ids that do not repeat in a payment
of `Billing` (the primary key of the allocations stops that); one product and one session in
`Till`; and processes that run one build in `Boot`.

Observed while reading, with no sentence of the repository against it:

* a payment overwrites the status of its invoice whatever it is (a cancelled or
  draft one too) without touching `row_version`, so a stale status change still
  goes through over it; payments ignore credits; a credit note can be applied
  repeatedly up to its total each time;
* sales posted by the till publish no status event, so they are not auto-posted;
* on shutdown `run()` returns as soon as `Shutdown` has begun, and the pool waits
  for acquired connections only: requests between two statements are cut there,
  which the models have as `Crash` and `Die`;
* a start that dies after the first warehouse of the demo data makes every later
  start fail on its unique code;
* the comment of `RunNow` (`platform/cron/scheduler.go:158`) says that it advances
  the schedule; it records a run and leaves `next_run_at` alone, so a job run by
  hand still runs when it is due;
* no caller in `cmd/api` uses the OAuth vault yet.

## 7. Plan

1. An abstract stock book that `Stock` implements for cells whose row exists.
2. Composition of `Claims`, `Outbox` and the auto-posting of `Ledger`, so that a
   redelivered event meets the poster.
3. Document conversions of `sales` and `procurement`, SEPA payouts with their
   joined entries, cash counts of the till.
