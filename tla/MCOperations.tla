------------------------------ MODULE MCOperations ------------------------------
(***************************************************************************)
(* The operations of the packages around the books, checked in one run:    *)
(* the lives of rows (this module EXTENDS Lifecycles), reservations, the   *)
(* till, payment attempts, member loans, depreciation, supplier payments,  *)
(* bank accounts and reports. In this model they share no row and no lock, *)
(* so each behaviour lets one of them move, the one in focus, and the      *)
(* others rest in their initial state.                                     *)
(***************************************************************************)
EXTENDS Lifecycles, Sequences, TLC

CONSTANTS
  Nobody, Lost, Journals,
  Capacity, Windows, Parties, RowLimit, GiveLimit, \* of the desks (Reservations)
  Keys, Sizes, UnitLimit,                          \* of the till
  Terms, MostLent,                                 \* of the loan
  Plans, AssetLimit,                               \* of the asset (Depreciation)
  Gross, Charges, PaymentLimit, MoveLimit,         \* of the invoices (Supplies)
  BankAccounts, Statements, Transfers, References, \* of the bank; references given by hand
  AccountType, Openings, Entries, Period,          \* of the reports: the books,
  Documents, Country, Abroad, Members, Registered, ListLimit, \* the invoices,
  Warehouses, Price, ReportLimit                   \* the stock

VARIABLES focus,
  desk, open, rows, nextId, seatPc, seatWork, revived,
  saleQty, session, zSales, level, queue, sales, tillPc, tillWork,
  online, attempt, attemptVersion, notices, decided, given, events, payPc, payWork,
  principal, legs, loan, loanVersion, disbursed, paid, repaid, loanPc, loanWork,
  cost, plan, posted, accumulated, planVersion, asset, locked, book, skipped, chain,
  planPc, planWork,
  invoice, invoiceVersion, byHand, allocated, payments, nextRef, counter, supplyPc, supplyWork,
  inMemory, bankRows, pending, bankId, reported, kept, bankPc, bankWork,
  report, keptInMemory, chart, journals, postings, docStatus, due, pieces, country, todo, returned,
  changed, at, profits

Flat == [cost |-> 5, method |-> "linear", periods |-> 2, rateBps |-> 0]
Stuck == [cost |-> 2, method |-> "degressive", periods |-> 3, rateBps |-> 3000]
FlatOrStuck == {Flat, Stuck}
TwoInvoices == <<2, 3>>
\* One invoice, named twice: what is left for it the second time is nothing, or more.
OneOrBoth == {[amount |-> 1, invoices |-> <<1, 1>>], [amount |-> 4, invoices |-> <<1, 2>>],
              [amount |-> 3, invoices |-> <<1, 1>>]}
Bullet == [periods |-> 2, principal |-> 101, rateBps |-> 0]
\* Two statements with the same lines in opposite orders, one of them in camt.053;
\* a line without a reference, one of amount zero, one that cannot be read, and none.
Csv(ref, amount, date) == [ref |-> ref, amount |-> amount, date |-> date, decimal |-> TRUE]
Camt(entryRef, servicerRef, side, amount, valued) ==
  [entryRef |-> entryRef, servicerRef |-> servicerRef, side |-> side, amount |-> amount,
   valued |-> valued, booked |-> 1, decimal |-> TRUE]
Lines == [account |-> 1, format |-> "csv",
          entries |-> <<Csv("a", 1, 1), Csv("b", -2, 2)>>]
Backwards == [account |-> 1, format |-> "camt053",
              entries |-> <<Camt("b", "x", "DBIT", 2, 2), Camt("", "a", "CRDT", 1, 0)>>]
Faulty == [account |-> 2, format |-> "csv", entries |-> <<Csv("", 3, 1), Csv("c", 0, 1)>>]
Undated == [account |-> 2, format |-> "csv", entries |-> <<Csv("c", 1, 0)>>]
There == [from |-> 1, to |-> 2, amount |-> 2, ref |-> "t"]
Away == [from |-> 1, to |-> 9, amount |-> 2, ref |-> ""]

\* Books with a journal and an account that come late, and invoices of two customers.
Leg(account, debit, credit, rate) ==
  [account |-> account, debit |-> debit, credit |-> credit, rate |-> rate]
Sale == [journal |-> 1, date |-> 1,
         legs |-> <<Leg(1, 6, 0, 0), Leg(2, 0, 5, 20), Leg(4, 0, 1, 20)>>]
Buy == [journal |-> 2, date |-> 3, legs |-> <<Leg(3, 2, 0, 20), Leg(1, 0, 2, 0)>>]
Refund == [journal |-> 1, date |-> 2, legs |-> <<Leg(2, 8, 0, 0), Leg(1, 0, 8, 0)>>]
Doc(side, init, org, product, month) ==
  [side |-> side, status |-> init, org |-> org, month |-> month, net |-> 2, vat |-> 1,
   lines |-> {[product |-> product, qty |-> 1, unit |-> 2, service |-> product = 2]}]

FourAccounts == <<"asset", "revenue", "expense", "liability">>
ThreeEntries == {Sale, Buy, Refund}
FourDocuments ==
  <<Doc("dispatch", "validated", 1, 1, 1), Doc("dispatch", "validated", 1, 2, 2),
    Doc("dispatch", "draft", 2, 2, 2), Doc("arrival", "validated", 2, 2, 2)>>
TwoCountries == <<"DE", "FR">>
TwoPrices == <<2, 3>>
LaterHalf == <<2, 3>>

MCWindows == {<<0, 2>>, <<1, 3>>}

Empty == [account |-> 1, format |-> "csv", entries |-> << >>]
FiveFiles == {Lines, Backwards, Faulty, Undated, Empty}
ThereOrAway == {There, Away}

Instalments == [periods |-> 3, principal |-> 100, rateBps |-> 60000]
BulletOrInstalments == {Bullet, Instalments}

Seats == INSTANCE Reservations WITH pc <- seatPc, work <- seatWork

Shop == INSTANCE Till WITH
  Counter <- 0, InitialLevel <- 2, pc <- tillPc, work <- tillWork

Pay == INSTANCE Gateway WITH
  status <- attempt, version <- attemptVersion, pc <- payPc, work <- payWork

Loan == INSTANCE Loans WITH
  status <- loan, version <- loanVersion, posted <- repaid, pc <- loanPc, work <- loanWork

Assets == INSTANCE Depreciation WITH
  ChangeLimit <- AssetLimit,
  version <- planVersion, pc <- planPc, work <- planWork

Supply == INSTANCE Supplies WITH
  status <- invoice, version <- invoiceVersion, pc <- supplyPc, work <- supplyWork

Accounting == INSTANCE Bank WITH
  Accounts <- BankAccounts,
  rows <- bankRows, nextId <- bankId, pc <- bankPc, work <- bankWork

Report == INSTANCE Reports WITH
  ChangeLimit <- ReportLimit,
  kind <- report, inMemory <- keptInMemory, book <- postings, status <- docStatus,
  level <- pieces, seen <- returned,
  changes <- changed

ASSUME SeatsAssumption == Seats!ConstantsOK
ASSUME ShopAssumption == Shop!ConstantsOK
ASSUME PayAssumption == Pay!ConstantsOK
ASSUME LoanAssumption == Loan!ConstantsOK
ASSUME Loan!ScheduleIsExact(
  [periods : 1 .. 3, principal : {1, 2, 7, 100, 101}, rateBps : {0, 500, 60000, 100000}])
ASSUME AssetsAssumption == Assets!ConstantsOK
ASSUME Assets!SchedulesSumToCost(
  [cost : {1, 2, 7, 100, 101}, method : {"linear", "degressive"}, periods : 1 .. 4,
   rateBps : {1, 500, 3333, 5000, 10000}])
ASSUME SupplyAssumption == Supply!ConstantsOK
ASSUME ReportAssumption == Report!ConstantsOK
Moving == [side : {"dispatch", "arrival"}, flow : {"goods", "services"}, doc : {1}]
ASSUME \A moves \in SUBSET Moving : Report!FiltersPartition(moves)
ASSUME BankAssumption == Accounting!ConstantsOK
ASSUME \A txs \in UNION {[1 .. n -> [amount : {1, 2}, reconciled : {0, 1}]] : n \in 0 .. 3},
          lines \in UNION {[1 .. n -> {1, 2}] : n \in 0 .. 3} :
  Accounting!MatchesAll([i \in DOMAIN txs |-> txs[i] @@ [id |-> i, date |-> 1]],
                        [i \in DOMAIN lines |-> [amount |-> lines[i], date |-> 2]])

\* Nothing here tells one request from another.
AnyRequest == Permutations(Requests)

seatVars == <<desk, open, rows, nextId, seatPc, seatWork, revived>>
tillVars == <<saleQty, session, zSales, level, queue, sales, tillPc, tillWork>>
payVars == <<online, attempt, attemptVersion, notices, decided, given, events, payPc, payWork>>
loanVars == <<principal, legs, loan, loanVersion, disbursed, paid, repaid, loanPc, loanWork>>
assetVars == <<cost, plan, posted, accumulated, planVersion, asset, locked, book, skipped, chain,
               planPc, planWork>>
supplyVars == <<invoice, invoiceVersion, byHand, allocated, payments, nextRef, counter,
                supplyPc, supplyWork>>
bankVars == <<inMemory, bankRows, pending, bankId, reported, kept, bankPc, bankWork>>
reportVars == <<report, keptInMemory, chart, journals, postings, docStatus, due, pieces, country,
                todo, returned, changed, at, profits>>
allVars == <<focus, vars, seatVars, tillVars, payVars, loanVars, assetVars, supplyVars,
             bankVars, reportVars>>

MCInit ==
  /\ focus \in {"rows", "seats", "till", "payment", "loan", "asset", "supply", "bank",
                "report"}
  /\ Init /\ Seats!Init /\ Shop!Init /\ Pay!Init /\ Loan!Init /\ Assets!Init /\ Supply!Init
  /\ Accounting!Init /\ Report!Init
  /\ focus = "rows" \/ kind = "booking" \* one initial state for those that rest
  /\ focus = "seats" \/ desk = "booking"
  /\ focus = "till" \/ saleQty = CHOOSE n \in Sizes : TRUE
  /\ focus = "payment" \/ online
  /\ focus = "loan" \/ principal = (CHOOSE t \in Terms : TRUE).principal
  /\ focus = "asset" \/ cost = (CHOOSE p \in Plans : TRUE).cost
  /\ focus = "bank" \/ inMemory
  /\ focus = "report" \/ report = "pnl"

InRows(A) ==
  /\ focus = "rows" /\ A
  /\ UNCHANGED <<focus, seatVars, tillVars, payVars, loanVars, assetVars, supplyVars,
                 bankVars, reportVars>>
InSeats(A) ==
  /\ focus = "seats" /\ A
  /\ UNCHANGED <<focus, vars, tillVars, payVars, loanVars, assetVars, supplyVars,
                 bankVars, reportVars>>
InTill(A) ==
  /\ focus = "till" /\ A
  /\ UNCHANGED <<focus, vars, seatVars, payVars, loanVars, assetVars, supplyVars,
                 bankVars, reportVars>>
InPayment(A) ==
  /\ focus = "payment" /\ A
  /\ UNCHANGED <<focus, vars, seatVars, tillVars, loanVars, assetVars, supplyVars,
                 bankVars, reportVars>>
InLoan(A) ==
  /\ focus = "loan" /\ A
  /\ UNCHANGED <<focus, vars, seatVars, tillVars, payVars, assetVars, supplyVars,
                 bankVars, reportVars>>
InAsset(A) ==
  /\ focus = "asset" /\ A
  /\ UNCHANGED <<focus, vars, seatVars, tillVars, payVars, loanVars, supplyVars,
                 bankVars, reportVars>>
InSupply(A) ==
  /\ focus = "supply" /\ A
  /\ UNCHANGED <<focus, vars, seatVars, tillVars, payVars, loanVars, assetVars,
                 bankVars, reportVars>>
InBank(A) ==
  /\ focus = "bank" /\ A
  /\ UNCHANGED <<focus, vars, seatVars, tillVars, payVars, loanVars, assetVars, supplyVars,
                 reportVars>>
InReport(A) ==
  /\ focus = "report" /\ A
  /\ UNCHANGED <<focus, vars, seatVars, tillVars, payVars, loanVars, assetVars, supplyVars,
                 bankVars>>

MCNext ==
  \/ InRows(Create)
  \/ InRows(CompleteMOOperation)
  \/ \E r \in Requests : InRows(Move(r))
  \/ \E r \in Requests : InRows(Edit(r))
  \/ \E r \in Requests : InRows(Add(r))
  \/ \E r \in Requests, w \in Windows, n \in Parties : InSeats(Seats!StartBooking(r, w, n))
  \/ \E r \in Requests : InSeats(Seats!StartRegistration(r))
  \/ \E r \in Requests : InSeats(Seats!InsertRow(r))
  \/ \E r \in Requests, b \in rows, to \in Seats!Statuses : InSeats(Seats!ReadRegistration(r, b, to))
  \/ \E r \in Requests : InSeats(Seats!WriteRegistration(r))
  \/ \E b \in rows, to \in Seats!Statuses : InSeats(Seats!SetBookingStatus(b, to))
  \/ InSeats(Seats!SetEventStatus)
  \/ \E r \in Requests : InTill(Shop!StartCheckout(r))
  \/ \E r \in Requests : InTill(Shop!CommitCheckout(r))
  \/ \E k \in Keys : InTill(Shop!EnqueueOffline(k))
  \/ \E r \in Requests : InTill(Shop!ReplayQueue(r))
  \/ \E r \in Requests : InTill(Shop!ReplayRead(r))
  \/ \E r \in Requests : InTill(Shop!ReplayCommit(r))
  \/ \E i \in 1 .. Len(sales) : InTill(Shop!VoidSale(i))
  \/ \E r \in Requests, i \in 1 .. Len(sales), n \in 1 .. saleQty : InTill(Shop!StartReturn(r, i, n))
  \/ \E r \in Requests : InTill(Shop!CreateCredit(r))
  \/ \E r \in Requests : InTill(Shop!Restock(r))
  \/ \E r \in Requests : InTill(Shop!MarkReturned(r))
  \/ InTill(Shop!ZReport)
  \/ \E r \in Requests : InTill(Shop!Crash(r))
  \/ \E r \in Requests : InPayment(Pay!CreateIntent(r))
  \/ \E r \in Requests : InPayment(Pay!SettleManual(r))
  \/ \E r \in Requests : InPayment(Pay!AnnounceCreated(r))
  \/ \E outcome \in {"succeeded", "failed"} : InPayment(Pay!Decide(outcome))
  \/ \E r \in Requests, n \in Pay!Outcomes : InPayment(Pay!Deliver(r, n))
  \/ \E r \in Requests : InPayment(Pay!SettleTerminal(r))
  \/ \E r \in Requests : InPayment(Pay!Announce(r))
  \/ \E r \in Requests : InPayment(Pay!Answer(r))
  \/ \E r \in Requests, v \in 1 .. attemptVersion : InPayment(Pay!StartRefund(r, v))
  \/ \E r \in Requests : InPayment(Pay!GiveBack(r))
  \/ \E r \in Requests : InPayment(Pay!RecordRefund(r))
  \/ \E to \in Pay!Outcomes : InPayment(Pay!SetAttemptStatus(to))
  \/ \E r \in Requests : InPayment(Pay!Crash(r))
  \/ \E r \in Requests, j \in Journals, v \in 1 .. loanVersion : InLoan(Loan!StartDisburse(r, j, v))
  \/ \E r \in Requests : InLoan(Loan!PostDisbursement(r))
  \/ \E r \in Requests : InLoan(Loan!SetDisbursed(r))
  \/ \E r \in Requests, i \in DOMAIN legs, j \in Journals : InLoan(Loan!StartRepay(r, i, j))
  \/ \E r \in Requests : InLoan(Loan!PostRepayment(r))
  \/ \E r \in Requests : InLoan(Loan!MarkLoanLinePaid(r))
  \/ \E r \in Requests : InLoan(Loan!LookForOpen(r))
  \/ \E r \in Requests : InLoan(Loan!ReadLoan(r))
  \/ \E r \in Requests : InLoan(Loan!SetRepaid(r))
  \/ \E r \in Requests : InLoan(Loan!Crash(r))
  \/ \E r \in Requests, j \in Journals, v \in 1 .. planVersion : InAsset(Assets!StartPost(r, j, v))
  \/ \E r \in Requests : InAsset(Assets!PostPeriod(r))
  \/ \E r \in Requests : InAsset(Assets!MarkSchedulePosted(r))
  \/ \E r \in Requests, j \in Journals : InAsset(Assets!StartDispose(r, j))
  \/ \E r \in Requests : InAsset(Assets!PostDisposal(r))
  \/ \E r \in Requests : InAsset(Assets!Retire(r))
  \/ \E to \in {"in_service", "maintenance", "retired"} : InAsset(Assets!SetAssetStatus(to))
  \/ InAsset(Assets!LockYear)
  \/ \E r \in Requests : InAsset(Assets!Crash(r))
  \/ \E r \in Requests, c \in Charges : InSupply(Supply!StartPay(r, c))
  \/ \E r \in Requests : InSupply(Supply!ReadBalance(r))
  \/ \E r \in Requests : InSupply(Supply!TakeNumber(r))
  \/ \E r \in Requests : InSupply(Supply!FailInsert(r))
  \/ \E r \in Requests : InSupply(Supply!CommitPayment(r))
  \/ \E r \in Requests, i \in Supply!Invoices, to \in {"validated", "part_paid", "paid", "canceled"} :
       InSupply(Supply!StartMove(r, i, to))
  \/ \E r \in Requests : InSupply(Supply!WriteMove(r))
  \/ \E r \in Requests : InSupply(Supply!Abort(r))
  \/ InSupply(Supply!Restart)
  \/ \E s \in Statements : InBank(Accounting!ImportInMemory(s))
  \/ \E t \in Transfers : InBank(Accounting!TransferInMemory(t))
  \/ \E a \in BankAccounts, ref \in References : InBank(Accounting!RecordInMemory(a, ref))
  \/ \E r \in Requests, s \in Statements : InBank(Accounting!StartImport(r, s))
  \/ \E r \in Requests, t \in Transfers : InBank(Accounting!StartTransfer(r, t))
  \/ \E r \in Requests, a \in BankAccounts, ref \in References :
       InBank(Accounting!RecordTransaction(r, a, ref))
  \/ \E r \in Requests : InBank(Accounting!InsertRow(r))
  \/ \E r \in Requests : InBank(Accounting!Commit(r))
  \/ \E r \in Requests : InBank(Accounting!Abort(r))
  \/ \E r \in Requests, s \in Statements :
       InBank(Accounting!ReconcileMatch(r, s, 1))
  \/ \E r \in Requests : InBank(Accounting!Reconcile(r))
  \/ InReport(Report!Start)
  \/ InReport(Report!Read)
  \/ \E a \in Report!Accounts : InReport(Report!CreateAccount(a))
  \/ InReport(Report!CreateJournal)
  \/ \E e \in Entries : InReport(Report!PostEntry(e))
  \/ \E d \in Report!Docs, to \in {"validated", "cancelled"} : InReport(Report!SetStatus(d, to))
  \/ \E d \in Report!Side("dispatch") : \E n \in 1 .. due[d] : InReport(Report!RecordPayment(d, n))
  \/ \E p \in Report!Products, v, w \in Warehouses : InReport(Report!Transfer(p, v, w))
  \/ \E o \in DOMAIN Country : InReport(Report!UpdateOrg(o))

MCSpec == MCInit /\ [][MCNext]_allVars

-----------------------------------------------------------------------------
TypesOK ==
  /\ TypeOK /\ Seats!TypeOK /\ Shop!TypeOK /\ Pay!TypeOK /\ Loan!TypeOK /\ Assets!TypeOK
  /\ Supply!TypeOK /\ Accounting!TypeOK /\ Report!TypeOK

\* The till: the offline queue says what has been rung, and what races of returns
\* and of a Z report can do is bounded (pos/session.go:81-260,
\* pos/handler.go:327-474).
TillAddsUp == Shop!QueueTellsTheTruth /\ Shop!ReturnsAndLateSalesAreBounded

\* What is due by a plan is booked: a member loan that is closed has been collected
\* line by line, what suppliers are paid is what their invoices say, and an asset is
\* written off period by period (members/handler.go:484-619,
\* procurement/store.go:218-330, assets/dep_service.go:36-75).
DebtsAreSettled ==
  Loan!RepaidIsCollected /\ Supply!SuppliersArePaid /\ Assets!DepreciationIsBooked

\* However bank statements and transfers are sent, sent again and interleaved, the
\* accounts count every line once and make no money (finance/service.go:37-64,
\* finance/store_phase2.go:20-121).
AccountsTellTheBank ==
  /\ Accounting!StatementsCountOnce
  /\ Accounting!TransfersAreEven
  /\ Accounting!StatementEndsWithBalance

\* What a report says was so at some moment while it was made, as far as statements
\* without a snapshot can (reporting/report.go:54-241, reporting/compta.go:172-215,
\* finance/handler_phase3.go:226-264).
ReportsAreOfTheirTime ==
  /\ Report!BooksAreWhole
  /\ Report!ProfitIsOfAMoment
  /\ Report!ReceivablesAreBracketed
  /\ Report!StoresAgree

\* Properties of the other components, under their own names.
OverbookingIsBounded == Seats!OverbookingIsBounded
AnnouncedOnce == Pay!AnnouncedOnce
\* What the repository says of them and the code does not do, as the components
\* state it.
NeverOverbooked == Seats!NeverOverbooked
ReplayedOnce == Shop!ReplayedOnce
RefundNoticesCount == Pay!RefundNoticesCount
ClosedIsRepaid == Loan!ClosedIsRepaid
EveryPeriodCanBePosted == Assets!EveryPeriodCanBePosted
DisposalKnowsItsBooks == Assets!DisposalKnowsItsBooks
NothingIsLost == Supply!NothingIsLost
SameTransferReruns == Accounting!SameTransferReruns
MarginsCoverSales == Report!MarginsCoverSales
ServicesAreDeclared == Report!ServicesAreDeclared
ProposalCanBePosted == Report!ProposalCanBePosted
PeriodIsOfAMoment == Report!PeriodIsOfAMoment
PiecesCountOnce == Report!PiecesCountOnce
EveryDebtIsListed == Report!EveryDebtIsListed
=============================================================================
