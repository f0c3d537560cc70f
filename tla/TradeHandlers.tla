------------------------------ MODULE TradeHandlers ------------------------------
(***************************************************************************)
(* The HTTP handlers of the trading side (products, sales, purchases, the  *)
(* workshop, money), each as what its store operation is when the call     *)
(* comes a second time; see module Handlers. Handlers that stand together  *)
(* in the source and are about one resource are one definition, with their *)
(* names above it.                                                         *)
(***************************************************************************)
EXTENDS Calls

\* booking
\* CreateResource, ListResources
Resources(c) == Keyed(c, Silent) \/ Look(c)
\* CreateBooking, ListBookings, SetBookingStatus
Bookings(c) == Added(c, Announced) \/ Look(c) \/ Changed(c, Silent)

\* catalog
\* CreateProduct, ListProducts, GetProduct
Products(c) == Keyed(c, Announced) \/ Look(c)
\* CreateWarehouse, ListWarehouses
Warehouses(c) == Keyed(c, Silent) \/ Look(c)
\* CreateVariant, ListVariants
Variants(c) == Keyed(c, Silent) \/ Look(c)
LabelSheet(c) == Computed(c)

\* sales
\* SalesCreateDoc, SalesListDocs, SalesGetDoc
SalesDocs(c) == Added(c, Silent) \/ Look(c)
SalesConvertDoc(c) == Added(c, Silent)
RenderDocPDF(c) == Computed(c)

\* procurement
ProcurementCreateDoc(c) == Added(c, Silent)
\* ProcurementListDocs, ProcurementGetDoc
ProcurementDocs(c) == Look(c)
\* ProcurementConvertDoc, Approve, UpsertPrice
Approvals(c) == Added(c, Silent) \/ Overwritten(c, Silent) \/ Put(c, Silent)

\* events
\* EventsCreateEvent, EventsListEvents, SetEventStatus
EventsEvents(c) == Added(c, Announced) \/ Look(c) \/ Changed(c, Silent)
\* Register, ListRegistrations, SetRegistrationStatus
Registrations(c) == Keyed(c, Announced) \/ Look(c) \/ Moved(c, Silent)
\* CreatePosition, ListPositions, SetPositionStatus
Positions(c) == Keyed(c, Silent) \/ Look(c) \/ Changed(c, Silent)
\* Apply, ListApplications, SetApplicationStatus
Applications(c) == Added(c, Announced) \/ Look(c) \/ Changed(c, Silent)

\* members
\* CreateType, ListTypes
Types(c) == Keyed(c, Silent) \/ Look(c)
\* CreateMember, ListMembers, SetMemberStatus
Members(c) == Keyed(c, Announced) \/ Look(c) \/ Changed(c, Silent)
\* CreateSubscription, ListSubscriptions, SetSubscriptionStatus
Subscriptions(c) ==
  Keyed(c, Silent) \/ Look(c) \/ (\E event \in BOOLEAN : Changed(c, event))
\* CreateDonation, ListDonations, SetDonationStatus
Donations(c) == Keyed(c, Announced) \/ Look(c) \/ Changed(c, Silent)
DonationReceipt(c) == Computed(c)
\* CreateMemberLoan, MemberLoanSchedule
MemberLoans(c) == Added(c, Silent) \/ Look(c)

\* sepa
\* CreateBatch, ListBatches, SetBatchStatus
Batches(c) == Keyed(c, Silent) \/ Look(c) \/ Changed(c, Announced)
ExportXML(c) == Computed(c)
\* CreateMandate, ListMandates, MandateByID, SignMandate, AmendMandate,
\* CancelMandate
Mandates(c) == Keyed(c, Silent) \/ Look(c) \/ Changed(c, Announced)
\* RecordRTransaction, ListRTransactions
RTransactions(c) == Keyed(c, Announced) \/ Look(c)
\* CreateTransfer, ListTransfers, TransferByID, SetTransferStatus
Transfers(c) == Keyed(c, Silent) \/ Look(c) \/ Changed(c, Announced)
ExportPain001(c) == Computed(c)

\* manufacturing
\* CreateBOM, ListBOMs, GetBOM, SetBOMStatus
BOMs(c) == Keyed(c, Announced) \/ Look(c) \/ Changed(c, Silent)
\* ManufacturingAddLine, ListLines
BOMLines(c) == Keyed(c, Silent) \/ Look(c)
\* CreateMO, ListMOs, GetMO, SetMOStatus
MOs(c) == Keyed(c, Announced) \/ Look(c) \/ Changed(c, Silent)
Produce(c) == Moved(c, Announced)
\* CreateWorkstation, ListWorkstations, GetWorkstation
Workstations(c) == Keyed(c, Announced) \/ Look(c)
\* AddBOMOperation, ListBOMOperations
BOMOperations(c) == Keyed(c, Silent) \/ Look(c)
\* ScheduleMO, ListMOOperations
MOSchedules(c) == Put(c, Announced) \/ Look(c)
CompleteMOOperation(c) == Moved(c, Announced)
Capacity(c) == Computed(c)

\* stocktransfer
\* StockTransferCreate, StockTransferList, StockTransferGet, StockTransferUpdate,
\* StockTransferDelete, StockTransferAddLine, StockTransferLines
StockTransfers(c) ==
  Added(c, Announced) \/ Look(c) \/ Changed(c, Silent) \/ Removed(c, Silent) \/ Added(c, Silent)
\* StockTransferValidate, Cancel
StockTransferMoves(c) == Moved(c, Announced) \/ Moved(c, Silent)

\* dynprice
\* CreateRule, DynpriceListRules, GetRule, UpdateRule, DeleteRule
DynpriceRules(c) ==
  Keyed(c, Announced) \/ Look(c) \/ Changed(c, Silent) \/ Removed(c, Silent)
Evaluate(c) == Computed(c)
\* Assign, Unassign
Assignments(c) == Keyed(c, Silent) \/ Removed(c, Silent)

\* payments
ListAttempts(c) == Look(c)

\* partnership
\* CreateProgram, ListPrograms, GetProgram
Programs(c) == Keyed(c, Announced) \/ Look(c)
\* RegisterReferral, ListReferrals
Referrals(c) == Keyed(c, Announced) \/ Added(c, Announced) \/ Look(c)
\* Accrue, ListAccruals
Accruals(c) == Added(c, Announced) \/ Look(c)

\* pos
\* CreateTerminal, ListTerminals
Terminals(c) == Keyed(c, Silent) \/ Look(c)
\* GetSession, CloseSession
Sessions(c) == Look(c) \/ Changed(c, Silent)
\* Checkout, SalesOfSession
Sales(c) == Added(c, Announced) \/ Look(c)
GetSale(c) == Look(c)
\* Receipt, ESCPos
TillReceipts(c) == Computed(c)
ListQueue(c) == Look(c)
\* RecordPayout, RecordCount
CashMovements(c) == Added(c, Silent)
\* XReport, ZReport
TillReports(c) == Computed(c) \/ Changed(c, Silent)

\* assets
\* CreateSchedule, ListSchedules
Schedules(c) == Keyed(c, Announced) \/ Look(c)
\* CreateAsset, UpdateAsset, ListAssets, SetAssetStatus
Assets(c) == Keyed(c, Announced) \/ Changed(c, Silent) \/ Look(c)

\* finance
\* CreateAccount, CreateJournal
Accounts(c) == Keyed(c, Silent)
\* ListAccounts, ListJournals, ListBankAccounts, ListLoans
Books(c) == Look(c)
\* TrialBalance, VerifyChain
Checks(c) == Computed(c)
\* CreateBankAccount, RecordTransaction, Reconcile
BankAccounts(c) == Keyed(c, Silent) \/ Added(c, Silent) \/ Moved(c, Silent)
CreateLoan(c) == Added(c, Silent)
BankStatement(c) == Computed(c)
ReconcileMatch(c) == Computed(c)
\* LedgerBook, AccountLedger
LedgerBooks(c) == Computed(c)
\* CreateFiscalYear, ListFiscalYears
FiscalYears(c) == Added(c, Silent) \/ Look(c)
\* CreateTaxPeriod, ListTaxPeriods, SetTaxPeriodStatus
TaxPeriods(c) == Added(c, Silent) \/ Look(c) \/ Overwritten(c, Silent)
\* CreateVATRate, ListVATRates, VATReturn
VATRates(c) == Keyed(c, Silent) \/ Look(c) \/ Computed(c)
\* CreateCharge, ListCharges, ChargesDue, PayCharge
Charges(c) == Added(c, Silent) \/ Look(c) \/ Moved(c, Silent)
\* SetBinding, ListBindings, LoadChartPack
Bindings(c) == Put(c, Silent) \/ Look(c)
ListPostings(c) == Look(c)
CloseLog(c) == Look(c)
ExportFEC(c) == Computed(c)

\* fx
\* ListRates, SetRate, Convert
Rates(c) == Look(c) \/ Put(c, Silent) \/ Computed(c)

\* reporting
\* PNL, Receivables, IntraEU, Monthly, Margins, Valuation
Reports(c) == Computed(c)
\* IntraEUCSV, IntraEUDEB, LedgerAccount, GeneralLedgerCSV, ClosePreview
ReportFiles(c) == Computed(c)

\* incoterm
\* IncotermList, IncotermGet
Incoterms(c) == Computed(c)
-----------------------------------------------------------------------------
TradeCalls(c) ==
  \/ Resources(c) \/ Bookings(c) \/ Products(c) \/ Warehouses(c) \/ Variants(c)
  \/ LabelSheet(c) \/ SalesDocs(c) \/ SalesConvertDoc(c) \/ RenderDocPDF(c)
  \/ ProcurementCreateDoc(c) \/ ProcurementDocs(c) \/ Approvals(c) \/ EventsEvents(c)
  \/ Registrations(c) \/ Positions(c) \/ Applications(c) \/ Types(c) \/ Members(c)
  \/ Subscriptions(c) \/ Donations(c) \/ DonationReceipt(c) \/ MemberLoans(c) \/ Batches(c)
  \/ ExportXML(c) \/ Mandates(c) \/ RTransactions(c) \/ Transfers(c) \/ ExportPain001(c)
  \/ BOMs(c) \/ BOMLines(c) \/ MOs(c) \/ Produce(c) \/ Workstations(c) \/ BOMOperations(c)
  \/ MOSchedules(c) \/ CompleteMOOperation(c) \/ Capacity(c) \/ StockTransfers(c)
  \/ StockTransferMoves(c) \/ DynpriceRules(c) \/ Evaluate(c) \/ Assignments(c)
  \/ ListAttempts(c) \/ Programs(c) \/ Referrals(c) \/ Accruals(c) \/ Terminals(c)
  \/ Sessions(c) \/ Sales(c) \/ GetSale(c) \/ TillReceipts(c) \/ ListQueue(c)
  \/ CashMovements(c) \/ TillReports(c) \/ Schedules(c) \/ Assets(c) \/ Accounts(c)
  \/ Books(c) \/ Checks(c) \/ BankAccounts(c) \/ CreateLoan(c) \/ BankStatement(c)
  \/ ReconcileMatch(c) \/ LedgerBooks(c) \/ FiscalYears(c) \/ TaxPeriods(c) \/ VATRates(c)
  \/ Charges(c) \/ Bindings(c) \/ ListPostings(c) \/ CloseLog(c) \/ ExportFEC(c)
  \/ Rates(c) \/ Reports(c) \/ ReportFiles(c) \/ Incoterms(c)
=============================================================================
