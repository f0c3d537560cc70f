SPECIFICATION MCSpec
SYMMETRY AnyRequest
CONSTANTS
  Requests = {r1, r2}
  ChangeLimit = 6
  Nobody = Nobody
  Lost = Lost
  Journals = {cash, bank}
  Capacity = 2
  Windows <- MCWindows
  Parties = {1, 2}
  RowLimit = 3
  GiveLimit = 2
  Keys = {1}
  Sizes = {1, 2}
  UnitLimit = 2
  Terms <- BulletOrInstalments
  MostLent = 1000000
  Plans <- FlatOrStuck
  AssetLimit = 3
  Gross <- TwoInvoices
  Charges <- OneOrBoth
  PaymentLimit = 2
  MoveLimit = 2
  BankAccounts = {1, 2}
  Statements <- FiveFiles
  Transfers <- ThereOrAway
  References = {"", "a"}
  AccountType <- FourAccounts
  Openings = {1, 2, 4}
  Entries <- ThreeEntries
  Period <- LaterHalf
  Documents <- FourDocuments
  Country <- TwoCountries
  Abroad = "IT"
  Members = {"DE", "FR", "IT"}
  Registered = {1}
  ListLimit = 2
  Warehouses = {1, 2}
  Price <- TwoPrices
  ReportLimit = 4
INVARIANTS
  AccountsTellTheBank
  LateChildrenAreFew
  OverbookingIsBounded
  
  AnnouncedOnce
  ReportsAreOfTheirTime
  DebtsAreSettled
PROPERTIES
  StepsAreLegal
  RowsAreAtomic
CHECK_DEADLOCK FALSE
