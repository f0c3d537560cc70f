SPECIFICATION Spec
CONSTANTS
  i1 = i1
  i2 = i2
  n1 = n1
  Reqs = {r1, r2}
  NoReq = NoReq
  NoJob = NoJob
  Invoices = {i1, i2}
  Notes = {n1}
  NoteOf <- MCNoteOf
  Price <- MCPrice
  Amounts = {2}
  Charges <- MCCharges
  Credits <- MCCredits
  Moves <- MCMoves
  PaymentLimit = 2
  VersionLimit = 2
SYMMETRY ReqSymmetry
INVARIANTS
  RefsGapless
  MoneyConserved
  PaidIsCovered
  CreditsFromValidatedNotes
PROPERTIES
  ValidatedAsRead
CHECK_DEADLOCK FALSE
