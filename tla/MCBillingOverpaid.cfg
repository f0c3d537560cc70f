SPECIFICATION Spec
CONSTANTS
  i1 = i1
  i2 = i2
  n1 = n1
  Reqs = {r1, r2}
  NoReq = NoReq
  NoJob = NoJob
  Invoices = {i1}
  Notes = {}
  NoteOf <- NoNoteOf
  Price <- MCPrice
  Amounts = {}
  Charges <- OneCharge
  Credits <- NoCredits
  Moves <- NoMoves
  PaymentLimit = 2
  VersionLimit = 2
INVARIANTS
  NeverOverpaid
CHECK_DEADLOCK FALSE
