SPECIFICATION Spec
CONSTANTS
  Journals <- MCJournals
  Refs <- MCRefs
  Dates = {1, 2, 3}
  Accounts <- MCAccounts
  AccountType <- MCType
  Retained = "retained"
  Reqs = {r1, r2}
  NoReq = NoReq
  Nothing = Nothing
  y1 = y1
  y2 = y2
  d1 = d1
  p1 = p1
  Years = {y1}
  Span <- OneSpan
  Posts <- TwoSales
  Closings <- OneClosing
  Runs = {}
  RunEntry <- NoRunEntry
  Docs = {}
  DocEntry <- NoDocEntry
SYMMETRY ReqSymmetry
INVARIANTS
  ClosedYearIsCarriedForward
