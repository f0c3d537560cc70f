SPECIFICATION FairSpec
CONSTANTS
  shop = shop
  depot = depot
  move = move
  transfer = transfer
  sale = sale
  order = order
  Reqs = {r1, r2}
  NoReq = NoReq
  NoDoc = NoDoc
  Cells = {shop, depot}
  Docs = {move, transfer, sale, order}
  Opening <- TwoInDepot
  Stocked <- DepotOnly
  Kind <- MCKind
  Lines <- MCLines
  MoveLimit = 2
INVARIANTS
  DoneMeansMoved
  KnownLevelIsSum
  NeverOversold
  MovesWithItsFlip
PROPERTIES
  RequestsFinish
CHECK_DEADLOCK FALSE
