SPECIFICATION Spec
CONSTANTS
  shop = shop
  depot = depot
  move = move
  transfer = transfer
  sale = sale
  order = order
  Reqs = {r1, r2}
  NoReq = NoReq
  NoDoc = NoDoc
  Cells = {shop, depot}
  Docs = {transfer}
  Opening <- TwoInDepot
  Stocked <- DepotOnly
  Kind <- MCKind
  Lines <- MCLines
  MoveLimit = 1
INVARIANTS
  TransferMovesOnce
CHECK_DEADLOCK FALSE
