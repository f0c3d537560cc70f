SPECIFICATION MCSpec
SYMMETRY Alike
CONSTANTS
  Requests = {r1, r2}
  Need = 3
  MOSteps = 2
  Opening = 5
  RoundLimit = 2
  Contents = {a, b}
  Missing = Missing
  VersionLimit = 3
  Ids = {f1, f2, f3}
  Root = Root
  MoveLimit = 2
  Emails = {1, 2}
  MailRounds = 4
  MailFaults = 1
  TokenLimit = 3
  RefreshLimit = 3
  TokenFaults = 1
  SendLimit = 2
  CallFaults = 1
  IdLimit = 2
  Uploads <- TwoSheets
  ColumnMaps <- AsNamedOrTwoForOne
  FirstRows <- TwoRows
  PageSize = 1
  RowLimit = 4
  ChangeLimit = 1
  Entered <- NewRows
  Renamed = {1}
  Orders = {1, 2}
  OrderQty <- TwoOrders
  Stations = {1, 2}
  DailyMinutes <- TwoStations
  Routing <- ThreeSteps
  Starts = {0, 1}
  ScheduleLimit = 2
INVARIANTS
  WorkIsPlannedAndMadeOnce
  FilesAndFoldersLast
  EachIsMailedOnce
  
  ExchangesAddUp
  TokensStayUsable
PROPERTIES
  OptOutLasts
CHECK_DEADLOCK FALSE
