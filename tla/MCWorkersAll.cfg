SPECIFICATION MCSpec
CONSTANTS
  j1 = j1
  j2 = j2
  Jobs = {j1, j2}
  Schedules <- MCSchedules
  FirstSchedule <- MCFirstSchedule
  Retention = 1
  Callers = {c1}
  EventLimit = 1
  Claims = {1, 2}
  FirstStatus <- MCFirstStatus
  LineLimit = 1
  RelayBatch = 2
  RelayFaultLimit = 1
  Builds <- MCBuilds
  BootLimit = 2
  Workers = {w1, w2}
  Requests = {r1, r2}
  Nobody = Nobody
  Events = {1, 2}
  DueAt <- MCDueAt
  Batch = 1
  Horizon = 1
  FaultLimit = 2
INVARIANTS
  SentOnce
  RunsAddUp
  DeliveredAtLeastOnce
  PaidOnce
  StartsAgree
PROPERTIES
  DueWorkIsDone
CHECK_DEADLOCK FALSE
