SPECIFICATION GateSpec
CONSTANTS
  block1 = block1
  bulk1 = bulk1
  bulk2 = bulk2
  bulk3 = bulk3
  Req <- MCReq
  ClassOf <- MCClassOf
  Concurrency = 2
  Aging = TRUE
  MaxSteps = 1
  MaxQueue = 3
  Budget = 2
  MaxSeconds = 2
CHECK_DEADLOCK FALSE
INVARIANT GateCoversLive
INVARIANT OvershootBounded
PROPERTY SchedulerProtocolKept
