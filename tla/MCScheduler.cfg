SPECIFICATION FairSpec
CONSTANTS
  block1 = block1
  block2 = block2
  block3 = block3
  struct1 = struct1
  bulk1 = bulk1
  bulk2 = bulk2
  Req <- MCReq
  ClassOf <- MCClassOf
  Concurrency = 2
  Aging = TRUE
  MaxSteps = 1
INVARIANTS SlotsKept NobodyLeftBehind LoopAgrees
PROPERTIES GrantsFollowTheKeys UrgentIsServed
