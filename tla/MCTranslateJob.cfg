SPECIFICATION FairSpec
CONSTANTS
  u1 = u1
  u2 = u2
  u3 = u3
  w1 = w1
  w2 = w2
  w3 = w3
  None = None
  Unit <- ThreeUnits
  Worker <- TwoWorkers
  Replies <- AnyReply
  MAX_ATTEMPTS = 2
  RETIRE_AFTER = 3
CHECK_DEADLOCK FALSE
INVARIANTS
  EachUnitInOnePlace
  NoUnitAbandoned
PROPERTY JobEnds
PROPERTY ImplementsWorkList
