SPECIFICATION FairSpec
CONSTANTS
  r1 = r1
  r2 = r2
  r3 = r3
  small1 = small1
  small2 = small2
  large = large
  huge = huge
  None = None
  Req <- TwoReq
  Loader <- MCLoader
  Vram <- MCVram
  Budget = 4
INVARIANT OverBudgetOnlyAlone
PROPERTY RequestsEnd
