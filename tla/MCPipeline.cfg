SPECIFICATION Spec
CONSTANTS
  b1 = b1
  b2 = b2
  b3 = b3
  main = main
  notes = notes
  free = free
  meek = meek
  order = order
  Block <- MCBlock
  Track <- MCTrack
  Name <- MCName
  Type <- MCType
  LeafTypes <- LeafOf
  Order <- MCOrder
  Ref <- MCRef
  Main = main
  SideTracks <- MCSide
  Analyzers <- MCAnalyzers
  ReadingOrder = order
  Permits <- MCPermits
  Calibrating <- MCCalibrating
  Original <- MCOriginal
  MaxOps = 1
  MaxRuns = 2
  AtomicTypes <- AtomicOf
  MuteTypes <- MuteOf
  Titles <- MCTitles
  Tokens <- MCTokens
  MaxTokens = 2
CHECK_DEADLOCK FALSE
INVARIANT TracksAcyclic
INVARIANT CalibratedOnce
INVARIANT ChunksSound
INVARIANT ChunksFollowTheDocument
PROPERTY ImplementsContract
