SPECIFICATION Spec
CONSTANTS
  Levels <- TwoLevels
  Grids <- SomeGrids
  Boxes <- SomeBoxes
  Longest <- ShortSources
  MaxElements = 4
  MaxWords = 2
INVARIANT WordsKept
INVARIANT NestingSound
INVARIANT StructureAsDeclared
CHECK_DEADLOCK FALSE
