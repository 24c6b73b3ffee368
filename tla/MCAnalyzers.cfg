SPECIFICATION Spec
CONSTANTS
  Documents <- MCDocuments
  OcrReadings <- MCOcrReadings
  PageAnswers <- MCPageAnswers
  PageInks <- MCPageInks
  Scanned = {1}
  MinRepeat = 2
  TitlePages = 3
  MaxCalls = 1
  MaxTrouble = 1
  MaxUnits = 4
INVARIANTS NeverRefused WordsOnce TreeSound LinesIntact OrderKept ReferencesHold EveryWordPrinted PagesSetOnce
CHECK_DEADLOCK FALSE
