SPECIFICATION Spec
CONSTANTS
  ThreadCnt = 2
  Main = main
  Jobs = {j1}
  NoJob = NoJob
  Pins <- MCAnyThread
  UseMain = FALSE
  MaxYields = 1
INVARIANT StackExclusive
