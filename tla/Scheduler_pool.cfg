SPECIFICATION FairSpec
CONSTANTS
  ThreadCnt = 2
  Main = main
  Jobs = {j1, j2}
  NoJob = NoJob
  Pins <- MCPinned
  UseMain = TRUE
  MaxYields = 1
INVARIANTS
  TypeOK
  InOnePlace
  ActiveIsInFlight
  CrashOnlyInYield
  DrainedAtEnd
PROPERTIES
  ImplementsJobPool
  EveryJobSettles
  ShutdownCompletes
