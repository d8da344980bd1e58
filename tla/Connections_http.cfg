CONSTANTS
  ConnCnt = 3
  Acceptors = {a1}
  Numbers = {0, 1}
  LisFd = 0
  Lis = Lis
  None = None
  ThreadCnt = 2
  Twice = FALSE
  Talkers = {1, 3}
SPECIFICATION FairSpec
INVARIANTS
  TypeOK
  OwnConnection
  TablesFollow
PROPERTIES
  EveryConnectionAccepted
  EveryEndCloses
  StopTakesEffect
CHECK_DEADLOCK FALSE
