SPECIFICATION FairSpec
CONSTANTS
  t1 = t1
  t2 = t2
  j1 = j1
  j2 = j2
  Threads = {t1, t2}
  Main = Main
  Jobs = {j1, j2}
  FromMain = {j1}
  Pin <- MCPin
  Does <- MCDoes
  mTickTime = 2
  MaxTimers = 1
INVARIANTS
  TypeOK
  WorkConserving
  LeavesNothing
PROPERTIES
  EveryTaskTaken
  TimersFire
  ShutdownNoticed
CHECK_DEADLOCK FALSE
