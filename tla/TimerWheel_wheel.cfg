SPECIFICATION FairSpec
CONSTANTS
  MaxBack = 1
  mSlotNum = 3
  mTickTime = 2
  t1 = t1
  t2 = t2
  t3 = t3
  Timers = {t1, t2, t3}
  Interval <- MCShort
  Recurring = {t2}
  Deletable = {t1, t3}
INVARIANTS
  TypeOK
  InOneList
  WithinARevolution
PROPERTIES
  OnlyArmedFires
  NeverEarly
  EveryTimerFires
