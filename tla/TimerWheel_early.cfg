SPECIFICATION Spec
CONSTANTS
  MaxBack = 0
  mSlotNum = 3
  mTickTime = 2
  t1 = t1
  t2 = t2
  t3 = t3
  Timers = {t1}
  Interval <- MCLong
  Recurring = {}
  Deletable = {}
PROPERTY NeverEarly
