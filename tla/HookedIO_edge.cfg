CONSTANTS
  None = None
  Threads = {t1, t2}
  Fibers = {f1}
  Timed <- NoDirection
  Uses <- HalfDuplex
  Sharing = FALSE
SPECIFICATION Spec
INVARIANTS
  NoLostWakeup
CHECK_DEADLOCK FALSE
