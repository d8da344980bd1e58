CONSTANTS
  None = None
  Threads = {t1}
  Fibers = {f1, f2}
  Timed <- Reads
  Uses <- FullDuplex
  Sharing = TRUE
SPECIFICATION Spec
INVARIANTS
  NoLostWakeup
  TimeoutAhead
CHECK_DEADLOCK FALSE
