CONSTANTS
  None = None
  Threads = {t1}
  Fibers = {f1}
  Timed <- AllDirections
  Uses <- HalfDuplex
  Sharing = FALSE
SPECIFICATION Spec
PROPERTIES
  TimeoutIsOwn
CHECK_DEADLOCK FALSE
