CONSTANTS
  None = None
  Threads = {t1, t2}
  Fibers = {f1, f2}
  Timed <- Reads
  Uses <- Readers
  Sharing = TRUE
SPECIFICATION TrafficSpec
INVARIANTS
  TypeOK
  OneWake
  Registered
  InStep
CHECK_DEADLOCK FALSE
PROPERTY TrafficResumes
