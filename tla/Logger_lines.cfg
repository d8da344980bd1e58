SPECIFICATION Spec
CONSTANTS
  t1 = t1
  t2 = t2
  Threads = {t1, t2}
  Names = {"stdout", "log.txt"}
  Stdout = "stdout"
  Alpha <- MCAlpha
  Default <- MCDefault
  May <- MCMay
INVARIANTS
  TypeOK
  LinesAreWhole
PROPERTIES
  LockIsFreed
