\* Three goroutines race for the first call; two of them may want the same
\* procedure.
SPECIFICATION Spec
CONSTANTS
  Threads = {t1, t2, t3}
  Procs = {p1, p2}
  Logger = logger
  None = none
INVARIANTS
  LoadInv
  LoadedOnce
PROPERTIES
  ReturnsAddr
  CallReturns
