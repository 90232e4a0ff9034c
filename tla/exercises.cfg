CONSTANTS
  Procs = {p0, p1, p2}
  Root = p0
  NULL = NULL
  MaxFds = 1
  Threads = {t1, t2}
  Callers = {p0, p1}
SPECIFICATION FairSpec
INVARIANTS TypeOK OneCaller Redirected MutexHeld
PROPERTIES DoExecExecuted CallsReturn ThreadsFinish
CHECK_DEADLOCK FALSE
