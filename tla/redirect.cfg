CONSTANTS
  Procs = {p0, p1}
  Root = p0
  NULL = NULL
  MaxFds = 1
  Threads = {t1}
  Callers = {p0, p1}
SPECIFICATION Spec
PROPERTIES TrueMeansExecuted
CHECK_DEADLOCK FALSE
