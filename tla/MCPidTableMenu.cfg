CONSTANTS
  Procs = {k, a, b, c}
  KProc = k
  PROCS_MAX = 4
  PID_MIN = 2
  PID_MAX = 6
  Statuses = {s0}
  NULL = NULL
  MenuForkFails = TRUE
SPECIFICATION Spec
INVARIANTS NoPanic
