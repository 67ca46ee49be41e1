\* Three processes at a time and four pids: slots and pids wrap and are reused.
\* No symmetry, for WaitReturns.
CONSTANTS
  Procs = {k, a, b, c}
  KProc = k
  PROCS_MAX = 3
  PID_MIN = 2
  PID_MAX = 5
  Statuses = {s0, s1}
  NULL = NULL
  MenuForkFails = TRUE
SPECIFICATION LiveSpec
INVARIANTS TypeOK OnlyMenuPanics CountExact EntriesExact RelativesExact
PROPERTIES ImplementsWaitExit WaitReturns
\* A failed assertion after the menu's thread_fork failed stops the kernel.
CHECK_DEADLOCK FALSE
