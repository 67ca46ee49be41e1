CONSTANTS
  Threads = {t1, t2, t3}
  Names = {a}
  MaxSems = 1
  Width = 4
  MaxAmount = 2
  MemFails = FALSE
  NULL = NULL
SPECIFICATION Spec
INVARIANT NoSleeperForgotten
\* Every thread may be asleep in a P; a failed assertion stops the kernel.
CHECK_DEADLOCK FALSE
