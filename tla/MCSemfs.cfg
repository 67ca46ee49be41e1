CONSTANTS
  Threads = {t1, t2, t3}
  Names = {a, b}
  MaxSems = 2
  Width = 3
  MaxAmount = 2
  MemFails = TRUE
  NULL = NULL
SPECIFICATION Spec
SYMMETRY Alike
INVARIANTS TableExact RefsExact OnlyKnownPanics NoLockDeadlock
PROPERTIES ImplementsSemaphores
\* Every thread may be asleep in a P; a failed assertion stops the kernel.
CHECK_DEADLOCK FALSE
