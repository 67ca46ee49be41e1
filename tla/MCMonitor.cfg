\* Four threads: a holder, a newcomer, a woken thread and a waiter at once.
CONSTANTS
  Threads = {t1, t2, t3, t4}
  NULL = NULL
SPECIFICATION Spec
INVARIANTS HolderInside NoLostLockWakeup
PROPERTY ImplementsMonitor
\* All threads may be waiting for a signal.
CHECK_DEADLOCK FALSE
