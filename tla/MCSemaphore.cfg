\* Four threads; counts up to 3, where V's assertion fires.
CONSTANTS
  Callers = {t1, t2, t3, t4}
  Initials = {0, 1, 2}
  SEM_MAX = 3
SPECIFICATION SemSpec
INVARIANTS SemTypeOK NoLostWakeup
PROPERTY ImplementsSemaphore
\* A failed assertion stops the kernel.
CHECK_DEADLOCK FALSE
