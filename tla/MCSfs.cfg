CONSTANTS
  Threads = {t1, t2}
  Names = {a, b}
  NBlocks = 4
  NDIRECT = 1
  DBPERIDB = 2
  MaxFaults = 1
  NULL = NULL
SPECIFICATION Spec
SYMMETRY Alike
INVARIANTS BlocksExact LinksExact RefsExact OnlyKnownPanics
PROPERTY ImplementsFiles
\* A panic stops the kernel.
CHECK_DEADLOCK FALSE
