\* Two processes, parent and child in turn, with two descriptors each on two open
\* files: every way to share, and a full table.  No symmetry, for the fairness.
CONSTANTS
  Root = p0
  Procs = {p0, p1}
  Files = {f1, f2}
  OPEN_MAX = 2
  MAX_OFFSET = 1
  NULL = NULL
SPECIFICATION Spec
INVARIANTS RefcountExact OffsetOwned OnlyDirentryPanics
PROPERTY OffsetFreed
\* All processes may have exited, or the kernel panicked.
CHECK_DEADLOCK FALSE
