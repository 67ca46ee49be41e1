\* Two pages (0: text, read only; 1: stack), three frames, three address spaces.
CONSTANTS
  Procs = {p1, p2}
  CPUs = {c1, c2}
  NPages = 2
  ImagePages = {0}
  Writable = {1}
  Frames = {f1, f2, f3}
  Spaces = {a1, a2, a3}
  NULL = NULL
  NUM_TLB = 2
  Values = {0, 1}
  Programs = {1}
  Zero = 0
  Nobody = Nobody
SPECIFICATION Spec
SYMMETRY Interchangeable
INVARIANTS OneOwner TlbCoherent
PROPERTY ImplementsMemory
\* A panic for lack of memory stops the system.
CHECK_DEADLOCK FALSE
