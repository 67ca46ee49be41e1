\* Three threads: migration then finds no victim but curthread, and moves nobody.
\* No symmetry, for liveness.
CONSTANTS
  CpuCount = 2
  boot0 = boot0
  boot1 = boot1
  Threads = {boot0, boot1, a}
  NULL = NULL
  Boot <- MCBoot
SPECIFICATION Spec
PROPERTIES ImplementsRunStates LeavesRunQueue
