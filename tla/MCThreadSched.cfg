\* Four threads: with fewer, no thread but curthread is ever migrated.
CONSTANTS
  CpuCount = 2
  boot0 = boot0
  boot1 = boot1
  Threads = {boot0, boot1, a, b}
  NULL = NULL
  Boot <- MCBoot
SPECIFICATION SafeSpec
INVARIANTS OnePlace NoIdleWork VictimsSuffice
SYMMETRY Forked
