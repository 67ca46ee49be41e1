--------------------------- MODULE MCThreadSched ---------------------------
(* Two CPUs for TLC. *)
EXTENDS ThreadSched, TLC

CONSTANTS boot0, boot1

MCBoot == [c \in Cpus |-> IF c = 0 THEN boot0 ELSE boot1]

\* Threads but for those the CPUs start with are alike.
Forked == Permutations(Threads \ {boot0, boot1})
=============================================================================
