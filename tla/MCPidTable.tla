----------------------------- MODULE MCPidTable -----------------------------
(* Instances of PidTable for TLC. *)
EXTENDS PidTable, TLC

\* All processes but the kernel's are alike.
Users == Permutations(Procs \ {KProc})
=============================================================================
