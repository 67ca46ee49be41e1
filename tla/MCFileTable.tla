---------------------------- MODULE MCFileTable ----------------------------
(* A few processes that share a few open files. *)
EXTENDS FileTable, TLC

Interchangeable == Permutations(Procs \ {Root}) \cup Permutations(Files)
=============================================================================
