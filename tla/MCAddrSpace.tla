----------------------------- MODULE MCAddrSpace -----------------------------
(* Two processes on two processors, with few frames. *)
EXTENDS AddrSpace, TLC

\* No definition tells two of these apart.
Interchangeable == Permutations(CPUs) \cup Permutations(Procs)
                   \cup Permutations(Frames) \cup Permutations(Spaces)
=============================================================================
