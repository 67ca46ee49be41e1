-------------------------------- MODULE MCSfs --------------------------------
(* Instances of Sfs for TLC. *)
EXTENDS Sfs, TLC

Alike == Permutations(Threads) \cup Permutations(Names)
=============================================================================
