------------------------------- MODULE MCSemfs -------------------------------
(* Instances of Semfs for TLC. *)
EXTENDS Semfs, TLC

Alike == Permutations(Threads) \cup Permutations(Names)
=============================================================================
