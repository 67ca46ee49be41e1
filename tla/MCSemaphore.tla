---------------------------- MODULE MCSemaphore ----------------------------
(* Threads that call P on one semaphore at will, and V from anywhere. *)
EXTENDS Semaphore

=============================================================================
