----------------------------- MODULE MCMonitor -----------------------------
(* A few threads that use one lock and one condition variable. *)
EXTENDS Monitor
=============================================================================
