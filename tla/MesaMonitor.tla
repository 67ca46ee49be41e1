---------------------------- MODULE MesaMonitor ----------------------------
(***************************************************************************)
(* What kern/include/synch.h promises of a lock and a condition variable   *)
(* used with it: one holder; cv_wait releases the lock and waits in one    *)
(* atomic step, so that a signal sent later by a holder finds the waiter;  *)
(* cv_signal lets one waiter go on to the lock, cv_broadcast all of them   *)
(* (Mesa semantics: they compete for it with everyone else).               *)
(***************************************************************************)
CONSTANTS Threads, NULL

VARIABLES holder,     \* the thread that holds the lock, or NULL
          told,       \* the holder has called cv_signal or cv_broadcast
          entering,   \* the threads blocked in lock_acquire
          waiting     \* the threads in cv_wait that nobody has signalled

vars == <<holder, told, entering, waiting>>

Init == holder = NULL /\ told = FALSE /\ entering = {} /\ waiting = {}

\* lock_acquire that need not block, or that blocks.
Acquire(t) == /\ t \notin entering \cup waiting
              /\ t # holder
              /\ \/ holder = NULL /\ holder' = t /\ UNCHANGED entering
                 \/ holder # NULL /\ entering' = entering \cup {t} /\ UNCHANGED holder
              /\ UNCHANGED <<told, waiting>>

\* A blocked lock_acquire returns.
Enter(t) == /\ holder = NULL
            /\ t \in entering
            /\ holder' = t
            /\ entering' = entering \ {t}
            /\ UNCHANGED <<told, waiting>>

Release(t) == /\ holder = t
              /\ holder' = NULL
              /\ told' = FALSE
              /\ UNCHANGED <<entering, waiting>>

Wait(t) == /\ holder = t
           /\ holder' = NULL
           /\ told' = FALSE
           /\ waiting' = waiting \cup {t}
           /\ UNCHANGED entering

\* The threads of S, all waiting, go on to the lock.
Notify(t, S) == /\ holder = t
                /\ ~told
                /\ told' = TRUE
                /\ waiting' = waiting \ S
                /\ entering' = entering \cup S
                /\ UNCHANGED holder

Signal(t) == \/ waiting = {} /\ Notify(t, {})
             \/ \E u \in waiting : Notify(t, {u})

Broadcast(t) == Notify(t, waiting)

SomeEnter == \E t \in Threads : Enter(t)

Next == \/ \E t \in Threads : Acquire(t) \/ Release(t) \/ Wait(t) \/ Signal(t) \/ Broadcast(t)
        \/ SomeEnter

SafeSpec == Init /\ [][Next]_vars
Spec == SafeSpec /\ WF_vars(SomeEnter)
=============================================================================
