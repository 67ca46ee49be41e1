-------------------------- MODULE AtomicSemaphore --------------------------
(***************************************************************************)
(* What kern/include/synch.h promises of a semaphore: P and V are atomic,  *)
(* P decrements a count that is not 0 and otherwise blocks until it is     *)
(* not.  There is no queue and no wake-up here: a waiting thread may go    *)
(* whenever the count allows it, and if the count stays positive one does. *)
(***************************************************************************)
EXTENDS Naturals

CONSTANTS Threads, Initials, SEM_MAX

VARIABLES count,    \* the value
          waiting   \* the threads blocked in P

vars == <<count, waiting>>

Init == /\ count \in Initials
        /\ waiting = {}

\* P that need not block.
Pass(t) == /\ t \notin waiting
           /\ count > 0
           /\ count' = count - 1
           /\ UNCHANGED waiting

\* P that blocks.
Block(t) == /\ t \notin waiting
            /\ count = 0
            /\ waiting' = waiting \cup {t}
            /\ UNCHANGED count

\* A blocked P completes.
Unblock(t) == /\ t \in waiting
              /\ count > 0
              /\ count' = count - 1
              /\ waiting' = waiting \ {t}

V == /\ count < SEM_MAX
     /\ count' = count + 1
     /\ UNCHANGED waiting

\* One V too many: the unsigned count is 0 again, which the kernel does not survive.
Overflow == /\ count = SEM_MAX
            /\ count' = 0
            /\ UNCHANGED waiting

\* The semaphore is destroyed and another one created.
Renew == /\ waiting = {}
         /\ count' \in Initials
         /\ UNCHANGED waiting

SomeUnblocks == \E t \in Threads : Unblock(t)

Next == \/ \E t \in Threads : Pass(t) \/ Block(t)
        \/ SomeUnblocks
        \/ V \/ Overflow
        \/ Renew

SafeSpec == Init /\ [][Next]_vars
Spec == SafeSpec /\ WF_vars(SomeUnblocks)
=============================================================================
