----------------------------- MODULE Semaphore -----------------------------
(***************************************************************************)
(* The semaphore of kern/thread/synch.c on the wait channel of             *)
(* kern/thread/thread.c.  sem_lock, a spinlock, covers the whole of V and  *)
(* of P up to the moment the caller is on the wait channel, so each of     *)
(* these stretches is one action; a thread that was woken takes sem_lock   *)
(* again in an action of its own, and anything may happen before it.       *)
(* V is also called from interrupt handlers: it has no calling thread.     *)
(***************************************************************************)
EXTENDS Naturals, Sequences, FiniteSets

CONSTANTS Callers,    \* the threads
          Initials,   \* the initial_count values sem_create is called with
          SEM_MAX     \* the largest unsigned value

ASSUME SemAssumption == SEM_MAX \in Nat /\ Initials \subseteq 0..SEM_MAX
ASSUME CallersAssumption == IsFiniteSet(Callers)

VARIABLES sem_count,
          sem_wchan,   \* the threads asleep, in the order they went to sleep
          woken,       \* made runnable by V, sem_lock not yet taken again
          alive,       \* the semaphore exists
          panic        \* a KASSERT failed

sem_vars == <<sem_count, sem_wchan, woken, alive, panic>>

Asleep == {sem_wchan[i] : i \in DOMAIN sem_wchan}
InP == Asleep \cup woken

SemInit == /\ sem_count \in Initials
           /\ sem_wchan = <<>>
           /\ woken = {}
           /\ alive = TRUE
           /\ panic = FALSE

\* sem_create.
Create(n) == /\ ~alive
             /\ sem_count' = n
             /\ sem_wchan' = <<>>
             /\ alive' = TRUE
             /\ UNCHANGED <<woken, panic>>

\* sem_destroy.  Its callers know that no P is under way; it asserts less,
\* that no thread is asleep.
Destroy == /\ alive
           /\ InP = {}
           /\ panic' = (sem_wchan # <<>>)
           /\ alive' = FALSE
           /\ UNCHANGED <<sem_count, sem_wchan, woken>>

\* The loop of P: it finds the count positive, or goes to sleep.
Take == /\ sem_count > 0
        /\ sem_count' = sem_count - 1
        /\ UNCHANGED <<sem_wchan, panic>>

Sleep(t) == /\ sem_count = 0
            /\ sem_wchan' = Append(sem_wchan, t)
            /\ UNCHANGED <<sem_count, panic>>

\* The body of P up to the first sleep.
P(t) == /\ alive
        /\ t \notin InP
        /\ Take \/ Sleep(t)
        /\ UNCHANGED <<woken, alive>>

PWokenOnce(t) ==                                \* mutant: if instead of while
  /\ t \in woken
  /\ woken' = woken \ {t}
  /\ panic' = (sem_count = 0)
  /\ sem_count' = IF sem_count = 0 THEN 0 ELSE sem_count - 1
  /\ UNCHANGED <<sem_wchan, alive>>

\* P after wchan_sleep returned: the loop tests the count again.
PWoken(t) == /\ t \in woken
             /\ Take \/ Sleep(t)
             /\ woken' = woken \ {t}
             /\ UNCHANGED alive

WakeOneIfZero ==                                \* mutant: wakes on 0 -> 1 only
  IF sem_wchan # <<>> /\ sem_count = 0
  THEN sem_wchan' = Tail(sem_wchan) /\ woken' = woken \cup {Head(sem_wchan)}
  ELSE UNCHANGED <<sem_wchan, woken>>

\* wchan_wakeone.
WakeOne == IF sem_wchan # <<>>
           THEN sem_wchan' = Tail(sem_wchan) /\ woken' = woken \cup {Head(sem_wchan)}
           ELSE UNCHANGED <<sem_wchan, woken>>

VUnchecked ==                                   \* mutant: no assertion
  /\ alive
  /\ sem_count' = sem_count + 1
  /\ WakeOne
  /\ UNCHANGED <<panic, alive>>

\* V, whose increment must not wrap to 0.
V == /\ alive
     /\ IF sem_count = SEM_MAX
        THEN sem_count' = 0 /\ panic' = TRUE /\ UNCHANGED <<sem_wchan, woken>>
        ELSE sem_count' = sem_count + 1 /\ WakeOne /\ UNCHANGED panic
     /\ UNCHANGED alive

SemNext == /\ ~panic
           /\ \/ \E n \in Initials : Create(n)
              \/ Destroy
              \/ \E t \in Callers : P(t) \/ PWoken(t)
              \/ V

\* A runnable thread is run.
SemSpec == /\ SemInit /\ [][SemNext]_sem_vars
           /\ \A t \in Callers : WF_sem_vars(~panic /\ PWoken(t))

-----------------------------------------------------------------------------
SemTypeOK == /\ sem_count \in 0..SEM_MAX
             /\ sem_wchan \in Seq(Callers)
             /\ woken \subseteq Callers
             /\ alive \in BOOLEAN
             /\ panic \in BOOLEAN

\* A thread is in one place: asleep once, or woken, or outside P.  (Part of the
\* inductive invariant of NoLostWakeup.)
OnePlace == /\ \A i, j \in DOMAIN sem_wchan : i # j => sem_wchan[i] # sem_wchan[j]
            /\ Asleep \cap woken = {}

\* No wake-up is lost.  While a thread sleeps in P, every unit of the count is
\* spoken for by a thread that V has woken: nobody sleeps beside a count that
\* nobody is coming to take, although P lets newcomers overtake the woken.
NoLostWakeup == ~panic /\ sem_wchan # <<>> => sem_count <= Cardinality(woken)

Atomic == INSTANCE AtomicSemaphore WITH Threads <- Callers, count <- sem_count, waiting <- InP

\* Queue, wake-ups, retries and overtaking implement the atomic P and V that
\* synch.h promises, with its progress: while the count stays positive and
\* threads wait in P, one of them gets through.
ImplementsSemaphore == Atomic!Spec
=============================================================================
