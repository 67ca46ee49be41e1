------------------------------ MODULE Monitor ------------------------------
(***************************************************************************)
(* The sleep lock and the condition variable of kern/thread/synch.c, used  *)
(* together as the kernel uses them: a thread takes the lock, may wait on  *)
(* the condition variable or wake its waiters, and releases the lock.      *)
(*                                                                         *)
(* Each wait channel is covered by a spinlock: lk_lock covers all of       *)
(* lock_acquire up to the sleep and all of lock_release, and is implicit   *)
(* in the actions.  cv_wchanlock is a variable, because cv_wait holds it   *)
(* across lock_release, when others may already take the lock.             *)
(***************************************************************************)
EXTENDS Naturals, Sequences, FiniteSets

CONSTANTS Threads,
          NULL        \* no holder

ASSUME NullAssumption == NULL \notin Threads

VARIABLES lk_holder,
          lk_wchan,       \* threads asleep in lock_acquire
          cv_wchanlock,   \* the thread that holds the spinlock, or NULL
          cv_wchan,       \* threads asleep in cv_wait
          pc              \* where each thread is, see Places

vars == <<lk_holder, lk_wchan, cv_wchanlock, cv_wchan, pc>>

\* out: uses neither.  asleep: on lk_wchan.  woken: taken off it, to try again.
\* in: holds the lock.  told: holds it, has called cv_signal or cv_broadcast.
\* leaving: in cv_wait, lock released, not yet asleep.  waiting: on cv_wchan.
\* notified: taken off it, to call lock_acquire.
Places == {"out", "asleep", "woken", "in", "told", "leaving", "waiting", "notified"}

At(S) == {t \in Threads : pc[t] \in S}
Elems(s) == {s[i] : i \in DOMAIN s}

Init == /\ lk_holder = NULL
        /\ lk_wchan = <<>>
        /\ cv_wchanlock = NULL
        /\ cv_wchan = <<>>
        /\ pc = [t \in Threads |-> "out"]

Holding(t) == pc[t] \in {"in", "told"}

LockTestsOnce(t) ==                             \* mutant: if instead of while
  \/ /\ lk_holder = NULL \/ pc[t] = "woken"
     /\ lk_holder' = t
     /\ pc' = [pc EXCEPT ![t] = "in"]
     /\ UNCHANGED lk_wchan
  \/ /\ lk_holder # NULL /\ pc[t] # "woken"
     /\ lk_wchan' = Append(lk_wchan, t)
     /\ pc' = [pc EXCEPT ![t] = "asleep"]
     /\ UNCHANGED lk_holder

\* The loop of lock_acquire up to its end or the next sleep.
LockTests(t) == \/ /\ lk_holder = NULL
                   /\ lk_holder' = t
                   /\ pc' = [pc EXCEPT ![t] = "in"]
                   /\ UNCHANGED lk_wchan
                \/ /\ lk_holder # NULL
                   /\ lk_wchan' = Append(lk_wchan, t)
                   /\ pc' = [pc EXCEPT ![t] = "asleep"]
                   /\ UNCHANGED lk_holder

\* lock_acquire: on its first test of the holder, after a wake-up, or at the
\* end of cv_wait.
Acquire(t) == /\ pc[t] \in {"out", "woken", "notified"}
              /\ LockTests(t)
              /\ UNCHANGED <<cv_wchanlock, cv_wchan>>

UnlockSilently(t, next) ==                      \* mutant: no wchan_wakeone
  /\ lk_holder' = NULL
  /\ pc' = [pc EXCEPT ![t] = next]
  /\ UNCHANGED lk_wchan

\* lock_release by t, which goes on at next.
Unlock(t, next) ==
  /\ lk_holder' = NULL
  /\ IF lk_wchan = <<>>
     THEN pc' = [pc EXCEPT ![t] = next] /\ UNCHANGED lk_wchan
     ELSE /\ pc' = [pc EXCEPT ![t] = next, ![Head(lk_wchan)] = "woken"]
          /\ lk_wchan' = Tail(lk_wchan)

Release(t) == /\ Holding(t)
              /\ Unlock(t, "out")
              /\ UNCHANGED <<cv_wchanlock, cv_wchan>>

CvWaitUnlocked(t) ==                            \* mutant: spinlock taken too late
  /\ Holding(t)
  /\ Unlock(t, "leaving")
  /\ UNCHANGED <<cv_wchanlock, cv_wchan>>

\* cv_wait takes the spinlock and releases the lock ...
CvWait(t) == /\ Holding(t)
             /\ cv_wchanlock = NULL
             /\ cv_wchanlock' = t
             /\ Unlock(t, "leaving")
             /\ UNCHANGED cv_wchan

\* ... and goes to sleep, which releases the spinlock.
CvSleep(t) == /\ pc[t] = "leaving"
              /\ cv_wchan' = Append(cv_wchan, t)
              /\ cv_wchanlock' = NULL
              /\ pc' = [pc EXCEPT ![t] = "waiting"]
              /\ UNCHANGED <<lk_holder, lk_wchan>>

\* cv_signal, by the holder of the lock as synch.h demands; once per stay.
Signal(t) == /\ pc[t] = "in"
             /\ cv_wchanlock = NULL
             /\ IF cv_wchan = <<>>
                THEN pc' = [pc EXCEPT ![t] = "told"] /\ UNCHANGED cv_wchan
                ELSE /\ pc' = [pc EXCEPT ![t] = "told", ![Head(cv_wchan)] = "notified"]
                     /\ cv_wchan' = Tail(cv_wchan)
             /\ UNCHANGED <<lk_holder, lk_wchan, cv_wchanlock>>

\* cv_broadcast, likewise.
Broadcast(t) == /\ pc[t] = "in"
                /\ cv_wchanlock = NULL
                /\ pc' = [u \in Threads |-> CASE u = t -> "told"
                                              [] u \in Elems(cv_wchan) -> "notified"
                                              [] OTHER -> pc[u]]
                /\ cv_wchan' = <<>>
                /\ UNCHANGED <<lk_holder, lk_wchan, cv_wchanlock>>

Next == \E t \in Threads : \/ Acquire(t) \/ Release(t)
                           \/ CvWait(t) \/ CvSleep(t)
                           \/ Signal(t) \/ Broadcast(t)

\* A runnable thread is run; what a thread does with the lock is its own affair.
Spec == /\ Init /\ [][Next]_vars
        /\ \A t \in Threads : WF_vars(pc[t] # "out" /\ Acquire(t)) /\ WF_vars(CvSleep(t))

-----------------------------------------------------------------------------
TypeOK == /\ lk_holder \in Threads \cup {NULL}
          /\ lk_wchan \in Seq(Threads)
          /\ cv_wchanlock \in Threads \cup {NULL}
          /\ cv_wchan \in Seq(Threads)
          /\ pc \in [Threads -> Places]

\* Mutual exclusion: the threads that believe they hold the lock are exactly
\* lk_holder.  It is what the KASSERTs of lock_acquire and lock_release rely on.
HolderInside == \A t \in Threads : Holding(t) <=> lk_holder = t

\* A free lock that threads sleep for has a woken thread on its way to it,
\* whether lock_release or cv_wait freed it and whoever overtook it since.
NoLostLockWakeup == lk_holder = NULL /\ lk_wchan # <<>> => At({"woken"}) # {}

Abstract == INSTANCE MesaMonitor
              WITH holder <- lk_holder,
                   told <- At({"told"}) # {},
                   entering <- At({"asleep", "woken", "notified"}),
                   waiting <- At({"leaving", "waiting"})

\* Queues, spinlocks and retries implement the monitor: the wait is atomic with
\* the release of the lock, so no signal falls in between; a signal wakes a
\* waiter if there is one, a broadcast all; a free lock that is wanted is taken.
ImplementsMonitor == Abstract!Spec
=============================================================================
