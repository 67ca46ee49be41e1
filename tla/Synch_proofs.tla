---------------------------- MODULE Synch_proofs ----------------------------
(***************************************************************************)
(* Proofs about kern/thread/synch.c.  Of Monitor, the locks and condition  *)
(* variables: mutual exclusion, no lost wake-up of lock_acquire and the    *)
(* safety of the Mesa monitor.  Of Semaphore: no lost wake-up of P and the *)
(* safety of the atomic P and V.  For any set of threads.                  *)
(***************************************************************************)
EXTENDS Monitor, Semaphore, FiniteSetTheorems, TLAPS

Injective(s) == \A i, j \in DOMAIN s : i # j => s[i] # s[j]

\* A wait channel holds each of the threads asleep on it once.
Channels == /\ Injective(lk_wchan) /\ Elems(lk_wchan) = At({"asleep"})
            /\ Injective(cv_wchan) /\ Elems(cv_wchan) = At({"waiting"})

\* Mutual exclusion and the absence of lost wake-ups are inductive together
\* with the types and the contents of the channels.
MonInv == TypeOK /\ Channels /\ HolderInside /\ NoLostLockWakeup

-----------------------------------------------------------------------------
(* Sequences without repetition.                                           *)

\* wchan_wakeone takes the head: the others stay.
LEMMA TailElems ==
  ASSUME NEW S, NEW s \in Seq(S), s # <<>>, Injective(s)
  PROVE  /\ Head(s) \in S /\ Head(s) \in Elems(s)
         /\ Tail(s) \in Seq(S) /\ Injective(Tail(s))
         /\ Elems(Tail(s)) = Elems(s) \ {Head(s)}
<1>1. /\ Len(s) \in Nat /\ Len(s) > 0 /\ DOMAIN s = 1..Len(s) /\ Head(s) = s[1]
      /\ s[1] \in S
  OBVIOUS
<1>2. /\ Tail(s) \in Seq(S)
      /\ DOMAIN Tail(s) = 1..(Len(s) - 1)
      /\ \A i \in 1..(Len(s) - 1) : Tail(s)[i] = s[i + 1]
  BY <1>1
<1>3. Injective(Tail(s))
  BY <1>1, <1>2 DEF Injective
<1>4. \A x \in Elems(Tail(s)) : x \in Elems(s) /\ x # Head(s)
  BY <1>1, <1>2 DEF Elems, Injective
<1>5. ASSUME NEW i \in DOMAIN s, s[i] # Head(s) PROVE s[i] \in Elems(Tail(s))
  <2>1. i - 1 \in DOMAIN Tail(s) /\ Tail(s)[i - 1] = s[i]
    BY <1>1, <1>2, <1>5
  <2> QED
    BY <2>1 DEF Elems
<1>6. Elems(Tail(s)) = Elems(s) \ {Head(s)}
  <2>1. \A x \in Elems(s) : \E i \in DOMAIN s : x = s[i]
    BY DEF Elems
  <2> QED
    BY <1>4, <1>5, <2>1
<1>7. Head(s) \in Elems(s)
  BY <1>1 DEF Elems
<1>8. Head(s) \in S
  BY <1>1
<1> QED
  BY <1>2, <1>3, <1>6, <1>7, <1>8

\* wchan_sleep puts a newcomer at the end.
LEMMA AppendElems ==
  ASSUME NEW S, NEW s \in Seq(S), NEW x \in S, x \notin Elems(s), Injective(s)
  PROVE  /\ Append(s, x) \in Seq(S) /\ Injective(Append(s, x))
         /\ Elems(Append(s, x)) = Elems(s) \cup {x}
<1> DEFINE a == Append(s, x)
<1>1. /\ Len(s) \in Nat /\ DOMAIN s = 1..Len(s)
      /\ a \in Seq(S) /\ DOMAIN a = 1..(Len(s) + 1)
      /\ \A i \in 1..Len(s) : a[i] = s[i]
      /\ a[Len(s) + 1] = x
  OBVIOUS
<1>2. \A i \in 1..Len(s) : s[i] # x
  BY <1>1 DEF Elems
<1>3. Injective(a)
  BY <1>1, <1>2 DEF Injective
<1>4. Elems(a) = Elems(s) \cup {x}
  <2>1. \A y \in Elems(a) : y \in Elems(s) \cup {x}
    BY <1>1 DEF Elems
  <2>2. \A y \in Elems(s) : y \in Elems(a)
    BY <1>1 DEF Elems
  <2>3. x \in Elems(a)
    BY <1>1 DEF Elems
  <2> QED
    BY <2>1, <2>2, <2>3
<1> QED
  BY <1>1, <1>3, <1>4

LEMMA EmptyElems == Elems(<<>>) = {} /\ Injective(<<>>)
BY DEF Elems, Injective

-----------------------------------------------------------------------------
(* Each action keeps MonInv.                                               *)

LEMMA InitMonInv == Init => MonInv
<1> SUFFICES ASSUME Init PROVE MonInv
  OBVIOUS
<1>1. TypeOK
  BY DEF Init, TypeOK, Places
<1>2. Channels
  BY EmptyElems DEF Init, Channels, At
<1>3. HolderInside /\ NoLostLockWakeup
  BY NullAssumption DEF Init, HolderInside, Holding, NoLostLockWakeup
<1> QED
  BY <1>1, <1>2, <1>3 DEF MonInv

LEMMA AcquireMonInv == ASSUME MonInv, NEW t \in Threads, Acquire(t) PROVE MonInv'
<1>1. /\ TypeOK /\ Channels /\ HolderInside /\ NoLostLockWakeup
      /\ pc[t] \in {"out", "woken", "notified"} /\ t # NULL
      /\ cv_wchan' = cv_wchan /\ cv_wchanlock' = cv_wchanlock
  BY NullAssumption DEF MonInv, Acquire
<1>2. CASE lk_holder = NULL /\ lk_holder' = t /\ pc' = [pc EXCEPT ![t] = "in"]
           /\ lk_wchan' = lk_wchan
  <2>1. TypeOK'
    BY <1>1, <1>2 DEF TypeOK, Places
  <2>2. At({"asleep"})' = At({"asleep"}) /\ At({"waiting"})' = At({"waiting"})
    BY <1>1, <1>2 DEF At, TypeOK
  <2>3. Channels'
    BY <1>1, <1>2, <2>2 DEF Channels
  <2>4. HolderInside'
    <3>1. \A u \in Threads : ~ Holding(u)
      BY <1>1, <1>2, NullAssumption DEF HolderInside
    <3>2. pc'[t] = "in" /\ \A u \in Threads \ {t} : pc'[u] = pc[u]
      BY <1>1, <1>2 DEF TypeOK
    <3> QED
      BY <1>2, <3>1, <3>2 DEF HolderInside, Holding
  <2>5. NoLostLockWakeup'
    BY <1>1, <1>2 DEF NoLostLockWakeup
  <2> QED
    BY <2>1, <2>3, <2>4, <2>5 DEF MonInv
<1>3. CASE lk_holder # NULL /\ lk_holder' = lk_holder /\ pc' = [pc EXCEPT ![t] = "asleep"]
           /\ lk_wchan' = Append(lk_wchan, t)
  <2>1. t \notin Elems(lk_wchan) /\ lk_wchan \in Seq(Threads) /\ Injective(lk_wchan)
    BY <1>1 DEF Channels, At, TypeOK
  <2>2. /\ lk_wchan' \in Seq(Threads) /\ Injective(lk_wchan')
        /\ Elems(lk_wchan') = Elems(lk_wchan) \cup {t}
    BY <1>3, <2>1, AppendElems
  <2>3. TypeOK'
    BY <1>1, <1>3, <2>2 DEF TypeOK, Places
  <2>4. At({"asleep"})' = At({"asleep"}) \cup {t} /\ At({"waiting"})' = At({"waiting"})
    BY <1>1, <1>3 DEF At, TypeOK
  <2>5. Channels'
    BY <1>1, <2>2, <2>4 DEF Channels
  <2>6. HolderInside'
    BY <1>1, <1>3 DEF HolderInside, Holding, TypeOK
  <2>7. NoLostLockWakeup'
    BY <1>1, <1>3 DEF NoLostLockWakeup
  <2> QED
    BY <2>3, <2>5, <2>6, <2>7 DEF MonInv
<1> QED
  BY <1>2, <1>3 DEF Acquire, LockTests

\* lock_release, as a call of its own or within cv_wait.
LEMMA UnlockEffect ==
  ASSUME MonInv, NEW t \in Threads, Holding(t), NEW next \in {"out", "leaving"}, Unlock(t, next)
  PROVE  /\ lk_holder' = NULL
         /\ lk_wchan' \in Seq(Threads) /\ Injective(lk_wchan') /\ Elems(lk_wchan') = At({"asleep"})'
         /\ pc' \in [Threads -> Places]
         /\ pc'[t] = next
         /\ \A u \in Threads \ {t} : pc'[u] = pc[u] \/ (pc[u] = "asleep" /\ pc'[u] = "woken")
         /\ HolderInside' /\ NoLostLockWakeup'
<1>1. /\ TypeOK /\ Channels /\ HolderInside /\ lk_holder' = NULL
      /\ pc[t] \in {"in", "told"}
      /\ \A u \in Threads : Holding(u) <=> u = t
  BY DEF MonInv, Unlock, Holding, HolderInside
<1>2. CASE lk_wchan = <<>>
  <2>1. pc' = [pc EXCEPT ![t] = next] /\ lk_wchan' = lk_wchan
    BY <1>2 DEF Unlock
  <2>2. At({"asleep"})' = At({"asleep"})
    BY <1>1, <2>1 DEF At, TypeOK
  <2>3. /\ lk_wchan' \in Seq(Threads) /\ Injective(lk_wchan')
        /\ Elems(lk_wchan') = At({"asleep"})'
    BY <1>1, <2>1, <2>2 DEF TypeOK, Channels
  <2>4. /\ pc' \in [Threads -> Places] /\ pc'[t] = next
        /\ \A u \in Threads \ {t} : pc'[u] = pc[u]
    BY <1>1, <2>1 DEF TypeOK, Places
  <2>5. HolderInside'
    BY <1>1, <2>4, NullAssumption DEF HolderInside, Holding
  <2>6. NoLostLockWakeup'
    BY <1>2, <2>1 DEF NoLostLockWakeup
  <2> QED
    BY <1>1, <2>3, <2>4, <2>5, <2>6
<1>3. CASE lk_wchan # <<>>
  <2> DEFINE h == Head(lk_wchan)
  <2>1. pc' = [pc EXCEPT ![t] = next, ![h] = "woken"] /\ lk_wchan' = Tail(lk_wchan)
    BY <1>3 DEF Unlock
  <2>2. lk_wchan \in Seq(Threads) /\ Injective(lk_wchan)
    BY <1>1 DEF TypeOK, Channels
  <2>3. /\ h \in Threads /\ h \in Elems(lk_wchan)
        /\ lk_wchan' \in Seq(Threads) /\ Injective(lk_wchan')
        /\ Elems(lk_wchan') = Elems(lk_wchan) \ {h}
    BY <1>3, <2>1, <2>2, TailElems
  <2>4. pc[h] = "asleep" /\ h # t
    BY <1>1, <2>3 DEF Channels, At
  <2>5. /\ pc' \in [Threads -> Places] /\ pc'[t] = next /\ pc'[h] = "woken"
        /\ \A u \in Threads \ {t, h} : pc'[u] = pc[u]
    BY <1>1, <2>1, <2>3, <2>4 DEF TypeOK, Places
  <2>6. At({"asleep"})' = At({"asleep"}) \ {h}
    BY <1>1, <2>5, <2>3 DEF At
  <2>7. Elems(lk_wchan') = At({"asleep"})'
    BY <1>1, <2>3, <2>6 DEF Channels
  <2>8. HolderInside'
    BY <1>1, <2>5, <2>3, NullAssumption DEF HolderInside, Holding
  <2>9. NoLostLockWakeup'
    BY <2>5, <2>3 DEF NoLostLockWakeup, At
  <2> QED
    BY <1>1, <2>3, <2>4, <2>5, <2>7, <2>8, <2>9
<1> QED
  BY <1>2, <1>3

LEMMA UnlockMonInv ==
  ASSUME MonInv, NEW t \in Threads, Release(t) \/ CvWait(t) PROVE MonInv'
<1>1. /\ TypeOK /\ Channels
      /\ Holding(t) /\ cv_wchan' = cv_wchan
      /\ cv_wchanlock' \in Threads \cup {NULL}
  BY DEF MonInv, Release, CvWait, TypeOK
<1>2. PICK next \in {"out", "leaving"} : Unlock(t, next)
  BY DEF Release, CvWait
<1>3. /\ lk_holder' = NULL
      /\ lk_wchan' \in Seq(Threads) /\ Injective(lk_wchan') /\ Elems(lk_wchan') = At({"asleep"})'
      /\ pc' \in [Threads -> Places]
      /\ pc'[t] = next
      /\ \A u \in Threads \ {t} : pc'[u] = pc[u] \/ (pc[u] = "asleep" /\ pc'[u] = "woken")
      /\ HolderInside' /\ NoLostLockWakeup'
  BY <1>1, <1>2, UnlockEffect
<1>4. TypeOK'
  BY <1>1, <1>3 DEF TypeOK
<1>5. At({"waiting"})' = At({"waiting"})
  BY <1>1, <1>3 DEF At, Holding
<1>6. Channels'
  BY <1>1, <1>3, <1>5 DEF Channels
<1> QED
  BY <1>3, <1>4, <1>6 DEF MonInv

LEMMA CvSleepMonInv == ASSUME MonInv, NEW t \in Threads, CvSleep(t) PROVE MonInv'
<1>1. /\ TypeOK /\ Channels /\ HolderInside /\ NoLostLockWakeup
      /\ pc[t] = "leaving" /\ pc' = [pc EXCEPT ![t] = "waiting"]
      /\ cv_wchan' = Append(cv_wchan, t) /\ cv_wchanlock' = NULL
      /\ lk_holder' = lk_holder /\ lk_wchan' = lk_wchan
  BY DEF MonInv, CvSleep
<1>2. t \notin Elems(cv_wchan) /\ cv_wchan \in Seq(Threads) /\ Injective(cv_wchan)
  BY <1>1 DEF Channels, At, TypeOK
<1>3. /\ cv_wchan' \in Seq(Threads) /\ Injective(cv_wchan')
      /\ Elems(cv_wchan') = Elems(cv_wchan) \cup {t}
  BY <1>1, <1>2, AppendElems
<1>4. TypeOK'
  BY <1>1, <1>3 DEF TypeOK, Places
<1>5. /\ At({"waiting"})' = At({"waiting"}) \cup {t}
      /\ At({"asleep"})' = At({"asleep"}) /\ At({"woken"})' = At({"woken"})
  BY <1>1 DEF At, TypeOK
<1>6. Channels'
  BY <1>1, <1>3, <1>5 DEF Channels
<1>7. HolderInside'
  BY <1>1 DEF HolderInside, Holding, TypeOK
<1>8. NoLostLockWakeup'
  BY <1>1, <1>5 DEF NoLostLockWakeup
<1> QED
  BY <1>4, <1>6, <1>7, <1>8 DEF MonInv

\* cv_signal takes the first waiter off its channel.
LEMMA SignalMonInv == ASSUME MonInv, NEW t \in Threads, Signal(t) PROVE MonInv'
<1>1. /\ TypeOK /\ Channels /\ HolderInside /\ NoLostLockWakeup
      /\ pc[t] = "in" /\ cv_wchanlock' = cv_wchanlock
      /\ lk_holder' = lk_holder /\ lk_wchan' = lk_wchan
      /\ lk_holder = t
  BY DEF MonInv, Signal, HolderInside, Holding
<1>2. NoLostLockWakeup'
  BY <1>1, NullAssumption DEF NoLostLockWakeup
<1>3. CASE cv_wchan = <<>>
  <2>1. pc' = [pc EXCEPT ![t] = "told"] /\ cv_wchan' = cv_wchan
    BY <1>3 DEF Signal
  <2>2. TypeOK'
    BY <1>1, <2>1 DEF TypeOK, Places
  <2>3. At({"waiting"})' = At({"waiting"}) /\ At({"asleep"})' = At({"asleep"})
    BY <1>1, <2>1 DEF At, TypeOK
  <2>4. Channels'
    BY <1>1, <2>1, <2>3 DEF Channels
  <2>5. HolderInside'
    BY <1>1, <2>1 DEF HolderInside, Holding, TypeOK
  <2> QED
    BY <1>2, <2>2, <2>4, <2>5 DEF MonInv
<1>4. CASE cv_wchan # <<>>
  <2> DEFINE h == Head(cv_wchan)
  <2>1. pc' = [pc EXCEPT ![t] = "told", ![h] = "notified"] /\ cv_wchan' = Tail(cv_wchan)
    BY <1>4 DEF Signal
  <2>2. cv_wchan \in Seq(Threads) /\ Injective(cv_wchan)
    BY <1>1 DEF TypeOK, Channels
  <2>3. /\ h \in Threads /\ h \in Elems(cv_wchan)
        /\ cv_wchan' \in Seq(Threads) /\ Injective(cv_wchan')
        /\ Elems(cv_wchan') = Elems(cv_wchan) \ {h}
    BY <1>4, <2>1, <2>2, TailElems
  <2>4. pc[h] = "waiting" /\ h # t
    BY <1>1, <2>3 DEF Channels, At
  <2>5. /\ pc' \in [Threads -> Places] /\ pc'[t] = "told" /\ pc'[h] = "notified"
        /\ \A u \in Threads \ {t, h} : pc'[u] = pc[u]
    BY <1>1, <2>1, <2>3, <2>4 DEF TypeOK, Places
  <2>6. TypeOK'
    BY <1>1, <2>3, <2>5 DEF TypeOK
  <2>7. At({"waiting"})' = At({"waiting"}) \ {h} /\ At({"asleep"})' = At({"asleep"})
    BY <1>1, <2>3, <2>4, <2>5 DEF At
  <2>8. Channels'
    BY <1>1, <2>3, <2>7 DEF Channels
  <2>9. HolderInside'
    BY <1>1, <2>3, <2>4, <2>5 DEF HolderInside, Holding
  <2> QED
    BY <1>2, <2>6, <2>8, <2>9 DEF MonInv
<1> QED
  BY <1>3, <1>4

LEMMA SignalEffect ==
  ASSUME TypeOK, Channels, NEW t \in Threads, Signal(t)
  PROVE  /\ pc[t] = "in" /\ pc'[t] = "told" /\ cv_wchanlock' = cv_wchanlock
         /\ \A u \in Threads \ {t} : pc'[u] = pc[u] \/ (pc[u] = "waiting" /\ pc'[u] = "notified")
<1>1. pc[t] = "in" /\ cv_wchanlock' = cv_wchanlock
  BY DEF Signal
<1>2. CASE cv_wchan = <<>>
  BY <1>1, <1>2 DEF Signal, TypeOK
<1>3. CASE cv_wchan # <<>>
  <2>1. Head(cv_wchan) \in Threads /\ Head(cv_wchan) \in Elems(cv_wchan)
    BY <1>3, TailElems DEF TypeOK, Channels
  <2>2. pc[Head(cv_wchan)] = "waiting"
    BY <2>1 DEF Channels, At
  <2> QED
    BY <1>1, <1>3, <2>1, <2>2 DEF Signal, TypeOK
<1> QED
  BY <1>2, <1>3

LEMMA BroadcastEffect ==
  ASSUME MonInv, NEW t \in Threads, Broadcast(t)
  PROVE  /\ pc[t] = "in" /\ pc'[t] = "told" /\ cv_wchanlock' = cv_wchanlock
         /\ \A u \in Threads \ {t} : IF pc[u] = "waiting" THEN pc'[u] = "notified"
                                                        ELSE pc'[u] = pc[u]
         /\ pc' \in [Threads -> Places]
<1>0. TypeOK /\ Channels /\ pc[t] = "in" /\ cv_wchanlock' = cv_wchanlock
  BY DEF MonInv, Broadcast
<1>1. \A u \in Threads : u \in Elems(cv_wchan) <=> pc[u] = "waiting"
  BY <1>0 DEF Channels, At
<1>2. pc' = [u \in Threads |-> CASE u = t -> "told"
                                [] u \in Elems(cv_wchan) -> "notified"
                                [] OTHER -> pc[u]]
  BY DEF Broadcast
<1>3. \A u \in Threads : /\ u = t => pc'[u] = "told"
                         /\ u # t /\ pc[u] = "waiting" => pc'[u] = "notified"
                         /\ u # t /\ pc[u] # "waiting" => pc'[u] = pc[u]
  BY <1>0, <1>1, <1>2
<1>4. \A u \in Threads : pc'[u] \in Places
  BY <1>0, <1>3 DEF TypeOK, Places
<1>5. pc' = [u \in Threads |-> pc'[u]]
  BY <1>2
<1> QED
  BY <1>0, <1>3, <1>4, <1>5

\* cv_broadcast takes them all.
LEMMA BroadcastMonInv == ASSUME MonInv, NEW t \in Threads, Broadcast(t) PROVE MonInv'
<1>1. /\ TypeOK /\ Channels /\ HolderInside /\ NoLostLockWakeup
      /\ pc[t] = "in" /\ cv_wchanlock' = cv_wchanlock
      /\ lk_holder' = lk_holder /\ lk_wchan' = lk_wchan
      /\ cv_wchan' = <<>> /\ lk_holder = t
  BY DEF MonInv, Broadcast, HolderInside, Holding
<1>2. NoLostLockWakeup'
  BY <1>1, NullAssumption DEF NoLostLockWakeup
<1>3. /\ pc'[t] = "told"
      /\ \A u \in Threads \ {t} : IF pc[u] = "waiting" THEN pc'[u] = "notified"
                                                     ELSE pc'[u] = pc[u]
      /\ pc' \in [Threads -> Places]
  BY BroadcastEffect
<1>4. TypeOK'
  <2>1. cv_wchan' \in Seq(Threads)
    BY <1>1
  <2> QED
    BY <1>1, <1>3, <2>1 DEF TypeOK
<1>5. At({"waiting"})' = {} /\ At({"asleep"})' = At({"asleep"})
  BY <1>1, <1>3 DEF At
<1>6. Channels'
  BY <1>1, <1>5, EmptyElems DEF Channels
<1>7. HolderInside'
  BY <1>1, <1>3 DEF HolderInside, Holding
<1> QED
  BY <1>2, <1>4, <1>6, <1>7 DEF MonInv

LEMMA NextMonInv == MonInv /\ [Next]_vars => MonInv'
<1> SUFFICES ASSUME MonInv, [Next]_vars PROVE MonInv'
  OBVIOUS
<1>1. CASE Next
  <2>1. PICK t \in Threads : \/ Acquire(t) \/ Release(t)
                            \/ CvWait(t) \/ CvSleep(t)
                            \/ Signal(t) \/ Broadcast(t)
    BY <1>1 DEF Next
  <2> QED
    BY <2>1, AcquireMonInv, UnlockMonInv, CvSleepMonInv, SignalMonInv, BroadcastMonInv
<1>2. CASE UNCHANGED vars
  BY <1>2 DEF MonInv, TypeOK, Channels, At, HolderInside, Holding, NoLostLockWakeup, vars
<1> QED
  BY <1>1, <1>2

LEMMA MonInvHolds == Spec => []MonInv
BY InitMonInv, NextMonInv, PTL DEF Spec

-----------------------------------------------------------------------------
(* The theorems.                                                           *)

\* The holder, the channels and the places stay in their types whatever the
\* threads do with the lock and the condition variable.
THEOREM MonTypeCorrect == Spec => []TypeOK
<1>1. MonInv => TypeOK
  BY DEF MonInv
<1> QED
  BY <1>1, MonInvHolds, PTL

\* Mutual exclusion, for any number of threads: lock_acquire lets no two in,
\* and lock_release is called by the recorded holder.
THEOREM MutualExclusion == Spec => []HolderInside
<1>1. MonInv => HolderInside
  BY DEF MonInv
<1> QED
  BY <1>1, MonInvHolds, PTL

\* lock_release and cv_wait lose no wake-up: a free lock that threads sleep for
\* has a woken thread that will test it again.
THEOREM NoLockWakeupLost == Spec => []NoLostLockWakeup
<1>1. MonInv => NoLostLockWakeup
  BY DEF MonInv
<1> QED
  BY <1>1, MonInvHolds, PTL

-----------------------------------------------------------------------------
(* Monitor implements MesaMonitor.                                         *)

\* From the release of the lock to the sleep, cv_wait holds the spinlock.
Spinlock == \A t \in Threads : pc[t] = "leaving" <=> cv_wchanlock = t

LEMMA SpinlockKept == MonInv /\ Spinlock /\ [Next]_vars => Spinlock'
<1> SUFFICES ASSUME MonInv, Spinlock, [Next]_vars PROVE Spinlock'
  OBVIOUS
<1>0. TypeOK /\ Channels /\ HolderInside
  BY DEF MonInv
<1>1. ASSUME NEW t \in Threads, Acquire(t) PROVE Spinlock'
  BY <1>0, <1>1 DEF Acquire, LockTests, Spinlock, TypeOK
<1>2. ASSUME NEW t \in Threads, Release(t) PROVE Spinlock'
  <2>1. /\ pc[t] \in {"in", "told"} /\ pc'[t] = "out" /\ cv_wchanlock' = cv_wchanlock
        /\ \A u \in Threads \ {t} : pc'[u] = pc[u] \/ (pc[u] = "asleep" /\ pc'[u] = "woken")
    BY <1>2, UnlockEffect DEF Release, Holding
  <2> QED
    BY <2>1 DEF Spinlock
<1>3. ASSUME NEW t \in Threads, CvWait(t) PROVE Spinlock'
  <2>1. /\ pc'[t] = "leaving" /\ cv_wchanlock = NULL /\ cv_wchanlock' = t
        /\ \A u \in Threads \ {t} : pc'[u] = pc[u] \/ (pc[u] = "asleep" /\ pc'[u] = "woken")
    BY <1>3, UnlockEffect DEF CvWait
  <2>2. \A u \in Threads : pc[u] # "leaving"
    BY <2>1, NullAssumption DEF Spinlock
  <2> QED
    BY <2>1, <2>2 DEF Spinlock
<1>4. ASSUME NEW t \in Threads, CvSleep(t) PROVE Spinlock'
  <2>1. /\ cv_wchanlock = t /\ cv_wchanlock' = NULL /\ pc' = [pc EXCEPT ![t] = "waiting"]
    BY <1>4 DEF CvSleep, Spinlock
  <2> QED
    BY <1>0, <2>1, NullAssumption DEF Spinlock, TypeOK
<1>5. ASSUME NEW t \in Threads, Signal(t) PROVE Spinlock'
  <2>1. pc[t] = "in" /\ pc'[t] = "told" /\ cv_wchanlock' = cv_wchanlock
        /\ \A u \in Threads \ {t} : pc'[u] = pc[u] \/ (pc[u] = "waiting" /\ pc'[u] = "notified")
    BY <1>0, <1>5, SignalEffect
  <2> QED
    BY <2>1 DEF Spinlock
<1>6. ASSUME NEW t \in Threads, Broadcast(t) PROVE Spinlock'
  <2>1. pc[t] = "in" /\ pc'[t] = "told" /\ cv_wchanlock' = cv_wchanlock
        /\ \A u \in Threads \ {t} : IF pc[u] = "waiting" THEN pc'[u] = "notified"
                                                       ELSE pc'[u] = pc[u]
    BY <1>6, BroadcastEffect
  <2> QED
    BY <2>1 DEF Spinlock
<1>7. CASE UNCHANGED vars
  BY <1>7 DEF Spinlock, vars
<1> QED
  BY <1>1, <1>2, <1>3, <1>4, <1>5, <1>6, <1>7 DEF Next

LEMMA SpinlockHolds == Spec => []Spinlock
<1>1. Init => Spinlock
  BY NullAssumption DEF Init, Spinlock
<1> QED
  BY <1>1, SpinlockKept, MonInvHolds, PTL DEF Spec

\* What the monitor sees of cv_wait and the lock's owner.
LEMMA NobodyTold ==
  ASSUME MonInv, NEW t \in Threads, pc[t] = "in" PROVE lk_holder = t /\ At({"told"}) = {}
BY DEF MonInv, HolderInside, Holding, At

LEMMA InitRefines == Init => Abstract!Init
BY DEF Init, At, Abstract!Init

LEMMA AcquireRefines ==
  ASSUME MonInv, NEW t \in Threads, Acquire(t)
  PROVE  Abstract!Acquire(t) \/ Abstract!Enter(t) \/ UNCHANGED Abstract!vars
<1>0. /\ TypeOK /\ HolderInside /\ pc[t] \in {"out", "woken", "notified"}
      /\ lk_holder # t
  BY DEF MonInv, Acquire, HolderInside, Holding
<1>1. CASE lk_holder = NULL /\ lk_holder' = t /\ pc' = [pc EXCEPT ![t] = "in"]
  <2>1. At({"told"})' = At({"told"}) /\ At({"leaving", "waiting"})' = At({"leaving", "waiting"})
    BY <1>0, <1>1 DEF At, TypeOK
  <2>2. At({"asleep", "woken", "notified"})' = At({"asleep", "woken", "notified"}) \ {t}
    BY <1>0, <1>1 DEF At, TypeOK
  <2>3. CASE pc[t] = "out"
    <3>1. /\ t \notin At({"asleep", "woken", "notified"})
          /\ t \notin At({"leaving", "waiting"})
      BY <2>3 DEF At
    <3>2. At({"asleep", "woken", "notified"})' = At({"asleep", "woken", "notified"})
      BY <2>2, <3>1
    <3> QED
      BY <1>0, <1>1, <2>1, <3>1, <3>2 DEF Abstract!Acquire
  <2>4. CASE pc[t] # "out"
    <3>1. t \in At({"asleep", "woken", "notified"})
      BY <1>0, <2>4 DEF At
    <3> QED
      BY <1>1, <2>1, <2>2, <3>1 DEF Abstract!Enter
  <2> QED
    BY <2>3, <2>4
<1>2. CASE lk_holder # NULL /\ lk_holder' = lk_holder /\ pc' = [pc EXCEPT ![t] = "asleep"]
  <2>1. At({"told"})' = At({"told"}) /\ At({"leaving", "waiting"})' = At({"leaving", "waiting"})
    BY <1>0, <1>2 DEF At, TypeOK
  <2>2. At({"asleep", "woken", "notified"})' = At({"asleep", "woken", "notified"}) \cup {t}
    BY <1>0, <1>2 DEF At, TypeOK
  <2>3. CASE pc[t] = "out"
    <3>1. /\ t \notin At({"asleep", "woken", "notified"})
          /\ t \notin At({"leaving", "waiting"})
      BY <2>3 DEF At
    <3> QED
      BY <1>0, <1>2, <2>1, <2>2, <3>1 DEF Abstract!Acquire
  <2>4. CASE pc[t] # "out"
    <3>1. t \in At({"asleep", "woken", "notified"})
      BY <1>0, <2>4 DEF At
    <3>2. At({"asleep", "woken", "notified"})' = At({"asleep", "woken", "notified"})
      BY <2>2, <3>1
    <3> QED
      BY <1>2, <2>1, <3>2 DEF Abstract!vars
  <2> QED
    BY <2>3, <2>4
<1> QED
  BY <1>1, <1>2 DEF Acquire, LockTests

LEMMA UnlockRefines ==
  ASSUME MonInv, NEW t \in Threads, Release(t) \/ CvWait(t)
  PROVE  Abstract!Release(t) \/ Abstract!Wait(t)
<1>1. PICK next \in {"out", "leaving"} :
        /\ Unlock(t, next) /\ Holding(t)
        /\ next = "out" \/ next = "leaving"
  BY DEF Release, CvWait
<1>2. /\ lk_holder' = NULL /\ HolderInside' /\ pc'[t] = next
      /\ \A u \in Threads \ {t} : pc'[u] = pc[u] \/ (pc[u] = "asleep" /\ pc'[u] = "woken")
  BY <1>1, UnlockEffect
<1>3. pc[t] \in {"in", "told"} /\ lk_holder = t
  BY <1>1 DEF MonInv, HolderInside, Holding
<1>4. At({"told"})' = {}
  BY <1>2, NullAssumption DEF HolderInside, Holding, At
<1>5. At({"asleep", "woken", "notified"})' = At({"asleep", "woken", "notified"})
  BY <1>1, <1>2, <1>3 DEF At
<1>6. CASE next = "out"
  <2>1. At({"leaving", "waiting"})' = At({"leaving", "waiting"})
    BY <1>2, <1>3, <1>6 DEF At
  <2> QED
    BY <1>2, <1>3, <1>4, <1>5, <2>1 DEF Abstract!Release
<1>7. CASE next = "leaving"
  <2>1. At({"leaving", "waiting"})' = At({"leaving", "waiting"}) \cup {t}
    BY <1>2, <1>3, <1>7 DEF At
  <2> QED
    BY <1>2, <1>3, <1>4, <1>5, <2>1 DEF Abstract!Wait
<1> QED
  BY <1>1, <1>6, <1>7

LEMMA CvSleepRefines ==
  ASSUME MonInv, NEW t \in Threads, CvSleep(t) PROVE UNCHANGED Abstract!vars
<1>1. TypeOK /\ pc[t] = "leaving" /\ pc' = [pc EXCEPT ![t] = "waiting"] /\ lk_holder' = lk_holder
  BY DEF MonInv, CvSleep
<1>2. /\ At({"told"})' = At({"told"})
      /\ At({"asleep", "woken", "notified"})' = At({"asleep", "woken", "notified"})
      /\ At({"leaving", "waiting"})' = At({"leaving", "waiting"})
  BY <1>1 DEF At, TypeOK
<1> QED
  BY <1>1, <1>2 DEF Abstract!vars

\* No waiter is between its release of the lock and its sleep when another
\* thread signals: the channel holds them all.
LEMMA WaitersAsleep ==
  ASSUME MonInv, Spinlock, cv_wchanlock = NULL
  PROVE  At({"leaving", "waiting"}) = Elems(cv_wchan)
<1>1. \A u \in Threads : pc[u] # "leaving"
  BY NullAssumption DEF Spinlock
<1>2. At({"leaving", "waiting"}) = At({"waiting"})
  BY <1>1 DEF At
<1> QED
  BY <1>2 DEF MonInv, Channels

LEMMA SignalRefines ==
  ASSUME MonInv, Spinlock, NEW t \in Threads, Signal(t) PROVE Abstract!Signal(t)
<1>1. /\ pc[t] = "in" /\ lk_holder = t /\ At({"told"}) = {} /\ lk_holder' = lk_holder
      /\ TypeOK /\ Channels /\ cv_wchanlock = NULL
  BY NobodyTold DEF Signal, MonInv
<1>2. At({"leaving", "waiting"}) = Elems(cv_wchan)
  BY <1>1, WaitersAsleep
<1>3. CASE cv_wchan = <<>>
  <2>1. pc' = [pc EXCEPT ![t] = "told"]
    BY <1>3 DEF Signal
  <2>2. /\ At({"told"})' # {}
        /\ At({"leaving", "waiting"})' = At({"leaving", "waiting"})
        /\ At({"asleep", "woken", "notified"})' = At({"asleep", "woken", "notified"})
    BY <1>1, <2>1 DEF At, TypeOK
  <2>3. At({"leaving", "waiting"}) = {}
    BY <1>2, <1>3, EmptyElems
  <2>4. Abstract!Notify(t, {})
    BY <1>1, <2>2 DEF Abstract!Notify
  <2> QED
    BY <2>3, <2>4 DEF Abstract!Signal
<1>4. CASE cv_wchan # <<>>
  <2> DEFINE h == Head(cv_wchan)
  <2>1. pc' = [pc EXCEPT ![t] = "told", ![h] = "notified"]
    BY <1>4 DEF Signal
  <2>2. h \in Threads /\ h \in Elems(cv_wchan)
    BY <1>1, <1>4, TailElems DEF TypeOK, Channels
  <2>3. pc[h] = "waiting" /\ h # t
    BY <1>1, <2>2 DEF Channels, At
  <2>4. /\ pc'[t] = "told" /\ pc'[h] = "notified"
        /\ \A u \in Threads \ {t, h} : pc'[u] = pc[u]
    BY <1>1, <2>1, <2>2, <2>3 DEF TypeOK
  <2>5. /\ At({"told"})' # {}
        /\ At({"leaving", "waiting"})' = At({"leaving", "waiting"}) \ {h}
        /\ At({"asleep", "woken", "notified"})' = At({"asleep", "woken", "notified"}) \cup {h}
    BY <1>1, <2>2, <2>3, <2>4 DEF At
  <2>6. Abstract!Notify(t, {h})
    BY <1>1, <2>5 DEF Abstract!Notify
  <2> QED
    BY <1>2, <2>2, <2>6 DEF Abstract!Signal
<1> QED
  BY <1>3, <1>4

LEMMA BroadcastRefines ==
  ASSUME MonInv, Spinlock, NEW t \in Threads, Broadcast(t) PROVE Abstract!Broadcast(t)
<1>1. /\ pc[t] = "in" /\ lk_holder = t /\ At({"told"}) = {} /\ lk_holder' = lk_holder
      /\ cv_wchanlock = NULL
  BY NobodyTold DEF Broadcast
<1>2. /\ pc'[t] = "told"
      /\ \A u \in Threads \ {t} : IF pc[u] = "waiting" THEN pc'[u] = "notified"
                                                     ELSE pc'[u] = pc[u]
  BY BroadcastEffect
<1>3. \A u \in Threads : pc[u] # "leaving"
  BY <1>1, NullAssumption DEF Spinlock
<1>4. /\ At({"told"})' # {}
      /\ At({"leaving", "waiting"})' = {}
      /\ At({"asleep", "woken", "notified"})'
           = At({"asleep", "woken", "notified"}) \cup At({"leaving", "waiting"})
  BY <1>1, <1>2, <1>3 DEF At
<1> QED
  BY <1>1, <1>4 DEF Abstract!Broadcast, Abstract!Notify

LEMMA StepRefines == MonInv /\ Spinlock /\ [Next]_vars => [Abstract!Next]_(Abstract!vars)
<1> SUFFICES ASSUME MonInv, Spinlock, [Next]_vars PROVE [Abstract!Next]_(Abstract!vars)
  OBVIOUS
<1>1. ASSUME NEW t \in Threads, Acquire(t) PROVE [Abstract!Next]_(Abstract!vars)
  BY <1>1, AcquireRefines DEF Abstract!Next, Abstract!SomeEnter
<1>2. ASSUME NEW t \in Threads, Release(t) \/ CvWait(t) PROVE Abstract!Next
  BY <1>2, UnlockRefines DEF Abstract!Next
<1>3. ASSUME NEW t \in Threads, CvSleep(t) PROVE UNCHANGED Abstract!vars
  BY <1>3, CvSleepRefines
<1>4. ASSUME NEW t \in Threads, Signal(t) PROVE Abstract!Next
  BY <1>4, SignalRefines DEF Abstract!Next
<1>5. ASSUME NEW t \in Threads, Broadcast(t) PROVE Abstract!Next
  BY <1>5, BroadcastRefines DEF Abstract!Next
<1>6. CASE UNCHANGED vars
  BY <1>6 DEF vars, At, Abstract!vars
<1> QED
  BY <1>1, <1>2, <1>3, <1>4, <1>5, <1>6 DEF Next

\* The safety part of ImplementsMonitor, for any set of threads: no signal or
\* broadcast falls between cv_wait's release of the lock and its sleep, and
\* each wakes exactly the waiters synch.h says.
THEOREM MonitorRefines == Spec => Abstract!SafeSpec
BY InitRefines, StepRefines, MonInvHolds, SpinlockHolds, PTL DEF Spec, Abstract!SafeSpec

-----------------------------------------------------------------------------
(* The semaphore.                                                          *)

\* Every unit of the count beside a sleeper has a woken thread: NoLostWakeup
\* is inductive together with the places of the threads and their types.
IdleWhenGone == ~alive => InP = {}
SemInv == SemTypeOK /\ OnePlace /\ NoLostWakeup /\ IdleWhenGone

LEMMA WokenFinite == ASSUME SemTypeOK PROVE IsFiniteSet(woken) /\ Cardinality(woken) \in Nat
BY CallersAssumption, FS_Subset, FS_CardinalityType DEF SemTypeOK

\* The head of the channel leaves it.
LEMMA HeadLeaves ==
  ASSUME SemTypeOK, OnePlace, sem_wchan # <<>>
  PROVE  /\ Head(sem_wchan) \in Callers /\ Head(sem_wchan) \in Asleep
         /\ Tail(sem_wchan) \in Seq(Callers)
         /\ Head(sem_wchan) \notin woken
         /\ \A i \in DOMAIN Tail(sem_wchan) : /\ Tail(sem_wchan)[i] = sem_wchan[i + 1]
                                              /\ i + 1 \in DOMAIN sem_wchan
         /\ \A i \in DOMAIN Tail(sem_wchan) : Tail(sem_wchan)[i] # Head(sem_wchan)
<1>1. /\ Len(sem_wchan) \in Nat /\ Len(sem_wchan) > 0
      /\ DOMAIN sem_wchan = 1..Len(sem_wchan)
      /\ Head(sem_wchan) = sem_wchan[1]
  BY DEF SemTypeOK
<1>2. /\ Tail(sem_wchan) \in Seq(Callers)
      /\ DOMAIN Tail(sem_wchan) = 1..(Len(sem_wchan) - 1)
      /\ \A i \in 1..(Len(sem_wchan) - 1) : Tail(sem_wchan)[i] = sem_wchan[i + 1]
  BY <1>1 DEF SemTypeOK
<1>3. Head(sem_wchan) \in Asleep /\ Head(sem_wchan) \in Callers
  BY <1>1 DEF SemTypeOK, Asleep
<1>4. Head(sem_wchan) \notin woken
  BY <1>3 DEF OnePlace
<1>5. \A i \in DOMAIN Tail(sem_wchan) : Tail(sem_wchan)[i] # Head(sem_wchan)
  BY <1>1, <1>2 DEF OnePlace
<1> QED
  BY <1>1, <1>2, <1>3, <1>4, <1>5

\* wchan_wakeone: the woken grow by one, or there is nobody asleep.
LEMMA WakeOneEffect ==
  ASSUME SemTypeOK, OnePlace, WakeOne
  PROVE  /\ sem_wchan' \in Seq(Callers) /\ woken' \subseteq Callers
         /\ OnePlace'
         /\ \/ sem_wchan' = <<>>
            \/ Cardinality(woken') = Cardinality(woken) + 1
         /\ InP' = InP
<1>1. CASE sem_wchan = <<>>
  BY <1>1 DEF WakeOne, SemTypeOK, OnePlace, Asleep, InP
<1>2. CASE sem_wchan # <<>>
  <2> DEFINE h == Head(sem_wchan)
  <2>1. sem_wchan' = Tail(sem_wchan) /\ woken' = woken \cup {h}
    BY <1>2 DEF WakeOne
  <2>2. /\ h \in Callers /\ h \in Asleep /\ Tail(sem_wchan) \in Seq(Callers) /\ h \notin woken
        /\ \A i \in DOMAIN Tail(sem_wchan) : /\ Tail(sem_wchan)[i] = sem_wchan[i + 1]
                                             /\ i + 1 \in DOMAIN sem_wchan
        /\ \A i \in DOMAIN Tail(sem_wchan) : Tail(sem_wchan)[i] # h
    BY <1>2, HeadLeaves
  <2>3. Cardinality(woken') = Cardinality(woken) + 1
    BY <2>1, <2>2, WokenFinite, FS_AddElement
  <2>4. Asleep' = Asleep \ {h}
    <3>1. \A t \in Asleep' : t \in Asleep /\ t # h
      BY <2>1, <2>2 DEF Asleep
    <3>2. \A t \in Asleep : t = h \/ t \in Asleep'
      <4>1. SUFFICES ASSUME NEW i \in DOMAIN sem_wchan, sem_wchan[i] # h
                     PROVE  sem_wchan[i] \in Asleep'
        BY DEF Asleep
      <4>2. i - 1 \in DOMAIN Tail(sem_wchan) /\ Tail(sem_wchan)[i - 1] = sem_wchan[i]
        BY <4>1, <1>2 DEF SemTypeOK
      <4> QED
        BY <4>2, <2>1 DEF Asleep
    <3> QED
      BY <3>1, <3>2, <2>2
  <2>5. OnePlace'
    <3>1. \A i, j \in DOMAIN Tail(sem_wchan) : i # j => Tail(sem_wchan)[i] # Tail(sem_wchan)[j]
      <4>1. \A i \in DOMAIN Tail(sem_wchan) : i \in Int
        BY <2>2
      <4> QED
        BY <2>2, <4>1 DEF OnePlace
    <3>2. Asleep' \cap woken' = {}
      BY <2>1, <2>4 DEF OnePlace
    <3> QED
      BY <3>1, <3>2, <2>1 DEF OnePlace
  <2>6. InP' = InP
    BY <2>1, <2>2, <2>4 DEF InP
  <2> QED
    BY <2>1, <2>2, <2>3, <2>5, <2>6 DEF SemTypeOK
<1> QED
  BY <1>1, <1>2

\* A thread from outside the channel goes to sleep.
LEMMA SleepEffect ==
  ASSUME SemTypeOK, OnePlace, NEW t \in Callers, t \notin Asleep, Sleep(t)
  PROVE  /\ sem_wchan' \in Seq(Callers)
         /\ Asleep' = Asleep \cup {t}
         /\ \A i, j \in DOMAIN sem_wchan' : i # j => sem_wchan'[i] # sem_wchan'[j]
<1>1. /\ sem_wchan' = Append(sem_wchan, t)
      /\ sem_wchan' \in Seq(Callers)
      /\ DOMAIN sem_wchan = 1..Len(sem_wchan) /\ Len(sem_wchan) \in Nat
      /\ DOMAIN sem_wchan' = 1..(Len(sem_wchan) + 1)
      /\ \A i \in 1..Len(sem_wchan) : sem_wchan'[i] = sem_wchan[i]
      /\ sem_wchan'[Len(sem_wchan) + 1] = t
  BY DEF Sleep, SemTypeOK
<1>2. Asleep' = Asleep \cup {t}
  <2>1. \A x \in Asleep' : x \in Asleep \cup {t}
    BY <1>1 DEF Asleep
  <2>2. \A x \in Asleep : x \in Asleep'
    BY <1>1 DEF Asleep
  <2>3. t \in Asleep'
    BY <1>1 DEF Asleep
  <2> QED
    BY <2>1, <2>2, <2>3
<1>3. \A i \in 1..Len(sem_wchan) : sem_wchan[i] # t
  BY <1>1 DEF Asleep
<1>4. \A i, j \in DOMAIN sem_wchan' : i # j => sem_wchan'[i] # sem_wchan'[j]
  BY <1>1, <1>3 DEF OnePlace
<1> QED
  BY <1>1, <1>2, <1>4

LEMMA InitSemInv == SemInit => SemInv
<1> SUFFICES ASSUME SemInit PROVE SemInv
  OBVIOUS
<1>1. SemTypeOK
  <2>1. sem_count \in 0..SEM_MAX
    BY SemAssumption DEF SemInit
  <2>2. sem_wchan \in Seq(Callers) /\ woken \subseteq Callers
    BY DEF SemInit
  <2>3. alive \in BOOLEAN /\ panic \in BOOLEAN
    BY DEF SemInit
  <2> QED
    BY <2>1, <2>2, <2>3 DEF SemTypeOK
<1>2. OnePlace
  BY DEF SemInit, OnePlace, Asleep
<1>3. NoLostWakeup /\ IdleWhenGone
  BY DEF SemInit, NoLostWakeup, IdleWhenGone
<1> QED
  BY <1>1, <1>2, <1>3 DEF SemInv

LEMMA CreateSemInv == ASSUME SemInv, NEW n \in Initials, Create(n) PROVE SemInv'
BY SemAssumption DEF SemInv, Create, SemTypeOK, OnePlace, NoLostWakeup, IdleWhenGone, Asleep

LEMMA DestroySemInv == ASSUME SemInv, Destroy PROVE SemInv'
BY DEF SemInv, Destroy, SemTypeOK, OnePlace, NoLostWakeup, IdleWhenGone, InP, Asleep

LEMMA PSemInv == ASSUME SemInv, NEW t \in Callers, P(t) PROVE SemInv'
<1>1. SemTypeOK /\ OnePlace /\ NoLostWakeup /\ Cardinality(woken) \in Nat
  BY WokenFinite DEF SemInv
<1>2. CASE Take
  BY <1>1, <1>2, SemAssumption DEF SemInv, P, Take, SemTypeOK, OnePlace, NoLostWakeup, IdleWhenGone, Asleep
<1>3. CASE Sleep(t)
  <2>1. t \notin Asleep /\ t \notin woken /\ woken' = woken /\ alive' = alive
    BY DEF P, InP
  <2>2. /\ sem_wchan' \in Seq(Callers) /\ Asleep' = Asleep \cup {t}
        /\ \A i, j \in DOMAIN sem_wchan' : i # j => sem_wchan'[i] # sem_wchan'[j]
    BY <1>1, <1>3, <2>1, SleepEffect
  <2>3. sem_count = 0 /\ sem_count' = 0 /\ panic' = panic
    BY <1>3 DEF Sleep
  <2>4. SemTypeOK'
    BY <1>1, <2>1, <2>2, <2>3 DEF SemTypeOK
  <2>5. OnePlace'
    BY <1>1, <2>1, <2>2 DEF OnePlace
  <2>6. NoLostWakeup'
    BY <1>1, <2>1, <2>3 DEF NoLostWakeup
  <2> QED
    BY <2>4, <2>5, <2>6 DEF SemInv, IdleWhenGone, P
<1> QED
  BY <1>2, <1>3 DEF P

LEMMA PWokenSemInv == ASSUME SemInv, NEW t \in Callers, PWoken(t) PROVE SemInv'
<1>1. /\ SemTypeOK /\ OnePlace /\ NoLostWakeup
      /\ IsFiniteSet(woken) /\ Cardinality(woken) \in Nat
  BY WokenFinite DEF SemInv
<1>2. t \in woken /\ woken' = woken \ {t} /\ alive' = alive /\ t \notin Asleep
  BY <1>1 DEF PWoken, OnePlace
<1>3. Cardinality(woken') = Cardinality(woken) - 1
  BY <1>1, <1>2, FS_RemoveElement
<1>a. alive' /\ alive
  BY <1>2 DEF SemInv, IdleWhenGone, InP
<1>4. CASE Take
  <2>1. sem_count' = sem_count - 1 /\ sem_count > 0 /\ sem_wchan' = sem_wchan /\ panic' = panic
    BY <1>4 DEF Take
  <2>2. SemTypeOK'
    BY <1>1, <1>2, <2>1, SemAssumption DEF SemTypeOK
  <2>3. OnePlace'
    BY <1>1, <1>2, <2>1 DEF OnePlace, Asleep
  <2>4. NoLostWakeup'
    BY <1>1, <1>3, <2>1, SemAssumption DEF NoLostWakeup, SemTypeOK
  <2> QED
    BY <2>2, <2>3, <2>4, <1>a DEF SemInv, IdleWhenGone
<1>5. CASE Sleep(t)
  <2>1. /\ sem_wchan' \in Seq(Callers) /\ Asleep' = Asleep \cup {t}
        /\ \A i, j \in DOMAIN sem_wchan' : i # j => sem_wchan'[i] # sem_wchan'[j]
    BY <1>1, <1>2, <1>5, SleepEffect
  <2>2. sem_count = 0 /\ sem_count' = 0 /\ panic' = panic
    BY <1>5 DEF Sleep
  <2>3. SemTypeOK'
    BY <1>1, <1>2, <2>1, <2>2 DEF SemTypeOK
  <2>4. OnePlace'
    BY <1>1, <1>2, <2>1 DEF OnePlace
  <2>5. NoLostWakeup'
    <3>1. woken' \subseteq Callers
      BY <1>1, <1>2 DEF SemTypeOK
    <3>2. Cardinality(woken') \in Nat
      BY <3>1, CallersAssumption, FS_Subset, FS_CardinalityType
    <3> QED
      BY <3>2, <2>2 DEF NoLostWakeup
  <2> QED
    BY <2>3, <2>4, <2>5, <1>a DEF SemInv, IdleWhenGone
<1> QED
  BY <1>4, <1>5 DEF PWoken

LEMMA VSemInv == ASSUME SemInv, V PROVE SemInv'
<1>1. SemTypeOK /\ OnePlace /\ NoLostWakeup /\ Cardinality(woken) \in Nat
  BY WokenFinite DEF SemInv
<1>2. CASE sem_count = SEM_MAX
  BY <1>1, <1>2, SemAssumption DEF SemInv, V, SemTypeOK, OnePlace, NoLostWakeup, IdleWhenGone, Asleep
<1>3. CASE sem_count # SEM_MAX
  <2>1. sem_count' = sem_count + 1 /\ WakeOne /\ panic' = panic /\ alive' = alive
    BY <1>3 DEF V
  <2>2. /\ sem_wchan' \in Seq(Callers) /\ woken' \subseteq Callers /\ OnePlace'
        /\ sem_wchan' = <<>> \/ Cardinality(woken') = Cardinality(woken) + 1
    BY <1>1, <2>1, WakeOneEffect
  <2>3. SemTypeOK'
    BY <1>1, <1>3, <2>1, <2>2, SemAssumption DEF SemTypeOK
  <2>4. sem_wchan' # <<>> => sem_wchan # <<>>
    BY <2>1 DEF WakeOne
  <2>5. NoLostWakeup'
    BY <1>1, <2>1, <2>2, <2>4, SemAssumption DEF NoLostWakeup, SemTypeOK
  <2> QED
    BY <2>2, <2>3, <2>5 DEF SemInv, IdleWhenGone, V
<1> QED
  BY <1>2, <1>3

LEMMA NextSemInv == SemInv /\ [SemNext]_sem_vars => SemInv'
<1> SUFFICES ASSUME SemInv, [SemNext]_sem_vars PROVE SemInv'
  OBVIOUS
<1>1. CASE UNCHANGED sem_vars
  BY <1>1 DEF SemInv, sem_vars, SemTypeOK, OnePlace, NoLostWakeup, IdleWhenGone, InP, Asleep
<1>2. CASE SemNext
  BY <1>2, CreateSemInv, DestroySemInv, PSemInv, PWokenSemInv, VSemInv DEF SemNext
<1> QED
  BY <1>1, <1>2

LEMMA SemInvHolds == SemSpec => []SemInv
BY InitSemInv, NextSemInv, PTL DEF SemSpec

\* sem_wchan, the woken and the count keep their types; the count never leaves
\* the range of an unsigned.
THEOREM SemTypeCorrect == SemSpec => []SemTypeOK
<1>1. SemInv => SemTypeOK
  BY DEF SemInv
<1> QED
  BY <1>1, SemInvHolds, PTL

\* A thread in P is asleep once or woken, never both (wchan_sleep, wchan_wakeone).
THEOREM SemOnePlace == SemSpec => []OnePlace
<1>1. SemInv => OnePlace
  BY DEF SemInv
<1> QED
  BY <1>1, SemInvHolds, PTL

\* P's sleep and V's wake-up lose no unit, whoever overtakes whom.
THEOREM NoWakeupLost == SemSpec => []NoLostWakeup
<1>1. SemInv => NoLostWakeup
  BY DEF SemInv
<1> QED
  BY <1>1, SemInvHolds, PTL

-----------------------------------------------------------------------------
\* Each step of the queue is a step of the atomic semaphore, or none.
LEMMA SemStepRefines == SemInv /\ [SemNext]_sem_vars => [Atomic!Next]_(Atomic!vars)
<1> SUFFICES ASSUME SemInv, [SemNext]_sem_vars PROVE [Atomic!Next]_(Atomic!vars)
  OBVIOUS
<1>0. SemTypeOK /\ OnePlace /\ IdleWhenGone
  BY DEF SemInv
<1>1. CASE UNCHANGED sem_vars
  BY <1>1 DEF sem_vars, InP, Asleep, Atomic!vars
<1>2. ASSUME NEW n \in Initials, Create(n) PROVE Atomic!Renew
  <2>1. InP = {} /\ sem_count' \in Initials
    BY <1>0, <1>2 DEF Create, IdleWhenGone
  <2>2. InP' = {}
    BY <1>2, <2>1 DEF Create, InP, Asleep
  <2> QED
    BY <2>1, <2>2 DEF Atomic!Renew
<1>3. ASSUME Destroy PROVE UNCHANGED Atomic!vars
  BY <1>3 DEF Destroy, InP, Asleep, Atomic!vars
<1>4. ASSUME NEW t \in Callers, P(t) PROVE Atomic!Pass(t) \/ Atomic!Block(t)
  <2>1. t \notin InP /\ t \notin Asleep /\ woken' = woken
    BY <1>4 DEF P, InP
  <2>2. CASE Take
    BY <2>1, <2>2 DEF Take, InP, Asleep, Atomic!Pass
  <2>3. CASE Sleep(t)
    <3>1. Asleep' = Asleep \cup {t}
      BY <1>0, <2>1, <2>3, SleepEffect
    <3> QED
      BY <2>1, <2>3, <3>1 DEF Sleep, InP, Atomic!Block
  <2> QED
    BY <1>4, <2>2, <2>3 DEF P
<1>5. ASSUME NEW t \in Callers, PWoken(t) PROVE Atomic!Unblock(t) \/ UNCHANGED Atomic!vars
  <2>1. t \in woken /\ t \notin Asleep /\ woken' = woken \ {t}
    BY <1>0, <1>5 DEF PWoken, OnePlace
  <2>2. CASE Take
    BY <2>1, <2>2 DEF Take, InP, Asleep, Atomic!Unblock
  <2>3. CASE Sleep(t)
    <3>1. Asleep' = Asleep \cup {t}
      BY <1>0, <2>1, <2>3, SleepEffect
    <3> QED
      BY <2>1, <2>3, <3>1 DEF Sleep, InP, Atomic!vars
  <2> QED
    BY <1>5, <2>2, <2>3 DEF PWoken
<1>6. ASSUME V PROVE Atomic!V \/ Atomic!Overflow
  <2>1. CASE sem_count = SEM_MAX
    BY <1>6, <2>1 DEF V, InP, Asleep, Atomic!Overflow
  <2>2. CASE sem_count # SEM_MAX
    <3>1. sem_count' = sem_count + 1 /\ WakeOne
      BY <1>6, <2>2 DEF V
    <3>2. InP' = InP
      BY <1>0, <3>1, WakeOneEffect
    <3>3. sem_count < SEM_MAX
      BY <1>0, <2>2, SemAssumption DEF SemTypeOK
    <3> QED
      BY <3>1, <3>2, <3>3 DEF Atomic!V
  <2> QED
    BY <2>1, <2>2
<1>7. CASE SemNext
  BY <1>7, <1>2, <1>3, <1>4, <1>5, <1>6 DEF SemNext, Atomic!Next, Atomic!SomeUnblocks
<1> QED
  BY <1>1, <1>7

LEMMA SemInitRefines == SemInit => Atomic!Init
BY DEF SemInit, InP, Asleep, Atomic!Init

\* The wait channel, the wake-ups and the retries of P and V take no step that
\* the atomic operations of synch.h cannot take.  (Progress is left to TLC.)
THEOREM SemaphoreRefines == SemSpec => Atomic!SafeSpec
BY SemInitRefines, SemStepRefines, SemInvHolds, PTL DEF SemSpec, Atomic!SafeSpec
=============================================================================
