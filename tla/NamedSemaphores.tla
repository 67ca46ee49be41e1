--------------------------- MODULE NamedSemaphores ---------------------------
(***************************************************************************)
(* What man/misc/semfs.html promises of the semaphore file system, without *)
(* vnodes, tables, locks or condition variables: names stand for counting  *)
(* semaphores, each step below is atomic, and a semaphore lives as long as *)
(* it has a name or somebody has it open.  Semfs.tla implements it.        *)
(***************************************************************************)
EXTENDS Naturals

CONSTANTS Threads, Names, Ids,
          Width,      \* counts are below it, and wrap
          NULL

VARIABLES named,      \* named[n] is the semaphore called n, or NULL
          open,       \* open[t] is the semaphore t has open, or NULL
          count,      \* its count, 0 for a semaphore that does not live
          owed        \* what the P operation t is in still has to take

avars == <<named, open, count, owed>>

Lives(i) == (\E n \in Names : named[n] = i) \/ (\E t \in Threads : open[t] = i)
LessOf(a, b) == IF a < b THEN a ELSE b

AInit == /\ named = [n \in Names |-> NULL]
         /\ open = [t \in Threads |-> NULL]
         /\ count = [i \in Ids |-> 0]
         /\ owed = [t \in Threads |-> 0]

AOpen(t, n) == /\ open[t] = NULL
               /\ named[n] # NULL
               /\ open' = [open EXCEPT ![t] = named[n]]
               /\ UNCHANGED <<named, count, owed>>

ACreate(t, n, i) == /\ open[t] = NULL
                    /\ named[n] = NULL
                    /\ ~Lives(i)
                    /\ named' = [named EXCEPT ![n] = i]
                    /\ open' = [open EXCEPT ![t] = i]
                    /\ UNCHANGED <<count, owed>>

\* Semaphore i loses a name or a user; the last one takes the count with it.
Forget(i) == count' = [count EXCEPT ![i] = IF Lives(i)' THEN @ ELSE 0]

ARemove(n) == \E i \in Ids :
  /\ named[n] = i
  /\ named' = [named EXCEPT ![n] = NULL]
  /\ UNCHANGED <<open, owed>>
  /\ Forget(i)

AClose(t) == \E i \in Ids :
  /\ open[t] = i
  /\ owed[t] = 0
  /\ open' = [open EXCEPT ![t] = NULL]
  /\ UNCHANGED <<named, owed>>
  /\ Forget(i)

\* P: takes what there is and waits for the rest.
AP(t, k) == /\ open[t] # NULL
            /\ k > 0
            /\ owed[t] \in {0, k}
            /\ LET got == LessOf(k, count[open[t]])
               IN /\ count' = [count EXCEPT ![open[t]] = @ - got]
                  /\ owed' = [owed EXCEPT ![t] = k - got]
            /\ UNCHANGED <<named, open>>

\* V, which fails without effect when the count would wrap.
AV(t, k) == /\ open[t] # NULL
            /\ owed[t] = 0
            /\ count[open[t]] + k < Width
            /\ count' = [count EXCEPT ![open[t]] = @ + k]
            /\ UNCHANGED <<named, open, owed>>

ASet(t, k) == /\ open[t] # NULL
              /\ owed[t] = 0
              /\ count' = [count EXCEPT ![open[t]] = k]
              /\ UNCHANGED <<named, open, owed>>

ANext == \/ \E n \in Names : ARemove(n)
         \/ \E t \in Threads :
              \/ AClose(t)
              \/ \E n \in Names : AOpen(t, n) \/ (\E i \in Ids : ACreate(t, n, i))
              \/ \E k \in 0 .. Width - 1 : AP(t, k) \/ AV(t, k) \/ ASet(t, k)

ASpec == AInit /\ [][ANext]_avars
=============================================================================
