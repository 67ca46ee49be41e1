-------------------------------- MODULE Semfs --------------------------------
(***************************************************************************)
(* kern/fs/semfs: the semaphores users reach as files of "sem:", with the  *)
(* part of kern/vfs/vnode.c and vfspath.c that opens and closes them.      *)
(*                                                                         *)
(* Three kinds of sleep locks are at work.  semfs_dirlock (dirlock) covers *)
(* the directory and all of a lookup, creation or removal;                 *)
(* semfs_tablelock (tablelock) the table of semaphores and that of vnodes; *)
(* sems_lock the count of one semaphore.  A critical section of one lock   *)
(* is one action unless something of another lock can change under it:     *)
(* semfs_remove and semfs_reclaim each clear one of sems_linked and        *)
(* sems_hasvnode and then test the other, under different locks, and are   *)
(* split between the two.  vnode_decref decides to reclaim before it has   *)
(* the table lock.  The vnode of the root directory, which has no          *)
(* semaphore, is left out, as are stat and the root's "." and "..".        *)
(***************************************************************************)
EXTENDS Naturals, Sequences, FiniteSets

CONSTANTS Threads, Names,
          MaxSems,    \* bound: the table of semaphores cannot grow further
          Width,      \* an unsigned int is below it, and wraps
          MaxAmount,  \* bound: bytes of one read or write
          MemFails,   \* TRUE: kmalloc may fail
          NULL

Slots == 1 .. MaxSems       \* semaphore numbers (the code counts from 0)
Counts == 0 .. Width - 1
Amounts == 1 .. MaxAmount

Entry == [name : Names, num : Slots]
Sems == [count : Counts, hasvnode : BOOLEAN, linked : BOOLEAN,
         holder : Threads \cup {NULL},     \* of sems_lock
         cv : Seq(Threads)]                \* asleep on sems_cv, first come first

\* Amounts (size_t) and counts (unsigned) have the same width.
ASSUME SemfsAssumption == /\ MaxSems \in Nat \ {0}
                          /\ Width \in Nat
                          /\ MaxAmount \in 1 .. Width - 1
                          /\ MemFails \in BOOLEAN
                          /\ IsFiniteSet(Threads)
                          /\ NULL \notin Threads \cup Slots \cup Entry \cup Sems

VARIABLES
  semfs_dents,    \* the directory: a sequence of entries [name, num] or NULL
  semfs_sems,     \* the table of semaphores, each a record or NULL
  vn_refcount,    \* of the vnode of semaphore i; 0: not in the vnode table
  dirlock, tablelock,   \* their holders between actions, or NULL
  dent,           \* the entry the holder of dirlock makes or removes
  open,           \* the semaphore whose vnode t has a reference to, or NULL
  pc,             \* where each thread is, see Places
  uio_resid,      \* what the semfs_read t is in still has to take
  panic           \* "no", or the assertion that failed

vars == <<semfs_dents, semfs_sems, vn_refcount, dirlock, tablelock, dent, open, pc,
          uio_resid, panic>>
tables == <<semfs_dents, semfs_sems, vn_refcount>>
locks == <<dirlock, tablelock, dent>>

(* idle: in no call.  dir: holds dirlock.  inserted: in semfs_creat, the   *)
(* semaphore is in the table.  unlinked: in semfs_remove, sems_linked is   *)
(* cleared.  freeing: there too, sems_hasvnode was false.  asleep, woken:  *)
(* in semfs_read, in cv_wait or on the way back from it.  reclaim: in      *)
(* vnode_decref, about to call VOP_RECLAIM.  clearing: in semfs_reclaim,   *)
(* sems_hasvnode is cleared; holds tablelock.                              *)
Places == {"idle", "dir", "inserted", "unlinked", "freeing", "asleep", "woken",
           "reclaim", "clearing"}

Init == /\ semfs_dents = <<>>
        /\ semfs_sems = [i \in Slots |-> NULL]
        /\ vn_refcount = [i \in Slots |-> 0]
        /\ dirlock = NULL
        /\ tablelock = NULL
        /\ dent = NULL
        /\ open = [t \in Threads |-> NULL]
        /\ pc = [t \in Threads |-> "idle"]
        /\ uio_resid = [t \in Threads |-> 0]
        /\ panic = "no"

Go(t, place) == pc' = [pc EXCEPT ![t] = place]
Panic(why) == panic' = why /\ UNCHANGED <<tables, locks, open, pc, uio_resid>>

At(n) == {k \in DOMAIN semfs_dents : semfs_dents[k] # NULL /\ semfs_dents[k].name = n}
Named(n) == semfs_dents[CHOOSE k \in At(n) : TRUE].num
WithoutEntry(n) == [k \in DOMAIN semfs_dents |-> IF k \in At(n) THEN NULL ELSE semfs_dents[k]]
HasRoom(s) == {k \in DOMAIN s : s[k] = NULL}
Lowest(S) == CHOOSE k \in S : \A j \in S : k <= j
-----------------------------------------------------------------------------
(* The directory.                                                          *)

\* lock_acquire(semfs_dirlock), for a lookup, a creation or a removal.
EnterDir(t) == /\ pc[t] = "idle"
               /\ dirlock = NULL
               /\ dirlock' = t
               /\ Go(t, "dir")
               /\ UNCHANGED <<tables, tablelock, dent, open, uio_resid, panic>>

\* ENOENT, EEXIST, or ENOMEM before anything has changed.
LeaveDir(t) == /\ pc[t] = "dir"
               /\ dirlock' = NULL
               /\ Go(t, "idle")
               /\ UNCHANGED <<tables, tablelock, dent, open, uio_resid, panic>>

\* semfs_getvnode for semaphore i and the end of the open.
GetVnode(t, i) ==
  /\ vn_refcount' = [vn_refcount EXCEPT ![i] = @ + 1]
  /\ open' = [open EXCEPT ![t] = i]
  /\ dirlock' = NULL
  /\ Go(t, "idle")

LookupUnflagged(t, n) ==        \* mutant: sems_hasvnode is not set
  /\ pc[t] = "dir"
  /\ open[t] = NULL
  /\ At(n) # {}
  /\ tablelock = NULL
  /\ GetVnode(t, Named(n))
  /\ UNCHANGED <<semfs_dents, semfs_sems, tablelock, dent, uio_resid, panic>>

\* semfs_lookup, or semfs_creat without O_EXCL, of a name that exists.
Lookup(t, n) ==
  /\ pc[t] = "dir"
  /\ open[t] = NULL
  /\ At(n) # {}
  /\ tablelock = NULL
  /\ LET i == Named(n)
     IN IF vn_refcount[i] = 0 /\ (semfs_sems[i] = NULL \/ semfs_sems[i].hasvnode)
        THEN Panic("getvnode")
        ELSE /\ GetVnode(t, i)
             /\ semfs_sems' = [semfs_sems EXCEPT ![i].hasvnode = TRUE]
             /\ UNCHANGED <<semfs_dents, tablelock, dent, uio_resid, panic>>

\* semfs_creat up to the insertion in the table.
CreatInsert(t, n) ==
  /\ pc[t] = "dir"
  /\ open[t] = NULL
  /\ At(n) = {}
  /\ tablelock = NULL
  /\ HasRoom(semfs_sems) # {}
  /\ LET i == Lowest(HasRoom(semfs_sems))
     IN /\ semfs_sems' = [semfs_sems EXCEPT ![i] =
             [count |-> 0, hasvnode |-> FALSE, linked |-> FALSE, holder |-> NULL, cv |-> <<>>]]
        /\ dent' = [name |-> n, num |-> i]
  /\ Go(t, "inserted")
  /\ UNCHANGED <<semfs_dents, vn_refcount, dirlock, tablelock, open, uio_resid, panic>>

\* The directory with entry d in its first empty place, or at its end.
WithEntry(d) == IF HasRoom(semfs_dents) = {}
                THEN Append(semfs_dents, d)
                ELSE [semfs_dents EXCEPT ![Lowest(HasRoom(semfs_dents))] = d]

\* The rest of semfs_creat: the entry, the vnode, sems_linked.
CreatFinish(t) ==
  /\ pc[t] = "inserted"
  /\ tablelock = NULL
  /\ semfs_dents' = WithEntry(dent)
  /\ semfs_sems' = [semfs_sems EXCEPT ![dent.num].hasvnode = TRUE, ![dent.num].linked = TRUE]
  /\ GetVnode(t, dent.num)
  /\ dent' = NULL
  /\ UNCHANGED <<tablelock, uio_resid, panic>>

\* No memory for the entry in the array, or for the vnode once the entry is
\* there: the entry is taken out again, but the array keeps its length.
CreatUndo(t) ==
  /\ MemFails
  /\ pc[t] = "inserted"
  /\ tablelock = NULL
  /\ semfs_dents' \in {semfs_dents, WithEntry(NULL)}
  /\ semfs_sems' = [semfs_sems EXCEPT ![dent.num] = NULL]
  /\ dent' = NULL
  /\ dirlock' = NULL
  /\ Go(t, "idle")
  /\ UNCHANGED <<vn_refcount, tablelock, open, uio_resid, panic>>

\* No memory for the entry itself: semfs_creat undoes its work but returns the
\* 0 of semfs_sem_insert, and vfs_open finds that it has no vnode.
CreatNoEntry(t) ==
  /\ MemFails
  /\ pc[t] = "inserted"
  /\ tablelock = NULL
  /\ Panic("vfs_open")
-----------------------------------------------------------------------------
(* semfs_remove.                                                           *)

RemoveUnlink(t, n) ==
  /\ pc[t] = "dir"
  /\ At(n) # {}
  /\ tablelock = NULL
  /\ LET i == Named(n)
     IN IF semfs_sems[i] = NULL \/ ~semfs_sems[i].linked
        THEN Panic("remove")
        ELSE /\ semfs_sems[i].holder = NULL
             /\ semfs_sems' = [semfs_sems EXCEPT ![i].holder = t, ![i].linked = FALSE]
             /\ dent' = [name |-> n, num |-> i]
             /\ Go(t, "unlinked")
             /\ UNCHANGED <<semfs_dents, vn_refcount, dirlock, tablelock, open, uio_resid, panic>>

RemoveEntry(t) == /\ semfs_dents' = WithoutEntry(dent.name)
                  /\ dent' = NULL
                  /\ dirlock' = NULL
                  /\ Go(t, "idle")

RemoveTestNeverFrees(t) ==      \* mutant: the destruction is left to the last close
  /\ pc[t] = "unlinked"
  /\ semfs_sems' = [semfs_sems EXCEPT ![dent.num].holder = NULL]
  /\ RemoveEntry(t)
  /\ UNCHANGED <<vn_refcount, tablelock, open, uio_resid, panic>>

RemoveTestKeepsLock(t) ==       \* mutant: no lock_release(sems_lock) for an open one
  /\ pc[t] = "unlinked"
  /\ IF semfs_sems[dent.num].hasvnode
     THEN RemoveEntry(t) /\ UNCHANGED semfs_sems
     ELSE Go(t, "freeing") /\ UNCHANGED <<semfs_dents, semfs_sems, dirlock, dent>>
  /\ UNCHANGED <<vn_refcount, tablelock, open, uio_resid, panic>>

\* The test of sems_hasvnode: the last close will destroy the semaphore, or we.
RemoveTest(t) ==
  /\ pc[t] = "unlinked"
  /\ IF semfs_sems[dent.num].hasvnode
     THEN /\ semfs_sems' = [semfs_sems EXCEPT ![dent.num].holder = NULL]
          /\ RemoveEntry(t)
     ELSE /\ Go(t, "freeing")
          /\ UNCHANGED <<semfs_dents, semfs_sems, dirlock, dent>>
  /\ UNCHANGED <<vn_refcount, tablelock, open, uio_resid, panic>>

\* semfs_sem_destroy asserts that nobody holds or waits for the lock or the cv.
MayDestroy(i) == semfs_sems[i].holder = NULL /\ semfs_sems[i].cv = <<>>

RemoveFree(t) ==
  /\ pc[t] = "freeing"
  /\ tablelock = NULL
  /\ IF semfs_sems[dent.num].cv # <<>>        \* it has released the lock itself
     THEN Panic("cv_destroy")
     ELSE /\ semfs_sems' = [semfs_sems EXCEPT ![dent.num] = NULL]
          /\ RemoveEntry(t)
          /\ UNCHANGED <<vn_refcount, tablelock, open, uio_resid, panic>>

\* semfs_getdirentry uses the entry at the position it is given; one that is
\* empty is a null pointer.  Otherwise the call changes nothing.
Getdirentry == /\ dirlock = NULL
               /\ HasRoom(semfs_dents) # {}
               /\ Panic("getdirentry")
-----------------------------------------------------------------------------
(* Semaphore operations, under sems_lock.                                  *)

Usable(t) == /\ open[t] # NULL
             /\ semfs_sems[open[t]].holder = NULL

TakeOnce(t, k) ==               \* mutant: if instead of while after the wait
  LET i == open[t]
      got == IF k > semfs_sems[i].count THEN semfs_sems[i].count ELSE k
      over == got = k \/ pc[t] = "woken"
  IN /\ uio_resid' = [uio_resid EXCEPT ![t] = IF over THEN 0 ELSE k - got]
     /\ semfs_sems' = [semfs_sems EXCEPT ![i].count = @ - got,
                                         ![i].cv = IF over THEN @ ELSE Append(@, t)]
     /\ Go(t, IF over THEN "idle" ELSE "asleep")

\* The loop of semfs_read with k units to take, up to its end or cv_wait.
TakeLoop(t, k) ==
  LET i == open[t]
      sem == semfs_sems[i]
      got == IF k > sem.count THEN sem.count ELSE k
  IN /\ uio_resid' = [uio_resid EXCEPT ![t] = k - got]
     /\ semfs_sems' = [semfs_sems EXCEPT ![i].count = @ - got,
                                         ![i].cv = IF got = k THEN @ ELSE Append(@, t)]
     /\ Go(t, IF got = k THEN "idle" ELSE "asleep")

Read(t, k) == /\ pc[t] = "idle"
              /\ Usable(t)
              /\ TakeLoop(t, k)
              /\ UNCHANGED <<semfs_dents, vn_refcount, locks, open, panic>>

ReadOn(t) == /\ pc[t] = "woken"
             /\ Usable(t)
             /\ TakeLoop(t, uio_resid[t])
             /\ UNCHANGED <<semfs_dents, vn_refcount, locks, open, panic>>

\* semfs_wakeup: the threads it wakes.
Woken(sem, newcount) ==
  IF sem.count > 0 \/ newcount = 0 \/ sem.cv = <<>> THEN {}
  ELSE IF newcount = 1 THEN {Head(sem.cv)}
  ELSE {sem.cv[k] : k \in DOMAIN sem.cv}

\* The count of t's semaphore becomes newcount, with the wake-ups that takes.
SetCount(t, newcount) ==
  LET sem == semfs_sems[open[t]]
      woken == Woken(sem, newcount)
  IN /\ semfs_sems' = [semfs_sems EXCEPT
                         ![open[t]].count = newcount,
                         ![open[t]].cv = IF woken = {} THEN @
                                         ELSE IF newcount = 1 THEN Tail(@) ELSE <<>>]
     /\ pc' = [u \in Threads |-> IF u \in woken THEN "woken" ELSE pc[u]]

\* semfs_write; EFBIG when the sum wraps.
Write(t, k) ==
  /\ pc[t] = "idle"
  /\ Usable(t)
  /\ LET newcount == (semfs_sems[open[t]].count + k) % Width
     IN newcount >= semfs_sems[open[t]].count /\ SetCount(t, newcount)
  /\ UNCHANGED <<semfs_dents, vn_refcount, locks, open, uio_resid, panic>>

\* semfs_truncate, for ftruncate or open with O_TRUNC.
Truncate(t, len) == /\ pc[t] = "idle"
                    /\ Usable(t)
                    /\ SetCount(t, len)
                    /\ UNCHANGED <<semfs_dents, vn_refcount, locks, open, uio_resid, panic>>
-----------------------------------------------------------------------------
(* The last reference.                                                     *)

\* vnode_decref, up to the call of VOP_RECLAIM.
Close(t) ==
  /\ pc[t] = "idle"
  /\ open[t] # NULL
  /\ IF vn_refcount[open[t]] > 1
     THEN /\ vn_refcount' = [vn_refcount EXCEPT ![open[t]] = @ - 1]
          /\ open' = [open EXCEPT ![t] = NULL]
          /\ UNCHANGED pc
     ELSE /\ Go(t, "reclaim")
          /\ UNCHANGED <<vn_refcount, open>>
  /\ UNCHANGED <<semfs_dents, semfs_sems, locks, uio_resid, panic>>

ReclaimBlindly(t) ==            \* mutant: no second look at the count
  /\ pc[t] = "reclaim"
  /\ tablelock = NULL
  /\ vn_refcount' = [vn_refcount EXCEPT ![open[t]] = 0]
  /\ semfs_sems' = [semfs_sems EXCEPT ![open[t]].hasvnode = FALSE]
  /\ tablelock' = t
  /\ Go(t, "clearing")
  /\ UNCHANGED <<semfs_dents, dirlock, dent, open, uio_resid, panic>>

\* semfs_reclaim: a lookup may have taken a new reference meanwhile (EBUSY).
\* Else the vnode leaves the table and sems_hasvnode is cleared.
Reclaim(t) ==
  /\ pc[t] = "reclaim"
  /\ tablelock = NULL
  /\ LET i == open[t]
     IN IF vn_refcount[i] > 1
        THEN /\ vn_refcount' = [vn_refcount EXCEPT ![i] = @ - 1]
             /\ open' = [open EXCEPT ![t] = NULL]
             /\ Go(t, "idle")
             /\ UNCHANGED <<semfs_dents, semfs_sems, locks, uio_resid, panic>>
        ELSE IF ~semfs_sems[i].hasvnode
        THEN Panic("reclaim")
        ELSE /\ vn_refcount' = [vn_refcount EXCEPT ![i] = 0]
             /\ semfs_sems' = [semfs_sems EXCEPT ![i].hasvnode = FALSE]
             /\ tablelock' = t
             /\ Go(t, "clearing")
             /\ UNCHANGED <<semfs_dents, dirlock, dent, open, uio_resid, panic>>

\* The test of sems_linked: the semaphore is destroyed if its name is gone.
ReclaimTest(t) ==
  /\ pc[t] = "clearing"
  /\ LET i == open[t]
     IN IF ~semfs_sems[i].linked /\ ~MayDestroy(i)
        THEN Panic("lock_destroy")
        ELSE /\ semfs_sems' = [semfs_sems EXCEPT ![i] = IF @.linked THEN @ ELSE NULL]
             /\ tablelock' = NULL
             /\ open' = [open EXCEPT ![t] = NULL]
             /\ Go(t, "idle")
             /\ UNCHANGED <<semfs_dents, vn_refcount, dirlock, dent, uio_resid, panic>>
-----------------------------------------------------------------------------
ThreadStep(t) ==
  \/ LeaveDir(t) \/ CreatFinish(t) \/ CreatUndo(t) \/ CreatNoEntry(t)
  \/ RemoveTest(t) \/ RemoveFree(t) \/ ReadOn(t) \/ Reclaim(t) \/ ReclaimTest(t)
  \/ \E n \in Names : Lookup(t, n) \/ CreatInsert(t, n) \/ RemoveUnlink(t, n)

\* Calls a user program makes when it likes.
Call(t) == \/ EnterDir(t) \/ Close(t)
           \/ \E k \in Amounts : Read(t, k) \/ Write(t, k)
           \/ \E len \in Counts : Truncate(t, len)

Next == /\ panic = "no"
        /\ \/ Getdirentry
           \/ \E t \in Threads : Call(t) \/ ThreadStep(t)

Spec == Init /\ [][Next]_vars
-----------------------------------------------------------------------------
Entries == {semfs_dents[k] : k \in DOMAIN semfs_dents} \ {NULL}
Removing(i) == \E t \in Threads : pc[t] \in {"unlinked", "freeing"} /\ dent.num = i

TypeOK == /\ semfs_dents \in Seq(Entry \cup {NULL})
          /\ semfs_sems \in [Slots -> Sems \cup {NULL}]
          /\ vn_refcount \in [Slots -> Nat]
          /\ dirlock \in Threads \cup {NULL}
          /\ tablelock \in Threads \cup {NULL}
          /\ dent \in Entry \cup {NULL}
          /\ open \in [Threads -> Slots \cup {NULL}]
          /\ pc \in [Threads -> Places]
          /\ uio_resid \in [Threads -> 0 .. MaxAmount]

\* The three records of a semaphore agree: two names never share one, it is in
\* the table exactly as long as it has a name, a vnode, or a call at work on
\* it, and its two flags say which (semfs.h: sems_hasvnode, sems_linked).
TableExact ==
  /\ TypeOK
  /\ \A k, l \in DOMAIN semfs_dents : k # l /\ semfs_dents[k] # NULL /\ semfs_dents[l] # NULL
       => semfs_dents[k].name # semfs_dents[l].name /\ semfs_dents[k].num # semfs_dents[l].num
  /\ \A i \in Slots :
       LET named == \E d \in Entries : d.num = i
           busy == \E t \in Threads : \/ pc[t] = "clearing" /\ open[t] = i
                                      \/ pc[t] = "inserted" /\ dent.num = i
           sem == semfs_sems[i]
       IN /\ (sem # NULL) = (named \/ vn_refcount[i] > 0 \/ busy)
          /\ sem # NULL => /\ sem.hasvnode = (vn_refcount[i] > 0)
                           /\ sem.linked = (named /\ ~Removing(i))

\* A vnode's count is the number of threads with a reference, the one that
\* vnode_decref passes to VOP_RECLAIM undecremented included (vnode.c:110): no
\* thread is ever left with a vnode that another one's reclaim has destroyed.
RefsExact == \A i \in Slots :
  vn_refcount[i] = Cardinality({t \in Threads : open[t] = i /\ pc[t] # "clearing"})

\* Of the assertions and null pointers of these files only three are ever met:
\* semfs_getdirentry at an entry that was removed, vfs_open after a creation
\* that failed with result 0, and lock_destroy when the last close overtakes a
\* semfs_remove that still holds sems_lock.
OnlyKnownPanics ==
  /\ panic \in {"no", "getdirentry", "vfs_open", "lock_destroy"}
  /\ panic = "vfs_open" => MemFails
  /\ panic = "lock_destroy" => \E t, u \in Threads :
       t # u /\ pc[t] = "clearing" /\ pc[u] \in {"unlinked", "freeing"}

\* Sleep locks never block a set of calls for good: while some thread is in a
\* call and not asleep in a P, some thread can go on (the order is dirlock,
\* sems_lock, tablelock, and nobody waits for a P with a lock held).
NoLockDeadlock ==
  panic = "no" /\ (\E t \in Threads : pc[t] \notin {"idle", "asleep"})
    => \E t \in Threads : ENABLED ThreadStep(t)

\* "attempts to do so will block until other concurrent write operations raise
\* the count again" (man/misc/semfs.html): nobody sleeps in a P on a semaphore
\* that has units, unless a thread woken for them is on its way.
NoSleeperForgotten == \A t \in Threads :
  pc[t] = "asleep" /\ semfs_sems[open[t]].count > 0 =>
    \E u \in Threads : pc[u] = "woken" /\ open[u] = open[t]
-----------------------------------------------------------------------------
Closing(t) == pc[t] \in {"reclaim", "clearing"}
MNamed == [n \in Names |-> IF At(n) = {} THEN NULL ELSE Named(n)]
MOpen == [t \in Threads |-> IF Closing(t) THEN NULL ELSE open[t]]
MCount == [i \in Slots |->
  IF (\E n \in Names : MNamed[n] = i) \/ (\E t \in Threads : MOpen[t] = i)
  THEN semfs_sems[i].count ELSE 0]

Abstract == INSTANCE NamedSemaphores
  WITH Ids <- Slots, named <- MNamed, open <- MOpen, count <- MCount, owed <- uio_resid

\* Every step of semfs is one atomic step of the semaphores the manual page
\* describes: the count outlives its vnode while the name is there, an unlinked
\* semaphore works for those who have it open, and one that was created anew
\* under the same name starts at 0 and is another one.
ImplementsSemaphores == Abstract!ASpec
=============================================================================
