----------------------------- MODULE FileTable -----------------------------
(***************************************************************************)
(* File tables and open files of the asst3 kernel: kern/syscall/           *)
(* filetable.c, openfile.c and file_syscalls.c, with the loops of fork and *)
(* exit over a table.                                                      *)
(*                                                                         *)
(* A process has one thread, so its table is touched by one thread at a    *)
(* time; an openfile is shared by fork and dup2.  of_reflock makes one     *)
(* openfile_incref or _decref one action, except that openfile_decref      *)
(* lets go of it before openfile_destroy.  of_offsetlock is held across    *)
(* the transfer, which may block.  Calls that fail before they change      *)
(* anything (EBADF, EINVAL, ESPIPE, a failing vfs_open) are no actions,    *)
(* nor is dup2 of a descriptor, open or not, onto itself.                  *)
(* The access mode is not kept: an access it forbids fails under the lock  *)
(* like a transfer that fails.                                             *)
(***************************************************************************)
EXTENDS Naturals, FiniteSets

CONSTANTS
  Procs,
  Root,            \* the process that runprogram starts
  Files,           \* openfile structures; a freed one is used again
  OPEN_MAX,
  MAX_OFFSET,      \* bound on seek positions
  NULL

ASSUME ProcsAssumption == Root \in Procs /\ NULL \notin Procs \cup Files
ASSUME FiniteAssumption == IsFiniteSet(Procs) /\ IsFiniteSet(Files)
ASSUME LimitsAssumption == OPEN_MAX \in Nat /\ MAX_OFFSET \in Nat

Fds == 0..(OPEN_MAX - 1)
Offsets == 0..MAX_OFFSET

VARIABLES
  ft,           \* process -> descriptor -> openfile or NULL
  of_refcount,  \* 0: not allocated
  of_offset,
  of_offsetlock,
  seekable,     \* VOP_ISSEEKABLE of the openfile's vnode
  job,          \* what each process's thread is doing, see Job
  panic         \* the KASSERT that failed, or "none"

vars == <<ft, of_refcount, of_offset, of_offsetlock, seekable, job, panic>>
file == <<of_refcount, of_offset, of_offsetlock, seekable>>

\* none: no process.  born: made by fork, not yet run.  run: in user mode.
\* drop: at openfile_decref(file).  destroy: in openfile_destroy(file).
\* wait: at lock_acquire(of_offsetlock).  move: in the transfer.
\* copy, clear: in the loop of filetable_copy to, filetable_destroy of, the
\* table of process who, at fd.  A drop inside that loop has who set as well.
Places == {"none", "born", "run", "drop", "destroy", "wait", "move", "copy", "clear"}
Job == [at : Places, file : Files \cup {NULL}, fd : 0..OPEN_MAX,
        who : Procs \cup {NULL}, pos : Offsets]
Idle(at) == [at |-> at, file |-> NULL, fd |-> 0, who |-> NULL, pos |-> 0]

At(p, at) == job[p].at = at
Empty == [fd \in Fds |-> NULL]

Init == /\ ft = [p \in Procs |-> Empty]
        /\ of_refcount = [f \in Files |-> 0]
        /\ of_offset = [f \in Files |-> 0]
        /\ of_offsetlock = [f \in Files |-> NULL]
        /\ seekable = [f \in Files |-> FALSE]
        /\ job = [p \in Procs |-> Idle(IF p = Root THEN "run" ELSE "none")]
        /\ panic = "none"

Do(p, j) == job' = [job EXCEPT ![p] = j]

\* openfile_create: one reference, offset 0.
Created(f, s) == /\ of_refcount[f] = 0
                 /\ of_refcount' = [of_refcount EXCEPT ![f] = 1]
                 /\ of_offset' = [of_offset EXCEPT ![f] = 0]
                 /\ seekable' = [seekable EXCEPT ![f] = s]
                 /\ UNCHANGED of_offsetlock

\* filetable_place takes the lowest free descriptor.
Lowest(p, fd) == /\ ft[p][fd] = NULL
                 /\ \A i \in 0..(fd - 1) : ft[p][i] # NULL

-----------------------------------------------------------------------------
\* sys_open; with the table full the openfile is dropped again.
Open(p) == /\ At(p, "run")
           /\ \E f \in Files, s \in BOOLEAN :
                /\ Created(f, s)
                /\ \/ \E fd \in Fds : /\ Lowest(p, fd)
                                      /\ ft' = [ft EXCEPT ![p][fd] = f]
                                      /\ UNCHANGED job
                   \/ /\ \A fd \in Fds : ft[p][fd] # NULL
                      /\ Do(p, [Idle("drop") EXCEPT !.file = f])
                      /\ UNCHANGED ft
           /\ UNCHANGED <<panic>>

\* sys_close of an open descriptor.
Close(p) == /\ At(p, "run")
            /\ \E fd \in Fds : /\ ft[p][fd] # NULL
                               /\ ft' = [ft EXCEPT ![p][fd] = NULL]
                               /\ Do(p, [Idle("drop") EXCEPT !.file = ft[p][fd]])
            /\ UNCHANGED <<file, panic>>

openfile_incref(f) == of_refcount' = [of_refcount EXCEPT ![f] = @ + 1]

\* sys_dup2 of two different descriptors, the first one open.
Dup2(p) ==
  /\ At(p, "run")
  /\ \E old, new \in Fds :
       LET f == ft[p][old] IN
       /\ old # new
       /\ f # NULL
       /\ openfile_incref(f)
       /\ ft' = [ft EXCEPT ![p][new] = f]
       /\ IF ft[p][new] = NULL THEN UNCHANGED job
                               ELSE Do(p, [Idle("drop") EXCEPT !.file = ft[p][new]])
  /\ UNCHANGED <<of_offset, of_offsetlock, seekable, panic>>

-----------------------------------------------------------------------------
\* What follows a drop: the next descriptor of filetable_destroy's loop, the
\* entry at this one NULL; or, after close, dup2 and open, user mode.
Dropped(p) ==
  IF job[p].who = NULL
  THEN Do(p, Idle("run")) /\ UNCHANGED ft
  ELSE /\ ft' = [ft EXCEPT ![job[p].who][job[p].fd] = NULL]
       /\ Do(p, [job[p] EXCEPT !.at = "clear", !.file = NULL, !.fd = @ + 1])

\* openfile_decref: the last reference is not counted down.
Decref(p) ==
  LET f == job[p].file IN
  /\ At(p, "drop")
  /\ IF of_refcount[f] = 1
     THEN Do(p, [job[p] EXCEPT !.at = "destroy"]) /\ UNCHANGED <<ft, of_refcount>>
     ELSE of_refcount' = [of_refcount EXCEPT ![f] = @ - 1] /\ Dropped(p)
  /\ panic' = IF of_refcount[f] > 0 THEN panic ELSE "openfile.c:145"
  /\ UNCHANGED <<of_offset, of_offsetlock, seekable>>

\* openfile_destroy: lock_destroy asserts that nobody holds the lock.
Destroy(p) ==
  LET f == job[p].file IN
  /\ At(p, "destroy")
  /\ of_refcount' = [of_refcount EXCEPT ![f] = 0]
  /\ of_offset' = [of_offset EXCEPT ![f] = 0]
  /\ seekable' = [seekable EXCEPT ![f] = FALSE]
  /\ panic' = IF of_offsetlock[f] = NULL THEN panic ELSE "synch.c:176"
  /\ Dropped(p)
  /\ UNCHANGED <<of_offsetlock>>

-----------------------------------------------------------------------------
\* sys_fork reaches filetable_copy, for a new process c.
Fork(p) == /\ At(p, "run")
           /\ \E c \in Procs :
                /\ At(c, "none")
                /\ job' = [job EXCEPT ![p] = [Idle("copy") EXCEPT !.who = c],
                                      ![c] = Idle("born")]
           /\ UNCHANGED <<ft, file, panic>>

\* One turn of filetable_copy's loop.
CopyOne(p) ==
  LET c == job[p].who
      fd == job[p].fd
      f == ft[p][fd] IN
  /\ At(p, "copy") /\ fd # OPEN_MAX
  /\ IF f = NULL THEN UNCHANGED of_refcount ELSE openfile_incref(f)
  /\ ft' = [ft EXCEPT ![c][fd] = f]
  /\ Do(p, [job[p] EXCEPT !.fd = @ + 1])
  /\ UNCHANGED <<of_offset, of_offsetlock, seekable, panic>>

\* thread_fork succeeds.
Forked(p) == /\ At(p, "copy") /\ job[p].fd = OPEN_MAX
             /\ job' = [job EXCEPT ![p] = Idle("run"), ![job[p].who] = Idle("run")]
             /\ UNCHANGED <<ft, file, panic>>

UnforkKeeps(p) ==                                    \* mutant: table not destroyed
  /\ At(p, "copy") /\ job[p].fd = OPEN_MAX
  /\ job' = [job EXCEPT ![p] = Idle("run"), ![job[p].who] = Idle("none")]
  /\ UNCHANGED <<ft, file, panic>>

\* thread_fork fails: proc_unfork destroys the new process and its table.
Unfork(p) == /\ At(p, "copy") /\ job[p].fd = OPEN_MAX
             /\ Do(p, [Idle("clear") EXCEPT !.who = job[p].who])
             /\ UNCHANGED <<ft, file, panic>>

\* _exit: proc_destroy destroys the process's own table.
Exit(p) == /\ At(p, "run")
           /\ Do(p, [Idle("clear") EXCEPT !.who = p])
           /\ UNCHANGED <<ft, file, panic>>

\* One turn of filetable_destroy's loop, up to the decref if there is one.
ClearOne(p) ==
  LET f == ft[job[p].who][job[p].fd] IN
  /\ At(p, "clear") /\ job[p].fd # OPEN_MAX
  /\ Do(p, IF f = NULL THEN [job[p] EXCEPT !.fd = @ + 1]
                       ELSE [job[p] EXCEPT !.at = "drop", !.file = f])
  /\ UNCHANGED <<ft, file, panic>>

\* The table is freed, and with it the process it belonged to.
Cleared(p) == /\ At(p, "clear") /\ job[p].fd = OPEN_MAX
              /\ job' = [q \in Procs |->
                           CASE q = job[p].who -> Idle("none")
                             [] q = p /\ q # job[p].who -> Idle("run")
                             [] OTHER -> job[q]]
              /\ UNCHANGED <<ft, file, panic>>

-----------------------------------------------------------------------------
\* sys_read, sys_write: the openfile of the descriptor is looked up; its
\* offset is locked if it has one.
Access(p) == /\ At(p, "run")
             /\ \E fd \in Fds :
                  LET f == ft[p][fd] IN
                  /\ f # NULL
                  /\ Do(p, [Idle(IF seekable[f] THEN "wait" ELSE "move")
                              EXCEPT !.file = f, !.fd = fd])
             /\ UNCHANGED <<ft, file, panic>>

\* sys_getdirentry asserts that the object is seekable; then it is a read.
Getdirentry(p) ==
  /\ At(p, "run")
  /\ \E fd \in Fds :
       LET f == ft[p][fd] IN
       /\ f # NULL
       /\ IF seekable[f]
          THEN /\ Do(p, [Idle("wait") EXCEPT !.file = f, !.fd = fd])
               /\ UNCHANGED panic
          ELSE /\ panic' = "more_syscalls.c:300"
               /\ UNCHANGED job
  /\ UNCHANGED <<ft, file>>

\* lock_acquire succeeds and the offset is read.
LockOffset(p) ==
  LET f == job[p].file IN
  /\ At(p, "wait")
  /\ of_offsetlock[f] = NULL
  /\ of_offsetlock' = [of_offsetlock EXCEPT ![f] = p]
  /\ Do(p, [job[p] EXCEPT !.at = "move", !.pos = of_offset[f]])
  /\ UNCHANGED <<ft, of_refcount, of_offset, seekable, panic>>

UnlockOnSuccess(p, f, o) ==                          \* mutant: locked after a failure
  /\ of_offset' = [of_offset EXCEPT ![f] = o]
  /\ of_offsetlock' = [of_offsetlock EXCEPT ![f] = IF o = job[p].pos THEN @ ELSE NULL]

\* The offset becomes o (what it was, if the transfer failed) and is unlocked.
Unlock(p, f, o) ==
  /\ of_offset' = [of_offset EXCEPT ![f] = o]
  /\ of_offsetlock' = [of_offsetlock EXCEPT ![f] = NULL]

\* The transfer ends, after some or none of it; filetable_put crosschecks.
Moved(p) ==
  LET f == job[p].file IN
  /\ At(p, "move")
  /\ IF seekable[f]
     THEN \E o \in {job[p].pos, job[p].pos + 1} \cap Offsets : Unlock(p, f, o)
     ELSE UNCHANGED <<of_offset, of_offsetlock>>
  /\ Do(p, Idle("run"))
  /\ panic' = IF ft[p][job[p].fd] = f THEN panic ELSE "filetable.c:187"
  /\ UNCHANGED <<ft, of_refcount, seekable>>

LseekUnlocked(p) ==                                  \* mutant: no lock
  /\ At(p, "run")
  /\ \E fd \in Fds, o \in Offsets :
       LET f == ft[p][fd] IN
       /\ f # NULL
       /\ seekable[f]
       /\ of_offset' = [of_offset EXCEPT ![f] = o]
  /\ UNCHANGED <<ft, of_refcount, of_offsetlock, seekable, job, panic>>

\* sys_lseek, whole under of_offsetlock.
Lseek(p) == /\ At(p, "run")
            /\ \E fd \in Fds, o \in Offsets :
                 LET f == ft[p][fd] IN
                 /\ f # NULL
                 /\ seekable[f]
                 /\ of_offsetlock[f] = NULL
                 /\ of_offset' = [of_offset EXCEPT ![f] = o]
            /\ UNCHANGED <<ft, of_refcount, of_offsetlock, seekable, job, panic>>

-----------------------------------------------------------------------------
\* What a process does on its own once it has called the kernel.
Internal(p) == \/ Decref(p) \/ Destroy(p) \/ CopyOne(p) \/ Forked(p) \/ Unfork(p)
               \/ ClearOne(p) \/ Cleared(p) \/ LockOffset(p) \/ Moved(p)
Call(p) == \/ Open(p) \/ Close(p) \/ Dup2(p) \/ Fork(p) \/ Exit(p)
           \/ Access(p) \/ Getdirentry(p) \/ Lseek(p)

Next == /\ panic = "none"
        /\ \E p \in Procs : Call(p) \/ Internal(p)

\* A system call under way goes on.
Spec == Init /\ [][Next]_vars /\ \A p \in Procs : WF_vars(panic = "none" /\ Internal(p))

-----------------------------------------------------------------------------
TypeOK == /\ ft \in [Procs -> [Fds -> Files \cup {NULL}]]
          /\ of_refcount \in [Files -> Nat]
          /\ of_offset \in [Files -> Offsets]
          /\ of_offsetlock \in [Files -> Procs \cup {NULL}]
          /\ seekable \in [Files -> BOOLEAN]
          /\ job \in [Procs -> Job]

\* The references there are to f: the entries of all tables, those under
\* construction and destruction included, and the reference that close, dup2
\* or open took out of a table or never put there and is about to drop.
Entries(f) == {e \in Procs \X Fds : ft[e[1]][e[2]] = f}
Droppers(f) == {p \in Procs : /\ job[p].at \in {"drop", "destroy"}
                              /\ job[p].file = f /\ job[p].who = NULL}

\* of_refcount is the number of references.
CountsReferences == \A f \in Files : of_refcount[f] = Cardinality(Entries(f)) + Cardinality(Droppers(f))

\* openfile_decref gives up of_reflock before it destroys: nobody else has a
\* reference, is using the file, or is dropping it then.
DestroyerAlone ==
  \A p, q \in Procs :
    At(p, "destroy") /\ p # q =>
      /\ job[q].file # job[p].file
      /\ \A fd \in Fds : ft[q][fd] = job[p].file => job[p].who = q

\* Through every interleaving of fork's, exit's, dup2's and close's increments
\* and decrements nothing is freed while in use, and nothing leaks.
RefcountExact == CountsReferences /\ DestroyerAlone

\* Nobody moves the offset of a file between the step that reads it for a
\* transfer and the step that sets it: transfers through a shared openfile
\* follow on one another (filetable_copy's "echo hi; echo there").
OffsetOwned ==
  \A p \in Procs : At(p, "move") /\ seekable[job[p].file] =>
                     /\ of_offsetlock[job[p].file] = p
                     /\ of_offset[job[p].file] = job[p].pos

\* Of the KASSERTs of openfile_decref, lock_destroy, filetable_put and
\* sys_getdirentry only the last can fail: getdirentry on a device.
OnlyDirentryPanics == panic \in {"none", "more_syscalls.c:300"}

\* The owner of an offset lock gives it up, unless the kernel panicked.
OffsetFreed == \A f \in Files :
                 of_offsetlock[f] # NULL ~> (of_offsetlock[f] = NULL \/ panic # "none")
=============================================================================
