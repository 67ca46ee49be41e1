------------------------------ MODULE PidTable ------------------------------
(***************************************************************************)
(* Process ids, fork, _exit and waitpid of the OS/161 kernel of            *)
(* assignment 3: kern/proc/pid.c with its callers in kern/proc/proc.c,     *)
(* kern/syscall/proc_syscalls.c and the kernel menu (kern/main/menu.c).    *)
(*                                                                         *)
(* A stretch of code that runs under pidlock is one atomic action, since   *)
(* every access to the table is under that lock; pid_wait gives the lock   *)
(* up inside cv_wait and is therefore two actions.  Processes have one     *)
(* thread each, as in the code.                                            *)
(***************************************************************************)
EXTENDS Integers, FiniteSets

CONSTANTS
  Procs,          \* proc structures, named; a name is used again only when
                  \* neither a structure nor a pidinfo of it is left
  KProc,          \* kproc, whose menu thread runs programs
  PROCS_MAX,      \* slots of the table
  PID_MIN, PID_MAX,
  Statuses,       \* encoded exit statuses
  NULL,           \* an empty slot, no process
  MenuForkFails   \* whether thread_fork may fail in the kernel menu

INVALID_PID == 0
KERNEL_PID == 1
NoStatus == "0xbeef"
Slots == 0..(PROCS_MAX - 1)
Pids == PID_MIN..PID_MAX

ASSUME ProcsAssumption == KProc \in Procs /\ NULL \notin Procs
ASSUME LimitsAssumption == /\ PROCS_MAX \in Nat /\ PROCS_MAX > KERNEL_PID
                           /\ PID_MIN \in Nat /\ PID_MIN > KERNEL_PID
                           /\ PID_MAX \in Nat
                           /\ PID_MAX - PID_MIN + 1 >= PROCS_MAX
ASSUME MenuAssumption == MenuForkFails \in BOOLEAN

\* struct pidinfo.  pi_cv is the set of processes in "wait" for pi_pid.
\* owner is a ghost: the process the id was given to.
PidInfo == [pid : Pids \cup {KERNEL_PID}, ppid : Pids \cup {INVALID_PID, KERNEL_PID},
            exited : BOOLEAN, status : Statuses \cup {NoStatus}, owner : Procs]
ASSUME NullAssumption == NULL \notin PidInfo

VARIABLES
  pidinfo,    \* the table: slot -> pidinfo or NULL
  nextpid,
  nprocs,
  p_pid,      \* proc->p_pid
  pstate,     \* where the process's thread is, see States
  newproc,    \* the local newproc of proc_fork or common_prog, or NULL
  them,       \* the pid that pid_wait was called with, while it waits
  ret,        \* what the last step returned to its caller
  panic       \* the KASSERT that failed and stopped the kernel, or "none"

vars == <<pidinfo, nextpid, nprocs, p_pid, pstate, newproc, them, ret, panic>>

\* free: no structure.  new: made by proc_create, not yet run.  run: in user
\* mode, or in the menu loop.  fork: between pid_alloc and thread_fork.
\* menu: common_prog about to call pid_wait.  wait: asleep on pi_cv.  woken:
\* taken off pi_cv, not yet holding pidlock.  dying: in proc_exit, past
\* pid_setexitstatus.
States == {"free", "new", "run", "fork", "menu", "wait", "woken", "dying"}

NoRet == [op |-> "none"]

Slot(pid) == pid % PROCS_MAX
Occupied == {i \in Slots : pidinfo[i] # NULL}

\* pi_get: the entry of pid, or NULL.
pi_get(pid) == IF pidinfo[Slot(pid)] # NULL /\ pidinfo[Slot(pid)].pid = pid
               THEN pidinfo[Slot(pid)] ELSE NULL

\* A process name that neither a structure nor a pidinfo uses.
Unused(c) == pstate[c] = "free" /\ \A i \in Occupied : pidinfo[i].owner # c

pi_drop_uncounted(pid) ==                            \* mutant: nprocs-- forgotten
  pidinfo' = [pidinfo EXCEPT ![Slot(pid)] = NULL] /\ nprocs' = nprocs

\* pi_drop: free the entry of pid.
pi_drop(pid) == /\ pidinfo' = [pidinfo EXCEPT ![Slot(pid)] = NULL]
                /\ nprocs' = nprocs - 1

\* A failed KASSERT: the kernel panics and nothing else happens.
Panic(where) ==
  /\ panic' = where
  /\ UNCHANGED <<pidinfo, nextpid, nprocs, p_pid, pstate, newproc, them, ret>>

-----------------------------------------------------------------------------
Init == /\ pidinfo = [i \in Slots |->
                        IF i = KERNEL_PID
                        THEN [pid |-> KERNEL_PID, ppid |-> INVALID_PID, exited |-> FALSE,
                              status |-> NoStatus, owner |-> KProc]
                        ELSE NULL]
        /\ nextpid = PID_MIN
        /\ nprocs = 1
        /\ p_pid = [p \in Procs |-> IF p = KProc THEN KERNEL_PID ELSE INVALID_PID]
        /\ pstate = [p \in Procs |-> IF p = KProc THEN "run" ELSE "free"]
        /\ newproc = [p \in Procs |-> NULL]
        /\ them = [p \in Procs |-> INVALID_PID]
        /\ ret = NoRet
        /\ panic = "none"

CandidateNoWrap(k) == nextpid + k                    \* mutant: never wraps

\* nextpid after k calls of inc_nextpid.
Candidate(k) == PID_MIN + ((nextpid - PID_MIN + k) % (PID_MAX - PID_MIN + 1))

\* The loop of pid_alloc passes over k candidates and stops at a free slot.
Skips(k) == /\ pidinfo[Slot(Candidate(k))] = NULL
            /\ \A j \in 0..(k - 1) : pidinfo[Slot(Candidate(j))] # NULL

\* nextpid when pid_alloc has used the k-th candidate.
AfterAlloc(k) == Candidate(k + 1)

\* pid_alloc with the table full.
AllocAgain(p) == /\ pstate[p] = "run"
                 /\ nprocs = PROCS_MAX
                 /\ ret' = [op |-> "fork", by |-> p, err |-> "EAGAIN"]
                 /\ UNCHANGED <<pidinfo, nextpid, nprocs, p_pid, pstate, newproc, them, panic>>

\* pid_alloc when pidinfo_create finds no memory: nextpid has moved already.
AllocNoMem(p) ==
  /\ pstate[p] = "run"
  /\ nprocs # PROCS_MAX
  /\ \E k \in 0..(PID_MAX - PID_MIN) :
       /\ Skips(k)
       /\ nextpid' = Candidate(k)
  /\ ret' = [op |-> "fork", by |-> p, err |-> "ENOMEM"]
  /\ UNCHANGED <<pidinfo, nprocs, p_pid, pstate, newproc, them, panic>>

\* proc_create and pid_alloc, as proc_fork and proc_create_runprogram call them.
Alloc(p, c) ==
  /\ pstate[p] = "run"
  /\ Unused(c)
  /\ nprocs # PROCS_MAX
  /\ \E k \in 0..(PID_MAX - PID_MIN) :
       LET pid == Candidate(k) IN
       /\ Skips(k)
       /\ pidinfo' = [pidinfo EXCEPT ![Slot(pid)] =
                        [pid |-> pid, ppid |-> p_pid[p], exited |-> FALSE,
                         status |-> NoStatus, owner |-> c]]
       /\ nextpid' = AfterAlloc(k)
       /\ p_pid' = [p_pid EXCEPT ![c] = pid]
       /\ panic' = IF k > 2 * PROCS_MAX + 5 THEN "pid.c:258" ELSE panic
  /\ nprocs' = nprocs + 1
  /\ pstate' = [pstate EXCEPT ![p] = "fork", ![c] = "new"]
  /\ newproc' = [newproc EXCEPT ![p] = c]
  /\ ret' = NoRet
  /\ UNCHANGED them

\* The rest of proc_fork and sys_fork: the child may run.
ForkDone(p) ==
  LET c == newproc[p] IN
  /\ pstate[p] = "fork" /\ p # KProc
  /\ pstate' = [pstate EXCEPT ![p] = "run", ![c] = "run"]
  /\ newproc' = [newproc EXCEPT ![p] = NULL]
  /\ ret' = [op |-> "fork", by |-> p, pid |-> p_pid[c]]
  /\ UNCHANGED <<pidinfo, nextpid, nprocs, p_pid, them, panic>>

\* as_copy or filetable_copy fails in proc_fork, or thread_fork fails and
\* sys_fork calls proc_unfork: pid_unalloc, then proc_destroy.
ForkUndo(p) ==
  LET c == newproc[p]
      pi == pi_get(p_pid[c]) IN
  /\ pstate[p] = "fork" /\ p # KProc
  /\ IF pi = NULL \/ pi.exited \/ pi.ppid # p_pid[p]
     THEN Panic("pid.c:296")
     ELSE /\ pi_drop(p_pid[c])
          /\ p_pid' = [p_pid EXCEPT ![c] = INVALID_PID]
          /\ pstate' = [pstate EXCEPT ![p] = "run", ![c] = "free"]
          /\ newproc' = [newproc EXCEPT ![p] = NULL]
          /\ ret' = [op |-> "fork", by |-> p, err |-> "ENOMEM"]
          /\ UNCHANGED <<nextpid, them, panic>>

\* common_prog after proc_create_runprogram: thread_fork, then pid_wait.
MenuFork ==
  LET c == newproc[KProc] IN
  /\ pstate[KProc] = "fork"
  /\ pstate' = [pstate EXCEPT ![KProc] = "menu", ![c] = "run"]
  /\ newproc' = [newproc EXCEPT ![KProc] = NULL]
  /\ them' = [them EXCEPT ![KProc] = p_pid[c]]
  /\ ret' = NoRet
  /\ UNCHANGED <<pidinfo, nextpid, nprocs, p_pid, panic>>

\* common_prog when thread_fork fails: proc_destroy while p_pid is still set.
MenuForkFail ==
  LET c == newproc[KProc] IN
  /\ MenuForkFails
  /\ pstate[KProc] = "fork"
  /\ IF p_pid[c] # INVALID_PID
     THEN Panic("proc.c:185")
     ELSE /\ pstate' = [pstate EXCEPT ![KProc] = "run", ![c] = "free"]
          /\ newproc' = [newproc EXCEPT ![KProc] = NULL]
          /\ ret' = [op |-> "fork", by |-> KProc, err |-> "ENOMEM"]
          /\ UNCHANGED <<pidinfo, nextpid, nprocs, p_pid, them, panic>>

ChildrenNone(pid) == {}                              \* mutant: no disowning

\* The slots of the children of the process with this pid.
Children(pid) == {i \in Occupied : pidinfo[i].ppid = pid}

DroppedSelf(pid) ==                                  \* mutant: dead children stay
  IF pi_get(pid).ppid = INVALID_PID THEN {Slot(pid)} ELSE {}

\* The slots pid_setexitstatus frees: dead children, and its own if nobody may
\* collect the status.
Dropped(pid) == {i \in Children(pid) : pidinfo[i].exited}
                \cup (IF pi_get(pid).ppid = INVALID_PID THEN {Slot(pid)} ELSE {})

WokenNone(pid) == {}                                 \* mutant: no cv_broadcast
WokenAll(pid) == {q \in Procs : pstate[q] = "wait"}  \* mutant: one cv for all

\* The processes cv_broadcast on the pi_cv of pid wakes up.
Woken(pid) == {q \in Procs : /\ pstate[q] = "wait" /\ them[q] = pid
                             /\ pi_get(pid).ppid # INVALID_PID}

\* proc_exit up to and including pid_setexitstatus(s).
Exit(p, s) ==
  LET mine == p_pid[p] IN
  /\ pstate[p] = "run" /\ p # KProc
  /\ IF mine = INVALID_PID \/ pi_get(mine) = NULL
     THEN Panic("pid.c:350")
     ELSE /\ pidinfo' = [i \in Slots |->
                IF i \in Dropped(mine) THEN NULL
                ELSE IF i = Slot(mine) THEN [pidinfo[i] EXCEPT !.exited = TRUE, !.status = s]
                ELSE IF i \in Children(mine) THEN [pidinfo[i] EXCEPT !.ppid = INVALID_PID]
                ELSE pidinfo[i]]
          /\ nprocs' = nprocs - Cardinality(Dropped(mine))
          /\ pstate' = [q \in Procs |-> IF q = p THEN "dying"
                                        ELSE IF q \in Woken(mine) THEN "woken"
                                        ELSE pstate[q]]
          /\ p_pid' = [p_pid EXCEPT ![p] = INVALID_PID]
          /\ ret' = NoRet
          /\ UNCHANGED <<nextpid, newproc, them, panic>>

\* The rest of proc_exit: the thread moves to kproc, proc_destroy.
Destroy(p) ==
  /\ pstate[p] = "dying"
  /\ IF p_pid[p] # INVALID_PID
     THEN Panic("proc.c:185")
     ELSE /\ pstate' = [pstate EXCEPT ![p] = "free"]
          /\ ret' = NoRet
          /\ UNCHANGED <<pidinfo, nextpid, nprocs, p_pid, newproc, them, panic>>

-----------------------------------------------------------------------------
WaitErrorAnyone(p, pid, flags) ==                    \* mutant: no parent check
  IF pid = p_pid[p] \/ flags = "bad" THEN "EINVAL"
  ELSE IF pid <= INVALID_PID THEN "ENOSYS"
  ELSE IF pi_get(pid) = NULL THEN "ESRCH" ELSE "ok"

\* The error pid_wait(pid, flags) returns at once, or "ok".
WaitError(p, pid, flags) ==
  IF pid = p_pid[p] THEN "EINVAL"
  ELSE IF pid <= INVALID_PID THEN "ENOSYS"
  ELSE IF flags = "bad" THEN "EINVAL"
  ELSE IF pi_get(pid) = NULL THEN "ESRCH"
  ELSE IF pi_get(pid).ppid # p_pid[p] THEN "EPERM" ELSE "ok"

\* Where waitpid is called: user mode, or the menu for the child it made.
CallsWait(p, pid) == \/ pstate[p] = "run" /\ p # KProc
                     \/ pstate[p] = "menu" /\ pid = them[p]

\* pid_wait returns an error; common_prog does not look at it.
WaitFails(p, pid, flags) ==
  /\ CallsWait(p, pid)
  /\ WaitError(p, pid, flags) # "ok"
  /\ ret' = [op |-> "wait", by |-> p, err |-> WaitError(p, pid, flags)]
  /\ pstate' = [pstate EXCEPT ![p] = "run"]
  /\ them' = [them EXCEPT ![p] = INVALID_PID]
  /\ UNCHANGED <<pidinfo, nextpid, nprocs, p_pid, newproc, panic>>

\* What the caller gets of a child's entry.  The copyout of sys_waitpid may fail,
\* when the entry is already dropped: the status is lost.  The menu has no copyout.
Answers(p, pi) ==
  LET answer == [op |-> "wait", by |-> p, pid |-> pi.pid, child |-> pi.owner,
                 status |-> pi.status]
  IN  {answer} \cup (IF p = KProc THEN {}
                     ELSE {[answer EXCEPT !.pid = INVALID_PID, !.status = NULL]})

\* The end of pid_wait: status and pid go to the caller, the entry is dropped.
Collect(p, pid) ==
  /\ ret' \in Answers(p, pi_get(pid))
  /\ pi_drop(pid)
  /\ pstate' = [pstate EXCEPT ![p] = "run"]
  /\ them' = [them EXCEPT ![p] = INVALID_PID]
  /\ UNCHANGED <<nextpid, p_pid, newproc, panic>>

\* pid_wait for a child that has exited.
WaitExited(p, pid, flags) == /\ CallsWait(p, pid)
                             /\ WaitError(p, pid, flags) = "ok"
                             /\ pi_get(pid).exited
                             /\ Collect(p, pid)

\* pid_wait with WNOHANG for a child that has not: 0 is returned, or EFAULT.
WaitNoHang(p, pid) ==
  /\ CallsWait(p, pid)
  /\ WaitError(p, pid, "WNOHANG") = "ok"
  /\ ~pi_get(pid).exited
  /\ \/ ret' = [op |-> "wait", by |-> p, pid |-> INVALID_PID]
     \/ ret' = [op |-> "wait", by |-> p, err |-> "EFAULT"]
  /\ UNCHANGED <<pidinfo, nextpid, nprocs, p_pid, pstate, newproc, them, panic>>

\* pid_wait for a child that has not exited: cv_wait gives pidlock up.
WaitSleep(p, pid) ==
  /\ CallsWait(p, pid)
  /\ WaitError(p, pid, "0") = "ok"
  /\ ~pi_get(pid).exited
  /\ pstate' = [pstate EXCEPT ![p] = "wait"]
  /\ them' = [them EXCEPT ![p] = pid]
  /\ ret' = NoRet
  /\ UNCHANGED <<pidinfo, nextpid, nprocs, p_pid, newproc, panic>>

\* cv_wait returns with pidlock held again.
WaitResume(p) ==
  LET pi == pi_get(them[p]) IN
  /\ pstate[p] = "woken"
  /\ IF pi = NULL \/ ~pi.exited THEN Panic("pid.c:443") ELSE Collect(p, them[p])

\* The end of the system call, in mips_syscall: p takes the result and goes on in
\* user mode (or in the menu).  What it does next need not come after this step;
\* it is there so that a call repeated with the same result is not lost to sight.
Returns(p) == /\ ret # NoRet
              /\ ret.by = p
              /\ ret' = NoRet
              /\ UNCHANGED <<pidinfo, nextpid, nprocs, p_pid, pstate, newproc, them, panic>>

-----------------------------------------------------------------------------
WaitPids == Pids \cup {-1, INVALID_PID, KERNEL_PID}

Step(p) == \/ AllocAgain(p) \/ AllocNoMem(p)
           \/ \E c \in Procs : Alloc(p, c)
           \/ ForkDone(p) \/ ForkUndo(p)
           \/ \E s \in Statuses : Exit(p, s)
           \/ Destroy(p)
           \/ \E pid \in WaitPids, flags \in {"0", "WNOHANG", "bad"} :
                WaitFails(p, pid, flags) \/ WaitExited(p, pid, flags)
           \/ \E pid \in WaitPids : WaitSleep(p, pid) \/ (p # KProc /\ WaitNoHang(p, pid))
           \/ WaitResume(p)
           \/ Returns(p)

Next == /\ panic = "none"
        /\ (\E p \in Procs : Step(p)) \/ MenuFork \/ MenuForkFail

Spec == Init /\ [][Next]_vars

\* The steps in which p comes to pidlock, other than back from cv_wait.
Enters(p) == \/ AllocAgain(p) \/ AllocNoMem(p) \/ ForkUndo(p)
             \/ \E c \in Procs : Alloc(p, c)
             \/ \E s \in Statuses : Exit(p, s)
             \/ \E pid \in WaitPids, flags \in {"0", "WNOHANG", "bad"} :
                  \/ WaitFails(p, pid, flags) /\ WaitError(p, pid, flags) \in {"ESRCH", "EPERM"}
                  \/ WaitExited(p, pid, flags)
             \/ \E pid \in WaitPids : WaitSleep(p, pid) \/ (p # KProc /\ WaitNoHang(p, pid))

\* While threads woken in cv_wait contend for pidlock, somebody gets it.  It need
\* not be one of them: lock_acquire lets newcomers overtake, for ever.
GetsPidlock == /\ panic = "none"
               /\ \E p \in Procs : pstate[p] = "woken"
               /\ \E p \in Procs : WaitResume(p) \/ Enters(p)

Fairness == WF_vars(GetsPidlock)
LiveSpec == Spec /\ Fairness

-----------------------------------------------------------------------------
\* Every variable has its type.
TypeOK == /\ pidinfo \in [Slots -> PidInfo \cup {NULL}]
          /\ nextpid \in Pids
          /\ nprocs \in Int
          /\ p_pid \in [Procs -> Pids \cup {INVALID_PID, KERNEL_PID}]
          /\ pstate \in [Procs -> States]
          /\ newproc \in [Procs -> Procs \cup {NULL}]
          /\ them \in [Procs -> Pids \cup {INVALID_PID, KERNEL_PID}]

\* No KASSERT of pid.c or proc.c fails: not the loop guard of pid_alloc
\* (pid.c:258), not pid_unalloc's (296), pid_setexitstatus's (350, 367), the one
\* after cv_wait (443), nor proc_destroy's (proc.c:185).
NoPanic == panic = "none"

\* The same where thread_fork may fail in the menu: only the KASSERT that failure
\* leads to can fail, whatever processes do at the same time.
OnlyMenuPanics == panic \in {"none", "proc.c:185"}

\* nprocs is the number of occupied slots, so the full-table test of pid_alloc
\* tells the truth and its loop finds a slot.
CountExact == nprocs = Cardinality(Occupied)

\* A process that has a pid owns the entry of that pid, and that entry is in
\* the slot pi_get looks at: no two processes ever share a pid or a slot.
PidsUnique == \A p \in Procs : p_pid[p] # INVALID_PID =>
                 /\ pi_get(p_pid[p]) # NULL
                 /\ pi_get(p_pid[p]).owner = p
                 /\ ~pi_get(p_pid[p]).exited

\* No entry outlives its use: it belongs to a process that still has the pid,
\* or to one that has exited and whose parent may still collect the status.
NoLeakedEntry == \A i \in Occupied :
                    IF pidinfo[i].exited
                    THEN pidinfo[i].ppid # INVALID_PID
                    ELSE p_pid[pidinfo[i].owner] = pidinfo[i].pid

\* The table and the processes agree: whoever has a pid has the entry, and
\* every entry is somebody's.
EntriesExact == PidsUnique /\ NoLeakedEntry

\* pi_ppid always names a process that has not exited: a pid that is handed out
\* again never makes a stranger the parent of somebody's child.
ParentAlive == \A i \in Occupied :
                  pidinfo[i].ppid # INVALID_PID =>
                    /\ pi_get(pidinfo[i].ppid) # NULL
                    /\ ~pi_get(pidinfo[i].ppid).exited

\* A process asleep in cv_wait waits for a child of its own that is still
\* running, and one that was woken finds that child's entry, exited: this is
\* what the comment "don't need to loop on this" in pid_wait relies on.
WaiterHasChild == \A p \in Procs :
  pstate[p] \in {"wait", "woken"} =>
     /\ pi_get(them[p]) # NULL
     /\ pi_get(them[p]).ppid = p_pid[p]
     /\ (pi_get(them[p]).exited <=> pstate[p] = "woken")

\* Both ends of the parent-child relation, through reuse of pids.
RelativesExact == ParentAlive /\ WaiterHasChild

\* The processes, zombies and statuses of the table are those of WaitExit.
LiveOwner(pid) == CHOOSE q \in Procs : p_pid[q] = pid
EntriesOf(p) == {i \in Occupied : pidinfo[i].owner = p /\ pstate[p] # "new"}
EntryOf(p) == pidinfo[CHOOSE i \in EntriesOf(p) : TRUE]

MLife == [p \in Procs |-> IF EntriesOf(p) = {} THEN "none"
                          ELSE IF EntryOf(p).exited THEN "zombie" ELSE "alive"]
MParent == [p \in Procs |-> IF EntriesOf(p) = {} \/ EntryOf(p).ppid = INVALID_PID
                            THEN NULL ELSE LiveOwner(EntryOf(p).ppid)]
MStatus == [p \in Procs |-> IF EntriesOf(p) = {} \/ ~EntryOf(p).exited
                            THEN NULL ELSE EntryOf(p).status]
MCollected == IF "status" \in DOMAIN ret
              THEN [by |-> ret.by, child |-> ret.child, status |-> ret.status]
              ELSE NULL

Abstract == INSTANCE WaitExit
  WITH None <- NULL, life <- MLife, parent <- MParent, status <- MStatus, collected <- MCollected

\* fork, _exit and waitpid implement the process tree of WaitExit: a status is
\* handed to the one parent of the process, at most once, and is the one it exited
\* with; a parent whose address for it is bad has had its turn.
ImplementsWaitExit == Abstract!ASpec

\* A parent asleep in waitpid is woken when its child exits, and returns, unless
\* others come to pidlock again and again for ever: the broadcast of
\* pid_setexitstatus is not lost, and nothing else holds a parent up.
WaitReturns ==
  \/ []<><<\E q \in Procs : Enters(q)>>_vars
  \/ \A p \in Procs :
       (pstate[p] \in {"wait", "woken"} /\ pi_get(them[p]) # NULL /\ pi_get(them[p]).exited)
          ~> (pstate[p] = "run" \/ panic # "none")
=============================================================================
