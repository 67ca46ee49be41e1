--------------------------- MODULE PidTable_proofs ---------------------------
(***************************************************************************)
(* Proofs about PidTable, for every number of processes, table slots and   *)
(* pids: the table stays exact, pids and slots are never shared, no        *)
(* KASSERT of pid.c fails, and fork, _exit and waitpid implement WaitExit. *)
(***************************************************************************)
EXTENDS PidTable, FiniteSetTheorems, TLAPS

-----------------------------------------------------------------------------
(* The inductive invariant.                                                *)

\* Entries sit where pi_get looks for them, and nobody is its own parent.
SlotOK == \A i \in Occupied : /\ Slot(pidinfo[i].pid) = i
                              /\ pidinfo[i].ppid # pidinfo[i].pid

\* Exactly the processes that run or are about to have a pid.
PidState == \A p \in Procs :
               p_pid[p] = INVALID_PID <=> pstate[p] \in {"free", "dying"}

\* Between pid_alloc and thread_fork the new process is a childless child of
\* the caller.
ForkOK == \A p \in Procs : pstate[p] = "fork" =>
             /\ newproc[p] \in Procs
             /\ pstate[newproc[p]] = "new"
             /\ pi_get(p_pid[newproc[p]]).ppid = p_pid[p]

NewOK == \A p \in Procs : pstate[p] = "new" =>
            \A i \in Occupied : pidinfo[i].ppid # p_pid[p]

TableInv == /\ TypeOK
            /\ SlotOK
            /\ PidState
            /\ PidsUnique
            /\ NoLeakedEntry
            /\ ParentAlive
            /\ ForkOK
            /\ NewOK
            /\ WaiterHasChild

-----------------------------------------------------------------------------
(* Arithmetic of slots and candidates.                                     *)

LEMMA SlotType == \A pid \in Nat : Slot(pid) \in Slots
BY LimitsAssumption DEF Slot, Slots, KERNEL_PID

LEMMA SlotKernel == Slot(KERNEL_PID) = KERNEL_PID /\ KERNEL_PID \in Slots
BY LimitsAssumption DEF Slot, Slots, KERNEL_PID

LEMMA CandidateType ==
  ASSUME NEW k \in Nat, nextpid \in Pids
  PROVE  Candidate(k) \in Pids
BY LimitsAssumption DEF Candidate, Pids

LEMMA SlotsFinite == IsFiniteSet(Slots) /\ Cardinality(Slots) = PROCS_MAX
BY FS_Interval, LimitsAssumption DEF Slots, KERNEL_PID

LEMMA PidsNat == Pids \subseteq Nat /\ INVALID_PID \notin Pids /\ KERNEL_PID \notin Pids
                 /\ INVALID_PID # KERNEL_PID /\ INVALID_PID \in Nat /\ KERNEL_PID \in Nat
BY LimitsAssumption DEF Pids, INVALID_PID, KERNEL_PID

-----------------------------------------------------------------------------
LEMMA InitTable == Init => TableInv
<1> SUFFICES ASSUME Init PROVE TableInv
  OBVIOUS
<1> USE ProcsAssumption, NullAssumption, PidsNat, SlotKernel DEF Init
<1>1. TypeOK
  BY LimitsAssumption DEF TypeOK, PidInfo, States, Pids, INVALID_PID, KERNEL_PID
<1>2. Occupied = {KERNEL_PID}
  <2>1. pidinfo[KERNEL_PID] \in PidInfo
    BY DEF PidInfo
  <2> QED
    BY <2>1 DEF Occupied
<1>3. SlotOK /\ NoLeakedEntry /\ ParentAlive
  BY <1>2 DEF SlotOK, NoLeakedEntry, ParentAlive
<1>4. PidsUnique
  BY <1>1, <1>2 DEF PidsUnique, pi_get, Occupied
<1>5. PidState /\ ForkOK /\ NewOK /\ WaiterHasChild
  BY DEF PidState, ForkOK, NewOK, WaiterHasChild
<1> QED
  BY <1>1, <1>3, <1>4, <1>5 DEF TableInv

-----------------------------------------------------------------------------
\* A process that has a pid is found by it.
LEMMA HasEntry ==
  ASSUME TableInv, NEW p \in Procs, pstate[p] \notin {"free", "dying"}
  PROVE  /\ p_pid[p] \in Pids \cup {KERNEL_PID}
         /\ pi_get(p_pid[p]) # NULL
         /\ pi_get(p_pid[p]).owner = p
         /\ ~pi_get(p_pid[p]).exited
BY DEF TableInv, TypeOK, PidState, PidsUnique

\* Two processes with the same pid are one.
LEMMA PidInjective ==
  ASSUME TableInv, NEW p \in Procs, NEW q \in Procs, p_pid[p] = p_pid[q],
         p_pid[p] # INVALID_PID
  PROVE  p = q
BY DEF TableInv, PidsUnique

\* No two callers build the same process.
LEMMA ForkInjective ==
  ASSUME TableInv, NEW p \in Procs, NEW q \in Procs,
         pstate[p] = "fork", pstate[q] = "fork", newproc[p] = newproc[q]
  PROVE  p = q
<1>1. p_pid[p] = p_pid[q]
  BY DEF TableInv, ForkOK
<1> QED
  BY <1>1, HasEntry, PidInjective, PidsNat

-----------------------------------------------------------------------------
(* Every action preserves the invariant.                                   *)

LEMMA AllocTable ==
  ASSUME TableInv, NEW p \in Procs, NEW c \in Procs, Alloc(p, c)
  PROVE  TableInv'
<1> USE ProcsAssumption, NullAssumption, PidsNat
<1>1. PICK k \in 0..(PID_MAX - PID_MIN) :
        /\ Skips(k)
        /\ pidinfo' = [pidinfo EXCEPT ![Slot(Candidate(k))] =
                         [pid |-> Candidate(k), ppid |-> p_pid[p], exited |-> FALSE,
                          status |-> NoStatus, owner |-> c]]
        /\ nextpid' = AfterAlloc(k)
        /\ p_pid' = [p_pid EXCEPT ![c] = Candidate(k)]
  BY DEF Alloc
<1>k. k \in Nat /\ k + 1 \in Nat /\ nextpid \in Pids
  BY <1>1, LimitsAssumption DEF TableInv, TypeOK
<1>p. PICK pid \in Pids : pid = Candidate(k)
  BY <1>k, CandidateType
<1>2. nextpid' \in Pids /\ Slot(pid) \in Slots
  BY <1>1, <1>k, CandidateType, SlotType DEF AfterAlloc
<1> DEFINE new == [pid |-> pid, ppid |-> p_pid[p], exited |-> FALSE,
                   status |-> NoStatus, owner |-> c]
<1>3. /\ p # c /\ pstate[c] = "free" /\ p_pid[c] = INVALID_PID
      /\ p_pid[p] \in Pids \cup {KERNEL_PID}
      /\ pstate' = [pstate EXCEPT ![p] = "fork", ![c] = "new"]
      /\ newproc' = [newproc EXCEPT ![p] = c]
      /\ pstate[p] = "run"
      /\ UNCHANGED them
  BY DEF Alloc, Unused, TableInv, TypeOK, PidState
<1>4. new \in PidInfo /\ new # NULL
  <2>1. new \in PidInfo
    BY <1>2, <1>3 DEF PidInfo
  <2> QED
    BY <2>1
<1>5. pidinfo[Slot(pid)] = NULL
  BY <1>1, <1>p DEF Skips
<1>6. pidinfo' = [pidinfo EXCEPT ![Slot(pid)] = new]
  BY <1>1, <1>p
<1> HIDE DEF new
<1>7. /\ Slot(pid) \notin Occupied
      /\ Occupied' = Occupied \cup {Slot(pid)}
      /\ \A i \in Occupied : pidinfo'[i] = pidinfo[i]
      /\ pidinfo'[Slot(pid)] = new
  BY <1>2, <1>4, <1>5, <1>6 DEF Occupied, TableInv, TypeOK
<1>8. new.pid = pid /\ new.ppid = p_pid[p] /\ new.exited = FALSE /\ new.owner = c
  BY DEF new
<1>9. p_pid' = [p_pid EXCEPT ![c] = pid]
  BY <1>1, <1>p
<1>10. \A q \in Pids \cup {KERNEL_PID} : pi_get(q) # NULL => pi_get(q)' = pi_get(q)
  BY <1>7, SlotType DEF pi_get, Occupied
<1>11. pi_get(pid)' = new
  BY <1>4, <1>7, <1>8 DEF pi_get, Slot
<1>12. pid # p_pid[p] /\ pi_get(p_pid[p]) # NULL /\ ~pi_get(p_pid[p]).exited
  BY <1>3, <1>5 DEF TableInv, PidsUnique, pi_get
<1>a. TypeOK'
  <2>1. pidinfo' \in [Slots -> PidInfo \cup {NULL}]
    BY <1>2, <1>4, <1>6 DEF TableInv, TypeOK
  <2>2. nprocs' \in Int
    BY DEF Alloc, TableInv, TypeOK
  <2>3. pstate' \in [Procs -> States]
    BY <1>3 DEF TableInv, TypeOK, States
  <2> QED
    BY <2>1, <2>2, <2>3, <1>2, <1>3, <1>9 DEF TableInv, TypeOK
<1>b. SlotOK'
  BY <1>7, <1>8, <1>12 DEF TableInv, SlotOK
<1>c. PidState'
  BY <1>2, <1>3, <1>9 DEF TableInv, PidState, TypeOK
<1>d. PidsUnique'
  <2> SUFFICES ASSUME NEW q \in Procs, p_pid'[q] # INVALID_PID
               PROVE  /\ pi_get(p_pid[q])' # NULL
                      /\ pi_get(p_pid[q])'.owner = q
                      /\ ~pi_get(p_pid[q])'.exited
    BY DEF PidsUnique
  <2>1. CASE q = c
    <3>1. p_pid'[q] = pid
      BY <2>1, <1>9 DEF TableInv, TypeOK
    <3>2. pi_get(p_pid[q])' = new
      BY <3>1, <1>11 DEF pi_get
    <3> QED
      BY <2>1, <3>2, <1>4, <1>8
  <2>2. CASE q # c
    <3>1. p_pid'[q] = p_pid[q] /\ p_pid[q] \in Pids \cup {KERNEL_PID}
      BY <2>2, <1>9 DEF TableInv, TypeOK
    <3>2. /\ pi_get(p_pid[q]) # NULL /\ pi_get(p_pid[q]).owner = q
          /\ ~pi_get(p_pid[q]).exited
      BY <3>1 DEF TableInv, PidsUnique
    <3>3. pi_get(p_pid[q])' = pi_get(p_pid[q])
      BY <3>1, <3>2, <1>7, SlotType DEF pi_get, Occupied
    <3> QED
      BY <3>2, <3>3
  <2> QED
    BY <2>1, <2>2
<1>e. NoLeakedEntry'
  <2> SUFFICES ASSUME NEW i \in Occupied'
               PROVE  IF pidinfo'[i].exited THEN pidinfo'[i].ppid # INVALID_PID
                      ELSE p_pid'[pidinfo'[i].owner] = pidinfo'[i].pid
    BY DEF NoLeakedEntry
  <2>1. CASE i = Slot(pid)
    BY <2>1, <1>7, <1>8, <1>9 DEF TableInv, TypeOK
  <2>2. CASE i \in Occupied
    <3>1. pidinfo[i] \in PidInfo
      BY <2>2 DEF TableInv, TypeOK, Occupied
    <3>2. pidinfo[i].pid # INVALID_PID /\ pidinfo[i].owner \in Procs
      BY <3>1 DEF PidInfo
    <3> QED
      BY <2>2, <3>2, <1>3, <1>7, <1>9 DEF TableInv, NoLeakedEntry, TypeOK
  <2> QED
    BY <2>1, <2>2, <1>7
<1>f. ParentAlive'
  <2>1. \A i \in Occupied : pidinfo[i].ppid \in Pids \cup {KERNEL_PID, INVALID_PID}
    BY DEF TableInv, TypeOK, Occupied, PidInfo
  <2> QED
    BY <2>1, <1>3, <1>7, <1>8, <1>10, <1>12 DEF TableInv, ParentAlive
<1>g. ForkOK'
  <2> SUFFICES ASSUME NEW q \in Procs, pstate'[q] = "fork"
               PROVE  /\ newproc'[q] \in Procs
                      /\ pstate'[newproc'[q]] = "new"
                      /\ pi_get(p_pid[newproc[q]])'.ppid = p_pid'[q]
    BY DEF ForkOK
  <2>1. CASE q = p
    <3>1. newproc'[q] = c /\ p_pid'[c] = pid /\ p_pid'[q] = p_pid[p] /\ pstate'[c] = "new"
      BY <2>1, <1>3, <1>9 DEF TableInv, TypeOK
    <3>2. pi_get(p_pid[newproc[q]])' = new
      BY <3>1, <1>11 DEF pi_get
    <3> QED
      BY <3>1, <3>2, <1>8
  <2>2. CASE q # p
    <3>1. q # c /\ pstate[q] = "fork" /\ newproc'[q] = newproc[q]
      BY <2>2, <1>3 DEF TableInv, TypeOK
    <3>2. /\ newproc[q] \in Procs /\ pstate[newproc[q]] = "new"
          /\ pi_get(p_pid[newproc[q]]).ppid = p_pid[q]
      BY <3>1 DEF TableInv, ForkOK
    <3>3. newproc[q] # c /\ newproc[q] # p
      BY <3>2, <1>3
    <3>4. p_pid'[newproc[q]] = p_pid[newproc[q]] /\ p_pid'[q] = p_pid[q]
          /\ pstate'[newproc[q]] = "new"
      BY <3>1, <3>2, <3>3, <1>3, <1>9 DEF TableInv, TypeOK
    <3>5. p_pid[newproc[q]] \in Pids \cup {KERNEL_PID} /\ pi_get(p_pid[newproc[q]]) # NULL
      BY <3>2 DEF TableInv, TypeOK, PidState, PidsUnique
    <3>6. pi_get(p_pid[newproc[q]])' = pi_get(p_pid[newproc[q]])
      BY <3>1, <3>4, <3>5, <1>7, SlotType DEF pi_get, Occupied
    <3> QED
      BY <3>1, <3>2, <3>4, <3>6
  <2> QED
    BY <2>1, <2>2
<1>h. NewOK'
  <2>1. \A i \in Occupied : pidinfo[i].ppid # pid
    BY <1>2, <1>5 DEF TableInv, ParentAlive, pi_get
  <2>2. \A q \in Procs : pstate[q] = "new" => p_pid[q] # p_pid[p]
    BY <1>3, PidsNat DEF TableInv, PidsUnique, PidState
  <2> QED
    BY <2>1, <2>2, <1>3, <1>7, <1>8, <1>9, <1>12 DEF TableInv, NewOK, TypeOK
<1>i. WaiterHasChild'
  <2> SUFFICES ASSUME NEW q \in Procs, pstate'[q] \in {"wait", "woken"}
               PROVE  /\ pi_get(them[q])' # NULL
                      /\ pi_get(them[q])'.ppid = p_pid'[q]
                      /\ (pi_get(them[q])'.exited <=> pstate'[q] = "woken")
    BY DEF WaiterHasChild
  <2>1. q # p /\ q # c /\ pstate'[q] = pstate[q] /\ p_pid'[q] = p_pid[q] /\ them'[q] = them[q]
    BY <1>3, <1>9 DEF TableInv, TypeOK
  <2>2. pi_get(them[q]) # NULL
    BY <2>1 DEF TableInv, WaiterHasChild
  <2>3. pi_get(them[q])' = pi_get(them[q])
    BY <2>1, <2>2, <1>7, SlotType DEF pi_get, Occupied, TableInv, TypeOK
  <2> QED
    BY <2>1, <2>2, <2>3 DEF TableInv, WaiterHasChild
<1> QED
  BY <1>a, <1>b, <1>c, <1>d, <1>e, <1>f, <1>g, <1>h, <1>i DEF TableInv

\* The actions that leave the table alone.
LEMMA QuietTable ==
  ASSUME TableInv, NEW p \in Procs,
         \/ AllocAgain(p) \/ AllocNoMem(p) \/ ForkDone(p) \/ Destroy(p) \/ MenuFork
         \/ MenuForkFail \/ Returns(p)
         \/ \E pid \in WaitPids :
              \/ WaitSleep(p, pid) \/ WaitNoHang(p, pid)
              \/ \E flags \in {"0", "WNOHANG", "bad"} : WaitFails(p, pid, flags)
  PROVE  TableInv'
<1> USE ProcsAssumption, NullAssumption, PidsNat
<1>1. /\ pidinfo' = pidinfo /\ p_pid' = p_pid /\ nprocs' = nprocs
      /\ pstate' \in [Procs -> States] /\ newproc' \in [Procs -> Procs \cup {NULL}]
      /\ them' \in [Procs -> Pids \cup {INVALID_PID, KERNEL_PID}]
      /\ nextpid' \in Pids
  <2>1. CASE AllocAgain(p)
    BY <2>1 DEF AllocAgain, TableInv, TypeOK
  <2>2. CASE AllocNoMem(p)
    BY <2>2, CandidateType, LimitsAssumption DEF AllocNoMem, TableInv, TypeOK
  <2>3. CASE ForkDone(p)
    BY <2>3 DEF ForkDone, TableInv, TypeOK, States
  <2>4. CASE Destroy(p)
    BY <2>4 DEF Destroy, Panic, TableInv, TypeOK, States
  <2>5. CASE MenuFork
    BY <2>5 DEF MenuFork, TableInv, TypeOK, States, ForkOK
  <2>6. CASE MenuForkFail
    BY <2>6 DEF MenuForkFail, Panic, TableInv, TypeOK, States
  <2>7. CASE \E pid \in WaitPids : WaitSleep(p, pid)
    <3>1. PICK pid \in WaitPids : WaitSleep(p, pid)
      BY <2>7
    <3>2. pid \in Pids \cup {INVALID_PID, KERNEL_PID}
      BY <3>1 DEF WaitSleep, WaitError, WaitPids, INVALID_PID
    <3> QED
      BY <3>1, <3>2 DEF WaitSleep, TableInv, TypeOK, States
  <2>8. CASE \E pid \in WaitPids : WaitNoHang(p, pid)
    BY <2>8 DEF WaitNoHang, TableInv, TypeOK
  <2>9. CASE \E pid \in WaitPids, flags \in {"0", "WNOHANG", "bad"} : WaitFails(p, pid, flags)
    BY <2>9 DEF WaitFails, TableInv, TypeOK, States
  <2>10. CASE Returns(p)
    BY <2>10 DEF Returns, TableInv, TypeOK
  <2> QED
    BY <2>1, <2>2, <2>3, <2>4, <2>5, <2>6, <2>7, <2>8, <2>9, <2>10
<1>2. \A q : pi_get(q)' = pi_get(q)
  BY <1>1 DEF pi_get
<1>3. TypeOK'
  BY <1>1 DEF TableInv, TypeOK
<1>4. SlotOK' /\ PidsUnique' /\ NoLeakedEntry' /\ ParentAlive'
  BY <1>1 DEF TableInv, SlotOK, PidsUnique, NoLeakedEntry, ParentAlive, Occupied, pi_get
<1>5. PidState' /\ ForkOK' /\ NewOK' /\ WaiterHasChild'
  <2> USE <1>1 DEF TableInv, TypeOK, Occupied, pi_get
  <2> DEFINE same == pstate' = pstate /\ newproc' = newproc /\ them' = them
             parts == PidState' /\ ForkOK' /\ NewOK' /\ WaiterHasChild'
  <2>1. ASSUME same PROVE parts
    BY <2>1 DEF PidState, ForkOK, NewOK, WaiterHasChild
  <2>2. CASE AllocAgain(p) \/ AllocNoMem(p) \/ Returns(p)
            \/ \E pid \in WaitPids : WaitNoHang(p, pid)
    BY <2>1, <2>2 DEF AllocAgain, AllocNoMem, Returns, WaitNoHang
  <2>3. CASE ForkDone(p)
    <3>1. /\ newproc[p] \in Procs /\ newproc[p] # p /\ pstate[newproc[p]] = "new"
          /\ pstate' = [pstate EXCEPT ![p] = "run", ![newproc[p]] = "run"]
          /\ newproc' = [newproc EXCEPT ![p] = NULL] /\ them' = them /\ pstate[p] = "fork"
      BY <2>3 DEF ForkDone, ForkOK
    <3>2. ForkOK'
      BY <3>1, ForkInjective DEF ForkOK
    <3> QED
      BY <3>1, <3>2 DEF PidState, NewOK, WaiterHasChild
  <2>4. CASE Destroy(p)
    BY <2>1, <2>4 DEF Destroy, Panic, PidState, ForkOK, NewOK, WaiterHasChild
  <2>5. CASE MenuFork
    <3>1. /\ newproc[KProc] \in Procs /\ newproc[KProc] # KProc
          /\ pstate[newproc[KProc]] = "new" /\ pstate[KProc] = "fork"
          /\ pstate' = [pstate EXCEPT ![KProc] = "menu", ![newproc[KProc]] = "run"]
          /\ newproc' = [newproc EXCEPT ![KProc] = NULL]
          /\ \A q \in Procs \ {KProc} : them'[q] = them[q]
      BY <2>5 DEF MenuFork, ForkOK
    <3>2. ForkOK'
      BY <3>1, ForkInjective DEF ForkOK
    <3> QED
      BY <3>1, <3>2 DEF PidState, NewOK, WaiterHasChild
  <2>6. CASE MenuForkFail
    BY <2>1, <2>6 DEF MenuForkFail, Panic, PidState, ForkOK
  <2>7. CASE \E pid \in WaitPids : WaitSleep(p, pid)
    <3>1. PICK pid \in WaitPids : WaitSleep(p, pid)
      BY <2>7
    <3>2. /\ pi_get(pid) # NULL /\ pi_get(pid).ppid = p_pid[p] /\ ~pi_get(pid).exited
          /\ pstate[p] \in {"run", "menu"} /\ pstate' = [pstate EXCEPT ![p] = "wait"]
          /\ them' = [them EXCEPT ![p] = pid] /\ newproc' = newproc
      BY <3>1 DEF WaitSleep, WaitError, CallsWait
    <3>3. PidState' /\ NewOK'
      BY <3>2 DEF PidState, NewOK
    <3>4. ForkOK'
      BY <3>2 DEF ForkOK
    <3>5. WaiterHasChild'
      <4> SUFFICES ASSUME NEW q \in Procs, pstate'[q] \in {"wait", "woken"}
                   PROVE  /\ pi_get(them[q])' # NULL
                          /\ pi_get(them[q])'.ppid = p_pid'[q]
                          /\ (pi_get(them[q])'.exited <=> pstate'[q] = "woken")
        BY DEF WaiterHasChild
      <4>1. CASE q = p
        <5>1. pi_get(them[q])' = pi_get(pid)
          BY <4>1, <3>2
        <5> QED
          BY <4>1, <5>1, <3>2
      <4>2. CASE q # p
        <5>1. pi_get(them[q])' = pi_get(them[q]) /\ pstate'[q] = pstate[q]
          BY <4>2, <3>2
        <5> QED
          BY <5>1 DEF WaiterHasChild
      <4> QED
        BY <4>1, <4>2
    <3> QED
      BY <3>3, <3>4, <3>5
  <2>8. CASE \E pid \in WaitPids, flags \in {"0", "WNOHANG", "bad"} : WaitFails(p, pid, flags)
    BY <2>8 DEF WaitFails, CallsWait, PidState, ForkOK, NewOK, WaiterHasChild
  <2> QED
    BY <2>2, <2>3, <2>4, <2>5, <2>6, <2>7, <2>8
<1> QED
  BY <1>1, <1>3, <1>4, <1>5 DEF TableInv

\* What pi_drop leaves: every entry but the one of pid.
LEMMA DropFacts ==
  ASSUME TableInv, NEW pid \in Pids \cup {KERNEL_PID}, pi_get(pid) # NULL, pi_drop(pid)
  PROVE  /\ Slot(pid) \in Occupied
         /\ Occupied' = Occupied \ {Slot(pid)}
         /\ pidinfo' \in [Slots -> PidInfo \cup {NULL}]
         /\ \A i \in Occupied' : pidinfo'[i] = pidinfo[i] /\ pidinfo[i].pid # pid
         /\ pidinfo[Slot(pid)] = pi_get(pid)
<1> USE SlotType, PidsNat, NullAssumption
<1>1. Slot(pid) \in Slots /\ Slot(pid) \in Occupied /\ pidinfo[Slot(pid)] = pi_get(pid)
  BY DEF pi_get, Occupied
<1>2. pidinfo' = [pidinfo EXCEPT ![Slot(pid)] = NULL]
  BY DEF pi_drop
<1> QED
  BY <1>1, <1>2 DEF TableInv, TypeOK, Occupied, SlotOK

LEMMA DropKeeps ==
  ASSUME TableInv, NEW pid \in Pids \cup {KERNEL_PID}, pi_get(pid) # NULL, pi_drop(pid),
         NEW x \in Pids \cup {INVALID_PID, KERNEL_PID}, pi_get(x) # NULL, x # pid
  PROVE  Slot(x) \in Occupied' /\ pidinfo'[Slot(x)] = pi_get(x) /\ pi_get(x).pid = x
<1>1. Slot(x) \in Slots /\ pidinfo[Slot(x)] = pi_get(x) /\ pi_get(x).pid = x
      /\ Slot(x) \in Occupied
  BY SlotType, PidsNat DEF pi_get, Occupied
<1>2. Slot(x) # Slot(pid)
  BY <1>1, DropFacts DEF pi_get
<1> QED
  BY <1>1, <1>2, DropFacts

LEMMA CollectTable ==
  ASSUME TableInv, NEW p \in Procs, NEW pid \in Pids \cup {KERNEL_PID},
         pstate[p] \in {"run", "menu", "woken"},
         pi_get(pid) # NULL, pi_get(pid).exited, pi_get(pid).ppid = p_pid[p],
         Collect(p, pid)
  PROVE  TableInv'
<1> USE ProcsAssumption, NullAssumption, PidsNat
<1>1. /\ pi_drop(pid) /\ p_pid' = p_pid /\ newproc' = newproc /\ nextpid' = nextpid
      /\ pstate' = [pstate EXCEPT ![p] = "run"]
      /\ them' = [them EXCEPT ![p] = INVALID_PID]
  BY DEF Collect
<1>2. \A x \in Pids \cup {INVALID_PID, KERNEL_PID} :
        pi_get(x) # NULL /\ x # pid => pi_get(x)' = pi_get(x)
  <2> SUFFICES ASSUME NEW x \in Pids \cup {INVALID_PID, KERNEL_PID}, pi_get(x) # NULL, x # pid
               PROVE  pi_get(x)' = pi_get(x)
    OBVIOUS
  <2> QED
    BY <1>1, DropKeeps DEF pi_get, Occupied
<1>3. TypeOK'
  <2>1. nprocs' \in Int
    BY <1>1 DEF TableInv, TypeOK, pi_drop
  <2>2. pidinfo' \in [Slots -> PidInfo \cup {NULL}]
    BY <1>1, DropFacts
  <2> QED
    BY <1>1, <2>1, <2>2 DEF TableInv, TypeOK, States
<1>4. SlotOK'
  BY <1>1, DropFacts DEF TableInv, SlotOK
<1>5. PidState'
  BY <1>1 DEF TableInv, PidState, TypeOK
<1>6. PidsUnique'
  <2> SUFFICES ASSUME NEW q \in Procs, p_pid[q] # INVALID_PID
               PROVE  /\ pi_get(p_pid[q])' # NULL
                      /\ pi_get(p_pid[q])'.owner = q
                      /\ ~pi_get(p_pid[q])'.exited
    BY <1>1 DEF PidsUnique
  <2>1. /\ pi_get(p_pid[q]) # NULL /\ pi_get(p_pid[q]).owner = q
        /\ ~pi_get(p_pid[q]).exited /\ p_pid[q] \in Pids \cup {INVALID_PID, KERNEL_PID}
    BY DEF TableInv, PidsUnique, TypeOK
  <2>2. pi_get(p_pid[q])' = pi_get(p_pid[q])
    BY <2>1, <1>1, <1>2 DEF pi_get
  <2> QED
    BY <2>1, <2>2
<1>7. NoLeakedEntry'
  BY <1>1, DropFacts DEF TableInv, NoLeakedEntry
<1>8. ParentAlive'
  <2> SUFFICES ASSUME NEW i \in Occupied', pidinfo'[i].ppid # INVALID_PID
               PROVE  pi_get(pidinfo[i].ppid)' # NULL /\ ~pi_get(pidinfo[i].ppid)'.exited
    BY DEF ParentAlive
  <2>1. i \in Occupied /\ pidinfo'[i] = pidinfo[i]
    BY <1>1, DropFacts
  <2>2. /\ pi_get(pidinfo[i].ppid) # NULL /\ ~pi_get(pidinfo[i].ppid).exited
        /\ pidinfo[i].ppid \in Pids \cup {INVALID_PID, KERNEL_PID}
    BY <2>1 DEF TableInv, ParentAlive, TypeOK, Occupied, PidInfo
  <2>3. pi_get(pidinfo[i].ppid)' = pi_get(pidinfo[i].ppid)
    BY <2>1, <2>2, <1>2 DEF pi_get
  <2> QED
    BY <2>2, <2>3
<1>9. ForkOK'
  <2> SUFFICES ASSUME NEW q \in Procs, pstate'[q] = "fork"
               PROVE  /\ newproc'[q] \in Procs
                      /\ pstate'[newproc'[q]] = "new"
                      /\ pi_get(p_pid[newproc[q]])'.ppid = p_pid'[q]
    BY DEF ForkOK
  <2>1. /\ pstate[q] = "fork" /\ newproc[q] \in Procs /\ pstate[newproc[q]] = "new"
        /\ pi_get(p_pid[newproc[q]]).ppid = p_pid[q] /\ newproc[q] # p
    BY <1>1 DEF TableInv, TypeOK, ForkOK
  <2>2. /\ p_pid[newproc[q]] \in Pids \cup {KERNEL_PID} /\ pi_get(p_pid[newproc[q]]) # NULL
        /\ ~pi_get(p_pid[newproc[q]]).exited
    BY <2>1, HasEntry
  <2>3. pi_get(p_pid[newproc[q]])' = pi_get(p_pid[newproc[q]])
    BY <2>2, <1>1, <1>2 DEF pi_get
  <2> QED
    BY <2>1, <2>3, <1>1 DEF TableInv, TypeOK
<1>10. NewOK'
  BY <1>1, DropFacts DEF TableInv, NewOK, TypeOK
<1>11. WaiterHasChild'
  <2> SUFFICES ASSUME NEW q \in Procs, pstate'[q] \in {"wait", "woken"}
               PROVE  /\ pi_get(them[q])' # NULL
                      /\ pi_get(them[q])'.ppid = p_pid'[q]
                      /\ (pi_get(them[q])'.exited <=> pstate'[q] = "woken")
    BY DEF WaiterHasChild
  <2>1. q # p /\ pstate'[q] = pstate[q] /\ them'[q] = them[q]
    BY <1>1 DEF TableInv, TypeOK
  <2>2. /\ pi_get(them[q]) # NULL /\ pi_get(them[q]).ppid = p_pid[q]
        /\ (pi_get(them[q]).exited <=> pstate[q] = "woken")
        /\ them[q] \in Pids \cup {INVALID_PID, KERNEL_PID}
    BY <2>1 DEF TableInv, TypeOK, WaiterHasChild
  <2>3. them[q] # pid
    BY <2>1, <2>2, HasEntry, PidInjective
  <2>4. pi_get(them[q])' = pi_get(them[q])
    BY <2>1, <2>2, <2>3, <1>2 DEF pi_get
  <2> QED
    BY <2>1, <2>2, <2>4, <1>1
<1> QED
  BY <1>3, <1>4, <1>5, <1>6, <1>7, <1>8, <1>9, <1>10, <1>11 DEF TableInv

LEMMA ForkUndoTable ==
  ASSUME TableInv, NEW p \in Procs, ForkUndo(p)
  PROVE  TableInv'
<1> USE ProcsAssumption, NullAssumption, PidsNat
<1>1. PICK c \in Procs : /\ newproc[p] = c /\ pstate[p] = "fork" /\ pstate[c] = "new" /\ c # p
                         /\ pi_get(p_pid[c]).ppid = p_pid[p]
  BY DEF TableInv, ForkOK, ForkUndo
<1>2. PICK pid \in Pids \cup {KERNEL_PID} : /\ pid = p_pid[c] /\ pi_get(pid) # NULL
                                           /\ pi_get(pid).owner = c /\ ~pi_get(pid).exited
  BY <1>1, HasEntry
<1>3. /\ pi_drop(pid) /\ nextpid' = nextpid /\ them' = them
      /\ p_pid' = [p_pid EXCEPT ![c] = INVALID_PID]
      /\ pstate' = [pstate EXCEPT ![p] = "run", ![c] = "free"]
      /\ newproc' = [newproc EXCEPT ![p] = NULL]
  BY <1>1, <1>2 DEF ForkUndo
<1>4. \A x \in Pids \cup {INVALID_PID, KERNEL_PID} :
        pi_get(x) # NULL /\ x # pid => pi_get(x)' = pi_get(x)
  <2> SUFFICES ASSUME NEW x \in Pids \cup {INVALID_PID, KERNEL_PID}, pi_get(x) # NULL, x # pid
               PROVE  pi_get(x)' = pi_get(x)
    OBVIOUS
  <2> QED
    BY <1>2, <1>3, DropKeeps DEF pi_get, Occupied
<1>5. \A q \in Procs : q # c => p_pid[q] # pid
  BY <1>1, <1>2, PidInjective
<1>6. \A i \in Occupied : pidinfo[i].ppid # pid
  BY <1>1, <1>2 DEF TableInv, NewOK
<1>a. TypeOK'
  <2>1. nprocs' \in Int
    BY <1>3 DEF TableInv, TypeOK, pi_drop
  <2>2. pidinfo' \in [Slots -> PidInfo \cup {NULL}]
    BY <1>2, <1>3, DropFacts
  <2> QED
    BY <1>3, <2>1, <2>2 DEF TableInv, TypeOK, States
<1>b. SlotOK'
  BY <1>2, <1>3, DropFacts DEF TableInv, SlotOK
<1>c. PidState'
  BY <1>1, <1>3 DEF TableInv, PidState, TypeOK
<1>d. PidsUnique'
  <2> SUFFICES ASSUME NEW q \in Procs, p_pid'[q] # INVALID_PID
               PROVE  /\ pi_get(p_pid[q])' # NULL
                      /\ pi_get(p_pid[q])'.owner = q
                      /\ ~pi_get(p_pid[q])'.exited
    BY DEF PidsUnique
  <2>1. q # c /\ p_pid'[q] = p_pid[q]
    BY <1>3 DEF TableInv, TypeOK
  <2>2. /\ pi_get(p_pid[q]) # NULL /\ pi_get(p_pid[q]).owner = q
        /\ ~pi_get(p_pid[q]).exited /\ p_pid[q] \in Pids \cup {INVALID_PID, KERNEL_PID}
    BY <2>1 DEF TableInv, PidsUnique, TypeOK
  <2>3. pi_get(p_pid[q])' = pi_get(p_pid[q])
    BY <2>1, <2>2, <1>4, <1>5 DEF pi_get
  <2> QED
    BY <2>2, <2>3
<1>e. NoLeakedEntry'
  <2> SUFFICES ASSUME NEW i \in Occupied'
               PROVE  IF pidinfo'[i].exited THEN pidinfo'[i].ppid # INVALID_PID
                      ELSE p_pid'[pidinfo'[i].owner] = pidinfo'[i].pid
    BY DEF NoLeakedEntry
  <2>1. i \in Occupied /\ pidinfo'[i] = pidinfo[i] /\ pidinfo[i].pid # pid
    BY <1>2, <1>3, DropFacts
  <2>2. pidinfo[i].owner \in Procs
    BY <2>1 DEF TableInv, TypeOK, Occupied, PidInfo
  <2> QED
    BY <2>1, <2>2, <1>2, <1>3 DEF TableInv, NoLeakedEntry, TypeOK
<1>f. ParentAlive'
  <2> SUFFICES ASSUME NEW i \in Occupied', pidinfo'[i].ppid # INVALID_PID
               PROVE  pi_get(pidinfo[i].ppid)' # NULL /\ ~pi_get(pidinfo[i].ppid)'.exited
    BY DEF ParentAlive
  <2>1. i \in Occupied /\ pidinfo'[i] = pidinfo[i]
    BY <1>2, <1>3, DropFacts
  <2>2. /\ pi_get(pidinfo[i].ppid) # NULL /\ ~pi_get(pidinfo[i].ppid).exited
        /\ pidinfo[i].ppid \in Pids \cup {INVALID_PID, KERNEL_PID}
    BY <2>1 DEF TableInv, ParentAlive, TypeOK, Occupied, PidInfo
  <2>3. pi_get(pidinfo[i].ppid)' = pi_get(pidinfo[i].ppid)
    BY <2>1, <2>2, <1>4, <1>6 DEF pi_get
  <2> QED
    BY <2>2, <2>3
<1>g. ForkOK'
  <2> SUFFICES ASSUME NEW q \in Procs, pstate'[q] = "fork"
               PROVE  /\ newproc'[q] \in Procs
                      /\ pstate'[newproc'[q]] = "new"
                      /\ pi_get(p_pid[newproc[q]])'.ppid = p_pid'[q]
    BY DEF ForkOK
  <2>1. /\ q # p /\ q # c /\ pstate[q] = "fork" /\ newproc[q] \in Procs
        /\ pstate[newproc[q]] = "new" /\ pi_get(p_pid[newproc[q]]).ppid = p_pid[q]
        /\ newproc[q] # p /\ newproc'[q] = newproc[q]
    BY <1>1, <1>3 DEF TableInv, TypeOK, ForkOK
  <2>2. newproc[q] # c
    BY <2>1, <1>1, ForkInjective
  <2>3. p_pid'[newproc[q]] = p_pid[newproc[q]] /\ p_pid'[q] = p_pid[q]
        /\ pstate'[newproc[q]] = "new"
    BY <2>1, <2>2, <1>3 DEF TableInv, TypeOK
  <2>4. /\ p_pid[newproc[q]] \in Pids \cup {KERNEL_PID} /\ pi_get(p_pid[newproc[q]]) # NULL
    BY <2>1, HasEntry
  <2>5. pi_get(p_pid[newproc[q]])' = pi_get(p_pid[newproc[q]])
    BY <2>1, <2>2, <2>3, <2>4, <1>4, <1>5 DEF pi_get
  <2> QED
    BY <2>1, <2>3, <2>5
<1>h. NewOK'
  <2> SUFFICES ASSUME NEW q \in Procs, pstate'[q] = "new", NEW i \in Occupied'
               PROVE  pidinfo'[i].ppid # p_pid'[q]
    BY DEF NewOK
  <2>1. q # p /\ q # c /\ pstate[q] = "new" /\ p_pid'[q] = p_pid[q]
    BY <1>3 DEF TableInv, TypeOK
  <2>2. i \in Occupied /\ pidinfo'[i] = pidinfo[i]
    BY <1>2, <1>3, DropFacts
  <2> QED
    BY <2>1, <2>2 DEF TableInv, NewOK
<1>i. WaiterHasChild'
  <2> SUFFICES ASSUME NEW q \in Procs, pstate'[q] \in {"wait", "woken"}
               PROVE  /\ pi_get(them[q])' # NULL
                      /\ pi_get(them[q])'.ppid = p_pid'[q]
                      /\ (pi_get(them[q])'.exited <=> pstate'[q] = "woken")
    BY DEF WaiterHasChild
  <2>1. q # p /\ q # c /\ pstate'[q] = pstate[q] /\ p_pid'[q] = p_pid[q]
    BY <1>3 DEF TableInv, TypeOK
  <2>2. /\ pi_get(them[q]) # NULL /\ pi_get(them[q]).ppid = p_pid[q]
        /\ (pi_get(them[q]).exited <=> pstate[q] = "woken")
        /\ them[q] \in Pids \cup {INVALID_PID, KERNEL_PID}
    BY <2>1 DEF TableInv, TypeOK, WaiterHasChild
  <2>3. them[q] # pid
    BY <2>1, <2>2, <1>1, <1>2, HasEntry, PidInjective
  <2>4. pi_get(them[q])' = pi_get(them[q])
    BY <2>2, <2>3, <1>3, <1>4 DEF pi_get
  <2> QED
    BY <2>1, <2>2, <2>4
<1> QED
  BY <1>a, <1>b, <1>c, <1>d, <1>e, <1>f, <1>g, <1>h, <1>i DEF TableInv

LEMMA ExitTable ==
  ASSUME TableInv, NEW p \in Procs, NEW st \in Statuses, Exit(p, st)
  PROVE  TableInv'
<1> USE ProcsAssumption, NullAssumption, PidsNat
<1>1. PICK mine \in Pids \cup {KERNEL_PID} :
        /\ mine = p_pid[p] /\ pi_get(mine) # NULL
        /\ pi_get(mine).owner = p /\ ~pi_get(mine).exited /\ pstate[p] = "run"
  <2>1. pstate[p] = "run"
    BY DEF Exit
  <2> QED
    BY <2>1, HasEntry
<1>2. PICK me \in Slots : /\ me = Slot(mine) /\ me \in Occupied /\ pidinfo[me] = pi_get(mine)
                          /\ pidinfo[me].pid = mine
  BY <1>1, SlotType DEF pi_get, Occupied
<1>3. PICK C : C = Children(mine)
  OBVIOUS
<1>4. PICK D : D = Dropped(mine)
  OBVIOUS
<1>5. /\ pidinfo' = [i \in Slots |->
                      IF i \in D THEN NULL
                      ELSE IF i = me THEN [pidinfo[i] EXCEPT !.exited = TRUE, !.status = st]
                      ELSE IF i \in C THEN [pidinfo[i] EXCEPT !.ppid = INVALID_PID]
                      ELSE pidinfo[i]]
      /\ pstate' = [q \in Procs |-> IF q = p THEN "dying"
                                    ELSE IF q \in Woken(mine) THEN "woken" ELSE pstate[q]]
      /\ p_pid' = [p_pid EXCEPT ![p] = INVALID_PID]
      /\ nprocs' = nprocs - Cardinality(D)
      /\ UNCHANGED <<nextpid, newproc, them>>
  BY <1>1, <1>2, <1>3, <1>4 DEF Exit
<1>6. /\ \A i : i \in C <=> i \in Occupied /\ pidinfo[i].ppid = mine
      /\ \A i : i \in D <=> ((i \in C /\ pidinfo[i].exited)
                              \/ (i = me /\ pidinfo[me].ppid = INVALID_PID))
  BY <1>1, <1>2, <1>3, <1>4 DEF Children, Dropped
<1>7. me \notin C
  BY <1>2, <1>6 DEF TableInv, SlotOK
<1>8. \A i \in Occupied : /\ pidinfo[i] \in PidInfo /\ pidinfo[i].pid # INVALID_PID
                          /\ (pidinfo[i].pid = mine => i = me)
  BY <1>2 DEF TableInv, TypeOK, Occupied, SlotOK, PidInfo
<1>9. \A i \in Slots : pidinfo'[i] \in PidInfo \cup {NULL}
  <2> SUFFICES ASSUME NEW i \in Slots PROVE pidinfo'[i] \in PidInfo \cup {NULL}
    OBVIOUS
  <2>1. CASE i \in Occupied
    <3>1. pidinfo[i] \in PidInfo
      BY <2>1, <1>8
    <3>2. /\ [pidinfo[i] EXCEPT !.exited = TRUE, !.status = st] \in PidInfo
          /\ [pidinfo[i] EXCEPT !.ppid = INVALID_PID] \in PidInfo
      BY <3>1 DEF PidInfo
    <3> QED
      BY <3>1, <3>2, <1>5
  <2>2. CASE i \notin Occupied
    BY <2>2, <1>2, <1>5, <1>6 DEF Occupied
  <2> QED
    BY <2>1, <2>2
<1>10. Occupied' = Occupied \ D
  <2>1. \A i \in Occupied : /\ [pidinfo[i] EXCEPT !.exited = TRUE, !.status = st] \in PidInfo
                             /\ [pidinfo[i] EXCEPT !.ppid = INVALID_PID] \in PidInfo
    BY <1>8 DEF PidInfo
  <2>2. \A i \in Slots : pidinfo'[i] # NULL <=> i \in Occupied /\ i \notin D
    BY <2>1, <1>2, <1>5, <1>6 DEF Occupied
  <2> QED
    BY <2>2 DEF Occupied
<1>11. \A i \in Occupied \ D :
        /\ pidinfo'[i].pid = pidinfo[i].pid /\ pidinfo'[i].owner = pidinfo[i].owner
        /\ pidinfo'[i].ppid = (IF i \in C THEN INVALID_PID ELSE pidinfo[i].ppid)
        /\ (i = me => pidinfo'[i].exited)
        /\ (i # me => pidinfo'[i].exited = pidinfo[i].exited)
  <2> SUFFICES ASSUME NEW i \in Occupied \ D
               PROVE  /\ pidinfo'[i].pid = pidinfo[i].pid /\ pidinfo'[i].owner = pidinfo[i].owner
                      /\ pidinfo'[i].ppid = (IF i \in C THEN INVALID_PID ELSE pidinfo[i].ppid)
                      /\ (i = me => pidinfo'[i].exited)
                      /\ (i # me => pidinfo'[i].exited = pidinfo[i].exited)
    OBVIOUS
  <2>1. i \in Slots /\ pidinfo[i] \in PidInfo
    BY <1>8 DEF Occupied
  <2> QED
    BY <2>1, <1>5, <1>7 DEF PidInfo
<1>12. \A q \in Procs : q # p => p_pid'[q] = p_pid[q] /\ p_pid[q] # mine
  BY <1>1, <1>5, PidInjective DEF TableInv, TypeOK
<1>a. TypeOK'
  <2>1. pidinfo' \in [Slots -> PidInfo \cup {NULL}]
    BY <1>5, <1>9
  <2>2. pstate' \in [Procs -> States]
    BY <1>5 DEF TableInv, TypeOK, States
  <2>3. Cardinality(D) \in Nat
    BY <1>2, <1>6, SlotsFinite, FS_Subset, FS_CardinalityType DEF Occupied
  <2>4. nprocs' \in Int
    <3>1. nprocs \in Int
      BY DEF TableInv, TypeOK
    <3>2. nprocs' = nprocs - Cardinality(D)
      BY <1>5
    <3> QED
      BY <2>3, <3>1, <3>2
  <2> QED
    BY <2>1, <2>2, <2>4, <1>5 DEF TableInv, TypeOK
<1>b. SlotOK'
  BY <1>8, <1>10, <1>11 DEF TableInv, SlotOK
<1>c. PidState'
  <2>1. \A q \in Procs : pstate'[q] \in {"free", "dying"} <=> q = p \/ pstate[q] \in {"free", "dying"}
    BY <1>5 DEF Woken
  <2> QED
    BY <2>1, <1>5, <1>12 DEF TableInv, PidState, TypeOK
<1>13. \A x \in Pids \cup {INVALID_PID, KERNEL_PID} :
         pi_get(x) # NULL =>
           /\ Slot(x) \in Occupied /\ pidinfo[Slot(x)] = pi_get(x) /\ pi_get(x).pid = x
           /\ Slot(x) \notin D => /\ pi_get(x)' # NULL
                                  /\ pi_get(x)' = pidinfo'[Slot(x)]
  <2> SUFFICES ASSUME NEW x \in Pids \cup {INVALID_PID, KERNEL_PID}, pi_get(x) # NULL
               PROVE  /\ Slot(x) \in Occupied /\ pidinfo[Slot(x)] = pi_get(x) /\ pi_get(x).pid = x
                      /\ Slot(x) \notin D => /\ pi_get(x)' # NULL
                                             /\ pi_get(x)' = pidinfo'[Slot(x)]
    OBVIOUS
  <2>1. Slot(x) \in Slots /\ Slot(x) \in Occupied /\ pidinfo[Slot(x)] = pi_get(x) /\ pi_get(x).pid = x
    BY SlotType DEF pi_get, Occupied
  <2>2. CASE Slot(x) \notin D
    <3>1. Slot(x) \in Occupied' /\ pidinfo'[Slot(x)].pid = x
      BY <2>1, <2>2, <1>10, <1>11
    <3> QED
      BY <2>1, <3>1 DEF pi_get, Occupied
  <2> QED
    BY <2>1, <2>2
<1>14. \A q \in Procs : q # p /\ p_pid[q] # INVALID_PID =>
         /\ pi_get(p_pid[q])' # NULL /\ pi_get(p_pid[q])'.owner = q
         /\ ~pi_get(p_pid[q])'.exited
         /\ (pi_get(p_pid[q]).ppid # mine => pi_get(p_pid[q])'.ppid = pi_get(p_pid[q]).ppid)
  <2> SUFFICES ASSUME NEW q \in Procs, q # p, p_pid[q] # INVALID_PID
               PROVE  /\ pi_get(p_pid[q])' # NULL /\ pi_get(p_pid[q])'.owner = q
                      /\ ~pi_get(p_pid[q])'.exited
                      /\ (pi_get(p_pid[q]).ppid # mine
                            => pi_get(p_pid[q])'.ppid = pi_get(p_pid[q]).ppid)
    OBVIOUS
  <2>1. PICK x \in Pids \cup {KERNEL_PID} :
          x = p_pid[q] /\ pi_get(x) # NULL /\ pi_get(x).owner = q /\ ~pi_get(x).exited
    <3>1. p_pid[q] \in Pids \cup {KERNEL_PID}
      BY DEF TableInv, TypeOK
    <3>2. pi_get(p_pid[q]) # NULL /\ pi_get(p_pid[q]).owner = q /\ ~pi_get(p_pid[q]).exited
      BY DEF TableInv, PidsUnique
    <3> QED
      BY <3>1, <3>2
  <2>2. p_pid'[q] = x /\ x # mine
    BY <2>1, <1>12
  <2>3. /\ Slot(x) \in Occupied /\ pidinfo[Slot(x)] = pi_get(x) /\ pi_get(x).pid = x
        /\ Slot(x) # me
    BY <2>1, <2>2, <1>2, <1>13
  <2>4. Slot(x) \notin D
    BY <2>1, <2>3, <1>6
  <2>5. pi_get(x)' # NULL /\ pi_get(x)' = pidinfo'[Slot(x)]
    BY <2>1, <2>4, <1>13
  <2>6. /\ pidinfo'[Slot(x)].owner = q /\ ~pidinfo'[Slot(x)].exited
        /\ (pi_get(x).ppid # mine => pidinfo'[Slot(x)].ppid = pi_get(x).ppid)
    BY <2>1, <2>3, <2>4, <1>6, <1>11
  <2>7. pi_get(p_pid[q])' = pi_get(x)'
    BY <2>2 DEF pi_get
  <2> QED
    BY <2>1, <2>5, <2>6, <2>7
<1>d. PidsUnique'
  BY <1>5, <1>14, <1>12 DEF PidsUnique, TableInv, TypeOK
<1>e. NoLeakedEntry'
  <2> SUFFICES ASSUME NEW i \in Occupied'
               PROVE  IF pidinfo'[i].exited THEN pidinfo'[i].ppid # INVALID_PID
                      ELSE p_pid'[pidinfo'[i].owner] = pidinfo'[i].pid
    BY DEF NoLeakedEntry
  <2>1. i \in Occupied /\ i \notin D /\ pidinfo[i].owner \in Procs
    BY <1>8, <1>10 DEF PidInfo
  <2>2. CASE i = me
    BY <2>1, <2>2, <1>6, <1>7, <1>11
  <2>3. CASE i # me /\ pidinfo[i].exited
    BY <2>1, <2>3, <1>6, <1>11 DEF TableInv, NoLeakedEntry
  <2>4. CASE i # me /\ ~pidinfo[i].exited
    <3>1. p_pid[pidinfo[i].owner] = pidinfo[i].pid /\ pidinfo[i].pid # mine
      BY <2>1, <2>4, <1>8 DEF TableInv, NoLeakedEntry
    <3> QED
      BY <2>1, <2>4, <3>1, <1>1, <1>11, <1>12
  <2> QED
    BY <2>2, <2>3, <2>4
<1>f. ParentAlive'
  <2> SUFFICES ASSUME NEW i \in Occupied', pidinfo'[i].ppid # INVALID_PID
               PROVE  pi_get(pidinfo[i].ppid)' # NULL /\ ~pi_get(pidinfo[i].ppid)'.exited
    BY DEF ParentAlive
  <2>1. /\ i \in Occupied /\ i \notin D /\ i \notin C /\ pidinfo'[i].ppid = pidinfo[i].ppid
    BY <1>10, <1>11
  <2>2. PICK x \in Pids \cup {INVALID_PID, KERNEL_PID} :
          x = pidinfo[i].ppid /\ pi_get(x) # NULL /\ ~pi_get(x).exited /\ x # mine
    BY <2>1, <1>6, <1>8 DEF TableInv, ParentAlive, PidInfo
  <2>3. /\ Slot(x) \in Occupied /\ pidinfo[Slot(x)] = pi_get(x) /\ pi_get(x).pid = x
        /\ Slot(x) # me
    BY <2>2, <1>2, <1>13
  <2>4. Slot(x) \notin D
    BY <2>2, <2>3, <1>6
  <2>5. pi_get(x)' # NULL /\ ~pi_get(x)'.exited
    BY <2>2, <2>3, <2>4, <1>11, <1>13
  <2>6. pi_get(pidinfo[i].ppid)' = pi_get(x)'
    BY <2>1, <2>2 DEF pi_get
  <2> QED
    BY <2>5, <2>6
<1>g. ForkOK'
  <2> SUFFICES ASSUME NEW q \in Procs, pstate'[q] = "fork"
               PROVE  /\ newproc'[q] \in Procs
                      /\ pstate'[newproc'[q]] = "new"
                      /\ pi_get(p_pid[newproc[q]])'.ppid = p_pid'[q]
    BY DEF ForkOK
  <2>1. q # p /\ pstate[q] = "fork"
    BY <1>5
  <2>2. /\ newproc[q] \in Procs /\ pstate[newproc[q]] = "new"
        /\ pi_get(p_pid[newproc[q]]).ppid = p_pid[q] /\ newproc[q] # p
    BY <2>1, <1>1 DEF TableInv, ForkOK
  <2>3. pstate'[newproc[q]] = "new"
    BY <2>2, <1>5 DEF Woken
  <2>4. p_pid[newproc[q]] # INVALID_PID
    BY <2>2 DEF TableInv, PidState
  <2> QED
    <3>1. newproc'[q] = newproc[q] /\ p_pid'[q] = p_pid[q] /\ p_pid[q] # mine
      BY <2>1, <1>5, <1>12
    <3>2. pi_get(p_pid[newproc[q]])'.ppid = pi_get(p_pid[newproc[q]]).ppid
      BY <2>2, <2>4, <3>1, <1>14
    <3> QED
      BY <2>2, <2>3, <3>1, <3>2
<1>h. NewOK'
  <2> SUFFICES ASSUME NEW q \in Procs, pstate'[q] = "new", NEW i \in Occupied'
               PROVE  pidinfo'[i].ppid # p_pid'[q]
    BY DEF NewOK
  <2>1. q # p /\ pstate[q] = "new" /\ p_pid'[q] = p_pid[q] /\ p_pid[q] # INVALID_PID
    BY <1>5, <1>12 DEF TableInv, PidState
  <2> QED
    BY <2>1, <1>10, <1>11 DEF TableInv, NewOK
<1>i. WaiterHasChild'
  <2> SUFFICES ASSUME NEW q \in Procs, pstate'[q] \in {"wait", "woken"}
               PROVE  /\ pi_get(them[q])' # NULL
                      /\ pi_get(them[q])'.ppid = p_pid'[q]
                      /\ (pi_get(them[q])'.exited <=> pstate'[q] = "woken")
    BY DEF WaiterHasChild
  <2>1. q # p /\ pstate[q] \in {"wait", "woken"} /\ them'[q] = them[q]
        /\ pstate'[q] = (IF q \in Woken(mine) THEN "woken" ELSE pstate[q])
    BY <1>5 DEF Woken
  <2>2. PICK x \in Pids \cup {INVALID_PID, KERNEL_PID} :
          /\ x = them[q] /\ pi_get(x) # NULL /\ pi_get(x).ppid = p_pid[q]
          /\ (pi_get(x).exited <=> pstate[q] = "woken")
    BY <2>1 DEF TableInv, TypeOK, WaiterHasChild
  <2>3. p_pid[q] # mine /\ p_pid[q] # INVALID_PID /\ p_pid'[q] = p_pid[q]
    BY <2>1, <1>12 DEF TableInv, PidState
  <2>4. /\ Slot(x) \in Occupied /\ pidinfo[Slot(x)] = pi_get(x) /\ pi_get(x).pid = x
        /\ Slot(x) \notin C
    <3>1. Slot(x) \in Occupied /\ pidinfo[Slot(x)] = pi_get(x) /\ pi_get(x).pid = x
      BY <2>2, <1>13
    <3> QED
      BY <2>2, <2>3, <3>1, <1>6
  <2>5. Slot(x) \notin D
    BY <2>2, <2>3, <2>4, <1>6
  <2>6. pi_get(x)' # NULL /\ pi_get(x)' = pidinfo'[Slot(x)]
        /\ pi_get(x)'.ppid = p_pid[q]
    <3>1. pi_get(x)' # NULL /\ pi_get(x)' = pidinfo'[Slot(x)]
      BY <2>2, <2>5, <1>13
    <3>2. pidinfo'[Slot(x)].ppid = pidinfo[Slot(x)].ppid
      BY <2>4, <2>5, <1>11
    <3> QED
      BY <2>2, <2>4, <3>1, <3>2
  <2>7. pi_get(x)'.exited <=> pstate'[q] = "woken"
    <3>1. CASE x = mine
      <4>1. q \in Woken(mine)
        BY <3>1, <2>1, <2>2, <2>3, <1>1 DEF Woken
      <4>2. Slot(x) = me
        BY <3>1, <1>2
      <4> QED
        BY <4>1, <4>2, <2>1, <2>4, <2>5, <2>6, <1>11
    <3>2. CASE x # mine
      <4>1. q \notin Woken(mine) /\ Slot(x) # me
        BY <3>2, <2>2, <2>4, <1>2 DEF Woken
      <4> QED
        BY <4>1, <2>1, <2>2, <2>4, <2>5, <2>6, <1>11
    <3> QED
      BY <3>1, <3>2
  <2>8. pi_get(them[q])' = pi_get(x)'
    BY <2>1, <2>2 DEF pi_get
  <2> QED
    BY <2>3, <2>6, <2>7, <2>8
<1> QED
  BY <1>a, <1>b, <1>c, <1>d, <1>e, <1>f, <1>g, <1>h, <1>i DEF TableInv

LEMMA NextTable ==
  ASSUME TableInv, [Next]_vars
  PROVE  TableInv'
<1>1. CASE UNCHANGED vars
  BY <1>1 DEF vars, TableInv, TypeOK, SlotOK, PidState, PidsUnique, NoLeakedEntry, ParentAlive,
              ForkOK, NewOK, WaiterHasChild, pi_get, Occupied
<1>2. ASSUME NEW p \in Procs, NEW pid \in WaitPids, NEW flags \in {"0", "WNOHANG", "bad"},
             WaitExited(p, pid, flags)
      PROVE  TableInv'
  <2>1. /\ pid \in Pids \cup {KERNEL_PID} /\ pi_get(pid) # NULL
        /\ pi_get(pid).exited /\ pi_get(pid).ppid = p_pid[p]
    BY <1>2 DEF WaitExited, WaitError, WaitPids, INVALID_PID
  <2>2. Collect(p, pid) /\ pstate[p] \in {"run", "menu", "woken"}
    BY <1>2 DEF WaitExited, CallsWait
  <2> QED
    BY <2>1, <2>2, CollectTable
<1>3. ASSUME NEW p \in Procs, WaitResume(p)
      PROVE  TableInv'
  <2>1. /\ pstate[p] = "woken" /\ pi_get(them[p]) # NULL /\ pi_get(them[p]).exited
        /\ pi_get(them[p]).ppid = p_pid[p]
    BY <1>3 DEF WaitResume, TableInv, WaiterHasChild
  <2>2. them[p] \in Pids \cup {KERNEL_PID}
    <3>1. them[p] # INVALID_PID
      <4>1. ASSUME NEW i \in Occupied PROVE pidinfo[i].pid # INVALID_PID
        BY PidsNat DEF TableInv, TypeOK, Occupied, PidInfo
      <4>2. pi_get(INVALID_PID) = NULL
        BY <4>1, SlotType, PidsNat DEF pi_get, Occupied
      <4> QED
        BY <4>2, <2>1
    <3> QED
      BY <3>1 DEF TableInv, TypeOK
  <2>3. Collect(p, them[p])
    BY <1>3, <2>1 DEF WaitResume
  <2> QED
    BY <2>1, <2>2, <2>3, CollectTable
<1>4. CASE Next
  <2>1. CASE MenuFork \/ MenuForkFail
    BY <2>1, QuietTable, ProcsAssumption
  <2>2. CASE \E p \in Procs : Step(p)
    <3>1. PICK p \in Procs : Step(p)
      BY <2>2
    <3> QED
      BY <3>1, <1>2, <1>3, AllocTable, ForkUndoTable, ExitTable, QuietTable DEF Step
  <2> QED
    BY <1>4, <2>1, <2>2 DEF Next
<1> QED
  BY <1>1, <1>4

\* Every variable keeps its type.
THEOREM TypeCorrect == Spec => []TypeOK
<1>1. Init => TableInv
  BY InitTable
<1>2. TableInv /\ [Next]_vars => TableInv'
  BY NextTable
<1>3. TableInv => TypeOK
  BY DEF TableInv
<1> QED
  BY <1>1, <1>2, <1>3, PTL DEF Spec

\* For any table size and pid range: no two processes share a pid or a slot, no
\* entry outlives its use, every recorded parent is a live process, and a waiter
\* always finds its child's entry.
THEOREM TableSafe == Spec => [](EntriesExact /\ ParentAlive /\ WaiterHasChild)
<1>1. Init => TableInv
  BY InitTable
<1>2. TableInv /\ [Next]_vars => TableInv'
  BY NextTable
<1>3. TableInv => EntriesExact /\ ParentAlive /\ WaiterHasChild
  BY DEF TableInv, EntriesExact
<1> QED
  BY <1>1, <1>2, <1>3, PTL DEF Spec

\* The same of RelativesExact: whatever pids are reused, a ppid never names a
\* stranger, and no sleeping waitpid loses the entry it points to.
THEOREM RelativesCorrect == Spec => []RelativesExact
<1>1. EntriesExact /\ ParentAlive /\ WaiterHasChild => RelativesExact
  BY DEF RelativesExact
<1> QED
  BY <1>1, TableSafe, PTL

-----------------------------------------------------------------------------
(* nprocs counts the occupied slots.                                       *)

LEMMA OccupiedFinite == IsFiniteSet(Occupied) /\ Cardinality(Occupied) \in Nat
BY SlotsFinite, FS_Subset, FS_CardinalityType DEF Occupied

LEMMA DropCount ==
  ASSUME TableInv, CountExact, NEW pid \in Pids \cup {KERNEL_PID}, pi_get(pid) # NULL,
         pi_drop(pid)
  PROVE  CountExact'
<1>1. Cardinality(Occupied') = Cardinality(Occupied) - 1
  BY DropFacts, OccupiedFinite, FS_RemoveElement
<1> QED
  BY <1>1 DEF CountExact, pi_drop

LEMMA NextCount ==
  ASSUME TableInv, CountExact, [Next]_vars
  PROVE  CountExact'
<1> USE ProcsAssumption, NullAssumption, PidsNat
<1>q. ASSUME pidinfo' = pidinfo, nprocs' = nprocs PROVE CountExact'
  BY <1>q DEF CountExact, Occupied
<1>1. CASE UNCHANGED vars
  BY <1>1, <1>q DEF vars
<1>2. ASSUME NEW p \in Procs, NEW c \in Procs, Alloc(p, c) PROVE CountExact'
  <2>1. PICK k \in 0..(PID_MAX - PID_MIN) :
          /\ Skips(k)
          /\ pidinfo' = [pidinfo EXCEPT ![Slot(Candidate(k))] =
                           [pid |-> Candidate(k), ppid |-> p_pid[p], exited |-> FALSE,
                            status |-> NoStatus, owner |-> c]]
    BY <1>2 DEF Alloc
  <2>2. PICK pid \in Pids : pid = Candidate(k)
    <3>1. k \in Nat /\ nextpid \in Pids
      BY <2>1, LimitsAssumption DEF TableInv, TypeOK
    <3> QED
      BY <3>1, CandidateType
  <2>3. p_pid[p] \in Pids \cup {INVALID_PID, KERNEL_PID} /\ Slot(pid) \in Slots
    BY SlotType DEF TableInv, TypeOK
  <2>4. [pid |-> pid, ppid |-> p_pid[p], exited |-> FALSE, status |-> NoStatus, owner |-> c]
          \in PidInfo
    BY <2>3 DEF PidInfo
  <2>5. Slot(pid) \notin Occupied /\ Occupied' = Occupied \cup {Slot(pid)}
    BY <2>1, <2>2, <2>3, <2>4 DEF Occupied, Skips, TableInv, TypeOK
  <2>6. Cardinality(Occupied') = Cardinality(Occupied) + 1
    BY <2>5, OccupiedFinite, FS_AddElement
  <2> QED
    BY <2>6, <1>2 DEF CountExact, Alloc
<1>3. ASSUME NEW p \in Procs, ForkUndo(p) PROVE CountExact'
  <2>1. /\ newproc[p] \in Procs /\ p_pid[newproc[p]] \in Pids \cup {KERNEL_PID}
        /\ pi_get(p_pid[newproc[p]]) # NULL /\ ~pi_get(p_pid[newproc[p]]).exited
        /\ pi_get(p_pid[newproc[p]]).ppid = p_pid[p]
    BY <1>3, HasEntry DEF ForkUndo, TableInv, ForkOK
  <2> QED
    <3>1. pi_drop(p_pid[newproc[p]])
      BY <1>3, <2>1 DEF ForkUndo
    <3> QED
      BY <2>1, <3>1, DropCount
<1>4. ASSUME NEW p \in Procs, NEW st \in Statuses, Exit(p, st) PROVE CountExact'
  <2>1. PICK mine \in Pids \cup {KERNEL_PID} : mine = p_pid[p] /\ pi_get(mine) # NULL
    BY <1>4, HasEntry DEF Exit
  <2>2. PICK D : D = Dropped(mine)
    OBVIOUS
  <2>3. D \subseteq Occupied
    BY <2>1, <2>2, SlotType DEF Dropped, Children, Occupied, pi_get
  <2>4. nprocs' = nprocs - Cardinality(D)
    BY <1>4, <2>1, <2>2 DEF Exit
  <2>5. Occupied' = Occupied \ D
    <3>1. \A i \in Occupied : /\ [pidinfo[i] EXCEPT !.exited = TRUE, !.status = st] \in PidInfo
                               /\ [pidinfo[i] EXCEPT !.ppid = INVALID_PID] \in PidInfo
                               /\ pidinfo[i] \in PidInfo
      BY DEF TableInv, TypeOK, Occupied, PidInfo
    <3>2. Slot(mine) \in Occupied /\ Children(mine) \subseteq Occupied
      BY <2>1, SlotType DEF Occupied, pi_get, Children
    <3>3. pidinfo' = [i \in Slots |->
                IF i \in D THEN NULL
                ELSE IF i = Slot(mine) THEN [pidinfo[i] EXCEPT !.exited = TRUE, !.status = st]
                ELSE IF i \in Children(mine) THEN [pidinfo[i] EXCEPT !.ppid = INVALID_PID]
                ELSE pidinfo[i]]
      BY <1>4, <2>1, <2>2 DEF Exit
    <3>4. \A i \in Slots : pidinfo'[i] # NULL <=> i \in Occupied /\ i \notin D
      BY <2>3, <3>1, <3>2, <3>3 DEF Occupied
    <3> QED
      BY <3>4 DEF Occupied
  <2>6. Occupied \cap D = D
    BY <2>3
  <2>7. Cardinality(Occupied') = Cardinality(Occupied) - Cardinality(D)
    BY <2>5, <2>6, OccupiedFinite, FS_Difference
  <2> QED
    BY <2>4, <2>7 DEF CountExact
<1>5. ASSUME NEW p \in Procs, NEW pid \in WaitPids, NEW flags \in {"0", "WNOHANG", "bad"},
             WaitExited(p, pid, flags)
      PROVE  CountExact'
  <2>1. pid \in Pids \cup {KERNEL_PID} /\ pi_get(pid) # NULL
    BY <1>5 DEF WaitExited, WaitError, WaitPids, INVALID_PID
  <2>2. pi_drop(pid)
    BY <1>5 DEF WaitExited, Collect
  <2> QED
    BY <2>1, <2>2, DropCount
<1>6. ASSUME NEW p \in Procs, WaitResume(p) PROVE CountExact'
  <2>1. /\ pi_get(them[p]) # NULL /\ pi_get(them[p]).exited
    BY <1>6 DEF WaitResume, TableInv, WaiterHasChild
  <2>2. them[p] \in Pids \cup {KERNEL_PID}
    <3>1. ASSUME NEW i \in Occupied PROVE pidinfo[i].pid # INVALID_PID
      BY DEF TableInv, TypeOK, Occupied, PidInfo
    <3>2. pi_get(INVALID_PID) = NULL
      BY <3>1, SlotType DEF pi_get, Occupied
    <3> QED
      BY <3>2, <2>1 DEF TableInv, TypeOK
  <2> QED
    <3>1. pi_drop(them[p])
      BY <1>6, <2>1 DEF WaitResume, Collect
    <3> QED
      BY <2>1, <2>2, <3>1, DropCount
<1>7. CASE Next
  <2>1. CASE MenuFork \/ MenuForkFail
    BY <2>1, <1>q DEF MenuFork, MenuForkFail, Panic
  <2>2. ASSUME NEW p \in Procs, Step(p) PROVE CountExact'
    <3>1. CASE AllocAgain(p) \/ AllocNoMem(p) \/ ForkDone(p) \/ Destroy(p) \/ Returns(p)
      BY <3>1, <1>q DEF AllocAgain, AllocNoMem, ForkDone, Destroy, Returns, Panic
    <3>2. CASE \E pid \in WaitPids : WaitSleep(p, pid) \/ WaitNoHang(p, pid)
      BY <3>2, <1>q DEF WaitSleep, WaitNoHang
    <3>3. CASE \E pid \in WaitPids, flags \in {"0", "WNOHANG", "bad"} : WaitFails(p, pid, flags)
      BY <3>3, <1>q DEF WaitFails
    <3> QED
      BY <2>2, <3>1, <3>2, <3>3, <1>2, <1>3, <1>4, <1>5, <1>6 DEF Step
  <2> QED
    BY <1>7, <2>1, <2>2 DEF Next
<1> QED
  BY <1>1, <1>7

LEMMA InitCount == Init => CountExact
<1> SUFFICES ASSUME Init PROVE CountExact
  OBVIOUS
<1>1. [pid |-> KERNEL_PID, ppid |-> INVALID_PID, exited |-> FALSE,
       status |-> NoStatus, owner |-> KProc] \in PidInfo
  BY ProcsAssumption DEF PidInfo
<1>2. Occupied = {KERNEL_PID}
  BY <1>1, NullAssumption, SlotKernel DEF Init, Occupied
<1> QED
  BY <1>2, FS_Singleton DEF Init, CountExact

\* nprocs is exact after any sequence of forks, failed forks, exits and waits.
THEOREM CountCorrect == Spec => []CountExact
<1>1. Init => TableInv /\ CountExact
  BY InitTable, InitCount
<1>2. TableInv /\ CountExact /\ [Next]_vars => (TableInv /\ CountExact)'
  BY NextTable, NextCount
<1> QED
  BY <1>1, <1>2, PTL DEF Spec

-----------------------------------------------------------------------------
(* No KASSERT of pid.c fails.                                              *)

LEMMA ModUnique ==
  ASSUME NEW P \in Nat, P > 0, NEW f \in 0..(P - 1)
  PROVE  \A d \in Int : (P * d + f) % P = f /\ (P * (d + 1) + f) % P = f
<1>1. ASSUME NEW d \in Int PROVE (P * d + f) % P = f
  OBVIOUS
<1> QED
  BY <1>1

\* Some one of any PROCS_MAX consecutive pids falls into a given slot.
LEMMA SlotReached ==
  ASSUME NEW m \in Nat, NEW f \in Slots
  PROVE  \E q \in m..(m + PROCS_MAX - 1) : Slot(q) = f
<1> DEFINE P == PROCS_MAX
           r == m % P
           d == m \div P
<1>1. P \in Nat /\ P > 0
  BY LimitsAssumption DEF KERNEL_PID
<1>2. m = P * d + r /\ r \in 0..(P - 1) /\ d \in Int
  BY <1>1
<1>3. (P * d + f) % P = f /\ (P * (d + 1) + f) % P = f
  <2>1. f \in 0..(P - 1)
    BY DEF Slots
  <2> QED
    BY <2>1, <1>1, <1>2, ModUnique
<1>4. P * (d + 1) = P * d + P /\ P * d \in Int
  BY <1>1, <1>2
<1>5. f \in 0..(P - 1)
  BY DEF Slots
<1> HIDE DEF r, d
<1>6. CASE f >= r
  <2>1. P * d + f \in m..(m + P - 1)
    BY <1>1, <1>2, <1>4, <1>5, <1>6
  <2> QED
    BY <2>1, <1>3 DEF Slot
<1>7. CASE f < r
  <2>1. P * (d + 1) + f \in m..(m + P - 1)
    BY <1>1, <1>2, <1>4, <1>5, <1>7
  <2> QED
    BY <2>1, <1>3 DEF Slot
<1> QED
  BY <1>2, <1>5, <1>6, <1>7

\* The probe loop of pid_alloc stops long before the bound it asserts.
LEMMA ProbeBound ==
  ASSUME nextpid \in Pids, NEW k \in Nat, Skips(k), NEW f \in Slots, f \notin Occupied
  PROVE  k <= 2 * PROCS_MAX
<1> DEFINE P == PROCS_MAX
           R == PID_MAX - PID_MIN + 1
<1>1. P \in Nat /\ R \in Nat /\ R >= P /\ P > 0 /\ nextpid \in Nat /\ PID_MIN \in Nat
      /\ PID_MAX \in Nat /\ nextpid >= PID_MIN /\ nextpid <= PID_MAX
  BY LimitsAssumption DEF Pids, KERNEL_PID
<1>2. SUFFICES ASSUME k > 2 * P PROVE FALSE
  BY <1>1
<1>3. ASSUME NEW j \in Nat, j < k, Slot(Candidate(j)) = f PROVE FALSE
  <2>1. j \in 0..(k - 1)
    BY <1>3
  <2> QED
    BY <2>1, <1>3 DEF Skips, Occupied
<1>4. PICK q \in nextpid..(nextpid + P - 1) : Slot(q) = f
  BY <1>1, SlotReached
<1>5. CASE q <= PID_MAX
  <2>1. q - nextpid \in Nat /\ q - nextpid < k
    BY <1>1, <1>2, <1>4
  <2>2. q - PID_MIN \in 0..(R - 1) /\ nextpid - PID_MIN + (q - nextpid) = q - PID_MIN
    BY <1>1, <1>4, <1>5
  <2>3. (q - PID_MIN) % R = q - PID_MIN
    BY <1>1, <2>2
  <2>4. Candidate(q - nextpid) = q
    BY <2>2, <2>3, <1>1, <1>4 DEF Candidate
  <2> QED
    BY <2>1, <2>4, <1>3, <1>4
<1>6. CASE q > PID_MAX
  <2>1. PICK t \in PID_MIN..(PID_MIN + P - 1) : Slot(t) = f
    BY <1>1, SlotReached
  <2>2. t - PID_MIN \in 0..(R - 1)
    BY <1>1, <2>1
  <2>3. ((t - PID_MIN) + R) % R = t - PID_MIN
    BY <1>1, <2>2
  <2> DEFINE j == t - PID_MIN + R - (nextpid - PID_MIN)
  <2>4. j \in Nat /\ j < k
    BY <1>1, <1>2, <1>4, <1>6, <2>1
  <2>5. nextpid - PID_MIN + j = (t - PID_MIN) + R
    BY <1>1, <2>1
  <2>6. Candidate(j) = t
    BY <2>3, <2>5, <1>1, <2>1 DEF Candidate
  <2> HIDE DEF j
  <2> QED
    BY <2>4, <2>6, <1>3, <2>1
<1> QED
  BY <1>1, <1>4, <1>5, <1>6

LEMMA NextNoPanic ==
  ASSUME TableInv, CountExact, NoPanic, [Next]_vars
  PROVE  NoPanic' \/ MenuForkFail
<1>1. CASE UNCHANGED vars
  BY <1>1 DEF vars, NoPanic
<1>2. ASSUME NEW p \in Procs, NEW c \in Procs, Alloc(p, c) PROVE NoPanic'
  <2>1. PICK k \in 0..(PID_MAX - PID_MIN) :
          Skips(k) /\ panic' = IF k > 2 * PROCS_MAX + 5 THEN "pid.c:258" ELSE panic
    BY <1>2 DEF Alloc
  <2>2. PICK f \in Slots : f \notin Occupied
    <3>1. Cardinality(Occupied) # PROCS_MAX
      BY <1>2 DEF Alloc, CountExact
    <3> QED
      BY <3>1, SlotsFinite DEF Occupied
  <2>3. k \in Nat /\ nextpid \in Pids /\ PROCS_MAX \in Nat
    BY <2>1, LimitsAssumption DEF TableInv, TypeOK
  <2>4. k <= 2 * PROCS_MAX
    BY <2>1, <2>2, <2>3, ProbeBound
  <2> QED
    BY <2>1, <2>3, <2>4 DEF NoPanic
<1>3. ASSUME NEW p \in Procs, ForkUndo(p) PROVE NoPanic'
  BY <1>3, HasEntry DEF ForkUndo, TableInv, ForkOK, NoPanic
<1>4. ASSUME NEW p \in Procs, NEW st \in Statuses, Exit(p, st) PROVE NoPanic'
  BY <1>4, HasEntry, PidsNat DEF Exit, NoPanic
<1>5. ASSUME NEW p \in Procs, Destroy(p) PROVE NoPanic'
  BY <1>5 DEF Destroy, TableInv, PidState, NoPanic
<1>6. ASSUME NEW p \in Procs, WaitResume(p) PROVE NoPanic'
  BY <1>6 DEF WaitResume, Collect, TableInv, WaiterHasChild, NoPanic
<1>7. CASE Next
  <2>1. CASE MenuFork
    BY <2>1 DEF MenuFork, NoPanic
  <2>2. ASSUME NEW p \in Procs, Step(p) PROVE NoPanic'
    <3>1. CASE AllocAgain(p) \/ AllocNoMem(p) \/ ForkDone(p) \/ Returns(p)
      BY <3>1 DEF AllocAgain, AllocNoMem, ForkDone, Returns, NoPanic
    <3>2. CASE \E pid \in WaitPids : WaitSleep(p, pid) \/ WaitNoHang(p, pid)
      BY <3>2 DEF WaitSleep, WaitNoHang, NoPanic
    <3>3. CASE \E pid \in WaitPids, flags \in {"0", "WNOHANG", "bad"} :
                 WaitFails(p, pid, flags) \/ WaitExited(p, pid, flags)
      BY <3>3 DEF WaitFails, WaitExited, Collect, NoPanic
    <3> QED
      BY <2>2, <3>1, <3>2, <3>3, <1>2, <1>3, <1>4, <1>5, <1>6 DEF Step
  <2> QED
    BY <1>7, <2>1, <2>2 DEF Next
<1> QED
  BY <1>1, <1>7

\* Whatever fails, the only KASSERT of pid.c and proc.c that can is the one in
\* proc_destroy, and only after thread_fork has failed in the kernel menu; in
\* particular the probe loop of pid_alloc finds a free slot, for every table size
\* and pid range.
THEOREM OnlyMenuKassertFails == Spec => []OnlyMenuPanics
<1> DEFINE Inv == TableInv /\ CountExact /\ OnlyMenuPanics
<1>1. Init => Inv
  BY InitTable, InitCount DEF Init, OnlyMenuPanics
<1>2. Inv /\ [Next]_vars => Inv'
  <2> SUFFICES ASSUME Inv, [Next]_vars PROVE OnlyMenuPanics'
    BY NextTable, NextCount
  <2>1. CASE UNCHANGED vars
    BY <2>1 DEF vars, OnlyMenuPanics
  <2>2. CASE Next
    <3>1. NoPanic
      BY <2>2 DEF Next, NoPanic
    <3>2. NoPanic' => OnlyMenuPanics'
      BY DEF NoPanic, OnlyMenuPanics
    <3>3. MenuForkFail => OnlyMenuPanics'
      BY <3>1 DEF MenuForkFail, Panic, NoPanic, OnlyMenuPanics
    <3> QED
      BY <3>1, <3>2, <3>3, NextNoPanic
  <2> QED
    BY <2>1, <2>2
<1> QED
  BY <1>1, <1>2, PTL DEF Spec

\* As long as thread_fork does not fail in the kernel menu (the case the run
\* menu_fork_fails is about), no KASSERT of pid.c or proc.c fails.
THEOREM NoKassertFails == ~MenuForkFails => (Spec => []NoPanic)
<1> SUFFICES ASSUME ~MenuForkFails PROVE Spec => []NoPanic
  OBVIOUS
<1>1. Init => TableInv /\ CountExact /\ NoPanic
  BY InitTable, InitCount DEF Init, NoPanic
<1>2. TableInv /\ CountExact /\ NoPanic /\ [Next]_vars => (TableInv /\ CountExact /\ NoPanic)'
  BY NextTable, NextCount, NextNoPanic DEF MenuForkFail
<1> QED
  BY <1>1, <1>2, PTL DEF Spec

-----------------------------------------------------------------------------
(* The table implements the tree of processes.                             *)

\* A process has one entry, be it alive or dead.
OneEntry == \A i, j \in Occupied : pidinfo[i].owner = pidinfo[j].owner => i = j

TreeInv == TableInv /\ OneEntry

\* What the table shows of process p, entry by entry.
Shown == /\ \A p \in Procs, i \in Occupied : pidinfo[i].owner = p /\ pstate[p] # "new" =>
              /\ MLife[p] = IF pidinfo[i].exited THEN "zombie" ELSE "alive"
              /\ MStatus[p] = IF pidinfo[i].exited THEN pidinfo[i].status ELSE NULL
              /\ pidinfo[i].ppid = INVALID_PID => MParent[p] = NULL
              /\ \A q \in Procs :
                   pidinfo[i].ppid # INVALID_PID /\ p_pid[q] = pidinfo[i].ppid => MParent[p] = q
         /\ \A p \in Procs : pstate[p] = "new" \/ (\A i \in Occupied : pidinfo[i].owner # p) =>
              MLife[p] = "none" /\ MParent[p] = NULL /\ MStatus[p] = NULL
         /\ \A i \in Occupied : pidinfo[i].ppid # INVALID_PID =>
              \E q \in Procs : p_pid[q] = pidinfo[i].ppid

LEMMA IsShown == ASSUME TreeInv PROVE Shown
<1> USE ProcsAssumption, NullAssumption, PidsNat
<1>1. ASSUME NEW p \in Procs, NEW i \in Occupied, pidinfo[i].owner = p, pstate[p] # "new"
      PROVE  /\ MLife[p] = IF pidinfo[i].exited THEN "zombie" ELSE "alive"
             /\ MStatus[p] = IF pidinfo[i].exited THEN pidinfo[i].status ELSE NULL
             /\ pidinfo[i].ppid = INVALID_PID => MParent[p] = NULL
             /\ \A q \in Procs :
                  pidinfo[i].ppid # INVALID_PID /\ p_pid[q] = pidinfo[i].ppid => MParent[p] = q
  <2>1. EntriesOf(p) = {i}
    BY <1>1 DEF EntriesOf, TreeInv, OneEntry
  <2>2. EntryOf(p) = pidinfo[i]
    BY <2>1 DEF EntryOf
  <2>3. ASSUME NEW q \in Procs, p_pid[q] # INVALID_PID PROVE LiveOwner(p_pid[q]) = q
    <3>1. \A r \in Procs : p_pid[r] = p_pid[q] => r = q
      BY <2>3, PidInjective DEF TreeInv
    <3> QED
      BY <3>1 DEF LiveOwner
  <2> QED
    BY <2>1, <2>2, <2>3 DEF MLife, MStatus, MParent
<1>2. ASSUME NEW p \in Procs, pstate[p] = "new" \/ (\A i \in Occupied : pidinfo[i].owner # p)
      PROVE  MLife[p] = "none" /\ MParent[p] = NULL /\ MStatus[p] = NULL
  <2>1. EntriesOf(p) = {}
    BY <1>2 DEF EntriesOf
  <2> QED
    BY <2>1 DEF MLife, MStatus, MParent
<1>3. ASSUME NEW i \in Occupied, pidinfo[i].ppid # INVALID_PID
      PROVE  \E q \in Procs : p_pid[q] = pidinfo[i].ppid
  <2>1. pidinfo[i] \in PidInfo
    BY DEF TreeInv, TableInv, TypeOK, Occupied
  <2>2. PICK x \in Pids \cup {KERNEL_PID} : x = pidinfo[i].ppid
    BY <1>3, <2>1 DEF PidInfo
  <2>3. pi_get(x) # NULL /\ ~pi_get(x).exited
    BY <1>3, <2>2 DEF TreeInv, TableInv, ParentAlive
  <2>4. Slot(x) \in Occupied /\ pidinfo[Slot(x)].pid = x /\ ~pidinfo[Slot(x)].exited
    BY <2>3, SlotType DEF pi_get, Occupied
  <2>5. p_pid[pidinfo[Slot(x)].owner] = x /\ pidinfo[Slot(x)].owner \in Procs
    <3>1. pidinfo[Slot(x)] \in PidInfo
      BY <2>4 DEF TreeInv, TableInv, TypeOK, Occupied
    <3> QED
      BY <2>4, <3>1 DEF TreeInv, TableInv, NoLeakedEntry, PidInfo
  <2> QED
    BY <2>2, <2>5
<1> QED
  BY <1>1, <1>2, <1>3 DEF Shown

\* The mapping, pointwise.
LEMMA MapIs ==
  /\ MLife = [p \in Procs |-> MLife[p]] /\ MLife' = [p \in Procs |-> MLife'[p]]
  /\ MParent = [p \in Procs |-> MParent[p]] /\ MParent' = [p \in Procs |-> MParent'[p]]
  /\ MStatus = [p \in Procs |-> MStatus[p]] /\ MStatus' = [p \in Procs |-> MStatus'[p]]
BY DEF MLife, MParent, MStatus

\* An entry that says its process has exited is not of one that runs.
LEMMA ExitedOwner ==
  ASSUME TreeInv, NEW i \in Occupied, pidinfo[i].exited
  PROVE  /\ pidinfo[i].owner \in Procs
         /\ pstate[pidinfo[i].owner] \in {"free", "dying"}
         /\ p_pid[pidinfo[i].owner] = INVALID_PID
<1>1. pidinfo[i] \in PidInfo
  BY DEF TreeInv, TableInv, TypeOK, Occupied
<1>2. PICK p \in Procs : p = pidinfo[i].owner
  BY <1>1 DEF PidInfo
<1>3. ASSUME p_pid[p] # INVALID_PID PROVE FALSE
  <2>1. pi_get(p_pid[p]) # NULL /\ pi_get(p_pid[p]).owner = p /\ ~pi_get(p_pid[p]).exited
    BY <1>3 DEF TreeInv, TableInv, PidsUnique
  <2>2. Slot(p_pid[p]) \in Slots
    BY <1>3, SlotType, PidsNat DEF TreeInv, TableInv, TypeOK
  <2>3. Slot(p_pid[p]) \in Occupied /\ pidinfo[Slot(p_pid[p])].owner = p
        /\ ~pidinfo[Slot(p_pid[p])].exited
    BY <2>1, <2>2 DEF pi_get, Occupied
  <2> QED
    BY <1>2, <2>3 DEF TreeInv, OneEntry
<1> QED
  BY <1>2, <1>3 DEF TreeInv, TableInv, PidState

\* A process whose entry, parent and thread a step leaves alone.
LEMMA ShownKept ==
  ASSUME Shown, Shown', NEW p \in Procs,
         pstate'[p] = "new" <=> pstate[p] = "new",
         \A i : i \in Occupied /\ pidinfo[i].owner = p
                  <=> i \in Occupied' /\ pidinfo'[i].owner = p,
         \A i \in Occupied : pidinfo[i].owner = p => pidinfo'[i] = pidinfo[i],
         \A i \in Occupied, q \in Procs :
           pidinfo[i].owner = p /\ pidinfo[i].ppid # INVALID_PID /\ p_pid[q] = pidinfo[i].ppid
             => p_pid'[q] = p_pid[q]
  PROVE  MLife'[p] = MLife[p] /\ MParent'[p] = MParent[p] /\ MStatus'[p] = MStatus[p]
<1>1. CASE pstate[p] = "new" \/ (\A i \in Occupied : pidinfo[i].owner # p)
  <2>1. pstate'[p] = "new" \/ (\A i \in Occupied' : pidinfo'[i].owner # p)
    BY <1>1
  <2> QED
    BY <1>1, <2>1 DEF Shown
<1>2. ASSUME NEW i \in Occupied, pidinfo[i].owner = p, pstate[p] # "new"
      PROVE  MLife'[p] = MLife[p] /\ MParent'[p] = MParent[p] /\ MStatus'[p] = MStatus[p]
  <2>1. i \in Occupied' /\ pidinfo'[i] = pidinfo[i] /\ pstate'[p] # "new"
    BY <1>2
  <2>2. MLife'[p] = MLife[p] /\ MStatus'[p] = MStatus[p]
    BY <1>2, <2>1 DEF Shown
  <2>3. CASE pidinfo[i].ppid = INVALID_PID
    <3>1. MParent[p] = NULL /\ MParent'[p] = NULL
      BY <1>2, <2>1, <2>3 DEF Shown
    <3> QED
      BY <2>2, <3>1
  <2>4. CASE pidinfo[i].ppid # INVALID_PID
    <3>1. PICK q \in Procs : p_pid[q] = pidinfo[i].ppid
      BY <2>4 DEF Shown
    <3>2. p_pid'[q] = pidinfo'[i].ppid /\ pidinfo'[i].ppid # INVALID_PID
      BY <1>2, <2>1, <2>4, <3>1
    <3>3. MParent[p] = q /\ MParent'[p] = q
      BY <1>2, <2>1, <2>4, <3>1, <3>2 DEF Shown
    <3> QED
      BY <2>2, <3>3
  <2> QED
    BY <2>3, <2>4
<1> QED
  BY <1>1, <1>2

\* proc_exit, entry by entry.
LEMMA ExitFacts ==
  ASSUME TreeInv, NEW p \in Procs, NEW st \in Statuses, Exit(p, st)
  PROVE  \E me \in Occupied :
           /\ pstate[p] = "run" /\ p # KProc /\ p_pid[p] # INVALID_PID
           /\ pidinfo[me].owner = p /\ ~pidinfo[me].exited /\ pidinfo[me].pid = p_pid[p]
           /\ \A i : i \in Occupied' <=>
                /\ i \in Occupied
                /\ ~(pidinfo[i].ppid = p_pid[p] /\ pidinfo[i].exited)
                /\ ~(i = me /\ pidinfo[i].ppid = INVALID_PID)
           /\ \A i \in Occupied' :
                /\ pidinfo'[i].owner = pidinfo[i].owner
                /\ pidinfo'[i].ppid = IF pidinfo[i].ppid = p_pid[p] THEN INVALID_PID
                                      ELSE pidinfo[i].ppid
                /\ pidinfo'[i].exited <=> pidinfo[i].exited \/ i = me
                /\ pidinfo'[i].status = IF i = me THEN st ELSE pidinfo[i].status
           /\ \A q \in Procs : /\ p_pid'[q] = IF q = p THEN INVALID_PID ELSE p_pid[q]
                               /\ pstate'[q] = "new" <=> pstate[q] = "new"
           /\ ret' = NoRet
<1> USE ProcsAssumption, NullAssumption, PidsNat
<1>inv. TableInv
  BY DEF TreeInv
<1>1. PICK mine \in Pids \cup {KERNEL_PID} :
        /\ mine = p_pid[p] /\ pi_get(mine) # NULL /\ mine # INVALID_PID
        /\ pi_get(mine).owner = p /\ ~pi_get(mine).exited /\ pstate[p] = "run"
  <2>1. pstate[p] = "run"
    BY DEF Exit
  <2> QED
    BY <1>inv, <2>1, HasEntry
<1>2. PICK me \in Occupied : /\ me = Slot(mine) /\ pidinfo[me] = pi_get(mine)
                             /\ pidinfo[me].pid = mine
  BY <1>1, SlotType DEF pi_get, Occupied
<1>3. PICK C : C = Children(mine)
  OBVIOUS
<1>4. PICK D : D = Dropped(mine)
  OBVIOUS
<1>5. /\ pidinfo' = [i \in Slots |->
                      IF i \in D THEN NULL
                      ELSE IF i = me THEN [pidinfo[i] EXCEPT !.exited = TRUE, !.status = st]
                      ELSE IF i \in C THEN [pidinfo[i] EXCEPT !.ppid = INVALID_PID]
                      ELSE pidinfo[i]]
      /\ pstate' = [q \in Procs |-> IF q = p THEN "dying"
                                    ELSE IF q \in Woken(mine) THEN "woken" ELSE pstate[q]]
      /\ p_pid' = [p_pid EXCEPT ![p] = INVALID_PID]
      /\ ret' = NoRet /\ p # KProc
  BY <1>1, <1>2, <1>3, <1>4 DEF Exit
<1>6. /\ \A i : i \in C <=> i \in Occupied /\ pidinfo[i].ppid = mine
      /\ \A i : i \in D <=> ((i \in C /\ pidinfo[i].exited)
                              \/ (i = me /\ pidinfo[me].ppid = INVALID_PID))
  BY <1>1, <1>2, <1>3, <1>4 DEF Children, Dropped
<1>7. me \notin C
  BY <1>inv, <1>2, <1>6 DEF TableInv, SlotOK
<1>8. \A i \in Occupied : i \in Slots /\ pidinfo[i] \in PidInfo
  BY <1>inv DEF TableInv, TypeOK, Occupied
<1>9. Occupied' = Occupied \ D
  <2>1. \A i \in Occupied : /\ [pidinfo[i] EXCEPT !.exited = TRUE, !.status = st] \in PidInfo
                            /\ [pidinfo[i] EXCEPT !.ppid = INVALID_PID] \in PidInfo
    BY <1>8 DEF PidInfo
  <2>2. \A i \in Slots : pidinfo'[i] # NULL <=> i \in Occupied /\ i \notin D
    BY <2>1, <1>2, <1>5, <1>6 DEF Occupied
  <2> QED
    BY <2>2 DEF Occupied
<1>10. \A i \in Occupied \ D :
        /\ pidinfo'[i].owner = pidinfo[i].owner
        /\ pidinfo'[i].ppid = (IF i \in C THEN INVALID_PID ELSE pidinfo[i].ppid)
        /\ pidinfo'[i].exited <=> pidinfo[i].exited \/ i = me
        /\ pidinfo'[i].status = IF i = me THEN st ELSE pidinfo[i].status
  <2> SUFFICES ASSUME NEW i \in Occupied \ D
               PROVE  /\ pidinfo'[i].owner = pidinfo[i].owner
                      /\ pidinfo'[i].ppid = (IF i \in C THEN INVALID_PID ELSE pidinfo[i].ppid)
                      /\ pidinfo'[i].exited <=> pidinfo[i].exited \/ i = me
                      /\ pidinfo'[i].status = IF i = me THEN st ELSE pidinfo[i].status
    OBVIOUS
  <2>1. i \in Slots /\ pidinfo[i] \in PidInfo
    BY <1>8
  <2> QED
    BY <2>1, <1>5, <1>7 DEF PidInfo
<1>11. \A q \in Procs : /\ p_pid'[q] = IF q = p THEN INVALID_PID ELSE p_pid[q]
                        /\ pstate'[q] = "new" <=> pstate[q] = "new"
  <2>1. \A q \in Procs : q \in Woken(mine) => pstate[q] = "wait"
    BY DEF Woken
  <2> QED
    BY <1>inv, <1>1, <1>5, <2>1 DEF TableInv, TypeOK
<1>12. \A i : i \in Occupied' <=>
          /\ i \in Occupied
          /\ ~(pidinfo[i].ppid = p_pid[p] /\ pidinfo[i].exited)
          /\ ~(i = me /\ pidinfo[i].ppid = INVALID_PID)
  BY <1>1, <1>6, <1>9
<1>13. \A i \in Occupied' :
         /\ pidinfo'[i].owner = pidinfo[i].owner
         /\ pidinfo'[i].ppid = IF pidinfo[i].ppid = p_pid[p] THEN INVALID_PID
                               ELSE pidinfo[i].ppid
         /\ pidinfo'[i].exited <=> pidinfo[i].exited \/ i = me
         /\ pidinfo'[i].status = IF i = me THEN st ELSE pidinfo[i].status
  BY <1>1, <1>6, <1>9, <1>10
<1>14. pidinfo[me].owner = p /\ ~pidinfo[me].exited /\ pidinfo[me].pid = p_pid[p]
  BY <1>1, <1>2
<1> WITNESS me \in Occupied
<1> QED
  BY <1>1, <1>5, <1>11, <1>12, <1>13, <1>14

\* The end of pid_wait, for a child that has exited.
LEMMA CollectFacts ==
  ASSUME TreeInv, NEW p \in Procs,
         \/ WaitResume(p)
         \/ \E pid \in WaitPids, flags \in {"0", "WNOHANG", "bad"} : WaitExited(p, pid, flags)
  PROVE  \E k \in Occupied :
           /\ pidinfo[k].exited /\ pidinfo[k].ppid = p_pid[p] /\ pidinfo[k].ppid # INVALID_PID
           /\ ret'.by = p /\ ret'.child = pidinfo[k].owner
           /\ ret'.status \in {pidinfo[k].status, NULL}
           /\ "status" \in DOMAIN ret'
           /\ Occupied' = Occupied \ {k}
           /\ \A i \in Occupied' : pidinfo'[i] = pidinfo[i]
           /\ p_pid' = p_pid
           /\ \A q \in Procs : pstate'[q] = "new" <=> pstate[q] = "new"
<1>inv. TableInv
  BY DEF TreeInv
<1>1. \E pid \in Pids \cup {KERNEL_PID} :
        /\ pi_get(pid) # NULL /\ pi_get(pid).exited /\ pi_get(pid).ppid = p_pid[p]
        /\ Collect(p, pid) /\ pstate[p] \in {"run", "menu", "woken"}
  <2>1. CASE WaitResume(p)
    <3>1. /\ pstate[p] = "woken" /\ pi_get(them[p]) # NULL /\ pi_get(them[p]).exited
          /\ pi_get(them[p]).ppid = p_pid[p]
      BY <1>inv, <2>1 DEF WaitResume, TableInv, WaiterHasChild
    <3>2. them[p] \in Pids \cup {KERNEL_PID}
      <4>1. ASSUME NEW i \in Occupied PROVE pidinfo[i].pid # INVALID_PID
        BY <1>inv, PidsNat DEF TableInv, TypeOK, Occupied, PidInfo
      <4>2. pi_get(INVALID_PID) = NULL
        BY <4>1, SlotType, PidsNat DEF pi_get, Occupied
      <4> QED
        BY <1>inv, <3>1, <4>2 DEF TableInv, TypeOK
    <3>3. Collect(p, them[p])
      BY <2>1, <3>1 DEF WaitResume
    <3> QED
      BY <3>1, <3>2, <3>3
  <2>2. ASSUME NEW pid \in WaitPids, NEW flags \in {"0", "WNOHANG", "bad"},
               WaitExited(p, pid, flags)
        PROVE  /\ pid \in Pids \cup {KERNEL_PID}
               /\ pi_get(pid) # NULL /\ pi_get(pid).exited /\ pi_get(pid).ppid = p_pid[p]
               /\ Collect(p, pid) /\ pstate[p] \in {"run", "menu", "woken"}
    BY <2>2 DEF WaitExited, WaitError, WaitPids, INVALID_PID, CallsWait
  <2> QED
    BY <2>1, <2>2
<1>2. PICK pid \in Pids \cup {KERNEL_PID} :
        /\ pi_get(pid) # NULL /\ pi_get(pid).exited /\ pi_get(pid).ppid = p_pid[p]
        /\ Collect(p, pid) /\ pstate[p] \in {"run", "menu", "woken"}
  BY <1>1
<1>3. pi_drop(pid)
  BY <1>2 DEF Collect
<1>4. PICK k \in Occupied : k = Slot(pid) /\ pidinfo[k] = pi_get(pid)
  BY <1>inv, <1>2, <1>3, DropFacts
<1>5. /\ Occupied' = Occupied \ {k}
      /\ \A i \in Occupied' : pidinfo'[i] = pidinfo[i]
  BY <1>inv, <1>2, <1>3, <1>4, DropFacts
<1>6. \E n, st : /\ ret' = [op |-> "wait", by |-> p, pid |-> n, child |-> pidinfo[k].owner,
                            status |-> st]
                /\ st \in {pidinfo[k].status, NULL}
  BY <1>2, <1>4 DEF Collect, Answers
<1>7. /\ ret'.by = p /\ ret'.child = pidinfo[k].owner
      /\ ret'.status \in {pidinfo[k].status, NULL}
      /\ "status" \in DOMAIN ret'
  BY <1>6
<1>8. pidinfo[k].ppid # INVALID_PID
  BY <1>inv, <1>2, <1>4 DEF TableInv, NoLeakedEntry
<1>9. p_pid' = p_pid /\ pstate' = [pstate EXCEPT ![p] = "run"]
  BY <1>2 DEF Collect
<1>10. \A q \in Procs : pstate'[q] = "new" <=> pstate[q] = "new"
  BY <1>inv, <1>2, <1>9 DEF TableInv, TypeOK
<1> QED
  BY <1>2, <1>4, <1>5, <1>7, <1>8, <1>9, <1>10

\* pid_alloc: a new entry, of a process that had none.
LEMMA AllocFacts ==
  ASSUME TreeInv, NEW p \in Procs, NEW c \in Procs, Alloc(p, c)
  PROVE  \E n \in Slots :
           /\ n \notin Occupied /\ Occupied' = Occupied \cup {n}
           /\ \A i \in Occupied : pidinfo'[i] = pidinfo[i] /\ pidinfo[i].owner # c
           /\ pidinfo'[n].owner = c
           /\ p_pid[c] = INVALID_PID /\ pstate[c] = "free" /\ pstate'[c] = "new"
           /\ \A q \in Procs \ {c} : /\ p_pid'[q] = p_pid[q]
                                     /\ pstate'[q] = "new" <=> pstate[q] = "new"
           /\ ret' = NoRet
<1> USE ProcsAssumption, NullAssumption, PidsNat
<1>inv. TableInv
  BY DEF TreeInv
<1>1. PICK k \in 0..(PID_MAX - PID_MIN) :
        /\ Skips(k)
        /\ pidinfo' = [pidinfo EXCEPT ![Slot(Candidate(k))] =
                         [pid |-> Candidate(k), ppid |-> p_pid[p], exited |-> FALSE,
                          status |-> NoStatus, owner |-> c]]
        /\ p_pid' = [p_pid EXCEPT ![c] = Candidate(k)]
  BY DEF Alloc
<1>2. k \in Nat /\ nextpid \in Pids
  BY <1>inv, <1>1, LimitsAssumption DEF TableInv, TypeOK
<1>3. PICK pid \in Pids : pid = Candidate(k)
  BY <1>2, CandidateType
<1>4. PICK n \in Slots : n = Slot(pid)
  BY <1>3, SlotType
<1>5. PICK new : new = [pid |-> pid, ppid |-> p_pid[p], exited |-> FALSE,
                        status |-> NoStatus, owner |-> c]
  OBVIOUS
<1>6. /\ p # c /\ pstate[c] = "free" /\ p_pid[c] = INVALID_PID
      /\ p_pid[p] \in Pids \cup {KERNEL_PID}
      /\ pstate' = [pstate EXCEPT ![p] = "fork", ![c] = "new"]
      /\ pstate[p] = "run" /\ ret' = NoRet
      /\ \A i \in Occupied : pidinfo[i].owner # c
  BY <1>inv DEF Alloc, Unused, TableInv, TypeOK, PidState
<1>7. new # NULL /\ new.owner = c
  <2>1. new \in PidInfo
    BY <1>5, <1>6 DEF PidInfo
  <2> QED
    BY <2>1, <1>5
<1>8. pidinfo[n] = NULL /\ pidinfo' = [pidinfo EXCEPT ![n] = new]
  BY <1>1, <1>3, <1>4, <1>5 DEF Skips
<1>9. /\ n \notin Occupied /\ Occupied' = Occupied \cup {n}
      /\ \A i \in Occupied : pidinfo'[i] = pidinfo[i]
      /\ pidinfo'[n] = new
  BY <1>inv, <1>4, <1>7, <1>8 DEF Occupied, TableInv, TypeOK
<1>10. /\ pstate'[c] = "new"
       /\ \A q \in Procs \ {c} : /\ p_pid'[q] = p_pid[q]
                                 /\ pstate'[q] = "new" <=> pstate[q] = "new"
  BY <1>inv, <1>1, <1>6 DEF TableInv, TypeOK
<1> WITNESS n \in Slots
<1> QED
  BY <1>6, <1>7, <1>9, <1>10

\* A call of fork ends with a child that may run.
LEMMA StartFacts ==
  ASSUME TreeInv, NEW p \in Procs, ForkDone(p) \/ (p = KProc /\ MenuFork)
  PROVE  \E c \in Procs, me \in Occupied, i \in Occupied :
           /\ pidinfo[me].owner = p /\ ~pidinfo[me].exited /\ pstate[p] = "fork"
           /\ pidinfo[i].owner = c /\ ~pidinfo[i].exited
           /\ pidinfo[i].ppid = p_pid[p] /\ p_pid[p] # INVALID_PID
           /\ pstate[c] = "new" /\ pstate'[c] = "run"
           /\ \A q \in Procs \ {c} : pstate'[q] = "new" <=> pstate[q] = "new"
           /\ pidinfo' = pidinfo /\ p_pid' = p_pid
           /\ "status" \notin DOMAIN ret'
<1> USE ProcsAssumption, NullAssumption, PidsNat
<1>inv. TableInv
  BY DEF TreeInv
<1>1. pstate[p] = "fork"
  BY DEF ForkDone, MenuFork
<1>2. PICK c \in Procs : /\ c = newproc[p] /\ pstate[c] = "new"
                         /\ pi_get(p_pid[c]).ppid = p_pid[p]
  BY <1>inv, <1>1 DEF TableInv, ForkOK
<1>3. PICK x \in Pids \cup {KERNEL_PID} : /\ x = p_pid[p] /\ pi_get(x) # NULL
                                          /\ pi_get(x).owner = p /\ ~pi_get(x).exited
  BY <1>inv, <1>1, HasEntry
<1>4. PICK y \in Pids \cup {KERNEL_PID} : /\ y = p_pid[c] /\ pi_get(y) # NULL
                                          /\ pi_get(y).owner = c /\ ~pi_get(y).exited
  BY <1>inv, <1>2, HasEntry
<1>5. PICK me \in Occupied : pidinfo[me] = pi_get(x)
  BY <1>3, SlotType DEF pi_get, Occupied
<1>6. PICK i \in Occupied : pidinfo[i] = pi_get(y)
  BY <1>4, SlotType DEF pi_get, Occupied
<1>7. /\ pidinfo' = pidinfo /\ p_pid' = p_pid
      /\ \/ pstate' = [pstate EXCEPT ![p] = "run", ![c] = "run"]
         \/ pstate' = [pstate EXCEPT ![p] = "menu", ![c] = "run"]
  BY <1>2 DEF ForkDone, MenuFork
<1>8. "status" \notin DOMAIN ret'
  <2>1. CASE ForkDone(p)
    <3>1. ret' = [op |-> "fork", by |-> p, pid |-> p_pid[c]]
      BY <2>1, <1>2 DEF ForkDone
    <3> QED
      BY <3>1
  <2>2. CASE MenuFork
    <3>1. ret' = [op |-> "none"]
      BY <2>2 DEF MenuFork, NoRet
    <3> QED
      BY <3>1
  <2> QED
    BY <2>1, <2>2
<1>9. /\ pstate'[c] = "run"
      /\ \A q \in Procs \ {c} : pstate'[q] = "new" <=> pstate[q] = "new"
  BY <1>inv, <1>1, <1>2, <1>7 DEF TableInv, TypeOK
<1> WITNESS c \in Procs, me \in Occupied, i \in Occupied
<1> QED
  BY <1>1, <1>2, <1>3, <1>4, <1>5, <1>6, <1>7, <1>8, <1>9

\* fork gives up: the entry of the child that never ran is freed.
LEMMA UndoFacts ==
  ASSUME TreeInv, NEW p \in Procs, ForkUndo(p), panic' = panic, panic = "none"
  PROVE  \E c \in Procs, k \in Occupied :
           /\ pidinfo[k].owner = c /\ pstate[c] = "new" /\ pstate'[c] = "free"
           /\ Occupied' = Occupied \ {k}
           /\ \A i \in Occupied' : pidinfo'[i] = pidinfo[i]
           /\ \A i \in Occupied : pidinfo[i].ppid # p_pid[c]
           /\ \A q \in Procs \ {c} : /\ p_pid'[q] = p_pid[q]
                                     /\ pstate'[q] = "new" <=> pstate[q] = "new"
           /\ "status" \notin DOMAIN ret'
<1> USE ProcsAssumption, NullAssumption, PidsNat
<1>inv. TableInv
  BY DEF TreeInv
<1>1. pstate[p] = "fork"
  BY DEF ForkUndo
<1>2. PICK c \in Procs : c = newproc[p] /\ pstate[c] = "new"
  BY <1>inv, <1>1 DEF TableInv, ForkOK
<1>3. PICK y \in Pids \cup {KERNEL_PID} : /\ y = p_pid[c] /\ pi_get(y) # NULL
                                          /\ pi_get(y).owner = c
  BY <1>inv, <1>2, HasEntry
<1>4. /\ pi_drop(y)
      /\ p_pid' = [p_pid EXCEPT ![c] = INVALID_PID]
      /\ pstate' = [pstate EXCEPT ![p] = "run", ![c] = "free"]
      /\ ret' = [op |-> "fork", by |-> p, err |-> "ENOMEM"]
  BY <1>2, <1>3 DEF ForkUndo, Panic
<1>5. PICK k \in Occupied : k = Slot(y) /\ pidinfo[k] = pi_get(y)
  BY <1>inv, <1>3, <1>4, DropFacts
<1>6. /\ Occupied' = Occupied \ {k}
      /\ \A i \in Occupied' : pidinfo'[i] = pidinfo[i]
  BY <1>inv, <1>3, <1>4, <1>5, DropFacts
<1>7. "status" \notin DOMAIN ret'
  BY <1>4
<1>8. \A i \in Occupied : pidinfo[i].ppid # p_pid[c]
  BY <1>inv, <1>2 DEF TableInv, NewOK
<1>9. /\ pstate'[c] = "free"
      /\ \A q \in Procs \ {c} : /\ p_pid'[q] = p_pid[q]
                                /\ pstate'[q] = "new" <=> pstate[q] = "new"
  BY <1>inv, <1>1, <1>2, <1>4 DEF TableInv, TypeOK
<1> WITNESS c \in Procs, k \in Occupied
<1> QED
  BY <1>2, <1>3, <1>5, <1>6, <1>7, <1>8, <1>9

\* The steps that leave the table alone, failed KASSERTs among them.
LEMMA QuietFacts ==
  ASSUME TreeInv, panic = "none", NEW p \in Procs,
         \/ AllocAgain(p) \/ AllocNoMem(p) \/ Destroy(p) \/ MenuForkFail \/ Returns(p)
         \/ ForkUndo(p) /\ panic' # panic
         \/ \E pid \in WaitPids :
              \/ WaitSleep(p, pid) \/ WaitNoHang(p, pid)
              \/ \E flags \in {"0", "WNOHANG", "bad"} : WaitFails(p, pid, flags)
  PROVE  /\ pidinfo' = pidinfo /\ p_pid' = p_pid
         /\ \A q \in Procs : pstate'[q] = "new" <=> pstate[q] = "new"
         /\ "status" \notin DOMAIN ret' \/ ret' = ret
<1> USE ProcsAssumption, NullAssumption, PidsNat
<1>inv. TableInv /\ pstate \in [Procs -> States]
  BY DEF TreeInv, TableInv, TypeOK
<1> DEFINE Quiet == /\ pidinfo' = pidinfo /\ p_pid' = p_pid
                    /\ \A q \in Procs : pstate'[q] = "new" <=> pstate[q] = "new"
                    /\ "status" \notin DOMAIN ret' \/ ret' = ret
<1>1. ASSUME AllocAgain(p) PROVE Quiet
  <2>1. ret' = [op |-> "fork", by |-> p, err |-> "EAGAIN"]
    BY <1>1 DEF AllocAgain
  <2>2. "status" \notin DOMAIN ret'
    BY <2>1
  <2> QED
    BY <2>2, <1>1 DEF AllocAgain
<1>2. ASSUME AllocNoMem(p) PROVE Quiet
  <2>1. ret' = [op |-> "fork", by |-> p, err |-> "ENOMEM"]
    BY <1>2 DEF AllocNoMem
  <2>2. "status" \notin DOMAIN ret'
    BY <2>1
  <2> QED
    BY <2>2, <1>2 DEF AllocNoMem
<1>3. ASSUME Destroy(p) PROVE Quiet
  <2>1. CASE p_pid[p] # INVALID_PID
    BY <1>3, <2>1 DEF Destroy, Panic
  <2>2. CASE p_pid[p] = INVALID_PID
    <3>1. /\ pstate[p] = "dying" /\ pstate' = [pstate EXCEPT ![p] = "free"]
          /\ ret' = [op |-> "none"] /\ pidinfo' = pidinfo /\ p_pid' = p_pid
      BY <1>3, <2>2 DEF Destroy, NoRet
    <3>2. "status" \notin DOMAIN ret'
      BY <3>1
    <3> QED
      BY <1>inv, <3>1, <3>2
  <2> QED
    BY <2>1, <2>2
<1>4. ASSUME MenuForkFail PROVE Quiet
  <2>1. pstate[KProc] = "fork"
    BY <1>4 DEF MenuForkFail
  <2>2. pstate[newproc[KProc]] = "new" /\ newproc[KProc] \in Procs
    BY <1>inv, <2>1 DEF TableInv, ForkOK
  <2>3. p_pid[newproc[KProc]] # INVALID_PID
    BY <1>inv, <2>2 DEF TableInv, PidState
  <2> QED
    BY <1>4, <2>3 DEF MenuForkFail, Panic
<1>5. ASSUME ForkUndo(p), panic' # panic PROVE Quiet
  BY <1>5 DEF ForkUndo, Panic
<1>6. ASSUME NEW pid \in WaitPids, WaitSleep(p, pid) PROVE Quiet
  <2>1. /\ pstate' = [pstate EXCEPT ![p] = "wait"] /\ pstate[p] \in {"run", "menu"}
        /\ ret' = [op |-> "none"] /\ pidinfo' = pidinfo /\ p_pid' = p_pid
    BY <1>6 DEF WaitSleep, CallsWait, NoRet
  <2>2. "status" \notin DOMAIN ret'
    BY <2>1
  <2> QED
    BY <1>inv, <2>1, <2>2
<1>7. ASSUME NEW pid \in WaitPids, WaitNoHang(p, pid) PROVE Quiet
  <2>1. \/ ret' = [op |-> "wait", by |-> p, pid |-> INVALID_PID]
        \/ ret' = [op |-> "wait", by |-> p, err |-> "EFAULT"]
    BY <1>7 DEF WaitNoHang
  <2>2. "status" \notin DOMAIN ret'
    BY <2>1
  <2> QED
    BY <2>2, <1>7 DEF WaitNoHang
<1>8. ASSUME NEW pid \in WaitPids, NEW flags \in {"0", "WNOHANG", "bad"},
             WaitFails(p, pid, flags)
      PROVE  Quiet
  <2>1. /\ pstate' = [pstate EXCEPT ![p] = "run"] /\ pstate[p] \in {"run", "menu"}
        /\ ret' = [op |-> "wait", by |-> p, err |-> WaitError(p, pid, flags)]
        /\ pidinfo' = pidinfo /\ p_pid' = p_pid
    BY <1>8 DEF WaitFails, CallsWait
  <2>2. "status" \notin DOMAIN ret'
    BY <2>1
  <2> QED
    BY <1>inv, <2>1, <2>2
<1>9. ASSUME Returns(p) PROVE Quiet
  <2>1. ret' = [op |-> "none"]
    BY <1>9 DEF Returns, NoRet
  <2>2. "status" \notin DOMAIN ret'
    BY <2>1
  <2> QED
    BY <2>2, <1>9 DEF Returns
<1> QED
  BY <1>1, <1>2, <1>3, <1>4, <1>5, <1>6, <1>7, <1>8, <1>9

LEMMA OneEntryKept ==
  ASSUME OneEntry, Occupied' \subseteq Occupied,
         \A i \in Occupied' : pidinfo'[i].owner = pidinfo[i].owner
  PROVE  OneEntry'
BY DEF OneEntry

\* The cases of a step, as the lemmas above tell them.
LEMMA StepCases ==
  ASSUME TreeInv, Next
  PROVE  \/ \E p, c \in Procs : Alloc(p, c)
         \/ \E p \in Procs : ForkDone(p) \/ (p = KProc /\ MenuFork)
         \/ \E p \in Procs : ForkUndo(p) /\ panic' = panic
         \/ \E p \in Procs, st \in Statuses : Exit(p, st)
         \/ \E p \in Procs : \/ WaitResume(p)
                             \/ \E pid \in WaitPids, flags \in {"0", "WNOHANG", "bad"} :
                                  WaitExited(p, pid, flags)
         \/ \E p \in Procs :
              \/ AllocAgain(p) \/ AllocNoMem(p) \/ Destroy(p) \/ MenuForkFail \/ Returns(p)
              \/ ForkUndo(p) /\ panic' # panic
              \/ \E pid \in WaitPids :
                   \/ WaitSleep(p, pid) \/ WaitNoHang(p, pid)
                   \/ \E flags \in {"0", "WNOHANG", "bad"} : WaitFails(p, pid, flags)
<1>1. CASE MenuFork \/ MenuForkFail
  BY <1>1, ProcsAssumption
<1>2. ASSUME NEW p \in Procs, Step(p)
      PROVE  \/ \E c \in Procs : Alloc(p, c)
             \/ ForkDone(p)
             \/ ForkUndo(p) /\ panic' = panic
             \/ \E st \in Statuses : Exit(p, st)
             \/ WaitResume(p)
             \/ \E pid \in WaitPids, flags \in {"0", "WNOHANG", "bad"} :
                  WaitExited(p, pid, flags)
             \/ AllocAgain(p) \/ AllocNoMem(p) \/ Destroy(p) \/ Returns(p)
             \/ ForkUndo(p) /\ panic' # panic
             \/ \E pid \in WaitPids :
                  \/ WaitSleep(p, pid) \/ WaitNoHang(p, pid)
                  \/ \E flags \in {"0", "WNOHANG", "bad"} : WaitFails(p, pid, flags)
  BY <1>2 DEF Step
<1> QED
  BY <1>1, <1>2 DEF Next

LEMMA NextTree ==
  ASSUME TreeInv, [Next]_vars
  PROVE  TreeInv'
<1>1. TableInv'
  BY NextTable DEF TreeInv
<1>2. OneEntry'
  <2>1. CASE UNCHANGED vars
    BY <2>1, OneEntryKept DEF TreeInv, vars, Occupied
  <2>2. ASSUME NEW p \in Procs, NEW c \in Procs, Alloc(p, c) PROVE OneEntry'
    <3>1. PICK n \in Slots :
            /\ n \notin Occupied /\ Occupied' = Occupied \cup {n}
            /\ \A i \in Occupied : pidinfo'[i] = pidinfo[i] /\ pidinfo[i].owner # c
            /\ pidinfo'[n].owner = c
      BY <2>2, AllocFacts
    <3> QED
      BY <3>1 DEF TreeInv, OneEntry
  <2>3. ASSUME NEW p \in Procs, ForkDone(p) \/ (p = KProc /\ MenuFork) PROVE OneEntry'
    <3>1. pidinfo' = pidinfo
      BY <2>3 DEF ForkDone, MenuFork
    <3> QED
      BY <3>1, OneEntryKept DEF TreeInv, Occupied
  <2>4. ASSUME NEW p \in Procs, ForkUndo(p), panic' = panic, panic = "none" PROVE OneEntry'
    <3>1. Occupied' \subseteq Occupied /\ \A i \in Occupied' : pidinfo'[i] = pidinfo[i]
      BY <2>4, UndoFacts
    <3> QED
      BY <3>1, OneEntryKept DEF TreeInv
  <2>5. ASSUME NEW p \in Procs, NEW st \in Statuses, Exit(p, st) PROVE OneEntry'
    <3>1. /\ Occupied' \subseteq Occupied
          /\ \A i \in Occupied' : pidinfo'[i].owner = pidinfo[i].owner
      <4>1. CASE pidinfo' = pidinfo
        BY <4>1 DEF Occupied
      <4>2. CASE pidinfo' # pidinfo
        BY <2>5, <4>2, ExitFacts
      <4> QED
        BY <4>1, <4>2
    <3> QED
      BY <3>1, OneEntryKept DEF TreeInv
  <2>6. ASSUME NEW p \in Procs,
               \/ WaitResume(p)
               \/ \E pid \in WaitPids, flags \in {"0", "WNOHANG", "bad"} :
                    WaitExited(p, pid, flags)
        PROVE  OneEntry'
    <3>1. Occupied' \subseteq Occupied /\ \A i \in Occupied' : pidinfo'[i] = pidinfo[i]
      BY <2>6, CollectFacts
    <3> QED
      BY <3>1, OneEntryKept DEF TreeInv
  <2>7. ASSUME pidinfo' = pidinfo PROVE OneEntry'
    BY <2>7, OneEntryKept DEF TreeInv, Occupied
  <2>8. CASE Next
    <3>1. panic = "none"
      BY <2>8 DEF Next
    <3> QED
      BY <3>1, <2>2, <2>3, <2>4, <2>5, <2>6, <2>7, <2>8, StepCases, QuietFacts
  <2> QED
    BY <2>1, <2>8
<1> QED
  BY <1>1, <1>2 DEF TreeInv

-----------------------------------------------------------------------------
(* The steps of the table as steps of the tree.                            *)

LEMMA SameMap ==
  ASSUME \A p \in Procs : MLife'[p] = MLife[p] /\ MParent'[p] = MParent[p] /\ MStatus'[p] = MStatus[p]
  PROVE  MLife' = MLife /\ MParent' = MParent /\ MStatus' = MStatus
BY MapIs

LEMMA NothingHanded == "status" \notin DOMAIN ret' => MCollected' = NULL
BY DEF MCollected

LEMMA RefinesQuiet ==
  ASSUME Shown, Shown', pidinfo' = pidinfo, p_pid' = p_pid,
         \A q \in Procs : pstate'[q] = "new" <=> pstate[q] = "new",
         "status" \notin DOMAIN ret' \/ ret' = ret
  PROVE  [Abstract!ANext]_Abstract!avars
<1>1. ASSUME NEW p \in Procs
      PROVE  MLife'[p] = MLife[p] /\ MParent'[p] = MParent[p] /\ MStatus'[p] = MStatus[p]
  <2>1. Occupied' = Occupied
    BY DEF Occupied
  <2> QED
    BY <2>1, ShownKept
<1>2. MLife' = MLife /\ MParent' = MParent /\ MStatus' = MStatus
  BY <1>1, SameMap
<1>3. CASE "status" \notin DOMAIN ret'
  BY <1>2, <1>3, NothingHanded DEF Abstract!ANext, Abstract!AOther
<1>4. CASE ret' = ret
  BY <1>2, <1>4 DEF MCollected, Abstract!avars
<1> QED
  BY <1>3, <1>4

LEMMA RefinesAlloc ==
  ASSUME TreeInv, Shown, Shown', NEW p \in Procs, NEW c \in Procs, Alloc(p, c)
  PROVE  Abstract!ANext
<1>1. PICK n \in Slots :
           /\ n \notin Occupied /\ Occupied' = Occupied \cup {n}
           /\ \A i \in Occupied : pidinfo'[i] = pidinfo[i] /\ pidinfo[i].owner # c
           /\ pidinfo'[n].owner = c
           /\ p_pid[c] = INVALID_PID /\ pstate[c] = "free" /\ pstate'[c] = "new"
           /\ \A q \in Procs \ {c} : /\ p_pid'[q] = p_pid[q]
                                     /\ pstate'[q] = "new" <=> pstate[q] = "new"
           /\ ret' = NoRet
  BY AllocFacts
<1>2. ASSUME NEW q \in Procs
      PROVE  MLife'[q] = MLife[q] /\ MParent'[q] = MParent[q] /\ MStatus'[q] = MStatus[q]
  <2>1. CASE q = c
    <3>1. MLife[c] = "none" /\ MParent[c] = NULL /\ MStatus[c] = NULL
      BY <1>1 DEF Shown
    <3>2. MLife'[c] = "none" /\ MParent'[c] = NULL /\ MStatus'[c] = NULL
      BY <1>1 DEF Shown
    <3> QED
      BY <2>1, <3>1, <3>2
  <2>2. CASE q # c
    <3>1. \A i : i \in Occupied /\ pidinfo[i].owner = q
                   <=> i \in Occupied' /\ pidinfo'[i].owner = q
      BY <1>1, <2>2
    <3>2. \A i \in Occupied, r \in Procs :
            pidinfo[i].ppid # INVALID_PID /\ p_pid[r] = pidinfo[i].ppid => p_pid'[r] = p_pid[r]
      BY <1>1
    <3> QED
      BY <1>1, <2>2, <3>1, <3>2, ShownKept
  <2> QED
    BY <2>1, <2>2
<1>3. "status" \notin DOMAIN ret'
  BY <1>1 DEF NoRet
<1> QED
  BY <1>2, <1>3, SameMap, NothingHanded DEF Abstract!ANext, Abstract!AOther

LEMMA RefinesUndo ==
  ASSUME TreeInv, Shown, Shown', NEW p \in Procs, ForkUndo(p), panic' = panic, panic = "none"
  PROVE  Abstract!ANext
<1>1. PICK c \in Procs, k \in Occupied :
           /\ pidinfo[k].owner = c /\ pstate[c] = "new" /\ pstate'[c] = "free"
           /\ Occupied' = Occupied \ {k}
           /\ \A i \in Occupied' : pidinfo'[i] = pidinfo[i]
           /\ \A i \in Occupied : pidinfo[i].ppid # p_pid[c]
           /\ \A q \in Procs \ {c} : /\ p_pid'[q] = p_pid[q]
                                     /\ pstate'[q] = "new" <=> pstate[q] = "new"
           /\ "status" \notin DOMAIN ret'
  BY UndoFacts
<1>2. ASSUME NEW q \in Procs
      PROVE  MLife'[q] = MLife[q] /\ MParent'[q] = MParent[q] /\ MStatus'[q] = MStatus[q]
  <2>1. CASE q = c
    <3>1. MLife[c] = "none" /\ MParent[c] = NULL /\ MStatus[c] = NULL
      BY <1>1 DEF Shown
    <3>2. \A i \in Occupied' : pidinfo'[i].owner # c
      BY <1>1 DEF TreeInv, OneEntry
    <3>3. MLife'[c] = "none" /\ MParent'[c] = NULL /\ MStatus'[c] = NULL
      BY <3>2 DEF Shown
    <3> QED
      BY <2>1, <3>1, <3>3
  <2>2. CASE q # c
    <3>1. /\ \A i : i \in Occupied /\ pidinfo[i].owner = q
                      <=> i \in Occupied' /\ pidinfo'[i].owner = q
          /\ \A i \in Occupied : pidinfo[i].owner = q => pidinfo'[i] = pidinfo[i]
      BY <1>1, <2>2
    <3>2. \A i \in Occupied, r \in Procs :
            pidinfo[i].ppid # INVALID_PID /\ p_pid[r] = pidinfo[i].ppid => p_pid'[r] = p_pid[r]
      BY <1>1
    <3> QED
      BY <1>1, <2>2, <3>1, <3>2, ShownKept
  <2> QED
    BY <2>1, <2>2
<1> QED
  BY <1>1, <1>2, SameMap, NothingHanded DEF Abstract!ANext, Abstract!AOther

LEMMA RefinesStart ==
  ASSUME TreeInv, Shown, Shown', NEW p \in Procs, ForkDone(p) \/ (p = KProc /\ MenuFork)
  PROVE  Abstract!ANext
<1>1. PICK c \in Procs, me \in Occupied, i \in Occupied :
           /\ pidinfo[me].owner = p /\ ~pidinfo[me].exited /\ pstate[p] = "fork"
           /\ pidinfo[i].owner = c /\ ~pidinfo[i].exited
           /\ pidinfo[i].ppid = p_pid[p] /\ p_pid[p] # INVALID_PID
           /\ pstate[c] = "new" /\ pstate'[c] = "run"
           /\ \A q \in Procs \ {c} : pstate'[q] = "new" <=> pstate[q] = "new"
           /\ pidinfo' = pidinfo /\ p_pid' = p_pid
           /\ "status" \notin DOMAIN ret'
  BY StartFacts
<1>2. MLife[p] = "alive"
  BY <1>1 DEF Shown
<1>3. MLife[c] = "none" /\ MStatus[c] = NULL
  BY <1>1 DEF Shown
<1>4. Occupied' = Occupied
  BY <1>1 DEF Occupied
<1>5. MLife'[c] = "alive" /\ MParent'[c] = p /\ MStatus'[c] = NULL
  BY <1>1, <1>4 DEF Shown
<1>6. ASSUME NEW q \in Procs \ {c}
      PROVE  MLife'[q] = MLife[q] /\ MParent'[q] = MParent[q] /\ MStatus'[q] = MStatus[q]
  BY <1>1, <1>4, ShownKept
<1>7. MLife' = [MLife EXCEPT ![c] = "alive"] /\ MParent' = [MParent EXCEPT ![c] = p]
  BY <1>5, <1>6, MapIs
<1>8. MStatus' = MStatus
  BY <1>3, <1>5, <1>6, MapIs
<1>9. MCollected' = NULL
  BY <1>1, NothingHanded
<1>10. Abstract!AFork(p, c)
  BY <1>2, <1>3, <1>7, <1>8, <1>9 DEF Abstract!AFork
<1> QED
  BY <1>10 DEF Abstract!ANext

LEMMA RefinesCollect ==
  ASSUME TreeInv, Shown, Shown', NEW p \in Procs,
         \/ WaitResume(p)
         \/ \E pid \in WaitPids, flags \in {"0", "WNOHANG", "bad"} : WaitExited(p, pid, flags)
  PROVE  Abstract!ANext
<1> USE PidsNat
<1>1. PICK k \in Occupied :
           /\ pidinfo[k].exited /\ pidinfo[k].ppid = p_pid[p] /\ pidinfo[k].ppid # INVALID_PID
           /\ ret'.by = p /\ ret'.child = pidinfo[k].owner
           /\ ret'.status \in {pidinfo[k].status, NULL}
           /\ "status" \in DOMAIN ret'
           /\ Occupied' = Occupied \ {k}
           /\ \A i \in Occupied' : pidinfo'[i] = pidinfo[i]
           /\ p_pid' = p_pid
           /\ \A q \in Procs : pstate'[q] = "new" <=> pstate[q] = "new"
  BY CollectFacts
<1>2. PICK c \in Procs : c = pidinfo[k].owner /\ pstate[c] # "new"
  BY <1>1, ExitedOwner
<1>3. MLife[c] = "zombie" /\ MParent[c] = p /\ MStatus[c] = pidinfo[k].status
  BY <1>1, <1>2 DEF Shown
<1>4. \E s \in {MStatus[c], NULL} : MCollected' = [by |-> p, child |-> c, status |-> s]
  BY <1>1, <1>2, <1>3 DEF MCollected
<1>5. MLife'[c] = "none" /\ MParent'[c] = NULL /\ MStatus'[c] = NULL
  <2>1. \A i \in Occupied' : pidinfo'[i].owner # c
    BY <1>1, <1>2 DEF TreeInv, OneEntry
  <2> QED
    BY <2>1 DEF Shown
<1>6. ASSUME NEW q \in Procs \ {c}
      PROVE  MLife'[q] = MLife[q] /\ MParent'[q] = MParent[q] /\ MStatus'[q] = MStatus[q]
  <2>1. /\ \A i : i \in Occupied /\ pidinfo[i].owner = q
                    <=> i \in Occupied' /\ pidinfo'[i].owner = q
        /\ \A i \in Occupied : pidinfo[i].owner = q => pidinfo'[i] = pidinfo[i]
    BY <1>1, <1>2
  <2> QED
    BY <1>1, <2>1, ShownKept
<1>7. /\ MLife' = [MLife EXCEPT ![c] = "none"] /\ MParent' = [MParent EXCEPT ![c] = NULL]
      /\ MStatus' = [MStatus EXCEPT ![c] = NULL]
  BY <1>5, <1>6, MapIs
<1>8. Abstract!ACollect(p, c)
  BY <1>3, <1>4, <1>7 DEF Abstract!ACollect
<1> QED
  BY <1>8 DEF Abstract!ANext

\* A process forgotten, kept as a zombie, orphaned or left alone by proc_exit.
LEMMA RefinesExit ==
  ASSUME TreeInv, Shown, Shown', NEW p \in Procs, NEW st \in Statuses, Exit(p, st)
  PROVE  Abstract!ANext
<1> USE PidsNat, ProcsAssumption
<1>1. PICK me \in Occupied :
           /\ pstate[p] = "run" /\ p # KProc /\ p_pid[p] # INVALID_PID
           /\ pidinfo[me].owner = p /\ ~pidinfo[me].exited /\ pidinfo[me].pid = p_pid[p]
           /\ \A i : i \in Occupied' <=>
                /\ i \in Occupied
                /\ ~(pidinfo[i].ppid = p_pid[p] /\ pidinfo[i].exited)
                /\ ~(i = me /\ pidinfo[i].ppid = INVALID_PID)
           /\ \A i \in Occupied' :
                /\ pidinfo'[i].owner = pidinfo[i].owner
                /\ pidinfo'[i].ppid = IF pidinfo[i].ppid = p_pid[p] THEN INVALID_PID
                                      ELSE pidinfo[i].ppid
                /\ pidinfo'[i].exited <=> pidinfo[i].exited \/ i = me
                /\ pidinfo'[i].status = IF i = me THEN st ELSE pidinfo[i].status
           /\ \A q \in Procs : /\ p_pid'[q] = IF q = p THEN INVALID_PID ELSE p_pid[q]
                               /\ pstate'[q] = "new" <=> pstate[q] = "new"
           /\ ret' = NoRet
  BY ExitFacts
<1> DEFINE gone == {c \in Procs : MLife[c] = "zombie" /\ MParent[c] = p}
                   \cup (IF MParent[p] = NULL THEN {p} ELSE {})
           Life(c) == IF c \in gone THEN "none" ELSE IF c = p THEN "zombie" ELSE MLife[c]
           Status(c) == IF c \in gone THEN NULL ELSE IF c = p THEN st ELSE MStatus[c]
           Parent(c) == IF c \in gone \/ MParent[c] = p THEN NULL ELSE MParent[c]
<1>2. MLife[p] = "alive"
  BY <1>1 DEF Shown
<1>one. TableInv /\ \A i, j \in Occupied : pidinfo[i].owner = pidinfo[j].owner => i = j
  BY DEF TreeInv, OneEntry
<1>3. ASSUME NEW i \in Occupied, NEW c \in Procs, pidinfo[i].owner = c, pstate[c] # "new"
      PROVE  MParent[c] = p <=> pidinfo[i].ppid = p_pid[p]
  <2>1. CASE pidinfo[i].ppid = INVALID_PID
    BY <1>1, <1>3, <2>1 DEF Shown
  <2>2. CASE pidinfo[i].ppid # INVALID_PID
    <3>1. PICK q \in Procs : p_pid[q] = pidinfo[i].ppid
      BY <2>2 DEF Shown
    <3>2. MParent[c] = q
      BY <1>3, <2>2, <3>1 DEF Shown
    <3> QED
      BY <1>one, <1>1, <3>1, <3>2, PidInjective
  <2> QED
    BY <2>1, <2>2
<1>4. pidinfo[me].ppid # p_pid[p]
  BY <1>1, <1>one DEF TableInv, SlotOK
<1>5. ASSUME NEW i \in Occupied', NEW c \in Procs, pidinfo[i].owner = c, pstate[c] # "new"
      PROVE  MParent'[c] = IF pidinfo[i].ppid = p_pid[p] THEN NULL ELSE MParent[c]
  <2>1. i \in Occupied /\ pidinfo'[i].owner = c /\ pstate'[c] # "new"
    BY <1>1, <1>5
  <2>2. CASE pidinfo[i].ppid = p_pid[p]
    <3>1. pidinfo'[i].ppid = INVALID_PID
      BY <1>1, <2>2
    <3> QED
      BY <2>1, <2>2, <3>1 DEF Shown
  <2>3. CASE pidinfo[i].ppid = INVALID_PID
    <3>1. pidinfo'[i].ppid = INVALID_PID
      BY <1>1, <2>3
    <3> QED
      BY <1>5, <2>1, <2>3, <3>1 DEF Shown
  <2>4. CASE pidinfo[i].ppid # p_pid[p] /\ pidinfo[i].ppid # INVALID_PID
    <3>1. PICK q \in Procs : p_pid[q] = pidinfo[i].ppid
      BY <2>1, <2>4 DEF Shown
    <3>2. p_pid'[q] = pidinfo'[i].ppid /\ pidinfo'[i].ppid # INVALID_PID
      BY <1>1, <2>4, <3>1
    <3>3. MParent[c] = q
      BY <1>5, <2>1, <2>4, <3>1 DEF Shown
    <3>4. MParent'[c] = q
      BY <2>1, <3>2 DEF Shown
    <3> QED
      BY <2>4, <3>3, <3>4
  <2> QED
    BY <2>2, <2>3, <2>4
<1>6. ASSUME NEW c \in Procs
      PROVE  MLife'[c] = Life(c) /\ MStatus'[c] = Status(c) /\ MParent'[c] = Parent(c)
  <2>1. CASE pstate[c] = "new" \/ (\A i \in Occupied : pidinfo[i].owner # c)
    <3>1. c # p
      BY <1>1, <2>1
    <3>2. MLife[c] = "none" /\ MParent[c] = NULL /\ MStatus[c] = NULL
      BY <2>1 DEF Shown
    <3>3. pstate'[c] = "new" \/ (\A i \in Occupied' : pidinfo'[i].owner # c)
      BY <1>1, <2>1
    <3>4. MLife'[c] = "none" /\ MParent'[c] = NULL /\ MStatus'[c] = NULL
      BY <3>3 DEF Shown
    <3>5. c \notin gone
      BY <3>1, <3>2
    <3> QED
      BY <3>1, <3>2, <3>4, <3>5
  <2>2. ASSUME NEW i \in Occupied, pidinfo[i].owner = c, pstate[c] # "new", c # p
        PROVE  MLife'[c] = Life(c) /\ MStatus'[c] = Status(c) /\ MParent'[c] = Parent(c)
    <3>1. i # me
      BY <1>1, <2>2
    <3>2. /\ MLife[c] = (IF pidinfo[i].exited THEN "zombie" ELSE "alive")
          /\ MStatus[c] = (IF pidinfo[i].exited THEN pidinfo[i].status ELSE NULL)
      BY <2>2 DEF Shown
    <3>3. MParent[c] = p <=> pidinfo[i].ppid = p_pid[p]
      BY <1>3, <2>2
    <3>4. c \in gone <=> pidinfo[i].exited /\ pidinfo[i].ppid = p_pid[p]
      BY <2>2, <3>2, <3>3
    <3>5. CASE pidinfo[i].exited /\ pidinfo[i].ppid = p_pid[p]
      <4>1. \A j \in Occupied' : pidinfo'[j].owner # c
        BY <1>1, <1>one, <2>2, <3>5
      <4>2. MLife'[c] = "none" /\ MParent'[c] = NULL /\ MStatus'[c] = NULL
        BY <4>1 DEF Shown
      <4> QED
        BY <3>4, <3>5, <4>2
    <3>6. CASE ~(pidinfo[i].exited /\ pidinfo[i].ppid = p_pid[p])
      <4>1. /\ i \in Occupied' /\ pidinfo'[i].owner = c /\ pstate'[c] # "new"
            /\ pidinfo'[i].exited <=> pidinfo[i].exited
            /\ pidinfo'[i].status = pidinfo[i].status
        BY <1>1, <2>2, <3>1, <3>6
      <4>2. MLife'[c] = MLife[c] /\ MStatus'[c] = MStatus[c]
        <5>1. /\ MLife'[c] = (IF pidinfo'[i].exited THEN "zombie" ELSE "alive")
              /\ MStatus'[c] = (IF pidinfo'[i].exited THEN pidinfo'[i].status ELSE NULL)
          BY <4>1 DEF Shown
        <5> QED
          BY <3>2, <4>1, <5>1
      <4>3. MParent'[c] = IF pidinfo[i].ppid = p_pid[p] THEN NULL ELSE MParent[c]
        BY <1>5, <2>2, <4>1
      <4> QED
        BY <2>2, <3>3, <3>4, <3>6, <4>2, <4>3
    <3> QED
      BY <3>5, <3>6
  <2>3. CASE c = p
    <3>1. MParent[p] = NULL <=> pidinfo[me].ppid = INVALID_PID
      <4>1. CASE pidinfo[me].ppid = INVALID_PID
        BY <1>1, <4>1 DEF Shown
      <4>2. CASE pidinfo[me].ppid # INVALID_PID
        <5>1. PICK q \in Procs : p_pid[q] = pidinfo[me].ppid
          BY <4>2 DEF Shown
        <5>2. MParent[p] = q
          BY <1>1, <4>2, <5>1 DEF Shown
        <5> QED
          BY <4>2, <5>2
      <4> QED
        BY <4>1, <4>2
    <3>2. MParent[p] # p
      BY <1>1, <1>3, <1>4
    <3>3. p \in gone <=> pidinfo[me].ppid = INVALID_PID
      BY <1>2, <3>1
    <3>4. CASE pidinfo[me].ppid = INVALID_PID
      <4>1. \A j \in Occupied' : pidinfo'[j].owner # p
        BY <1>1, <1>one, <3>4
      <4>2. MLife'[p] = "none" /\ MParent'[p] = NULL /\ MStatus'[p] = NULL
        BY <4>1 DEF Shown
      <4> QED
        BY <2>3, <3>3, <3>4, <4>2
    <3>5. CASE pidinfo[me].ppid # INVALID_PID
      <4>1. /\ me \in Occupied' /\ pidinfo'[me].owner = p /\ pstate'[p] # "new"
            /\ pidinfo'[me].exited /\ pidinfo'[me].status = st
        BY <1>1, <1>4, <3>5
      <4>2. MLife'[p] = "zombie" /\ MStatus'[p] = st
        BY <4>1 DEF Shown
      <4>3. MParent'[p] = MParent[p]
        BY <1>1, <1>4, <1>5, <4>1
      <4> QED
        BY <2>3, <3>2, <3>3, <3>5, <4>2, <4>3
    <3> QED
      BY <3>4, <3>5
  <2> QED
    BY <2>1, <2>2, <2>3
<1>7. /\ MLife' = [c \in Procs |-> Life(c)] /\ MStatus' = [c \in Procs |-> Status(c)]
      /\ MParent' = [c \in Procs |-> Parent(c)]
  <2> HIDE DEF Life, Status, Parent
  <2> QED
    BY <1>6, MapIs
<1>8. MCollected' = NULL
  <2>1. "status" \notin DOMAIN ret'
    BY <1>1 DEF NoRet
  <2> QED
    BY <2>1, NothingHanded
<1>9. Abstract!AExit(p, st)
  BY <1>1, <1>2, <1>7, <1>8 DEF Abstract!AExit
<1> QED
  BY <1>9 DEF Abstract!ANext

LEMMA RefinesInit ==
  ASSUME Init
  PROVE  TreeInv /\ Abstract!AInit
<1> USE ProcsAssumption, NullAssumption, PidsNat, SlotKernel
<1>1. TableInv
  BY InitTable
<1>2. Occupied = {KERNEL_PID}
  <2>1. pidinfo[KERNEL_PID] # NULL
    <3>1. pi_get(p_pid[KProc]) # NULL /\ p_pid[KProc] = KERNEL_PID
      BY <1>1 DEF Init, TableInv, PidsUnique
    <3> QED
      BY <3>1 DEF pi_get
  <2>2. \A i \in Slots : i # KERNEL_PID => pidinfo[i] = NULL
    BY DEF Init
  <2> QED
    BY <2>1, <2>2 DEF Occupied
<1>3. TreeInv
  BY <1>1, <1>2 DEF TreeInv, OneEntry
<1>4. Shown
  BY <1>3, IsShown
<1>5. /\ pidinfo[KERNEL_PID].owner = KProc /\ ~pidinfo[KERNEL_PID].exited
      /\ pidinfo[KERNEL_PID].ppid = INVALID_PID /\ pstate[KProc] = "run"
  BY DEF Init
<1>6. MLife[KProc] = "alive" /\ MParent[KProc] = NULL /\ MStatus[KProc] = NULL
  BY <1>2, <1>4, <1>5 DEF Shown
<1>7. \A p \in Procs \ {KProc} : MLife[p] = "none" /\ MParent[p] = NULL /\ MStatus[p] = NULL
  BY <1>2, <1>4, <1>5 DEF Shown
<1>8. MCollected = NULL
  <2>1. "status" \notin DOMAIN ret
    BY DEF Init, NoRet
  <2> QED
    BY <2>1 DEF MCollected
<1> QED
  BY <1>3, <1>6, <1>7, <1>8, MapIs DEF Abstract!AInit

LEMMA RefinesNext ==
  ASSUME TreeInv, Shown, Shown', [Next]_vars
  PROVE  [Abstract!ANext]_Abstract!avars
<1>1. CASE UNCHANGED vars
  <2>1. pidinfo' = pidinfo /\ p_pid' = p_pid /\ pstate' = pstate /\ ret' = ret
    BY <1>1 DEF vars
  <2> QED
    BY <2>1, RefinesQuiet
<1>2. CASE Next
  <2>1. panic = "none"
    BY <1>2 DEF Next
  <2>2. ASSUME NEW p \in Procs,
                \/ AllocAgain(p) \/ AllocNoMem(p) \/ Destroy(p) \/ MenuForkFail \/ Returns(p)
                \/ ForkUndo(p) /\ panic' # panic
                \/ \E pid \in WaitPids :
                     \/ WaitSleep(p, pid) \/ WaitNoHang(p, pid)
                     \/ \E flags \in {"0", "WNOHANG", "bad"} : WaitFails(p, pid, flags)
        PROVE  [Abstract!ANext]_Abstract!avars
    <3>1. /\ pidinfo' = pidinfo /\ p_pid' = p_pid
          /\ \A q \in Procs : pstate'[q] = "new" <=> pstate[q] = "new"
          /\ "status" \notin DOMAIN ret' \/ ret' = ret
      BY <2>1, <2>2, QuietFacts
    <3> QED
      BY <3>1, RefinesQuiet
  <2> QED
    BY <1>2, <2>1, <2>2, StepCases, RefinesAlloc, RefinesStart, RefinesUndo, RefinesExit,
       RefinesCollect
<1> QED
  BY <1>1, <1>2

\* fork, _exit and waitpid, with pids that are used again and slots that pids
\* share, keep the promise of WaitExit: the status of a process is handed to its
\* one parent, at most once, and is the status it exited with (or is lost in the
\* parent's failing copyout); when the parent dies first nobody is handed it.
THEOREM TableRefines == Spec => ImplementsWaitExit
<1>1. Init => TreeInv /\ Abstract!AInit
  BY RefinesInit
<1>2. TreeInv /\ [Next]_vars => TreeInv'
  BY NextTree
<1>3. TreeInv => Shown
  BY IsShown
<1>4. TreeInv /\ Shown /\ Shown' /\ [Next]_vars => [Abstract!ANext]_Abstract!avars
  BY RefinesNext
<1> QED
  BY <1>1, <1>2, <1>3, <1>4, PTL DEF Spec, ImplementsWaitExit, Abstract!ASpec

=============================================================================
