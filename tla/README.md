# OS/161: a TLA+ model of the kernel

The repository holds course work of several kinds. The part with a life of its own is the operating
system under `src/operating_systems/os161`: the OS/161 kernel for MIPS machines with several
processors, as completed for assignments 1 to 3. This directory models that kernel: its threads,
its synchronisation primitives, its process table, its open files, its virtual memory, its two file
systems sfs and semfs with the vnodes they share, and the bounded buffer that assignment 1 builds on
the semaphores. Paths below are relative to
`src/operating_systems/os161/asst3-src/kern/` unless they begin with another assignment's name.

Contents: 1 inventory, 2 modules, 3 runs, 4 proofs, 5 fairness, 6 what is left out, 7 disagreements
between code and documents, 8 plan, 9 how to run.

## 1. Inventory

### The parts, their state and their operations

| part | state | operations | modelled in |
|---|---|---|---|
| thread scheduler (`thread/thread.c`, `clock.c`, `threadlist.c`, `spinlock.c`) | per CPU: current thread, run queue and its lock, idle flag, zombies, pending interrupts; per thread: state, CPU | `thread_fork`, `thread_exit`, `thread_yield`, `wchan_sleep`, `wchan_wakeone`, `wchan_wakeall`, `thread_consider_migration`, `cpu_idle`, `IPI_UNIDLE` | `ThreadSched` |
| semaphores (`thread/synch.c`) | count, wait channel | `P`, `V`, create, destroy | `Semaphore` |
| locks and condition variables (`thread/synch.c`) | holder, two wait channels | `lock_acquire`, `lock_release`, `cv_wait`, `cv_signal`, `cv_broadcast` | `Monitor` |
| process table (`proc/pid.c`, `proc/proc.c`, `syscall/proc_syscalls.c`, `main/menu.c`) | `pidinfo[]`, `nextpid`, `nprocs`, `p_pid` of each process | `fork`, `_exit`, `waitpid`, the menu's `common_prog`, and every way these fail | `PidTable` |
| open files (`syscall/openfile.c`, `filetable.c`, `file_syscalls.c`, `more_syscalls.c`) | descriptors of each process, reference count, offset and offset lock of each open file | `open`, `close`, `read`, `write`, `lseek`, `dup2`, `getdirentry`, and `fork` and `_exit` of the table | `FileTable` |
| virtual memory (`vm/vm.c`, `vm/addrspace.c`, `arch/mips/vm/unsw.c`, `syscall/runprogram.c`, `loadelf.c`) | page tables, regions, frame table, TLB of each CPU | page fault, `as_copy`, `as_destroy`, `loadexec`, `as_activate` at a context switch, `_exit` | `AddrSpace` |
| bounded buffer (`asst1-src/kern/asst1/producerconsumer*.c`) | ring, three semaphores, the driver's counters | start-up, `producer_send`, `consumer_receive`, shutdown | `ProducerConsumer` |
| semfs (`fs/semfs`) | directory, table of semaphores, table of vnodes, under three kinds of locks | create, open, read (P), write (V), truncate, close, remove, `getdirentry`, reclaim | `Semfs` |
| sfs (`fs/sfs`) | free map, inodes in memory and on disk, directory, indirect blocks | every vnode operation that changes state, reclaim, sync, mount, unmount, with a disk that may fail | `Sfs` |
| vfs (`vfs`) | vnode reference counts, what is mounted | `vnode_decref`, `vfs_open`, `vfs_close`, sync, mount, unmount | part of `Sfs` and `Semfs`; device names, paths and the current directory not |
| deadlock detector (`thread/hangman.c`) | wait-for and held-by edges | wait, acquire, release | not: it only watches |
| exec arguments (`syscall/runprogram.c`) | argument buffer, throttle | `execv` | planned |
| emufs (`dev/lamebus/emu.c`) | | | not: the host's file system |
| devices (`dev`), heap (`vm/kmalloc.c`), `copyinout.c`, traps, `lib` | | | not |
| two locks, shared counter (`asst1-src/kern/asst1`) | two locks; a counter | | two locks planned |
| the asst2 file table, the asst0 kernel, userland | | | not: earlier or user-level code |
| SIMC signature files (`src/DBMS_implementation/ass2`) | pages of tuples and three signature indexes | create, insert, select | planned |
| the other course work (PostgreSQL type, C++ libraries, data structures, Python scripts) | | | not |

`PROJECT.json` lists every part with its files, and the reason where it is not modelled.

### How they interact

    user programs
       | system calls, page faults
    PidTable        FileTable          AddrSpace        ProducerConsumer
       |               | vfs_open, ...    |                 |
       |            Sfs, Semfs            |                 |
       | pidlock,      | of_offsetlock,   | interrupts      | three semaphores
       | pi_cv         | vfs_biglock,     |  between steps  |
       |               | sems_lock, ...   |                 |
    Monitor ------ locks, cvs             |               Semaphore
       \______________________ wait channels ____________/
                                 |
                            ThreadSched  (CPUs, run queues, IPIs, clock)

* `fork` goes through three of them: `proc_fork` allocates a pid, copies the address space, copies
  the file table, and starts a thread; each of these can fail, and the undo (`proc_unfork`) must
  reverse what the earlier ones did. Each model has its own share of `fork` and of its undo.
* `_exit` gives the pid's entry a status, wakes the parent, and then takes the process apart: files
  one descriptor at a time, the address space one page at a time, while other threads run.
* The last `close` of an open file calls `vfs_close`, which leads to `vnode_decref` and, if it holds the
  last reference, to `sfs_reclaim` or `semfs_reclaim`. The decision and the call are two steps, and a lookup
  may come between. `FileTable` takes `vfs_open` and `vfs_close` as succeeding or failing; `Sfs` and
  `Semfs` show what they do.
* Every blocking operation is a wait channel below. `ThreadSched` shows that going to sleep on one
  is atomic with releasing its spinlock; `Semaphore` and `Monitor` assume just that of it;
  `PidTable`, `FileTable`, `Semfs`, `Sfs` and `ProducerConsumer` assume of semaphores, locks and cvs what
  `AtomicSemaphore` and `MesaMonitor` say. So the abstract module of each layer is the interface of
  the next.

### What is hard about it, and what makes each part correct

* **Scheduler.** CPUs interleave with one another and with interrupts. A thread may be woken before it
  has left its stack, and its CPU may then idle on that very stack; the migration code reads counts
  under one lock after another and acts later. Correct: no stack used twice, every thread queued in
  exactly one place, no idle CPU with work on its queue and no interrupt coming, no thread left on a run queue
  for ever. (Not claimed, for the code does not give it: that no CPU idles beside ready threads of another's queue.)
* **Semaphores, locks, cvs.** Woken threads compete with newcomers; `cv_wait` releases two locks in
  an order. Correct: no wake-up lost, no signal between release and sleep, mutual exclusion.
* **Process table.** Pids wrap and share slots modulo the table's size; parents exit before children
  and children before parents; a parent sleeps holding a pointer to its child's entry. Correct: the
  table is exact, no stranger becomes a parent, a status goes to nobody but the one parent, and at most once.
* **Open files.** Reference counts change in two processes at once, and the last reference is let go
  outside the spinlock; offsets are read before and written after a blocking transfer. Correct: the
  count is the number of references, the destroyer is alone, a transfer owns its offset.
* **Memory.** The TLB has no address space ids and is flushed by the CPU that runs the code; every
  step may be preempted and continue on another CPU; a load may fail after the address space has been
  replaced. Correct: every frame has one owner, every usable TLB entry is of the running program's
  own page table, and each program sees a memory of its own.
* **semfs.** A name, a vnode and a count share one record under three locks, and each of two calls clears
  one flag of it and tests the other's; the table is the file system's whole state, and memory may run out at
  each step of a creation. Correct: the record lives exactly as long as somebody can reach it, and what
  readers and writers of the files see is a counting semaphore.
* **sfs.** One lock covers each operation, but the disk may fail between any two of its steps, and some
  steps are undone and others not; a vnode may be picked up again while it is being let go. Correct: every
  block has one use and is marked so, link counts and reference counts are exact, no operation is done by
  half, and what was written survives reclaim, unmount and mount.
* **Bounded buffer.** Three semaphores in three orders, and a shutdown that destroys them. Correct:
  a FIFO queue, nothing lost or doubled, nobody near a semaphore when it goes, and it ends.

The hazards are in `PROJECT.json`, each at its line, with the properties that would catch it or a note why there is
none.

## 2. Modules

Abstract specifications come first in each pair; the detailed module has an `INSTANCE` of the
abstract one, and a property `Implements...` that says it is implemented. Definitions carry the names
of the functions and fields they model, and `PROJECT.json` (`map`) gives the lines of each.

**`WaitExit` / `PidTable`.** `WaitExit` is a tree of processes in which a dead child stays a zombie
while its parent may ask for it. `PidTable` has the table of `pid.c` slot by slot. Each stretch under
`pidlock` is one action; `pid_wait` gives the lock up in `cv_wait`, so it is `WaitSleep` and
`WaitResume`. `Alloc` / `ForkDone` / `ForkUndo` are `proc_fork` with its later steps succeeding or
failing, `AllocAgain` and `AllocNoMem` its early failures; `Exit` is `pid_setexitstatus` and `Destroy`
the rest of `proc_exit`. `Collect` is the end of `pid_wait` with the `copyout` of `sys_waitpid`, which may fail
(`Answers`); `Returns` is the end of any system call. `MenuFork` and `MenuForkFail` are `common_prog`. A failing `KASSERT` sets
`panic` to its place. `owner` is a ghost: the process an entry was made for.

**`AtomicSemaphore` / `Semaphore`.** The detailed module has the wait channel and the woken thread that
must take `sem_lock` and look at the count again. `V` belongs to no thread: interrupt handlers call it.

**`MesaMonitor` / `Monitor`.** One lock and one condition variable. `cv_wait` holds the channel's
spinlock across `lock_release`, hence `CvWait` and `CvSleep` with `cv_wchanlock` held in between.

**`BoundedQueue` / `ProducerConsumer`.** Every P, V, slot access and index step is an action of its
own; the driver's threads run their whole life, from start-up to the semaphores' destruction. P and V
are those of `AtomicSemaphore`.

**`FileTable`.** Processes, descriptors, open files. `openfile_decref` is `Decref` and `Destroy`, since
the spinlock is released between; a transfer is `LockOffset` and `Moved`, with other processes between;
the loops of `filetable_copy` and `filetable_destroy` go one descriptor at a time.

**`RunStates` / `ThreadSched`.** `RunStates` has a state per thread and a wait channel in order.
`ThreadSched` has a program counter per CPU, the spinlocks that are held from one action to another,
and the locals of migration; see the comments at its head. `EnterSwitch`, `Switch`, `Idle` and `Unidle`
are the parts of `thread_switch`.

**`NamedSemaphores` / `Semfs`.** `NamedSemaphores` is the manual page: names stand for counting semaphores,
which live while they have a name or a user. In `Semfs` a critical section of one lock is one action unless
something of another lock can change under it: `semfs_creat` is `EnterDir`, `CreatInsert` and then one of
`CreatFinish`, `CreatUndo` and `CreatNoEntry`, `semfs_remove` is split between clearing `sems_linked` and testing `sems_hasvnode`,
`semfs_reclaim` between clearing `sems_hasvnode` and testing `sems_linked`, a read at each `cv_wait`, and
`vnode_decref` between its decision and `VOP_RECLAIM`.

**`NamedFiles` / `Sfs`.** In `NamedFiles` names stand for files that have blocks; every call happens as a
whole or not at all. `Sfs` is sequential code under one lock, so an operation is one action, written as the
*set of its outcomes*: `Ok`, `Fail` and `Panic` are outcomes, `Then` and `Try` continue each of them, and
every read and write of a block has an outcome in which it failed. `Creat`, `Link`, `Remove`, `Rename`,
`Bmap`, `Itrunc`, `Reclaim`, `LoadVnode` and so on are then the functions of the same names, call by call. Only
`vnode_decref` is outside the lock: `Close` and `CallReclaim`. A block on disk whose copy in memory has changed
is `Stale` until it is written back; reading it would panic, so that a missing write-back shows. One outcome ends
the model though the code goes on: "torn", an indirect block that `sfs_itrunc` failed to write back
(`fs/sfs/sfs_bmap.c:285`). All that is said of `Sfs` below holds up to there; in `NamedFiles` it counts as stopped.

**`PrivateMemory` / `AddrSpace`.** `PrivateMemory` gives each process its own memory, with `Exec`,
`Store`, `Copy`, `Fork` and `Exit`. `AddrSpace` has CPUs with TLBs, page tables, frames and their
contents; between any two of its actions the thread may be switched out and continue on another CPU.
`VmFault` and `TlbRandom` are the parts of `vm_fault`; `LoadExec`, `PrepareLoad`, `LoadPage`,
`CompleteLoad`, `DefineStack`, `LoadFails`, `Reactivate` those of `loadexec` and `load_elf`; `Fork`,
`CopyPage`, `CopyFails`, `Forked`, `Unfork` those of `proc_fork` around `as_copy`; `Exit`, `FreePage`,
`Reaped` those of `proc_exit` and `as_destroy`. Frames and spaces are taken from the free ones in any
order (the code takes the first), which allows symmetry and adds behaviours, never removes any.

**`MC*`** give TLC what it needs; the **`*_proofs`** modules, one per component, hold the theorems.

Definitions marked `mutant:` are plausible bugs, one for each property of a run; nothing uses them.
Putting one in place of the definition it stands before makes TLC report the property violated, which shows
that the property depends on the code.

## 3. Runs

| run | instance | distinct states | question |
|---|---|---|---|
| `pid` | kernel and 3 user processes, 3 slots, pids 2..5, 2 statuses, `thread_fork` may fail in the menu | 43 000 | is the table exact, which assertions fail, is `WaitExit` implemented, do waiters return unless overtaken for ever |
| `menu_fork_fails` | 4 slots, pids 2..6 | violation | see section 7 |
| `semaphore` | 4 threads, counts to 3 | 360 | is a wake-up ever lost; `AtomicSemaphore` |
| `monitor` | 4 threads | 2 500 | mutual exclusion, no lost wake-up or signal; `MesaMonitor` |
| `buffer` | 2 producers of 3 items, 3 consumers, 3 slots | 559 000 | FIFO queue, clean shutdown, termination |
| `files` | 2 processes, 2 descriptors each, 2 open files | 38 000 | reference counts, offsets, locks given up |
| `scheduler` | 2 CPUs, 4 threads | 2 650 000 | no stack or thread used twice, no idle CPU with work |
| `scheduler_live` | 2 CPUs, 3 threads | 293 000 | `RunStates` is implemented, threads go on being dispatched, none stays on a run queue for ever |
| `memory` | 2 processes, 2 CPUs, 2 pages, 3 frames, 3 spaces | 871 000 | one owner per frame, coherent TLBs, private memories |
| `semfs` | 3 threads, 2 names, 2 semaphores, counts below 3, memory may run out | 92 000 | records, vnodes and names agree, which assertions fail, no lock deadlock; `NamedSemaphores` |
| `semfs_wakeup` | 3 threads, 1 name | violation | see section 7 |
| `sfs` | 2 threads, 2 names, 4 blocks, 1 direct and 2 indirect entries, 1 failure of the disk | 344 000 | blocks, links and references exact, which panics happen, up to "torn"; `NamedFiles` |

Why these bounds:

* *Process table.* `PID_MAX - PID_MIN + 1` is not a multiple of the number of slots, so that, as in the
  kernel (`PID_MAX` 32767, 128 slots), a wrap shifts the slots; pids wrap many times in a run, as states
  repeat. With three user processes there can be a parent, a child and a stranger that takes
  the pid of either, and the table of three (kernel included) can be full.
* *Semaphore and monitor.* Four threads are a sleeper, a woken thread, a newcomer that overtakes it and
  one more sleeper. `SEM_MAX` stands for the largest unsigned.
* *Buffer.* More threads than slots and more items than slots: both ends block, the ring wraps, and
  consumers compete for the last items while the (0,0) items follow. `SOMETHING_WRONG_COUNT` is kept out
  of reach by an assumption, as the driver's constants do.
* *Files.* Two processes that are parent and child in either order, and two files of two descriptors
  each cover every way of sharing: by fork, by dup2 and by both.
* *Scheduler.* With three threads on two CPUs migration never finds a victim other than the current
  thread, so safety uses four (symmetric in the two that are forked). Liveness uses three, without
  symmetry: with four there are more than nine times as many states, too many for liveness. So `LeavesRunQueue` is checked with victims that are
  put back, never with one that is moved to the other CPU; a moved thread has left the queue, which is all that the
  property asks. The run shows what `ImplementsRunStates` leaves open: with `YieldAhead`, the mutant that
  lets two threads starve a third, it still holds, and only `LeavesRunQueue` fails.
* *semfs.* Three threads: a remover, a closer and one that opens in between; or two sleepers and a writer.
  Two semaphores and two names: one that is removed and one that takes its slot, under the same name or
  another. A count below 3 overflows. Symmetric in threads and names; the properties are safety.
* *sfs.* Four blocks are an inode, an indirect block and two data blocks, or two inodes with data: files
  compete for them, the volume is full, and freed blocks change owner. One direct and two indirect entries
  have every case of `sfs_bmap` and of `sfs_itrunc` (kept whole, cut, emptied). One failure reaches every
  error path but one: a rename whose undoing fails as well needs two, and the panic there stops the kernel at
  once (`OnlyKnownPanics` names it). Symmetric in threads and names.
* *Memory.* Two pages: one of the executable's read-only segment, one writable (the stack). Three frames
  are fewer than two full processes need, so that a fault, a copy and a load each run out part of the
  way. Three spaces let one process exec while another holds its own. All frames, spaces, CPUs and
  processes are interchangeable; `ImplementsMemory` is a safety property, so symmetry is sound.

`CHECK_DEADLOCK FALSE` is set where the system may really stop, and the `.cfg` says why.

What the properties say is at their definitions. In short: the **refinements** (`ImplementsWaitExit`,
`ImplementsSemaphore`, `ImplementsMonitor`, `ImplementsQueue`, `ImplementsRunStates`, `ImplementsMemory`,
`ImplementsSemaphores`, `ImplementsFiles`) say that what a caller sees is the abstract system, and, where that
one has fairness, that it goes on. `WaitReturns`, `LeavesRunQueue`, `OffsetFreed` and `Terminates` say that something
ends, each under the fairness of section 5. The **invariants** say why: `EntriesExact`, `RelativesExact`, `CountExact`
of the pid table; `NoLostWakeup`, `NoLostLockWakeup` of semaphores and locks; `RefcountExact`,
`OffsetOwned` of open files; `OnePlace`, `NoIdleWork`, `VictimsSuffice` of CPUs; `OneOwner`, `TlbCoherent` of
memory; `TableExact`, `RefsExact`, `NoLockDeadlock` of semfs; `BlocksExact`, `LinksExact`, `RefsExact` of sfs;
`UnitsConserved`, `QuietAtShutdown` of the buffer. The **panics**: `OnlyMenuPanics`, `OnlyDirentryPanics`,
`NoKassertFails` and the two `OnlyKnownPanics` list every assertion of the code that can fail, and under
which circumstances; all others are shown not to. For sfs this is so up to "torn": once an indirect block has
failed to be written back in `sfs_itrunc`, the code goes on with a block that lists free blocks, and others can
fail, such as the bitmap's when one of them is freed again.

## 4. Proofs

TLAPS proves these for all values of the constants, from the named assumptions of each module alone.

`PidTable_proofs` (2388 obligations):

* `TypeCorrect`, `TableSafe`, `RelativesCorrect` — `Spec => []TypeOK` and `[](EntriesExact /\ RelativesExact)`.
  None of these is inductive. The inductive invariant `TableInv` adds: where an entry sits is where
  `pi_get` looks (`SlotOK`), which processes have a pid at all (`PidState`), that the process being
  forked has an entry of the forker's and is not yet run (`ForkOK`), and that a process that has not run
  has no children (`NewOK`, without which undoing a fork might strand some). There is a lemma per action,
  and in it a step for each conjunct that the action disturbs.
* `CountCorrect` — `nprocs` is the number of occupied slots, from `TableInv` and the cardinality
  theorems of the library. `pid_setexitstatus` may drop several entries at once.
* `OnlyMenuKassertFails`, `NoKassertFails` — no `KASSERT` fails, the guard of `pid_alloc`'s loop included, but
  for the one that a failing `thread_fork` in the menu leads to; without that failure, none. It needs that a
  probe that starts anywhere in the pid range, wraps at `PID_MAX`, and finds a table that is not full meets a
  free slot within `2 * PROCS_MAX` steps: an argument about remainders (`PID_MAX - PID_MIN + 1 >= PROCS_MAX`,
  no alignment assumed).
* `TableRefines` — `Spec => ImplementsWaitExit`: every step is a step of the tree of processes or a stutter. It
  adds to `TableInv` that a process has one entry, be it alive or dead (`OneEntry`). A lemma per action says
  what it does entry by entry, `Shown` what an entry shows of its process, and the two are put together process
  by process; a pid stands for a process only while that process has it, which is what `ParentAlive` is for.
  When the parent's `copyout` fails, it has had the one answer, without the status.

`Synch_proofs` (1022 obligations), the two halves of `thread/synch.c`, `Monitor` and `Semaphore`.

* `MonTypeCorrect`, `MutualExclusion`, `NoLockWakeupLost`, for any set of threads, finite or not. The inductive
  invariant `MonInv` adds to the types, `HolderInside` and `NoLostLockWakeup` that each wait channel holds exactly
  the threads asleep on it, each once (`Channels`): without it a wake-up could go to a thread that sleeps
  no more, or leave one behind that the channel no longer knows.
* `MonitorRefines` — every step is a step of `MesaMonitor` or a stutter. It needs one more invariant,
  `Spinlock`: a thread between the two halves of `cv_wait` holds the channel's spinlock, so that whoever
  signals meanwhile finds all waiters on the channel. It is the safety part of `ImplementsMonitor`.
* `NoWakeupLost`, `SemOnePlace`, `SemTypeCorrect`, for any finite set of threads. The inductive invariant is
  `SemInv`: type, `OnePlace` (a thread in P is on the channel
  once or woken, never both), `NoLostWakeup`, and that nobody is in P once the semaphore is destroyed.
* `SemaphoreRefines` — every step is a step of `AtomicSemaphore` or a stutter. It is the safety part of
  `ImplementsSemaphore`; the fairness part is checked by TLC.

`ProducerConsumer_proofs` (3057 obligations), for any numbers of producers, consumers, items and slots.
`SOMETHING_WRONG_COUNT` is above the number of items, as the driver's constants make it.

* `RingTypes`, `NoKassertEver`, `UnitsAlwaysConserved`, `ShutdownIsQuiet` — `TypeOK`, `NoKassertFails`,
  `UnitsConserved` and `QuietAtShutdown`. The inductive invariant has two layers. `RingInv`: one thread in the
  critical section (`Exclusive`), where each thread can be (`Routes`), the filled slots are those from the oldest
  up to the next to write, around the ring (`Ring`), and each is a unit of `is_full` or in the hands of a thread
  between two semaphores (`Units`, finer than `UnitsConserved`: it tells senders from consumers). So a sender
  in the critical section finds `put` empty although others were counted before it. `EndInv`: each item is in
  one place once produced (`Once`), no consumer counts more items than were consumed (`Checks`, hence none
  ends early), the (0,0) items sent are those in the ring and those met (`Poisons`) and come last (`Last`), and
  what main waits for is posted or will be (`Joins`, `Stops`).
* `RingIsQueue` — `Spec => ImplementsQueue`. The write of a slot is the queue's `Append`, the read its `Tail`;
  the remainder in `Queue` is resolved by one lemma.

`FileTable_proofs` (1701 obligations), for any processes, open files, table size and bound of the offsets:

* `FileTypes`, `RefcountsAreExact`, `OffsetsAreOwned`, `NoPanicButDirentry` — `TypeOK`, `RefcountExact`,
  `OffsetOwned`, `OnlyDirentryPanics`. The inductive invariant `FileInv` adds what a thread has in hand at each
  place of a call (`Holding`), how far the loops of `filetable_copy` and `filetable_destroy` have come and in
  whose table (`Tables`), that no table is in two loops (`OneKeeper`), and that a lock's owner is in a transfer
  on that file (`Locks`). Counting is done once: what one table entry or one thread's step adds to or takes from
  the set of references.

`AddrSpace_proofs` (2504 obligations), for any processes, CPUs, frames, spaces, pages and size of the TLB:

* `MemTypes`, `MemoryHasOneOwner`, `TlbIsCoherent` — `TypeOK`, `OneOwner`, `TlbCoherent`. The inductive
  invariant `MemInv` has `OneOwner` entry by entry (`Entries`, `Apart`), which spaces a process has at each place
  and the page fault it is in (`Places`), what a space that is loaded or copied into contains so far (`Filled`),
  one processor per process (`OnCpu`), and `TlbCoherent` also where the program is not running but will, without
  a flush in between (`Tlbs`). One conjunct is easily missed: the page of a fault under way is in no entry of
  that CPU's TLB, or `tlb_random` could put a page in twice.
* `MemoryRefines` — `Spec => ImplementsMemory`. A process's memory appears when its load completes or when its
  fork is done. The loops take the lowest page of a set; that a set of naturals has one is proved from the
  library's `NatLessThanWellFounded` (no endless descent), the one place where data of any size needs it.
  The proofs assume, beyond what the runs gave, that a user space has pages at all (`SizesAssumption`): with none,
  an empty memory and no memory would be the same function.

`ThreadSched_proofs` (2328 obligations), for any number of CPUs and any set of threads, finite or not:

* `SchedTypes`, `ThreadsInOnePlace`, `IdleCpusAreTold`, `VictimsNeverRunOut` — `TypeOK`, `OnePlace`, `NoIdleWork`,
  `VictimsSuffice`. The inductive invariant `SchedInv` reads the system from the thread's side: its state names
  the one queue it is on and its `t_cpu` of which CPU (`SleepersQueued`, `ReadyQueued`, `DeadQueued`; `Once`: no
  queue twice), and a CPU's current thread has that CPU as its `t_cpu` (`OnCpu`). The last is what keeps others
  off its stack, since it may already be asleep or exited, on a queue, while the CPU still idles on it. `Stages`
  has what a CPU holds at each step and what it may still rely on of queues that others change: once it has read the
  length of its own run queue others only add to it, so that the counts of the migration, stale by then, err on
  the safe side.
* `SchedRefines` — every step is a step of `RunStates` or a stutter: the safety part of `ImplementsRunStates`.

`Semfs_proofs` (3807 obligations), for any finite set of threads and any names, table size and width of the
counts. `SemfsAssumption` has amounts below the width, as `size_t` and `unsigned` are both 32 bits wide.

* `TableAlwaysExact`, `VnodesAreCounted`, `NoOtherPanics` — `TableExact`, `RefsExact`, `OnlyKnownPanics`. The
  inductive invariant `SemfsInv` adds who holds which lock where (`Locked`), what a thread has in hand at each
  place (`Works`: the semaphore being created has no name, vnode or user; the entry being removed is there to the
  end; a vnode being cleared has no user), and `TableExact` for each semaphore, with the holder of its lock and
  the sleepers on its cv (`Records`). `Spare` is the one that only a failed proof shows to be needed: a
  semaphore whose vnode is being cleared is not one that a creation has just put in the table, for its number is
  taken until `semfs_reclaim` ends.
* `SemfsRefines` — `Spec => ImplementsSemaphores`. A name appears at the end of `semfs_creat` and goes at the end
  of `semfs_remove`; a close takes place in `vnode_decref`, and `semfs_reclaim` is not seen, because what it
  destroys has neither name nor user.

`Sfs_proofs` (8358 obligations), for any threads, names, number of blocks, size of an inode and of an indirect
block, and any bound on the failures of the disk. Beyond the sizes it assumes that NULL is no vnode.

* `Invariant`, `Typed`, `BlockCounts`, `LinkCounts`, `References`, `KnownPanics` — the inductive invariant `SfsInv`,
  and `TypeOK`, `BlocksExact`, `LinksExact`, `RefsExact`, `OnlyKnownPanics` from it. `SfsInv` says of a volume that goes
  on that it is `Sound`, and of one that is not mounted that it would be with the map on disk:
  no entry of an inode or an indirect block names a block that has another use (`Apart`); the blocks in use are
  marked (`Marked`); what is only on disk is there to be read (`OnDisk`); link counts (`Linked`) and references
  (`Counted`) are exact. In between, a call has things in hand: `Sound(s, X, H)` has the blocks `X` that
  are marked and not in use *yet*, and the references `H` that are held by threads *and* by the call, so that each
  function has one lemma of the form "from a sound volume, every outcome is sound, with these blocks and references
  given up or gained, or is one of the two panics" (`Settled`, `Stopped`), and the lemma of a caller goes from
  outcome to outcome. "torn" is counted with the panics: past it the volume is not `Sound`, and none of these theorems
  says anything of the code that goes on there. A failure of the disk may cost one block or one vnode: whenever something is left marked or
  counted for nobody, `faults` has grown by one for it (`Costly`). That is why `BlocksExact` and `RefsExact` count failures,
  and why the undoing of a rename needs two of them to panic.

* `SfsRefines` — `Spec => ImplementsFiles`. Soundness is not enough for it: every one of the lemmas above
  also says what a call leaves of names and data. `Data(s, b)` are the places of file `b` that have a block; an
  operation on one file has an `Effect` on that file's data only, which may lose what lies past the new end and
  get the block written; looking, syncing, mounting and unmounting are `Quiet`; and what gives up a reference is
  `Intact` for every file that still has a name or a holder, for at the last one `sfs_reclaim` takes the data away.
  A removal, a creation or a rename has then either the names and data of the complete call or those from before
  (`Removing`, `Creating`, `Renaming`), undone halves included. A close is seen when `vnode_decref` has decided,
  the reclaim after it is not; a panic ends what `NamedFiles` promises, and so does "torn", where the code goes
  on and a block that the torn indirect block lists may be given to another file.

Only model-checked: all liveness, and `NoLockDeadlock` of semfs (fairness and `ENABLED` are beyond the prover).

## 5. Fairness

* `PidTable`: one assumption, of pidlock: while threads woken in `cv_wait` contend for it, somebody gets it
  (`GetsPidlock`), a woken thread or a newcomer. `lock_acquire` gives no more. So `WaitReturns` promises that a
  parent whose child has exited returns *or* others come to pidlock again and again for ever (`Enters`). Such
  starvation is a behaviour of the model: without the exception TLC finds the property violated. `Returns`
  makes a call that is repeated for ever with the same result a step each time, so that the exception covers it.
  User programs need not exit and parents need not wait.
* `Semaphore`, `Monitor`: weak fairness of a thread that was made runnable. This is an assumption about the
  scheduler that goes beyond `RunStates`, which only has *some* thread dispatched; what the scheduler
  itself shows of a single thread is `LeavesRunQueue`. Nothing makes a semaphore or lock fair: a woken
  thread may be overtaken for ever, and the abstract modules promise only that *some* thread gets through.
* `ProducerConsumer`: weak fairness of each thread. `Terminates` holds although P is unfair, since each
  overtaking uses up an item.
* `FileTable`: weak fairness of a system call under way.
* `ThreadSched`: strong fairness of each CPU's own steps and of its clock. Strong, because a CPU that
  spins on a run queue's lock sees it taken and released any number of times (the spinlock in
  `thread/spinlock.c` is a test-and-set loop, and the assumption is that it gets its turn), and because a
  pending clock interrupt is only taken while interrupts are on. Without the clock a thread
  that runs need never yield. What follows is that a thread on a run queue leaves it (`LeavesRunQueue`), and that
  threads go on being dispatched while a CPU is free (`WF_vars(Dispatch)` of `RunStates`, whose CPUs have no names).
  It does not follow that the free CPU gets one: `thread_consider_migration` does not count the threads that run
  (`thread/thread.c:863-880`), so a CPU with one running and one waiting thread sends nothing, and the two may
  take turns for ever while the other CPU idles.
* `AddrSpace`, `Semfs`, `Sfs`: none; they have safety properties only. (semfs cannot promise that a P returns:
  see section 7.)

## 6. What is left out

* Process table: `pid_disown`, which only test code would call. Statuses are model values; the status word that
  `waitpid` copies out when WNOHANG finds the child running is not part of what it returns there.
* Semaphores, locks: failure of `sem_create` and the like; the calls of the deadlock detector, which
  only watches (it is compiled in by an option).
* Buffer: failure of `kmalloc` in the driver.
* Files: the access mode (an access it forbids fails under the lock like a failing transfer); calls that
  fail before they change anything; `chdir`, `getcwd` and other calls that only pass paths on.
* Scheduler: start-up, shutdown, panic, TLB shootdown (nothing sends one) and `thread_fork` out of memory.
  One wait channel stands for all, since they share no state.
* Memory: allocation of several frames in a row, overlapping regions, sizes and addresses within a page.
  The second level of the page table is flattened: it only saves space. `as_copy`'s leak on `ENOMEM` is
  kept (`CopyFails`): the half-filled space stays allocated and owned by nobody, and no property denies it.
* semfs: mounting (once, at boot), `stat`, "." and "..", and the root's vnode: `semfs_getroot` makes it for
  each lookup and `semfs_reclaim` frees it after, under the table lock and without touching a semaphore, and if
  memory runs out for it the call fails before it has changed anything.
* sfs: contents and sizes of files (a read may be of any block), so that reading past the end and the
  bytes of a partly written block are out; the growth of the directory (it has been full before); the root
  directory's vnode, which is looked up and let go in every call; the superblock, which nothing changes. There
  is no crash: the code promises nothing after one. A write-back of an indirect block that fails in
  `sfs_itrunc` leaves freed blocks listed on disk, returns the error, and the kernel goes on; the model ends there ("torn"),
  no property or theorem says anything of what follows, and the hazard has no property that would catch it.
* The parts of section 1 that are "not" or "planned".

## 7. Disagreements between code and documents

Each of these two has a run that TLC must find violated:

* `menu_fork_fails`: when `thread_fork` fails in the kernel menu (`main/menu.c:129`), `common_prog` calls
  `proc_destroy` on a process that still has its pid, and `proc_destroy` asserts the contrary
  (`proc/proc.c:185`). `proc_fork`'s own undo gives the pid back first. This is why `NoKassertFails` has
  its hypothesis.
* `semfs_wakeup`: `semfs_wakeup` (`fs/semfs/semfs_vnops.c:146`) assumes that there are sleepers only if the old
  count is 0, and wakes one if the new count is 1. Two Vs in a row, before the woken thread runs, leave the
  second sleeper asleep with a positive count; `man/misc/semfs.html` says a P blocks until a concurrent write
  raises the count.

These follow from the models as they stand, and passing properties allow for them by name:

* `OnlyKnownPanics` of `Semfs`: `semfs_getdirentry` reads the entry of a removed semaphore, which is NULL
  (`semfs_vnops.c:323`); `semfs_creat` returns 0 without a vnode when memory runs out for the entry
  (`semfs_vnops.c:427`), and `vfs_open` then asserts that there is one (`vfspath.c:88`); the last close may
  destroy `sems_lock` while a `semfs_remove` that cleared `sems_linked` still holds it.
* `OnlyDirentryPanics` of `FileTable`: `getdirentry` on a descriptor of the console fails
  `KASSERT(VOP_ISSEEKABLE(...))` (`syscall/more_syscalls.c:300`); its manual page gives `ENOTDIR`.
* `Dup2`: `dup2(fd, fd)` succeeds on a closed descriptor (`syscall/file_syscalls.c:308`); the manual page of
  dup2 gives `EBADF`.
* `PastEnd` of `Sfs`: `sfs_itrunc` keeps the block just past the new end if it is an indirect one
  (`blocklen < baseblock+j` at `fs/sfs/sfs_bmap.c:266`; direct blocks use `i >= blocklen`), where the comment
  above says "Discard any blocks that are past the new EOF". `ImplementsFiles` lets it stay.
* "torn" of `Sfs`: an indirect block that cannot be written back in `sfs_itrunc` (`sfs_bmap.c:285`) goes on
  listing blocks that are free.
* `RefsExact` of `Sfs`: a `sfs_reclaim` that fails half way leaves a vnode with a reference of nobody, and the
  volume can then never be unmounted.

Read but not modelled: the asst2 file table passes NULL to `vfs_close` when `vfs_open` fails;
`alloc_multiple_frames` never tries the last possible place of a block (`arch/mips/vm/unsw.c:243`).

## 8. Plan

Done, in this order: process table, semaphores, locks and cvs, bounded buffer, open files, scheduler,
memory; proofs of the process table, the semaphore and the monitor; semfs, sfs with the vnode hand-over; proofs
of open files, memory, the bounded buffer, the scheduler, semfs and sfs.

Next, modelling, as smaller additions: `alloc_multiple_frames` and `free_frames` (blocks are disjoint), the
throttle of `execv`, the two locks of assignment 1, and the SIMC indexes of `DBMS_implementation/ass2` (each of
the three searches selects every page that has a match).

## 9. Running it

    tlc -workers 2 -config MCPidTable.cfg MCPidTable      (likewise the other runs)
    tlapm PidTable_proofs.tla
    tlapm Synch_proofs.tla                                (likewise the other *_proofs)

The longest runs (`scheduler`, `scheduler_live`, `memory`, `sfs`, `pid`) take one to three minutes each.
