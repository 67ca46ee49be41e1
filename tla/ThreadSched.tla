---------------------------- MODULE ThreadSched ----------------------------
(***************************************************************************)
(* kern/thread/thread.c: context switches, wait channels, the run queues   *)
(* of the CPUs, migration between them, and the burial of threads that     *)
(* exited.  Everything done under one spinlock is one action; what holds a *)
(* spinlock from one action to a later one is a variable: thread_switch    *)
(* keeps its CPU's run queue locked until it has left the old thread's     *)
(* stack (or idles), a waker keeps the channel locked while it locks run   *)
(* queues, and migration holds the run queue it sends to.                  *)
(* A CPU in cpu_idle still uses the stack of its curthread, wherever that  *)
(* thread has been queued meanwhile.                                       *)
(***************************************************************************)
EXTENDS Naturals, Sequences, FiniteSets

CONSTANTS CpuCount, Threads, NULL,
          Boot            \* Boot[c] is the thread cpu_create makes for CPU c

Cpus == 0 .. CpuCount - 1
Elems(s) == {s[i] : i \in DOMAIN s}

ASSUME SchedAssumption == /\ CpuCount \in Nat \ {0}
                          /\ Boot \in [Cpus -> Threads]
                          /\ \A c, d \in Cpus : c # d => Boot[c] # Boot[d]
                          /\ NULL \notin Threads \cup Cpus

VARIABLES
  c_curthread, c_isidle, c_runqueue, c_zombies,
  c_runqueue_lock,   \* the CPU that holds the run queue's spinlock, or NULL
  c_ipi_pending,     \* IPI_UNIDLE is pending
  t_state, t_cpu,
  wc_threads,        \* the threads on the wait channel
  pc,                \* what each CPU is doing
  list,              \* woken threads not yet made runnable, by CPU
  mig                \* the locals of thread_consider_migration, by CPU

queues == <<c_runqueue, c_zombies, wc_threads, list>>
vars == <<c_curthread, c_isidle, c_runqueue, c_zombies, c_runqueue_lock, c_ipi_pending,
          t_state, t_cpu, wc_threads, pc, list, mig>>

(* pc: "thread" runs its thread, interrupts on; "lk" holds the channel's   *)
(* spinlock; "waking" too, making the threads of list runnable; "switch"   *)
(* is in thread_switch, "idle" in cpu_idle; "intr" is in a device or       *)
(* inter-processor interrupt taken there; "count", "take", "send", "move"  *)
(* and "back" are stages of migration; "yield" is about to call            *)
(* thread_yield, or at the end of an interrupt of cpu_idle.                *)
Labels == {"thread", "lk", "waking", "switch", "idle", "intr",
           "count", "take", "send", "move", "back", "yield"}

NoMig == [i |-> 0, my_count |-> 0, total_count |-> 0, to_send |-> 0, victims |-> <<>>]

Init == /\ c_curthread = Boot
        /\ c_isidle = [c \in Cpus |-> FALSE]
        /\ c_runqueue = [c \in Cpus |-> <<>>]
        /\ c_zombies = [c \in Cpus |-> <<>>]
        /\ c_runqueue_lock = [c \in Cpus |-> NULL]
        /\ c_ipi_pending = [c \in Cpus |-> FALSE]
        /\ t_state = [t \in Threads |-> IF t \in Elems(Boot) THEN "S_RUN" ELSE "FREE"]
        /\ t_cpu = [t \in Threads |-> IF \E c \in Cpus : Boot[c] = t
                                      THEN CHOOSE c \in Cpus : Boot[c] = t ELSE NULL]
        /\ wc_threads = <<>>
        /\ pc = [c \in Cpus |-> "thread"]
        /\ list = [c \in Cpus |-> <<>>]
        /\ mig = [c \in Cpus |-> NoMig]

Goto(c, l) == pc' = [pc EXCEPT ![c] = l]

\* Back to what the caller was doing: an interrupt of the idle loop, or the thread.
Return(c) == Goto(c, IF c_isidle[c] THEN "yield" ELSE "thread")

-----------------------------------------------------------------------------
\* CPU c wakes another CPU from cpu_idle.
NoIpi(c, target) == FALSE                              \* mutant: no IPI_UNIDLE
NeedsIpi(c, target) == c_isidle[target] /\ target # c

\* thread_make_runnable by CPU c, in one step that takes the lock of t's CPU.
MakeRunnable(c, t) ==
  LET target == t_cpu[t] IN
    /\ c_runqueue_lock[target] = NULL
    /\ t_state' = [t_state EXCEPT ![t] = "S_READY"]
    /\ c_runqueue' = [c_runqueue EXCEPT ![target] = Append(@, t)]
    /\ c_ipi_pending' = [c_ipi_pending EXCEPT ![target] = @ \/ NeedsIpi(c, target)]

\* thread_fork, called by the thread that runs on CPU c.
Fork(c, t) == /\ pc[c] = "thread"
              /\ t_state[t] = "FREE"
              /\ c_runqueue_lock[c] = NULL
              /\ t_cpu' = [t_cpu EXCEPT ![t] = t_cpu[c_curthread[c]]]
              /\ t_state' = [t_state EXCEPT ![t] = "S_READY"]
              /\ c_runqueue' = [c_runqueue EXCEPT ![t_cpu[c_curthread[c]]] = Append(@, t)]
              /\ UNCHANGED <<c_curthread, c_isidle, c_zombies, c_runqueue_lock, c_ipi_pending,
                             wc_threads, pc, list, mig>>

-----------------------------------------------------------------------------
\* thread_switch up to the choice of the next thread: it locks the run queue,
\* and is about to look at it with c_isidle set.
EnterSwitch(c, newstate) ==
  /\ c_runqueue_lock[c] = NULL
  /\ ~c_isidle[c]
  /\ c_runqueue_lock' = [c_runqueue_lock EXCEPT ![c] = c]
  /\ c_isidle' = [c_isidle EXCEPT ![c] = TRUE]
  /\ t_state' = [t_state EXCEPT ![c_curthread[c]] = newstate]
  /\ Goto(c, "switch")
  /\ UNCHANGED <<c_curthread, c_ipi_pending, t_cpu, list, mig>>

\* wchan_sleep, not from an interrupt; the channel's spinlock goes with pc "lk".
Sleep(c) == /\ pc[c] = "lk"
            /\ EnterSwitch(c, "S_SLEEP")
            /\ wc_threads' = Append(wc_threads, c_curthread[c])
            /\ UNCHANGED <<c_runqueue, c_zombies>>

\* thread_exit.
Exit(c) == /\ pc[c] = "thread"
           /\ EnterSwitch(c, "S_ZOMBIE")
           /\ c_zombies' = [c_zombies EXCEPT ![c] = Append(@, c_curthread[c])]
           /\ UNCHANGED <<c_runqueue, wc_threads>>

YieldAhead(c) ==                      \* mutant: the yielding thread goes to the head
  /\ pc[c] = "yield"
  /\ c_runqueue[c] # <<>>
  /\ EnterSwitch(c, "S_READY")
  /\ c_runqueue' = [c_runqueue EXCEPT ![c] = <<c_curthread[c]>> \o @]
  /\ UNCHANGED <<c_zombies, wc_threads>>

\* thread_yield with another thread to run.
Yield(c) == /\ pc[c] = "yield"
            /\ c_runqueue[c] # <<>>
            /\ EnterSwitch(c, "S_READY")
            /\ c_runqueue' = [c_runqueue EXCEPT ![c] = Append(@, c_curthread[c])]
            /\ UNCHANGED <<c_zombies, wc_threads>>

\* thread_yield with nothing to do.
YieldReturns(c) == /\ pc[c] = "yield"
                   /\ ~c_isidle[c]
                   /\ c_runqueue_lock[c] = NULL
                   /\ c_runqueue[c] = <<>>
                   /\ Goto(c, "thread")
                   /\ UNCHANGED <<c_curthread, c_isidle, c_runqueue_lock, c_ipi_pending,
                                  t_state, t_cpu, mig, queues>>

\* exorcise, on the stack of the thread that was switched to.
Exorcised(c, states) == [t \in Threads |-> IF t \in Elems(c_zombies[c]) THEN "FREE"
                                           ELSE states[t]]

\* The switch to the next thread, up to the end of thread_switch or into
\* thread_startup.
Switch(c) ==
  /\ pc[c] = "switch"
  /\ c_runqueue[c] # <<>>
  /\ LET next == Head(c_runqueue[c]) IN
       /\ c_curthread' = [c_curthread EXCEPT ![c] = next]
       /\ t_state' = Exorcised(c, [t_state EXCEPT ![next] = "S_RUN"])
  /\ c_runqueue' = [c_runqueue EXCEPT ![c] = Tail(@)]
  /\ c_isidle' = [c_isidle EXCEPT ![c] = FALSE]
  /\ c_runqueue_lock' = [c_runqueue_lock EXCEPT ![c] = NULL]
  /\ c_zombies' = [c_zombies EXCEPT ![c] = <<>>]
  /\ Goto(c, "thread")
  /\ UNCHANGED <<c_ipi_pending, t_cpu, wc_threads, list, mig>>

\* Nothing to run: into cpu_idle, on the old thread's stack.
Idle(c) == /\ pc[c] = "switch"
           /\ c_runqueue[c] = <<>>
           /\ c_runqueue_lock' = [c_runqueue_lock EXCEPT ![c] = NULL]
           /\ Goto(c, "idle")
           /\ UNCHANGED <<c_curthread, c_isidle, c_ipi_pending, t_state, t_cpu, mig, queues>>

\* cpu_idle returns after an interrupt (where thread_yield did nothing, if it
\* was the clock's) and the loop goes round.
Unidle(c) == /\ pc[c] \in {"intr", "yield"}
             /\ c_isidle[c]
             /\ c_runqueue_lock[c] = NULL
             /\ c_runqueue_lock' = [c_runqueue_lock EXCEPT ![c] = c]
             /\ Goto(c, "switch")
             /\ UNCHANGED <<c_curthread, c_isidle, c_ipi_pending, t_state, t_cpu, mig, queues>>

-----------------------------------------------------------------------------
\* hardclock, on one of its ticks with migration or on one without; a thread
\* that calls thread_yield itself does the latter.
Tick(c) == /\ pc[c] \in {"thread", "idle"}
           /\ \E l \in {"count", "yield"} : Goto(c, l)
           /\ UNCHANGED <<c_curthread, c_isidle, c_runqueue_lock, c_ipi_pending,
                          t_state, t_cpu, mig, queues>>

\* Any other interrupt; interprocessor_interrupt clears c_ipi_pending.  What a
\* handler does beside running threads is the same as what a thread may do.
Interrupt(c) == /\ \/ pc[c] = "idle" /\ Goto(c, "intr")
                   \/ pc[c] = "thread" /\ c_ipi_pending[c] /\ UNCHANGED pc
                /\ c_ipi_pending' = [c_ipi_pending EXCEPT ![c] = FALSE]
                /\ UNCHANGED <<c_curthread, c_isidle, c_runqueue_lock, t_state, t_cpu, mig, queues>>

\* The callers of the channel take its spinlock, and may only look.
Lock(c) == /\ pc[c] \in {"thread", "intr"}
           /\ \A d \in Cpus : pc[d] \notin {"lk", "waking"}
           /\ Goto(c, "lk")
           /\ UNCHANGED <<c_curthread, c_isidle, c_runqueue_lock, c_ipi_pending,
                          t_state, t_cpu, mig, queues>>

\* wchan_wakeone and wchan_wakeall: the threads leave the channel...
Wake(c, n) == /\ pc[c] = "lk"
              /\ n <= Len(wc_threads)
              /\ list' = [list EXCEPT ![c] = SubSeq(wc_threads, 1, n)]
              /\ wc_threads' = SubSeq(wc_threads, n + 1, Len(wc_threads))
              /\ Goto(c, "waking")
              /\ UNCHANGED <<c_curthread, c_isidle, c_runqueue, c_zombies, c_runqueue_lock,
                             c_ipi_pending, t_state, t_cpu, mig>>

\* ... and are made runnable one by one, each on its own CPU.
WakeNext(c) == /\ pc[c] = "waking"
               /\ list[c] # <<>>
               /\ MakeRunnable(c, Head(list[c]))
               /\ list' = [list EXCEPT ![c] = Tail(@)]
               /\ UNCHANGED <<c_curthread, c_isidle, c_zombies, c_runqueue_lock, t_cpu,
                              wc_threads, pc, mig>>

Unlock(c) == /\ pc[c] \in {"lk", "waking"}
             /\ list[c] = <<>>
             /\ Return(c)
             /\ UNCHANGED <<c_curthread, c_isidle, c_runqueue_lock, c_ipi_pending,
                            t_state, t_cpu, mig, queues>>

-----------------------------------------------------------------------------
(* thread_consider_migration, in a clock interrupt on CPU c. *)

\* The counts are read under one run-queue lock after the other.
Count(c) == /\ pc[c] = "count"
            /\ LET i == mig[c].i
                   n == Len(c_runqueue[i])
               IN  /\ c_runqueue_lock[i] = NULL
                   /\ mig' = [mig EXCEPT ![c].i = i + 1, ![c].total_count = @ + n,
                                         ![c].my_count = IF i = c THEN n ELSE @]
                   /\ Goto(c, IF i + 1 = CpuCount THEN "take" ELSE "count")
            /\ UNCHANGED <<c_curthread, c_isidle, c_runqueue_lock, c_ipi_pending,
                           t_state, t_cpu, queues>>

OneShare(c) == (mig[c].total_count + CpuCount - 1) \div CpuCount

Enough(c) == mig[c].my_count >= OneShare(c)

\* Not enough threads of its own: hardclock goes on to thread_yield.
FewThreads(c) == /\ pc[c] = "take"
                 /\ ~Enough(c)
                 /\ mig' = [mig EXCEPT ![c] = NoMig]
                 /\ Goto(c, "yield")
                 /\ UNCHANGED <<c_curthread, c_isidle, c_runqueue_lock, c_ipi_pending,
                                t_state, t_cpu, queues>>

\* The victims leave the tail of the run queue, keeping their order.
Take(c) == /\ pc[c] = "take"
           /\ Enough(c)
           /\ c_runqueue_lock[c] = NULL
           /\ LET to_send == mig[c].my_count - OneShare(c)
                  keep == Len(c_runqueue[c]) - to_send
              IN  /\ mig' = [mig EXCEPT ![c].i = 0, ![c].to_send = to_send,
                               ![c].victims = SubSeq(c_runqueue[c], keep + 1, keep + to_send)]
                  /\ c_runqueue' = [c_runqueue EXCEPT ![c] = SubSeq(@, 1, keep)]
           /\ Goto(c, "send")
           /\ UNCHANGED <<c_curthread, c_isidle, c_zombies, c_runqueue_lock, c_ipi_pending,
                          t_state, t_cpu, wc_threads, list>>

\* The loop over the other CPUs: lock the next one's run queue, or leave.
Send(c) == /\ pc[c] = "send"
           /\ LET i == mig[c].i IN
                IF i = CpuCount \/ mig[c].to_send = 0
                THEN Goto(c, "back") /\ UNCHANGED <<c_runqueue_lock, mig>>
                ELSE IF i = c
                THEN mig' = [mig EXCEPT ![c].i = i + 1] /\ UNCHANGED <<c_runqueue_lock, pc>>
                ELSE /\ c_runqueue_lock[i] = NULL
                     /\ c_runqueue_lock' = [c_runqueue_lock EXCEPT ![i] = c]
                     /\ Goto(c, "move")
                     /\ UNCHANGED mig
           /\ UNCHANGED <<c_curthread, c_isidle, c_ipi_pending, t_state, t_cpu, queues>>

\* The inner loop goes on.
Room(c) == Len(c_runqueue[mig[c].i]) < OneShare(c) /\ mig[c].to_send > 0

Skipped(c, t) == t = c_curthread[c]

LeftAll(c) == mig[c].to_send                           \* mutant: no to_send--
LeftToSend(c) == mig[c].to_send - 1

\* curthread may be among the victims, when the CPU idles on its stack: skip it.
Skip(c) == /\ pc[c] = "move"
           /\ Room(c)
           /\ Skipped(c, Head(mig[c].victims))
           /\ mig' = [mig EXCEPT ![c].to_send = LeftToSend(c), ![c].victims = Append(Tail(@), Head(@))]
           /\ UNCHANGED <<c_curthread, c_isidle, c_runqueue_lock, c_ipi_pending,
                          t_state, t_cpu, pc, queues>>

Migrate(c) == /\ pc[c] = "move"
              /\ Room(c)
              /\ LET t == Head(mig[c].victims)
                     d == mig[c].i
                 IN  /\ ~Skipped(c, t)
                     /\ t_cpu' = [t_cpu EXCEPT ![t] = d]
                     /\ c_runqueue' = [c_runqueue EXCEPT ![d] = Append(@, t)]
                     /\ c_ipi_pending' = [c_ipi_pending EXCEPT ![d] = @ \/ NeedsIpi(c, d)]
              /\ mig' = [mig EXCEPT ![c].to_send = LeftToSend(c), ![c].victims = Tail(@)]
              /\ UNCHANGED <<c_curthread, c_isidle, c_zombies, c_runqueue_lock, t_state,
                             wc_threads, pc, list>>

Sent(c) == /\ pc[c] = "move"
           /\ ~Room(c)
           /\ c_runqueue_lock' = [c_runqueue_lock EXCEPT ![mig[c].i] = NULL]
           /\ mig' = [mig EXCEPT ![c].i = @ + 1]
           /\ Goto(c, "send")
           /\ UNCHANGED <<c_curthread, c_isidle, c_ipi_pending, t_state, t_cpu, queues>>

NoLeftovers(c) == <<>>                                 \* mutant: victims are lost
Leftovers(c) == mig[c].victims

\* The leftovers return to the CPU's own run queue; hardclock goes on.
PutBack(c) == /\ pc[c] = "back"
              /\ mig[c].victims # <<>> => c_runqueue_lock[c] = NULL
              /\ c_runqueue' = [c_runqueue EXCEPT ![c] = @ \o Leftovers(c)]
              /\ mig' = [mig EXCEPT ![c] = NoMig]
              /\ Goto(c, "yield")
              /\ UNCHANGED <<c_curthread, c_isidle, c_zombies, c_runqueue_lock, c_ipi_pending,
                             t_state, t_cpu, wc_threads, list>>

-----------------------------------------------------------------------------
\* The steps a CPU takes without waiting for its thread or a device to act.
Continue(c) == \/ Switch(c) \/ Idle(c) \/ Unidle(c) \/ Yield(c) \/ YieldReturns(c)
               \/ WakeNext(c) \/ Unlock(c) \/ Sleep(c)
               \/ Count(c) \/ FewThreads(c) \/ Take(c) \/ Send(c)
               \/ Skip(c) \/ Migrate(c) \/ Sent(c) \/ PutBack(c)

Act(c) == \/ Exit(c) \/ Tick(c) \/ Interrupt(c) \/ Lock(c)
          \/ \E t \in Threads : Fork(c, t)
          \/ Wake(c, 1) \/ Wake(c, Len(wc_threads))

Next == \E c \in Cpus : Continue(c) \/ Act(c)

\* CPUs execute, and one that spins on a run queue's lock gets it if it keeps
\* becoming free; the clock of each keeps interrupting, and its interrupt stays
\* pending until it is taken, whatever else the CPU does.
Fairness == \A c \in Cpus : SF_vars(Continue(c)) /\ SF_vars(Tick(c))

SafeSpec == Init /\ [][Next]_vars
Spec == SafeSpec /\ Fairness
-----------------------------------------------------------------------------
\* Every variable has its type.
TypeOK == /\ c_curthread \in [Cpus -> Threads]
          /\ c_isidle \in [Cpus -> BOOLEAN]
          /\ c_runqueue \in [Cpus -> Seq(Threads)]
          /\ c_zombies \in [Cpus -> Seq(Threads)]
          /\ c_runqueue_lock \in [Cpus -> Cpus \cup {NULL}]
          /\ c_ipi_pending \in [Cpus -> BOOLEAN]
          /\ t_state \in [Threads -> {"FREE", "S_READY", "S_RUN", "S_SLEEP", "S_ZOMBIE"}]
          /\ t_cpu \in [Threads -> Cpus \cup {NULL}]
          /\ wc_threads \in Seq(Threads)
          /\ pc \in [Cpus -> Labels]
          /\ list \in [Cpus -> Seq(Threads)]
          /\ mig \in [Cpus -> [i : 0..CpuCount, my_count : Nat, total_count : Nat,
                               to_send : Nat, victims : Seq(Threads)]]

\* No two CPUs use one thread's stack, not even one that runs a thread and one
\* that idles where that thread went to sleep: thread_consider_migration must
\* leave curthread alone, however often it was woken and the CPU interrupted.
OneStack == \A c, d \in Cpus : c_curthread[c] = c_curthread[d] => c = d

\* Where t is queued.
Occurs(s, t) == {i \in DOMAIN s : s[i] = t}
Places(t) ==
  {<<"channel", 0, i>> : i \in Occurs(wc_threads, t)} \cup
  UNION {{<<"run", c, i>> : i \in Occurs(c_runqueue[c], t)} \cup
         {<<"zombie", c, i>> : i \in Occurs(c_zombies[c], t)} \cup
         {<<"woken", c, i>> : i \in Occurs(list[c], t)} \cup
         {<<"victim", c, i>> : i \in Occurs(mig[c].victims, t)} : c \in Cpus}

\* Every thread is in one place.  Two CPUs share no stack.  A thread that runs, or
\* is freed, is queued nowhere, and no CPU is on a freed stack; any other thread is
\* in one queue, once: a sleeper on the channel or on its waker's list, a ready
\* thread on its CPU's run queue or among its CPU's victims, a zombie where its own
\* CPU will find it.
OnePlace == OneStack /\ \A t \in Threads :
  CASE t_state[t] = "FREE"  -> Places(t) = {} /\ t \notin Elems(c_curthread)
    [] t_state[t] = "S_RUN" -> Places(t) = {} /\ c_curthread[t_cpu[t]] = t
    [] OTHER -> \E p \in Places(t) :
         /\ Places(t) = {p}
         /\ t_state[t] = "S_SLEEP" <=> p[1] \in {"channel", "woken"}
         /\ t_state[t] = "S_READY" => p[1] \in {"run", "victim"} /\ p[2] = t_cpu[t]
         /\ t_state[t] = "S_ZOMBIE" => p[1] = "zombie" /\ p[2] = t_cpu[t]

\* No CPU waits in cpu_idle with a thread on its run queue, unless the interrupt
\* that will make it look again is on its way.
NoIdleWork == \A c \in Cpus :
  pc[c] = "idle" /\ c_runqueue[c] # <<>> => c_ipi_pending[c]

\* The lists threadlist_remtail and threadlist_remhead take victims from do not
\* run out (they would return NULL, which is dereferenced), though the counts
\* were read under locks long released.
VictimsSuffice == \A c \in Cpus :
  /\ pc[c] = "take" => mig[c].my_count <= Len(c_runqueue[c])
  /\ pc[c] \in {"send", "move"} => mig[c].to_send <= Len(mig[c].victims)

\* Threads are as RunStates has them.  A thread woken or migrated is ready; one
\* whose CPU is choosing the next no longer runs.
stateBar == [t \in Threads |->
  IF t_state[t] = "FREE" THEN "none"
  ELSE IF \E c \in Cpus : c_curthread[c] = t /\ ~c_isidle[c] THEN "running"
  ELSE IF t \in Elems(wc_threads) THEN "asleep"
  ELSE IF t_state[t] = "S_ZOMBIE" THEN "dead" ELSE "ready"]
Abstract == INSTANCE RunStates WITH state <- stateBar, channel <- wc_threads,
                                    First <- Elems(Boot)

\* The scheduler implements RunStates: sleeping is atomic with giving up the
\* channel's spinlock, no wake-up is lost or taken out of order, and never more
\* threads run than there are CPUs.  While a CPU is free and threads are ready,
\* threads go on being dispatched, somewhere: which thread, and by which CPU, it
\* does not say.
ImplementsRunStates == Abstract!Spec

\* No thread stays on a run queue for ever: its CPU gets to it, or a migration
\* takes it, to another CPU or back to the end of the queue.  Another CPU may idle
\* all the while, for migration does not count running threads (thread.c:863-880).
\* That every thread gets its turn rests on the order of the queue alone: schedule()
\* is empty ("threads will run in round-robin fashion", thread.c:832).
OnRunQueue(t) == \E c \in Cpus : t \in Elems(c_runqueue[c])
LeavesRunQueue == \A t \in Threads : OnRunQueue(t) ~> ~OnRunQueue(t)
=============================================================================
