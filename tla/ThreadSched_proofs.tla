------------------------- MODULE ThreadSched_proofs -------------------------
(***************************************************************************)
(* Proofs about ThreadSched, for any number of CPUs and any set of         *)
(* threads: every thread is in one place and no two CPUs share a stack, no *)
(* CPU idles beside a thread it was never told of, migration never runs    *)
(* out of victims, and the scheduler steps as RunStates allows.            *)
(***************************************************************************)
EXTENDS ThreadSched, FiniteSetTheorems, SequenceTheorems, TLAPS

Injective(s) == \A i, j \in DOMAIN s : i # j => s[i] # s[j]

\* The threads CPU c has to run: those on its run queue and those it has taken
\* off it to migrate.
Runnable(c) == Elems(c_runqueue[c]) \cup Elems(mig[c].victims)

\* No queue holds a thread twice, and no thread is on two of the queues that
\* hold threads in the same state.
Once == /\ Injective(wc_threads)
        /\ \A c \in Cpus : /\ Injective(c_runqueue[c]) /\ Injective(c_zombies[c])
                           /\ Injective(list[c]) /\ Injective(mig[c].victims)
                           /\ Elems(c_runqueue[c]) \cap Elems(mig[c].victims) = {}
                           /\ Elems(wc_threads) \cap Elems(list[c]) = {}
        /\ \A c, d \in Cpus : c # d => Elems(list[c]) \cap Elems(list[d]) = {}

\* The state of a thread says in which queue it is, and its t_cpu of which CPU.
SleepersQueued == \A t \in Threads :
  t_state[t] = "S_SLEEP" <=> \/ t \in Elems(wc_threads)
                             \/ \E c \in Cpus : t \in Elems(list[c])
ReadyQueued == \A t \in Threads, c \in Cpus :
  t \in Runnable(c) <=> t_state[t] = "S_READY" /\ t_cpu[t] = c
DeadQueued == \A t \in Threads, c \in Cpus :
  t \in Elems(c_zombies[c]) <=> t_state[t] = "S_ZOMBIE" /\ t_cpu[t] = c
Placed == \A t \in Threads : t_state[t] # "FREE" => t_cpu[t] \in Cpus

\* A thread a CPU runs or idles on belongs to that CPU, so no other uses its
\* stack; it runs unless the CPU is between threads.
OnCpu == /\ \A t \in Threads : t_state[t] = "S_RUN" => /\ c_curthread[t_cpu[t]] = t
                                                       /\ ~c_isidle[t_cpu[t]]
         /\ \A c \in Cpus : /\ t_cpu[c_curthread[c]] = c
                            /\ t_state[c_curthread[c]] # "FREE"
                            /\ ~c_isidle[c] => t_state[c_curthread[c]] = "S_RUN"

\* What a CPU may hold, and what it may rely on, at each of its steps.  While it
\* counts, others may only add to its run queue once it has read its length; the
\* last two conjuncts but one are VictimsSuffice, the last is NoIdleWork.
Stage(c) == /\ pc[c] \in {"switch", "idle", "intr"} => c_isidle[c]
            /\ pc[c] = "thread" => ~c_isidle[c]
            /\ list[c] # <<>> => pc[c] = "waking"
            /\ pc[c] \notin {"send", "move", "back"} => mig[c].victims = <<>>
            /\ pc[c] \notin {"count", "take", "send", "move", "back"} => mig[c] = NoMig
            /\ pc[c] \in {"count", "move"} => mig[c].i < CpuCount
            /\ pc[c] = "move" => mig[c].i # c
            /\ pc[c] = "take" => mig[c].i = CpuCount
            /\ pc[c] = "count" /\ c < mig[c].i => mig[c].my_count <= Len(c_runqueue[c])
            /\ pc[c] = "take" => mig[c].my_count <= Len(c_runqueue[c])
            /\ pc[c] \in {"send", "move"} => mig[c].to_send <= Len(mig[c].victims)
            /\ pc[c] = "idle" /\ c_runqueue[c] # <<>> => c_ipi_pending[c]
Stages == \A c \in Cpus : Stage(c)

Queued == Once /\ SleepersQueued /\ ReadyQueued /\ DeadQueued /\ Placed

SchedInv == TypeOK /\ Queued /\ OnCpu /\ Stages

-----------------------------------------------------------------------------
(* Sequences without repetition.                                           *)

LEMMA EmptyElems == Elems(<<>>) = {} /\ Injective(<<>>)
BY DEF Elems, Injective

\* threadlist_remhead: the others stay, once each.
LEMMA TailElems ==
  ASSUME NEW S, NEW s \in Seq(S), s # <<>>, Injective(s)
  PROVE  /\ Head(s) \in S /\ Head(s) \in Elems(s)
         /\ Tail(s) \in Seq(S) /\ Injective(Tail(s))
         /\ Elems(Tail(s)) = Elems(s) \ {Head(s)}
         /\ Len(Tail(s)) = Len(s) - 1
<1>1. /\ Len(s) \in Nat /\ Len(s) > 0 /\ DOMAIN s = 1..Len(s) /\ Head(s) = s[1]
      /\ s[1] \in S
  OBVIOUS
<1>2. /\ Tail(s) \in Seq(S) /\ Len(Tail(s)) = Len(s) - 1
      /\ DOMAIN Tail(s) = 1..(Len(s) - 1)
      /\ \A i \in 1..(Len(s) - 1) : Tail(s)[i] = s[i + 1]
  BY <1>1
<1>3. Injective(Tail(s))
  BY <1>1, <1>2 DEF Injective
<1>4. \A x \in Elems(Tail(s)) : x \in Elems(s) /\ x # Head(s)
  BY <1>1, <1>2 DEF Elems, Injective
<1>5. ASSUME NEW i \in DOMAIN s, s[i] # Head(s) PROVE s[i] \in Elems(Tail(s))
  <2>1. i - 1 \in DOMAIN Tail(s) /\ Tail(s)[i - 1] = s[i]
    BY <1>1, <1>2, <1>5
  <2> QED
    BY <2>1 DEF Elems
<1>6. Elems(Tail(s)) = Elems(s) \ {Head(s)}
  <2>1. \A x \in Elems(s) : \E i \in DOMAIN s : x = s[i]
    BY DEF Elems
  <2> QED
    BY <1>4, <1>5, <2>1
<1>7. Head(s) \in Elems(s)
  BY <1>1 DEF Elems
<1>8. Head(s) \in S
  BY <1>1
<1> QED
  BY <1>2, <1>3, <1>6, <1>7, <1>8

\* threadlist_addtail, of a thread that is not there.
LEMMA AppendElems ==
  ASSUME NEW S, NEW s \in Seq(S), NEW x \in S, x \notin Elems(s), Injective(s)
  PROVE  /\ Append(s, x) \in Seq(S) /\ Injective(Append(s, x))
         /\ Elems(Append(s, x)) = Elems(s) \cup {x}
         /\ Len(Append(s, x)) = Len(s) + 1 /\ Append(s, x) # <<>>
<1> DEFINE a == Append(s, x)
<1>1. /\ Len(s) \in Nat /\ DOMAIN s = 1..Len(s)
      /\ a \in Seq(S) /\ DOMAIN a = 1..(Len(s) + 1) /\ Len(a) = Len(s) + 1
      /\ \A i \in 1..Len(s) : a[i] = s[i]
      /\ a[Len(s) + 1] = x
  OBVIOUS
<1>2. \A i \in 1..Len(s) : s[i] # x
  BY <1>1 DEF Elems
<1>3. Injective(a)
  BY <1>1, <1>2 DEF Injective
<1>4. Elems(a) = Elems(s) \cup {x}
  <2>1. \A y \in Elems(a) : y \in Elems(s) \cup {x}
    BY <1>1 DEF Elems
  <2>2. \A y \in Elems(s) : y \in Elems(a)
    BY <1>1 DEF Elems
  <2>3. x \in Elems(a)
    BY <1>1 DEF Elems
  <2> QED
    BY <2>1, <2>2, <2>3
<1>5. a # <<>>
  BY <1>1
<1> QED
  BY <1>1, <1>3, <1>4, <1>5

\* A queue cut in two: the first n, and the rest.
LEMMA SplitElems ==
  ASSUME NEW S, NEW s \in Seq(S), Injective(s), NEW n \in 0..Len(s)
  PROVE  LET p == SubSeq(s, 1, n)
             q == SubSeq(s, n + 1, Len(s))
         IN  /\ p \in Seq(S) /\ Injective(p) /\ Len(p) = n
             /\ q \in Seq(S) /\ Injective(q) /\ Len(q) = Len(s) - n
             /\ Elems(p) \cap Elems(q) = {} /\ Elems(p) \cup Elems(q) = Elems(s)
<1> DEFINE p == SubSeq(s, 1, n)
           q == SubSeq(s, n + 1, Len(s))
<1>1. Len(s) \in Nat /\ n \in Nat /\ n <= Len(s) /\ DOMAIN s = 1..Len(s)
  OBVIOUS
<1>2. /\ p \in Seq(S) /\ Len(p) = n /\ DOMAIN p = 1..n
      /\ \A i \in 1..n : p[i] = s[i]
  BY <1>1
<1>3. /\ q \in Seq(S) /\ Len(q) = Len(s) - n /\ DOMAIN q = 1..(Len(s) - n)
      /\ \A i \in 1..(Len(s) - n) : q[i] = s[n + i]
  <2>1. \A i \in (n + 1)..Len(s) : s[i] \in S
    BY <1>1
  <2>2. /\ q \in Seq(S) /\ Len(q) = IF n + 1 <= Len(s) THEN Len(s) - (n + 1) + 1 ELSE 0
        /\ \A i \in 1..(Len(s) - (n + 1) + 1) : q[i] = s[(n + 1) + i - 1]
    BY <1>1, <2>1, SubSeqProperties
  <2> HIDE DEF q
  <2>3. Len(q) = Len(s) - n
    <3>1. \A l \in Nat : n <= l =>
            (IF n + 1 <= l THEN l - (n + 1) + 1 ELSE 0) = l - n
      <4> SUFFICES ASSUME NEW l \in Nat, n <= l
                   PROVE  (IF n + 1 <= l THEN l - (n + 1) + 1 ELSE 0) = l - n
        OBVIOUS
      <4> QED
        BY <1>1
    <3> QED
      BY <1>1, <2>2, <3>1, Zenon
  <2>4. DOMAIN q = 1..(Len(s) - n)
    BY <2>2, <2>3
  <2>5. ASSUME NEW i \in 1..(Len(s) - n) PROVE q[i] = s[n + i]
    <3>1. i \in 1..(Len(s) - (n + 1) + 1) /\ (n + 1) + i - 1 = n + i
      BY <1>1
    <3> QED
      BY <2>2, <3>1
  <2> QED
    BY <2>2, <2>3, <2>4, <2>5
<1> HIDE DEF p, q
<1>4. Injective(p) /\ Injective(q)
  <2>1. Injective(p)
    BY <1>1, <1>2 DEF Injective
  <2>2. \A i \in DOMAIN q : n + i \in DOMAIN s /\ q[i] = s[n + i] /\ i \in Nat
    BY <1>1, <1>3
  <2>3. Injective(q)
    BY <1>1, <2>2 DEF Injective
  <2> QED
    BY <2>1, <2>3
<1>5. Elems(p) \cap Elems(q) = {}
  <2>1. \A i \in DOMAIN p, j \in DOMAIN q : p[i] # q[j]
    <3>1. ASSUME NEW i \in DOMAIN p, NEW j \in DOMAIN q PROVE p[i] # q[j]
      <4>1. i \in DOMAIN s /\ n + j \in DOMAIN s /\ i # n + j
        BY <1>1, <1>2, <1>3
      <4> QED
        BY <1>2, <1>3, <4>1 DEF Injective
    <3> QED
      BY <3>1
  <2> QED
    BY <2>1 DEF Elems
<1>6. \A x \in Elems(p) \cup Elems(q) : x \in Elems(s)
  <2>1. \A i \in DOMAIN p : i \in DOMAIN s /\ p[i] = s[i]
    BY <1>1, <1>2
  <2>2. \A i \in DOMAIN q : n + i \in DOMAIN s /\ q[i] = s[n + i]
    BY <1>1, <1>3
  <2> QED
    BY <2>1, <2>2 DEF Elems
<1>7. ASSUME NEW i \in DOMAIN s PROVE s[i] \in Elems(p) \cup Elems(q)
  <2>1. CASE i <= n
    BY <1>1, <1>2, <2>1 DEF Elems
  <2>2. CASE i > n
    <3>1. i - n \in 1..(Len(s) - n) /\ q[i - n] = s[i]
      BY <1>1, <1>3, <2>2
    <3> QED
      BY <1>3, <3>1 DEF Elems
  <2> QED
    BY <1>1, <2>1, <2>2
<1>8. Elems(p) \cup Elems(q) = Elems(s)
  <2>1. \A x \in Elems(s) : \E i \in DOMAIN s : x = s[i]
    BY DEF Elems
  <2> QED
    BY <1>6, <1>7, <2>1
<1> QED
  BY <1>2, <1>3, <1>4, <1>5, <1>8 DEF p, q

\* Two queues with nothing in common, joined.
LEMMA JoinElems ==
  ASSUME NEW S, NEW s \in Seq(S), NEW r \in Seq(S), Injective(s), Injective(r),
         Elems(s) \cap Elems(r) = {}
  PROVE  /\ s \o r \in Seq(S) /\ Injective(s \o r)
         /\ Elems(s \o r) = Elems(s) \cup Elems(r)
         /\ Len(s \o r) = Len(s) + Len(r)
<1> DEFINE a == s \o r
<1>1. /\ Len(s) \in Nat /\ DOMAIN s = 1..Len(s) /\ Len(r) \in Nat /\ DOMAIN r = 1..Len(r)
      /\ a \in Seq(S) /\ DOMAIN a = 1..(Len(s) + Len(r)) /\ Len(a) = Len(s) + Len(r)
      /\ \A i \in 1..(Len(s) + Len(r)) : a[i] = IF i <= Len(s) THEN s[i] ELSE r[i - Len(s)]
  OBVIOUS
<1> HIDE DEF a
<1>2. \A i \in DOMAIN s : \A j \in DOMAIN r : s[i] # r[j]
  BY DEF Elems
<1>3. \A i \in DOMAIN a : (i \in DOMAIN s /\ a[i] = s[i])
                          \/ (i - Len(s) \in DOMAIN r /\ a[i] = r[i - Len(s)])
  BY <1>1
<1>4. Injective(a)
  BY <1>1, <1>2, <1>3 DEF Injective
<1>5. \A x \in Elems(a) : x \in Elems(s) \cup Elems(r)
  BY <1>3 DEF Elems
<1>6. \A i \in DOMAIN s : i \in DOMAIN a /\ a[i] = s[i]
  BY <1>1
<1>7. \A i \in DOMAIN r : i + Len(s) \in DOMAIN a /\ a[i + Len(s)] = r[i]
  BY <1>1
<1>8. \A x \in Elems(s) \cup Elems(r) : x \in Elems(a)
  BY <1>6, <1>7 DEF Elems
<1> QED
  BY <1>1, <1>4, <1>5, <1>8 DEF a

\* What a queue of threads holds are threads.
LEMMA ElemsIn == ASSUME NEW S, NEW s \in Seq(S)
                 PROVE  Elems(s) \subseteq S /\ (s = <<>> <=> Elems(s) = {}) /\ Len(s) \in Nat
<1>1. Len(s) \in Nat /\ DOMAIN s = 1..Len(s) /\ \A i \in 1..Len(s) : s[i] \in S
  OBVIOUS
<1>2. Elems(s) \subseteq S
  BY <1>1 DEF Elems
<1>3. ASSUME s # <<>> PROVE Elems(s) # {}
  <2>1. 1 \in DOMAIN s
    BY <1>1, <1>3
  <2> QED
    BY <2>1 DEF Elems
<1> QED
  BY <1>1, <1>2, <1>3, EmptyElems

-----------------------------------------------------------------------------
(* What does not change.                                                   *)

LEMMA CpusNat == /\ CpuCount \in Nat /\ CpuCount > 0
                 /\ \A c \in Cpus : c \in Nat /\ c < CpuCount /\ c \in 0..CpuCount
                 /\ NULL \notin Cpus /\ NULL \notin Threads
BY SchedAssumption DEF Cpus

\* The types, one CPU at a time.
LEMMA Types ==
  ASSUME TypeOK, NEW c \in Cpus
  PROVE  /\ c_runqueue[c] \in Seq(Threads) /\ c_zombies[c] \in Seq(Threads)
         /\ list[c] \in Seq(Threads) /\ mig[c].victims \in Seq(Threads)
         /\ wc_threads \in Seq(Threads)
         /\ c_curthread[c] \in Threads /\ pc[c] \in Labels
         /\ c_isidle[c] \in BOOLEAN /\ c_ipi_pending[c] \in BOOLEAN
         /\ mig[c] \in [i : 0..CpuCount, my_count : Nat, total_count : Nat,
                        to_send : Nat, victims : Seq(Threads)]
         /\ mig[c].i \in Nat /\ mig[c].i <= CpuCount
         /\ mig[c].my_count \in Nat /\ mig[c].total_count \in Nat /\ mig[c].to_send \in Nat
         /\ Len(c_runqueue[c]) \in Nat /\ Len(mig[c].victims) \in Nat
<1>1. mig[c] \in [i : 0..CpuCount, my_count : Nat, total_count : Nat,
                  to_send : Nat, victims : Seq(Threads)]
  BY DEF TypeOK
<1>2. /\ mig[c].i \in 0..CpuCount /\ mig[c].my_count \in Nat /\ mig[c].total_count \in Nat
      /\ mig[c].to_send \in Nat /\ mig[c].victims \in Seq(Threads)
  BY <1>1
<1>3. /\ c_runqueue[c] \in Seq(Threads) /\ c_zombies[c] \in Seq(Threads)
      /\ list[c] \in Seq(Threads) /\ wc_threads \in Seq(Threads)
      /\ c_curthread[c] \in Threads /\ pc[c] \in Labels
      /\ c_isidle[c] \in BOOLEAN /\ c_ipi_pending[c] \in BOOLEAN
  BY DEF TypeOK
<1>4. Len(c_runqueue[c]) \in Nat /\ Len(mig[c].victims) \in Nat
  BY <1>2, <1>3
<1>5. mig[c].i \in Nat /\ mig[c].i <= CpuCount
  BY <1>2, CpusNat
<1> QED
  BY <1>1, <1>2, <1>3, <1>4, <1>5

\* A CPU that goes on with nothing: others may add to its run queue, and tell it
\* if it idles.
LEMMA Bystander ==
  ASSUME NEW d \in Cpus, TypeOK, Stage(d),
         pc'[d] = pc[d], c_isidle'[d] = c_isidle[d], list'[d] = list[d], mig'[d] = mig[d],
         Len(c_runqueue'[d]) \in Nat, Len(c_runqueue[d]) <= Len(c_runqueue'[d]),
         \/ c_runqueue'[d] = c_runqueue[d] /\ c_ipi_pending'[d] = c_ipi_pending[d]
         \/ c_isidle[d] => c_ipi_pending'[d]
  PROVE  Stage(d)'
<1>1. /\ Len(c_runqueue[d]) \in Nat /\ mig[d].my_count \in Nat
  BY Types
<1>2. \/ ~(pc[d] = "count" /\ d < mig[d].i)
      \/ mig[d].my_count <= Len(c_runqueue'[d])
  BY <1>1 DEF Stage
<1>3. pc[d] = "take" => mig[d].my_count <= Len(c_runqueue'[d])
  BY <1>1 DEF Stage
<1>4. pc[d] = "idle" /\ c_runqueue'[d] # <<>> => c_ipi_pending'[d]
  BY DEF Stage
<1> QED
  BY <1>2, <1>3, <1>4 DEF Stage

\* Steps that only take or leave locks, look, or move on.
LEMMA QueuesStay ==
  ASSUME Queued, OnCpu,
         UNCHANGED <<c_curthread, c_isidle, c_runqueue, c_zombies, t_state, t_cpu,
                     wc_threads, list>>,
         \A c \in Cpus : mig'[c].victims = mig[c].victims
  PROVE  Queued' /\ OnCpu'
<1>1. Once'
  BY DEF Queued, Once
<1>2. SleepersQueued' /\ DeadQueued' /\ Placed' /\ OnCpu'
  BY DEF Queued, SleepersQueued, DeadQueued, Placed, OnCpu
<1>3. \A c \in Cpus : Runnable(c)' = Runnable(c)
  BY DEF Runnable
<1>4. ReadyQueued'
  BY <1>3 DEF Queued, ReadyQueued
<1> QED
  BY <1>1, <1>2, <1>4 DEF Queued

\* A CPU that stops running its thread: whatever queue that thread goes to.
LEMMA SwitchedOut ==
  ASSUME SchedInv, NEW c \in Cpus, NEW newstate \in {"S_SLEEP", "S_ZOMBIE", "S_READY"},
         EnterSwitch(c, newstate), pc[c] \in {"lk", "thread", "yield"},
         \A d \in Cpus : d # c => c_runqueue'[d] = c_runqueue[d]
  PROVE  /\ c_curthread[c] \in Threads
         /\ t_state[c_curthread[c]] = "S_RUN" /\ t_cpu[c_curthread[c]] = c
         /\ t_state'[c_curthread[c]] = newstate
         /\ \A t \in Threads : t # c_curthread[c] => t_state'[t] = t_state[t]
         /\ t_cpu' = t_cpu /\ list' = list /\ mig' = mig /\ c_curthread' = c_curthread
         /\ t_state' \in [Threads -> {"FREE", "S_READY", "S_RUN", "S_SLEEP", "S_ZOMBIE"}]
         /\ c_isidle' \in [Cpus -> BOOLEAN] /\ pc' \in [Cpus -> Labels]
         /\ c_runqueue_lock' \in [Cpus -> Cpus \cup {NULL}]
         /\ c_ipi_pending' \in [Cpus -> BOOLEAN]
         /\ OnCpu' /\ Stages'
<1>1. /\ TypeOK /\ OnCpu /\ Stages /\ ~c_isidle[c]
      /\ c_runqueue_lock' = [c_runqueue_lock EXCEPT ![c] = c]
      /\ c_isidle' = [c_isidle EXCEPT ![c] = TRUE]
      /\ t_state' = [t_state EXCEPT ![c_curthread[c]] = newstate]
      /\ pc' = [pc EXCEPT ![c] = "switch"]
      /\ c_curthread' = c_curthread /\ c_ipi_pending' = c_ipi_pending
      /\ t_cpu' = t_cpu /\ list' = list /\ mig' = mig
  BY DEF SchedInv, EnterSwitch, Goto
<1>2. /\ c_curthread[c] \in Threads
      /\ t_state[c_curthread[c]] = "S_RUN" /\ t_cpu[c_curthread[c]] = c
  BY <1>1, Types DEF OnCpu
<1>3. /\ t_state'[c_curthread[c]] = newstate
      /\ \A t \in Threads : t # c_curthread[c] => t_state'[t] = t_state[t]
      /\ t_state' \in [Threads -> {"FREE", "S_READY", "S_RUN", "S_SLEEP", "S_ZOMBIE"}]
  BY <1>1, <1>2 DEF TypeOK
<1>4. /\ c_isidle' \in [Cpus -> BOOLEAN] /\ pc' \in [Cpus -> Labels]
      /\ c_runqueue_lock' \in [Cpus -> Cpus \cup {NULL}]
      /\ c_ipi_pending' \in [Cpus -> BOOLEAN]
  BY <1>1 DEF TypeOK, Labels
<1>5. /\ c_isidle'[c] /\ pc'[c] = "switch"
      /\ \A d \in Cpus : d # c => c_isidle'[d] = c_isidle[d] /\ pc'[d] = pc[d]
  BY <1>1 DEF TypeOK
<1>6. OnCpu'
  <2>1. ASSUME NEW t \in Threads, t_state'[t] = "S_RUN"
        PROVE  c_curthread'[t_cpu'[t]] = t /\ ~c_isidle'[t_cpu'[t]]
    <3>1. t # c_curthread[c] /\ t_state[t] = "S_RUN"
      BY <1>3, <2>1
    <3>2. c_curthread[t_cpu[t]] = t /\ ~c_isidle[t_cpu[t]]
      BY <1>1, <3>1 DEF OnCpu
    <3>3. t_cpu[t] # c
      BY <3>1, <3>2
    <3> QED
      BY <1>1, <3>2, <3>3 DEF TypeOK
  <2>2. ASSUME NEW d \in Cpus
        PROVE  /\ t_cpu'[c_curthread'[d]] = d /\ t_state'[c_curthread'[d]] # "FREE"
               /\ ~c_isidle'[d] => t_state'[c_curthread'[d]] = "S_RUN"
    <3>1. c_curthread[d] \in Threads /\ t_cpu[c_curthread[d]] = d
      BY <1>1, Types DEF OnCpu
    <3>2. CASE d = c
      BY <1>1, <1>3, <1>5, <3>1, <3>2
    <3>3. CASE d # c
      <4>1. c_curthread[d] # c_curthread[c]
        BY <1>2, <3>1, <3>3
      <4> QED
        BY <1>1, <1>3, <1>5, <3>1, <3>3, <4>1 DEF OnCpu
    <3> QED
      BY <3>2, <3>3
  <2> QED
    BY <2>1, <2>2 DEF OnCpu
<1>7. Stages'
  <2>1. Stage(c)'
    BY <1>1, <1>5 DEF Stages, Stage
  <2>2. ASSUME NEW d \in Cpus, d # c PROVE Stage(d)'
    <3>1. /\ Stage(d) /\ pc'[d] = pc[d] /\ c_isidle'[d] = c_isidle[d] /\ list'[d] = list[d]
          /\ mig'[d] = mig[d] /\ c_runqueue'[d] = c_runqueue[d]
          /\ c_ipi_pending'[d] = c_ipi_pending[d] /\ Len(c_runqueue[d]) \in Nat
      BY <1>1, <1>5, <2>2, Types DEF Stages
    <3>2. Len(c_runqueue'[d]) \in Nat /\ Len(c_runqueue[d]) <= Len(c_runqueue'[d])
      BY <3>1
    <3> QED
      BY <1>1, <3>1, <3>2, Bystander
  <2> QED
    BY <2>1, <2>2 DEF Stages
<1> QED
  BY <1>1, <1>2, <1>3, <1>4, <1>6, <1>7

-----------------------------------------------------------------------------
(* Each action keeps SchedInv.                                             *)

LEMMA InitInv == Init => SchedInv
<1> SUFFICES ASSUME Init PROVE SchedInv
  OBVIOUS
<1>1. /\ NoMig \in [i : 0..CpuCount, my_count : Nat, total_count : Nat,
                    to_send : Nat, victims : Seq(Threads)]
      /\ NoMig.victims = <<>>
  <2>1. 0 \in 0..CpuCount /\ <<>> \in Seq(Threads)
    BY CpusNat
  <2> QED
    BY <2>1 DEF NoMig
<1>2. \A t \in Threads : t \in Elems(Boot) <=> \E c \in Cpus : Boot[c] = t
  BY SchedAssumption DEF Elems
<1>3. ASSUME NEW t \in Threads
      PROVE  /\ t \in Elems(Boot) => /\ t_state[t] = "S_RUN" /\ t_cpu[t] \in Cpus
                                     /\ Boot[t_cpu[t]] = t
             /\ t \notin Elems(Boot) => t_state[t] = "FREE" /\ t_cpu[t] = NULL
  BY <1>2 DEF Init
<1>4. \A c \in Cpus : Boot[c] \in Threads /\ Boot[c] \in Elems(Boot) /\ t_cpu[Boot[c]] = c
  <2>1. ASSUME NEW c \in Cpus
        PROVE  Boot[c] \in Threads /\ Boot[c] \in Elems(Boot) /\ t_cpu[Boot[c]] = c
    <3>1. Boot[c] \in Threads /\ Boot[c] \in Elems(Boot)
      BY <1>2, SchedAssumption
    <3>2. t_cpu[Boot[c]] \in Cpus /\ Boot[t_cpu[Boot[c]]] = Boot[c]
      BY <1>3, <3>1
    <3> QED
      BY <3>1, <3>2, SchedAssumption
  <2> QED
    BY <2>1
<1>5. TypeOK
  <2>1. t_cpu \in [Threads -> Cpus \cup {NULL}]
    BY <1>3 DEF Init
  <2>2. t_state \in [Threads -> {"FREE", "S_READY", "S_RUN", "S_SLEEP", "S_ZOMBIE"}]
    BY DEF Init
  <2>3. mig \in [Cpus -> [i : 0..CpuCount, my_count : Nat, total_count : Nat,
                          to_send : Nat, victims : Seq(Threads)]]
    BY <1>1 DEF Init
  <2> QED
    BY <2>1, <2>2, <2>3, SchedAssumption DEF Init, TypeOK, Labels
<1>6. Queued
  <2>1. Once
    BY <1>1, EmptyElems DEF Init, Once
  <2>2. SleepersQueued /\ DeadQueued /\ Placed
    BY <1>3, EmptyElems DEF Init, SleepersQueued, DeadQueued, Placed
  <2>3. ReadyQueued
    BY <1>1, <1>3, EmptyElems DEF Init, ReadyQueued, Runnable
  <2> QED
    BY <2>1, <2>2, <2>3 DEF Queued
<1>7. OnCpu
  <2>1. ASSUME NEW t \in Threads, t_state[t] = "S_RUN"
        PROVE  c_curthread[t_cpu[t]] = t /\ ~c_isidle[t_cpu[t]]
    <3>1. t_cpu[t] \in Cpus /\ Boot[t_cpu[t]] = t
      BY <1>3, <2>1
    <3> QED
      BY <3>1 DEF Init
  <2>2. ASSUME NEW c \in Cpus
        PROVE  /\ t_cpu[c_curthread[c]] = c /\ t_state[c_curthread[c]] = "S_RUN"
    BY <1>3, <1>4 DEF Init
  <2> QED
    BY <2>1, <2>2 DEF OnCpu
<1>8. Stages
  <2>1. \A c \in Cpus : /\ pc[c] = "thread" /\ c_isidle[c] = FALSE /\ list[c] = <<>>
                        /\ mig[c] = NoMig /\ mig[c].victims = <<>>
    BY <1>1 DEF Init
  <2> QED
    BY <2>1 DEF Stages, Stage
<1> QED
  BY <1>5, <1>6, <1>7, <1>8 DEF SchedInv

LEMMA SleepStep == ASSUME SchedInv, NEW c \in Cpus, Sleep(c) PROVE SchedInv'
<1> DEFINE u == c_curthread[c]
<1>1. /\ TypeOK /\ Queued /\ pc[c] = "lk" /\ EnterSwitch(c, "S_SLEEP")
      /\ wc_threads' = Append(wc_threads, u)
      /\ c_runqueue' = c_runqueue /\ c_zombies' = c_zombies
  BY DEF SchedInv, Sleep
<1>2. /\ u \in Threads /\ t_state[u] = "S_RUN" /\ t_cpu[u] = c /\ t_state'[u] = "S_SLEEP"
      /\ \A t \in Threads : t # u => t_state'[t] = t_state[t]
      /\ t_cpu' = t_cpu /\ list' = list /\ mig' = mig /\ c_curthread' = c_curthread
      /\ t_state' \in [Threads -> {"FREE", "S_READY", "S_RUN", "S_SLEEP", "S_ZOMBIE"}]
      /\ c_isidle' \in [Cpus -> BOOLEAN] /\ pc' \in [Cpus -> Labels]
      /\ c_runqueue_lock' \in [Cpus -> Cpus \cup {NULL}]
      /\ c_ipi_pending' \in [Cpus -> BOOLEAN]
      /\ OnCpu' /\ Stages'
  BY <1>1, SwitchedOut
<1> HIDE DEF u
<1>3. /\ u \notin Elems(wc_threads) /\ \A d \in Cpus : u \notin Elems(list[d])
  BY <1>1, <1>2 DEF Queued, SleepersQueued
<1>4. /\ wc_threads' \in Seq(Threads) /\ Injective(wc_threads')
      /\ Elems(wc_threads') = Elems(wc_threads) \cup {u}
  BY <1>1, <1>2, <1>3, AppendElems DEF TypeOK, Queued, Once
<1>5. TypeOK'
  BY <1>1, <1>2, <1>4 DEF TypeOK
<1>6. Once'
  <2>1. \A d \in Cpus : Elems(wc_threads') \cap Elems(list[d]) = {}
    BY <1>1, <1>3, <1>4 DEF Queued, Once
  <2> QED
    BY <1>1, <1>2, <1>4, <2>1 DEF Queued, Once
<1>7. SleepersQueued'
  BY <1>1, <1>2, <1>4 DEF Queued, SleepersQueued
<1>8. ReadyQueued'
  BY <1>1, <1>2 DEF Queued, ReadyQueued, Runnable
<1>9. DeadQueued' /\ Placed'
  BY <1>1, <1>2 DEF Queued, DeadQueued, Placed
<1> QED
  BY <1>2, <1>5, <1>6, <1>7, <1>8, <1>9 DEF SchedInv, Queued

LEMMA ExitStep == ASSUME SchedInv, NEW c \in Cpus, Exit(c) PROVE SchedInv'
<1> DEFINE u == c_curthread[c]
<1>1. /\ TypeOK /\ Queued /\ pc[c] = "thread" /\ EnterSwitch(c, "S_ZOMBIE")
      /\ c_zombies' = [c_zombies EXCEPT ![c] = Append(c_zombies[c], u)]
      /\ c_runqueue' = c_runqueue /\ wc_threads' = wc_threads
  BY DEF SchedInv, Exit
<1>2. /\ u \in Threads /\ t_state[u] = "S_RUN" /\ t_cpu[u] = c /\ t_state'[u] = "S_ZOMBIE"
      /\ \A t \in Threads : t # u => t_state'[t] = t_state[t]
      /\ t_cpu' = t_cpu /\ list' = list /\ mig' = mig /\ c_curthread' = c_curthread
      /\ t_state' \in [Threads -> {"FREE", "S_READY", "S_RUN", "S_SLEEP", "S_ZOMBIE"}]
      /\ c_isidle' \in [Cpus -> BOOLEAN] /\ pc' \in [Cpus -> Labels]
      /\ c_runqueue_lock' \in [Cpus -> Cpus \cup {NULL}]
      /\ c_ipi_pending' \in [Cpus -> BOOLEAN]
      /\ OnCpu' /\ Stages'
  BY <1>1, SwitchedOut
<1> HIDE DEF u
<1>3. u \notin Elems(c_zombies[c])
  BY <1>1, <1>2 DEF Queued, DeadQueued
<1>4. /\ Append(c_zombies[c], u) \in Seq(Threads) /\ Injective(Append(c_zombies[c], u))
      /\ Elems(Append(c_zombies[c], u)) = Elems(c_zombies[c]) \cup {u}
  BY <1>1, <1>2, <1>3, AppendElems DEF TypeOK, Queued, Once
<1>5. /\ Injective(c_zombies'[c]) /\ Elems(c_zombies'[c]) = Elems(c_zombies[c]) \cup {u}
      /\ \A d \in Cpus : d # c => c_zombies'[d] = c_zombies[d]
      /\ c_zombies' \in [Cpus -> Seq(Threads)]
  BY <1>1, <1>4 DEF TypeOK
<1>6. TypeOK'
  BY <1>1, <1>2, <1>5 DEF TypeOK
<1>7. Once'
  BY <1>1, <1>2, <1>5 DEF Queued, Once
<1>8. SleepersQueued' /\ Placed'
  BY <1>1, <1>2 DEF Queued, SleepersQueued, Placed
<1>9. ReadyQueued'
  BY <1>1, <1>2 DEF Queued, ReadyQueued, Runnable
<1>10. DeadQueued'
  BY <1>1, <1>2, <1>5 DEF Queued, DeadQueued
<1> QED
  BY <1>2, <1>6, <1>7, <1>8, <1>9, <1>10 DEF SchedInv, Queued

LEMMA YieldStep == ASSUME SchedInv, NEW c \in Cpus, Yield(c) PROVE SchedInv'
<1> DEFINE u == c_curthread[c]
<1>1. /\ TypeOK /\ Queued /\ pc[c] = "yield" /\ EnterSwitch(c, "S_READY")
      /\ c_runqueue' = [c_runqueue EXCEPT ![c] = Append(c_runqueue[c], u)]
      /\ c_zombies' = c_zombies /\ wc_threads' = wc_threads
      /\ \A d \in Cpus : d # c => c_runqueue'[d] = c_runqueue[d]
  BY DEF SchedInv, Yield, TypeOK
<1>2. /\ u \in Threads /\ t_state[u] = "S_RUN" /\ t_cpu[u] = c /\ t_state'[u] = "S_READY"
      /\ \A t \in Threads : t # u => t_state'[t] = t_state[t]
      /\ t_cpu' = t_cpu /\ list' = list /\ mig' = mig /\ c_curthread' = c_curthread
      /\ t_state' \in [Threads -> {"FREE", "S_READY", "S_RUN", "S_SLEEP", "S_ZOMBIE"}]
      /\ c_isidle' \in [Cpus -> BOOLEAN] /\ pc' \in [Cpus -> Labels]
      /\ c_runqueue_lock' \in [Cpus -> Cpus \cup {NULL}]
      /\ c_ipi_pending' \in [Cpus -> BOOLEAN]
      /\ OnCpu' /\ Stages'
  BY <1>1, SwitchedOut
<1> HIDE DEF u
<1>3. u \notin Elems(c_runqueue[c]) /\ \A d \in Cpus : u \notin Elems(mig[d].victims)
  BY <1>1, <1>2 DEF Queued, ReadyQueued, Runnable
<1>4. /\ Append(c_runqueue[c], u) \in Seq(Threads) /\ Injective(Append(c_runqueue[c], u))
      /\ Elems(Append(c_runqueue[c], u)) = Elems(c_runqueue[c]) \cup {u}
  BY <1>1, <1>2, <1>3, AppendElems DEF TypeOK, Queued, Once
<1>5. /\ Injective(c_runqueue'[c]) /\ Elems(c_runqueue'[c]) = Elems(c_runqueue[c]) \cup {u}
      /\ c_runqueue' \in [Cpus -> Seq(Threads)]
  BY <1>1, <1>4 DEF TypeOK
<1>6. TypeOK'
  BY <1>1, <1>2, <1>5 DEF TypeOK
<1>7. Once'
  <2>1. \A d \in Cpus : /\ Injective(c_runqueue'[d])
                        /\ Elems(c_runqueue'[d]) \cap Elems(mig[d].victims) = {}
    BY <1>1, <1>3, <1>5 DEF Queued, Once
  <2> QED
    BY <1>1, <1>2, <2>1 DEF Queued, Once
<1>8. SleepersQueued' /\ DeadQueued' /\ Placed'
  BY <1>1, <1>2 DEF Queued, SleepersQueued, DeadQueued, Placed
<1>9. Runnable(c)' = Runnable(c) \cup {u} /\ \A d \in Cpus : d # c => Runnable(d)' = Runnable(d)
  BY <1>1, <1>2, <1>5 DEF Runnable
<1>10. ReadyQueued'
  BY <1>1, <1>2, <1>9 DEF Queued, ReadyQueued
<1> QED
  BY <1>2, <1>6, <1>7, <1>8, <1>10 DEF SchedInv, Queued

\* A step of CPU c alone, that moves no thread.
LEMMA QuietStep ==
  ASSUME SchedInv, NEW c \in Cpus, TypeOK', Stage(c)',
         UNCHANGED <<c_curthread, c_isidle, c_runqueue, c_zombies, t_state, t_cpu,
                     wc_threads, list>>,
         \A d \in Cpus : d # c => /\ pc'[d] = pc[d] /\ mig'[d] = mig[d]
                                  /\ c_ipi_pending'[d] = c_ipi_pending[d],
         mig'[c].victims = mig[c].victims
  PROVE  SchedInv'
<1>1. TypeOK /\ Queued /\ OnCpu /\ Stages
  BY DEF SchedInv
<1>2. \A d \in Cpus : mig'[d].victims = mig[d].victims
  OBVIOUS
<1>3. Queued' /\ OnCpu'
  BY <1>1, <1>2, QueuesStay
<1>4. ASSUME NEW d \in Cpus, d # c PROVE Stage(d)'
  <2>1. /\ Stage(d) /\ pc'[d] = pc[d] /\ c_isidle'[d] = c_isidle[d] /\ list'[d] = list[d]
        /\ mig'[d] = mig[d] /\ c_runqueue'[d] = c_runqueue[d]
        /\ c_ipi_pending'[d] = c_ipi_pending[d] /\ Len(c_runqueue[d]) \in Nat
    BY <1>1, <1>4, Types DEF Stages
  <2>2. Len(c_runqueue'[d]) \in Nat /\ Len(c_runqueue[d]) <= Len(c_runqueue'[d])
    BY <2>1
  <2> QED
    BY <1>1, <2>1, <2>2, Bystander
<1>5. Stages'
  BY <1>4 DEF Stages
<1> QED
  BY <1>3, <1>5 DEF SchedInv

\* Those that leave the locals of migration alone.
LEMMA MoveOn ==
  ASSUME SchedInv, NEW c \in Cpus, NEW l \in Labels, Goto(c, l), Stage(c)',
         UNCHANGED <<c_curthread, c_isidle, t_state, t_cpu, mig, queues>>,
         c_runqueue_lock' \in [Cpus -> Cpus \cup {NULL}],
         c_ipi_pending' \in [Cpus -> BOOLEAN],
         \A d \in Cpus : d # c => c_ipi_pending'[d] = c_ipi_pending[d]
  PROVE  SchedInv'
<1>1. /\ TypeOK /\ pc' = [pc EXCEPT ![c] = l]
      /\ UNCHANGED <<c_curthread, c_isidle, c_runqueue, c_zombies, t_state, t_cpu,
                     wc_threads, list, mig>>
  BY DEF SchedInv, Goto, queues
<1>2. TypeOK'
  BY <1>1 DEF TypeOK
<1>3. \A d \in Cpus : d # c => pc'[d] = pc[d] /\ mig'[d] = mig[d]
  BY <1>1 DEF TypeOK
<1> QED
  BY <1>1, <1>2, <1>3, QuietStep

LEMMA YieldReturnsStep == ASSUME SchedInv, NEW c \in Cpus, YieldReturns(c) PROVE SchedInv'
<1>1. /\ TypeOK /\ Stage(c) /\ pc[c] = "yield" /\ ~c_isidle[c] /\ Goto(c, "thread")
      /\ c_runqueue_lock' = c_runqueue_lock /\ c_ipi_pending' = c_ipi_pending
      /\ UNCHANGED <<c_curthread, c_isidle, t_state, t_cpu, mig, queues>>
  BY DEF SchedInv, Stages, YieldReturns
<1>2. pc'[c] = "thread" /\ c_isidle' = c_isidle /\ list' = list /\ mig' = mig
  BY <1>1 DEF Goto, TypeOK, queues
<1>3. Stage(c)'
  BY <1>1, <1>2 DEF Stage
<1>4. c_runqueue_lock' \in [Cpus -> Cpus \cup {NULL}] /\ c_ipi_pending' \in [Cpus -> BOOLEAN]
  BY <1>1 DEF TypeOK
<1> QED
  BY <1>1, <1>3, <1>4, MoveOn DEF Labels

LEMMA IdleStep == ASSUME SchedInv, NEW c \in Cpus, Idle(c) PROVE SchedInv'
<1>1. /\ TypeOK /\ Stage(c) /\ pc[c] = "switch" /\ c_runqueue[c] = <<>> /\ Goto(c, "idle")
      /\ c_runqueue_lock' = [c_runqueue_lock EXCEPT ![c] = NULL]
      /\ c_ipi_pending' = c_ipi_pending
      /\ UNCHANGED <<c_curthread, c_isidle, t_state, t_cpu, mig, queues>>
  BY DEF SchedInv, Stages, Idle
<1>2. /\ pc'[c] = "idle" /\ c_isidle' = c_isidle /\ list' = list /\ mig' = mig
      /\ c_runqueue' = c_runqueue
  BY <1>1 DEF Goto, TypeOK, queues
<1>3. Stage(c)'
  BY <1>1, <1>2 DEF Stage
<1>4. c_runqueue_lock' \in [Cpus -> Cpus \cup {NULL}] /\ c_ipi_pending' \in [Cpus -> BOOLEAN]
  BY <1>1 DEF TypeOK
<1> QED
  BY <1>1, <1>3, <1>4, MoveOn DEF Labels

LEMMA UnidleStep == ASSUME SchedInv, NEW c \in Cpus, Unidle(c) PROVE SchedInv'
<1>1. /\ TypeOK /\ Stage(c) /\ pc[c] \in {"intr", "yield"} /\ c_isidle[c] /\ Goto(c, "switch")
      /\ c_runqueue_lock' = [c_runqueue_lock EXCEPT ![c] = c]
      /\ c_ipi_pending' = c_ipi_pending
      /\ UNCHANGED <<c_curthread, c_isidle, t_state, t_cpu, mig, queues>>
  BY DEF SchedInv, Stages, Unidle
<1>2. pc'[c] = "switch" /\ c_isidle' = c_isidle /\ list' = list /\ mig' = mig
  BY <1>1 DEF Goto, TypeOK, queues
<1>3. Stage(c)'
  BY <1>1, <1>2 DEF Stage
<1>4. c_runqueue_lock' \in [Cpus -> Cpus \cup {NULL}] /\ c_ipi_pending' \in [Cpus -> BOOLEAN]
  BY <1>1 DEF TypeOK
<1> QED
  BY <1>1, <1>3, <1>4, MoveOn DEF Labels

LEMMA TickStep == ASSUME SchedInv, NEW c \in Cpus, Tick(c) PROVE SchedInv'
<1>1. PICK l \in {"count", "yield"} : Goto(c, l)
  BY DEF Tick
<1>2. /\ TypeOK /\ Stage(c) /\ pc[c] \in {"thread", "idle"}
      /\ c_runqueue_lock' = c_runqueue_lock /\ c_ipi_pending' = c_ipi_pending
      /\ UNCHANGED <<c_curthread, c_isidle, t_state, t_cpu, mig, queues>>
  BY DEF SchedInv, Stages, Tick
<1>3. pc'[c] = l /\ c_isidle' = c_isidle /\ list' = list /\ mig' = mig
  BY <1>1, <1>2 DEF Goto, TypeOK, queues
<1>4. mig[c] = NoMig /\ mig[c].victims = <<>> /\ mig[c].i = 0 /\ list[c] = <<>>
  BY <1>2 DEF Stage, NoMig
<1>5. Stage(c)'
  BY <1>3, <1>4, CpusNat DEF Stage
<1>6. c_runqueue_lock' \in [Cpus -> Cpus \cup {NULL}] /\ c_ipi_pending' \in [Cpus -> BOOLEAN]
  BY <1>2 DEF TypeOK
<1>7. l \in Labels
  BY DEF Labels
<1> QED
  BY <1>1, <1>2, <1>5, <1>6, <1>7, MoveOn

LEMMA InterruptStep == ASSUME SchedInv, NEW c \in Cpus, Interrupt(c) PROVE SchedInv'
<1>1. /\ TypeOK /\ Stage(c)
      /\ c_runqueue_lock' = c_runqueue_lock
      /\ c_ipi_pending' = [c_ipi_pending EXCEPT ![c] = FALSE]
      /\ UNCHANGED <<c_curthread, c_isidle, t_state, t_cpu, mig, queues>>
      /\ \/ pc[c] = "idle" /\ Goto(c, "intr")
         \/ pc[c] = "thread" /\ pc' = pc
  BY DEF SchedInv, Stages, Interrupt
<1>2. /\ c_runqueue_lock' \in [Cpus -> Cpus \cup {NULL}] /\ c_ipi_pending' \in [Cpus -> BOOLEAN]
      /\ \A d \in Cpus : d # c => c_ipi_pending'[d] = c_ipi_pending[d]
      /\ c_isidle' = c_isidle /\ list' = list /\ mig' = mig
  BY <1>1 DEF TypeOK, queues
<1>3. PICK l \in {"intr", "thread"} : /\ Goto(c, l) /\ pc'[c] = l
                                      /\ l = "intr" => pc[c] = "idle"
                                      /\ l = "thread" => pc[c] = "thread"
  BY <1>1 DEF TypeOK, Goto
<1>4. Stage(c)'
  BY <1>1, <1>2, <1>3 DEF Stage
<1>5. l \in Labels
  BY DEF Labels
<1> QED
  BY <1>1, <1>2, <1>3, <1>4, <1>5, MoveOn

LEMMA LockStep == ASSUME SchedInv, NEW c \in Cpus, Lock(c) PROVE SchedInv'
<1>1. /\ TypeOK /\ Stage(c) /\ pc[c] \in {"thread", "intr"} /\ Goto(c, "lk")
      /\ c_runqueue_lock' = c_runqueue_lock /\ c_ipi_pending' = c_ipi_pending
      /\ UNCHANGED <<c_curthread, c_isidle, t_state, t_cpu, mig, queues>>
  BY DEF SchedInv, Stages, Lock
<1>2. pc'[c] = "lk" /\ c_isidle' = c_isidle /\ list' = list /\ mig' = mig
  BY <1>1 DEF Goto, TypeOK, queues
<1>3. Stage(c)'
  BY <1>1, <1>2 DEF Stage
<1>4. c_runqueue_lock' \in [Cpus -> Cpus \cup {NULL}] /\ c_ipi_pending' \in [Cpus -> BOOLEAN]
  BY <1>1 DEF TypeOK
<1> QED
  BY <1>1, <1>3, <1>4, MoveOn DEF Labels

LEMMA UnlockStep == ASSUME SchedInv, NEW c \in Cpus, Unlock(c) PROVE SchedInv'
<1>1. /\ TypeOK /\ Stage(c) /\ pc[c] \in {"lk", "waking"} /\ list[c] = <<>> /\ Return(c)
      /\ c_runqueue_lock' = c_runqueue_lock /\ c_ipi_pending' = c_ipi_pending
      /\ UNCHANGED <<c_curthread, c_isidle, t_state, t_cpu, mig, queues>>
  BY DEF SchedInv, Stages, Unlock
<1>2. PICK l \in {"yield", "thread"} : Goto(c, l) /\ (l = "thread" => ~c_isidle[c])
  BY <1>1 DEF Return
<1>3. pc'[c] = l /\ c_isidle' = c_isidle /\ list' = list /\ mig' = mig
  BY <1>1, <1>2 DEF Goto, TypeOK, queues
<1>4. Stage(c)'
  BY <1>1, <1>2, <1>3 DEF Stage
<1>5. /\ c_runqueue_lock' \in [Cpus -> Cpus \cup {NULL}] /\ c_ipi_pending' \in [Cpus -> BOOLEAN]
      /\ l \in Labels
  BY <1>1 DEF TypeOK, Labels
<1> QED
  BY <1>1, <1>2, <1>4, <1>5, MoveOn

-----------------------------------------------------------------------------
(* Migration.                                                              *)

LEMMA ShareNat == ASSUME TypeOK, NEW c \in Cpus PROVE OneShare(c) \in Nat
<1>1. /\ mig[c].total_count \in Nat /\ CpuCount \in Nat /\ CpuCount > 0
  BY Types, CpusNat
<1>2. mig[c].total_count + CpuCount - 1 \in Nat
  BY <1>1
<1>3. \A a, b \in Nat : b > 0 => a \div b \in Nat
  OBVIOUS
<1> QED
  BY <1>1, <1>2, <1>3 DEF OneShare

\* A step of migration by CPU c that moves no thread: it changes the locals of
\* thread_consider_migration, and maybe a lock.
LEMMA MigrationMovesOn ==
  ASSUME SchedInv, NEW c \in Cpus, NEW l \in Labels, NEW m, Stage(c)',
         pc' = [pc EXCEPT ![c] = l], mig' = [mig EXCEPT ![c] = m],
         m \in [i : 0..CpuCount, my_count : Nat, total_count : Nat,
                to_send : Nat, victims : Seq(Threads)],
         m.victims = mig[c].victims,
         UNCHANGED <<c_curthread, c_isidle, c_ipi_pending, t_state, t_cpu, queues>>,
         c_runqueue_lock' \in [Cpus -> Cpus \cup {NULL}]
  PROVE  SchedInv'
<1>1. /\ TypeOK
      /\ UNCHANGED <<c_curthread, c_isidle, c_runqueue, c_zombies, t_state, t_cpu,
                     wc_threads, list>>
      /\ c_ipi_pending' = c_ipi_pending
  BY DEF SchedInv, queues
<1>2. TypeOK'
  BY <1>1 DEF TypeOK
<1>3. /\ \A d \in Cpus : d # c => pc'[d] = pc[d] /\ mig'[d] = mig[d]
      /\ mig'[c].victims = mig[c].victims
  BY <1>1 DEF TypeOK
<1> QED
  BY <1>1, <1>2, <1>3, QuietStep

LEMMA CountStep == ASSUME SchedInv, NEW c \in Cpus, Count(c) PROVE SchedInv'
<1> DEFINE i == mig[c].i
           n == Len(c_runqueue[i])
           l == IF i + 1 = CpuCount THEN "take" ELSE "count"
           m == [mig[c] EXCEPT !.i = i + 1, !.total_count = @ + n,
                               !.my_count = IF i = c THEN n ELSE @]
<1>1. /\ TypeOK /\ Stage(c) /\ pc[c] = "count"
      /\ mig' = [mig EXCEPT ![c] = m] /\ pc' = [pc EXCEPT ![c] = l]
      /\ c_runqueue_lock' = c_runqueue_lock
      /\ UNCHANGED <<c_curthread, c_isidle, c_ipi_pending, t_state, t_cpu, queues>>
  <2>1. mig' = [mig EXCEPT ![c].i = i + 1, ![c].total_count = @ + n,
                           ![c].my_count = IF i = c THEN n ELSE @]
    BY DEF Count
  <2>2. mig' = [mig EXCEPT ![c] = m]
    BY <2>1 DEF SchedInv, TypeOK
  <2> QED
    BY <2>2 DEF SchedInv, Stages, Count, Goto
<1>2. /\ i \in Nat /\ i < CpuCount /\ i \in Cpus /\ n \in Nat
      /\ mig[c].victims = <<>> /\ list[c] = <<>>
  BY <1>1, Types, CpusNat DEF Stage, Cpus
<1>3. /\ m.i = i + 1 /\ m.my_count = (IF i = c THEN n ELSE mig[c].my_count)
      /\ m.victims = mig[c].victims
      /\ m \in [i : 0..CpuCount, my_count : Nat, total_count : Nat,
                to_send : Nat, victims : Seq(Threads)]
  <2>1. mig[c] \in [i : 0..CpuCount, my_count : Nat, total_count : Nat,
                    to_send : Nat, victims : Seq(Threads)]
    BY <1>1, Types
  <2>2. i + 1 \in 0..CpuCount /\ mig[c].total_count + n \in Nat
    BY <1>1, <1>2, Types, CpusNat
  <2>3. (IF i = c THEN n ELSE mig[c].my_count) \in Nat
    BY <1>1, <1>2, Types
  <2> HIDE DEF i, n
  <2> QED
    BY <2>1, <2>2, <2>3
<1> HIDE DEF m
<1>4. /\ pc'[c] = l /\ mig'[c] = m /\ list'[c] = list[c] /\ c_runqueue' = c_runqueue
      /\ c_isidle' = c_isidle /\ l \in {"take", "count"}
  BY <1>1 DEF TypeOK, queues
<1>5. c < i + 1 => m.my_count <= Len(c_runqueue[c])
  <2>1. c \in Nat /\ Len(c_runqueue[c]) \in Nat
    BY <1>1, Types, CpusNat
  <2>2. CASE i = c
    BY <1>2, <1>3, <2>1, <2>2
  <2>3. CASE i # c
    BY <1>1, <1>2, <1>3, <2>1, <2>3 DEF Stage
  <2> QED
    BY <2>2, <2>3
<1>6. Stage(c)'
  <2>1. l = "take" => i + 1 = CpuCount /\ c < i + 1
    BY <1>2, CpusNat
  <2>2. l = "count" => i + 1 < CpuCount
    BY <1>2, CpusNat
  <2>3. mig'[c].i = i + 1 /\ mig'[c].my_count = m.my_count /\ mig'[c].victims = <<>>
    BY <1>2, <1>3, <1>4
  <2> HIDE DEF l, i, n
  <2> QED
    BY <1>2, <1>4, <1>5, <2>1, <2>2, <2>3 DEF Stage
<1>7. c_runqueue_lock' \in [Cpus -> Cpus \cup {NULL}] /\ l \in Labels
  BY <1>1 DEF TypeOK, Labels
<1> QED
  BY <1>1, <1>3, <1>6, <1>7, MigrationMovesOn

LEMMA FewThreadsStep == ASSUME SchedInv, NEW c \in Cpus, FewThreads(c) PROVE SchedInv'
<1>1. /\ TypeOK /\ Stage(c) /\ pc[c] = "take"
      /\ mig' = [mig EXCEPT ![c] = NoMig] /\ pc' = [pc EXCEPT ![c] = "yield"]
      /\ c_runqueue_lock' = c_runqueue_lock
      /\ UNCHANGED <<c_curthread, c_isidle, c_ipi_pending, t_state, t_cpu, queues>>
  BY DEF SchedInv, Stages, FewThreads, Goto
<1>2. /\ NoMig \in [i : 0..CpuCount, my_count : Nat, total_count : Nat,
                    to_send : Nat, victims : Seq(Threads)]
      /\ NoMig.victims = <<>> /\ mig[c].victims = <<>> /\ list[c] = <<>>
  <2>1. 0 \in 0..CpuCount /\ <<>> \in Seq(Threads)
    BY CpusNat
  <2> QED
    BY <1>1, <2>1 DEF NoMig, Stage
<1>3. pc'[c] = "yield" /\ mig'[c] = NoMig /\ list'[c] = <<>> /\ mig'[c].victims = <<>>
  BY <1>1, <1>2 DEF TypeOK, queues
<1>4. Stage(c)'
  BY <1>3 DEF Stage
<1>5. c_runqueue_lock' \in [Cpus -> Cpus \cup {NULL}] /\ "yield" \in Labels
  BY <1>1 DEF TypeOK, Labels
<1> QED
  BY <1>1, <1>2, <1>4, <1>5, MigrationMovesOn

LEMMA SendStep == ASSUME SchedInv, NEW c \in Cpus, Send(c) PROVE SchedInv'
<1>1. /\ TypeOK /\ Stage(c) /\ pc[c] = "send" /\ list[c] = <<>>
      /\ UNCHANGED <<c_curthread, c_isidle, c_ipi_pending, t_state, t_cpu, queues>>
  BY DEF SchedInv, Stages, Stage, Send
<1>2. /\ mig[c] \in [i : 0..CpuCount, my_count : Nat, total_count : Nat,
                     to_send : Nat, victims : Seq(Threads)]
      /\ mig[c].i \in Nat /\ mig[c].i <= CpuCount /\ CpuCount \in Nat
      /\ mig[c].to_send <= Len(mig[c].victims)
  BY <1>1, Types, CpusNat DEF Stage
<1>3. CASE mig[c].i = CpuCount \/ mig[c].to_send = 0
  <2>1. /\ pc' = [pc EXCEPT ![c] = "back"] /\ mig' = [mig EXCEPT ![c] = mig[c]]
        /\ c_runqueue_lock' = c_runqueue_lock /\ list' = list
    BY <1>1, <1>3 DEF Send, Goto, TypeOK, queues
  <2>2. pc'[c] = "back" /\ mig'[c] = mig[c] /\ list'[c] = <<>>
    BY <1>1, <2>1 DEF TypeOK
  <2>3. Stage(c)'
    BY <2>2 DEF Stage
  <2>4. c_runqueue_lock' \in [Cpus -> Cpus \cup {NULL}] /\ "back" \in Labels
    BY <1>1, <2>1 DEF TypeOK, Labels
  <2> QED
    BY <1>1, <1>2, <2>1, <2>3, <2>4, MigrationMovesOn
<1>4. CASE ~(mig[c].i = CpuCount \/ mig[c].to_send = 0) /\ mig[c].i = c
  <2> DEFINE m == [mig[c] EXCEPT !.i = mig[c].i + 1]
  <2>1. /\ pc' = [pc EXCEPT ![c] = "send"] /\ mig' = [mig EXCEPT ![c] = m]
        /\ c_runqueue_lock' = c_runqueue_lock /\ list' = list
    <3>1. mig' = [mig EXCEPT ![c].i = mig[c].i + 1] /\ pc' = pc
          /\ c_runqueue_lock' = c_runqueue_lock /\ list' = list
      BY <1>1, <1>4 DEF Send, queues
    <3> QED
      BY <1>1, <3>1 DEF TypeOK
  <2>2. mig[c].i + 1 \in 0..CpuCount
    BY <1>2, <1>4
  <2>3. /\ m \in [i : 0..CpuCount, my_count : Nat, total_count : Nat,
                  to_send : Nat, victims : Seq(Threads)]
        /\ m.victims = mig[c].victims /\ m.to_send = mig[c].to_send
    BY <1>2, <2>2
  <2> HIDE DEF m
  <2>4. pc'[c] = "send" /\ mig'[c] = m /\ list'[c] = <<>>
    BY <1>1, <2>1 DEF TypeOK
  <2>5. Stage(c)'
    BY <1>2, <2>3, <2>4 DEF Stage
  <2>6. c_runqueue_lock' \in [Cpus -> Cpus \cup {NULL}] /\ "send" \in Labels
    BY <1>1, <2>1 DEF TypeOK, Labels
  <2> QED
    BY <1>1, <2>1, <2>3, <2>5, <2>6, MigrationMovesOn
<1>5. CASE ~(mig[c].i = CpuCount \/ mig[c].to_send = 0) /\ mig[c].i # c
  <2>1. /\ pc' = [pc EXCEPT ![c] = "move"] /\ mig' = [mig EXCEPT ![c] = mig[c]]
        /\ c_runqueue_lock' = [c_runqueue_lock EXCEPT ![mig[c].i] = c] /\ list' = list
    BY <1>1, <1>5 DEF Send, Goto, TypeOK, queues
  <2>2. pc'[c] = "move" /\ mig'[c] = mig[c] /\ list'[c] = <<>>
    BY <1>1, <2>1 DEF TypeOK
  <2>3. mig[c].i < CpuCount
    BY <1>2, <1>5
  <2>4. Stage(c)'
    BY <1>2, <1>5, <2>2, <2>3 DEF Stage
  <2>5. c_runqueue_lock' \in [Cpus -> Cpus \cup {NULL}] /\ "move" \in Labels
    BY <1>1, <2>1 DEF TypeOK, Labels
  <2> QED
    BY <1>1, <1>2, <2>1, <2>4, <2>5, MigrationMovesOn
<1> QED
  BY <1>3, <1>4, <1>5

LEMMA SentStep == ASSUME SchedInv, NEW c \in Cpus, Sent(c) PROVE SchedInv'
<1> DEFINE m == [mig[c] EXCEPT !.i = mig[c].i + 1]
<1>1. /\ TypeOK /\ Stage(c) /\ pc[c] = "move" /\ list[c] = <<>>
      /\ UNCHANGED <<c_curthread, c_isidle, c_ipi_pending, t_state, t_cpu, queues>>
      /\ pc' = [pc EXCEPT ![c] = "send"] /\ mig' = [mig EXCEPT ![c] = m]
      /\ c_runqueue_lock' = [c_runqueue_lock EXCEPT ![mig[c].i] = NULL] /\ list' = list
  <2>1. mig' = [mig EXCEPT ![c].i = mig[c].i + 1]
    BY DEF Sent
  <2>2. mig' = [mig EXCEPT ![c] = m]
    BY <2>1 DEF SchedInv, TypeOK
  <2> HIDE DEF m
  <2> QED
    BY <2>2 DEF SchedInv, Stages, Stage, Sent, Goto, queues
<1>2. /\ mig[c] \in [i : 0..CpuCount, my_count : Nat, total_count : Nat,
                     to_send : Nat, victims : Seq(Threads)]
      /\ mig[c].i + 1 \in 0..CpuCount
      /\ mig[c].to_send <= Len(mig[c].victims)
  BY <1>1, Types, CpusNat DEF Stage
<1>3. /\ m \in [i : 0..CpuCount, my_count : Nat, total_count : Nat,
                to_send : Nat, victims : Seq(Threads)]
      /\ m.victims = mig[c].victims /\ m.to_send = mig[c].to_send
  BY <1>2
<1> HIDE DEF m
<1>4. pc'[c] = "send" /\ mig'[c] = m /\ list'[c] = <<>>
  BY <1>1 DEF TypeOK
<1>5. Stage(c)'
  BY <1>2, <1>3, <1>4 DEF Stage
<1>6. c_runqueue_lock' \in [Cpus -> Cpus \cup {NULL}] /\ "send" \in Labels
  BY <1>1 DEF TypeOK, Labels
<1> QED
  BY <1>1, <1>3, <1>5, <1>6, MigrationMovesOn

-----------------------------------------------------------------------------
(* Threads made, woken and switched to.                                    *)

\* A thread t joins the run queue of CPU d: the other CPUs' stages stand, if d is
\* told should it idle.
LEMMA OthersStay ==
  ASSUME SchedInv, NEW c \in Cpus, NEW d \in Cpus, NEW t \in Threads,
         t \notin Elems(c_runqueue[d]),
         c_runqueue' = [c_runqueue EXCEPT ![d] = Append(c_runqueue[d], t)],
         c_ipi_pending' = [c_ipi_pending EXCEPT ![d] = c_ipi_pending[d] \/ NeedsIpi(c, d)],
         c_isidle' = c_isidle,
         \A e \in Cpus : e # c => pc'[e] = pc[e] /\ list'[e] = list[e] /\ mig'[e] = mig[e]
  PROVE  /\ c_runqueue' \in [Cpus -> Seq(Threads)] /\ c_ipi_pending' \in [Cpus -> BOOLEAN]
         /\ Injective(c_runqueue'[d]) /\ Elems(c_runqueue'[d]) = Elems(c_runqueue[d]) \cup {t}
         /\ \A e \in Cpus : e # d => c_runqueue'[e] = c_runqueue[e]
         /\ \A e \in Cpus : Injective(c_runqueue'[e])
         /\ \A e \in Cpus : e # c => Stage(e)'
         /\ Len(c_runqueue[c]) <= Len(c_runqueue'[c])
<1>1. TypeOK /\ Stages /\ Injective(c_runqueue[d]) /\ c_runqueue[d] \in Seq(Threads)
  BY Types DEF SchedInv, Queued, Once
<1>2. /\ Append(c_runqueue[d], t) \in Seq(Threads) /\ Injective(Append(c_runqueue[d], t))
      /\ Elems(Append(c_runqueue[d], t)) = Elems(c_runqueue[d]) \cup {t}
      /\ Len(Append(c_runqueue[d], t)) = Len(c_runqueue[d]) + 1
  BY <1>1, AppendElems
<1>3. /\ c_runqueue'[d] = Append(c_runqueue[d], t)
      /\ \A e \in Cpus : e # d => c_runqueue'[e] = c_runqueue[e]
      /\ c_runqueue' \in [Cpus -> Seq(Threads)]
  BY <1>1, <1>2 DEF TypeOK
<1>4. /\ c_ipi_pending' \in [Cpus -> BOOLEAN]
      /\ \A e \in Cpus : e # d => c_ipi_pending'[e] = c_ipi_pending[e]
      /\ d # c => (c_isidle[d] => c_ipi_pending'[d])
  <2>1. NeedsIpi(c, d) \in BOOLEAN
    BY DEF NeedsIpi
  <2>2. c_ipi_pending' \in [Cpus -> BOOLEAN]
    BY <1>1, <2>1 DEF TypeOK
  <2>3. \A e \in Cpus : e # d => c_ipi_pending'[e] = c_ipi_pending[e]
    BY <1>1 DEF TypeOK
  <2>4. c_ipi_pending'[d] = (c_ipi_pending[d] \/ NeedsIpi(c, d))
    BY <1>1 DEF TypeOK
  <2> QED
    BY <2>2, <2>3, <2>4 DEF NeedsIpi
<1>5. \A e \in Cpus : Injective(c_runqueue'[e])
  BY <1>2, <1>3 DEF SchedInv, Queued, Once
<1>6. \A e \in Cpus : /\ Len(c_runqueue'[e]) \in Nat
                      /\ Len(c_runqueue[e]) <= Len(c_runqueue'[e])
  <2>1. ASSUME NEW e \in Cpus PROVE /\ Len(c_runqueue'[e]) \in Nat
                                    /\ Len(c_runqueue[e]) <= Len(c_runqueue'[e])
    <3>1. Len(c_runqueue[e]) \in Nat
      BY <1>1, Types
    <3> QED
      BY <1>2, <1>3, <3>1
  <2> QED
    BY <2>1
<1>7. ASSUME NEW e \in Cpus, e # c PROVE Stage(e)'
  <2>1. /\ Stage(e) /\ pc'[e] = pc[e] /\ c_isidle'[e] = c_isidle[e] /\ list'[e] = list[e]
        /\ mig'[e] = mig[e]
    BY <1>1, <1>7 DEF Stages
  <2>2. \/ c_runqueue'[e] = c_runqueue[e] /\ c_ipi_pending'[e] = c_ipi_pending[e]
        \/ c_isidle[e] => c_ipi_pending'[e]
    BY <1>3, <1>4, <1>7
  <2> QED
    BY <1>1, <1>6, <2>1, <2>2, Bystander
<1> QED
  BY <1>2, <1>3, <1>4, <1>5, <1>6, <1>7

LEMMA ForkStep == ASSUME SchedInv, NEW c \in Cpus, NEW t \in Threads, Fork(c, t) PROVE SchedInv'
<1>1. /\ TypeOK /\ Queued /\ OnCpu /\ Stage(c) /\ Stages
      /\ pc[c] = "thread" /\ t_state[t] = "FREE"
      /\ t_cpu[c_curthread[c]] = c
      /\ c_curthread' = c_curthread /\ c_isidle' = c_isidle /\ c_zombies' = c_zombies
      /\ c_runqueue_lock' = c_runqueue_lock /\ c_ipi_pending' = c_ipi_pending
      /\ wc_threads' = wc_threads /\ pc' = pc /\ list' = list /\ mig' = mig
  BY DEF SchedInv, Stages, OnCpu, Fork
<1>2. /\ t_cpu' = [t_cpu EXCEPT ![t] = c]
      /\ t_state' = [t_state EXCEPT ![t] = "S_READY"]
      /\ c_runqueue' = [c_runqueue EXCEPT ![c] = Append(c_runqueue[c], t)]
  BY <1>1 DEF Fork
<1>3. /\ \A d \in Cpus : t \notin Runnable(d) /\ t \notin Elems(c_zombies[d])
                         /\ t \notin Elems(list[d])
      /\ t \notin Elems(wc_threads)
      /\ \A d \in Cpus : c_curthread[d] # t
  BY <1>1 DEF Queued, ReadyQueued, DeadQueued, SleepersQueued, OnCpu
<1>4. /\ t_cpu'[t] = c /\ t_state'[t] = "S_READY"
      /\ \A u \in Threads : u # t => t_cpu'[u] = t_cpu[u] /\ t_state'[u] = t_state[u]
      /\ t_cpu' \in [Threads -> Cpus \cup {NULL}]
      /\ t_state' \in [Threads -> {"FREE", "S_READY", "S_RUN", "S_SLEEP", "S_ZOMBIE"}]
  BY <1>1, <1>2 DEF TypeOK
<1>5. t \notin Elems(c_runqueue[c]) /\ t \notin Elems(mig[c].victims)
  BY <1>3 DEF Runnable
<1>6. c_ipi_pending' = [c_ipi_pending EXCEPT ![c] = c_ipi_pending[c] \/ NeedsIpi(c, c)]
  <2>1. (c_ipi_pending[c] \/ NeedsIpi(c, c)) = c_ipi_pending[c]
    <3>1. NeedsIpi(c, c) = FALSE /\ c_ipi_pending[c] \in BOOLEAN
      BY <1>1, Types DEF NeedsIpi
    <3> QED
      BY <3>1
  <2> QED
    BY <1>1, <2>1 DEF TypeOK
<1>7. /\ c_runqueue' \in [Cpus -> Seq(Threads)] /\ c_ipi_pending' \in [Cpus -> BOOLEAN]
      /\ Elems(c_runqueue'[c]) = Elems(c_runqueue[c]) \cup {t}
      /\ \A e \in Cpus : e # c => c_runqueue'[e] = c_runqueue[e]
      /\ \A e \in Cpus : Injective(c_runqueue'[e])
      /\ \A e \in Cpus : e # c => Stage(e)'
  BY <1>1, <1>2, <1>5, <1>6, OthersStay
<1>8. TypeOK'
  BY <1>1, <1>4, <1>7 DEF TypeOK
<1>9. Once'
  <2>1. \A d \in Cpus : Elems(c_runqueue'[d]) \cap Elems(mig[d].victims) = {}
    <3>1. \A d \in Cpus : Elems(c_runqueue[d]) \cap Elems(mig[d].victims) = {}
      BY <1>1 DEF Queued, Once
    <3> QED
      BY <1>5, <1>7, <3>1
  <2> QED
    BY <1>1, <1>7, <2>1 DEF Queued, Once
<1>10. SleepersQueued'
  BY <1>1, <1>3, <1>4 DEF Queued, SleepersQueued
<1>11. ReadyQueued'
  <2>1. Runnable(c)' = Runnable(c) \cup {t} /\ \A d \in Cpus : d # c => Runnable(d)' = Runnable(d)
    BY <1>1, <1>7 DEF Runnable
  <2> QED
    BY <1>1, <1>3, <1>4, <2>1 DEF Queued, ReadyQueued
<1>12. DeadQueued' /\ Placed'
  BY <1>1, <1>3, <1>4 DEF Queued, DeadQueued, Placed
<1>13. OnCpu'
  BY <1>1, <1>3, <1>4, Types DEF OnCpu
<1>14. Stage(c)'
  BY <1>1 DEF Stage
<1>15. Stages'
  BY <1>7, <1>14 DEF Stages
<1> QED
  BY <1>8, <1>9, <1>10, <1>11, <1>12, <1>13, <1>15 DEF SchedInv, Queued

LEMMA WakeStep == ASSUME SchedInv, NEW c \in Cpus, NEW n \in 0..Len(wc_threads), Wake(c, n)
                  PROVE  SchedInv'
<1>1. /\ TypeOK /\ Queued /\ OnCpu /\ Stage(c) /\ Stages /\ pc[c] = "lk"
      /\ list' = [list EXCEPT ![c] = SubSeq(wc_threads, 1, n)]
      /\ wc_threads' = SubSeq(wc_threads, n + 1, Len(wc_threads))
      /\ pc' = [pc EXCEPT ![c] = "waking"]
      /\ c_curthread' = c_curthread /\ c_isidle' = c_isidle /\ c_zombies' = c_zombies
      /\ c_runqueue' = c_runqueue /\ c_runqueue_lock' = c_runqueue_lock
      /\ c_ipi_pending' = c_ipi_pending /\ t_state' = t_state /\ t_cpu' = t_cpu /\ mig' = mig
  BY DEF SchedInv, Stages, Wake, Goto
<1>2. list[c] = <<>> /\ Elems(list[c]) = {} /\ mig[c] = NoMig /\ mig[c].victims = <<>>
  BY <1>1, EmptyElems DEF Stage
<1>3. wc_threads \in Seq(Threads) /\ Injective(wc_threads)
  BY <1>1 DEF TypeOK, Queued, Once
<1>4. /\ SubSeq(wc_threads, 1, n) \in Seq(Threads) /\ Injective(SubSeq(wc_threads, 1, n))
      /\ wc_threads' \in Seq(Threads) /\ Injective(wc_threads')
      /\ Elems(SubSeq(wc_threads, 1, n)) \cap Elems(wc_threads') = {}
      /\ Elems(SubSeq(wc_threads, 1, n)) \cup Elems(wc_threads') = Elems(wc_threads)
  BY <1>1, <1>3, SplitElems
<1>5. /\ list'[c] = SubSeq(wc_threads, 1, n) /\ pc'[c] = "waking"
      /\ \A d \in Cpus : d # c => list'[d] = list[d] /\ pc'[d] = pc[d]
      /\ list' \in [Cpus -> Seq(Threads)] /\ pc' \in [Cpus -> Labels]
  BY <1>1, <1>4 DEF TypeOK, Labels
<1>6. TypeOK'
  BY <1>1, <1>4, <1>5 DEF TypeOK
<1>7. Once'
  <2>1. \A d \in Cpus : Injective(list'[d]) /\ Elems(wc_threads') \cap Elems(list'[d]) = {}
    BY <1>1, <1>4, <1>5 DEF Queued, Once
  <2>2. \A d, e \in Cpus : d # e => Elems(list'[d]) \cap Elems(list'[e]) = {}
    BY <1>1, <1>4, <1>5 DEF Queued, Once
  <2> QED
    BY <1>1, <1>4, <2>1, <2>2 DEF Queued, Once
<1>8. SleepersQueued'
  <2>1. \A t \in Threads : (t \in Elems(wc_threads') \/ \E d \in Cpus : t \in Elems(list'[d]))
                           <=> (t \in Elems(wc_threads) \/ \E d \in Cpus : t \in Elems(list[d]))
    BY <1>2, <1>4, <1>5
  <2> QED
    BY <1>1, <2>1 DEF Queued, SleepersQueued
<1>9. ReadyQueued' /\ DeadQueued' /\ Placed' /\ OnCpu'
  BY <1>1 DEF Queued, ReadyQueued, Runnable, DeadQueued, Placed, OnCpu
<1>10. Stage(c)'
  BY <1>1, <1>2, <1>5 DEF Stage
<1>11. ASSUME NEW d \in Cpus, d # c PROVE Stage(d)'
  <2>1. Stage(d) /\ Len(c_runqueue'[d]) \in Nat /\ Len(c_runqueue[d]) <= Len(c_runqueue'[d])
    BY <1>1, Types DEF Stages
  <2> QED
    BY <1>1, <1>5, <1>11, <2>1, Bystander
<1>12. Stages'
  BY <1>10, <1>11 DEF Stages
<1> QED
  BY <1>6, <1>7, <1>8, <1>9, <1>12 DEF SchedInv, Queued

LEMMA WakeNextStep == ASSUME SchedInv, NEW c \in Cpus, WakeNext(c) PROVE SchedInv'
<1>1. PICK t : t = Head(list[c])
  OBVIOUS
<1>2. PICK d : d = t_cpu[t]
  OBVIOUS
<1>3. /\ TypeOK /\ Queued /\ OnCpu /\ Stage(c) /\ Stages /\ pc[c] = "waking" /\ list[c] # <<>>
      /\ t_state' = [t_state EXCEPT ![t] = "S_READY"]
      /\ c_runqueue' = [c_runqueue EXCEPT ![d] = Append(c_runqueue[d], t)]
      /\ c_ipi_pending' = [c_ipi_pending EXCEPT ![d] = c_ipi_pending[d] \/ NeedsIpi(c, d)]
      /\ list' = [list EXCEPT ![c] = Tail(list[c])]
      /\ c_curthread' = c_curthread /\ c_isidle' = c_isidle /\ c_zombies' = c_zombies
      /\ c_runqueue_lock' = c_runqueue_lock /\ t_cpu' = t_cpu /\ wc_threads' = wc_threads
      /\ pc' = pc /\ mig' = mig
  BY <1>1, <1>2 DEF SchedInv, Stages, WakeNext, MakeRunnable
<1>4. /\ t \in Threads /\ t \in Elems(list[c])
      /\ Tail(list[c]) \in Seq(Threads) /\ Injective(Tail(list[c]))
      /\ Elems(Tail(list[c])) = Elems(list[c]) \ {t}
  <2>1. list[c] \in Seq(Threads) /\ Injective(list[c])
    BY <1>3, Types DEF Queued, Once
  <2> QED
    BY <1>1, <1>3, <2>1, TailElems
<1>5. t_state[t] = "S_SLEEP" /\ d \in Cpus
  BY <1>2, <1>3, <1>4 DEF Queued, SleepersQueued, Placed
<1>6. /\ t \notin Elems(wc_threads)
      /\ \A e \in Cpus : t \notin Runnable(e) /\ (e # c => t \notin Elems(list[e]))
  BY <1>3, <1>4, <1>5 DEF Queued, ReadyQueued, Once
<1>7. \A e \in Cpus : t \notin Elems(c_runqueue[e]) /\ t \notin Elems(mig[e].victims)
  BY <1>6 DEF Runnable
<1>8. /\ list'[c] = Tail(list[c]) /\ \A e \in Cpus : e # c => list'[e] = list[e]
      /\ list' \in [Cpus -> Seq(Threads)]
      /\ t_state'[t] = "S_READY" /\ \A u \in Threads : u # t => t_state'[u] = t_state[u]
      /\ t_state' \in [Threads -> {"FREE", "S_READY", "S_RUN", "S_SLEEP", "S_ZOMBIE"}]
  BY <1>3, <1>4 DEF TypeOK
<1>9. /\ c_runqueue' \in [Cpus -> Seq(Threads)] /\ c_ipi_pending' \in [Cpus -> BOOLEAN]
      /\ Elems(c_runqueue'[d]) = Elems(c_runqueue[d]) \cup {t}
      /\ \A e \in Cpus : e # d => c_runqueue'[e] = c_runqueue[e]
      /\ \A e \in Cpus : Injective(c_runqueue'[e])
      /\ \A e \in Cpus : e # c => Stage(e)'
  BY <1>3, <1>4, <1>5, <1>7, <1>8, OthersStay
<1>10. TypeOK'
  BY <1>3, <1>8, <1>9 DEF TypeOK
<1>11. Once'
  <2>1. \A e \in Cpus : Elems(c_runqueue'[e]) \cap Elems(mig[e].victims) = {}
    BY <1>3, <1>7, <1>9 DEF Queued, Once
  <2>2. \A e \in Cpus : Elems(list'[e]) \subseteq Elems(list[e]) /\ Injective(list'[e])
    BY <1>3, <1>4, <1>8 DEF Queued, Once
  <2> QED
    BY <1>3, <1>9, <2>1, <2>2 DEF Queued, Once
<1>12. SleepersQueued'
  <2>1. \A u \in Threads : u # t =>
          ((\E e \in Cpus : u \in Elems(list'[e])) <=> \E e \in Cpus : u \in Elems(list[e]))
    BY <1>4, <1>8
  <2>2. \A e \in Cpus : t \notin Elems(list'[e])
    BY <1>4, <1>6, <1>8
  <2> QED
    BY <1>3, <1>6, <1>8, <2>1, <2>2 DEF Queued, SleepersQueued
<1>13. ReadyQueued'
  <2>1. Runnable(d)' = Runnable(d) \cup {t} /\ \A e \in Cpus : e # d => Runnable(e)' = Runnable(e)
    BY <1>3, <1>9 DEF Runnable
  <2> QED
    BY <1>2, <1>3, <1>6, <1>8, <2>1 DEF Queued, ReadyQueued
<1>14. DeadQueued' /\ Placed'
  BY <1>3, <1>5, <1>8 DEF Queued, DeadQueued, Placed
<1>15. OnCpu'
  BY <1>3, <1>5, <1>8, Types DEF OnCpu
<1>16. Stage(c)'
  BY <1>3 DEF Stage
<1>17. Stages'
  BY <1>9, <1>16 DEF Stages
<1> QED
  BY <1>10, <1>11, <1>12, <1>13, <1>14, <1>15, <1>17 DEF SchedInv, Queued

LEMMA SwitchStep == ASSUME SchedInv, NEW c \in Cpus, Switch(c) PROVE SchedInv'
<1>1. PICK next : next = Head(c_runqueue[c])
  OBVIOUS
<1> DEFINE buried == Elems(c_zombies[c])
<1>2. /\ TypeOK /\ Queued /\ OnCpu /\ Stage(c) /\ Stages /\ pc[c] = "switch"
      /\ c_runqueue[c] # <<>>
      /\ c_curthread' = [c_curthread EXCEPT ![c] = next]
      /\ t_state' = Exorcised(c, [t_state EXCEPT ![next] = "S_RUN"])
      /\ c_runqueue' = [c_runqueue EXCEPT ![c] = Tail(c_runqueue[c])]
      /\ c_isidle' = [c_isidle EXCEPT ![c] = FALSE]
      /\ c_runqueue_lock' = [c_runqueue_lock EXCEPT ![c] = NULL]
      /\ c_zombies' = [c_zombies EXCEPT ![c] = <<>>]
      /\ pc' = [pc EXCEPT ![c] = "thread"]
      /\ c_ipi_pending' = c_ipi_pending /\ t_cpu' = t_cpu /\ wc_threads' = wc_threads
      /\ list' = list /\ mig' = mig
  BY <1>1 DEF SchedInv, Stages, Switch, Goto
<1>3. /\ c_isidle[c] /\ list[c] = <<>> /\ mig[c] = NoMig /\ mig[c].victims = <<>>
  BY <1>2 DEF Stage
<1>4. /\ next \in Threads /\ next \in Elems(c_runqueue[c])
      /\ Tail(c_runqueue[c]) \in Seq(Threads) /\ Injective(Tail(c_runqueue[c]))
      /\ Elems(Tail(c_runqueue[c])) = Elems(c_runqueue[c]) \ {next}
  <2>1. c_runqueue[c] \in Seq(Threads) /\ Injective(c_runqueue[c])
    BY <1>2, Types DEF Queued, Once
  <2> QED
    BY <1>1, <1>2, <2>1, TailElems
<1>5. t_state[next] = "S_READY" /\ t_cpu[next] = c /\ next \notin buried
  BY <1>2, <1>4 DEF Queued, ReadyQueued, DeadQueued, Runnable
<1>6. \A t \in Threads : t \in buried <=> t_state[t] = "S_ZOMBIE" /\ t_cpu[t] = c
  BY <1>2 DEF Queued, DeadQueued
<1> HIDE DEF buried
<1>7. /\ t_state' = [t \in Threads |-> IF t \in buried THEN "FREE"
                                       ELSE [t_state EXCEPT ![next] = "S_RUN"][t]]
      /\ t_state' \in [Threads -> {"FREE", "S_READY", "S_RUN", "S_SLEEP", "S_ZOMBIE"}]
  <2>1. t_state' = [t \in Threads |-> IF t \in buried THEN "FREE"
                                      ELSE [t_state EXCEPT ![next] = "S_RUN"][t]]
    BY <1>2 DEF Exorcised, buried
  <2> QED
    BY <1>2, <2>1 DEF TypeOK
<1>8. /\ t_state'[next] = "S_RUN"
      /\ \A t \in Threads : t \in buried => t_state'[t] = "FREE"
      /\ \A t \in Threads : t \notin buried /\ t # next => t_state'[t] = t_state[t]
  BY <1>2, <1>4, <1>5, <1>7 DEF TypeOK
<1>9. /\ c_runqueue'[c] = Tail(c_runqueue[c]) /\ c_runqueue' \in [Cpus -> Seq(Threads)]
      /\ c_zombies'[c] = <<>> /\ c_zombies' \in [Cpus -> Seq(Threads)]
      /\ c_curthread'[c] = next /\ c_curthread' \in [Cpus -> Threads]
      /\ c_isidle'[c] = FALSE /\ c_isidle' \in [Cpus -> BOOLEAN]
      /\ pc'[c] = "thread" /\ pc' \in [Cpus -> Labels]
      /\ \A d \in Cpus : d # c => /\ c_runqueue'[d] = c_runqueue[d]
                                  /\ c_zombies'[d] = c_zombies[d]
                                  /\ c_curthread'[d] = c_curthread[d]
                                  /\ c_isidle'[d] = c_isidle[d] /\ pc'[d] = pc[d]
  <2>1. <<>> \in Seq(Threads) /\ "thread" \in Labels
    BY DEF Labels
  <2> QED
    BY <1>2, <1>4, <2>1 DEF TypeOK
<1>10. TypeOK'
  <2>1. c_runqueue_lock' \in [Cpus -> Cpus \cup {NULL}]
    BY <1>2 DEF TypeOK
  <2> QED
    BY <1>2, <1>7, <1>9, <2>1 DEF TypeOK
<1>11. Once'
  <2>1. \A d \in Cpus : Injective(c_runqueue'[d]) /\ Injective(c_zombies'[d])
    BY <1>2, <1>4, <1>9, EmptyElems DEF Queued, Once
  <2>2. \A d \in Cpus : Elems(c_runqueue'[d]) \cap Elems(mig[d].victims) = {}
    <3>1. \A d \in Cpus : Elems(c_runqueue'[d]) \subseteq Elems(c_runqueue[d])
      BY <1>4, <1>9
    <3> QED
      BY <1>2, <3>1 DEF Queued, Once
  <2> QED
    BY <1>2, <2>1, <2>2 DEF Queued, Once
<1>12. SleepersQueued'
  <2>1. ASSUME NEW t \in Threads
        PROVE  t_state'[t] = "S_SLEEP" <=> t_state[t] = "S_SLEEP"
    <3>1. CASE t = next \/ t \in buried
      BY <1>5, <1>6, <1>8, <3>1
    <3>2. CASE t # next /\ t \notin buried
      BY <1>8, <3>2
    <3> QED
      BY <3>1, <3>2
  <2>2. SleepersQueued
    BY <1>2 DEF Queued
  <2> QED
    BY <1>2, <2>1, <2>2 DEF SleepersQueued
<1>13. ReadyQueued'
  <2>1. /\ Runnable(c)' = Runnable(c) \ {next}
        /\ \A d \in Cpus : d # c => Runnable(d)' = Runnable(d)
    BY <1>2, <1>3, <1>4, <1>9, EmptyElems DEF Runnable
  <2>2. ASSUME NEW t \in Threads, NEW d \in Cpus
        PROVE  t \in Runnable(d)' <=> t_state'[t] = "S_READY" /\ t_cpu'[t] = d
    <3>1. t \in Runnable(d) <=> t_state[t] = "S_READY" /\ t_cpu[t] = d
      BY <1>2 DEF Queued, ReadyQueued
    <3>2. CASE t = next
      BY <1>2, <1>5, <1>8, <2>1, <3>1, <3>2
    <3>3. CASE t # next /\ t \in buried
      BY <1>2, <1>6, <1>8, <2>1, <3>1, <3>3
    <3>4. CASE t # next /\ t \notin buried
      BY <1>2, <1>8, <2>1, <3>1, <3>4
    <3> QED
      BY <3>2, <3>3, <3>4
  <2> QED
    BY <2>2 DEF ReadyQueued
<1>14. DeadQueued'
  <2>1. ASSUME NEW t \in Threads, NEW d \in Cpus
        PROVE  t \in Elems(c_zombies'[d]) <=> t_state'[t] = "S_ZOMBIE" /\ t_cpu'[t] = d
    <3>1. t \in Elems(c_zombies[d]) <=> t_state[t] = "S_ZOMBIE" /\ t_cpu[t] = d
      BY <1>2 DEF Queued, DeadQueued
    <3>2. CASE d = c
      <4>1. t \notin Elems(c_zombies'[d])
        BY <1>9, <3>2, EmptyElems
      <4> QED
        BY <1>2, <1>6, <1>8, <3>2, <4>1
    <3>3. CASE d # c
      BY <1>2, <1>5, <1>6, <1>8, <1>9, <3>1, <3>3
    <3> QED
      BY <3>2, <3>3
  <2> QED
    BY <2>1 DEF DeadQueued
<1>15. Placed'
  BY <1>2, <1>5, <1>8 DEF Queued, Placed
<1>16. OnCpu'
  <2>1. ASSUME NEW t \in Threads, t_state'[t] = "S_RUN"
        PROVE  c_curthread'[t_cpu'[t]] = t /\ ~c_isidle'[t_cpu'[t]]
    <3>1. CASE t = next
      BY <1>2, <1>5, <1>9, <3>1
    <3>2. CASE t # next
      <4>1. t_state[t] = "S_RUN"
        BY <1>8, <2>1, <3>2
      <4>2. c_curthread[t_cpu[t]] = t /\ ~c_isidle[t_cpu[t]] /\ t_cpu[t] \in Cpus
        BY <1>2, <4>1 DEF OnCpu, Queued, Placed
      <4>3. t_cpu[t] # c
        BY <1>3, <4>2
      <4> QED
        BY <1>2, <1>9, <4>2, <4>3
    <3> QED
      BY <3>1, <3>2
  <2>2. ASSUME NEW d \in Cpus
        PROVE  /\ t_cpu'[c_curthread'[d]] = d /\ t_state'[c_curthread'[d]] # "FREE"
               /\ ~c_isidle'[d] => t_state'[c_curthread'[d]] = "S_RUN"
    <3>1. CASE d = c
      BY <1>2, <1>5, <1>8, <1>9, <3>1
    <3>2. CASE d # c
      <4>1. /\ c_curthread[d] \in Threads /\ t_cpu[c_curthread[d]] = d
            /\ t_state[c_curthread[d]] # "FREE"
            /\ ~c_isidle[d] => t_state[c_curthread[d]] = "S_RUN"
        BY <1>2, Types DEF OnCpu
      <4>2. c_curthread[d] \notin buried /\ c_curthread[d] # next
        BY <1>5, <1>6, <3>2, <4>1
      <4> QED
        BY <1>2, <1>8, <1>9, <3>2, <4>1, <4>2
    <3> QED
      BY <3>1, <3>2
  <2> QED
    BY <2>1, <2>2 DEF OnCpu
<1>17. Stage(c)'
  BY <1>2, <1>3, <1>9 DEF Stage
<1>18. ASSUME NEW d \in Cpus, d # c PROVE Stage(d)'
  <2>1. Stage(d) /\ Len(c_runqueue'[d]) \in Nat /\ Len(c_runqueue[d]) <= Len(c_runqueue'[d])
    BY <1>2, <1>9, <1>18, Types DEF Stages
  <2> QED
    BY <1>2, <1>9, <1>18, <2>1, Bystander
<1>19. Stages'
  BY <1>17, <1>18 DEF Stages
<1> QED
  BY <1>10, <1>11, <1>12, <1>13, <1>14, <1>15, <1>16, <1>19 DEF SchedInv, Queued

\* CPU c moves threads between its own run queue and its victims.
LEMMA OwnThreads ==
  ASSUME SchedInv, NEW c \in Cpus, NEW l \in Labels, NEW q \in Seq(Threads), NEW m,
         m \in [i : 0..CpuCount, my_count : Nat, total_count : Nat,
                to_send : Nat, victims : Seq(Threads)],
         Injective(q), Injective(m.victims), Elems(q) \cap Elems(m.victims) = {},
         Elems(q) \cup Elems(m.victims) = Runnable(c),
         pc' = [pc EXCEPT ![c] = l], mig' = [mig EXCEPT ![c] = m],
         c_runqueue' = [c_runqueue EXCEPT ![c] = q],
         UNCHANGED <<c_curthread, c_isidle, c_zombies, c_runqueue_lock, c_ipi_pending,
                     t_state, t_cpu, wc_threads, list>>,
         Stage(c)'
  PROVE  SchedInv'
<1>1. /\ TypeOK /\ Queued /\ OnCpu /\ Stages
  BY DEF SchedInv
<1>2. /\ c_runqueue'[c] = q /\ mig'[c] = m
      /\ \A d \in Cpus : d # c => /\ c_runqueue'[d] = c_runqueue[d] /\ mig'[d] = mig[d]
                                  /\ pc'[d] = pc[d]
      /\ c_runqueue' \in [Cpus -> Seq(Threads)] /\ pc' \in [Cpus -> Labels]
      /\ mig' \in [Cpus -> [i : 0..CpuCount, my_count : Nat, total_count : Nat,
                            to_send : Nat, victims : Seq(Threads)]]
  BY <1>1 DEF TypeOK
<1>3. TypeOK'
  BY <1>1, <1>2 DEF TypeOK
<1>4. Once'
  <2>1. \A d \in Cpus : /\ Injective(c_runqueue'[d]) /\ Injective(mig'[d].victims)
                        /\ Elems(c_runqueue'[d]) \cap Elems(mig'[d].victims) = {}
    BY <1>1, <1>2 DEF Queued, Once
  <2> QED
    BY <1>1, <2>1 DEF Queued, Once
<1>5. ReadyQueued'
  <2>1. \A d \in Cpus : Runnable(d)' = Runnable(d)
    BY <1>2 DEF Runnable
  <2> QED
    BY <1>1, <2>1 DEF Queued, ReadyQueued
<1>6. SleepersQueued' /\ DeadQueued' /\ Placed' /\ OnCpu'
  BY <1>1 DEF Queued, SleepersQueued, DeadQueued, Placed, OnCpu
<1>7. ASSUME NEW d \in Cpus, d # c PROVE Stage(d)'
  <2>1. Stage(d) /\ Len(c_runqueue'[d]) \in Nat /\ Len(c_runqueue[d]) <= Len(c_runqueue'[d])
    BY <1>1, <1>2, <1>7, Types DEF Stages
  <2> QED
    BY <1>1, <1>2, <1>7, <2>1, Bystander
<1>8. Stages'
  BY <1>7 DEF Stages
<1> QED
  BY <1>3, <1>4, <1>5, <1>6, <1>8 DEF SchedInv, Queued

LEMMA TakeStep == ASSUME SchedInv, NEW c \in Cpus, Take(c) PROVE SchedInv'
<1> DEFINE q == c_runqueue[c]
           to_send == mig[c].my_count - OneShare(c)
           keep == Len(q) - to_send
           v == SubSeq(q, keep + 1, keep + to_send)
           m == [mig[c] EXCEPT !.i = 0, !.to_send = to_send, !.victims = v]
<1>1. /\ TypeOK /\ Queued /\ Stage(c) /\ pc[c] = "take" /\ Enough(c)
      /\ pc' = [pc EXCEPT ![c] = "send"]
      /\ c_runqueue' = [c_runqueue EXCEPT ![c] = SubSeq(q, 1, keep)]
      /\ UNCHANGED <<c_curthread, c_isidle, c_zombies, c_runqueue_lock, c_ipi_pending,
                     t_state, t_cpu, wc_threads, list>>
  BY DEF SchedInv, Stages, Take, Goto
<1>2. mig' = [mig EXCEPT ![c] = m]
  <2>1. mig' = [mig EXCEPT ![c].i = 0, ![c].to_send = to_send, ![c].victims = v]
    BY DEF Take
  <2> HIDE DEF to_send, v
  <2> QED
    BY <2>1 DEF SchedInv, TypeOK
<1>3. /\ mig[c].victims = <<>> /\ list[c] = <<>> /\ Elems(mig[c].victims) = {}
      /\ q \in Seq(Threads) /\ Injective(q) /\ Len(q) \in Nat
  BY <1>1, Types, EmptyElems DEF Stage, Queued, Once
<1>4. to_send \in Nat /\ keep \in 0..Len(q) /\ keep \in Nat /\ keep + to_send = Len(q)
  <2>1. /\ mig[c].my_count \in Nat /\ OneShare(c) \in Nat /\ mig[c].my_count >= OneShare(c)
        /\ mig[c].my_count <= Len(q)
    BY <1>1, Types, ShareNat DEF Stage, Enough
  <2>2. to_send \in Nat /\ to_send <= Len(q)
    BY <1>3, <2>1
  <2> HIDE DEF to_send, q
  <2> QED
    BY <1>3, <2>2
<1> HIDE DEF q, to_send, keep, v
<1>5. v = SubSeq(q, keep + 1, Len(q))
  BY <1>4 DEF v
<1>6. /\ SubSeq(q, 1, keep) \in Seq(Threads) /\ Injective(SubSeq(q, 1, keep))
      /\ v \in Seq(Threads) /\ Injective(v) /\ Len(v) = Len(q) - keep
      /\ Elems(SubSeq(q, 1, keep)) \cap Elems(v) = {}
      /\ Elems(SubSeq(q, 1, keep)) \cup Elems(v) = Elems(q)
  BY <1>3, <1>4, <1>5, SplitElems
<1>7. Len(v) = to_send
  BY <1>3, <1>4, <1>6
<1>8. /\ m \in [i : 0..CpuCount, my_count : Nat, total_count : Nat,
                to_send : Nat, victims : Seq(Threads)]
      /\ m.victims = v /\ m.to_send = to_send
  <2>1. /\ mig[c] \in [i : 0..CpuCount, my_count : Nat, total_count : Nat,
                       to_send : Nat, victims : Seq(Threads)]
        /\ 0 \in 0..CpuCount
    BY <1>1, Types, CpusNat
  <2> QED
    BY <1>4, <1>6, <2>1
<1> HIDE DEF m
<1>9. Runnable(c) = Elems(q)
  BY <1>3 DEF Runnable, q
<1>10. pc'[c] = "send" /\ mig'[c] = m /\ list'[c] = <<>>
  BY <1>1, <1>2, <1>3 DEF TypeOK
<1>11. Stage(c)'
  <2>1. m.to_send <= Len(m.victims)
    BY <1>4, <1>7, <1>8
  <2> QED
    BY <1>10, <2>1 DEF Stage
<1>12. "send" \in Labels
  BY DEF Labels
<1> QED
  BY <1>1, <1>2, <1>6, <1>8, <1>9, <1>11, <1>12, OwnThreads

\* What Skip and Migrate find: one more victim to send.
LEMMA NextVictim ==
  ASSUME SchedInv, NEW c \in Cpus, pc[c] = "move", Room(c)
  PROVE  /\ mig[c].victims # <<>> /\ mig[c].victims \in Seq(Threads)
         /\ Injective(mig[c].victims) /\ LeftToSend(c) \in Nat
         /\ Head(mig[c].victims) \in Threads
         /\ Head(mig[c].victims) \in Elems(mig[c].victims)
         /\ Tail(mig[c].victims) \in Seq(Threads) /\ Injective(Tail(mig[c].victims))
         /\ Elems(Tail(mig[c].victims)) = Elems(mig[c].victims) \ {Head(mig[c].victims)}
         /\ LeftToSend(c) <= Len(Tail(mig[c].victims))
         /\ Len(Tail(mig[c].victims)) \in Nat
<1>1. /\ TypeOK /\ mig[c].to_send > 0 /\ mig[c].to_send <= Len(mig[c].victims)
      /\ mig[c].to_send \in Nat
      /\ mig[c].victims \in Seq(Threads) /\ Len(mig[c].victims) \in Nat
      /\ Injective(mig[c].victims)
  BY Types DEF SchedInv, Stages, Stage, Room, Queued, Once
<1>2. mig[c].victims # <<>>
  BY <1>1
<1>3. /\ Head(mig[c].victims) \in Threads /\ Head(mig[c].victims) \in Elems(mig[c].victims)
      /\ Tail(mig[c].victims) \in Seq(Threads) /\ Injective(Tail(mig[c].victims))
      /\ Elems(Tail(mig[c].victims)) = Elems(mig[c].victims) \ {Head(mig[c].victims)}
      /\ Len(Tail(mig[c].victims)) = Len(mig[c].victims) - 1
  BY <1>1, <1>2, TailElems
<1>4. /\ LeftToSend(c) \in Nat /\ LeftToSend(c) <= Len(mig[c].victims) - 1
      /\ Len(mig[c].victims) - 1 \in Nat
  BY <1>1 DEF LeftToSend
<1> QED
  BY <1>1, <1>2, <1>3, <1>4

LEMMA SkipStep == ASSUME SchedInv, NEW c \in Cpus, Skip(c) PROVE SchedInv'
<1>1. PICK old : old = mig[c].victims
  OBVIOUS
<1>2. PICK left : left = LeftToSend(c)
  OBVIOUS
<1> DEFINE v == Append(Tail(old), Head(old))
           m == [mig[c] EXCEPT !.to_send = left, !.victims = v]
<1>3. /\ TypeOK /\ Queued /\ Stage(c) /\ pc[c] = "move" /\ Room(c)
      /\ UNCHANGED <<c_curthread, c_isidle, c_zombies, c_runqueue_lock, c_ipi_pending,
                     t_state, t_cpu, wc_threads, list>>
      /\ pc' = pc /\ c_runqueue' = c_runqueue
  BY DEF SchedInv, Stages, Skip, queues
<1>4. mig' = [mig EXCEPT ![c] = m]
  <2>1. mig' = [mig EXCEPT ![c].to_send = left, ![c].victims = Append(Tail(@), Head(@))]
    BY <1>2 DEF Skip
  <2> QED
    BY <1>1, <1>3, <2>1 DEF TypeOK
<1>5. /\ old \in Seq(Threads) /\ left \in Nat
      /\ Head(old) \in Threads /\ Head(old) \in Elems(old)
      /\ Tail(old) \in Seq(Threads) /\ Injective(Tail(old))
      /\ Elems(Tail(old)) = Elems(old) \ {Head(old)}
      /\ left <= Len(Tail(old)) /\ Len(Tail(old)) \in Nat
  BY <1>1, <1>2, <1>3, NextVictim
<1>6. /\ v \in Seq(Threads) /\ Injective(v) /\ Elems(v) = Elems(Tail(old)) \cup {Head(old)}
      /\ Len(v) = Len(Tail(old)) + 1
  <2>1. Head(old) \notin Elems(Tail(old))
    BY <1>5
  <2>2. PICK rest \in Seq(Threads) : rest = Tail(old)
    BY <1>5
  <2> QED
    BY <1>5, <2>1, <2>2, AppendElems
<1> HIDE DEF v
<1>7. Elems(v) = Elems(old)
  BY <1>5, <1>6
<1>8. /\ m \in [i : 0..CpuCount, my_count : Nat, total_count : Nat,
                to_send : Nat, victims : Seq(Threads)]
      /\ m.victims = v /\ m.to_send = left /\ m.i = mig[c].i
  <2>1. mig[c] \in [i : 0..CpuCount, my_count : Nat, total_count : Nat,
                    to_send : Nat, victims : Seq(Threads)]
    BY <1>3, Types
  <2> QED
    BY <1>5, <1>6, <2>1
<1> HIDE DEF m
<1>9. /\ c_runqueue[c] \in Seq(Threads) /\ Injective(c_runqueue[c])
      /\ Elems(c_runqueue[c]) \cap Elems(v) = {}
      /\ Elems(c_runqueue[c]) \cup Elems(v) = Runnable(c)
      /\ c_runqueue' = [c_runqueue EXCEPT ![c] = c_runqueue[c]]
      /\ pc' = [pc EXCEPT ![c] = "move"]
  BY <1>1, <1>3, <1>7, Types DEF Queued, Once, Runnable, TypeOK
<1>10. mig'[c] = m
  BY <1>3, <1>4 DEF TypeOK
<1>11. Stage(c)'
  <2>1. left <= Len(v)
    BY <1>5, <1>6
  <2> QED
    BY <1>3, <1>8, <1>10, <2>1 DEF Stage
<1>12. "move" \in Labels
  BY DEF Labels
<1> QED
  BY <1>3, <1>4, <1>6, <1>8, <1>9, <1>11, <1>12, OwnThreads

LEMMA PutBackStep == ASSUME SchedInv, NEW c \in Cpus, PutBack(c) PROVE SchedInv'
<1> DEFINE q == c_runqueue[c] \o mig[c].victims
<1>1. /\ TypeOK /\ Queued /\ Stage(c) /\ pc[c] = "back"
      /\ UNCHANGED <<c_curthread, c_isidle, c_zombies, c_runqueue_lock, c_ipi_pending,
                     t_state, t_cpu, wc_threads, list>>
      /\ pc' = [pc EXCEPT ![c] = "yield"] /\ mig' = [mig EXCEPT ![c] = NoMig]
      /\ c_runqueue' = [c_runqueue EXCEPT ![c] = q]
  BY DEF SchedInv, Stages, PutBack, Goto, Leftovers
<1>2. /\ q \in Seq(Threads) /\ Injective(q) /\ Elems(q) = Runnable(c)
  <2>1. /\ c_runqueue[c] \in Seq(Threads) /\ Injective(c_runqueue[c])
        /\ mig[c].victims \in Seq(Threads) /\ Injective(mig[c].victims)
        /\ Elems(c_runqueue[c]) \cap Elems(mig[c].victims) = {}
    BY <1>1, Types DEF Queued, Once
  <2> QED
    BY <2>1, JoinElems DEF Runnable
<1> HIDE DEF q
<1>3. /\ NoMig \in [i : 0..CpuCount, my_count : Nat, total_count : Nat,
                    to_send : Nat, victims : Seq(Threads)]
      /\ NoMig.victims = <<>> /\ Injective(NoMig.victims) /\ Elems(NoMig.victims) = {}
  <2>1. 0 \in 0..CpuCount /\ <<>> \in Seq(Threads)
    BY CpusNat
  <2> QED
    BY <2>1, EmptyElems DEF NoMig
<1>4. pc'[c] = "yield" /\ mig'[c] = NoMig /\ list'[c] = <<>>
  BY <1>1 DEF TypeOK, Stage
<1>5. Stage(c)'
  BY <1>3, <1>4 DEF Stage
<1>6. "yield" \in Labels
  BY DEF Labels
<1>7. Elems(q) \cap Elems(NoMig.victims) = {} /\ Elems(q) \cup Elems(NoMig.victims) = Runnable(c)
  BY <1>2, <1>3
<1> QED
  BY <1>1, <1>2, <1>3, <1>5, <1>6, <1>7, OwnThreads

LEMMA MigrateStep == ASSUME SchedInv, NEW c \in Cpus, Migrate(c) PROVE SchedInv'
<1>1. PICK old : old = mig[c].victims
  OBVIOUS
<1>2. PICK left : left = LeftToSend(c)
  OBVIOUS
<1>3. PICK d : d = mig[c].i
  OBVIOUS
<1>4. PICK t : t = Head(old)
  OBVIOUS
<1> DEFINE m == [mig[c] EXCEPT !.to_send = left, !.victims = Tail(old)]
<1>5. /\ TypeOK /\ Queued /\ OnCpu /\ Stage(c) /\ Stages /\ pc[c] = "move" /\ Room(c)
      /\ t # c_curthread[c]
      /\ t_cpu' = [t_cpu EXCEPT ![t] = d]
      /\ c_runqueue' = [c_runqueue EXCEPT ![d] = Append(c_runqueue[d], t)]
      /\ c_ipi_pending' = [c_ipi_pending EXCEPT ![d] = c_ipi_pending[d] \/ NeedsIpi(c, d)]
      /\ c_curthread' = c_curthread /\ c_isidle' = c_isidle /\ c_zombies' = c_zombies
      /\ c_runqueue_lock' = c_runqueue_lock /\ t_state' = t_state /\ wc_threads' = wc_threads
      /\ pc' = pc /\ list' = list
  BY <1>1, <1>3, <1>4 DEF SchedInv, Stages, Migrate, Skipped
<1>6. mig' = [mig EXCEPT ![c] = m]
  <2>1. mig' = [mig EXCEPT ![c].to_send = left, ![c].victims = Tail(@)]
    BY <1>2 DEF Migrate
  <2> QED
    BY <1>1, <1>5, <2>1 DEF TypeOK
<1>7. /\ old \in Seq(Threads) /\ left \in Nat /\ t \in Threads /\ t \in Elems(old)
      /\ Tail(old) \in Seq(Threads) /\ Injective(Tail(old))
      /\ Elems(Tail(old)) = Elems(old) \ {t}
      /\ left <= Len(Tail(old))
  BY <1>1, <1>2, <1>4, <1>5, NextVictim
<1>8. d \in Cpus /\ d # c
  BY <1>3, <1>5, Types, CpusNat DEF Stage, Cpus
<1>9. /\ m \in [i : 0..CpuCount, my_count : Nat, total_count : Nat,
                to_send : Nat, victims : Seq(Threads)]
      /\ m.victims = Tail(old) /\ m.to_send = left /\ m.i = d
  <2>1. mig[c] \in [i : 0..CpuCount, my_count : Nat, total_count : Nat,
                    to_send : Nat, victims : Seq(Threads)]
    BY <1>5, Types
  <2> QED
    BY <1>3, <1>7, <2>1
<1> HIDE DEF m
<1>10. /\ mig'[c] = m /\ \A e \in Cpus : e # c => mig'[e] = mig[e]
       /\ mig' \in [Cpus -> [i : 0..CpuCount, my_count : Nat, total_count : Nat,
                             to_send : Nat, victims : Seq(Threads)]]
  BY <1>5, <1>6, <1>9 DEF TypeOK
<1>11. t_state[t] = "S_READY" /\ t_cpu[t] = c
  BY <1>1, <1>5, <1>7 DEF Queued, ReadyQueued, Runnable
<1>12. \A e \in Cpus : t \in Runnable(e) => e = c
  BY <1>5, <1>7, <1>11 DEF Queued, ReadyQueued
<1>13. /\ \A e \in Cpus : t \notin Elems(c_runqueue[e])
       /\ \A e \in Cpus : e # c => t \notin Elems(mig[e].victims)
  <2>1. t \notin Elems(c_runqueue[c])
    BY <1>1, <1>5, <1>7 DEF Queued, Once
  <2> QED
    BY <1>12, <2>1 DEF Runnable
<1>14. /\ t_cpu'[t] = d /\ \A u \in Threads : u # t => t_cpu'[u] = t_cpu[u]
       /\ t_cpu' \in [Threads -> Cpus \cup {NULL}]
  BY <1>5, <1>7, <1>8 DEF TypeOK
<1>15. /\ c_runqueue' \in [Cpus -> Seq(Threads)] /\ c_ipi_pending' \in [Cpus -> BOOLEAN]
       /\ Elems(c_runqueue'[d]) = Elems(c_runqueue[d]) \cup {t}
       /\ \A e \in Cpus : e # d => c_runqueue'[e] = c_runqueue[e]
       /\ \A e \in Cpus : Injective(c_runqueue'[e])
       /\ \A e \in Cpus : e # c => Stage(e)'
  BY <1>5, <1>7, <1>8, <1>10, <1>13, OthersStay
<1>16. TypeOK'
  BY <1>5, <1>10, <1>14, <1>15 DEF TypeOK
<1>17. /\ Elems(mig'[c].victims) = Elems(mig[c].victims) \ {t}
       /\ \A e \in Cpus : e # c => mig'[e].victims = mig[e].victims
  BY <1>1, <1>7, <1>9, <1>10
<1>18. Once'
  <2>1. \A e \in Cpus : Injective(mig'[e].victims)
    BY <1>5, <1>7, <1>9, <1>10 DEF Queued, Once
  <2>2. ASSUME NEW e \in Cpus PROVE Elems(c_runqueue'[e]) \cap Elems(mig'[e].victims) = {}
    <3>1. Elems(c_runqueue[e]) \cap Elems(mig[e].victims) = {}
      BY <1>5 DEF Queued, Once
    <3> QED
      BY <1>8, <1>13, <1>15, <1>17, <3>1
  <2> QED
    BY <1>5, <1>15, <2>1, <2>2 DEF Queued, Once
<1>19. ReadyQueued'
  <2>1. /\ Runnable(c)' = Runnable(c) \ {t} /\ Runnable(d)' = Runnable(d) \cup {t}
        /\ \A e \in Cpus : e # c /\ e # d => Runnable(e)' = Runnable(e)
    BY <1>8, <1>13, <1>15, <1>17 DEF Runnable
  <2>2. ASSUME NEW u \in Threads, NEW e \in Cpus
        PROVE  u \in Runnable(e)' <=> t_state'[u] = "S_READY" /\ t_cpu'[u] = e
    <3>1. u \in Runnable(e) <=> t_state[u] = "S_READY" /\ t_cpu[u] = e
      BY <1>5 DEF Queued, ReadyQueued
    <3>2. CASE u = t
      BY <1>5, <1>8, <1>11, <1>14, <2>1, <3>1, <3>2
    <3>3. CASE u # t
      BY <1>5, <1>8, <1>14, <2>1, <3>1, <3>3
    <3> QED
      BY <3>2, <3>3
  <2> QED
    BY <2>2 DEF ReadyQueued
<1>20. SleepersQueued' /\ DeadQueued' /\ Placed'
  BY <1>5, <1>8, <1>11, <1>14 DEF Queued, SleepersQueued, DeadQueued, Placed
<1>21. OnCpu'
  <2>1. \A e \in Cpus : c_curthread[e] # t
    BY <1>5, <1>11 DEF OnCpu
  <2> QED
    BY <1>5, <1>11, <1>14, <2>1, Types DEF OnCpu
<1>22. Stage(c)'
  BY <1>5, <1>3, <1>7, <1>9, <1>10 DEF Stage
<1>23. Stages'
  BY <1>15, <1>22 DEF Stages
<1> QED
  BY <1>16, <1>18, <1>19, <1>20, <1>21, <1>23 DEF SchedInv, Queued

-----------------------------------------------------------------------------
(* SchedInv holds of every state, and says what the runs check.            *)

LEMMA NextInv == ASSUME SchedInv, [Next]_vars PROVE SchedInv'
<1>1. CASE Next
  <2>1. PICK c \in Cpus : Continue(c) \/ Act(c)
    BY <1>1 DEF Next
  <2>2. CASE Continue(c)
    BY <2>2, SwitchStep, IdleStep, UnidleStep, YieldStep, YieldReturnsStep, WakeNextStep,
       UnlockStep, SleepStep, CountStep, FewThreadsStep, TakeStep, SendStep, SkipStep,
       MigrateStep, SentStep, PutBackStep DEF Continue
  <2>3. CASE Act(c)
    <3>1. CASE Exit(c) \/ Tick(c) \/ Interrupt(c) \/ Lock(c)
      BY <3>1, ExitStep, TickStep, InterruptStep, LockStep
    <3>2. CASE \E t \in Threads : Fork(c, t)
      BY <3>2, ForkStep
    <3>3. CASE Wake(c, 1) \/ Wake(c, Len(wc_threads))
      <4>1. Len(wc_threads) \in Nat /\ Len(wc_threads) \in 0..Len(wc_threads)
        BY DEF SchedInv, TypeOK
      <4>2. Wake(c, 1) => 1 \in 0..Len(wc_threads)
        BY <4>1 DEF Wake
      <4> QED
        BY <3>3, <4>1, <4>2, WakeStep
    <3> QED
      BY <2>3, <3>1, <3>2, <3>3 DEF Act
  <2> QED
    BY <2>1, <2>2, <2>3
<1>2. CASE UNCHANGED vars
  <2>1. \A c \in Cpus : Runnable(c)' = Runnable(c)
    BY <1>2 DEF vars, Runnable
  <2>2. TypeOK' /\ OnCpu' /\ Stages'
    BY <1>2 DEF SchedInv, vars, TypeOK, OnCpu, Stages, Stage
  <2>3. Once' /\ SleepersQueued' /\ ReadyQueued' /\ DeadQueued' /\ Placed'
    BY <1>2, <2>1 DEF SchedInv, Queued, vars, Once, SleepersQueued, ReadyQueued, DeadQueued, Placed
  <2> QED
    BY <2>2, <2>3 DEF SchedInv, Queued
<1> QED
  BY <1>1, <1>2

LEMMA Always == SafeSpec => []SchedInv
<1>1. SchedInv /\ [Next]_vars => SchedInv'
  BY NextInv
<1> QED
  BY InitInv, <1>1, PTL DEF SafeSpec

\* Where a thread is, queue by queue.
LEMMA InPlaces ==
  ASSUME NEW t, NEW p
  PROVE  p \in Places(t) <=>
           \/ \E i \in DOMAIN wc_threads : wc_threads[i] = t /\ p = <<"channel", 0, i>>
           \/ \E c \in Cpus :
                \/ \E i \in DOMAIN c_runqueue[c] : c_runqueue[c][i] = t /\ p = <<"run", c, i>>
                \/ \E i \in DOMAIN c_zombies[c] : c_zombies[c][i] = t /\ p = <<"zombie", c, i>>
                \/ \E i \in DOMAIN list[c] : list[c][i] = t /\ p = <<"woken", c, i>>
                \/ \E i \in DOMAIN mig[c].victims :
                     mig[c].victims[i] = t /\ p = <<"victim", c, i>>
BY DEF Places, Occurs

\* The queues of threads that sleep, that wait for a CPU, and that are dead have
\* nothing in common.
LEMMA QueueOfState ==
  ASSUME SchedInv, NEW t \in Threads
  PROVE  /\ t \in Elems(wc_threads) => t_state[t] = "S_SLEEP"
         /\ \A c \in Cpus :
              /\ t \in Elems(list[c]) => t_state[t] = "S_SLEEP"
              /\ t \in Elems(c_runqueue[c]) => t_state[t] = "S_READY" /\ t_cpu[t] = c
              /\ t \in Elems(mig[c].victims) => t_state[t] = "S_READY" /\ t_cpu[t] = c
              /\ t \in Elems(c_zombies[c]) => t_state[t] = "S_ZOMBIE" /\ t_cpu[t] = c
BY DEF SchedInv, Queued, SleepersQueued, ReadyQueued, DeadQueued, Runnable

LEMMA AnElem == ASSUME NEW s, NEW x, x \in Elems(s) PROVE \E i \in DOMAIN s : s[i] = x
BY DEF Elems
LEMMA NotAnElem == ASSUME NEW s, NEW x, x \notin Elems(s) PROVE \A i \in DOMAIN s : s[i] # x
BY DEF Elems

LEMMA NoPlace ==
  ASSUME SchedInv, NEW t \in Threads, t_state[t] \in {"FREE", "S_RUN"}
  PROVE  Places(t) = {}
<1>1. /\ t \notin Elems(wc_threads)
      /\ \A c \in Cpus : /\ t \notin Elems(list[c]) /\ t \notin Elems(c_runqueue[c])
                         /\ t \notin Elems(mig[c].victims) /\ t \notin Elems(c_zombies[c])
  BY QueueOfState
<1>2. \A p : p \notin Places(t)
  BY <1>1, NotAnElem, InPlaces
<1> QED
  BY <1>2

LEMMA SleeperPlace ==
  ASSUME SchedInv, NEW t \in Threads, t_state[t] = "S_SLEEP"
  PROVE  \E p \in Places(t) : Places(t) = {p} /\ p[1] \in {"channel", "woken"}
<1>1. \A c \in Cpus : /\ t \notin Elems(c_runqueue[c]) /\ t \notin Elems(mig[c].victims)
                      /\ t \notin Elems(c_zombies[c])
  BY QueueOfState
<1>2. CASE t \in Elems(wc_threads)
  <2>1. \A c \in Cpus : t \notin Elems(list[c])
    BY <1>2 DEF SchedInv, Queued, Once
  <2>2. PICK i \in DOMAIN wc_threads : wc_threads[i] = t
    BY <1>2, AnElem
  <2>3. <<"channel", 0, i>> \in Places(t)
    BY <2>2, InPlaces
  <2>4. \A j \in DOMAIN wc_threads : wc_threads[j] = t => j = i
    BY <2>2 DEF SchedInv, Queued, Once, Injective
  <2>5. \A p \in Places(t) : p = <<"channel", 0, i>>
    BY <1>1, <2>1, <2>4, NotAnElem, InPlaces
  <2> QED
    BY <2>3, <2>5
<1>3. CASE t \notin Elems(wc_threads)
  <2>1. PICK c \in Cpus : t \in Elems(list[c])
    BY <1>3 DEF SchedInv, Queued, SleepersQueued
  <2>2. \A d \in Cpus : d # c => t \notin Elems(list[d])
    BY <2>1 DEF SchedInv, Queued, Once
  <2>3. PICK i \in DOMAIN list[c] : list[c][i] = t
    BY <2>1, AnElem
  <2>4. <<"woken", c, i>> \in Places(t)
    BY <2>3, InPlaces
  <2>5. \A j \in DOMAIN list[c] : list[c][j] = t => j = i
    BY <2>3 DEF SchedInv, Queued, Once, Injective
  <2>6. \A p \in Places(t) : p = <<"woken", c, i>>
    BY <1>1, <1>3, <2>2, <2>5, NotAnElem, InPlaces
  <2> QED
    BY <2>4, <2>6
<1> QED
  BY <1>2, <1>3

LEMMA ReadyPlace ==
  ASSUME SchedInv, NEW t \in Threads, t_state[t] = "S_READY"
  PROVE  \E p \in Places(t) : /\ Places(t) = {p} /\ p[1] \in {"run", "victim"}
                              /\ p[2] = t_cpu[t]
<1>1. PICK c \in Cpus : c = t_cpu[t]
  BY DEF SchedInv, Queued, Placed
<1>2. /\ t \notin Elems(wc_threads)
      /\ \A d \in Cpus : /\ t \notin Elems(list[d]) /\ t \notin Elems(c_zombies[d])
                         /\ d # c => /\ t \notin Elems(c_runqueue[d])
                                     /\ t \notin Elems(mig[d].victims)
  BY <1>1, QueueOfState
<1>3. t \in Runnable(c)
  BY <1>1 DEF SchedInv, Queued, ReadyQueued
<1>4. CASE t \in Elems(c_runqueue[c])
  <2>1. t \notin Elems(mig[c].victims)
    BY <1>4 DEF SchedInv, Queued, Once
  <2>2. PICK i \in DOMAIN c_runqueue[c] : c_runqueue[c][i] = t
    BY <1>4, AnElem
  <2>3. <<"run", c, i>> \in Places(t)
    BY <2>2, InPlaces
  <2>4. \A j \in DOMAIN c_runqueue[c] : c_runqueue[c][j] = t => j = i
    BY <2>2 DEF SchedInv, Queued, Once, Injective
  <2>5. \A p \in Places(t) : p = <<"run", c, i>>
    BY <1>2, <2>1, <2>4, NotAnElem, InPlaces
  <2> QED
    BY <1>1, <2>3, <2>5
<1>5. CASE t \notin Elems(c_runqueue[c])
  <2>1. t \in Elems(mig[c].victims)
    BY <1>3, <1>5 DEF Runnable
  <2>2. PICK i \in DOMAIN mig[c].victims : mig[c].victims[i] = t
    BY <2>1, AnElem
  <2>3. <<"victim", c, i>> \in Places(t)
    BY <2>2, InPlaces
  <2>4. \A j \in DOMAIN mig[c].victims : mig[c].victims[j] = t => j = i
    BY <2>2 DEF SchedInv, Queued, Once, Injective
  <2>5. \A p \in Places(t) : p = <<"victim", c, i>>
    BY <1>2, <1>5, <2>4, NotAnElem, InPlaces
  <2> QED
    BY <1>1, <2>3, <2>5
<1> QED
  BY <1>4, <1>5

LEMMA ZombiePlace ==
  ASSUME SchedInv, NEW t \in Threads, t_state[t] = "S_ZOMBIE"
  PROVE  \E p \in Places(t) : Places(t) = {p} /\ p[1] = "zombie" /\ p[2] = t_cpu[t]
<1>1. PICK c \in Cpus : c = t_cpu[t]
  BY DEF SchedInv, Queued, Placed
<1>2. /\ t \notin Elems(wc_threads)
      /\ \A d \in Cpus : /\ t \notin Elems(list[d]) /\ t \notin Elems(c_runqueue[d])
                         /\ t \notin Elems(mig[d].victims)
                         /\ d # c => t \notin Elems(c_zombies[d])
  BY <1>1, QueueOfState
<1>3. t \in Elems(c_zombies[c])
  BY <1>1 DEF SchedInv, Queued, DeadQueued
<1>4. PICK i \in DOMAIN c_zombies[c] : c_zombies[c][i] = t
  BY <1>3, AnElem
<1>5. <<"zombie", c, i>> \in Places(t)
  BY <1>4, InPlaces
<1>6. \A j \in DOMAIN c_zombies[c] : c_zombies[c][j] = t => j = i
  BY <1>4 DEF SchedInv, Queued, Once, Injective
<1>7. \A p \in Places(t) : p = <<"zombie", c, i>>
  BY <1>2, <1>6, NotAnElem, InPlaces
<1> QED
  BY <1>1, <1>5, <1>7

LEMMA InOnePlace == ASSUME SchedInv PROVE OnePlace
<1>1. OneStack
  BY DEF OneStack, SchedInv, OnCpu
<1>2. ASSUME NEW t \in Threads
      PROVE  CASE t_state[t] = "FREE"  -> Places(t) = {} /\ t \notin Elems(c_curthread)
               [] t_state[t] = "S_RUN" -> Places(t) = {} /\ c_curthread[t_cpu[t]] = t
               [] OTHER -> \E p \in Places(t) :
                    /\ Places(t) = {p}
                    /\ t_state[t] = "S_SLEEP" <=> p[1] \in {"channel", "woken"}
                    /\ t_state[t] = "S_READY" => p[1] \in {"run", "victim"} /\ p[2] = t_cpu[t]
                    /\ t_state[t] = "S_ZOMBIE" => p[1] = "zombie" /\ p[2] = t_cpu[t]
  <2>1. CASE t_state[t] = "FREE"
    <3>1. t \notin Elems(c_curthread)
      <4>1. DOMAIN c_curthread = Cpus
        BY DEF SchedInv, TypeOK
      <4>2. \A c \in Cpus : c_curthread[c] # t
        BY <2>1 DEF SchedInv, OnCpu
      <4> QED
        BY <4>1, <4>2 DEF Elems
    <3> QED
      BY <2>1, <3>1, NoPlace
  <2>2. CASE t_state[t] = "S_RUN"
    <3>1. c_curthread[t_cpu[t]] = t
      BY <2>2 DEF SchedInv, OnCpu
    <3> QED
      BY <2>2, <3>1, NoPlace
  <2>3. CASE t_state[t] = "S_SLEEP"
    BY <2>3, SleeperPlace
  <2>4. CASE t_state[t] = "S_READY"
    BY <2>4, ReadyPlace
  <2>5. CASE t_state[t] = "S_ZOMBIE"
    BY <2>5, ZombiePlace
  <2> QED
    BY <2>1, <2>2, <2>3, <2>4, <2>5 DEF SchedInv, TypeOK
<1> QED
  BY <1>1, <1>2 DEF OnePlace

\* Every variable has its type, and the queues of threads hold threads.
THEOREM SchedTypes == SafeSpec => []TypeOK
<1>1. SchedInv => TypeOK
  BY DEF SchedInv
<1> QED
  BY <1>1, Always, PTL

\* Every thread is in one place, and no two CPUs share a stack: whatever the
\* CPUs do between the locks of thread_switch, of the wakers and of
\* thread_consider_migration, no thread is lost, queued twice, or run while it
\* is queued, and exorcise frees no stack that a CPU is on.
THEOREM ThreadsInOnePlace == SafeSpec => []OnePlace
<1>1. SchedInv => OnePlace
  BY InOnePlace
<1> QED
  BY <1>1, Always, PTL

\* A CPU in cpu_idle whose run queue is not empty has an IPI_UNIDLE pending:
\* thread_make_runnable and thread_consider_migration never leave it asleep.
THEOREM IdleCpusAreTold == SafeSpec => []NoIdleWork
<1>1. SchedInv => NoIdleWork
  BY DEF SchedInv, Stages, Stage, NoIdleWork
<1> QED
  BY <1>1, Always, PTL

\* threadlist_remtail and threadlist_remhead never return NULL in
\* thread_consider_migration, stale as its counts are.
THEOREM VictimsNeverRunOut == SafeSpec => []VictimsSuffice
<1>1. SchedInv => VictimsSuffice
  BY DEF SchedInv, Stages, Stage, VictimsSuffice
<1> QED
  BY <1>1, Always, PTL

-----------------------------------------------------------------------------
(* The scheduler steps as RunStates allows.                                *)

\* The state RunStates gives each thread, from t_state and the channel alone.
StateOf(states, channel) == [t \in Threads |->
  IF states[t] = "FREE" THEN "none"
  ELSE IF states[t] = "S_RUN" THEN "running"
  ELSE IF t \in Elems(channel) THEN "asleep"
  ELSE IF states[t] = "S_ZOMBIE" THEN "dead" ELSE "ready"]

Bar == stateBar = StateOf(t_state, wc_threads)

LEMMA BarHolds == ASSUME SchedInv PROVE Bar
<1>1. ASSUME NEW t \in Threads
      PROVE  t_state[t] = "S_RUN" <=> \E c \in Cpus : c_curthread[c] = t /\ ~c_isidle[c]
  <2>1. t_state[t] = "S_RUN" => t_cpu[t] \in Cpus
    BY DEF SchedInv, Queued, Placed
  <2> QED
    BY <2>1 DEF SchedInv, OnCpu
<1>2. \A t \in Threads : stateBar[t] = StateOf(t_state, wc_threads)[t]
  BY <1>1 DEF stateBar, StateOf
<1>3. /\ stateBar = [t \in Threads |-> stateBar[t]]
      /\ StateOf(t_state, wc_threads) = [t \in Threads |-> StateOf(t_state, wc_threads)[t]]
  BY DEF stateBar, StateOf
<1> QED
  BY <1>2, <1>3 DEF Bar

\* RunStates!Move, for a thread u whose state alone changes.
LEMMA Moves ==
  ASSUME NEW f, NEW g, NEW u \in Threads, NEW x,
         f = [t \in Threads |-> f[t]], g = [t \in Threads |-> g[t]],
         g[u] = x, \A t \in Threads : t # u => g[t] = f[t]
  PROVE  g = [f EXCEPT ![u] = x]
OBVIOUS

LEMMA OnThreads == /\ stateBar = [t \in Threads |-> stateBar[t]]
                   /\ stateBar' = [t \in Threads |-> stateBar'[t]]
BY DEF stateBar

LEMMA RefinesInit == ASSUME Init PROVE Abstract!Init
<1>1. SchedInv /\ Bar
  BY InitInv, BarHolds
<1>2. wc_threads = <<>> /\ \A t \in Threads : t \notin Elems(wc_threads)
  BY EmptyElems DEF Init
<1>3. stateBar = [t \in Threads |-> IF t \in Elems(Boot) THEN "running" ELSE "none"]
  BY <1>1, <1>2 DEF Init, Bar, StateOf
<1> QED
  BY <1>2, <1>3 DEF Abstract!Init

LEMMA RefinesSleep ==
  ASSUME SchedInv, Bar, Bar', NEW c \in Cpus, Sleep(c) PROVE Abstract!Next
<1>1. PICK u : u = c_curthread[c]
  OBVIOUS
<1>2. /\ EnterSwitch(c, "S_SLEEP") /\ pc[c] = "lk" /\ c_runqueue' = c_runqueue
      /\ wc_threads' = Append(wc_threads, u)
  BY <1>1 DEF Sleep
<1>3. /\ u \in Threads /\ t_state[u] = "S_RUN" /\ t_state'[u] = "S_SLEEP"
      /\ \A t \in Threads : t # u => t_state'[t] = t_state[t]
  BY <1>1, <1>2, SwitchedOut
<1>4. Elems(wc_threads') = Elems(wc_threads) \cup {u}
  <2>1. u \notin Elems(wc_threads)
    BY <1>3, QueueOfState
  <2> QED
    BY <1>2, <1>3, <2>1, AppendElems DEF SchedInv, TypeOK, Queued, Once
<1>5. stateBar[u] = "running"
  BY <1>3 DEF Bar, StateOf
<1>6. StateOf(t_state', wc_threads')[u] = "asleep"
  BY <1>3, <1>4 DEF StateOf
<1>7. \A t \in Threads : t # u =>
        StateOf(t_state', wc_threads')[t] = StateOf(t_state, wc_threads)[t]
  BY <1>3, <1>4 DEF StateOf
<1>8. stateBar' = [stateBar EXCEPT ![u] = "asleep"]
  <2>1. stateBar'[u] = "asleep" /\ \A t \in Threads : t # u => stateBar'[t] = stateBar[t]
    BY <1>3, <1>6, <1>7 DEF Bar
  <2> QED
    BY <1>3, <2>1, Moves, OnThreads
<1>9. Abstract!Sleep(u)
  BY <1>2, <1>5, <1>8 DEF Abstract!Sleep, Abstract!Move
<1> QED
  BY <1>3, <1>9 DEF Abstract!Next

LEMMA RefinesExit ==
  ASSUME SchedInv, Bar, Bar', NEW c \in Cpus, Exit(c) PROVE Abstract!Next
<1>1. PICK u : u = c_curthread[c]
  OBVIOUS
<1>2. /\ EnterSwitch(c, "S_ZOMBIE") /\ pc[c] = "thread" /\ c_runqueue' = c_runqueue
      /\ wc_threads' = wc_threads
  BY DEF Exit
<1>3. /\ u \in Threads /\ t_state[u] = "S_RUN" /\ t_state'[u] = "S_ZOMBIE"
      /\ \A t \in Threads : t # u => t_state'[t] = t_state[t]
  BY <1>1, <1>2, SwitchedOut
<1>4. u \notin Elems(wc_threads)
  BY <1>3, QueueOfState
<1>5. stateBar[u] = "running"
  BY <1>3 DEF Bar, StateOf
<1>6. StateOf(t_state', wc_threads')[u] = "dead"
  BY <1>2, <1>3, <1>4 DEF StateOf
<1>7. \A t \in Threads : t # u =>
        StateOf(t_state', wc_threads')[t] = StateOf(t_state, wc_threads)[t]
  BY <1>2, <1>3 DEF StateOf
<1>8. stateBar' = [stateBar EXCEPT ![u] = "dead"]
  <2>1. stateBar'[u] = "dead" /\ \A t \in Threads : t # u => stateBar'[t] = stateBar[t]
    BY <1>3, <1>6, <1>7 DEF Bar
  <2> QED
    BY <1>3, <2>1, Moves, OnThreads
<1>9. Abstract!Exit(u)
  BY <1>2, <1>5, <1>8 DEF Abstract!Exit, Abstract!Move
<1> QED
  BY <1>3, <1>9 DEF Abstract!Next

LEMMA RefinesYield ==
  ASSUME SchedInv, Bar, Bar', NEW c \in Cpus, Yield(c) PROVE Abstract!Next
<1>1. PICK u : u = c_curthread[c]
  OBVIOUS
<1>2. /\ EnterSwitch(c, "S_READY") /\ pc[c] = "yield" /\ wc_threads' = wc_threads
      /\ \A d \in Cpus : d # c => c_runqueue'[d] = c_runqueue[d]
  BY DEF Yield, SchedInv, TypeOK
<1>3. /\ u \in Threads /\ t_state[u] = "S_RUN" /\ t_state'[u] = "S_READY"
      /\ \A t \in Threads : t # u => t_state'[t] = t_state[t]
  BY <1>1, <1>2, SwitchedOut
<1>4. u \notin Elems(wc_threads)
  BY <1>3, QueueOfState
<1>5. stateBar[u] = "running"
  BY <1>3 DEF Bar, StateOf
<1>6. StateOf(t_state', wc_threads')[u] = "ready"
  BY <1>2, <1>3, <1>4 DEF StateOf
<1>7. \A t \in Threads : t # u =>
        StateOf(t_state', wc_threads')[t] = StateOf(t_state, wc_threads)[t]
  BY <1>2, <1>3 DEF StateOf
<1>8. stateBar' = [stateBar EXCEPT ![u] = "ready"]
  <2>1. stateBar'[u] = "ready" /\ \A t \in Threads : t # u => stateBar'[t] = stateBar[t]
    BY <1>3, <1>6, <1>7 DEF Bar
  <2> QED
    BY <1>3, <2>1, Moves, OnThreads
<1>9. Abstract!Preempt(u)
  BY <1>2, <1>5, <1>8 DEF Abstract!Preempt, Abstract!Move
<1> QED
  BY <1>3, <1>9 DEF Abstract!Next

LEMMA RefinesFork ==
  ASSUME SchedInv, Bar, Bar', NEW c \in Cpus, NEW u \in Threads, Fork(c, u) PROVE Abstract!Next
<1>1. /\ t_state[u] = "FREE" /\ t_state' = [t_state EXCEPT ![u] = "S_READY"]
      /\ wc_threads' = wc_threads
  BY DEF Fork
<1>2. /\ t_state'[u] = "S_READY" /\ \A t \in Threads : t # u => t_state'[t] = t_state[t]
  BY <1>1 DEF SchedInv, TypeOK
<1>3. u \notin Elems(wc_threads)
  BY <1>1, QueueOfState
<1>4. stateBar[u] = "none"
  BY <1>1 DEF Bar, StateOf
<1>5. StateOf(t_state', wc_threads')[u] = "ready"
  BY <1>1, <1>2, <1>3 DEF StateOf
<1>6. \A t \in Threads : t # u =>
        StateOf(t_state', wc_threads')[t] = StateOf(t_state, wc_threads)[t]
  BY <1>1, <1>2 DEF StateOf
<1>7. stateBar' = [stateBar EXCEPT ![u] = "ready"]
  <2>1. stateBar'[u] = "ready" /\ \A t \in Threads : t # u => stateBar'[t] = stateBar[t]
    BY <1>5, <1>6 DEF Bar
  <2> QED
    BY <2>1, Moves, OnThreads
<1>8. Abstract!Fork(u)
  BY <1>1, <1>4, <1>7 DEF Abstract!Fork, Abstract!Move
<1> QED
  BY <1>8 DEF Abstract!Next

LEMMA RefinesWake ==
  ASSUME SchedInv, Bar, Bar', NEW c \in Cpus, NEW n \in {1, Len(wc_threads)}, Wake(c, n)
  PROVE  Abstract!Next \/ UNCHANGED Abstract!vars
<1>1. /\ wc_threads \in Seq(Threads) /\ Injective(wc_threads) /\ Len(wc_threads) \in Nat
      /\ n \in 0..Len(wc_threads) /\ t_state' = t_state
      /\ wc_threads' = SubSeq(wc_threads, n + 1, Len(wc_threads))
  BY DEF Wake, SchedInv, TypeOK, Queued, Once
<1>2. CASE wc_threads = <<>>
  <2>1. n = 0
    BY <1>1, <1>2
  <2>2. Len(wc_threads') = 0 /\ wc_threads' \in Seq(Threads)
    BY <1>1, <1>2, <2>1, SplitElems
  <2>3. wc_threads' = wc_threads
    BY <1>2, <2>2, EmptySeq
  <2>4. stateBar' = stateBar
    BY <1>1, <2>3 DEF Bar
  <2> QED
    BY <2>3, <2>4 DEF Abstract!vars
<1>3. CASE wc_threads # <<>>
  <2> DEFINE p == SubSeq(wc_threads, 1, n)
  <2>1. /\ Elems(p) \cap Elems(wc_threads') = {}
        /\ Elems(p) \cup Elems(wc_threads') = Elems(wc_threads)
    BY <1>1, SplitElems
  <2>2. \A t : t \in Elems(p) <=> \E i \in 1..n : wc_threads[i] = t
    <3>1. DOMAIN p = 1..n /\ \A i \in 1..n : p[i] = wc_threads[i]
      BY <1>1
    <3> QED
      BY <3>1 DEF Elems
  <2> HIDE DEF p
  <2>3. \A t \in Threads : StateOf(t_state', wc_threads')[t] =
          IF \E i \in 1..n : wc_threads[i] = t THEN "ready" ELSE stateBar[t]
    <3>1. ASSUME NEW t \in Threads, t \in Elems(p)
          PROVE  StateOf(t_state', wc_threads')[t] = "ready"
      <4>1. t_state[t] = "S_SLEEP" /\ t \notin Elems(wc_threads')
        BY <2>1, <3>1, QueueOfState
      <4> QED
        BY <1>1, <4>1 DEF StateOf
    <3>2. ASSUME NEW t \in Threads, t \notin Elems(p)
          PROVE  StateOf(t_state', wc_threads')[t] = stateBar[t]
      BY <1>1, <2>1, <3>2 DEF Bar, StateOf
    <3> QED
      BY <2>2, <3>1, <3>2
  <2>4. stateBar' = [t \in Threads |-> IF \E i \in 1..n : wc_threads[i] = t
                                       THEN "ready" ELSE stateBar[t]]
    <3>1. stateBar' = [t \in Threads |-> StateOf(t_state', wc_threads')[t]]
      BY DEF Bar, StateOf
    <3> QED
      BY <2>3, <3>1
  <2>5. Abstract!Wake(n)
    BY <1>1, <2>4 DEF Abstract!Wake
  <2> QED
    BY <1>3, <2>5 DEF Abstract!Next
<1> QED
  BY <1>2, <1>3

\* Fewer threads run than there are CPUs, when one is between threads.
LEMMA FreeCpu ==
  ASSUME SchedInv, NEW c \in Cpus, c_isidle[c]
  PROVE  Cardinality({t \in Threads : t_state[t] = "S_RUN"}) < CpuCount
<1> DEFINE R == {t \in Threads : t_state[t] = "S_RUN"}
           D == Cpus \ {c}
           f == [t \in R |-> t_cpu[t]]
<1>1. \A t \in R : t_cpu[t] \in Cpus /\ c_curthread[t_cpu[t]] = t /\ ~c_isidle[t_cpu[t]]
  BY DEF SchedInv, Queued, Placed, OnCpu
<1>2. \A t \in R : t_cpu[t] # c
  BY <1>1
<1>3. f \in [R -> D] /\ \A t, u \in R : f[t] = f[u] => t = u
  BY <1>1, <1>2
<1>4. f \in Injection(R, D)
  BY <1>3 DEF Injection, IsInjective
<1>5. IsFiniteSet(Cpus) /\ Cardinality(Cpus) = CpuCount
  <2>1. 0 \in Int /\ CpuCount - 1 \in Int /\ CpuCount - 1 >= 0
    BY CpusNat
  <2>2. /\ IsFiniteSet(0 .. CpuCount - 1)
        /\ Cardinality(0 .. CpuCount - 1) = IF 0 > CpuCount - 1 THEN 0 ELSE (CpuCount - 1) - 0 + 1
    BY <2>1, FS_Interval
  <2>3. (CpuCount - 1) - 0 + 1 = CpuCount /\ ~(0 > CpuCount - 1)
    BY CpusNat
  <2> QED
    BY <2>2, <2>3 DEF Cpus
<1>6. IsFiniteSet(D) /\ Cardinality(D) = CpuCount - 1
  BY <1>5, FS_RemoveElement
<1> HIDE DEF R, D, f
<1>7. IsFiniteSet(R) /\ Cardinality(R) <= Cardinality(D)
  BY <1>4, <1>6, FS_Injection
<1>8. Cardinality(R) \in Nat
  BY <1>7, FS_CardinalityType
<1>9. Cardinality(R) < CpuCount
  BY <1>6, <1>7, <1>8, CpusNat
<1> QED
  BY <1>9 DEF R

LEMMA RefinesSwitch ==
  ASSUME SchedInv, Bar, Bar', NEW c \in Cpus, Switch(c) PROVE Abstract!Next
<1>1. PICK next : next = Head(c_runqueue[c])
  OBVIOUS
<1>2. PICK buried : buried = Elems(c_zombies[c])
  OBVIOUS
<1>3. /\ c_runqueue[c] # <<>> /\ wc_threads' = wc_threads
      /\ t_state' = Exorcised(c, [t_state EXCEPT ![next] = "S_RUN"])
      /\ pc[c] = "switch"
  BY <1>1 DEF Switch
<1>4. next \in Threads /\ next \in Elems(c_runqueue[c])
  <2>1. c_runqueue[c] \in Seq(Threads) /\ Injective(c_runqueue[c])
    BY Types DEF SchedInv, Queued, Once
  <2> QED
    BY <1>1, <1>3, <2>1, TailElems
<1>5. t_state[next] = "S_READY" /\ next \notin Elems(wc_threads)
  BY <1>4, QueueOfState
<1>6. /\ buried \subseteq Threads
      /\ \A t \in buried : t_state[t] = "S_ZOMBIE" /\ t \notin Elems(wc_threads)
  <2>1. buried \subseteq Threads
    BY <1>2, Types, ElemsIn DEF SchedInv
  <2> QED
    BY <1>2, <2>1, QueueOfState
<1>7. \A t \in Threads : t_state'[t] = IF t \in buried THEN "FREE"
                                       ELSE IF t = next THEN "S_RUN" ELSE t_state[t]
  BY <1>2, <1>3, <1>4 DEF Exorcised, SchedInv, TypeOK
<1>8. stateBar[next] = "ready" /\ \A t \in buried : stateBar[t] = "dead"
  BY <1>4, <1>5, <1>6 DEF Bar, StateOf
<1>9. \A t \in Threads : stateBar'[t] = IF t = next THEN "running"
                                        ELSE IF t \in buried THEN "none" ELSE stateBar[t]
  <2>1. ASSUME NEW t \in Threads
        PROVE  stateBar'[t] = IF t = next THEN "running"
                              ELSE IF t \in buried THEN "none" ELSE stateBar[t]
    <3>1. CASE t = next
      BY <1>5, <1>6, <1>7, <3>1 DEF Bar, StateOf
    <3>2. CASE t # next /\ t \in buried
      BY <1>7, <3>2 DEF Bar, StateOf
    <3>3. CASE t # next /\ t \notin buried
      BY <1>3, <1>7, <3>3 DEF Bar, StateOf
    <3> QED
      BY <3>1, <3>2, <3>3
  <2> QED
    BY <2>1
<1>10. stateBar' = [t \in Threads |-> IF t = next THEN "running"
                                      ELSE IF t \in buried THEN "none" ELSE stateBar[t]]
  BY <1>9, OnThreads
<1>11. Cardinality(Abstract!In("running")) < CpuCount
  <2>1. c_isidle[c]
    BY <1>3 DEF SchedInv, Stages, Stage
  <2>2. Abstract!In("running") = {t \in Threads : t_state[t] = "S_RUN"}
    BY DEF Bar, StateOf, Abstract!In
  <2> QED
    BY <2>1, <2>2, FreeCpu
<1>12. next \in Abstract!In("ready") /\ buried \in SUBSET Abstract!In("dead")
  BY <1>4, <1>6, <1>8 DEF Abstract!In
<1>13. \E t \in Abstract!In("ready"), b \in SUBSET Abstract!In("dead") :
         stateBar' = [u \in Threads |-> IF u = t THEN "running"
                                        ELSE IF u \in b THEN "none" ELSE stateBar[u]]
  BY <1>10, <1>12, Zenon
<1>14. Abstract!Dispatch
  <2>1. UNCHANGED wc_threads
    BY <1>3
  <2>2. \A S : Abstract!Cardinality(S) = Cardinality(S)
    BY DEF Abstract!Cardinality, Cardinality
  <2> QED
    BY <1>11, <1>13, <2>1, <2>2, Zenon DEF Abstract!Dispatch
<1> QED
  BY <1>14 DEF Abstract!Next

LEMMA RefinesWakeNext ==
  ASSUME SchedInv, Bar, Bar', NEW c \in Cpus, WakeNext(c) PROVE UNCHANGED Abstract!vars
<1>1. PICK t : t = Head(list[c])
  OBVIOUS
<1>2. /\ list[c] # <<>> /\ wc_threads' = wc_threads
      /\ t_state' = [t_state EXCEPT ![t] = "S_READY"]
  BY <1>1 DEF WakeNext, MakeRunnable
<1>3. t \in Threads /\ t \in Elems(list[c])
  <2>1. list[c] \in Seq(Threads) /\ Injective(list[c])
    BY Types DEF SchedInv, Queued, Once
  <2> QED
    BY <1>1, <1>2, <2>1, TailElems
<1>4. t_state[t] = "S_SLEEP" /\ t \notin Elems(wc_threads)
  BY <1>3, QueueOfState DEF SchedInv, Queued, Once
<1>5. t_state'[t] = "S_READY" /\ \A u \in Threads : u # t => t_state'[u] = t_state[u]
  BY <1>2, <1>3 DEF SchedInv, TypeOK
<1>6. \A u \in Threads : stateBar'[u] = stateBar[u]
  BY <1>2, <1>3, <1>4, <1>5 DEF Bar, StateOf
<1>7. stateBar' = stateBar
  BY <1>6, OnThreads
<1> QED
  BY <1>2, <1>7 DEF Abstract!vars

\* What leaves the states and the channel alone is a stutter.
LEMMA RefinesOthers ==
  ASSUME Bar, Bar', t_state' = t_state, wc_threads' = wc_threads
  PROVE  UNCHANGED Abstract!vars
BY DEF Bar, Abstract!vars

LEMMA RefinesNext ==
  ASSUME SchedInv, Bar, Bar', [Next]_vars PROVE [Abstract!Next]_(Abstract!vars)
<1>1. CASE Next
  <2>1. PICK c \in Cpus : Continue(c) \/ Act(c)
    BY <1>1 DEF Next
  <2>2. CASE \/ Idle(c) \/ Unidle(c) \/ YieldReturns(c) \/ Unlock(c) \/ Count(c) \/ FewThreads(c)
             \/ Send(c) \/ Skip(c) \/ Sent(c) \/ Tick(c) \/ Interrupt(c) \/ Lock(c)
    <3>1. t_state' = t_state /\ UNCHANGED queues
      BY <2>2 DEF Idle, Unidle, YieldReturns, Unlock, Count, FewThreads, Send, Skip, Sent, Tick,
                  Interrupt, Lock
    <3>2. wc_threads' = wc_threads
      BY <3>1 DEF queues
    <3> QED
      BY <3>1, <3>2, RefinesOthers
  <2>3. CASE Take(c) \/ Migrate(c) \/ PutBack(c)
    <3>1. t_state' = t_state /\ wc_threads' = wc_threads
      BY <2>3 DEF Take, Migrate, PutBack
    <3> QED
      BY <3>1, RefinesOthers
  <2>4. CASE Switch(c) \/ Yield(c) \/ WakeNext(c) \/ Sleep(c) \/ Exit(c)
    BY <2>4, RefinesSwitch, RefinesYield, RefinesWakeNext, RefinesSleep, RefinesExit
  <2>5. CASE \/ Wake(c, 1) \/ Wake(c, Len(wc_threads))
             \/ \E t \in Threads : Fork(c, t)
    BY <2>5, RefinesWake, RefinesFork
  <2> QED
    BY <2>1, <2>2, <2>3, <2>4, <2>5 DEF Continue, Act
<1>2. CASE UNCHANGED vars
  BY <1>2, RefinesOthers DEF vars
<1> QED
  BY <1>1, <1>2

\* The scheduler implements RunStates but for its fairness: sleeping is atomic
\* with giving up the channel's spinlock, wake-ups take the sleepers in order and
\* lose none, no thread runs before it is ready or after it exited, and never
\* more threads run than there are CPUs.
THEOREM SchedRefines == SafeSpec => Abstract!SafeSpec
<1>1. Init => Abstract!Init
  BY RefinesInit
<1>2. SchedInv => Bar
  BY BarHolds
<1>3. SchedInv /\ Bar /\ Bar' /\ [Next]_vars => [Abstract!Next]_(Abstract!vars)
  BY RefinesNext
<1> QED
  BY <1>1, <1>2, <1>3, Always, PTL DEF SafeSpec, Abstract!SafeSpec

=============================================================================
