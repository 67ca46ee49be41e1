----------------------------- MODULE RunStates -----------------------------
(***************************************************************************)
(* What the users of kern/include/thread.h and wchan.h see of the          *)
(* scheduler: every thread is in one state; at most one runs on each CPU;  *)
(* going to sleep and giving up the channel's spinlock are one step, so    *)
(* that a wake-up, which needs the spinlock, finds the sleeper; wake-ups   *)
(* take sleepers in the order they went to sleep; a thread that exits      *)
(* never runs again.                                                       *)
(***************************************************************************)
EXTENDS Naturals, Sequences, FiniteSets

CONSTANTS Threads, CpuCount,
          First       \* the threads the processors start with

VARIABLES state,      \* of each thread
          channel     \* the threads asleep on the wait channel

vars == <<state, channel>>

States == {"none", "ready", "running", "asleep", "dead"}
In(s) == {t \in Threads : state[t] = s}

Init == /\ state = [t \in Threads |-> IF t \in First THEN "running" ELSE "none"]
        /\ channel = <<>>

Move(t, from, to) == state[t] = from /\ state' = [state EXCEPT ![t] = to]

Fork(t) == Move(t, "none", "ready") /\ UNCHANGED channel
Preempt(t) == Move(t, "running", "ready") /\ UNCHANGED channel
Exit(t) == Move(t, "running", "dead") /\ UNCHANGED channel
Sleep(t) == Move(t, "running", "asleep") /\ channel' = Append(channel, t)

\* A free CPU takes a ready thread, and may bury some of the dead.
Dispatch == /\ Cardinality(In("running")) < CpuCount
            /\ \E t \in In("ready"), buried \in SUBSET In("dead") :
                 state' = [u \in Threads |-> IF u = t THEN "running"
                                             ELSE IF u \in buried THEN "none" ELSE state[u]]
            /\ UNCHANGED channel

\* wchan_wakeone and wchan_wakeall.
Wake(n) == /\ state' = [t \in Threads |-> IF \E i \in 1..n : channel[i] = t
                                          THEN "ready" ELSE state[t]]
           /\ channel' = SubSeq(channel, n + 1, Len(channel))

Next == \/ \E t \in Threads : Fork(t) \/ Preempt(t) \/ Exit(t) \/ Sleep(t)
        \/ Dispatch
        \/ channel # <<>> /\ (Wake(1) \/ Wake(Len(channel)))

SafeSpec == Init /\ [][Next]_vars

\* While fewer threads run than there are CPUs and some are ready, threads go on
\* being dispatched.  Processors are not told apart here, and ready threads are in
\* no order: one CPU may do all of it, and always with the same threads.
Spec == SafeSpec /\ WF_vars(Dispatch)
=============================================================================
