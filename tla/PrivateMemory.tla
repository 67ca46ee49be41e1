---------------------------- MODULE PrivateMemory ----------------------------
(***************************************************************************)
(* What the virtual memory system promises to user programs: every process *)
(* has a memory of its own.  A program finds the image it was loaded from  *)
(* and zeros elsewhere; it changes only its own writable pages; fork gives *)
(* the child a copy of the parent's memory at that moment.  There are no   *)
(* frames, page tables, TLBs or processors at this level.                  *)
(***************************************************************************)
CONSTANTS
  Procs,
  Pages,
  ImagePages,   \* pages that the executable's segments fill
  Writable,     \* pages of a segment with PF_W, and the stack
  Values,       \* page contents
  Programs,     \* what an executable puts into each of its image pages
  Zero          \* the contents of a page of zeros

VARIABLE memory     \* process -> its pages, or NoMemory

NoMemory == << >>

Loaded(v) == [g \in Pages |-> IF g \in ImagePages THEN v ELSE Zero]
Alive(p) == memory[p] # NoMemory

Init == memory = [p \in Procs |-> NoMemory]

\* runprogram, or an execv that succeeds.
Exec(p, v) == memory' = [memory EXCEPT ![p] = Loaded(v)]

Store(p, g, v) ==
  /\ Alive(p) /\ g \in Writable
  /\ memory' = [memory EXCEPT ![p][g] = v]

Copy(p, src, dst) ==
  /\ Alive(p) /\ dst \in Writable
  /\ memory' = [memory EXCEPT ![p][dst] = memory[p][src]]

Fork(p, q) ==
  /\ Alive(p) /\ ~Alive(q)
  /\ memory' = [memory EXCEPT ![q] = memory[p]]

Exit(p) ==
  /\ Alive(p)
  /\ memory' = [memory EXCEPT ![p] = NoMemory]

Next == \E p \in Procs :
  \/ \E v \in Programs : Exec(p, v)
  \/ \E g \in Pages, v \in Values : Store(p, g, v)
  \/ \E g, h \in Pages : Copy(p, g, h)
  \/ \E q \in Procs : Fork(p, q)
  \/ Exit(p)

Spec == Init /\ [][Next]_memory
==============================================================================
