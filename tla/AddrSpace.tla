------------------------------ MODULE AddrSpace ------------------------------
(***************************************************************************)
(* The virtual memory system of assignment 3: kern/vm/vm.c and             *)
(* kern/vm/addrspace.c, the frame table of kern/arch/mips/vm/unsw.c, and   *)
(* the callers that create, switch and destroy address spaces (fork, exec, *)
(* exit and the context switch).  A TLB holds no address space ids: it is  *)
(* kept right by flushing it, on the processor that runs the code.         *)
(*                                                                         *)
(* One action is one stretch that a timer interrupt can cut off from the   *)
(* next: the thread may then run on another processor.  as_copy and        *)
(* as_destroy go on one page at a time.  Page tables are one level here,   *)
(* since the second level only saves space.                                *)
(***************************************************************************)
EXTENDS Integers, FiniteSets

CONSTANTS
  Procs,
  CPUs,
  NPages,       \* user pages are 0..NPages-1
  ImagePages,   \* pages of the segments of an executable
  Writable,     \* pages of a segment with PF_W, and of the stack
  Frames,       \* frames for user pages
  Spaces,       \* address spaces the kernel heap has room for
  NULL,
  NUM_TLB,
  Values,       \* contents of a page
  Programs,     \* what an executable has in its image pages
  Zero,         \* the contents of a page after bzero
  Nobody        \* a kernel thread runs, or the idle loop

Pages == 0..(NPages - 1)

ASSUME SizesAssumption == NPages \in Nat \ {0} /\ NUM_TLB \in Nat \ {0}
ASSUME PagesAssumption == ImagePages \subseteq Pages /\ Writable \subseteq Pages
ASSUME ContentsAssumption == Programs \subseteq Values /\ Zero \in Values
ASSUME NobodyAssumption == Nobody \notin Procs /\ NULL \notin Frames \cup Spaces

\* A page table entry: the frame, and TLBLO_DIRTY, without which a store traps.
PTE == [frame : Frames \cup {NULL}, dirty : BOOLEAN]
PTE_EMPTY == [frame |-> NULL, dirty |-> FALSE]
TlbEntry == [page : Pages, frame : Frames, dirty : BOOLEAN]

\* A vm_fault between its use of the page table and tlb_random.
Fault == [page : Pages \cup {NPages}, pte : PTE]
NoFault == [page |-> NPages, pte |-> PTE_EMPTY]

\* none: no process.  start: a new process, in runprogram.  setas: proc_setas
\* is done and as_activate is not, on the way to "load".  stack: loaded, before
\* as_define_stack.  restore: the old space set again and not activated.
\* user: user mode, or copyin and copyout in a system call.  copy: in as_copy.
\* reap: in as_destroy.
States == {"none", "start", "setas", "load", "stack", "restore", "user", "copy", "reap"}

VARIABLES
  cpu,          \* the process whose thread each processor runs, or Nobody
  pc,           \* where the thread of a process is, see States
  p_addrspace,  \* the address space of a process, or NULL
  other,        \* the local oldvm, newas or as of loadexec, as_copy, as_destroy
  image,        \* the program being loaded, Zero at other times
  todo,         \* its pages not yet read from the file
  fault,        \* the page fault being handled, see Fault
  spaces,       \* address spaces that as_create made, not yet freed
  pagetable, region, loading_mode,    \* the fields of each struct addrspace
  frame_table,  \* allocated frames
  ram,          \* contents of the frames
  tlb,          \* per processor
  panic

procvars == <<p_addrspace, other, image, todo>>
asvars == <<spaces, pagetable, region, loading_mode>>
vars == <<cpu, pc, p_addrspace, other, image, todo, fault, spaces, pagetable, region,
          loading_mode, frame_table, ram, tlb, panic>>

Init ==
  /\ cpu = [c \in CPUs |-> Nobody]
  /\ pc = [p \in Procs |-> "none"]
  /\ p_addrspace = [p \in Procs |-> NULL]
  /\ other = [p \in Procs |-> NULL]
  /\ image = [p \in Procs |-> Zero]
  /\ todo = [p \in Procs |-> {}]
  /\ fault = [p \in Procs |-> NoFault]
  /\ spaces = {}
  /\ pagetable = [a \in Spaces |-> [g \in Pages |-> PTE_EMPTY]]
  /\ region = [a \in Spaces |-> {}]
  /\ loading_mode = [a \in Spaces |-> FALSE]
  /\ frame_table = {}
  /\ ram = [f \in Frames |-> Zero]
  /\ tlb = [c \in CPUs |-> {}]
  /\ panic = FALSE

-----------------------------------------------------------------------------
Lowest(S) == CHOOSE x \in S : \A y \in S : x <= y

\* alloc_one_frame takes the first of them and kmalloc finds room for a space
\* where it does; here either may take any, for no property depends on which.
FreeFrames == Frames \ frame_table
FreeSpaces == Spaces \ spaces

\* The thread of p is on a processor, at l, and not inside a page fault.
Runs(p, c, l) == cpu[c] = p /\ pc[p] = l /\ fault[p] = NoFault

Goto(p, l) == pc' = [pc EXCEPT ![p] = l]

\* The TLB entries of processor c for page g.
Hits(c, g) == {e \in tlb[c] : e.page = g}

ActivateNot(c, a) == tlb' = tlb                         \* mutant: no flush

\* as_activate on processor c, when curproc has the address space a.
Activate(c, a) == tlb' = IF a = NULL THEN tlb ELSE [tlb EXCEPT ![c] = {}]

-----------------------------------------------------------------------------
\* The thread leaves its processor at an interrupt or to sleep; the next one
\* there is a kernel thread, or the idle loop.
SwitchOut(p, c) ==
  /\ cpu[c] = p
  /\ cpu' = [cpu EXCEPT ![c] = Nobody]
  /\ UNCHANGED <<pc, procvars, fault, asvars, frame_table, ram, tlb, panic>>

\* thread_switch, or thread_startup, comes to a thread of a process.
SwitchIn(p, c) ==
  /\ cpu[c] = Nobody
  /\ pc[p] # "none"
  /\ \A d \in CPUs : cpu[d] # p
  /\ cpu' = [cpu EXCEPT ![c] = p]
  /\ Activate(c, p_addrspace[p])
  /\ UNCHANGED <<pc, procvars, fault, asvars, frame_table, ram, panic>>

-----------------------------------------------------------------------------
\* vm_fault on a TLB miss, up to tlb_random.  A page without an entry gets a
\* frame of zeros, writable if its region is.
VmFault(p, c, g) ==
  LET a == p_addrspace[p]
      Pending(pte) == fault' = [fault EXCEPT ![p] = [page |-> g, pte |-> pte]]
      New(f) == [frame |-> f, dirty |-> g \in Writable] IN
  /\ Runs(p, c, "user") \/ Runs(p, c, "load")
  /\ Hits(c, g) = {}
  /\ IF pagetable[a][g] # PTE_EMPTY
     THEN Pending(pagetable[a][g]) /\ UNCHANGED <<pagetable, frame_table, ram>>
     ELSE /\ g \in region[a]
          /\ \E f \in FreeFrames :
               /\ pagetable' = [pagetable EXCEPT ![a][g] = New(f)]
               /\ frame_table' = frame_table \cup {f}
               /\ ram' = [ram EXCEPT ![f] = Zero]
               /\ Pending(New(f))
  /\ UNCHANGED <<cpu, pc, procvars, spaces, region, loading_mode, tlb, panic>>

\* tlb_random: the entry goes to a slot the hardware picks, in use or not.
TlbRandom(p, c) ==
  LET e == [page |-> fault[p].page, frame |-> fault[p].pte.frame,
            dirty |-> fault[p].pte.dirty \/ loading_mode[p_addrspace[p]]] IN
  /\ cpu[c] = p
  /\ fault[p] # NoFault
  /\ \E victim \in {{}} \cup {{old} : old \in tlb[c]} :
       /\ Cardinality((tlb[c] \ victim) \cup {e}) <= NUM_TLB
       /\ tlb' = [tlb EXCEPT ![c] = (@ \ victim) \cup {e}]
  /\ fault' = [fault EXCEPT ![p] = NoFault]
  /\ UNCHANGED <<cpu, pc, procvars, asvars, frame_table, ram, panic>>

\* vm_insert with no frame left: bzero goes through a null pointer.  The trap
\* is fatal in a fault from user mode.  Where a copyout failed on it, the load
\* fails (LoadFails), unless it was kmalloc that returned NULL to a KASSERT.
\* as_copy has the same assertions.
OutOfMemory(p, c) ==
  /\ \E l \in {"user", "load", "copy"} : Runs(p, c, l)
  /\ FreeFrames = {}
  /\ \E g \in Pages : pagetable[p_addrspace[p]][g] = PTE_EMPTY \/ pc[p] = "copy"
  /\ panic' = TRUE
  /\ UNCHANGED <<cpu, pc, procvars, fault, asvars, frame_table, ram, tlb>>

-----------------------------------------------------------------------------
\* A store hits in the TLB, on an entry that allows it.
Write(c, g, v) ==
  \E e \in Hits(c, g) : e.dirty /\ ram' = [ram EXCEPT ![e.frame] = v]

Store(p, c) ==
  /\ Runs(p, c, "user")
  /\ \E g \in Pages, v \in Values : Write(c, g, v)
  /\ UNCHANGED <<cpu, pc, procvars, fault, asvars, frame_table, tlb, panic>>

\* A load from one page and a store of what it returned to another.
Copy(p, c) ==
  /\ Runs(p, c, "user")
  /\ \E g, h \in Pages : \E e \in Hits(c, g) : Write(c, h, ram[e.frame])
  /\ UNCHANGED <<cpu, pc, procvars, fault, asvars, frame_table, tlb, panic>>

-----------------------------------------------------------------------------
\* as_create, and the regions r for as_copy: a is a new space with no entries.
Create(a, r) ==
  /\ spaces' = spaces \cup {a}
  /\ pagetable' = [pagetable EXCEPT ![a] = [g \in Pages |-> PTE_EMPTY]]
  /\ region' = [region EXCEPT ![a] = r]
  /\ loading_mode' = [loading_mode EXCEPT ![a] = FALSE]

\* The kernel menu starts a program.
Start(p) ==
  /\ pc[p] = "none"
  /\ Goto(p, "start")
  /\ UNCHANGED <<cpu, procvars, fault, asvars, frame_table, ram, tlb, panic>>

\* loadexec, from runprogram or execv, up to proc_setas(newvm).
LoadExec(p, c) ==
  /\ Runs(p, c, "start") \/ Runs(p, c, "user")
  /\ \E a \in FreeSpaces :
       /\ Create(a, {})
       /\ p_addrspace' = [p_addrspace EXCEPT ![p] = a]
  /\ other' = [other EXCEPT ![p] = p_addrspace[p]]
  /\ \E v \in Programs : image' = [image EXCEPT ![p] = v]
  /\ Goto(p, "setas")
  /\ UNCHANGED <<cpu, todo, fault, frame_table, ram, tlb, panic>>

\* as_activate, the regions, and as_prepare_load.
PrepareLoad(p, c) ==
  LET a == p_addrspace[p] IN
  /\ Runs(p, c, "setas")
  /\ Activate(c, a)
  /\ region' = [region EXCEPT ![a] = ImagePages]
  /\ loading_mode' = [loading_mode EXCEPT ![a] = TRUE]
  /\ todo' = [todo EXCEPT ![p] = ImagePages]
  /\ Goto(p, "load")
  /\ UNCHANGED <<cpu, p_addrspace, other, image, fault, spaces, pagetable, frame_table,
                 ram, panic>>

\* load_segment's VOP_READ copies a page of the file out to the program.
LoadPage(p, c) ==
  /\ Runs(p, c, "load")
  /\ \E g \in todo[p] : /\ Write(c, g, image[p])
                        /\ todo' = [todo EXCEPT ![p] = @ \ {g}]
  /\ UNCHANGED <<cpu, pc, p_addrspace, other, image, fault, asvars, frame_table, tlb, panic>>

CompleteLoadNoFlush(p, c) ==                            \* mutant: TLB kept
  /\ Runs(p, c, "load")
  /\ todo[p] = {}
  /\ loading_mode' = [loading_mode EXCEPT ![p_addrspace[p]] = FALSE]
  /\ Goto(p, "stack")
  /\ image' = [image EXCEPT ![p] = Zero]
  /\ UNCHANGED <<cpu, p_addrspace, other, todo, fault, spaces, pagetable, region,
                 frame_table, ram, tlb, panic>>

\* as_complete_load.
CompleteLoad(p, c) ==
  /\ Runs(p, c, "load")
  /\ todo[p] = {}
  /\ loading_mode' = [loading_mode EXCEPT ![p_addrspace[p]] = FALSE]
  /\ tlb' = [tlb EXCEPT ![c] = {}]
  /\ Goto(p, "stack")
  /\ image' = [image EXCEPT ![p] = Zero]
  /\ UNCHANGED <<cpu, p_addrspace, other, todo, fault, spaces, pagetable, region,
                 frame_table, ram, panic>>

\* as_define_stack; then the old space, if there is one, goes.
DefineStack(p, c) ==
  /\ Runs(p, c, "stack")
  /\ region' = [region EXCEPT ![p_addrspace[p]] = Pages]
  /\ Goto(p, IF other[p] = NULL THEN "user" ELSE "reap")
  /\ UNCHANGED <<cpu, procvars, fault, spaces, pagetable, loading_mode, frame_table, ram,
                 tlb, panic>>

\* load_elf or as_define_stack fails: proc_setas(oldvm), and the new space is
\* the one to destroy.
LoadFails(p, c) ==
  /\ Runs(p, c, "load") \/ Runs(p, c, "stack")
  /\ p_addrspace' = [p_addrspace EXCEPT ![p] = other[p]]
  /\ other' = [other EXCEPT ![p] = p_addrspace[p]]
  /\ todo' = [todo EXCEPT ![p] = {}]
  /\ image' = [image EXCEPT ![p] = Zero]
  /\ Goto(p, "restore")
  /\ UNCHANGED <<cpu, fault, asvars, frame_table, ram, tlb, panic>>

Reactivate(p, c) ==
  /\ Runs(p, c, "restore")
  /\ Activate(c, p_addrspace[p])
  /\ Goto(p, "reap")
  /\ UNCHANGED <<cpu, procvars, fault, asvars, frame_table, ram, panic>>

-----------------------------------------------------------------------------
\* proc_fork calls as_copy, which makes the new space and its regions.
Fork(p, c) ==
  /\ Runs(p, c, "user")
  /\ \E a \in FreeSpaces : /\ Create(a, region[p_addrspace[p]])
                           /\ other' = [other EXCEPT ![p] = a]
  /\ Goto(p, "copy")
  /\ UNCHANGED <<cpu, p_addrspace, image, todo, fault, frame_table, ram, tlb, panic>>

ToCopy(p) == {g \in Pages : /\ pagetable[p_addrspace[p]][g] # PTE_EMPTY
                            /\ pagetable[other[p]][g] = PTE_EMPTY}

CopyPageShared(p, c) ==                                 \* mutant: no frame of its own
  LET g == Lowest(ToCopy(p)) IN
  /\ Runs(p, c, "copy")
  /\ ToCopy(p) # {}
  /\ pagetable' = [pagetable EXCEPT ![other[p]][g] = pagetable[p_addrspace[p]][g]]
  /\ UNCHANGED <<cpu, pc, procvars, fault, spaces, region, loading_mode, frame_table,
                 ram, tlb, panic>>

\* One page of as_copy: a frame of its own with the same contents and flags.
CopyPage(p, c) ==
  LET g == Lowest(ToCopy(p))
      old == pagetable[p_addrspace[p]][g] IN
  /\ Runs(p, c, "copy")
  /\ ToCopy(p) # {}
  /\ \E f \in FreeFrames :
       /\ frame_table' = frame_table \cup {f}
       /\ ram' = [ram EXCEPT ![f] = ram[old.frame]]
       /\ pagetable' = [pagetable EXCEPT ![other[p]][g] = [old EXCEPT !.frame = f]]
  /\ UNCHANGED <<cpu, pc, procvars, fault, spaces, region, loading_mode, tlb, panic>>

\* as_copy returns ENOMEM.  Nobody holds the space it was filling any more.
CopyFails(p, c) ==
  /\ Runs(p, c, "copy")
  /\ ToCopy(p) # {}
  /\ FreeFrames = {}
  /\ other' = [other EXCEPT ![p] = NULL]
  /\ Goto(p, "user")
  /\ UNCHANGED <<cpu, p_addrspace, image, todo, fault, asvars, frame_table, ram, tlb, panic>>

\* The copy is done and thread_fork starts the child.
Forked(p, c, q) ==
  /\ Runs(p, c, "copy")
  /\ ToCopy(p) = {}
  /\ pc[q] = "none"
  /\ pc' = [pc EXCEPT ![p] = "user", ![q] = "user"]
  /\ p_addrspace' = [p_addrspace EXCEPT ![q] = other[p]]
  /\ other' = [other EXCEPT ![p] = NULL]
  /\ UNCHANGED <<cpu, image, todo, fault, asvars, frame_table, ram, tlb, panic>>

\* filetable_copy or thread_fork fails after as_copy: the copy is destroyed.
Unfork(p, c) ==
  /\ Runs(p, c, "copy")
  /\ ToCopy(p) = {}
  /\ Goto(p, "reap")
  /\ UNCHANGED <<cpu, procvars, fault, asvars, frame_table, ram, tlb, panic>>

-----------------------------------------------------------------------------
\* proc_exit, from _exit or kill_curthread: the thread is the kernel's by now,
\* and the TLB is left as it is.
Exit(p, c) ==
  /\ Runs(p, c, "user") \/ Runs(p, c, "start")
  /\ other' = [other EXCEPT ![p] = p_addrspace[p]]
  /\ p_addrspace' = [p_addrspace EXCEPT ![p] = NULL]
  /\ Goto(p, "reap")
  /\ UNCHANGED <<cpu, image, todo, fault, asvars, frame_table, ram, tlb, panic>>

\* as_destroy frees the frame of one page of the space.
FreePage(p, c) ==
  LET a == other[p]
      full == {g \in Pages : pagetable[a][g] # PTE_EMPTY} IN
  /\ Runs(p, c, "reap")
  /\ a # NULL
  /\ full # {}
  /\ frame_table' = frame_table \ {pagetable[a][Lowest(full)].frame}
  /\ pagetable' = [pagetable EXCEPT ![a][Lowest(full)] = PTE_EMPTY]
  /\ UNCHANGED <<cpu, pc, procvars, fault, spaces, region, loading_mode, ram, tlb, panic>>

\* as_destroy frees the space (region and loading_mode are then rubbish that
\* nothing reads; they are reset here).  A process without a space is gone.
Reaped(p, c) ==
  LET a == other[p] IN
  /\ Runs(p, c, "reap")
  /\ a # NULL => \A g \in Pages : pagetable[a][g] = PTE_EMPTY
  /\ spaces' = spaces \ {a}
  /\ region' = [b \in Spaces |-> IF b = a THEN {} ELSE region[b]]
  /\ loading_mode' = [b \in Spaces |-> loading_mode[b] /\ b # a]
  /\ other' = [other EXCEPT ![p] = NULL]
  /\ IF p_addrspace[p] = NULL
     THEN Goto(p, "none") /\ cpu' = [cpu EXCEPT ![c] = Nobody]
     ELSE Goto(p, "user") /\ UNCHANGED cpu
  /\ UNCHANGED <<p_addrspace, image, todo, fault, pagetable, frame_table, ram, tlb, panic>>

-----------------------------------------------------------------------------
Step(p, c) ==
  \/ SwitchOut(p, c) \/ SwitchIn(p, c)
  \/ (\E g \in Pages : VmFault(p, c, g)) \/ TlbRandom(p, c) \/ OutOfMemory(p, c)
  \/ Store(p, c) \/ Copy(p, c)
  \/ LoadExec(p, c) \/ PrepareLoad(p, c) \/ LoadPage(p, c) \/ CompleteLoad(p, c)
  \/ DefineStack(p, c) \/ LoadFails(p, c) \/ Reactivate(p, c)
  \/ Fork(p, c) \/ CopyPage(p, c) \/ CopyFails(p, c) \/ Unfork(p, c)
  \/ (\E q \in Procs : Forked(p, c, q))
  \/ Exit(p, c) \/ FreePage(p, c) \/ Reaped(p, c)

Next == /\ ~panic
        /\ \E p \in Procs : Start(p) \/ \E c \in CPUs : Step(p, c)

Spec == Init /\ [][Next]_vars

-----------------------------------------------------------------------------
TypeOK ==
  /\ cpu \in [CPUs -> Procs \cup {Nobody}]
  /\ pc \in [Procs -> States]
  /\ p_addrspace \in [Procs -> Spaces \cup {NULL}]
  /\ other \in [Procs -> Spaces \cup {NULL}]
  /\ image \in [Procs -> Values]
  /\ todo \in [Procs -> SUBSET ImagePages]
  /\ fault \in [Procs -> Fault]
  /\ spaces \subseteq Spaces
  /\ pagetable \in [Spaces -> [Pages -> PTE]]
  /\ region \in [Spaces -> SUBSET Pages]
  /\ loading_mode \in [Spaces -> BOOLEAN]
  /\ frame_table \subseteq Frames
  /\ ram \in [Frames -> Values]
  /\ tlb \in [CPUs -> SUBSET TlbEntry]
  /\ panic \in BOOLEAN

\* Every allocated frame is in exactly one page table entry of one address
\* space, and a free frame in none: what as_copy and as_destroy must keep
\* while two processors work on several spaces.  The leak of CopyFails keeps
\* its space in spaces.
FramesOwned ==
  LET Users(f) == {x \in Spaces \X Pages : pagetable[x[1]][x[2]].frame = f} IN
  /\ \A f \in Frames : Cardinality(Users(f)) = (IF f \in frame_table THEN 1 ELSE 0)
  /\ \A a \in Spaces \ spaces, g \in Pages : pagetable[a][g] = PTE_EMPTY

\* No two processes hold the same address space, in p_addrspace or in a local;
\* address spaces are not reference counted.
SpacesApart ==
  LET Held(p) == {p_addrspace[p], other[p]} \ {NULL} IN
  /\ \A p, q \in Procs : p # q => Held(p) \cap Held(q) = {}
  /\ \A p \in Procs : /\ Held(p) \subseteq spaces
                      /\ p_addrspace[p] # NULL => p_addrspace[p] # other[p]

\* Memory has one owner all the way: a frame one page of one space, a space one
\* process, at every point of fork, exec and exit and of their failures.
OneOwner == FramesOwned /\ SpacesApart

\* While a program runs (or is loaded), every entry of its processor's TLB is
\* an entry of its own page table, no page has two entries, and an entry that
\* allows stores belongs to a writable page unless the program is being loaded.
TlbCoherent ==
  \A c \in CPUs : cpu[c] # Nobody /\ pc[cpu[c]] \in {"user", "load"} =>
    LET a == p_addrspace[cpu[c]] IN
    \A e \in tlb[c] :
      /\ pagetable[a][e.page].frame = e.frame
      /\ e.dirty => e.page \in Writable \/ loading_mode[a]
      /\ \A d \in tlb[c] : d.page = e.page => d = e

\* The memory of a process, as its program would find it: that of the space
\* it has, or had before an execv that has not succeeded yet.
Memory(p) ==
  LET a == IF pc[p] \in {"setas", "load", "stack"} THEN other[p] ELSE p_addrspace[p]
      At(e) == IF e = PTE_EMPTY THEN Zero ELSE ram[e.frame]
  IN  IF a = NULL THEN << >> ELSE [g \in Pages |-> At(pagetable[a][g])]

Private == INSTANCE PrivateMemory WITH memory <- [p \in Procs |-> Memory(p)]

\* To the programs, the address spaces are memories of their own.
ImplementsMemory == Private!Spec
=============================================================================
