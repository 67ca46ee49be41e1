-------------------------- MODULE AddrSpace_proofs --------------------------
(***************************************************************************)
(* Proofs about AddrSpace, for any processes, processors, frames, pages    *)
(* and size of the TLB: memory has one owner, the TLB agrees with the page *)
(* table of the program that runs, and the address spaces implement        *)
(* PrivateMemory.                                                          *)
(***************************************************************************)
EXTENDS AddrSpace, FiniteSetTheorems, WellFoundedInduction, TLAPS

\* Every entry with a frame has one of its own, allocated, and every allocated
\* frame is in an entry.  Only writable pages may be stored to.
EntryOf(a, g) ==
  /\ pagetable[a][g].frame = NULL => pagetable[a][g] = PTE_EMPTY
  /\ pagetable[a][g].dirty => g \in Writable
  /\ a \notin spaces => pagetable[a][g] = PTE_EMPTY
  /\ pagetable[a][g] # PTE_EMPTY => pagetable[a][g].frame \in frame_table
Entries ==
  /\ \A a \in Spaces, g \in Pages : EntryOf(a, g)
  /\ \A a, b \in Spaces, g, h \in Pages :
       pagetable[a][g] # PTE_EMPTY /\ pagetable[a][g].frame = pagetable[b][h].frame
         => a = b /\ g = h
  /\ \A f \in frame_table : \E a \in Spaces, g \in Pages : pagetable[a][g].frame = f

\* SpacesApart, entry by entry.
Apart ==
  /\ \A p, q \in Procs : p # q =>
       /\ p_addrspace[p] # NULL => p_addrspace[p] # p_addrspace[q] /\ p_addrspace[p] # other[q]
       /\ other[p] # NULL => other[p] # other[q]
  /\ \A p \in Procs :
       /\ p_addrspace[p] # NULL => p_addrspace[p] \in spaces /\ p_addrspace[p] # other[p]
       /\ other[p] # NULL => other[p] \in spaces

\* Which spaces a process has at each place, and the page fault it is in.
PlaceOf(p) ==
  /\ pc[p] \in {"none", "start"} => p_addrspace[p] = NULL /\ other[p] = NULL
  /\ pc[p] \in {"setas", "load", "stack", "user", "copy"} => p_addrspace[p] # NULL
  /\ pc[p] = "user" => other[p] = NULL
  /\ pc[p] \in {"copy", "restore"} => other[p] # NULL
  /\ fault[p] # NoFault =>
       /\ pc[p] \in {"user", "load"} /\ fault[p].page \in Pages
       /\ fault[p].pte = pagetable[p_addrspace[p]][fault[p].page]
       /\ fault[p].pte # PTE_EMPTY
  /\ p_addrspace[p] # NULL => (loading_mode[p_addrspace[p]] <=> pc[p] = "load")
  /\ pc[p] \in {"setas", "load", "stack", "copy"} /\ other[p] # NULL
       => ~ loading_mode[other[p]]

\* What a program finds in a page, by its page table entry.
Content(e) == IF e = PTE_EMPTY THEN Zero ELSE ram[e.frame]

\* What is in the space that is loaded or copied into, so far.
FilledOf(p) ==
  /\ pc[p] = "setas" =>
       /\ region[p_addrspace[p]] = {} /\ image[p] \in Programs
       /\ \A g \in Pages : pagetable[p_addrspace[p]][g] = PTE_EMPTY
  /\ pc[p] = "load" =>
       /\ region[p_addrspace[p]] = ImagePages /\ image[p] \in Programs
       /\ \A g \in Pages \ ImagePages : pagetable[p_addrspace[p]][g] = PTE_EMPTY
       /\ \A g \in ImagePages \ todo[p] :
            /\ pagetable[p_addrspace[p]][g] # PTE_EMPTY
            /\ ram[pagetable[p_addrspace[p]][g].frame] = image[p]
  /\ pc[p] = "stack" =>
       \E v \in Programs : \A g \in Pages :
         Content(pagetable[p_addrspace[p]][g]) = IF g \in ImagePages THEN v ELSE Zero
  /\ pc[p] = "copy" =>
       \A g \in Pages : pagetable[other[p]][g] # PTE_EMPTY =>
         /\ pagetable[p_addrspace[p]][g] # PTE_EMPTY
         /\ ram[pagetable[other[p]][g].frame] = ram[pagetable[p_addrspace[p]][g].frame]

\* A process has one processor, and none when it is gone.
OnCpu == \A c \in CPUs : cpu[c] # Nobody => /\ pc[cpu[c]] # "none"
                                            /\ \A d \in CPUs : cpu[d] = cpu[c] => d = c

\* TlbCoherent for one TLB and one space; it holds between the system calls
\* that change the space and the flush that follows them, too.  The page that
\* a fault is about is not in the TLB.
TlbOf(c, a) ==
  \A e \in tlb[c] :
    /\ pagetable[a][e.page].frame = e.frame
    /\ e.dirty => e.page \in Writable \/ loading_mode[a]
    /\ \A d \in tlb[c] : d.page = e.page => d = e
CpuTlb(c, p) ==
  /\ pc[p] \in {"user", "load", "stack", "copy", "reap"} /\ p_addrspace[p] # NULL
       => TlbOf(c, p_addrspace[p])
  /\ fault[p] # NoFault => \A e \in tlb[c] : e.page # fault[p].page
Tlbs == \A c \in CPUs, p \in Procs : cpu[c] = p => CpuTlb(c, p)

Places == \A p \in Procs : PlaceOf(p)
Filled == \A p \in Procs : FilledOf(p)

\* Inductive.
MemInv == TypeOK /\ Entries /\ Apart /\ Places /\ Filled /\ OnCpu /\ Tlbs

-----------------------------------------------------------------------------
(* Pages and entries.                                                      *)

\* The least element of a set of natural numbers: there is one, for there is
\* no endless descent.
LEMMA LowestIn == ASSUME NEW S \in SUBSET Nat, S # {} PROVE Lowest(S) \in S
<1> DEFINE R == OpToRel(<, Nat)
<1>1. \A x, y \in Nat : y < x => <<y, x>> \in R
  BY DEF OpToRel
<1>2. IsWellFoundedOn(R, Nat)
  BY NatLessThanWellFounded
<1> HIDE DEF R
<1>3. PICK x \in S : \A y \in S : ~ (<<y, x>> \in R)
  BY <1>2, WFMin
<1>4. ASSUME NEW y \in S PROVE x <= y
  <2>1. x \in Nat /\ y \in Nat
    OBVIOUS
  <2>2. ~ (y < x)
    BY <1>1, <1>3, <2>1
  <2> QED
    BY <2>1, <2>2
<1> QED
  BY <1>3, <1>4 DEF Lowest

LEMMA PagesNat == Pages \subseteq Nat /\ NPages \notin Pages /\ Pages # {}
<1>1. Pages = 0..(NPages - 1) /\ NPages \in Nat /\ NPages # 0
  BY SizesAssumption DEF Pages
<1>2. 0 \in Pages
  BY <1>1
<1>3. \A x \in Pages : x \in Nat /\ x <= NPages - 1
  BY <1>1
<1>4. NPages \notin Pages
  BY <1>1, <1>3
<1> QED
  BY <1>2, <1>3, <1>4

LEMMA EmptyEntry == /\ PTE_EMPTY \in PTE /\ PTE_EMPTY.frame = NULL /\ PTE_EMPTY.dirty = FALSE
                    /\ NoFault \in Fault /\ NULL \notin Frames /\ NULL \notin Spaces
BY NobodyAssumption, SizesAssumption DEF PTE_EMPTY, PTE, NoFault, Fault, Pages

LEMMA Types ==
  ASSUME TypeOK
  PROVE  /\ \A p \in Procs : /\ p # Nobody /\ pc[p] \in States
                             /\ p_addrspace[p] \in Spaces \cup {NULL}
                             /\ other[p] \in Spaces \cup {NULL}
                             /\ image[p] \in Values /\ todo[p] \subseteq ImagePages
                             /\ fault[p] \in Fault
         /\ \A a \in Spaces : /\ region[a] \subseteq Pages /\ loading_mode[a] \in BOOLEAN
                              /\ \A g \in Pages : /\ pagetable[a][g] \in PTE
                                                  /\ pagetable[a][g].frame \in Frames \cup {NULL}
                                                  /\ pagetable[a][g].dirty \in BOOLEAN
         /\ \A c \in CPUs : /\ cpu[c] \in Procs \cup {Nobody}
                            /\ \A e \in tlb[c] : /\ e.page \in Pages /\ e.frame \in Frames
                                                 /\ e.dirty \in BOOLEAN
<1>1. \A p \in Procs : p # Nobody
  BY NobodyAssumption
<1>2. \A a \in Spaces, g \in Pages : pagetable[a][g] \in PTE
  BY DEF TypeOK
<1>3. \A e \in PTE : e.frame \in Frames \cup {NULL} /\ e.dirty \in BOOLEAN
  BY DEF PTE
<1>4. \A e \in TlbEntry : e.page \in Pages /\ e.frame \in Frames /\ e.dirty \in BOOLEAN
  BY DEF TlbEntry
<1>5. \A c \in CPUs : \A e \in tlb[c] : e \in TlbEntry
  BY DEF TypeOK
<1> QED
  BY <1>1, <1>2, <1>3, <1>4, <1>5 DEF TypeOK

\* The memory of p: the contents of the space its program knows.
SpaceOf(p) == IF pc[p] \in {"setas", "load", "stack"} THEN other[p] ELSE p_addrspace[p]
LEMMA MemoryIs ==
  ASSUME NEW p
  PROVE  Memory(p) = IF SpaceOf(p) = NULL THEN << >>
                     ELSE [g \in Pages |-> Content(pagetable[SpaceOf(p)][g])]
BY DEF Memory, SpaceOf, Content

-----------------------------------------------------------------------------
(* What a step of one process does to the others: nothing.                 *)

\* The step leaves q, its spaces and the frames in them as they are.
Undisturbed(q) ==
  /\ pc'[q] = pc[q] /\ p_addrspace'[q] = p_addrspace[q] /\ other'[q] = other[q]
  /\ image'[q] = image[q] /\ todo'[q] = todo[q] /\ fault'[q] = fault[q]
  /\ \A b \in {p_addrspace[q], other[q]} \ {NULL} :
       /\ pagetable'[b] = pagetable[b] /\ region'[b] = region[b]
       /\ loading_mode'[b] = loading_mode[b]
       /\ \A g \in Pages : pagetable[b][g] # PTE_EMPTY
                             => ram'[pagetable[b][g].frame] = ram[pagetable[b][g].frame]

LEMMA Bystander ==
  ASSUME MemInv, NEW q \in Procs, Undisturbed(q)
  PROVE  PlaceOf(q)' /\ FilledOf(q)' /\ Memory(q)' = Memory(q)
<1>1. PlaceOf(q) /\ FilledOf(q) /\ TypeOK
  BY DEF MemInv, Places, Filled
<1>2. PlaceOf(q)'
  BY <1>1 DEF PlaceOf, Undisturbed
<1>3. ASSUME NEW b \in {p_addrspace[q], other[q]} \ {NULL}, NEW g \in Pages
      PROVE  Content(pagetable[b][g])' = Content(pagetable[b][g])
  BY <1>3 DEF Undisturbed, Content
<1>4. FilledOf(q)'
  <2>1. pc[q] = "stack" => FilledOf(q)'
    BY <1>1, <1>3 DEF FilledOf, PlaceOf, Undisturbed
  <2>2. pc[q] # "stack" => FilledOf(q)'
    BY <1>1, PagesAssumption DEF FilledOf, PlaceOf, Undisturbed
  <2> QED
    BY <2>1, <2>2
<1>5. Memory(q)' = Memory(q)
  <2>1. SpaceOf(q)' = SpaceOf(q) /\ SpaceOf(q) \in {p_addrspace[q], other[q]}
    BY DEF SpaceOf, Undisturbed
  <2>2. Memory(q)' = IF SpaceOf(q)' = NULL THEN << >>
                     ELSE [g \in Pages |-> Content(pagetable[SpaceOf(q)][g])']
    BY DEF Memory, SpaceOf, Content
  <2>3. Memory(q) = IF SpaceOf(q) = NULL THEN << >>
                    ELSE [g \in Pages |-> Content(pagetable[SpaceOf(q)][g])]
    BY MemoryIs
  <2>4. ASSUME SpaceOf(q) # NULL, NEW g \in Pages
        PROVE  Content(pagetable[SpaceOf(q)][g])' = Content(pagetable[SpaceOf(q)][g])
    <3>1. (pagetable[SpaceOf(q)][g])' = pagetable'[SpaceOf(q)][g]
      BY <2>1
    <3> QED
      BY <1>3, <2>1, <2>4, <3>1
  <2> QED
    BY <2>1, <2>2, <2>3, <2>4
<1> QED
  BY <1>2, <1>4, <1>5

\* The pages of a space are its own: what changes only the space a of p, or a
\* free one, and frames that no other space has, leaves the other processes be.
LEMMA Elsewhere ==
  ASSUME MemInv, NEW p \in Procs, NEW q \in Procs, p # q,
         NEW a, a \in {p_addrspace[p], other[p]} \/ a \notin spaces,
         pc'[q] = pc[q], p_addrspace'[q] = p_addrspace[q], other'[q] = other[q],
         image'[q] = image[q], todo'[q] = todo[q], fault'[q] = fault[q],
         \A b \in Spaces : b # a => /\ pagetable'[b] = pagetable[b]
                                    /\ region'[b] = region[b]
                                    /\ loading_mode'[b] = loading_mode[b],
         \A f \in Frames : \/ ram'[f] = ram[f]
                           \/ f \notin frame_table
                           \/ \E g \in Pages : a \in Spaces /\ pagetable[a][g].frame = f
  PROVE  Undisturbed(q)
<1>inv. TypeOK /\ Apart /\ Entries
  BY DEF MemInv
<1>1. ASSUME NEW b \in {p_addrspace[q], other[q]} \ {NULL}
      PROVE  b \in Spaces /\ b \in spaces /\ b # a
  BY <1>inv, <1>1, Types, EmptyEntry DEF Apart
<1>2. ASSUME NEW b \in {p_addrspace[q], other[q]} \ {NULL}, NEW g \in Pages,
             pagetable[b][g] # PTE_EMPTY
      PROVE  ram'[pagetable[b][g].frame] = ram[pagetable[b][g].frame]
  <2>1. pagetable[b][g].frame \in frame_table /\ pagetable[b][g].frame \in Frames
    BY <1>inv, <1>1, <1>2 DEF Entries, EntryOf, TypeOK
  <2>2. \A h \in Pages : a \in Spaces => pagetable[a][h].frame # pagetable[b][g].frame
    BY <1>inv, <1>1, <1>2 DEF Entries
  <2> QED
    BY <2>1, <2>2
<1> QED
  BY <1>1, <1>2 DEF Undisturbed

\* It is enough to look at the processes that take part in the step.
LEMMA TheOthers ==
  ASSUME MemInv, NEW A \in SUBSET Procs, \A q \in Procs \ A : Undisturbed(q),
         \A q \in A : PlaceOf(q)' /\ FilledOf(q)'
  PROVE  Places' /\ Filled' /\ \A q \in Procs \ A : Memory(q)' = Memory(q)
BY Bystander DEF Places, Filled

\* The same for the TLBs.
LEMMA TlbKeeps ==
  ASSUME MemInv, NEW q \in Procs, Undisturbed(q),
         NEW c \in CPUs, cpu[c] = q, tlb'[c] = tlb[c]
  PROVE  CpuTlb(c, q)'
<1>1. CpuTlb(c, q)
  BY DEF MemInv, Tlbs
<1>2. pc[q] \in {"user", "load", "stack", "copy", "reap"} /\ p_addrspace[q] # NULL
        => TlbOf(c, p_addrspace[q])'
  BY <1>1 DEF CpuTlb, TlbOf, Undisturbed
<1> QED
  BY <1>1, <1>2 DEF CpuTlb, TlbOf, Undisturbed

\* The memory of a process stays when its space and what is there do.
LEMMA Remembers ==
  ASSUME NEW p \in Procs, NEW a, SpaceOf(p) = a, SpaceOf(p)' = a,
         a = NULL \/ \A g \in Pages : Content(pagetable[a][g])' = Content(pagetable[a][g])
  PROVE  Memory(p)' = Memory(p)
<1>1. Memory(p)' = IF a = NULL THEN << >> ELSE [g \in Pages |-> Content(pagetable[a][g])']
  BY DEF Memory, SpaceOf, Content
<1>2. Memory(p) = IF a = NULL THEN << >> ELSE [g \in Pages |-> Content(pagetable[a][g])]
  BY MemoryIs
<1> QED
  BY <1>1, <1>2

\* A page gets an entry, with a frame that was free.
LEMMA AddFrame ==
  ASSUME TypeOK, Entries, NEW a \in spaces, NEW g \in Pages, NEW f \in FreeFrames,
         NEW pte \in PTE, pte.frame = f, pte.dirty => g \in Writable,
         pagetable[a][g] = PTE_EMPTY, spaces' = spaces,
         pagetable' = [pagetable EXCEPT ![a][g] = pte],
         frame_table' = frame_table \cup {f}
  PROVE  /\ pagetable' \in [Spaces -> [Pages -> PTE]] /\ frame_table' \subseteq Frames
         /\ \A b \in Spaces : b # a => pagetable'[b] = pagetable[b]
         /\ \A h \in Pages : pagetable'[a][h] = IF h = g THEN pte ELSE pagetable[a][h]
         /\ f \in Frames /\ f \notin frame_table /\ f # NULL /\ a \in Spaces
         /\ \A b \in Spaces, h \in Pages : pagetable[b][h].frame # f
         /\ Entries'
<1>1. f \in Frames /\ f \notin frame_table /\ f # NULL /\ a \in Spaces
  BY EmptyEntry DEF FreeFrames, TypeOK
<1>2. pagetable' \in [Spaces -> [Pages -> PTE]] /\ frame_table' \subseteq Frames
  BY <1>1 DEF TypeOK
<1>3. \A b \in Spaces : b # a => pagetable'[b] = pagetable[b]
  BY <1>1 DEF TypeOK
<1>4. \A h \in Pages : pagetable'[a][h] = IF h = g THEN pte ELSE pagetable[a][h]
  BY <1>1 DEF TypeOK
<1>5. \A b \in Spaces, h \in Pages : pagetable[b][h].frame # f
  BY <1>1, EmptyEntry DEF Entries, EntryOf
<1>6. pte # PTE_EMPTY
  BY <1>1, EmptyEntry
<1>7. \A b \in Spaces, h \in Pages : pagetable'[b][h] = IF b = a /\ h = g THEN pte ELSE pagetable[b][h]
  BY <1>3, <1>4
<1>8. \A b \in Spaces, h \in Pages : EntryOf(b, h)'
  BY <1>1, <1>6, <1>7, EmptyEntry DEF Entries, EntryOf
<1>9. \A b, d \in Spaces, h, k \in Pages :
        pagetable'[b][h] # PTE_EMPTY /\ pagetable'[b][h].frame = pagetable'[d][k].frame
          => b = d /\ h = k
  BY <1>5, <1>7 DEF Entries
<1>10. \A x \in frame_table' : \E b \in Spaces, h \in Pages : pagetable'[b][h].frame = x
  <2>1. ASSUME NEW x \in frame_table
        PROVE  \E b \in Spaces, h \in Pages : pagetable'[b][h].frame = x
    <3>1. PICK b \in Spaces, h \in Pages : pagetable[b][h].frame = x
      BY DEF Entries
    <3>2. ~ (b = a /\ h = g)
      BY <1>1, <3>1, EmptyEntry DEF TypeOK
    <3> QED
      BY <1>7, <3>1, <3>2
  <2>2. pagetable'[a][g].frame = f
    BY <1>4
  <2> QED
    BY <1>1, <2>1, <2>2
<1> QED
  BY <1>1, <1>2, <1>3, <1>4, <1>5, <1>8, <1>9, <1>10 DEF Entries

-----------------------------------------------------------------------------
(* The steps, one by one.  Each keeps MemInv and, but for the six steps    *)
(* that the programs know of, the memory of every process.                 *)

LEMMA InitMem == Init => MemInv
<1> SUFFICES ASSUME Init PROVE MemInv
  OBVIOUS
<1>1. \A a \in Spaces, g \in Pages : pagetable[a][g] = PTE_EMPTY
  BY DEF Init
<1>2. TypeOK
  BY EmptyEntry, ContentsAssumption DEF Init, TypeOK, States
<1>3. Entries
  BY <1>1, EmptyEntry DEF Init, Entries, EntryOf
<1>4. Apart /\ OnCpu
  BY DEF Init, Apart, OnCpu
<1>5. Places /\ Filled
  BY DEF Init, Places, PlaceOf, Filled, FilledOf
<1>6. Tlbs
  BY DEF Init, Tlbs, CpuTlb, TlbOf
<1> QED
  BY <1>2, <1>3, <1>4, <1>5, <1>6 DEF MemInv

LEMMA OnCpuKeeps ==
  ASSUME TypeOK, OnCpu, cpu' = cpu, \A q \in Procs : pc[q] # "none" => pc'[q] # "none"
  PROVE  OnCpu'
<1>1. \A c \in CPUs : cpu[c] # Nobody => cpu[c] \in Procs
  BY Types
<1> QED
  BY <1>1 DEF OnCpu

LEMMA StartStep ==
  ASSUME MemInv, NEW p \in Procs, Start(p)
  PROVE  MemInv' /\ \A q \in Procs : Memory(q)' = Memory(q)
<1>1. /\ pc[p] = "none" /\ pc'[p] = "start" /\ \A q \in Procs \ {p} : pc'[q] = pc[q]
      /\ UNCHANGED <<cpu, p_addrspace, other, image, todo, fault, spaces, pagetable, region,
                     loading_mode, frame_table, ram, tlb, panic>>
  BY DEF Start, Goto, procvars, asvars, MemInv, TypeOK
<1>inv. TypeOK /\ Entries /\ Apart /\ PlaceOf(p) /\ OnCpu
  BY DEF MemInv, Places
<1>2. TypeOK'
  BY <1>inv DEF TypeOK, Start, Goto, procvars, asvars, States
<1>3. Entries' /\ Apart' /\ OnCpu'
  BY <1>inv, <1>1, OnCpuKeeps DEF Entries, EntryOf, Apart
<1>4. \A q \in Procs \ {p} : Undisturbed(q)
  BY <1>1 DEF Undisturbed
<1>5. PlaceOf(p)' /\ FilledOf(p)'
  BY <1>inv, <1>1 DEF PlaceOf, FilledOf
<1>6. \A c \in CPUs : CpuTlb(c, p)'
  BY <1>inv, <1>1 DEF PlaceOf, CpuTlb
<1>7. Places' /\ Filled' /\ \A q \in Procs \ {p} : Memory(q)' = Memory(q)
  BY <1>4, <1>5, TheOthers
<1>8. Tlbs'
  BY <1>1, <1>4, <1>6, TlbKeeps DEF Tlbs
<1>9. Memory(p)' = Memory(p)
  BY <1>inv, <1>1, Remembers DEF SpaceOf, PlaceOf
<1> QED
  BY <1>2, <1>3, <1>7, <1>8, <1>9 DEF MemInv

LEMMA SwitchOutStep ==
  ASSUME MemInv, NEW p \in Procs, NEW c \in CPUs, SwitchOut(p, c)
  PROVE  MemInv' /\ \A q \in Procs : Memory(q)' = Memory(q)
<1>1. /\ cpu[c] = p /\ cpu'[c] = Nobody /\ \A d \in CPUs \ {c} : cpu'[d] = cpu[d]
      /\ UNCHANGED <<pc, p_addrspace, other, image, todo, fault, spaces, pagetable, region,
                     loading_mode, frame_table, ram, tlb, panic>>
  BY DEF SwitchOut, procvars, asvars, MemInv, TypeOK
<1>inv. TypeOK /\ Entries /\ Apart /\ OnCpu
  BY DEF MemInv
<1>2. TypeOK'
  BY <1>inv DEF TypeOK, SwitchOut, procvars, asvars
<1>3. Entries' /\ Apart'
  BY <1>inv, <1>1 DEF Entries, EntryOf, Apart
<1>4. OnCpu'
  BY <1>inv, <1>1 DEF OnCpu
<1>5. \A q \in Procs \ {} : Undisturbed(q)
  BY <1>1 DEF Undisturbed
<1>6. Places' /\ Filled' /\ \A q \in Procs \ {} : Memory(q)' = Memory(q)
  BY <1>5, TheOthers
<1>7. ASSUME NEW d \in CPUs, NEW q \in Procs, cpu'[d] = q
      PROVE  CpuTlb(d, q)'
  <2>1. cpu[d] = q
    BY <1>1, <1>7, NobodyAssumption
  <2> QED
    BY <1>1, <1>5, <2>1, TlbKeeps
<1> QED
  BY <1>2, <1>3, <1>4, <1>6, <1>7 DEF MemInv, Tlbs

LEMMA SwitchInStep ==
  ASSUME MemInv, NEW p \in Procs, NEW c \in CPUs, SwitchIn(p, c)
  PROVE  MemInv' /\ \A q \in Procs : Memory(q)' = Memory(q)
<1>1. /\ pc[p] # "none" /\ \A d \in CPUs : cpu[d] # p
      /\ cpu'[c] = p /\ \A d \in CPUs \ {c} : cpu'[d] = cpu[d] /\ tlb'[d] = tlb[d]
      /\ p_addrspace[p] # NULL => tlb'[c] = {}
      /\ UNCHANGED <<pc, p_addrspace, other, image, todo, fault, spaces, pagetable, region,
                     loading_mode, frame_table, ram, panic>>
  BY DEF SwitchIn, Activate, procvars, asvars, MemInv, TypeOK
<1>inv. TypeOK /\ Entries /\ Apart /\ OnCpu /\ PlaceOf(p) /\ FilledOf(p)
  BY DEF MemInv, Places, Filled
<1>2. TypeOK'
  BY <1>inv DEF TypeOK, SwitchIn, Activate, procvars, asvars
<1>3. Entries' /\ Apart'
  BY <1>inv, <1>1 DEF Entries, EntryOf, Apart
<1>4. OnCpu'
  BY <1>inv, <1>1 DEF OnCpu
<1>5. \A q \in Procs \ {} : Undisturbed(q)
  BY <1>1 DEF Undisturbed
<1>6. Places' /\ Filled' /\ \A q \in Procs \ {} : Memory(q)' = Memory(q)
  BY <1>5, TheOthers
<1>7. CpuTlb(c, p)'
  <2>1. p_addrspace[p] # NULL => TlbOf(c, p_addrspace[p])'
    BY <1>1 DEF TlbOf
  <2>2. fault'[p] # NoFault => tlb'[c] = {}
    BY <1>inv, <1>1 DEF PlaceOf
  <2> QED
    BY <1>1, <2>1, <2>2 DEF CpuTlb
<1>8. ASSUME NEW d \in CPUs, NEW q \in Procs, cpu'[d] = q
      PROVE  CpuTlb(d, q)'
  BY <1>1, <1>5, <1>7, <1>8, TlbKeeps
<1> QED
  BY <1>2, <1>3, <1>4, <1>6, <1>8 DEF MemInv, Tlbs

LEMMA OutOfMemoryStep ==
  ASSUME MemInv, NEW p \in Procs, NEW c \in CPUs, OutOfMemory(p, c)
  PROVE  MemInv' /\ \A q \in Procs : Memory(q)' = Memory(q)
<1>1. UNCHANGED <<cpu, pc, p_addrspace, other, image, todo, fault, spaces, pagetable, region,
                  loading_mode, frame_table, ram, tlb>>
  BY DEF OutOfMemory, procvars, asvars
<1>inv. TypeOK /\ Entries /\ Apart /\ OnCpu
  BY DEF MemInv
<1>2. TypeOK' /\ OnCpu'
  BY <1>inv, <1>1, OnCpuKeeps DEF TypeOK, OutOfMemory
<1>3. Entries' /\ Apart'
  BY <1>inv, <1>1 DEF Entries, EntryOf, Apart
<1>4. \A q \in Procs \ {} : Undisturbed(q)
  BY <1>1 DEF Undisturbed
<1>5. Places' /\ Filled' /\ \A q \in Procs \ {} : Memory(q)' = Memory(q)
  BY <1>4, TheOthers
<1>6. \A d \in CPUs, q \in Procs : cpu[d] = q => CpuTlb(d, q)'
  BY <1>1, <1>4, TlbKeeps
<1> QED
  BY <1>1, <1>2, <1>3, <1>5, <1>6 DEF MemInv, Tlbs

\* What MemInv says about the process that takes a step.
LEMMA Here ==
  ASSUME MemInv, NEW p \in Procs, NEW c \in CPUs, cpu[c] = p
  PROVE  /\ TypeOK /\ Entries /\ Apart /\ OnCpu /\ PlaceOf(p) /\ FilledOf(p)
         /\ CpuTlb(c, p) /\ \A d \in CPUs : cpu[d] = p => d = c
         /\ p # Nobody /\ p_addrspace[p] \in Spaces \cup {NULL}
         /\ other[p] \in Spaces \cup {NULL}
         /\ p_addrspace[p] # NULL => p_addrspace[p] \in spaces /\ p_addrspace[p] # other[p]
         /\ other[p] # NULL => other[p] \in spaces
<1>1. TypeOK /\ Entries /\ Apart /\ OnCpu /\ PlaceOf(p) /\ FilledOf(p) /\ CpuTlb(c, p)
  BY DEF MemInv, Places, Filled, Tlbs
<1> QED
  BY <1>1, Types DEF OnCpu, Apart

LEMMA TlbsKeep ==
  ASSUME MemInv, NEW p \in Procs, NEW c \in CPUs, cpu[c] = p, cpu' = cpu,
         \A q \in Procs \ {p} : Undisturbed(q),
         \A d \in CPUs \ {c} : tlb'[d] = tlb[d], CpuTlb(c, p)'
  PROVE  Tlbs'
<1>1. \A d \in CPUs : cpu[d] = p => d = c
  BY Here
<1>2. ASSUME NEW d \in CPUs, NEW q \in Procs, cpu[d] = q, q # p
      PROVE  CpuTlb(d, q)'
  BY <1>2, TlbKeeps
<1> QED
  BY <1>1, <1>2 DEF Tlbs

LEMMA TlbRandomStep ==
  ASSUME MemInv, NEW p \in Procs, NEW c \in CPUs, TlbRandom(p, c)
  PROVE  MemInv' /\ \A q \in Procs : Memory(q)' = Memory(q)
<1> DEFINE a == p_addrspace[p]
           g == fault[p].page
           e == [page |-> g, frame |-> fault[p].pte.frame,
                 dirty |-> fault[p].pte.dirty \/ loading_mode[a]]
<1>0. cpu[c] = p
  BY DEF TlbRandom
<1>inv. /\ TypeOK /\ Entries /\ Apart /\ OnCpu /\ PlaceOf(p) /\ CpuTlb(c, p)
        /\ \A d \in CPUs : cpu[d] = p => d = c
  BY <1>0, Here
<1>1. /\ fault[p] # NoFault /\ fault'[p] = NoFault
      /\ \A q \in Procs \ {p} : fault'[q] = fault[q]
      /\ UNCHANGED <<cpu, pc, p_addrspace, other, image, todo, spaces, pagetable, region,
                     loading_mode, frame_table, ram, panic>>
  BY <1>inv DEF TlbRandom, procvars, asvars, TypeOK
<1>2. PICK victim : tlb' = [tlb EXCEPT ![c] = (@ \ victim) \cup {e}]
  BY DEF TlbRandom
<1>3. /\ \A d \in CPUs \ {c} : tlb'[d] = tlb[d]
      /\ \A x \in tlb'[c] : x \in tlb[c] \/ x = e
  BY <1>inv, <1>2 DEF TypeOK
<1>4. /\ pc[p] \in {"user", "load"} /\ a # NULL /\ a \in Spaces /\ g \in Pages
      /\ fault[p].pte = pagetable[a][g] /\ fault[p].pte # PTE_EMPTY
  BY <1>inv, <1>1, Types DEF PlaceOf
<1>5. /\ e \in TlbEntry /\ e.page = g /\ e.frame = pagetable[a][g].frame
      /\ e.dirty => g \in Writable \/ loading_mode[a]
  <2>1. /\ pagetable[a][g].frame \in Frames \cup {NULL} /\ pagetable[a][g].dirty \in BOOLEAN
        /\ loading_mode[a] \in BOOLEAN
    BY <1>inv, <1>4, Types
  <2>2. pagetable[a][g].frame # NULL /\ (pagetable[a][g].dirty => g \in Writable)
    BY <1>inv, <1>4 DEF Entries, EntryOf
  <2>3. e \in TlbEntry
    BY <1>4, <2>1, <2>2 DEF TlbEntry
  <2> QED
    BY <1>4, <2>1, <2>2, <2>3
<1>6. TypeOK'
  <2>1. tlb' \in [CPUs -> SUBSET TlbEntry]
    BY <1>inv, <1>2, <1>5 DEF TypeOK
  <2>2. fault' \in [Procs -> Fault]
    BY <1>inv, EmptyEntry DEF TypeOK, TlbRandom
  <2> QED
    BY <1>inv, <1>1, <2>1, <2>2 DEF TypeOK
<1>7. Entries' /\ Apart' /\ OnCpu'
  BY <1>inv, <1>1, OnCpuKeeps DEF Entries, EntryOf, Apart
<1>8. \A q \in Procs \ {p} : Undisturbed(q)
  BY <1>1 DEF Undisturbed
<1>9. PlaceOf(p)' /\ FilledOf(p)'
  <2>1. PlaceOf(p)'
    BY <1>inv, <1>1 DEF PlaceOf
  <2>2. FilledOf(p)
    BY <1>0, Here
  <2>3. FilledOf(p)'
    BY <1>1, <1>4, <2>2 DEF FilledOf
  <2> QED
    BY <2>1, <2>3
<1>10. Places' /\ Filled' /\ \A q \in Procs \ {p} : Memory(q)' = Memory(q)
  BY <1>8, <1>9, TheOthers
<1>11. CpuTlb(c, p)'
  <2>1. TlbOf(c, a) /\ \A x \in tlb[c] : x.page # g
    BY <1>inv, <1>1, <1>4 DEF CpuTlb
  <2> HIDE DEF e
  <2>2. ASSUME NEW x \in tlb'[c]
        PROVE  /\ pagetable[a][x.page].frame = x.frame
               /\ x.dirty => x.page \in Writable \/ loading_mode[a]
               /\ \A y \in tlb'[c] : y.page = x.page => y = x
    BY <1>3, <1>5, <2>1, <2>2 DEF TlbOf
  <2>3. TlbOf(c, p_addrspace[p])'
    BY <1>1, <2>2 DEF TlbOf
  <2> QED
    BY <1>1, <2>3 DEF CpuTlb
<1>12. Tlbs'
  BY <1>0, <1>1, <1>3, <1>8, <1>11, TlbsKeep
<1>13. Memory(p)' = Memory(p)
  <2>1. SpaceOf(p)' = SpaceOf(p)
    BY <1>1 DEF SpaceOf
  <2> QED
    BY <1>1, <2>1, Remembers DEF Content
<1> QED
  BY <1>6, <1>7, <1>10, <1>12, <1>13 DEF MemInv

LEMMA VmFaultStep ==
  ASSUME MemInv, NEW p \in Procs, NEW c \in CPUs, NEW g \in Pages, VmFault(p, c, g)
  PROVE  MemInv' /\ \A q \in Procs : Memory(q)' = Memory(q)
<1>0. /\ cpu[c] = p /\ pc[p] \in {"user", "load"} /\ fault[p] = NoFault
      /\ \A e \in tlb[c] : e.page # g
      /\ UNCHANGED <<cpu, pc, p_addrspace, other, image, todo, spaces, region, loading_mode,
                     tlb, panic>>
  BY DEF VmFault, Runs, Hits, procvars
<1>inv. /\ TypeOK /\ Entries /\ Apart /\ OnCpu /\ PlaceOf(p) /\ FilledOf(p) /\ CpuTlb(c, p)
        /\ \A d \in CPUs : cpu[d] = p => d = c
  BY <1>0, Here
<1>a. PICK a : a = p_addrspace[p]
  OBVIOUS
<1>b. a \in Spaces /\ a \in spaces /\ a # NULL /\ a # other[p]
  BY <1>0, <1>a, <1>inv, Here DEF PlaceOf
<1>1. PICK pte \in PTE : /\ fault' = [fault EXCEPT ![p] = [page |-> g, pte |-> pte]]
                         /\ pte = pagetable'[a][g] /\ pte # PTE_EMPTY
                         /\ \/ /\ pte = pagetable[a][g]
                               /\ UNCHANGED <<pagetable, frame_table, ram>>
                            \/ /\ g \in region[a] /\ pagetable[a][g] = PTE_EMPTY
                               /\ pte.frame \in FreeFrames /\ (pte.dirty => g \in Writable)
                               /\ pagetable' = [pagetable EXCEPT ![a][g] = pte]
                               /\ frame_table' = frame_table \cup {pte.frame}
                               /\ ram' = [ram EXCEPT ![pte.frame] = Zero]
  <2>1. CASE pagetable[a][g] # PTE_EMPTY
    <3>1. pagetable[a][g] \in PTE
      BY <1>inv, <1>b, Types
    <3> QED
      BY <2>1, <3>1, <1>a DEF VmFault
  <2>2. CASE pagetable[a][g] = PTE_EMPTY
    <3>1. PICK f \in FreeFrames :
            /\ pagetable' = [pagetable EXCEPT ![a][g] = [frame |-> f, dirty |-> g \in Writable]]
            /\ frame_table' = frame_table \cup {f}
            /\ ram' = [ram EXCEPT ![f] = Zero]
            /\ fault' = [fault EXCEPT ![p] = [page |-> g, pte |-> [frame |-> f, dirty |-> g \in Writable]]]
            /\ g \in region[a]
      BY <2>2, <1>a DEF VmFault
    <3>2. PICK pte : pte = [frame |-> f, dirty |-> g \in Writable]
      OBVIOUS
    <3>3. pte \in PTE /\ pte.frame = f /\ (pte.dirty => g \in Writable)
      <4>1. CASE g \in Writable
        <5>1. pte = [frame |-> f, dirty |-> TRUE]
          BY <3>2, <4>1, Zenon
        <5> QED
          BY <4>1, <5>1 DEF PTE, FreeFrames
      <4>2. CASE g \notin Writable
        <5>1. (g \in Writable) = FALSE
          BY <4>2
        <5>2. pte = [frame |-> f, dirty |-> FALSE]
          BY <3>2, <5>1, Zenon
        <5> QED
          BY <5>2 DEF PTE, FreeFrames
      <4> QED
        BY <4>1, <4>2
    <3>4. pte # PTE_EMPTY
      BY <3>3, EmptyEntry DEF FreeFrames
    <3>5. pte = pagetable'[a][g]
      BY <3>1, <3>2, <1>inv, <1>b DEF TypeOK
    <3> QED
      BY <2>2, <3>1, <3>2, <3>3, <3>4, <3>5
  <2> QED
    BY <2>1, <2>2
<1>2. /\ fault'[p].page = g /\ fault'[p].pte = pte
      /\ \A q \in Procs \ {p} : fault'[q] = fault[q]
      /\ fault' \in [Procs -> Fault]
  <2>1. [page |-> g, pte |-> pte] \in Fault
    BY DEF Fault
  <2> QED
    BY <1>inv, <1>1, <2>1 DEF TypeOK
<1>3. /\ pagetable' \in [Spaces -> [Pages -> PTE]] /\ frame_table' \subseteq Frames
      /\ ram' \in [Frames -> Values] /\ Entries'
      /\ \A b \in Spaces : b # a => pagetable'[b] = pagetable[b]
      /\ \A h \in Pages \ {g} : pagetable'[a][h] = pagetable[a][h]
      /\ pagetable[a][g] # PTE_EMPTY => pagetable'[a][g] = pagetable[a][g]
      /\ pagetable[a][g] = PTE_EMPTY => ram'[pagetable'[a][g].frame] = Zero /\ g \in region[a]
      /\ \A f \in frame_table : ram'[f] = ram[f]
      /\ \A f \in Frames : ram'[f] = ram[f] \/ f \notin frame_table
  <2>1. CASE pte = pagetable[a][g] /\ UNCHANGED <<pagetable, frame_table, ram>>
    BY <2>1, <1>0, <1>1, <1>inv DEF TypeOK, Entries, EntryOf
  <2>2. CASE /\ g \in region[a] /\ pagetable[a][g] = PTE_EMPTY
             /\ pte.frame \in FreeFrames /\ (pte.dirty => g \in Writable)
             /\ pagetable' = [pagetable EXCEPT ![a][g] = pte]
             /\ frame_table' = frame_table \cup {pte.frame}
             /\ ram' = [ram EXCEPT ![pte.frame] = Zero]
    <3>1. PICK f : f = pte.frame
      OBVIOUS
    <3>2. /\ pagetable' \in [Spaces -> [Pages -> PTE]] /\ frame_table' \subseteq Frames
          /\ \A b \in Spaces : b # a => pagetable'[b] = pagetable[b]
          /\ \A h \in Pages : pagetable'[a][h] = IF h = g THEN pte ELSE pagetable[a][h]
          /\ f \in Frames /\ f \notin frame_table
          /\ Entries'
      BY <1>0, <1>b, <1>inv, <2>2, <3>1, AddFrame
    <3>3. ram' = [ram EXCEPT ![f] = Zero] /\ ram \in [Frames -> Values] /\ Zero \in Values
      BY <1>inv, <2>2, <3>1, ContentsAssumption DEF TypeOK
    <3>4. ram' \in [Frames -> Values] /\ ram'[f] = Zero /\ \A x \in Frames \ {f} : ram'[x] = ram[x]
      BY <3>2, <3>3
    <3>5. frame_table \subseteq Frames
      BY <1>inv DEF TypeOK
    <3> QED
      BY <1>1, <2>2, <3>1, <3>2, <3>4, <3>5
  <2> QED
    BY <1>1, <2>1, <2>2
<1>4. TypeOK'
  BY <1>inv, <1>0, <1>2, <1>3 DEF TypeOK
<1>5. Apart' /\ OnCpu'
  BY <1>inv, <1>0, OnCpuKeeps DEF Apart
<1>6. \A q \in Procs \ {p} : Undisturbed(q)
  <2> SUFFICES ASSUME NEW q \in Procs \ {p} PROVE Undisturbed(q)
    OBVIOUS
  <2> QED
    BY <1>0, <1>2, <1>3, <1>a, Elsewhere
<1>7. ASSUME NEW b \in {p_addrspace[p], other[p]} \ {NULL}, NEW h \in Pages,
             pagetable[b][h] # PTE_EMPTY
      PROVE  pagetable'[b][h] = pagetable[b][h] /\ ram'[pagetable[b][h].frame] = ram[pagetable[b][h].frame]
  <2>1. b \in Spaces
    BY <1>7, <1>inv, Types
  <2>2. pagetable[b][h].frame \in frame_table
    BY <1>7, <2>1, <1>inv DEF Entries, EntryOf
  <2> QED
    BY <1>7, <2>1, <2>2, <1>3
<1>8. PlaceOf(p)'
  BY <1>inv, <1>0, <1>1, <1>2, <1>a DEF PlaceOf
<1>9. FilledOf(p)'
  <2> SUFFICES ASSUME pc[p] = "load" PROVE FilledOf(p)'
    BY <1>0 DEF FilledOf
  <2>1. region[a] = ImagePages /\ image[p] \in Programs
    BY <1>inv, <1>a DEF FilledOf
  <2>2. ASSUME NEW h \in Pages \ ImagePages PROVE pagetable'[a][h] = PTE_EMPTY
    <3>1. pagetable[a][h] = PTE_EMPTY
      BY <1>inv, <1>a DEF FilledOf
    <3> QED
      BY <2>1, <3>1, <1>3
  <2>3. ASSUME NEW h \in ImagePages \ todo[p]
        PROVE  pagetable'[a][h] # PTE_EMPTY /\ ram'[pagetable'[a][h].frame] = image[p]
    <3>1. pagetable[a][h] # PTE_EMPTY /\ ram[pagetable[a][h].frame] = image[p] /\ h \in Pages
      BY <1>inv, <1>a, PagesAssumption DEF FilledOf
    <3> QED
      BY <3>1, <1>7, <1>a, <1>b
  <2> QED
    BY <2>1, <2>2, <2>3, <1>0, <1>a DEF FilledOf
<1>10. Places' /\ Filled' /\ \A q \in Procs \ {p} : Memory(q)' = Memory(q)
  BY <1>6, <1>8, <1>9, TheOthers
<1>11. CpuTlb(c, p)'
  <2>1. TlbOf(c, a)
    BY <1>0, <1>a, <1>b, <1>inv DEF CpuTlb
  <2>2. \A e \in tlb[c] : e.page \in Pages \ {g}
    BY <1>0, <1>inv, Types
  <2>3. TlbOf(c, p_addrspace[p])'
    BY <1>0, <1>3, <1>a, <2>1, <2>2 DEF TlbOf
  <2> QED
    BY <1>0, <1>2, <2>3 DEF CpuTlb
<1>12. Tlbs'
  BY <1>0, <1>6, <1>11, TlbsKeep
<1>13. Memory(p)' = Memory(p)
  <2>1. PICK b : b = SpaceOf(p)
    OBVIOUS
  <2>2. b \in {p_addrspace[p], other[p]} /\ SpaceOf(p)' = b
    BY <1>0, <2>1 DEF SpaceOf
  <2>3. ASSUME b # NULL, NEW h \in Pages
        PROVE  Content(pagetable[b][h])' = Content(pagetable[b][h])
    <3>1. CASE pagetable[b][h] # PTE_EMPTY
      BY <2>2, <2>3, <3>1, <1>7 DEF Content
    <3>2. CASE pagetable[b][h] = PTE_EMPTY
      <4>1. b \in Spaces
        BY <2>2, <2>3, <1>inv, Types
      <4>2. CASE b = a /\ h = g
        BY <3>2, <4>2, <1>3 DEF Content
      <4>3. CASE ~ (b = a /\ h = g)
        <5>1. pagetable'[b][h] = pagetable[b][h]
          BY <4>1, <4>3, <1>3
        <5> QED
          BY <3>2, <5>1 DEF Content
      <4> QED
        BY <4>2, <4>3
    <3> QED
      BY <3>1, <3>2
  <2> QED
    BY <2>1, <2>2, <2>3, Remembers
<1> QED
  BY <1>3, <1>4, <1>5, <1>10, <1>12, <1>13 DEF MemInv

\* A store through the TLB goes to the frame of that page of the running
\* process, and to no other page of any space.
LEMMA WriteIs ==
  ASSUME MemInv, NEW p \in Procs, NEW c \in CPUs, cpu[c] = p, pc[p] \in {"user", "load"},
         NEW g \in Pages, NEW v \in Values, Write(c, g, v),
         NEW a, a = p_addrspace[p],
         pc' = pc, p_addrspace' = p_addrspace, other' = other, image' = image, fault' = fault,
         \A q \in Procs \ {p} : todo'[q] = todo[q],
         pagetable' = pagetable, region' = region, loading_mode' = loading_mode
  PROVE  /\ a \in Spaces /\ a \in spaces /\ a # NULL /\ a # other[p]
         /\ ram' \in [Frames -> Values] /\ pagetable[a][g] # PTE_EMPTY
         /\ ram'[pagetable[a][g].frame] = v
         /\ pc[p] = "user" => g \in Writable
         /\ \A b \in Spaces, h \in Pages :
              pagetable[b][h] # PTE_EMPTY /\ ~ (b = a /\ h = g)
                => ram'[pagetable[b][h].frame] = ram[pagetable[b][h].frame]
         /\ \A q \in Procs \ {p} : Undisturbed(q)
<1>inv. TypeOK /\ Entries /\ Apart /\ PlaceOf(p) /\ CpuTlb(c, p)
  BY Here
<1>1. a \in Spaces /\ a \in spaces /\ a # NULL /\ a # other[p]
  BY <1>inv, Here DEF PlaceOf
<1>2. PICK e \in tlb[c] : e.page = g /\ e.dirty /\ ram' = [ram EXCEPT ![e.frame] = v]
  BY DEF Write, Hits
<1>3. /\ pagetable[a][g].frame = e.frame /\ e.frame \in Frames
      /\ pc[p] = "user" => g \in Writable
  <2>1. TlbOf(c, a)
    BY <1>inv, <1>1 DEF CpuTlb
  <2>2. e.frame \in Frames
    BY <1>inv, Types
  <2>3. pc[p] = "user" => ~ loading_mode[a]
    BY <1>inv, <1>1 DEF PlaceOf
  <2> QED
    BY <1>2, <2>1, <2>2, <2>3 DEF TlbOf
<1>4. pagetable[a][g] # PTE_EMPTY
  BY <1>3, EmptyEntry
<1>5. ram' \in [Frames -> Values] /\ ram'[e.frame] = v /\ \A f \in Frames \ {e.frame} : ram'[f] = ram[f]
  BY <1>inv, <1>2, <1>3 DEF TypeOK
<1>6. ASSUME NEW b \in Spaces, NEW h \in Pages, pagetable[b][h] # PTE_EMPTY, ~ (b = a /\ h = g)
      PROVE  ram'[pagetable[b][h].frame] = ram[pagetable[b][h].frame]
  <2>1. pagetable[b][h].frame # e.frame
    BY <1>inv, <1>1, <1>3, <1>6 DEF Entries
  <2>2. pagetable[b][h].frame \in Frames
    BY <1>inv, <1>6 DEF Entries, EntryOf, TypeOK
  <2> QED
    BY <1>5, <2>1, <2>2
<1>7. ASSUME NEW q \in Procs \ {p} PROVE Undisturbed(q)
  BY <1>1, <1>3, <1>5, Elsewhere
<1> QED
  BY <1>1, <1>3, <1>4, <1>5, <1>6, <1>7

\* The memory of the program then has v there.
LEMMA Written ==
  ASSUME MemInv, NEW p \in Procs, NEW c \in CPUs, Runs(p, c, "user"),
         NEW g \in Pages, NEW v \in Values, Write(c, g, v),
         UNCHANGED <<cpu, pc, procvars, fault, asvars, frame_table, tlb, panic>>
  PROVE  /\ MemInv' /\ \A q \in Procs \ {p} : Memory(q)' = Memory(q)
         /\ g \in Writable /\ Memory(p) \in [Pages -> Values]
         /\ Memory(p)' = [Memory(p) EXCEPT ![g] = v]
<1>0. /\ cpu[c] = p /\ pc[p] = "user" /\ fault[p] = NoFault
      /\ UNCHANGED <<cpu, pc, p_addrspace, other, image, todo, fault, spaces, pagetable, region,
                     loading_mode, frame_table, tlb, panic>>
  BY DEF Runs, procvars, asvars
<1>inv. /\ TypeOK /\ Entries /\ Apart /\ OnCpu /\ PlaceOf(p) /\ CpuTlb(c, p)
        /\ \A d \in CPUs : cpu[d] = p => d = c
  BY <1>0, Here
<1>a. PICK a : a = p_addrspace[p]
  OBVIOUS
<1>1. /\ a \in Spaces /\ a # NULL
      /\ ram' \in [Frames -> Values] /\ pagetable[a][g] # PTE_EMPTY
      /\ ram'[pagetable[a][g].frame] = v /\ g \in Writable
      /\ \A h \in Pages : pagetable[a][h] # PTE_EMPTY /\ h # g
           => ram'[pagetable[a][h].frame] = ram[pagetable[a][h].frame]
      /\ \A q \in Procs \ {p} : Undisturbed(q)
  BY <1>0, <1>a, WriteIs
<1>2. TypeOK'
  BY <1>inv, <1>0, <1>1 DEF TypeOK
<1>3. Entries' /\ Apart' /\ OnCpu'
  BY <1>inv, <1>0, OnCpuKeeps DEF Entries, EntryOf, Apart
<1>4. PlaceOf(p)' /\ FilledOf(p)'
  BY <1>inv, <1>0 DEF PlaceOf, FilledOf
<1>5. Places' /\ Filled' /\ \A q \in Procs \ {p} : Memory(q)' = Memory(q)
  BY <1>1, <1>4, TheOthers
<1>6. CpuTlb(c, p)'
  BY <1>inv, <1>0 DEF CpuTlb, TlbOf
<1>7. Tlbs'
  BY <1>0, <1>1, <1>6, TlbsKeep
<1>8. /\ Memory(p) = [h \in Pages |-> Content(pagetable[a][h])]
      /\ Memory(p)' = [h \in Pages |-> Content(pagetable[a][h])']
  BY <1>0, <1>1, <1>a DEF Memory, Content
<1>9. /\ Content(pagetable[a][g])' = v
      /\ \A h \in Pages \ {g} : Content(pagetable[a][h])' = Content(pagetable[a][h])
      /\ \A h \in Pages : Content(pagetable[a][h]) \in Values
  <2>1. \A h \in Pages : pagetable[a][h] # PTE_EMPTY => pagetable[a][h].frame \in Frames
    BY <1>inv, <1>1 DEF Entries, EntryOf, TypeOK
  <2>2. \A h \in Pages : Content(pagetable[a][h]) \in Values
    BY <1>inv, <2>1, ContentsAssumption DEF Content, TypeOK
  <2> QED
    BY <1>0, <1>1, <2>2 DEF Content
<1> QED
  BY <1>1, <1>2, <1>3, <1>5, <1>7, <1>8, <1>9 DEF MemInv

LEMMA StoreStep ==
  ASSUME MemInv, NEW p \in Procs, NEW c \in CPUs, Store(p, c)
  PROVE  /\ MemInv' /\ \A q \in Procs \ {p} : Memory(q)' = Memory(q)
         /\ \E g \in Writable, v \in Values : /\ Memory(p) \in [Pages -> Values] /\ g \in Pages
                                              /\ Memory(p)' = [Memory(p) EXCEPT ![g] = v]
<1>1. PICK g \in Pages, v \in Values : Write(c, g, v)
  BY DEF Store
<1>2. Runs(p, c, "user") /\ UNCHANGED <<cpu, pc, procvars, fault, asvars, frame_table, tlb, panic>>
  BY DEF Store
<1> QED
  BY <1>1, <1>2, Written

LEMMA CopyStep ==
  ASSUME MemInv, NEW p \in Procs, NEW c \in CPUs, Copy(p, c)
  PROVE  /\ MemInv' /\ \A q \in Procs \ {p} : Memory(q)' = Memory(q)
         /\ \E g \in Writable, h \in Pages :
              /\ Memory(p) \in [Pages -> Values] /\ g \in Pages
              /\ Memory(p)' = [Memory(p) EXCEPT ![g] = Memory(p)[h]]
<1>1. PICK h \in Pages, g \in Pages : \E e \in Hits(c, h) : Write(c, g, ram[e.frame])
  BY DEF Copy
<1>2. PICK e \in tlb[c] : e.page = h /\ Write(c, g, ram[e.frame])
  BY <1>1 DEF Hits
<1>3. /\ Runs(p, c, "user")
      /\ UNCHANGED <<cpu, pc, procvars, fault, asvars, frame_table, tlb, panic>>
  BY DEF Copy
<1>4. cpu[c] = p /\ pc[p] = "user"
  BY <1>3 DEF Runs
<1>5. TypeOK /\ Entries /\ PlaceOf(p) /\ CpuTlb(c, p) /\ p_addrspace[p] \in Spaces \cup {NULL}
  BY <1>4, Here
<1>6. e.frame \in Frames /\ pagetable[p_addrspace[p]][h].frame = e.frame /\ p_addrspace[p] # NULL
  BY <1>2, <1>4, <1>5, Types DEF PlaceOf, CpuTlb, TlbOf
<1>7. ram[e.frame] \in Values
  BY <1>5, <1>6 DEF TypeOK
<1>8. Memory(p)[h] = ram[e.frame]
  <2>1. pagetable[p_addrspace[p]][h] # PTE_EMPTY
    BY <1>6, EmptyEntry
  <2> QED
    BY <1>4, <1>6, <2>1, MemoryIs DEF SpaceOf, Content
<1>9. /\ MemInv' /\ \A q \in Procs \ {p} : Memory(q)' = Memory(q)
      /\ g \in Writable /\ Memory(p) \in [Pages -> Values]
      /\ Memory(p)' = [Memory(p) EXCEPT ![g] = ram[e.frame]]
  BY <1>2, <1>3, <1>7, Written
<1> QED
  BY <1>8, <1>9

LEMMA LoadPageStep ==
  ASSUME MemInv, NEW p \in Procs, NEW c \in CPUs, LoadPage(p, c)
  PROVE  MemInv' /\ \A q \in Procs : Memory(q)' = Memory(q)
<1>0. /\ cpu[c] = p /\ pc[p] = "load" /\ fault[p] = NoFault
      /\ UNCHANGED <<cpu, pc, p_addrspace, other, image, fault, spaces, pagetable, region,
                     loading_mode, frame_table, tlb, panic>>
  BY DEF LoadPage, Runs, asvars
<1>inv. /\ TypeOK /\ Entries /\ Apart /\ OnCpu /\ PlaceOf(p) /\ FilledOf(p) /\ CpuTlb(c, p)
        /\ other[p] \in Spaces \cup {NULL} /\ image[p] \in Values /\ todo[p] \subseteq ImagePages
  BY <1>0, Here, Types
<1>a. PICK a : a = p_addrspace[p]
  OBVIOUS
<1>1. PICK g \in todo[p] : Write(c, g, image[p]) /\ todo' = [todo EXCEPT ![p] = @ \ {g}]
  BY DEF LoadPage
<1>2. /\ g \in Pages /\ todo'[p] = todo[p] \ {g} /\ \A q \in Procs \ {p} : todo'[q] = todo[q]
      /\ todo' \in [Procs -> SUBSET ImagePages]
  BY <1>1, <1>inv, PagesAssumption DEF TypeOK
<1>3. /\ a \in Spaces /\ a # NULL /\ a # other[p]
      /\ ram' \in [Frames -> Values] /\ pagetable[a][g] # PTE_EMPTY
      /\ ram'[pagetable[a][g].frame] = image[p]
      /\ \A b \in Spaces, h \in Pages :
           pagetable[b][h] # PTE_EMPTY /\ ~ (b = a /\ h = g)
             => ram'[pagetable[b][h].frame] = ram[pagetable[b][h].frame]
      /\ \A q \in Procs \ {p} : Undisturbed(q)
  BY <1>0, <1>1, <1>2, <1>a, <1>inv, WriteIs
<1>4. TypeOK'
  BY <1>inv, <1>0, <1>2, <1>3 DEF TypeOK
<1>5. Entries' /\ Apart' /\ OnCpu'
  BY <1>inv, <1>0, OnCpuKeeps DEF Entries, EntryOf, Apart
<1>6. PlaceOf(p)'
  BY <1>inv, <1>0 DEF PlaceOf
<1>7. FilledOf(p)'
  <2>1. ASSUME NEW h \in ImagePages \ todo'[p]
        PROVE  pagetable[a][h] # PTE_EMPTY /\ ram'[pagetable[a][h].frame] = image[p]
    <3>1. CASE h = g
      BY <3>1, <1>3
    <3>2. CASE h # g
      <4>1. pagetable[a][h] # PTE_EMPTY /\ ram[pagetable[a][h].frame] = image[p] /\ h \in Pages
        BY <3>2, <1>0, <1>2, <1>a, <1>inv, PagesAssumption DEF FilledOf
      <4> QED
        BY <3>2, <4>1, <1>3
    <3> QED
      BY <3>1, <3>2
  <2> QED
    BY <2>1, <1>0, <1>a, <1>inv DEF FilledOf
<1>8. Places' /\ Filled' /\ \A q \in Procs \ {p} : Memory(q)' = Memory(q)
  BY <1>3, <1>6, <1>7, TheOthers
<1>9. CpuTlb(c, p)'
  BY <1>inv, <1>0 DEF CpuTlb, TlbOf
<1>10. Tlbs'
  BY <1>0, <1>3, <1>9, TlbsKeep
<1>11. Memory(p)' = Memory(p)
  <2>1. PICK b : b = other[p]
    OBVIOUS
  <2>2. SpaceOf(p) = b /\ SpaceOf(p)' = b
    BY <1>0, <2>1 DEF SpaceOf
  <2>3. ASSUME b # NULL, NEW h \in Pages
        PROVE  Content(pagetable[b][h])' = Content(pagetable[b][h])
    BY <2>1, <2>3, <1>0, <1>3, <1>inv DEF Content
  <2> QED
    BY <2>2, <2>3, Remembers
<1> QED
  BY <1>4, <1>5, <1>8, <1>10, <1>11 DEF MemInv

\* A new space: a free one has no entries, so the page tables stay.
LEMMA Created ==
  ASSUME TypeOK, Entries, NEW a \in FreeSpaces, NEW r \in SUBSET Pages, Create(a, r),
         frame_table' = frame_table
  PROVE  /\ a \in Spaces /\ a \notin spaces /\ a # NULL /\ spaces' = spaces \cup {a}
         /\ pagetable' = pagetable /\ \A g \in Pages : pagetable[a][g] = PTE_EMPTY
         /\ region'[a] = r /\ loading_mode'[a] = FALSE
         /\ \A b \in Spaces \ {a} : region'[b] = region[b] /\ loading_mode'[b] = loading_mode[b]
         /\ spaces' \subseteq Spaces /\ region' \in [Spaces -> SUBSET Pages]
         /\ loading_mode' \in [Spaces -> BOOLEAN] /\ Entries'
<1>1. a \in Spaces /\ a \notin spaces /\ a # NULL /\ spaces' = spaces \cup {a}
  BY EmptyEntry DEF FreeSpaces, Create
<1>2. \A g \in Pages : pagetable[a][g] = PTE_EMPTY
  BY <1>1 DEF Entries, EntryOf
<1>3. pagetable' = pagetable
  <2>1. pagetable' = [pagetable EXCEPT ![a] = [g \in Pages |-> PTE_EMPTY]]
    BY DEF Create
  <2>2. pagetable[a] \in [Pages -> PTE]
    BY <1>1 DEF TypeOK
  <2>3. pagetable[a] = [g \in Pages |-> PTE_EMPTY]
    BY <1>2, <2>2
  <2>4. pagetable \in [Spaces -> [Pages -> PTE]]
    BY DEF TypeOK
  <2> QED
    BY <1>1, <2>1, <2>3, <2>4
<1>4. /\ region'[a] = r /\ loading_mode'[a] = FALSE
      /\ \A b \in Spaces \ {a} : region'[b] = region[b] /\ loading_mode'[b] = loading_mode[b]
      /\ spaces' \subseteq Spaces /\ region' \in [Spaces -> SUBSET Pages]
      /\ loading_mode' \in [Spaces -> BOOLEAN]
  BY <1>1 DEF Create, TypeOK
<1>5. Entries'
  BY <1>1, <1>3 DEF Entries, EntryOf
<1> QED
  BY <1>1, <1>2, <1>3, <1>4, <1>5

LEMMA LoadExecStep ==
  ASSUME MemInv, NEW p \in Procs, NEW c \in CPUs, LoadExec(p, c)
  PROVE  MemInv' /\ \A q \in Procs : Memory(q)' = Memory(q)
<1>0. /\ cpu[c] = p /\ pc[p] \in {"start", "user"} /\ fault[p] = NoFault
      /\ UNCHANGED <<cpu, todo, fault, frame_table, ram, tlb, panic>>
  BY DEF LoadExec, Runs
<1>inv. /\ TypeOK /\ Entries /\ Apart /\ OnCpu /\ PlaceOf(p)
        /\ p_addrspace[p] \in Spaces \cup {NULL}
        /\ p_addrspace[p] # NULL => p_addrspace[p] \in spaces
  BY <1>0, Here
<1>1. PICK a \in FreeSpaces : Create(a, {}) /\ p_addrspace' = [p_addrspace EXCEPT ![p] = a]
  BY DEF LoadExec
<1>2. /\ a \in Spaces /\ a \notin spaces /\ a # NULL /\ spaces' = spaces \cup {a}
      /\ pagetable' = pagetable /\ \A g \in Pages : pagetable[a][g] = PTE_EMPTY
      /\ region'[a] = {} /\ loading_mode'[a] = FALSE
      /\ \A b \in Spaces \ {a} : region'[b] = region[b] /\ loading_mode'[b] = loading_mode[b]
      /\ spaces' \subseteq Spaces /\ region' \in [Spaces -> SUBSET Pages]
      /\ loading_mode' \in [Spaces -> BOOLEAN] /\ Entries'
  BY <1>0, <1>1, <1>inv, Created
<1>3. /\ p_addrspace'[p] = a /\ other'[p] = p_addrspace[p] /\ image'[p] \in Programs
      /\ pc'[p] = "setas"
      /\ \A q \in Procs \ {p} : /\ p_addrspace'[q] = p_addrspace[q] /\ other'[q] = other[q]
                                /\ image'[q] = image[q] /\ pc'[q] = pc[q]
      /\ p_addrspace' \in [Procs -> Spaces \cup {NULL}] /\ other' \in [Procs -> Spaces \cup {NULL}]
      /\ image' \in [Procs -> Values] /\ pc' \in [Procs -> States]
  <2>1. other' = [other EXCEPT ![p] = p_addrspace[p]] /\ pc' = [pc EXCEPT ![p] = "setas"]
    BY DEF LoadExec, Goto
  <2>2. PICK v \in Programs : image' = [image EXCEPT ![p] = v]
    BY DEF LoadExec
  <2> QED
    BY <1>1, <1>2, <1>inv, <2>1, <2>2, ContentsAssumption DEF TypeOK, States
<1>4. TypeOK'
  BY <1>inv, <1>0, <1>2, <1>3 DEF TypeOK
<1>5. other[p] = NULL
  BY <1>inv, <1>0 DEF PlaceOf
<1>6. Apart'
  <2>1. \A q \in Procs : p_addrspace[q] # a /\ other[q] # a
    BY <1>inv, <1>2 DEF Apart
  <2> QED
    BY <1>inv, <1>2, <1>3, <1>5, <2>1 DEF Apart
<1>7. OnCpu'
  <2>1. \A q \in Procs : pc[q] # "none" => pc'[q] # "none"
    BY <1>3
  <2> QED
    BY <1>inv, <1>0, <2>1, OnCpuKeeps
<1>8. ASSUME NEW q \in Procs \ {p} PROVE Undisturbed(q)
  BY <1>0, <1>2, <1>3, Elsewhere
<1>9. PlaceOf(p)' /\ FilledOf(p)'
  <2>1. p_addrspace[p] # NULL => ~ loading_mode[p_addrspace[p]] /\ p_addrspace[p] # a
    BY <1>inv, <1>0, <1>2 DEF PlaceOf
  <2>2. PlaceOf(p)'
    BY <1>0, <1>2, <1>3, <1>inv, <2>1 DEF PlaceOf
  <2>3. FilledOf(p)'
    BY <1>2, <1>3 DEF FilledOf
  <2> QED
    BY <2>2, <2>3
<1>10. Places' /\ Filled' /\ \A q \in Procs \ {p} : Memory(q)' = Memory(q)
  BY <1>8, <1>9, TheOthers
<1>11. CpuTlb(c, p)'
  BY <1>0, <1>3 DEF CpuTlb
<1>12. Tlbs'
  BY <1>0, <1>8, <1>11, TlbsKeep
<1>13. Memory(p)' = Memory(p)
  <2>1. PICK b : b = p_addrspace[p]
    OBVIOUS
  <2>2. SpaceOf(p) = b /\ SpaceOf(p)' = b
    BY <1>0, <1>3, <2>1 DEF SpaceOf
  <2>3. \A h \in Pages : Content(pagetable[b][h])' = Content(pagetable[b][h])
    BY <1>0, <1>2 DEF Content
  <2> QED
    BY <2>2, <2>3, Remembers
<1> QED
  BY <1>2, <1>4, <1>6, <1>7, <1>10, <1>12, <1>13 DEF MemInv

LEMMA PrepareLoadStep ==
  ASSUME MemInv, NEW p \in Procs, NEW c \in CPUs, PrepareLoad(p, c)
  PROVE  MemInv' /\ \A q \in Procs : Memory(q)' = Memory(q)
<1>0. /\ cpu[c] = p /\ pc[p] = "setas" /\ fault[p] = NoFault
      /\ UNCHANGED <<cpu, p_addrspace, other, image, fault, spaces, pagetable, frame_table,
                     ram, panic>>
  BY DEF PrepareLoad, Runs
<1>inv. /\ TypeOK /\ Entries /\ Apart /\ OnCpu /\ PlaceOf(p) /\ FilledOf(p)
        /\ p_addrspace[p] \in Spaces \cup {NULL}
        /\ p_addrspace[p] # NULL => p_addrspace[p] # other[p]
  BY <1>0, Here
<1>a. PICK a : a = p_addrspace[p]
  OBVIOUS
<1>1. a \in Spaces /\ a # NULL /\ a # other[p]
  BY <1>inv, <1>0, <1>a DEF PlaceOf
<1>2. /\ region'[a] = ImagePages /\ loading_mode'[a] = TRUE /\ todo'[p] = ImagePages
      /\ pc'[p] = "load" /\ tlb'[c] = {} /\ \A d \in CPUs \ {c} : tlb'[d] = tlb[d]
      /\ \A b \in Spaces \ {a} : region'[b] = region[b] /\ loading_mode'[b] = loading_mode[b]
      /\ \A q \in Procs \ {p} : todo'[q] = todo[q] /\ pc'[q] = pc[q]
  BY <1>inv, <1>a, <1>1 DEF PrepareLoad, Activate, Goto, TypeOK
<1>3. TypeOK'
  <2>1. region' \in [Spaces -> SUBSET Pages] /\ loading_mode' \in [Spaces -> BOOLEAN]
    BY <1>inv, PagesAssumption DEF PrepareLoad, TypeOK
  <2>2. todo' \in [Procs -> SUBSET ImagePages] /\ pc' \in [Procs -> States]
    BY <1>inv DEF PrepareLoad, Goto, TypeOK, States
  <2>3. tlb' \in [CPUs -> SUBSET TlbEntry]
    BY <1>inv, <1>1, <1>a DEF PrepareLoad, Activate, TypeOK
  <2> QED
    BY <1>inv, <1>0, <2>1, <2>2, <2>3 DEF TypeOK
<1>4. OnCpu'
  <2>1. \A q \in Procs : pc[q] # "none" => pc'[q] # "none"
    BY <1>2
  <2> QED
    BY <1>inv, <1>0, <2>1, OnCpuKeeps
<1>5. Entries' /\ Apart'
  BY <1>inv, <1>0 DEF Entries, EntryOf, Apart
<1>6. ASSUME NEW q \in Procs \ {p} PROVE Undisturbed(q)
  BY <1>0, <1>2, <1>a, Elsewhere
<1>7. PlaceOf(p)' /\ FilledOf(p)'
  <2>1. other[p] # NULL => other[p] \in Spaces \ {a} /\ ~ loading_mode[other[p]]
    BY <1>0, <1>1, <1>inv, Here DEF PlaceOf
  <2>2. PlaceOf(p)'
    BY <1>0, <1>1, <1>2, <1>a, <2>1 DEF PlaceOf
  <2>3. FilledOf(p)'
    BY <1>0, <1>2, <1>a, <1>inv DEF FilledOf
  <2> QED
    BY <2>2, <2>3
<1>8. Places' /\ Filled' /\ \A q \in Procs \ {p} : Memory(q)' = Memory(q)
  BY <1>6, <1>7, TheOthers
<1>9. CpuTlb(c, p)'
  BY <1>0, <1>2 DEF CpuTlb, TlbOf
<1>10. Tlbs'
  BY <1>0, <1>2, <1>6, <1>9, TlbsKeep
<1>11. Memory(p)' = Memory(p)
  <2>1. SpaceOf(p)' = SpaceOf(p)
    BY <1>0, <1>2 DEF SpaceOf
  <2> QED
    BY <1>0, <2>1, Remembers DEF Content
<1> QED
  BY <1>3, <1>4, <1>5, <1>8, <1>10, <1>11 DEF MemInv

LEMMA CompleteLoadStep ==
  ASSUME MemInv, NEW p \in Procs, NEW c \in CPUs, CompleteLoad(p, c)
  PROVE  MemInv' /\ \A q \in Procs : Memory(q)' = Memory(q)
<1>0. /\ cpu[c] = p /\ pc[p] = "load" /\ fault[p] = NoFault /\ todo[p] = {}
      /\ UNCHANGED <<cpu, p_addrspace, other, todo, fault, spaces, pagetable, region,
                     frame_table, ram, panic>>
  BY DEF CompleteLoad, Runs
<1>inv. /\ TypeOK /\ Entries /\ Apart /\ OnCpu /\ PlaceOf(p) /\ FilledOf(p)
        /\ p_addrspace[p] \in Spaces \cup {NULL}
        /\ p_addrspace[p] # NULL => p_addrspace[p] # other[p]
  BY <1>0, Here
<1>a. PICK a : a = p_addrspace[p]
  OBVIOUS
<1>1. a \in Spaces /\ a # NULL /\ a # other[p]
  BY <1>inv, <1>0, <1>a DEF PlaceOf
<1>2. /\ loading_mode'[a] = FALSE /\ image'[p] = Zero
      /\ pc'[p] = "stack" /\ tlb'[c] = {} /\ \A d \in CPUs \ {c} : tlb'[d] = tlb[d]
      /\ \A b \in Spaces \ {a} : loading_mode'[b] = loading_mode[b]
      /\ \A q \in Procs \ {p} : image'[q] = image[q] /\ pc'[q] = pc[q]
  BY <1>inv, <1>a, <1>1 DEF CompleteLoad, Goto, TypeOK
<1>3. TypeOK'
  <2>1. loading_mode' \in [Spaces -> BOOLEAN]
    BY <1>inv DEF CompleteLoad, TypeOK
  <2>2. image' \in [Procs -> Values] /\ pc' \in [Procs -> States]
    BY <1>inv, ContentsAssumption DEF CompleteLoad, Goto, TypeOK, States
  <2>3. tlb' \in [CPUs -> SUBSET TlbEntry]
    BY <1>inv DEF CompleteLoad, TypeOK
  <2> QED
    BY <1>inv, <1>0, <2>1, <2>2, <2>3 DEF TypeOK
<1>4. OnCpu'
  <2>1. \A q \in Procs : pc[q] # "none" => pc'[q] # "none"
    BY <1>2
  <2> QED
    BY <1>inv, <1>0, <2>1, OnCpuKeeps
<1>5. Entries' /\ Apart'
  BY <1>inv, <1>0 DEF Entries, EntryOf, Apart
<1>6. ASSUME NEW q \in Procs \ {p} PROVE Undisturbed(q)
  BY <1>0, <1>2, <1>a, Elsewhere
<1>7. PlaceOf(p)' /\ FilledOf(p)'
  <2>1. other[p] # NULL => other[p] \in Spaces \ {a} /\ ~ loading_mode[other[p]]
    BY <1>0, <1>1, <1>inv, Here DEF PlaceOf
  <2>2. PlaceOf(p)'
    BY <1>0, <1>1, <1>2, <1>a, <2>1 DEF PlaceOf
  <2>3. image[p] \in Programs
    BY <1>0, <1>inv DEF FilledOf
  <2>4. ASSUME NEW g \in Pages
        PROVE  Content(pagetable[a][g])' = IF g \in ImagePages THEN image[p] ELSE Zero
    BY <1>0, <1>a, <1>inv DEF FilledOf, Content
  <2>5. FilledOf(p)'
    BY <1>0, <1>2, <1>a, <2>3, <2>4 DEF FilledOf
  <2> QED
    BY <2>2, <2>5
<1>8. Places' /\ Filled' /\ \A q \in Procs \ {p} : Memory(q)' = Memory(q)
  BY <1>6, <1>7, TheOthers
<1>9. CpuTlb(c, p)'
  BY <1>0, <1>2 DEF CpuTlb, TlbOf
<1>10. Tlbs'
  BY <1>0, <1>2, <1>6, <1>9, TlbsKeep
<1>11. Memory(p)' = Memory(p)
  <2>1. SpaceOf(p)' = SpaceOf(p)
    BY <1>0, <1>2 DEF SpaceOf
  <2> QED
    BY <1>0, <2>1, Remembers DEF Content
<1> QED
  BY <1>3, <1>4, <1>5, <1>8, <1>10, <1>11 DEF MemInv

LEMMA DefineStackStep ==
  ASSUME MemInv, NEW p \in Procs, NEW c \in CPUs, DefineStack(p, c)
  PROVE  /\ MemInv' /\ \A q \in Procs \ {p} : Memory(q)' = Memory(q)
         /\ \E v \in Programs :
              Memory(p)' = [g \in Pages |-> IF g \in ImagePages THEN v ELSE Zero]
<1>0. /\ cpu[c] = p /\ pc[p] = "stack" /\ fault[p] = NoFault
      /\ UNCHANGED <<cpu, p_addrspace, other, image, todo, fault, spaces, pagetable,
                     loading_mode, frame_table, ram, tlb, panic>>
  BY DEF DefineStack, Runs, procvars
<1>inv. /\ TypeOK /\ Entries /\ Apart /\ OnCpu /\ PlaceOf(p) /\ FilledOf(p) /\ CpuTlb(c, p)
        /\ p_addrspace[p] \in Spaces \cup {NULL}
        /\ p_addrspace[p] # NULL => p_addrspace[p] # other[p]
  BY <1>0, Here
<1>a. PICK a : a = p_addrspace[p]
  OBVIOUS
<1>1. a \in Spaces /\ a # NULL
  BY <1>inv, <1>0, <1>a DEF PlaceOf
<1>2. /\ pc'[p] \in {"user", "reap"} /\ (pc'[p] = "user" => other[p] = NULL)
      /\ \A b \in Spaces \ {a} : region'[b] = region[b]
      /\ \A q \in Procs \ {p} : pc'[q] = pc[q]
      /\ region' \in [Spaces -> SUBSET Pages] /\ pc' \in [Procs -> States]
  <2>1. PICK l \in {"user", "reap"} : /\ pc' = [pc EXCEPT ![p] = l]
                                      /\ l = "user" => other[p] = NULL
    BY DEF DefineStack, Goto
  <2>2. region' = [region EXCEPT ![a] = Pages]
    BY <1>a DEF DefineStack
  <2>3. /\ \A b \in Spaces \ {a} : region'[b] = region[b]
        /\ region' \in [Spaces -> SUBSET Pages]
    BY <1>inv, <1>1, <2>2 DEF TypeOK
  <2>4. /\ pc'[p] = l /\ \A q \in Procs \ {p} : pc'[q] = pc[q]
        /\ pc' \in [Procs -> States]
    BY <1>inv, <2>1 DEF TypeOK, States
  <2> QED
    BY <2>1, <2>3, <2>4
<1>3. TypeOK'
  BY <1>inv, <1>0, <1>2 DEF TypeOK
<1>4. OnCpu'
  <2>1. \A q \in Procs : pc[q] # "none" => pc'[q] # "none"
    BY <1>2
  <2> QED
    BY <1>inv, <1>0, <2>1, OnCpuKeeps
<1>5. Entries' /\ Apart'
  BY <1>inv, <1>0 DEF Entries, EntryOf, Apart
<1>6. ASSUME NEW q \in Procs \ {p} PROVE Undisturbed(q)
  BY <1>0, <1>2, <1>a, Elsewhere
<1>7. PlaceOf(p)' /\ FilledOf(p)'
  BY <1>0, <1>2, <1>inv DEF PlaceOf, FilledOf
<1>8. Places' /\ Filled' /\ \A q \in Procs \ {p} : Memory(q)' = Memory(q)
  BY <1>6, <1>7, TheOthers
<1>9. CpuTlb(c, p)'
  BY <1>0, <1>2, <1>inv DEF CpuTlb, TlbOf
<1>10. Tlbs'
  BY <1>0, <1>6, <1>9, TlbsKeep
<1>11. \E v \in Programs : Memory(p)' = [g \in Pages |-> IF g \in ImagePages THEN v ELSE Zero]
  <2>1. PICK v \in Programs : \A g \in Pages :
          Content(pagetable[a][g]) = IF g \in ImagePages THEN v ELSE Zero
    BY <1>0, <1>a, <1>inv DEF FilledOf
  <2>2. Memory(p)' = [g \in Pages |-> Content(pagetable[a][g])]
    BY <1>0, <1>1, <1>2, <1>a DEF Memory, Content
  <2> QED
    BY <2>1, <2>2
<1> QED
  BY <1>3, <1>4, <1>5, <1>8, <1>10, <1>11 DEF MemInv

LEMMA LoadFailsStep ==
  ASSUME MemInv, NEW p \in Procs, NEW c \in CPUs, LoadFails(p, c)
  PROVE  MemInv' /\ \A q \in Procs : Memory(q)' = Memory(q)
<1>0. /\ cpu[c] = p /\ pc[p] \in {"load", "stack"} /\ fault[p] = NoFault
      /\ UNCHANGED <<cpu, fault, spaces, pagetable, region, loading_mode, frame_table, ram,
                     tlb, panic>>
  BY DEF LoadFails, Runs, asvars
<1>inv. /\ TypeOK /\ Entries /\ Apart /\ OnCpu /\ PlaceOf(p) /\ FilledOf(p)
        /\ p_addrspace[p] \in Spaces \cup {NULL} /\ other[p] \in Spaces \cup {NULL}
  BY <1>0, Here
<1>1. /\ p_addrspace'[p] = other[p] /\ other'[p] = p_addrspace[p] /\ todo'[p] = {}
      /\ image'[p] = Zero /\ pc'[p] = "restore"
      /\ \A q \in Procs \ {p} : /\ p_addrspace'[q] = p_addrspace[q] /\ other'[q] = other[q]
                                /\ todo'[q] = todo[q] /\ image'[q] = image[q] /\ pc'[q] = pc[q]
  BY <1>inv DEF LoadFails, Goto, TypeOK
<1>2. TypeOK'
  <2>1. p_addrspace' \in [Procs -> Spaces \cup {NULL}] /\ other' \in [Procs -> Spaces \cup {NULL}]
    BY <1>inv DEF LoadFails, TypeOK
  <2>2. todo' \in [Procs -> SUBSET ImagePages] /\ pc' \in [Procs -> States]
    BY <1>inv DEF LoadFails, Goto, TypeOK, States
  <2>3. image' \in [Procs -> Values]
    BY <1>inv, ContentsAssumption DEF LoadFails, TypeOK
  <2> QED
    BY <1>inv, <1>0, <2>1, <2>2, <2>3 DEF TypeOK
<1>3. OnCpu'
  <2>1. \A q \in Procs : pc[q] # "none" => pc'[q] # "none"
    BY <1>1
  <2> QED
    BY <1>inv, <1>0, <2>1, OnCpuKeeps
<1>4. Entries'
  BY <1>inv, <1>0 DEF Entries, EntryOf
<1>5. Apart'
  BY <1>inv, <1>0, <1>1 DEF Apart
<1>6. ASSUME NEW q \in Procs \ {p} PROVE Undisturbed(q)
  BY <1>0, <1>1, Elsewhere
<1>7. PlaceOf(p)' /\ FilledOf(p)'
  BY <1>0, <1>1, <1>inv DEF PlaceOf, FilledOf
<1>8. Places' /\ Filled' /\ \A q \in Procs \ {p} : Memory(q)' = Memory(q)
  BY <1>6, <1>7, TheOthers
<1>9. CpuTlb(c, p)'
  BY <1>0, <1>1 DEF CpuTlb
<1>10. Tlbs'
  BY <1>0, <1>6, <1>9, TlbsKeep
<1>11. Memory(p)' = Memory(p)
  <2>1. SpaceOf(p)' = SpaceOf(p)
    BY <1>0, <1>1 DEF SpaceOf
  <2> QED
    BY <1>0, <2>1, Remembers DEF Content
<1> QED
  BY <1>2, <1>3, <1>4, <1>5, <1>8, <1>10, <1>11 DEF MemInv

LEMMA ReactivateStep ==
  ASSUME MemInv, NEW p \in Procs, NEW c \in CPUs, Reactivate(p, c)
  PROVE  MemInv' /\ \A q \in Procs : Memory(q)' = Memory(q)
<1>0. /\ cpu[c] = p /\ pc[p] = "restore" /\ fault[p] = NoFault
      /\ UNCHANGED <<cpu, p_addrspace, other, image, todo, fault, spaces, pagetable, region,
                     loading_mode, frame_table, ram, panic>>
  BY DEF Reactivate, Runs, procvars, asvars
<1>inv. TypeOK /\ Entries /\ Apart /\ OnCpu /\ PlaceOf(p)
  BY <1>0, Here
<1>1. /\ pc'[p] = "reap" /\ \A q \in Procs \ {p} : pc'[q] = pc[q]
      /\ \A d \in CPUs \ {c} : tlb'[d] = tlb[d]
      /\ p_addrspace[p] # NULL => tlb'[c] = {}
  BY <1>inv DEF Reactivate, Activate, Goto, TypeOK
<1>2. TypeOK'
  <2>1. pc' \in [Procs -> States] /\ tlb' \in [CPUs -> SUBSET TlbEntry]
    BY <1>inv DEF Reactivate, Activate, Goto, TypeOK, States
  <2> QED
    BY <1>inv, <1>0, <2>1 DEF TypeOK
<1>3. OnCpu'
  <2>1. \A q \in Procs : pc[q] # "none" => pc'[q] # "none"
    BY <1>1
  <2> QED
    BY <1>inv, <1>0, <2>1, OnCpuKeeps
<1>4. Entries' /\ Apart'
  BY <1>inv, <1>0 DEF Entries, EntryOf, Apart
<1>5. \A q \in Procs \ {p} : Undisturbed(q)
  BY <1>0, <1>1 DEF Undisturbed
<1>6. PlaceOf(p)' /\ FilledOf(p)'
  BY <1>0, <1>1, <1>inv DEF PlaceOf, FilledOf
<1>7. Places' /\ Filled' /\ \A q \in Procs \ {p} : Memory(q)' = Memory(q)
  BY <1>5, <1>6, TheOthers
<1>8. CpuTlb(c, p)'
  BY <1>0, <1>1 DEF CpuTlb, TlbOf
<1>9. Tlbs'
  BY <1>0, <1>1, <1>5, <1>8, TlbsKeep
<1>10. Memory(p)' = Memory(p)
  <2>1. SpaceOf(p)' = SpaceOf(p)
    BY <1>0, <1>1 DEF SpaceOf
  <2> QED
    BY <1>0, <2>1, Remembers DEF Content
<1> QED
  BY <1>2, <1>3, <1>4, <1>7, <1>9, <1>10 DEF MemInv

LEMMA ForkStep ==
  ASSUME MemInv, NEW p \in Procs, NEW c \in CPUs, Fork(p, c)
  PROVE  MemInv' /\ \A q \in Procs : Memory(q)' = Memory(q)
<1>0. /\ cpu[c] = p /\ pc[p] = "user" /\ fault[p] = NoFault
      /\ UNCHANGED <<cpu, p_addrspace, image, todo, fault, frame_table, ram, tlb, panic>>
  BY DEF Fork, Runs
<1>inv. /\ TypeOK /\ Entries /\ Apart /\ OnCpu /\ PlaceOf(p) /\ CpuTlb(c, p)
        /\ p_addrspace[p] \in Spaces \cup {NULL}
        /\ p_addrspace[p] # NULL => p_addrspace[p] \in spaces
  BY <1>0, Here
<1>a. PICK b : b = p_addrspace[p]
  OBVIOUS
<1>b. b \in Spaces /\ b \in spaces /\ b # NULL /\ region[b] \subseteq Pages
  BY <1>inv, <1>0, <1>a, Types DEF PlaceOf
<1>1. PICK a \in FreeSpaces : Create(a, region[b]) /\ other' = [other EXCEPT ![p] = a]
  BY <1>a DEF Fork
<1>2. /\ a \in Spaces /\ a \notin spaces /\ a # NULL /\ spaces' = spaces \cup {a}
      /\ pagetable' = pagetable /\ \A g \in Pages : pagetable[a][g] = PTE_EMPTY
      /\ loading_mode'[a] = FALSE
      /\ \A d \in Spaces \ {a} : region'[d] = region[d] /\ loading_mode'[d] = loading_mode[d]
      /\ spaces' \subseteq Spaces /\ region' \in [Spaces -> SUBSET Pages]
      /\ loading_mode' \in [Spaces -> BOOLEAN] /\ Entries'
  BY <1>0, <1>b, <1>1, <1>inv, Created
<1>3. /\ other'[p] = a /\ pc'[p] = "copy"
      /\ \A q \in Procs \ {p} : other'[q] = other[q] /\ pc'[q] = pc[q]
      /\ other' \in [Procs -> Spaces \cup {NULL}] /\ pc' \in [Procs -> States]
  BY <1>1, <1>2, <1>inv DEF Fork, Goto, TypeOK, States
<1>4. TypeOK'
  BY <1>inv, <1>0, <1>2, <1>3 DEF TypeOK
<1>5. Apart'
  <2>1. \A q \in Procs : p_addrspace[q] # a /\ other[q] # a
    BY <1>inv, <1>2 DEF Apart
  <2> QED
    BY <1>inv, <1>0, <1>2, <1>3, <2>1 DEF Apart
<1>6. OnCpu'
  <2>1. \A q \in Procs : pc[q] # "none" => pc'[q] # "none"
    BY <1>3
  <2> QED
    BY <1>inv, <1>0, <2>1, OnCpuKeeps
<1>7. ASSUME NEW q \in Procs \ {p} PROVE Undisturbed(q)
  BY <1>0, <1>2, <1>3, Elsewhere
<1>8. PlaceOf(p)' /\ FilledOf(p)'
  <2>1. ~ loading_mode[b] /\ b # a
    BY <1>inv, <1>0, <1>2, <1>a, <1>b DEF PlaceOf
  <2>2. PlaceOf(p)'
    BY <1>0, <1>2, <1>3, <1>a, <1>b, <2>1 DEF PlaceOf
  <2>3. FilledOf(p)'
    BY <1>2, <1>3 DEF FilledOf
  <2> QED
    BY <2>2, <2>3
<1>9. Places' /\ Filled' /\ \A q \in Procs \ {p} : Memory(q)' = Memory(q)
  BY <1>7, <1>8, TheOthers
<1>10. CpuTlb(c, p)'
  BY <1>0, <1>2, <1>3, <1>a, <1>b, <1>inv DEF CpuTlb, TlbOf
<1>11. Tlbs'
  BY <1>0, <1>7, <1>10, TlbsKeep
<1>12. Memory(p)' = Memory(p)
  <2>1. SpaceOf(p) = b /\ SpaceOf(p)' = b
    BY <1>0, <1>3, <1>a DEF SpaceOf
  <2>2. \A h \in Pages : Content(pagetable[b][h])' = Content(pagetable[b][h])
    BY <1>0, <1>2 DEF Content
  <2> QED
    BY <2>1, <2>2, Remembers
<1> QED
  BY <1>2, <1>4, <1>5, <1>6, <1>9, <1>11, <1>12 DEF MemInv

LEMMA CopyPageStep ==
  ASSUME MemInv, NEW p \in Procs, NEW c \in CPUs, CopyPage(p, c)
  PROVE  MemInv' /\ \A q \in Procs : Memory(q)' = Memory(q)
<1>0. /\ cpu[c] = p /\ pc[p] = "copy" /\ fault[p] = NoFault /\ ToCopy(p) # {}
      /\ UNCHANGED <<cpu, pc, p_addrspace, other, image, todo, fault, spaces, region,
                     loading_mode, tlb, panic>>
  BY DEF CopyPage, Runs, procvars
<1>inv. /\ TypeOK /\ Entries /\ Apart /\ OnCpu /\ PlaceOf(p) /\ FilledOf(p) /\ CpuTlb(c, p)
        /\ p_addrspace[p] \in Spaces \cup {NULL} /\ other[p] \in Spaces \cup {NULL}
        /\ p_addrspace[p] # NULL => p_addrspace[p] \in spaces /\ p_addrspace[p] # other[p]
        /\ other[p] # NULL => other[p] \in spaces
  BY <1>0, Here
<1>a. PICK a, b : a = other[p] /\ b = p_addrspace[p]
  OBVIOUS
<1>b. /\ a \in Spaces /\ a \in spaces /\ a # NULL
      /\ b \in Spaces /\ b \in spaces /\ b # NULL /\ a # b
  BY <1>inv, <1>0, <1>a DEF PlaceOf
<1>1. PICK g \in Pages : /\ g = Lowest(ToCopy(p))
                         /\ pagetable[b][g] # PTE_EMPTY /\ pagetable[a][g] = PTE_EMPTY
  <2>1. ToCopy(p) \in SUBSET Nat
    BY PagesNat DEF ToCopy
  <2>2. Lowest(ToCopy(p)) \in ToCopy(p)
    BY <1>0, <2>1, LowestIn
  <2> QED
    BY <1>a, <2>2 DEF ToCopy
<1>2. PICK old : old = pagetable[b][g]
  OBVIOUS
<1>3. /\ old \in PTE /\ old.frame \in frame_table /\ old.frame \in Frames
      /\ old.dirty \in BOOLEAN /\ (old.dirty => g \in Writable)
  BY <1>inv, <1>b, <1>1, <1>2, Types DEF Entries, EntryOf, TypeOK
<1>4. PICK f \in FreeFrames : /\ frame_table' = frame_table \cup {f}
                              /\ ram' = [ram EXCEPT ![f] = ram[old.frame]]
                              /\ pagetable' = [pagetable EXCEPT ![a][g] = [old EXCEPT !.frame = f]]
  BY <1>a, <1>1, <1>2 DEF CopyPage
<1>5. PICK pte : pte = [old EXCEPT !.frame = f]
  OBVIOUS
<1>6. pte \in PTE /\ pte.frame = f /\ pte.dirty = old.dirty
  BY <1>3, <1>5 DEF PTE, FreeFrames
<1>7. /\ pagetable' \in [Spaces -> [Pages -> PTE]] /\ frame_table' \subseteq Frames
      /\ \A d \in Spaces : d # a => pagetable'[d] = pagetable[d]
      /\ \A h \in Pages : pagetable'[a][h] = IF h = g THEN pte ELSE pagetable[a][h]
      /\ f \in Frames /\ f \notin frame_table /\ f # NULL
      /\ Entries'
  <2>1. pagetable' = [pagetable EXCEPT ![a][g] = pte]
    BY <1>4, <1>5
  <2>2. pte.dirty => g \in Writable
    BY <1>3, <1>6
  <2>3. /\ TypeOK /\ Entries /\ a \in spaces /\ pagetable[a][g] = PTE_EMPTY
        /\ spaces' = spaces /\ frame_table' = frame_table \cup {f}
    BY <1>inv, <1>0, <1>b, <1>1, <1>4
  <2> QED
    BY <1>6, <2>1, <2>2, <2>3, AddFrame
<1>8. /\ ram' \in [Frames -> Values] /\ ram'[f] = ram[old.frame]
      /\ \A x \in Frames \ {f} : ram'[x] = ram[x]
  BY <1>inv, <1>3, <1>4, <1>7 DEF TypeOK
<1>9. ASSUME NEW d \in Spaces, NEW h \in Pages, pagetable[d][h] # PTE_EMPTY
      PROVE  ram'[pagetable[d][h].frame] = ram[pagetable[d][h].frame]
  <2>1. pagetable[d][h].frame \in frame_table /\ pagetable[d][h].frame \in Frames
    BY <1>9, <1>inv DEF Entries, EntryOf, TypeOK
  <2> QED
    BY <1>7, <1>8, <2>1
<1>10. TypeOK'
  BY <1>inv, <1>0, <1>7, <1>8 DEF TypeOK
<1>11. Apart' /\ OnCpu'
  BY <1>inv, <1>0, OnCpuKeeps DEF Apart
<1>12. ASSUME NEW q \in Procs \ {p} PROVE Undisturbed(q)
  <2>1. \A x \in Frames : ram'[x] = ram[x] \/ x \notin frame_table
    BY <1>7, <1>8
  <2> QED
    BY <1>0, <1>7, <1>a, <2>1, Elsewhere
<1>13. PlaceOf(p)'
  BY <1>inv, <1>0 DEF PlaceOf
<1>14. FilledOf(p)'
  <2>1. ASSUME NEW h \in Pages, pagetable'[a][h] # PTE_EMPTY
        PROVE  /\ pagetable'[b][h] # PTE_EMPTY
               /\ ram'[pagetable'[a][h].frame] = ram'[pagetable'[b][h].frame]
    <3>1. pagetable'[b][h] = pagetable[b][h]
      BY <1>7, <1>b
    <3>2. CASE h = g
      BY <3>1, <3>2, <1>1, <1>2, <1>6, <1>7, <1>8, <1>9, <1>b
    <3>3. CASE h # g
      <4>1. pagetable'[a][h] = pagetable[a][h]
        BY <3>3, <1>7
      <4>2. /\ pagetable[b][h] # PTE_EMPTY
            /\ ram[pagetable[a][h].frame] = ram[pagetable[b][h].frame]
        BY <2>1, <4>1, <1>0, <1>a, <1>inv DEF FilledOf
      <4> QED
        BY <2>1, <3>1, <4>1, <4>2, <1>9, <1>b
    <3> QED
      BY <3>2, <3>3
  <2> QED
    BY <1>0, <1>a, <2>1 DEF FilledOf
<1>15. Places' /\ Filled' /\ \A q \in Procs \ {p} : Memory(q)' = Memory(q)
  BY <1>12, <1>13, <1>14, TheOthers
<1>16. CpuTlb(c, p)'
  <2>1. TlbOf(c, b) /\ pagetable'[b] = pagetable[b]
    BY <1>0, <1>7, <1>a, <1>b, <1>inv DEF CpuTlb
  <2>2. TlbOf(c, p_addrspace[p])'
    BY <1>0, <1>a, <2>1 DEF TlbOf
  <2> QED
    BY <1>0, <2>2 DEF CpuTlb
<1>17. Tlbs'
  BY <1>0, <1>12, <1>16, TlbsKeep
<1>18. Memory(p)' = Memory(p)
  <2>1. SpaceOf(p) = b /\ SpaceOf(p)' = b
    BY <1>0, <1>a DEF SpaceOf
  <2>2. \A h \in Pages : Content(pagetable[b][h])' = Content(pagetable[b][h])
    BY <1>7, <1>9, <1>b DEF Content
  <2> QED
    BY <2>1, <2>2, Remembers
<1> QED
  BY <1>7, <1>10, <1>11, <1>15, <1>17, <1>18 DEF MemInv

LEMMA CopyFailsStep ==
  ASSUME MemInv, NEW p \in Procs, NEW c \in CPUs, CopyFails(p, c)
  PROVE  MemInv' /\ \A q \in Procs : Memory(q)' = Memory(q)
<1>0. /\ cpu[c] = p /\ pc[p] = "copy" /\ fault[p] = NoFault
      /\ UNCHANGED <<cpu, p_addrspace, image, todo, fault, spaces, pagetable, region,
                     loading_mode, frame_table, ram, tlb, panic>>
  BY DEF CopyFails, Runs, asvars
<1>inv. TypeOK /\ Entries /\ Apart /\ OnCpu /\ PlaceOf(p) /\ CpuTlb(c, p)
  BY <1>0, Here
<1>1. /\ pc'[p] = "user" /\ other'[p] = NULL
      /\ \A q \in Procs \ {p} : pc'[q] = pc[q] /\ other'[q] = other[q]
  BY <1>inv DEF CopyFails, Goto, TypeOK
<1>2. TypeOK'
  <2>1. pc' \in [Procs -> States] /\ other' \in [Procs -> Spaces \cup {NULL}]
    BY <1>inv DEF CopyFails, Goto, TypeOK, States
  <2> QED
    BY <1>inv, <1>0, <2>1 DEF TypeOK
<1>3. OnCpu'
  <2>1. \A q \in Procs : pc[q] # "none" => pc'[q] # "none"
    BY <1>1
  <2> QED
    BY <1>inv, <1>0, <2>1, OnCpuKeeps
<1>4. Entries'
  BY <1>inv, <1>0 DEF Entries, EntryOf
<1>5. Apart'
  BY <1>inv, <1>0, <1>1 DEF Apart
<1>6. \A q \in Procs \ {p} : Undisturbed(q)
  BY <1>0, <1>1 DEF Undisturbed
<1>7. PlaceOf(p)' /\ FilledOf(p)'
  BY <1>0, <1>1, <1>inv DEF PlaceOf, FilledOf
<1>8. Places' /\ Filled' /\ \A q \in Procs \ {p} : Memory(q)' = Memory(q)
  BY <1>6, <1>7, TheOthers
<1>9. CpuTlb(c, p)'
  BY <1>0, <1>1, <1>inv DEF CpuTlb, TlbOf
<1>10. Tlbs'
  BY <1>0, <1>6, <1>9, TlbsKeep
<1>11. Memory(p)' = Memory(p)
  <2>1. SpaceOf(p)' = SpaceOf(p)
    BY <1>0, <1>1 DEF SpaceOf
  <2> QED
    BY <1>0, <2>1, Remembers DEF Content
<1> QED
  BY <1>2, <1>3, <1>4, <1>5, <1>8, <1>10, <1>11 DEF MemInv

LEMMA UnforkStep ==
  ASSUME MemInv, NEW p \in Procs, NEW c \in CPUs, Unfork(p, c)
  PROVE  MemInv' /\ \A q \in Procs : Memory(q)' = Memory(q)
<1>0. /\ cpu[c] = p /\ pc[p] = "copy" /\ fault[p] = NoFault
      /\ UNCHANGED <<cpu, p_addrspace, other, image, todo, fault, spaces, pagetable, region,
                     loading_mode, frame_table, ram, tlb, panic>>
  BY DEF Unfork, Runs, procvars, asvars
<1>inv. TypeOK /\ Entries /\ Apart /\ OnCpu /\ PlaceOf(p) /\ CpuTlb(c, p)
  BY <1>0, Here
<1>1. pc'[p] = "reap" /\ \A q \in Procs \ {p} : pc'[q] = pc[q]
  BY <1>inv DEF Unfork, Goto, TypeOK
<1>2. TypeOK'
  <2>1. pc' \in [Procs -> States]
    BY <1>inv DEF Unfork, Goto, TypeOK, States
  <2> QED
    BY <1>inv, <1>0, <2>1 DEF TypeOK
<1>3. OnCpu'
  <2>1. \A q \in Procs : pc[q] # "none" => pc'[q] # "none"
    BY <1>1
  <2> QED
    BY <1>inv, <1>0, <2>1, OnCpuKeeps
<1>4. Entries' /\ Apart'
  BY <1>inv, <1>0 DEF Entries, EntryOf, Apart
<1>5. \A q \in Procs \ {p} : Undisturbed(q)
  BY <1>0, <1>1 DEF Undisturbed
<1>6. PlaceOf(p)' /\ FilledOf(p)'
  BY <1>0, <1>1, <1>inv DEF PlaceOf, FilledOf
<1>7. Places' /\ Filled' /\ \A q \in Procs \ {p} : Memory(q)' = Memory(q)
  BY <1>5, <1>6, TheOthers
<1>8. CpuTlb(c, p)'
  BY <1>0, <1>1, <1>inv DEF CpuTlb, TlbOf
<1>9. Tlbs'
  BY <1>0, <1>5, <1>8, TlbsKeep
<1>10. Memory(p)' = Memory(p)
  <2>1. SpaceOf(p)' = SpaceOf(p)
    BY <1>0, <1>1 DEF SpaceOf
  <2> QED
    BY <1>0, <2>1, Remembers DEF Content
<1> QED
  BY <1>2, <1>3, <1>4, <1>7, <1>9, <1>10 DEF MemInv

\* A space is not "no memory".
LEMMA Something == ASSUME NEW p \in Procs
                   PROVE  Memory(p) = << >> <=> SpaceOf(p) = NULL
<1>1. DOMAIN << >> = {}
  OBVIOUS
<1>2. ASSUME SpaceOf(p) # NULL PROVE DOMAIN Memory(p) = Pages
  BY <1>2, MemoryIs
<1> QED
  BY <1>1, <1>2, MemoryIs, PagesNat

LEMMA ForkedStep ==
  ASSUME MemInv, NEW p \in Procs, NEW c \in CPUs, NEW q \in Procs, Forked(p, c, q)
  PROVE  /\ MemInv' /\ \A r \in Procs \ {q} : Memory(r)' = Memory(r)
         /\ Memory(p) # << >> /\ Memory(q) = << >> /\ Memory(q)' = Memory(p)
<1>0. /\ cpu[c] = p /\ pc[p] = "copy" /\ fault[p] = NoFault /\ pc[q] = "none" /\ q # p
      /\ ToCopy(p) = {}
      /\ UNCHANGED <<cpu, image, todo, fault, spaces, pagetable, region,
                     loading_mode, frame_table, ram, tlb, panic>>
  BY DEF Forked, Runs, asvars
<1>inv. /\ TypeOK /\ Entries /\ Apart /\ OnCpu /\ PlaceOf(p) /\ PlaceOf(q) /\ FilledOf(p)
        /\ CpuTlb(c, p) /\ \A d \in CPUs : cpu[d] = p => d = c
        /\ p_addrspace[p] \in Spaces \cup {NULL} /\ other[p] \in Spaces \cup {NULL}
        /\ p_addrspace[p] # NULL => p_addrspace[p] # other[p]
  BY <1>0, Here DEF MemInv, Places
<1>1. /\ pc'[p] = "user" /\ pc'[q] = "user"
      /\ p_addrspace'[q] = other[p] /\ other'[p] = NULL
      /\ \A r \in Procs \ {q} : p_addrspace'[r] = p_addrspace[r]
      /\ \A r \in Procs \ {p} : other'[r] = other[r]
      /\ \A r \in Procs \ {p, q} : pc'[r] = pc[r]
  BY <1>inv, <1>0 DEF Forked, TypeOK
<1>2. TypeOK'
  <2>1. pc' \in [Procs -> States]
    BY <1>inv DEF Forked, TypeOK, States
  <2>2. p_addrspace' \in [Procs -> Spaces \cup {NULL}] /\ other' \in [Procs -> Spaces \cup {NULL}]
    BY <1>inv DEF Forked, TypeOK
  <2> QED
    BY <1>inv, <1>0, <2>1, <2>2 DEF TypeOK
<1>3. OnCpu'
  <2>1. \A r \in Procs : pc[r] # "none" => pc'[r] # "none"
    BY <1>0, <1>1
  <2> QED
    BY <1>inv, <1>0, <2>1, OnCpuKeeps
<1>4. Entries'
  BY <1>inv, <1>0 DEF Entries, EntryOf
<1>a. PICK a, b : a = other[p] /\ b = p_addrspace[p]
  OBVIOUS
<1>b. a \in Spaces /\ a # NULL /\ b \in Spaces /\ b # NULL /\ a # b
  BY <1>inv, <1>0, <1>a DEF PlaceOf
<1>c. p_addrspace[q] = NULL /\ other[q] = NULL /\ fault[q] = NoFault
  BY <1>inv, <1>0 DEF PlaceOf
<1>5. Apart'
  <2>1. /\ p_addrspace'[p] = b /\ other'[p] = NULL /\ p_addrspace'[q] = a /\ other'[q] = NULL
        /\ \A r \in Procs \ {p, q} : p_addrspace'[r] = p_addrspace[r] /\ other'[r] = other[r]
    BY <1>0, <1>1, <1>a, <1>c
  <2>2. /\ a \in spaces /\ b \in spaces
        /\ \A r \in Procs \ {p, q} : /\ p_addrspace[r] # a /\ p_addrspace[r] # b
                                     /\ other[r] # a /\ other[r] # b
    BY <1>inv, <1>a, <1>b DEF Apart
  <2> QED
    BY <1>inv, <1>0, <1>b, <2>1, <2>2 DEF Apart
<1>6. \A r \in Procs \ {p, q} : Undisturbed(r)
  BY <1>0, <1>1 DEF Undisturbed
<1>7. PlaceOf(p)' /\ FilledOf(p)'
  BY <1>0, <1>1, <1>inv DEF PlaceOf, FilledOf
<1>8. PlaceOf(q)' /\ FilledOf(q)'
  <2>1. ~ loading_mode[a]
    BY <1>0, <1>a, <1>b, <1>inv DEF PlaceOf
  <2> QED
    BY <1>0, <1>1, <1>a, <1>b, <1>c, <2>1 DEF PlaceOf, FilledOf
<1>9. Places' /\ Filled' /\ \A r \in Procs \ {p, q} : Memory(r)' = Memory(r)
  BY <1>6, <1>7, <1>8, TheOthers
<1>10. CpuTlb(c, p)'
  BY <1>0, <1>1, <1>inv DEF CpuTlb, TlbOf
<1>11. ASSUME NEW d \in CPUs, NEW r \in Procs, cpu'[d] = r
       PROVE  CpuTlb(d, r)'
  <2>1. r # q
    BY <1>0, <1>11, <1>inv, Types DEF OnCpu
  <2>2. CASE r = p
    BY <2>2, <1>0, <1>10, <1>11, <1>inv
  <2>3. CASE r # p
    BY <2>1, <2>3, <1>0, <1>6, <1>11, TlbKeeps
  <2> QED
    BY <2>2, <2>3
<1>12. Memory(p)' = Memory(p)
  <2>1. SpaceOf(p)' = SpaceOf(p)
    BY <1>0, <1>1 DEF SpaceOf
  <2> QED
    BY <1>0, <2>1, Remembers DEF Content
<1>13. Memory(q)' = Memory(p)
  <2>1. ASSUME NEW g \in Pages PROVE Content(pagetable[a][g]) = Content(pagetable[b][g])
    <3>1. pagetable[b][g] # PTE_EMPTY => pagetable[a][g] # PTE_EMPTY
      BY <1>0, <1>a DEF ToCopy
    <3>2. pagetable[a][g] # PTE_EMPTY => /\ pagetable[b][g] # PTE_EMPTY
                                         /\ ram[pagetable[a][g].frame] = ram[pagetable[b][g].frame]
      BY <1>0, <1>a, <1>inv DEF FilledOf
    <3> QED
      BY <3>1, <3>2 DEF Content
  <2>2. Memory(q)' = [g \in Pages |-> Content(pagetable[a][g])]
    BY <1>0, <1>1, <1>a, <1>b DEF Memory, Content
  <2>3. Memory(p) = [g \in Pages |-> Content(pagetable[b][g])]
    BY <1>0, <1>a, <1>b DEF Memory, Content
  <2> QED
    BY <2>1, <2>2, <2>3
<1>14. Memory(p) # << >> /\ Memory(q) = << >>
  BY <1>0, <1>a, <1>b, <1>c, Something DEF SpaceOf
<1>15. \A r \in Procs \ {q} : Memory(r)' = Memory(r)
  BY <1>9, <1>12
<1> QED
  BY <1>2, <1>3, <1>4, <1>5, <1>9, <1>11, <1>13, <1>14, <1>15 DEF MemInv, Tlbs

LEMMA ExitStep ==
  ASSUME MemInv, NEW p \in Procs, NEW c \in CPUs, Exit(p, c)
  PROVE  /\ MemInv' /\ \A q \in Procs \ {p} : Memory(q)' = Memory(q)
         /\ Memory(p)' = << >>
<1>0. /\ cpu[c] = p /\ pc[p] \in {"start", "user"} /\ fault[p] = NoFault
      /\ UNCHANGED <<cpu, image, todo, fault, spaces, pagetable, region,
                     loading_mode, frame_table, ram, tlb, panic>>
  BY DEF Exit, Runs, asvars
<1>inv. TypeOK /\ Entries /\ Apart /\ OnCpu /\ PlaceOf(p)
  BY <1>0, Here
<1>1. /\ pc'[p] = "reap" /\ other'[p] = p_addrspace[p] /\ p_addrspace'[p] = NULL
      /\ \A q \in Procs \ {p} : /\ pc'[q] = pc[q] /\ other'[q] = other[q]
                                /\ p_addrspace'[q] = p_addrspace[q]
  BY <1>inv DEF Exit, Goto, TypeOK
<1>2. TypeOK'
  <2>1. pc' \in [Procs -> States]
    BY <1>inv DEF Exit, Goto, TypeOK, States
  <2>2. p_addrspace' \in [Procs -> Spaces \cup {NULL}] /\ other' \in [Procs -> Spaces \cup {NULL}]
    BY <1>inv DEF Exit, TypeOK
  <2> QED
    BY <1>inv, <1>0, <2>1, <2>2 DEF TypeOK
<1>3. OnCpu'
  <2>1. \A q \in Procs : pc[q] # "none" => pc'[q] # "none"
    BY <1>0, <1>1
  <2> QED
    BY <1>inv, <1>0, <2>1, OnCpuKeeps
<1>4. Entries'
  BY <1>inv, <1>0 DEF Entries, EntryOf
<1>5. Apart'
  <2>1. other[p] = NULL
    BY <1>inv, <1>0 DEF PlaceOf
  <2> QED
    BY <1>inv, <1>0, <1>1, <2>1 DEF Apart
<1>6. \A q \in Procs \ {p} : Undisturbed(q)
  BY <1>0, <1>1 DEF Undisturbed
<1>7. PlaceOf(p)' /\ FilledOf(p)'
  BY <1>0, <1>1, <1>inv DEF PlaceOf, FilledOf
<1>8. Places' /\ Filled' /\ \A q \in Procs \ {p} : Memory(q)' = Memory(q)
  BY <1>6, <1>7, TheOthers
<1>9. CpuTlb(c, p)'
  BY <1>0, <1>1 DEF CpuTlb
<1>10. Tlbs'
  BY <1>0, <1>6, <1>9, TlbsKeep
<1>11. Memory(p)' = << >>
  BY <1>1 DEF Memory
<1> QED
  BY <1>2, <1>3, <1>4, <1>5, <1>8, <1>10, <1>11 DEF MemInv

LEMMA FreePageStep ==
  ASSUME MemInv, NEW p \in Procs, NEW c \in CPUs, FreePage(p, c)
  PROVE  MemInv' /\ \A q \in Procs : Memory(q)' = Memory(q)
<1>a. PICK a, b : a = other[p] /\ b = p_addrspace[p]
  OBVIOUS
<1>0. /\ cpu[c] = p /\ pc[p] = "reap" /\ fault[p] = NoFault /\ a # NULL
      /\ UNCHANGED <<cpu, pc, p_addrspace, other, image, todo, fault, spaces, region,
                     loading_mode, ram, tlb, panic>>
  BY <1>a DEF FreePage, Runs, procvars
<1>inv. /\ TypeOK /\ Entries /\ Apart /\ OnCpu /\ PlaceOf(p) /\ CpuTlb(c, p)
        /\ a \in Spaces /\ b \in Spaces \cup {NULL} /\ a # b
  BY <1>0, <1>a, Here
<1>1. PICK g \in Pages : /\ pagetable[a][g] # PTE_EMPTY
                         /\ frame_table' = frame_table \ {pagetable[a][g].frame}
                         /\ pagetable' = [pagetable EXCEPT ![a][g] = PTE_EMPTY]
  <2>1. PICK full : full = {h \in Pages : pagetable[a][h] # PTE_EMPTY}
    OBVIOUS
  <2>2. /\ full # {}
        /\ frame_table' = frame_table \ {pagetable[a][Lowest(full)].frame}
        /\ pagetable' = [pagetable EXCEPT ![a][Lowest(full)] = PTE_EMPTY]
    BY <1>a, <2>1 DEF FreePage
  <2>3. Lowest(full) \in full
    BY <2>1, <2>2, PagesNat, LowestIn
  <2> QED
    BY <2>1, <2>2, <2>3
<1>2. /\ pagetable' \in [Spaces -> [Pages -> PTE]] /\ pagetable'[a][g] = PTE_EMPTY
      /\ \A d \in Spaces : d # a => pagetable'[d] = pagetable[d]
      /\ \A h \in Pages \ {g} : pagetable'[a][h] = pagetable[a][h]
  BY <1>inv, <1>1, EmptyEntry DEF TypeOK
<1>3. TypeOK'
  BY <1>inv, <1>0, <1>1, <1>2 DEF TypeOK
<1>4. Entries'
  <2>1. \A d \in Spaces, h \in Pages :
          /\ pagetable'[d][h] = pagetable[d][h] \/ (d = a /\ h = g /\ pagetable'[d][h] = PTE_EMPTY)
          /\ ~ (d = a /\ h = g) /\ pagetable[d][h] # PTE_EMPTY
               => pagetable[d][h].frame # pagetable[a][g].frame
    BY <1>inv, <1>1, <1>2 DEF Entries
  <2>2. ASSUME NEW d \in Spaces, NEW h \in Pages PROVE EntryOf(d, h)'
    <3>1. EntryOf(d, h)
      BY <1>inv DEF Entries
    <3>2. CASE d = a /\ h = g
      BY <1>2, <3>2, EmptyEntry DEF EntryOf
    <3>3. CASE ~ (d = a /\ h = g)
      <4>1. pagetable'[d][h] = pagetable[d][h]
        BY <2>1, <3>3
      <4>2. pagetable[d][h] # PTE_EMPTY => pagetable[d][h].frame # pagetable[a][g].frame
        BY <2>1, <3>3
      <4> QED
        BY <1>0, <1>1, <3>1, <4>1, <4>2 DEF EntryOf
    <3> QED
      BY <3>2, <3>3
  <2>3. pagetable[a][g].frame # NULL
    BY <1>inv, <1>1 DEF Entries, EntryOf
  <2>4. ASSUME NEW d \in Spaces, NEW e \in Spaces, NEW h \in Pages, NEW k \in Pages,
               pagetable'[d][h] # PTE_EMPTY, pagetable'[d][h].frame = pagetable'[e][k].frame
        PROVE  d = e /\ h = k
    <3>1. pagetable'[d][h] = pagetable[d][h] /\ pagetable[d][h].frame # NULL
      BY <1>inv, <2>1, <2>4 DEF Entries, EntryOf
    <3>2. pagetable'[e][k] = pagetable[e][k]
      BY <2>1, <2>4, <3>1, EmptyEntry
    <3> QED
      BY <1>inv, <2>4, <3>1, <3>2 DEF Entries
  <2>5. ASSUME NEW f \in frame_table'
        PROVE  \E d \in Spaces, h \in Pages : pagetable'[d][h].frame = f
    <3>1. f \in frame_table /\ f # pagetable[a][g].frame
      BY <1>1, <2>5
    <3>2. PICK d \in Spaces, h \in Pages : pagetable[d][h].frame = f
      BY <1>inv, <3>1 DEF Entries
    <3>3. ~ (d = a /\ h = g)
      BY <3>1, <3>2
    <3> QED
      BY <1>2, <3>2, <3>3
  <2> QED
    BY <2>2, <2>4, <2>5 DEF Entries
<1>5. Apart' /\ OnCpu'
  BY <1>inv, <1>0, OnCpuKeeps DEF Apart
<1>6. ASSUME NEW q \in Procs \ {p} PROVE Undisturbed(q)
  <2>1. \A d \in Spaces : d # a => /\ pagetable'[d] = pagetable[d] /\ region'[d] = region[d]
                                   /\ loading_mode'[d] = loading_mode[d]
    BY <1>0, <1>2
  <2>2. \A f \in Frames : ram'[f] = ram[f]
    BY <1>0
  <2>3. /\ pc'[q] = pc[q] /\ p_addrspace'[q] = p_addrspace[q] /\ other'[q] = other[q]
        /\ image'[q] = image[q] /\ todo'[q] = todo[q] /\ fault'[q] = fault[q]
    BY <1>0
  <2>4. a \in {p_addrspace[p], other[p]} /\ p # q
    BY <1>a
  <2> QED
    BY <2>1, <2>2, <2>3, <2>4, Elsewhere
<1>7. PlaceOf(p)' /\ FilledOf(p)'
  BY <1>inv, <1>0 DEF PlaceOf, FilledOf
<1>8. Places' /\ Filled' /\ \A q \in Procs \ {p} : Memory(q)' = Memory(q)
  BY <1>6, <1>7, TheOthers
<1>9. CpuTlb(c, p)'
  <2>1. ASSUME b # NULL PROVE TlbOf(c, p_addrspace[p])'
    <3>1. TlbOf(c, b) /\ pagetable'[b] = pagetable[b]
      BY <1>0, <1>2, <1>a, <1>inv, <2>1 DEF CpuTlb
    <3> QED
      BY <1>0, <1>a, <3>1 DEF TlbOf
  <2> QED
    BY <1>0, <1>a, <2>1 DEF CpuTlb
<1>10. Tlbs'
  BY <1>0, <1>6, <1>9, TlbsKeep
<1>11. Memory(p)' = Memory(p)
  <2>1. SpaceOf(p) = b /\ SpaceOf(p)' = b
    BY <1>0, <1>a DEF SpaceOf
  <2>2. b # NULL => \A h \in Pages : Content(pagetable[b][h])' = Content(pagetable[b][h])
    BY <1>0, <1>2, <1>inv DEF Content
  <2> QED
    BY <2>1, <2>2, Remembers
<1> QED
  BY <1>3, <1>4, <1>5, <1>8, <1>10, <1>11 DEF MemInv

LEMMA ReapedStep ==
  ASSUME MemInv, NEW p \in Procs, NEW c \in CPUs, Reaped(p, c)
  PROVE  MemInv' /\ \A q \in Procs : Memory(q)' = Memory(q)
<1>a. PICK a, b : a = other[p] /\ b = p_addrspace[p]
  OBVIOUS
<1>0. /\ cpu[c] = p /\ pc[p] = "reap" /\ fault[p] = NoFault
      /\ a # NULL => \A g \in Pages : pagetable[a][g] = PTE_EMPTY
      /\ UNCHANGED <<p_addrspace, image, todo, fault, pagetable, frame_table, ram, tlb, panic>>
  BY <1>a DEF Reaped, Runs
<1>inv. /\ TypeOK /\ Entries /\ Apart /\ OnCpu /\ PlaceOf(p) /\ CpuTlb(c, p) /\ p # Nobody
        /\ a \in Spaces \cup {NULL} /\ b \in Spaces \cup {NULL}
        /\ b # NULL => a # b
        /\ \A d \in CPUs : cpu[d] = p => d = c
  BY <1>0, <1>a, Here
<1>1. /\ spaces' = spaces \ {a} /\ other'[p] = NULL
      /\ \A d \in Spaces \ {a} : region'[d] = region[d] /\ (loading_mode'[d] <=> loading_mode[d])
      /\ \A q \in Procs \ {p} : other'[q] = other[q] /\ pc'[q] = pc[q]
      /\ \/ b = NULL /\ pc'[p] = "none" /\ cpu'[c] = Nobody
         \/ b # NULL /\ pc'[p] = "user" /\ cpu'[c] = cpu[c]
      /\ \A d \in CPUs \ {c} : cpu'[d] = cpu[d]
  <2>1. spaces' = spaces \ {a} /\ other'[p] = NULL /\ \A q \in Procs \ {p} : other'[q] = other[q]
    BY <1>a, <1>inv DEF Reaped, TypeOK
  <2>2. \A d \in Spaces \ {a} : region'[d] = region[d] /\ (loading_mode'[d] <=> loading_mode[d])
    BY <1>a DEF Reaped
  <2>3. CASE b = NULL
    BY <2>1, <2>2, <2>3, <1>a, <1>inv DEF Reaped, Goto, TypeOK
  <2>4. CASE b # NULL
    BY <2>1, <2>2, <2>4, <1>a, <1>inv DEF Reaped, Goto, TypeOK
  <2> QED
    BY <2>3, <2>4
<1>2. \A d \in Spaces \ {a} : loading_mode'[d] = loading_mode[d]
  <2>1. \A d \in Spaces : loading_mode[d] \in BOOLEAN
    BY <1>inv, Types
  <2>2. \A d \in Spaces : loading_mode'[d] = (loading_mode[d] /\ d # a)
    BY <1>a DEF Reaped
  <2> QED
    BY <2>1, <2>2
<1>3. TypeOK'
  <2>1. pc' \in [Procs -> States] /\ other' \in [Procs -> Spaces \cup {NULL}]
    BY <1>inv DEF Reaped, Goto, TypeOK, States
  <2>2. cpu' \in [CPUs -> Procs \cup {Nobody}]
    BY <1>inv DEF Reaped, TypeOK
  <2>3. region' \in [Spaces -> SUBSET Pages]
    BY <1>inv DEF Reaped, TypeOK
  <2>4. loading_mode' \in [Spaces -> BOOLEAN]
    BY DEF Reaped
  <2> QED
    BY <1>inv, <1>0, <1>1, <2>1, <2>2, <2>3, <2>4 DEF TypeOK
<1>4. Entries'
  BY <1>inv, <1>0, <1>1, EmptyEntry DEF Entries, EntryOf
<1>5. Apart'
  BY <1>inv, <1>0, <1>1, <1>a DEF Apart
<1>6. OnCpu'
  <2>1. \A d \in CPUs : cpu'[d] # Nobody => cpu'[d] = cpu[d] /\ cpu[d] \in Procs
    BY <1>inv, <1>1, Types
  <2>2. \A d \in CPUs : cpu'[d] = p => b # NULL /\ pc'[p] = "user"
    BY <1>inv, <1>1, <2>1
  <2> QED
    BY <1>inv, <1>1, <2>1, <2>2 DEF OnCpu
<1>7. ASSUME NEW q \in Procs \ {p} PROVE Undisturbed(q)
  BY <1>0, <1>1, <1>2, <1>a, Elsewhere
<1>8. PlaceOf(p)' /\ FilledOf(p)'
  <2>1. b # NULL => ~ loading_mode'[b]
    BY <1>0, <1>2, <1>a, <1>inv DEF PlaceOf
  <2> QED
    BY <1>0, <1>1, <1>a, <2>1 DEF PlaceOf, FilledOf
<1>9. Places' /\ Filled' /\ \A q \in Procs \ {p} : Memory(q)' = Memory(q)
  BY <1>7, <1>8, TheOthers
<1>10. ASSUME b # NULL PROVE CpuTlb(c, p)'
  <2>1. TlbOf(c, b) /\ loading_mode'[b] = loading_mode[b]
    BY <1>0, <1>2, <1>10, <1>a, <1>inv DEF CpuTlb
  <2>2. TlbOf(c, p_addrspace[p])'
    BY <1>0, <1>a, <2>1 DEF TlbOf
  <2> QED
    BY <1>0, <2>2 DEF CpuTlb
<1>11. ASSUME NEW d \in CPUs, NEW r \in Procs, cpu'[d] = r
       PROVE  CpuTlb(d, r)'
  <2>1. cpu[d] = r
    BY <1>1, <1>11, NobodyAssumption
  <2>2. CASE r = p
    BY <2>1, <2>2, <1>1, <1>10, <1>11, <1>inv
  <2>3. CASE r # p
    BY <2>1, <2>3, <1>0, <1>7, TlbKeeps
  <2> QED
    BY <2>2, <2>3
<1>12. Memory(p)' = Memory(p)
  <2>1. SpaceOf(p) = b /\ SpaceOf(p)' = b
    BY <1>0, <1>1, <1>a DEF SpaceOf
  <2> QED
    BY <1>0, <2>1, Remembers DEF Content
<1> QED
  BY <1>3, <1>4, <1>5, <1>6, <1>9, <1>11, <1>12 DEF MemInv, Tlbs

-----------------------------------------------------------------------------
(* The theorems.                                                           *)

\* The memory of every process, as PrivateMemory keeps it.
Memories == [p \in Procs |-> Memory(p)]

LEMMA Stutters == ASSUME \A q \in Procs : Memory(q)' = Memory(q) PROVE Memories' = Memories
BY DEF Memories

\* One process has another memory than before.
LEMMA OneChanges ==
  ASSUME NEW p \in Procs, \A q \in Procs \ {p} : Memory(q)' = Memory(q),
         NEW m, Memory(p)' = m
  PROVE  Memories' = [Memories EXCEPT ![p] = m]
BY DEF Memories

LEMMA StepOf ==
  ASSUME MemInv, NEW p \in Procs, NEW c \in CPUs, Step(p, c)
  PROVE  MemInv' /\ [Private!Next]_Memories
<1>1. ASSUME Store(p, c) PROVE MemInv' /\ Private!Next
  <2>1. PICK g \in Writable, v \in Values :
          /\ Memory(p) \in [Pages -> Values] /\ g \in Pages
          /\ Memory(p)' = [Memory(p) EXCEPT ![g] = v]
    BY <1>1, StoreStep
  <2>2. Memory(p) # << >>
    BY <2>1, PagesNat
  <2>3. Memories' = [Memories EXCEPT ![p] = [Memory(p) EXCEPT ![g] = v]]
    BY <1>1, <2>1, StoreStep, OneChanges
  <2>4. Memories[p] = Memory(p)
    BY DEF Memories
  <2>5. Private!Store(p, g, v)
    BY <2>2, <2>3, <2>4 DEF Private!Store, Private!Alive, Private!NoMemory, Memories
  <2> QED
    BY <1>1, <2>1, <2>5, StoreStep DEF Private!Next
<1>2. ASSUME Copy(p, c) PROVE MemInv' /\ Private!Next
  <2>1. PICK g \in Writable, h \in Pages :
          /\ Memory(p) \in [Pages -> Values] /\ g \in Pages
          /\ Memory(p)' = [Memory(p) EXCEPT ![g] = Memory(p)[h]]
    BY <1>2, CopyStep
  <2>2. Memory(p) # << >>
    BY <2>1, PagesNat
  <2>3. Memories' = [Memories EXCEPT ![p] = [Memory(p) EXCEPT ![g] = Memory(p)[h]]]
    BY <1>2, <2>1, CopyStep, OneChanges
  <2>4. Memories[p] = Memory(p)
    BY DEF Memories
  <2>5. Private!Copy(p, h, g)
    BY <2>2, <2>3, <2>4 DEF Private!Copy, Private!Alive, Private!NoMemory, Memories
  <2> QED
    BY <1>2, <2>1, <2>5, CopyStep DEF Private!Next
<1>3. ASSUME DefineStack(p, c) PROVE MemInv' /\ Private!Next
  <2>1. PICK v \in Programs :
          Memory(p)' = [g \in Pages |-> IF g \in ImagePages THEN v ELSE Zero]
    BY <1>3, DefineStackStep
  <2>2. Memories' = [Memories EXCEPT ![p] = [g \in Pages |-> IF g \in ImagePages THEN v ELSE Zero]]
    BY <1>3, <2>1, DefineStackStep, OneChanges
  <2>3. Private!Exec(p, v)
    BY <2>2 DEF Private!Exec, Private!Loaded, Memories
  <2> QED
    BY <1>3, <2>3, DefineStackStep DEF Private!Next
<1>4. ASSUME NEW q \in Procs, Forked(p, c, q) PROVE MemInv' /\ Private!Next
  <2>1. /\ MemInv' /\ \A r \in Procs \ {q} : Memory(r)' = Memory(r)
        /\ Memory(p) # << >> /\ Memory(q) = << >> /\ Memory(q)' = Memory(p)
    BY <1>4, ForkedStep
  <2>2. Memories' = [Memories EXCEPT ![q] = Memory(p)]
    BY <2>1, OneChanges
  <2>3. Private!Fork(p, q)
    BY <2>1, <2>2 DEF Private!Fork, Private!Alive, Private!NoMemory, Memories
  <2> QED
    BY <2>1, <2>3 DEF Private!Next
<1>5. ASSUME Exit(p, c) PROVE MemInv' /\ [Private!Next]_Memories
  <2>1. MemInv' /\ \A q \in Procs \ {p} : Memory(q)' = Memory(q)
    BY <1>5, ExitStep
  <2>2. Memory(p)' = << >>
    BY <1>5, ExitStep
  <2>3. Memories' = [Memories EXCEPT ![p] = << >>]
    BY <2>1, <2>2, OneChanges
  <2>4. CASE Memory(p) = << >>
    BY <2>1, <2>2, <2>4, Stutters
  <2>5. CASE Memory(p) # << >>
    <3>1. Private!Exit(p)
      BY <2>3, <2>5 DEF Private!Exit, Private!Alive, Private!NoMemory, Memories
    <3> QED
      BY <2>1, <3>1 DEF Private!Next
  <2> QED
    BY <2>4, <2>5
<1>6. ASSUME \/ SwitchOut(p, c) \/ SwitchIn(p, c)
             \/ (\E g \in Pages : VmFault(p, c, g)) \/ TlbRandom(p, c) \/ OutOfMemory(p, c)
             \/ LoadExec(p, c) \/ PrepareLoad(p, c) \/ LoadPage(p, c) \/ CompleteLoad(p, c)
             \/ LoadFails(p, c) \/ Reactivate(p, c)
             \/ Fork(p, c) \/ CopyPage(p, c) \/ CopyFails(p, c) \/ Unfork(p, c)
             \/ FreePage(p, c) \/ Reaped(p, c)
      PROVE  MemInv' /\ Memories' = Memories
  <2>1. MemInv' /\ \A q \in Procs : Memory(q)' = Memory(q)
    BY <1>6, SwitchOutStep, SwitchInStep, VmFaultStep, TlbRandomStep, OutOfMemoryStep,
       LoadExecStep, PrepareLoadStep, LoadPageStep, CompleteLoadStep, LoadFailsStep,
       ReactivateStep, ForkStep, CopyPageStep, CopyFailsStep, UnforkStep, FreePageStep,
       ReapedStep
  <2> QED
    BY <2>1, Stutters
<1> QED
  BY <1>1, <1>2, <1>3, <1>4, <1>5, <1>6 DEF Step

LEMMA NextStep == MemInv /\ [Next]_vars => MemInv' /\ [Private!Next]_Memories
<1> SUFFICES ASSUME MemInv, [Next]_vars PROVE MemInv' /\ [Private!Next]_Memories
  OBVIOUS
<1>1. ASSUME NEW p \in Procs, Start(p) PROVE MemInv' /\ Memories' = Memories
  BY <1>1, StartStep, Stutters
<1>2. ASSUME NEW p \in Procs, NEW c \in CPUs, Step(p, c)
      PROVE  MemInv' /\ [Private!Next]_Memories
  BY <1>2, StepOf
<1>3. CASE UNCHANGED vars
  <2>1. UNCHANGED <<cpu, pc, p_addrspace, other, image, todo, fault, spaces, pagetable, region,
                    loading_mode, frame_table, ram, tlb, panic>>
    BY <1>3 DEF vars
  <2>2. TypeOK' /\ OnCpu' /\ Tlbs'
    BY <2>1 DEF MemInv, TypeOK, OnCpu, Tlbs, CpuTlb, TlbOf
  <2>3. Entries' /\ Apart'
    BY <2>1 DEF MemInv, Entries, EntryOf, Apart
  <2>4. \A q \in Procs \ {} : Undisturbed(q)
    BY <2>1 DEF Undisturbed
  <2>5. Places' /\ Filled' /\ \A q \in Procs \ {} : Memory(q)' = Memory(q)
    BY <2>4, TheOthers
  <2> QED
    BY <2>2, <2>3, <2>5, Stutters DEF MemInv
<1> QED
  BY <1>1, <1>2, <1>3 DEF Next

LEMMA MemInvHolds == Spec => []MemInv
BY InitMem, NextStep, PTL DEF Spec

\* Type correctness.
THEOREM MemTypes == Spec => []TypeOK
<1>1. MemInv => TypeOK
  BY DEF MemInv
<1> QED
  BY <1>1, MemInvHolds, PTL

LEMMA FramesHaveOneUser == ASSUME TypeOK, Entries PROVE FramesOwned
<1> DEFINE Users(f) == {x \in Spaces \X Pages : pagetable[x[1]][x[2]].frame = f}
<1>1. ASSUME NEW f \in Frames, f \in frame_table PROVE Cardinality(Users(f)) = 1
  <2>1. PICK a \in Spaces, g \in Pages : pagetable[a][g].frame = f
    BY <1>1 DEF Entries
  <2>2. pagetable[a][g] # PTE_EMPTY
    BY <2>1, EmptyEntry
  <2>3. \A b \in Spaces, h \in Pages : pagetable[b][h].frame = f => b = a /\ h = g
    BY <2>1, <2>2 DEF Entries
  <2>4. Users(f) = {<<a, g>>}
    BY <2>1, <2>3
  <2> QED
    BY <2>4, FS_Singleton
<1>2. ASSUME NEW f \in Frames, f \notin frame_table PROVE Cardinality(Users(f)) = 0
  <2>1. \A b \in Spaces, h \in Pages : pagetable[b][h].frame # f
    BY <1>2, EmptyEntry DEF Entries, EntryOf
  <2>2. Users(f) = {}
    BY <2>1
  <2> QED
    BY <2>2, FS_EmptySet
<1>3. \A a \in Spaces \ spaces, g \in Pages : pagetable[a][g] = PTE_EMPTY
  BY DEF Entries, EntryOf
<1> QED
  BY <1>1, <1>2, <1>3 DEF FramesOwned

LEMMA HeldApart == ASSUME Apart PROVE SpacesApart
<1> DEFINE Held(p) == {p_addrspace[p], other[p]} \ {NULL}
<1>1. ASSUME NEW p \in Procs, NEW q \in Procs, p # q PROVE Held(p) \cap Held(q) = {}
  BY <1>1 DEF Apart
<1>2. ASSUME NEW p \in Procs
      PROVE  Held(p) \subseteq spaces /\ (p_addrspace[p] # NULL => p_addrspace[p] # other[p])
  BY DEF Apart
<1> QED
  BY <1>1, <1>2 DEF SpacesApart

\* In any order of forks, execs, exits, faults and their failures on any number
\* of processors, an allocated frame has one page table entry that uses it, and
\* an address space one process: none is freed while in use.
THEOREM MemoryHasOneOwner == Spec => []OneOwner
<1>1. MemInv => OneOwner
  BY FramesHaveOneUser, HeldApart DEF MemInv, OneOwner
<1> QED
  BY <1>1, MemInvHolds, PTL

\* The flushes of as_activate and as_complete_load are enough: no program runs
\* on a stale TLB entry, wherever the scheduler has put it.
THEOREM TlbIsCoherent == Spec => []TlbCoherent
<1>1. ASSUME MemInv, NEW c \in CPUs, cpu[c] # Nobody, pc[cpu[c]] \in {"user", "load"}
      PROVE  TlbOf(c, p_addrspace[cpu[c]])
  <2>1. PICK p \in Procs : cpu[c] = p
    BY <1>1, Types DEF MemInv
  <2> QED
    BY <1>1, <2>1, Here DEF CpuTlb, PlaceOf
<1>2. MemInv => TlbCoherent
  BY <1>1 DEF TlbCoherent, TlbOf
<1> QED
  BY <1>2, MemInvHolds, PTL

\* To its programs, the virtual memory system is PrivateMemory: a store changes
\* the memory of one process, fork copies it at one moment, an exec that fails
\* leaves it, and nothing else ever changes it.
THEOREM MemoryRefines == Spec => ImplementsMemory
<1>1. Init => Private!Init
  BY DEF Init, Private!Init, Private!NoMemory, Memory
<1>2. MemInv /\ [Next]_vars => [Private!Next]_[p \in Procs |-> Memory(p)]
  BY NextStep DEF Memories
<1> QED
  BY <1>1, <1>2, MemInvHolds, PTL DEF Spec, ImplementsMemory, Private!Spec

=============================================================================
