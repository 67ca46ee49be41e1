-------------------------- MODULE FileTable_proofs --------------------------
(***************************************************************************)
(* Proofs about FileTable, for any processes, open files, table size and   *)
(* offsets: reference counts are exact, the offset of a transfer belongs   *)
(* to it, and no KASSERT but sys_getdirentry's fails.                      *)
(***************************************************************************)
EXTENDS FileTable, FiniteSetTheorems, TLAPS

\* What a thread at each place of a call has in hand.  The reference a loop of
\* filetable_destroy is dropping is still in the table.
HoldingOf(p) ==
  /\ job[p].at \in {"none", "born", "run", "copy", "clear"} => job[p].file = NULL
  /\ job[p].at \in {"none", "born", "run", "wait", "move"} => job[p].who = NULL
  /\ job[p].at \in {"drop", "destroy"} =>
       /\ job[p].file # NULL
       /\ job[p].who # NULL =>
            job[p].fd \in Fds /\ ft[job[p].who][job[p].fd] = job[p].file
  /\ job[p].at \in {"wait", "move"} =>
       job[p].file # NULL /\ job[p].fd \in Fds /\ ft[p][job[p].fd] = job[p].file
  /\ At(p, "wait") => seekable[job[p].file]
  /\ At(p, "destroy") => of_refcount[job[p].file] = 1
Holding == \A p \in Procs : HoldingOf(p)

\* The tables fork fills and exit empties: whose they are, and how far the
\* loop has come.
TableOf(p) ==
  /\ At(p, "none") => \A i \in Fds : ft[p][i] = NULL
  /\ At(p, "copy") => /\ job[p].who # NULL /\ At(job[p].who, "born")
                      /\ \A i \in Fds : i >= job[p].fd => ft[job[p].who][i] = NULL
  /\ At(p, "clear") => job[p].who # NULL
  /\ job[p].at \in {"clear", "drop", "destroy"} /\ job[p].who # NULL =>
       /\ job[p].who = p \/ At(job[p].who, "born")
       /\ \A i \in Fds : i < job[p].fd => ft[job[p].who][i] = NULL
Tables == \A p \in Procs : TableOf(p)

\* No table is in the hands of two loops.
OneKeeper == \A p, q \in Procs : p # q /\ job[p].who # NULL => job[p].who # job[q].who

\* An offset is locked only by a transfer on that file.
Locks == \A f \in Files :
           of_offsetlock[f] # NULL => /\ At(of_offsetlock[f], "move")
                                      /\ job[of_offsetlock[f]].file = f
                                      /\ seekable[f]

\* Inductive.
FileInv == /\ TypeOK /\ Holding /\ Tables /\ OneKeeper /\ Locks
           /\ CountsReferences /\ OffsetOwned /\ OnlyDirentryPanics

One(b) == IF b THEN 1 ELSE 0
Drops(j, g) == j.at \in {"drop", "destroy"} /\ j.file = g /\ j.who = NULL

-----------------------------------------------------------------------------
(* Counting references.                                                    *)

LEMMA FiniteReferences ==
  ASSUME NEW g
  PROVE  /\ IsFiniteSet(Entries(g)) /\ Cardinality(Entries(g)) \in Nat
         /\ IsFiniteSet(Droppers(g)) /\ Cardinality(Droppers(g)) \in Nat
<1>1. IsFiniteSet(Fds)
  BY LimitsAssumption, FS_Interval DEF Fds
<1>2. IsFiniteSet(Procs \X Fds)
  BY <1>1, FiniteAssumption, FS_Product
<1>3. Entries(g) \subseteq Procs \X Fds /\ Droppers(g) \subseteq Procs
  BY DEF Entries, Droppers
<1>4. IsFiniteSet(Entries(g)) /\ IsFiniteSet(Droppers(g))
  BY <1>2, <1>3, FiniteAssumption, FS_Subset
<1> QED
  BY <1>4, FS_CardinalityType

\* One table entry changes: the entries of each file go up or down by one.
LEMMA EntrySet ==
  ASSUME NEW p \in Procs, NEW i \in Fds,
         \A q \in Procs, k \in Fds : q # p \/ k # i => ft'[q][k] = ft[q][k],
         NEW g
  PROVE  /\ Cardinality(Entries(g)') \in Nat
         /\ Cardinality(Entries(g)') + One(ft[p][i] = g)
              = Cardinality(Entries(g)) + One(ft'[p][i] = g)
<1> DEFINE e == <<p, i>>
<1>1. \A x \in Procs \X Fds : x # e => ft'[x[1]][x[2]] = ft[x[1]][x[2]]
  OBVIOUS
<1>2. e \in Entries(g) <=> ft[p][i] = g
  BY DEF Entries
<1>3. Entries(g)' = IF ft'[p][i] = g THEN Entries(g) \cup {e} ELSE Entries(g) \ {e}
  <2>1. Entries(g)' = {x \in Procs \X Fds : ft'[x[1]][x[2]] = g}
    BY DEF Entries
  <2>2. e \in Procs \X Fds
    OBVIOUS
  <2> QED
    BY <1>1, <2>1, <2>2 DEF Entries
<1>4. /\ Cardinality(Entries(g) \cup {e}) =
           IF e \in Entries(g) THEN Cardinality(Entries(g)) ELSE Cardinality(Entries(g)) + 1
      /\ Cardinality(Entries(g) \ {e}) =
           IF e \in Entries(g) THEN Cardinality(Entries(g)) - 1 ELSE Cardinality(Entries(g))
      /\ IsFiniteSet(Entries(g) \cup {e}) /\ IsFiniteSet(Entries(g) \ {e})
  BY FiniteReferences, FS_AddElement, FS_RemoveElement
<1>5. Cardinality(Entries(g) \cup {e}) \in Nat /\ Cardinality(Entries(g) \ {e}) \in Nat
  BY <1>4, FS_CardinalityType
<1> QED
  BY <1>2, <1>3, <1>4, <1>5, FiniteReferences DEF One

\* One thread moves: the references in hand go up or down by one.
LEMMA DropperSet ==
  ASSUME NEW p \in Procs, \A q \in Procs \ {p} : job'[q] = job[q], NEW g
  PROVE  /\ Cardinality(Droppers(g)') \in Nat
         /\ Cardinality(Droppers(g)') + One(Drops(job[p], g))
              = Cardinality(Droppers(g)) + One(Drops(job'[p], g))
<1>1. p \in Droppers(g) <=> Drops(job[p], g)
  BY DEF Droppers, Drops
<1>2. Droppers(g)' = IF Drops(job'[p], g) THEN Droppers(g) \cup {p} ELSE Droppers(g) \ {p}
  <2>1. Droppers(g)' = {q \in Procs : Drops(job'[q], g)}
    BY DEF Droppers, Drops
  <2>2. Droppers(g) = {q \in Procs : Drops(job[q], g)}
    BY DEF Droppers, Drops
  <2> QED
    BY <2>1, <2>2
<1>3. /\ Cardinality(Droppers(g) \cup {p}) =
           IF p \in Droppers(g) THEN Cardinality(Droppers(g)) ELSE Cardinality(Droppers(g)) + 1
      /\ Cardinality(Droppers(g) \ {p}) =
           IF p \in Droppers(g) THEN Cardinality(Droppers(g)) - 1 ELSE Cardinality(Droppers(g))
      /\ IsFiniteSet(Droppers(g) \cup {p}) /\ IsFiniteSet(Droppers(g) \ {p})
  BY FiniteReferences, FS_AddElement, FS_RemoveElement
<1>4. Cardinality(Droppers(g) \cup {p}) \in Nat /\ Cardinality(Droppers(g) \ {p}) \in Nat
  BY <1>3, FS_CardinalityType
<1> QED
  BY <1>1, <1>2, <1>3, <1>4, FiniteReferences DEF One

LEMMA SameEntries == ASSUME ft' = ft, NEW g PROVE Entries(g)' = Entries(g)
BY DEF Entries

LEMMA SameDroppers ==
  ASSUME NEW g, \A q \in Procs : Drops(job'[q], g) <=> Drops(job[q], g)
  PROVE  Droppers(g)' = Droppers(g)
<1>1. Droppers(g)' = {q \in Procs : Drops(job'[q], g)} /\ Droppers(g) = {q \in Procs : Drops(job[q], g)}
  BY DEF Droppers, Drops
<1> QED
  BY <1>1

\* A file with no reference is in no table and in nobody's hands, and one with
\* a single reference is in one table or in one thread's hands.
LEMMA FewReferences ==
  ASSUME CountsReferences, NEW g \in Files
  PROVE  /\ of_refcount[g] \in Nat
         /\ of_refcount[g] = 0 => Entries(g) = {} /\ Droppers(g) = {}
         /\ of_refcount[g] = 1 => /\ \A d, e \in Entries(g) : d = e
                                  /\ \A p, q \in Droppers(g) : p = q
                                  /\ Entries(g) = {} \/ Droppers(g) = {}
<1>1. of_refcount[g] = Cardinality(Entries(g)) + Cardinality(Droppers(g))
  BY DEF CountsReferences
<1> DEFINE E == Entries(g)
           D == Droppers(g)
<1>2. IsFiniteSet(E) /\ Cardinality(E) \in Nat /\ IsFiniteSet(D) /\ Cardinality(D) \in Nat
  BY FiniteReferences
<1> HIDE DEF E, D
<1>3. (Cardinality(E) = 0 <=> E = {}) /\ (Cardinality(D) = 0 <=> D = {})
  BY <1>2, FS_EmptySet
<1>4. Cardinality(E) = 1 => \A d, e \in E : d = e
  BY <1>2, FS_Singleton
<1>5. Cardinality(D) = 1 => \A p, q \in D : p = q
  BY <1>2, FS_Singleton
<1>6. of_refcount[g] = Cardinality(E) + Cardinality(D)
  BY <1>1 DEF E, D
<1>7. of_refcount[g] = 0 => E = {} /\ D = {}
  BY <1>2, <1>3, <1>6
<1>8. of_refcount[g] = 1 => \/ Cardinality(E) = 1 /\ D = {}
                            \/ E = {} /\ Cardinality(D) = 1
  BY <1>2, <1>3, <1>6
<1> QED
  BY <1>2, <1>4, <1>5, <1>6, <1>7, <1>8 DEF E, D

LEMMA Types ==
  ASSUME TypeOK
  PROVE  /\ \A p \in Procs : /\ p # NULL
                             /\ job[p].at \in Places
                             /\ job[p].file \in Files \cup {NULL}
                             /\ job[p].fd \in 0..OPEN_MAX
                             /\ job[p].who \in Procs \cup {NULL}
                             /\ job[p].pos \in Offsets
                             /\ \A i \in Fds : ft[p][i] \in Files \cup {NULL}
         /\ \A f \in Files : f # NULL
BY ProcsAssumption DEF TypeOK, Job

\* After a step that changes one table entry and the job of one thread, the
\* counts still are exact if the one count that may change follows.
LEMMA Recount ==
  ASSUME CountsReferences, NEW p \in Procs, NEW t \in Procs, NEW i \in Fds,
         \A q \in Procs \ {p} : job'[q] = job[q],
         \A q \in Procs, k \in Fds : q # t \/ k # i => ft'[q][k] = ft[q][k],
         \A g \in Files :
           /\ of_refcount'[g] \in Nat
           /\ of_refcount'[g] + One(ft[t][i] = g) + One(Drops(job[p], g))
                = of_refcount[g] + One(ft'[t][i] = g) + One(Drops(job'[p], g))
  PROVE  CountsReferences'
<1> SUFFICES ASSUME NEW g \in Files
             PROVE  of_refcount'[g] = Cardinality(Entries(g)') + Cardinality(Droppers(g)')
  BY DEF CountsReferences
<1> DEFINE a == One(ft[t][i] = g)
           aa == One(ft'[t][i] = g)
           b == One(Drops(job[p], g))
           bb == One(Drops(job'[p], g))
<1>1. Cardinality(Entries(g)') \in Nat /\ Cardinality(Entries(g)') + a = Cardinality(Entries(g)) + aa
  BY EntrySet DEF One
<1>2. Cardinality(Droppers(g)') \in Nat /\ Cardinality(Droppers(g)') + b = Cardinality(Droppers(g)) + bb
  BY DropperSet DEF One
<1>3. of_refcount[g] = Cardinality(Entries(g)) + Cardinality(Droppers(g))
  BY DEF CountsReferences
<1>4. of_refcount'[g] \in Nat /\ of_refcount'[g] + a + b = of_refcount[g] + aa + bb
  OBVIOUS
<1>5. a \in Nat /\ aa \in Nat /\ b \in Nat /\ bb \in Nat
  BY DEF One
<1> HIDE DEF a, aa, b, bb
<1> QED
  BY <1>1, <1>2, <1>3, <1>4, <1>5, FiniteReferences

\* The same when no table changes.
LEMMA RecountJob ==
  ASSUME CountsReferences, NEW p \in Procs, ft' = ft,
         \A q \in Procs \ {p} : job'[q] = job[q],
         \A g \in Files :
           /\ of_refcount'[g] \in Nat
           /\ of_refcount'[g] + One(Drops(job[p], g)) = of_refcount[g] + One(Drops(job'[p], g))
  PROVE  CountsReferences'
<1> SUFFICES ASSUME NEW g \in Files
             PROVE  of_refcount'[g] = Cardinality(Entries(g)') + Cardinality(Droppers(g)')
  BY DEF CountsReferences
<1>1. Entries(g)' = Entries(g)
  BY SameEntries
<1>2. /\ Cardinality(Droppers(g)') \in Nat
      /\ Cardinality(Droppers(g)') + One(Drops(job[p], g))
           = Cardinality(Droppers(g)) + One(Drops(job'[p], g))
  BY DropperSet DEF One
<1>3. of_refcount[g] = Cardinality(Entries(g)) + Cardinality(Droppers(g))
  BY DEF CountsReferences
<1> QED
  BY <1>1, <1>2, <1>3, FiniteReferences DEF One

\* The same when neither a table nor a reference in hand changes.
LEMMA RecountNone ==
  ASSUME CountsReferences, of_refcount' = of_refcount, ft' = ft,
         \A q \in Procs : \A g \in Files : Drops(job'[q], g) <=> Drops(job[q], g)
  PROVE  CountsReferences'
<1> SUFFICES ASSUME NEW g \in Files
             PROVE  of_refcount'[g] = Cardinality(Entries(g)') + Cardinality(Droppers(g)')
  BY DEF CountsReferences
<1>1. Entries(g)' = Entries(g) /\ Droppers(g)' = Droppers(g)
  BY SameEntries, SameDroppers
<1> QED
  BY <1>1 DEF CountsReferences

-----------------------------------------------------------------------------
(* Who can refer to a file or a table.                                     *)

\* The table in which a thread's file is found.
Owner(p) == IF job[p].who = NULL THEN p ELSE job[p].who

\* A file in a thread's hands is a reference it counts or one in a table.
LEMMA InHand ==
  ASSUME FileInv, NEW p \in Procs, job[p].file # NULL
  PROVE  \/ Drops(job[p], job[p].file) /\ p \in Droppers(job[p].file)
         \/ /\ Owner(p) \in Procs /\ job[p].fd \in Fds
            /\ <<Owner(p), job[p].fd>> \in Entries(job[p].file)
<1>1. TypeOK /\ Holding
  BY DEF FileInv
<1>2. CASE job[p].at \in {"drop", "destroy"} /\ job[p].who = NULL
  BY <1>2 DEF Drops, Droppers
<1>3. CASE job[p].at \in {"drop", "destroy"} /\ job[p].who # NULL
  BY <1>1, <1>3, Types DEF Holding, HoldingOf, Owner, Entries
<1>4. CASE job[p].at \in {"wait", "move"}
  BY <1>1, <1>4, Types DEF Holding, HoldingOf, Owner, Entries
<1>5. job[p].at \in {"drop", "destroy", "wait", "move"}
  BY <1>1, Types DEF Holding, HoldingOf, Places
<1> QED
  BY <1>2, <1>3, <1>4, <1>5

\* Nobody else's loop is over the table of a process that has run.
LEMMA NotKept ==
  ASSUME FileInv, NEW p \in Procs, ~ At(p, "born"), NEW q \in Procs, q # p
  PROVE  job[q].who # p
<1>1. TypeOK /\ Holding /\ Tables
  BY DEF FileInv
<1> QED
  BY <1>1, Types DEF Holding, HoldingOf, Tables, TableOf, At, Places

\* A free openfile is in no table, in nobody's hands, and not locked.
LEMMA Unreferenced ==
  ASSUME FileInv, NEW f \in Files, of_refcount[f] = 0
  PROVE  /\ \A q \in Procs : job[q].file # f /\ \A i \in Fds : ft[q][i] # f
         /\ of_offsetlock[f] = NULL
<1>1. TypeOK /\ Holding /\ Locks /\ CountsReferences
  BY DEF FileInv
<1>2. Entries(f) = {} /\ Droppers(f) = {}
  BY <1>1, FewReferences
<1>3. \A q \in Procs : job[q].file # f
  BY <1>1, <1>2, InHand, Types
<1>4. \A q \in Procs, i \in Fds : <<q, i>> \notin Entries(f)
  BY <1>2
<1>5. \A q \in Procs, i \in Fds : ft[q][i] # f
  BY <1>4 DEF Entries
<1>6. of_offsetlock[f] = NULL
  BY <1>1, <1>3 DEF TypeOK, Locks
<1> QED
  BY <1>3, <1>5, <1>6

\* The last reference: whoever drops it is alone with the openfile.
LEMMA LastReference ==
  ASSUME FileInv, NEW p \in Procs, job[p].at \in {"drop", "destroy"},
         of_refcount[job[p].file] = 1
  PROVE  /\ \A q \in Procs \ {p} : job[q].file # job[p].file
         /\ \A q \in Procs, i \in Fds :
              ft[q][i] = job[p].file => job[p].who = q /\ i = job[p].fd
         /\ of_offsetlock[job[p].file] = NULL
<1> DEFINE f == job[p].file
<1>1. TypeOK /\ Holding /\ Tables /\ OneKeeper /\ Locks /\ CountsReferences
  BY DEF FileInv
<1>2. f \in Files /\ f # NULL
  BY <1>1, Types DEF Holding, HoldingOf
<1>3. /\ \A d, e \in Entries(f) : d = e
      /\ \A q, r \in Droppers(f) : q = r
      /\ Entries(f) = {} \/ Droppers(f) = {}
  BY <1>1, <1>2, FewReferences
<1>4. \A q \in Procs, i \in Fds : ft[q][i] = f => <<q, i>> \in Entries(f)
  BY DEF Entries
<1>5. CASE job[p].who = NULL
  <2>1. p \in Droppers(f)
    BY <1>5 DEF Droppers
  <2>2. Entries(f) = {}
    BY <1>3, <2>1
  <2>3. \A q \in Procs \ {p} : job[q].file # f
    BY <1>2, <1>3, <2>1, <2>2, InHand
  <2>4. of_offsetlock[f] = NULL
    BY <1>1, <1>2, <2>3 DEF TypeOK, Locks, At
  <2> QED
    BY <1>4, <2>2, <2>3, <2>4
<1>6. CASE job[p].who # NULL
  <2>1. job[p].who \in Procs /\ job[p].fd \in Fds /\ <<job[p].who, job[p].fd>> \in Entries(f)
    BY <1>1, <1>6, Types DEF Holding, HoldingOf, Entries
  <2>2. Droppers(f) = {}
    BY <1>3, <2>1
  <2>3. ASSUME NEW q \in Procs \ {p}, job[q].file = f PROVE FALSE
    <3>1. Owner(q) \in Procs /\ job[q].fd \in Fds /\ <<Owner(q), job[q].fd>> \in Entries(f)
      BY <1>2, <2>2, <2>3, InHand
    <3>2. Owner(q) = job[p].who
      BY <1>3, <2>1, <3>1
    <3>3. CASE job[q].who # NULL
      BY <1>1, <1>6, <3>2, <3>3 DEF Owner, OneKeeper
    <3>4. CASE job[q].who = NULL
      <4>1. ~ At(q, "born")
        BY <1>1, <1>2, <2>3 DEF Holding, HoldingOf, At
      <4> QED
        BY <1>6, <3>2, <3>4, <4>1, NotKept DEF Owner
    <3> QED
      BY <3>3, <3>4
  <2>4. of_offsetlock[f] = NULL
    BY <1>1, <1>2, <2>3 DEF TypeOK, Locks, At
  <2>5. \A q \in Procs, i \in Fds : ft[q][i] = f => <<q, i>> = <<job[p].who, job[p].fd>>
    BY <1>3, <1>4, <2>1
  <2> QED
    BY <2>3, <2>4, <2>5
<1> QED
  BY <1>5, <1>6

-----------------------------------------------------------------------------
(* Each action keeps FileInv.                                              *)

LEMMA InitFileInv == Init => FileInv
<1> SUFFICES ASSUME Init PROVE FileInv
  OBVIOUS
<1>1. TypeOK
  BY ProcsAssumption, LimitsAssumption
     DEF Init, TypeOK, Job, Idle, Places, Empty, Offsets
<1>2. Holding /\ Tables /\ OneKeeper /\ Locks /\ OffsetOwned /\ OnlyDirentryPanics
  BY DEF Init, Holding, HoldingOf, Tables, TableOf, OneKeeper, Locks, OffsetOwned, OnlyDirentryPanics,
         At, Idle, Empty
<1>3. CountsReferences
  <2> SUFFICES ASSUME NEW f \in Files PROVE of_refcount[f] = Cardinality(Entries(f)) + Cardinality(Droppers(f))
    BY DEF CountsReferences
  <2>1. Entries(f) = {} /\ Droppers(f) = {}
    BY ProcsAssumption DEF Init, Entries, Droppers, Empty, Idle
  <2> QED
    BY <2>1, FS_EmptySet DEF Init
<1> QED
  BY <1>1, <1>2, <1>3 DEF FileInv

LEMMA OpenFileInv == ASSUME FileInv, NEW p \in Procs, Open(p) PROVE FileInv'
<1>inv. /\ TypeOK /\ Holding /\ Tables /\ OneKeeper /\ Locks
        /\ CountsReferences /\ OffsetOwned /\ OnlyDirentryPanics
  BY DEF FileInv
<1>1. PICK f \in Files, s \in BOOLEAN :
        /\ At(p, "run") /\ panic' = panic
        /\ Created(f, s)
        /\ \/ \E fd \in Fds : /\ Lowest(p, fd)
                              /\ ft' = [ft EXCEPT ![p][fd] = f]
                              /\ UNCHANGED job
           \/ /\ job' = [job EXCEPT ![p] = [Idle("drop") EXCEPT !.file = f]]
              /\ UNCHANGED ft
  BY DEF Open, Do
<1>own. \A q \in Procs : job[q].who # p
  BY <1>inv, <1>1, NotKept, Types DEF Holding, HoldingOf, At
<1>2. /\ of_refcount[f] = 0 /\ of_offsetlock' = of_offsetlock
      /\ of_refcount' = [of_refcount EXCEPT ![f] = 1]
      /\ of_offset' = [of_offset EXCEPT ![f] = 0]
      /\ seekable' = [seekable EXCEPT ![f] = s]
  BY <1>1 DEF Created
<1>3. /\ of_offsetlock[f] = NULL
      /\ \A q \in Procs : job[q].file # f /\ \A i \in Fds : ft[q][i] # f
  BY <1>2, Unreferenced
<1>4. \A g \in Files : /\ of_refcount'[g] = IF g = f THEN 1 ELSE of_refcount[g]
                       /\ of_offset'[g] = IF g = f THEN 0 ELSE of_offset[g]
                       /\ seekable'[g] = IF g = f THEN s ELSE seekable[g]
                       /\ of_refcount[g] \in Nat
  BY <1>inv, <1>2 DEF TypeOK
<1>5. OnlyDirentryPanics'
  BY <1>inv, <1>1 DEF OnlyDirentryPanics
<1>6. ASSUME NEW fd \in Fds, Lowest(p, fd), job' = job, ft' = [ft EXCEPT ![p][fd] = f]
      PROVE  FileInv'
  <2>1. /\ \A q \in Procs \ {p} : ft'[q] = ft[q]
        /\ \A i \in Fds : ft'[p][i] = IF i = fd THEN f ELSE ft[p][i]
        /\ ft[p][fd] = NULL
    BY <1>inv, <1>6 DEF TypeOK, Lowest
  <2>2. TypeOK'
    BY <1>inv, <1>2, <1>6, LimitsAssumption DEF TypeOK, Offsets
  <2>3. Holding'
    BY <1>inv, <1>own, <1>1, <1>3, <1>4, <1>6, <2>1, Types DEF Holding, HoldingOf, At
  <2>4. Tables' /\ OneKeeper'
    BY <1>inv, <1>own, <1>1, <1>6, <2>1, Types DEF Tables, TableOf, OneKeeper, At
  <2>5. Locks' /\ OffsetOwned'
    BY <1>inv, <1>2, <1>3, <1>4, <1>6, Types DEF Locks, OffsetOwned, Holding, HoldingOf, At
  <2>6. CountsReferences'
    <3>1. ASSUME NEW g \in Files
          PROVE  /\ of_refcount'[g] \in Nat
                 /\ of_refcount'[g] + One(ft[p][fd] = g) + One(Drops(job[p], g))
                      = of_refcount[g] + One(ft'[p][fd] = g) + One(Drops(job'[p], g))
      BY <1>2, <1>4, <1>6, <2>1, ProcsAssumption DEF One
    <3> QED
      BY <1>inv, <1>6, <2>1, <3>1, Recount
  <2> QED
    BY <1>5, <2>2, <2>3, <2>4, <2>5, <2>6 DEF FileInv
<1>7. ASSUME job' = [job EXCEPT ![p] = [Idle("drop") EXCEPT !.file = f]], ft' = ft
      PROVE  FileInv'
  <2>1. /\ job'[p] = [at |-> "drop", file |-> f, fd |-> 0, who |-> NULL, pos |-> 0]
        /\ \A q \in Procs \ {p} : job'[q] = job[q]
    BY <1>inv, <1>7 DEF TypeOK, Idle
  <2>2. TypeOK'
    BY <1>inv, <1>2, <1>7, LimitsAssumption DEF TypeOK, Offsets, Job, Places, Idle
  <2>3. Holding'
    BY <1>inv, <1>own, <1>3, <1>4, <1>7, <2>1, Types DEF Holding, HoldingOf, At
  <2>4. Tables' /\ OneKeeper'
    BY <1>inv, <1>own, <1>1, <1>7, <2>1, Types DEF Tables, TableOf, OneKeeper, At
  <2>5. Locks'
    BY <1>inv, <1>1, <1>2, <1>3, <1>4, <2>1, Types DEF Locks, At, TypeOK
  <2>6. OffsetOwned'
    BY <1>inv, <1>2, <1>3, <1>4, <2>1, Types DEF OffsetOwned, Holding, HoldingOf, At
  <2>7. CountsReferences'
    <3>1. ASSUME NEW g \in Files
          PROVE  /\ of_refcount'[g] \in Nat
                 /\ of_refcount'[g] + One(Drops(job[p], g)) = of_refcount[g] + One(Drops(job'[p], g))
      BY <1>1, <1>2, <1>4, <2>1 DEF One, Drops, At
    <3> QED
      BY <1>inv, <1>7, <2>1, <3>1, RecountJob
  <2> QED
    BY <1>5, <2>2, <2>3, <2>4, <2>5, <2>6, <2>7 DEF FileInv
<1> QED
  BY <1>1, <1>6, <1>7

LEMMA CloseFileInv == ASSUME FileInv, NEW p \in Procs, Close(p) PROVE FileInv'
<1>inv. /\ TypeOK /\ Holding /\ Tables /\ OneKeeper /\ Locks
        /\ CountsReferences /\ OffsetOwned /\ OnlyDirentryPanics
  BY DEF FileInv
<1>1. PICK fd \in Fds :
        /\ At(p, "run") /\ ft[p][fd] # NULL
        /\ ft' = [ft EXCEPT ![p][fd] = NULL]
        /\ job' = [job EXCEPT ![p] = [Idle("drop") EXCEPT !.file = ft[p][fd]]]
        /\ UNCHANGED <<of_refcount, of_offset, of_offsetlock, seekable, panic>>
  BY DEF Close, Do, file
<1>own. \A q \in Procs : job[q].who # p
  BY <1>inv, <1>1, NotKept, Types DEF Holding, HoldingOf, At
<1> DEFINE f == ft[p][fd]
<1>2. /\ job'[p] = [at |-> "drop", file |-> f, fd |-> 0, who |-> NULL, pos |-> 0]
      /\ \A q \in Procs \ {p} : job'[q] = job[q] /\ ft'[q] = ft[q]
      /\ \A i \in Fds : ft'[p][i] = IF i = fd THEN NULL ELSE ft[p][i]
      /\ f \in Files /\ f # NULL
  BY <1>inv, <1>1 DEF TypeOK, Idle
<1>3. TypeOK'
  BY <1>inv, <1>1, LimitsAssumption DEF TypeOK, Job, Places, Idle, Offsets
<1>4. Holding'
  BY <1>inv, <1>own, <1>1, <1>2, Types DEF Holding, HoldingOf, At
<1>5. Tables' /\ OneKeeper'
  BY <1>inv, <1>own, <1>1, <1>2, Types DEF Tables, TableOf, OneKeeper, At
<1>6. Locks'
  BY <1>inv, <1>1, <1>2, Types DEF Locks, At, TypeOK
<1>7. OffsetOwned' /\ OnlyDirentryPanics'
  BY <1>inv, <1>1, <1>2 DEF OffsetOwned, OnlyDirentryPanics, At
<1>8. CountsReferences'
  <2>1. ASSUME NEW g \in Files
        PROVE  /\ of_refcount'[g] \in Nat
               /\ of_refcount'[g] + One(ft[p][fd] = g) + One(Drops(job[p], g))
                    = of_refcount[g] + One(ft'[p][fd] = g) + One(Drops(job'[p], g))
    <3>1. ~ Drops(job[p], g) /\ NULL # g /\ (Drops(job'[p], g) <=> f = g)
      BY <1>1, <1>2, ProcsAssumption DEF Drops, At
    <3> QED
      BY <1>inv, <1>1, <1>2, <3>1 DEF One, TypeOK
  <2> QED
    BY <1>inv, <1>2, <2>1, Recount
<1> QED
  BY <1>3, <1>4, <1>5, <1>6, <1>7, <1>8 DEF FileInv

LEMMA Dup2FileInv == ASSUME FileInv, NEW p \in Procs, Dup2(p) PROVE FileInv'
<1>inv. /\ TypeOK /\ Holding /\ Tables /\ OneKeeper /\ Locks
        /\ CountsReferences /\ OffsetOwned /\ OnlyDirentryPanics
  BY DEF FileInv
<1>1. PICK old \in Fds, new \in Fds :
        /\ At(p, "run") /\ old # new /\ ft[p][old] # NULL
        /\ of_refcount' = [of_refcount EXCEPT ![ft[p][old]] = @ + 1]
        /\ ft' = [ft EXCEPT ![p][new] = ft[p][old]]
        /\ job' = IF ft[p][new] = NULL THEN job
                  ELSE [job EXCEPT ![p] = [Idle("drop") EXCEPT !.file = ft[p][new]]]
        /\ UNCHANGED <<of_offset, of_offsetlock, seekable, panic>>
  BY DEF Dup2, Do, openfile_incref
<1>own. \A q \in Procs : job[q].who # p
  BY <1>inv, <1>1, NotKept, Types DEF Holding, HoldingOf, At
<1> DEFINE f == ft[p][old]
           d == ft[p][new]
<1>2. /\ job'[p] = IF d = NULL THEN job[p]
                   ELSE [at |-> "drop", file |-> d, fd |-> 0, who |-> NULL, pos |-> 0]
      /\ \A q \in Procs \ {p} : job'[q] = job[q] /\ ft'[q] = ft[q]
      /\ \A i \in Fds : ft'[p][i] = IF i = new THEN f ELSE ft[p][i]
      /\ f \in Files /\ f # NULL /\ d \in Files \cup {NULL}
      /\ \A g \in Files : /\ of_refcount[g] \in Nat
                          /\ of_refcount'[g] = IF g = f THEN of_refcount[g] + 1 ELSE of_refcount[g]
  BY <1>inv, <1>1 DEF TypeOK, Idle
<1>3. TypeOK'
  <2>1. /\ ft' \in [Procs -> [Fds -> Files \cup {NULL}]] /\ of_refcount' \in [Files -> Nat]
    BY <1>inv, <1>1 DEF TypeOK
  <2>2. job' \in [Procs -> Job]
    BY <1>inv, <1>1, <1>2, LimitsAssumption DEF TypeOK, Job, Places, Idle, Offsets
  <2> QED
    BY <1>inv, <1>1, <2>1, <2>2 DEF TypeOK
<1>4. \A q \in Procs : At(q, "destroy") => job[q].file # f
  BY <1>inv, <1>own, <1>1, LastReference DEF Holding, HoldingOf, At
<1>5. Holding'
  BY <1>inv, <1>own, <1>1, <1>2, <1>4, Types DEF Holding, HoldingOf, At
<1>6. Tables' /\ OneKeeper'
  BY <1>inv, <1>own, <1>1, <1>2, Types DEF Tables, TableOf, OneKeeper, At
<1>7. Locks'
  BY <1>inv, <1>1, <1>2, Types DEF Locks, At, TypeOK
<1>8. OffsetOwned' /\ OnlyDirentryPanics'
  BY <1>inv, <1>1, <1>2 DEF OffsetOwned, OnlyDirentryPanics, At
<1>9. CountsReferences'
  <2>1. ASSUME NEW g \in Files
        PROVE  /\ of_refcount'[g] \in Nat
               /\ of_refcount'[g] + One(ft[p][new] = g) + One(Drops(job[p], g))
                    = of_refcount[g] + One(ft'[p][new] = g) + One(Drops(job'[p], g))
    <3>1. ~ Drops(job[p], g) /\ NULL # g /\ (Drops(job'[p], g) <=> d = g)
      BY <1>1, <1>2, ProcsAssumption DEF Drops, At
    <3> QED
      BY <1>2, <3>1 DEF One
  <2> QED
    BY <1>inv, <1>2, <2>1, Recount
<1> QED
  BY <1>3, <1>5, <1>6, <1>7, <1>8, <1>9 DEF FileInv

\* A reference in hand, or the table entry of a filetable_destroy, goes away
\* with one count of its file, whose offset may be reset if it was the last.
LEMMA DropStep ==
  ASSUME FileInv, NEW p \in Procs, job[p].at \in {"drop", "destroy"}, Dropped(p),
         of_refcount[job[p].file] # 0,
         of_refcount' = [of_refcount EXCEPT ![job[p].file] = @ - 1],
         of_offset' \in [Files -> Offsets], seekable' \in [Files -> BOOLEAN],
         \A g \in Files : g # job[p].file \/ of_refcount[g] # 1
                         => of_offset'[g] = of_offset[g] /\ seekable'[g] = seekable[g],
         UNCHANGED <<of_offsetlock, panic>>
  PROVE  FileInv'
<1>inv. /\ TypeOK /\ Holding /\ Tables /\ OneKeeper /\ Locks
        /\ CountsReferences /\ OffsetOwned /\ OnlyDirentryPanics
  BY DEF FileInv
<1> DEFINE f == job[p].file
           t == job[p].who
<1>1. /\ f \in Files /\ f # NULL
      /\ \A g \in Files : /\ of_refcount[g] \in Nat
                          /\ of_refcount'[g] = IF g = f THEN of_refcount[g] - 1 ELSE of_refcount[g]
                          /\ of_refcount'[g] \in Nat
      /\ of_refcount' \in [Files -> Nat]
  <2>1. f \in Files /\ f # NULL
    BY <1>inv, Types DEF Holding, HoldingOf
  <2>2. of_refcount[f] \in Nat \ {0}
    BY <1>inv, <2>1 DEF TypeOK
  <2>3. of_refcount[f] - 1 \in Nat
    BY <2>2
  <2>4. \A g \in Files : of_refcount'[g] = IF g = f THEN of_refcount[g] - 1 ELSE of_refcount[g]
    BY <1>inv DEF TypeOK
  <2>5. of_refcount' \in [Files -> Nat]
    BY <1>inv, <2>3 DEF TypeOK
  <2> QED
    BY <1>inv, <2>1, <2>4, <2>5 DEF TypeOK
<1>2. \A q \in Procs \ {p} : /\ At(q, "destroy") => job[q].file # f
                             /\ of_refcount[f] = 1 => job[q].file # f
  BY <1>inv, <1>1, LastReference, Types DEF At, Holding, HoldingOf
<1>3. \A q \in Procs \ {p} : job'[q] = job[q]
  BY <1>inv DEF Dropped, Do, TypeOK
<1>4. OnlyDirentryPanics'
  BY <1>inv DEF OnlyDirentryPanics
<1>5. Locks'
  <2>1. ASSUME NEW g \in Files, of_offsetlock[g] # NULL
        PROVE  /\ of_offsetlock[g] \in Procs \ {p}
               /\ g # f \/ of_refcount[g] # 1
    BY <1>inv, <1>2, <2>1 DEF TypeOK, Locks, At
  <2> QED
    BY <1>inv, <1>3, <2>1 DEF Locks, At
<1>6. CASE t = NULL
  <2>1. ft' = ft /\ job' = [job EXCEPT ![p] = Idle("run")]
    BY <1>6 DEF Dropped, Do
  <2>2. job'[p] = [at |-> "run", file |-> NULL, fd |-> 0, who |-> NULL, pos |-> 0]
    BY <1>inv, <2>1 DEF TypeOK, Idle
  <2>3. TypeOK'
    BY <1>inv, <1>1, <2>1, LimitsAssumption DEF TypeOK, Job, Places, Idle, Offsets
  <2>4. Holding'
    BY <1>inv, <1>1, <1>2, <1>3, <2>1, <2>2, Types DEF Holding, HoldingOf, At
  <2>5. Tables' /\ OneKeeper'
    BY <1>inv, <1>3, <2>1, <2>2, Types DEF Tables, TableOf, OneKeeper, At
  <2>6. OffsetOwned'
    BY <1>inv, <1>2, <1>3, <2>2, Types DEF OffsetOwned, Holding, HoldingOf, At
  <2>7. CountsReferences'
    <3>1. ASSUME NEW g \in Files
          PROVE  /\ of_refcount'[g] \in Nat
                 /\ of_refcount'[g] + One(Drops(job[p], g)) = of_refcount[g] + One(Drops(job'[p], g))
      <4>1. (Drops(job[p], g) <=> g = f) /\ ~ Drops(job'[p], g)
        BY <1>6, <2>2 DEF Drops
      <4> QED
        BY <1>1, <4>1 DEF One
    <3> QED
      BY <1>inv, <1>3, <2>1, <3>1, RecountJob
  <2> QED
    BY <1>4, <1>5, <2>3, <2>4, <2>5, <2>6, <2>7 DEF FileInv
<1>7. CASE t # NULL
  <2>1. /\ t \in Procs /\ job[p].fd \in Fds /\ ft[t][job[p].fd] = f
        /\ job[p].fd + 1 \in 0..OPEN_MAX
        /\ t = p \/ At(t, "born")
        /\ ft' = [ft EXCEPT ![t][job[p].fd] = NULL]
        /\ job' = [job EXCEPT ![p] = [job[p] EXCEPT !.at = "clear", !.file = NULL, !.fd = @ + 1]]
    BY <1>inv, <1>7, LimitsAssumption, Types DEF Dropped, Do, Holding, HoldingOf, Tables, TableOf, Fds
  <2>2. /\ job'[p] = [at |-> "clear", file |-> NULL, fd |-> job[p].fd + 1,
                     who |-> t, pos |-> job[p].pos]
        /\ \A q \in Procs \ {t} : ft'[q] = ft[q]
        /\ \A i \in Fds : ft'[t][i] = IF i = job[p].fd THEN NULL ELSE ft[t][i]
    BY <1>inv, <2>1 DEF TypeOK, Job
  <2>3. TypeOK'
    <3>1. ft' \in [Procs -> [Fds -> Files \cup {NULL}]]
      BY <1>inv, <2>1 DEF TypeOK
    <3>2. job'[p] \in Job
      <4>1. job[p].pos \in Offsets
        BY <1>inv, Types
      <4>2. t \in Procs /\ job[p].fd + 1 \in 0..OPEN_MAX
        BY <2>1
      <4>3. "clear" \in Places
        BY DEF Places
      <4>4. [at |-> "clear", file |-> NULL, fd |-> job[p].fd + 1, who |-> t, pos |-> job[p].pos] \in Job
        BY <4>1, <4>2, <4>3 DEF Job
      <4> QED
        BY <2>2, <4>4
    <3>3. job' \in [Procs -> Job]
      BY <1>inv, <2>1, <3>2 DEF TypeOK
    <3> QED
      BY <1>inv, <1>1, <3>1, <3>3 DEF TypeOK
  <2>4. /\ \A q \in Procs \ {p} : job[q].who # t
        /\ \A q \in Procs \ {p} : q # t \/ At(q, "born")
    BY <1>inv, <1>7, <2>1 DEF OneKeeper
  <2>5. Holding'
    BY <1>inv, <1>1, <1>2, <1>3, <2>1, <2>2, <2>4, Types DEF Holding, HoldingOf, At
  <2>6. Tables'
    <3>1. \A i \in Fds : i < job[p].fd + 1 => i < job[p].fd \/ i = job[p].fd
      BY <2>1 DEF Fds
    <3> QED
      BY <1>inv, <1>3, <1>7, <2>1, <2>2, <2>4, <3>1, Types DEF Tables, TableOf, At
  <2>7. OneKeeper'
    BY <1>inv, <1>3, <2>2 DEF OneKeeper
  <2>8. OffsetOwned'
    BY <1>inv, <1>2, <1>3, <2>2, Types DEF OffsetOwned, Holding, HoldingOf, At
  <2>9. CountsReferences'
    <3>1. ASSUME NEW g \in Files
          PROVE  /\ of_refcount'[g] \in Nat
                 /\ of_refcount'[g] + One(ft[t][job[p].fd] = g) + One(Drops(job[p], g))
                      = of_refcount[g] + One(ft'[t][job[p].fd] = g) + One(Drops(job'[p], g))
      <4>1. ~ Drops(job[p], g) /\ ~ Drops(job'[p], g) /\ NULL # g
        BY <1>7, <2>2, ProcsAssumption DEF Drops
      <4>2. ft[t][job[p].fd] = f /\ ft'[t][job[p].fd] = NULL
        BY <2>1, <2>2
      <4> QED
        BY <1>1, <4>1, <4>2 DEF One
    <3>2. \A q \in Procs, k \in Fds : q # t \/ k # job[p].fd => ft'[q][k] = ft[q][k]
      BY <2>2
    <3>3. t \in Procs /\ job[p].fd \in Fds
      BY <2>1
    <3> QED
      BY <1>inv, <1>3, <3>1, <3>2, <3>3, Recount
  <2> QED
    BY <1>4, <1>5, <2>3, <2>5, <2>6, <2>7, <2>8, <2>9 DEF FileInv
<1> QED
  BY <1>6, <1>7

LEMMA DecrefFileInv == ASSUME FileInv, NEW p \in Procs, Decref(p) PROVE FileInv'
<1>inv. /\ TypeOK /\ Holding /\ Tables /\ OneKeeper /\ Locks
        /\ CountsReferences /\ OffsetOwned /\ OnlyDirentryPanics
  BY DEF FileInv
<1> DEFINE f == job[p].file
<1>1. /\ At(p, "drop")
      /\ IF of_refcount[f] = 1
         THEN job' = [job EXCEPT ![p] = [job[p] EXCEPT !.at = "destroy"]] /\ UNCHANGED <<ft, of_refcount>>
         ELSE of_refcount' = [of_refcount EXCEPT ![f] = @ - 1] /\ Dropped(p)
      /\ panic' = IF of_refcount[f] > 0 THEN panic ELSE "openfile.c:145"
      /\ UNCHANGED <<of_offset, of_offsetlock, seekable>>
  BY DEF Decref, Do
<1>2. f \in Files /\ of_refcount[f] \in Nat /\ of_refcount[f] # 0
  BY <1>inv, <1>1, Unreferenced, Types DEF Holding, HoldingOf, At, TypeOK
<1>3. panic' = panic
  BY <1>1, <1>2
<1>4. CASE of_refcount[f] # 1
  BY <1>inv, <1>1, <1>2, <1>3, <1>4, DropStep DEF At, TypeOK
<1>5. CASE of_refcount[f] = 1
  <2>1. /\ job'[p] = [at |-> "destroy", file |-> f, fd |-> job[p].fd,
                     who |-> job[p].who, pos |-> job[p].pos]
        /\ \A q \in Procs \ {p} : job'[q] = job[q]
    BY <1>inv, <1>1, <1>5 DEF TypeOK, Job
  <2>2. TypeOK'
    <3>1. job'[p] \in Job
      BY <1>inv, <2>1, Types DEF Job, Places
    <3> QED
      BY <1>inv, <1>1, <1>5, <3>1 DEF TypeOK
  <2>3. Holding'
    BY <1>inv, <1>1, <1>5, <2>1 DEF Holding, HoldingOf, At
  <2>4. Tables' /\ OneKeeper'
    BY <1>inv, <1>1, <1>5, <2>1, Types DEF Tables, TableOf, OneKeeper, At
  <2>5. Locks'
    BY <1>inv, <1>1, <1>5, <2>1 DEF Locks, At, TypeOK
  <2>6. OffsetOwned' /\ OnlyDirentryPanics'
    BY <1>inv, <1>1, <1>3, <1>5, <2>1 DEF OffsetOwned, OnlyDirentryPanics, At
  <2>7. CountsReferences'
    BY <1>inv, <1>1, <1>5, <2>1, RecountNone DEF Drops, At
  <2> QED
    BY <2>2, <2>3, <2>4, <2>5, <2>6, <2>7 DEF FileInv
<1> QED
  BY <1>4, <1>5

LEMMA DestroyFileInv == ASSUME FileInv, NEW p \in Procs, Destroy(p) PROVE FileInv'
<1>inv. /\ TypeOK /\ Holding /\ Tables /\ OneKeeper /\ Locks
        /\ CountsReferences /\ OffsetOwned /\ OnlyDirentryPanics
  BY DEF FileInv
<1> DEFINE f == job[p].file
<1>1. /\ At(p, "destroy") /\ Dropped(p)
      /\ of_refcount' = [of_refcount EXCEPT ![f] = 0]
      /\ of_offset' = [of_offset EXCEPT ![f] = 0]
      /\ seekable' = [seekable EXCEPT ![f] = FALSE]
      /\ panic' = IF of_offsetlock[f] = NULL THEN panic ELSE "synch.c:176"
      /\ UNCHANGED of_offsetlock
  BY DEF Destroy
<1>2. of_refcount[f] = 1 /\ of_offsetlock[f] = NULL
  BY <1>inv, <1>1, LastReference DEF Holding, HoldingOf, At
<1>3. of_refcount' = [of_refcount EXCEPT ![f] = @ - 1] /\ panic' = panic
  BY <1>1, <1>2
<1>4. of_offset' \in [Files -> Offsets] /\ seekable' \in [Files -> BOOLEAN]
  <2>1. 0 \in Offsets
    BY LimitsAssumption DEF Offsets
  <2> QED
    BY <1>inv, <1>1, <2>1 DEF TypeOK
<1>5. \A g \in Files : g # f \/ of_refcount[g] # 1
                       => of_offset'[g] = of_offset[g] /\ seekable'[g] = seekable[g]
  BY <1>inv, <1>1, <1>2 DEF TypeOK
<1>6. /\ job[p].at \in {"drop", "destroy"} /\ Dropped(p)
      /\ of_refcount[f] # 0 /\ UNCHANGED <<of_offsetlock, panic>>
  BY <1>1, <1>2, <1>3 DEF At
<1> QED
  BY <1>3, <1>4, <1>5, <1>6, DropStep

\* Steps that change jobs but no table, no count and no file: what is left of
\* the invariant to show is about the jobs that changed.
LEMMA ForkFileInv == ASSUME FileInv, NEW p \in Procs, Fork(p) PROVE FileInv'
<1>inv. /\ TypeOK /\ Holding /\ Tables /\ OneKeeper /\ Locks
        /\ CountsReferences /\ OffsetOwned /\ OnlyDirentryPanics
  BY DEF FileInv
<1>1. PICK c \in Procs :
        /\ At(p, "run") /\ At(c, "none")
        /\ job' = [job EXCEPT ![p] = [Idle("copy") EXCEPT !.who = c], ![c] = Idle("born")]
        /\ UNCHANGED <<ft, of_refcount, of_offset, of_offsetlock, seekable, panic>>
  BY DEF Fork, file
<1>own. \A q \in Procs : job[q].who # p
  BY <1>inv, <1>1, NotKept, Types DEF Holding, HoldingOf, At
<1>2. /\ p # c /\ job[c].who = NULL /\ job[p].who = NULL
      /\ \A q \in Procs : job[q].who # c
  BY <1>inv, <1>1, NotKept, Types DEF Holding, HoldingOf, At
<1>3. /\ job'[p] = [at |-> "copy", file |-> NULL, fd |-> 0, who |-> c, pos |-> 0]
      /\ job'[c] = [at |-> "born", file |-> NULL, fd |-> 0, who |-> NULL, pos |-> 0]
      /\ \A q \in Procs : q # p /\ q # c => job'[q] = job[q]
  BY <1>inv, <1>1, <1>2 DEF TypeOK, Idle
<1>j. /\ job'[p].at = "copy" /\ job'[p].file = NULL /\ job'[p].fd = 0 /\ job'[p].who = c
      /\ job'[c].at = "born" /\ job'[c].file = NULL /\ job'[c].who = NULL
      /\ \A q \in Procs : q # p /\ q # c => job'[q] = job[q]
  BY <1>3
<1>4. TypeOK'
  <2>1. job'[p] \in Job /\ job'[c] \in Job
    BY <1>3, LimitsAssumption DEF Job, Places, Offsets
  <2> QED
    BY <1>inv, <1>1, <1>2, <1>3, <2>1 DEF TypeOK
<1>5. Holding'
  BY <1>inv, <1>1, <1>j DEF Holding, HoldingOf, At
<1>6. Tables'
  <2>1. TableOf(p)'
    BY <1>inv, <1>1, <1>2, <1>j, Types DEF Tables, TableOf, At
  <2>2. TableOf(c)'
    BY <1>j DEF TableOf, At
  <2>3. ASSUME NEW q \in Procs \ {p, c} PROVE TableOf(q)'
    <3>1. /\ TableOf(q) /\ ft' = ft /\ job'[q] = job[q]
          /\ job[q].who # NULL => job[q].who \in Procs /\ job'[job[q].who] = job[job[q].who]
      BY <1>inv, <1>own, <1>1, <1>2, <1>j, Types DEF Tables
    <3> QED
      BY <3>1 DEF TableOf, At
  <2> QED
    BY <2>1, <2>2, <2>3 DEF Tables
<1>7. OneKeeper'
  BY <1>inv, <1>2, <1>j, Types DEF OneKeeper
<1>8. Locks'
  BY <1>inv, <1>1, <1>j DEF Locks, At, TypeOK
<1>9. OffsetOwned' /\ OnlyDirentryPanics'
  BY <1>inv, <1>1, <1>j DEF OffsetOwned, OnlyDirentryPanics, At
<1>10. CountsReferences'
  <2>1. \A q \in Procs : \A g \in Files : Drops(job'[q], g) <=> Drops(job[q], g)
    BY <1>1, <1>j DEF Drops, At
  <2> QED
    BY <1>inv, <1>1, <2>1, RecountNone
<1> QED
  BY <1>4, <1>5, <1>6, <1>7, <1>8, <1>9, <1>10 DEF FileInv

LEMMA CopyOneFileInv == ASSUME FileInv, NEW p \in Procs, CopyOne(p) PROVE FileInv'
<1>inv. /\ TypeOK /\ Holding /\ Tables /\ OneKeeper /\ Locks
        /\ CountsReferences /\ OffsetOwned /\ OnlyDirentryPanics
  BY DEF FileInv
<1> DEFINE c == job[p].who
           fd == job[p].fd
           f == ft[p][fd]
<1>1. /\ At(p, "copy") /\ fd # OPEN_MAX
      /\ IF f = NULL THEN UNCHANGED of_refcount
                     ELSE of_refcount' = [of_refcount EXCEPT ![f] = @ + 1]
      /\ ft' = [ft EXCEPT ![c][fd] = f]
      /\ job' = [job EXCEPT ![p] = [job[p] EXCEPT !.fd = @ + 1]]
      /\ UNCHANGED <<of_offset, of_offsetlock, seekable, panic>>
  BY DEF CopyOne, Do, openfile_incref
<1>2. /\ c \in Procs /\ fd \in Fds /\ fd + 1 \in 0..OPEN_MAX /\ fd \in Nat
      /\ At(c, "born") /\ c # p
      /\ \A i \in Fds : i >= fd => ft[c][i] = NULL
  BY <1>inv, <1>1, LimitsAssumption, Types DEF Tables, TableOf, At, Fds
<1>3. ft[c][fd] = NULL /\ f \in Files \cup {NULL}
  BY <1>inv, <1>2, Types
<1>4. /\ job'[p] = [at |-> "copy", file |-> job[p].file, fd |-> fd + 1,
                    who |-> c, pos |-> job[p].pos]
      /\ \A q \in Procs \ {p} : job'[q] = job[q]
      /\ \A q \in Procs \ {c} : ft'[q] = ft[q]
      /\ \A i \in Fds : ft'[c][i] = IF i = fd THEN f ELSE ft[c][i]
  <2>1. job[p].at = "copy" /\ job[p] \in Job
    BY <1>inv, <1>1 DEF At, TypeOK
  <2> QED
    BY <1>inv, <1>1, <1>2, <2>1 DEF TypeOK, Job
<1>5. \A g \in Files : /\ of_refcount[g] \in Nat
                       /\ of_refcount'[g] = IF g = f THEN of_refcount[g] + 1 ELSE of_refcount[g]
  BY <1>inv, <1>1, <1>3, Types DEF TypeOK
<1>6. TypeOK'
  <2>1. job[p].pos \in Offsets /\ job[p].file \in Files \cup {NULL} /\ "copy" \in Places
    BY <1>inv, Types DEF Places
  <2>2. [at |-> "copy", file |-> job[p].file, fd |-> fd + 1, who |-> c, pos |-> job[p].pos] \in Job
    BY <1>2, <2>1 DEF Job
  <2>3. job' \in [Procs -> Job]
    BY <1>inv, <1>1, <1>4, <2>2 DEF TypeOK
  <2>4. ft' \in [Procs -> [Fds -> Files \cup {NULL}]]
    BY <1>inv, <1>1, <1>2, <1>3 DEF TypeOK
  <2>5. of_refcount' \in [Files -> Nat]
    BY <1>inv, <1>1, <1>3 DEF TypeOK
  <2> QED
    BY <1>inv, <1>1, <2>3, <2>4, <2>5 DEF TypeOK
<1>7. /\ \A q \in Procs \ {p} : job[q].who # c
      /\ \A q \in Procs : q # c \/ At(q, "born")
  BY <1>inv, <1>2, Types DEF OneKeeper
<1>8. \A q \in Procs : At(q, "destroy") => job[q].file # f
  <2> SUFFICES ASSUME NEW q \in Procs, At(q, "destroy") PROVE job[q].file # f
    OBVIOUS
  <2>1. q # p /\ job[q].who # p
    BY <1>1, NotKept DEF At
  <2> QED
    BY <1>inv, <1>2, <2>1, LastReference DEF Holding, HoldingOf, At
<1>9. Holding'
  BY <1>inv, <1>1, <1>2, <1>4, <1>5, <1>7, <1>8, Types DEF Holding, HoldingOf, At
<1>10. Tables'
  <2>1. \A i \in Fds : i >= fd + 1 => i >= fd /\ i # fd
    BY <1>2 DEF Fds
  <2> QED
    BY <1>inv, <1>1, <1>2, <1>4, <1>7, <2>1, Types DEF Tables, TableOf, At
<1>11. OneKeeper'
  BY <1>inv, <1>4 DEF OneKeeper
<1>12. Locks'
  <2>1. ASSUME NEW g \in Files, of_offsetlock[g] # NULL PROVE of_offsetlock[g] \in Procs \ {p}
    BY <1>inv, <1>1, <2>1 DEF Locks, At, TypeOK
  <2> QED
    BY <1>inv, <1>1, <1>4, <2>1 DEF Locks, At
<1>13. OffsetOwned' /\ OnlyDirentryPanics'
  BY <1>inv, <1>1, <1>4 DEF OffsetOwned, OnlyDirentryPanics, At
<1>14. CountsReferences'
  <2>1. ASSUME NEW g \in Files
        PROVE  /\ of_refcount'[g] \in Nat
               /\ of_refcount'[g] + One(ft[c][fd] = g) + One(Drops(job[p], g))
                    = of_refcount[g] + One(ft'[c][fd] = g) + One(Drops(job'[p], g))
    <3>1. ~ Drops(job[p], g) /\ ~ Drops(job'[p], g) /\ NULL # g
      BY <1>1, <1>4, ProcsAssumption DEF Drops, At
    <3>2. ft[c][fd] = NULL /\ ft'[c][fd] = f
      BY <1>2, <1>3, <1>4
    <3> QED
      BY <1>5, <3>1, <3>2 DEF One
  <2>2. \A q \in Procs, k \in Fds : q # c \/ k # fd => ft'[q][k] = ft[q][k]
    BY <1>4
  <2> QED
    BY <1>inv, <1>2, <1>4, <2>1, <2>2, Recount
<1> QED
  BY <1>6, <1>9, <1>10, <1>11, <1>12, <1>13, <1>14 DEF FileInv

LEMMA ForkedFileInv == ASSUME FileInv, NEW p \in Procs, Forked(p) PROVE FileInv'
<1>inv. /\ TypeOK /\ Holding /\ Tables /\ OneKeeper /\ Locks
        /\ CountsReferences /\ OffsetOwned /\ OnlyDirentryPanics
  BY DEF FileInv
<1>1. PICK c \in Procs \cup {NULL} :
        /\ c = job[p].who
        /\ At(p, "copy")
        /\ job' = [job EXCEPT ![p] = Idle("run"), ![c] = Idle("run")]
        /\ UNCHANGED <<ft, of_refcount, of_offset, of_offsetlock, seekable, panic>>
  BY <1>inv, Types DEF Forked, file
<1>2. /\ c \in Procs /\ At(c, "born") /\ c # p
      /\ \A q \in Procs \ {p} : job[q].who # c
  BY <1>inv, <1>1, Types DEF Tables, TableOf, At, OneKeeper
<1>3. /\ job'[p] = [at |-> "run", file |-> NULL, fd |-> 0, who |-> NULL, pos |-> 0]
      /\ job'[c] = [at |-> "run", file |-> NULL, fd |-> 0, who |-> NULL, pos |-> 0]
      /\ \A q \in Procs : q # p /\ q # c => job'[q] = job[q]
  BY <1>inv, <1>1, <1>2 DEF TypeOK, Idle
<1>j. /\ job'[p].at = "run" /\ job'[p].file = NULL /\ job'[p].fd = 0 /\ job'[p].who = NULL
      /\ job'[c].at = "run" /\ job'[c].file = NULL /\ job'[c].who = NULL
      /\ \A q \in Procs : q # p /\ q # c => job'[q] = job[q]
  BY <1>3
<1>4. TypeOK'
  <2>1. job'[p] \in Job /\ job'[c] \in Job
    BY <1>3, LimitsAssumption DEF Job, Places, Offsets
  <2> QED
    BY <1>inv, <1>1, <1>2, <1>3, <2>1 DEF TypeOK
<1>5. Holding'
  BY <1>inv, <1>1, <1>j DEF Holding, HoldingOf, At
<1>6. \A q \in Procs \ {p} : job[q].who # p
  BY <1>1, NotKept DEF At
<1>7. Tables'
  <2>1. TableOf(p)' /\ TableOf(c)'
    BY <1>j DEF TableOf, At
  <2>2. ASSUME NEW q \in Procs \ {p, c} PROVE TableOf(q)'
    <3>1. /\ TableOf(q) /\ ft' = ft /\ job'[q] = job[q]
          /\ job[q].who # NULL => job[q].who \in Procs /\ job'[job[q].who] = job[job[q].who]
      BY <1>inv, <1>1, <1>2, <1>j, <1>6, Types DEF Tables
    <3> QED
      BY <3>1 DEF TableOf, At
  <2> QED
    BY <2>1, <2>2 DEF Tables
<1>8. OneKeeper'
  BY <1>inv, <1>2, <1>j, Types DEF OneKeeper
<1>9. Locks'
  BY <1>inv, <1>1, <1>2, <1>j DEF Locks, At, TypeOK
<1>10. OffsetOwned' /\ OnlyDirentryPanics'
  BY <1>inv, <1>1, <1>j DEF OffsetOwned, OnlyDirentryPanics, At
<1>11. CountsReferences'
  <2>1. \A q \in Procs : \A g \in Files : Drops(job'[q], g) <=> Drops(job[q], g)
    BY <1>1, <1>2, <1>j DEF Drops, At
  <2> QED
    BY <1>inv, <1>1, <2>1, RecountNone
<1> QED
  BY <1>4, <1>5, <1>7, <1>8, <1>9, <1>10, <1>11 DEF FileInv

\* A step of one thread that changes neither tables nor counts.
LEMMA OwnStep ==
  ASSUME FileInv, NEW p \in Procs, ~ At(p, "born"), job' \in [Procs -> Job],
         \A q \in Procs \ {p} : job'[q] = job[q],
         UNCHANGED <<ft, of_refcount, seekable>>,
         HoldingOf(p)', TableOf(p)', ~ At(p, "destroy"), ~ At(p, "destroy")',
         job'[p].who \in {job[p].who, p, NULL}, job'[p].at # "born",
         \A g \in Files : ~ Drops(job[p], g) /\ ~ Drops(job'[p], g)
  PROVE  Holding' /\ Tables' /\ OneKeeper' /\ CountsReferences'
<1>inv. /\ TypeOK /\ Holding /\ Tables /\ OneKeeper /\ Locks
        /\ CountsReferences /\ OffsetOwned /\ OnlyDirentryPanics
  BY DEF FileInv
<1>1. \A q \in Procs \ {p} : job[q].who # p
  BY NotKept
<1>2. Holding'
  BY <1>inv DEF Holding, HoldingOf, At
<1>3. Tables'
  <2>1. ASSUME NEW q \in Procs \ {p} PROVE TableOf(q)'
    <3>1. /\ TableOf(q) /\ ft' = ft /\ job'[q] = job[q]
          /\ job[q].who # NULL => job[q].who \in Procs /\ job'[job[q].who] = job[job[q].who]
      BY <1>inv, <1>1, Types DEF Tables
    <3> QED
      BY <3>1 DEF TableOf, At
  <2> QED
    BY <2>1 DEF Tables
<1>4. OneKeeper'
  BY <1>inv, <1>1, Types DEF OneKeeper
<1>5. CountsReferences'
  <2>1. \A q \in Procs : \A g \in Files : Drops(job'[q], g) <=> Drops(job[q], g)
    OBVIOUS
  <2> QED
    BY <1>inv, <2>1, RecountNone
<1> QED
  BY <1>2, <1>3, <1>4, <1>5

LEMMA UnforkExitFileInv ==
  ASSUME FileInv, NEW p \in Procs, Unfork(p) \/ Exit(p) PROVE FileInv'
<1>inv. /\ TypeOK /\ Holding /\ Tables /\ OneKeeper /\ Locks
        /\ CountsReferences /\ OffsetOwned /\ OnlyDirentryPanics
  BY DEF FileInv
<1>1. PICK c \in Procs :
        /\ c = p \/ At(c, "born")
        /\ \/ At(p, "run") /\ c = p
           \/ At(p, "copy") /\ c = job[p].who
        /\ job' = [job EXCEPT ![p] = [Idle("clear") EXCEPT !.who = c]]
        /\ UNCHANGED <<ft, of_refcount, of_offset, of_offsetlock, seekable, panic>>
  <2>1. CASE Exit(p)
    BY <2>1 DEF Exit, Do, file
  <2>2. CASE Unfork(p)
    <3>1. At(p, "copy") /\ job[p].who \in Procs /\ At(job[p].who, "born")
      BY <1>inv, <2>2, Types DEF Unfork, Tables, TableOf
    <3> QED
      BY <2>2, <3>1 DEF Unfork, Do, file
  <2> QED
    BY <2>1, <2>2
<1>2. /\ job'[p] = [at |-> "clear", file |-> NULL, fd |-> 0, who |-> c, pos |-> 0]
      /\ \A q \in Procs \ {p} : job'[q] = job[q]
  BY <1>inv, <1>1 DEF TypeOK, Idle
<1>j. /\ job'[p].at = "clear" /\ job'[p].file = NULL /\ job'[p].fd = 0 /\ job'[p].who = c
      /\ \A q \in Procs \ {p} : job'[q] = job[q]
      /\ c # NULL
  BY <1>2, ProcsAssumption
<1>3. job' \in [Procs -> Job]
  <2>1. job'[p] \in Job
    BY <1>2, LimitsAssumption DEF Job, Places, Offsets
  <2> QED
    BY <1>inv, <1>1, <2>1 DEF TypeOK
<1>4. HoldingOf(p)'
  BY <1>j DEF HoldingOf, At
<1>5. TableOf(p)'
  <2>1. \A i \in Fds : ~ (i < 0)
    BY DEF Fds
  <2>2. c = p \/ job'[c].at = "born"
    BY <1>1, <1>j DEF At
  <2> QED
    BY <1>j, <2>1, <2>2 DEF TableOf, At
<1>6. Holding' /\ Tables' /\ OneKeeper' /\ CountsReferences'
  <2>1. /\ ~ At(p, "born") /\ ~ At(p, "destroy") /\ ~ At(p, "destroy")'
        /\ \A g \in Files : ~ Drops(job[p], g) /\ ~ Drops(job'[p], g)
    BY <1>1, <1>j DEF At, Drops
  <2>2. job'[p].who \in {job[p].who, p, NULL} /\ job'[p].at # "born"
    BY <1>1, <1>j
  <2> QED
    BY <1>1, <1>j, <1>3, <1>4, <1>5, <2>1, <2>2, OwnStep
<1>7. TypeOK' /\ OnlyDirentryPanics'
  BY <1>inv, <1>1, <1>3 DEF TypeOK, OnlyDirentryPanics
<1>8. Locks' /\ OffsetOwned'
  BY <1>inv, <1>1, <1>j DEF Locks, OffsetOwned, At, TypeOK
<1> QED
  BY <1>6, <1>7, <1>8 DEF FileInv

LEMMA ClearOneFileInv == ASSUME FileInv, NEW p \in Procs, ClearOne(p) PROVE FileInv'
<1>inv. /\ TypeOK /\ Holding /\ Tables /\ OneKeeper /\ Locks
        /\ CountsReferences /\ OffsetOwned /\ OnlyDirentryPanics
  BY DEF FileInv
<1>1. PICK c \in Procs, fd \in Fds, f \in Files \cup {NULL} :
        /\ At(p, "clear") /\ c = job[p].who /\ fd = job[p].fd /\ f = ft[c][fd]
        /\ fd + 1 \in 0..OPEN_MAX /\ job[p].file = NULL
        /\ job' = [job EXCEPT ![p] = IF f = NULL THEN [job[p] EXCEPT !.fd = @ + 1]
                                     ELSE [job[p] EXCEPT !.at = "drop", !.file = f]]
        /\ UNCHANGED <<ft, of_refcount, of_offset, of_offsetlock, seekable, panic>>
  <2>1. /\ At(p, "clear") /\ job[p].who \in Procs /\ job[p].file = NULL
        /\ job[p].fd \in Fds /\ job[p].fd + 1 \in 0..OPEN_MAX
    BY <1>inv, LimitsAssumption, Types DEF ClearOne, Tables, TableOf, Holding, HoldingOf, At, Fds
  <2>2. ft[job[p].who][job[p].fd] \in Files \cup {NULL}
    BY <1>inv, <2>1, Types
  <2> QED
    BY <2>1, <2>2 DEF ClearOne, Do, file
<1>2. /\ job'[p] = [at |-> IF f = NULL THEN "clear" ELSE "drop", file |-> f,
                    fd |-> IF f = NULL THEN fd + 1 ELSE fd, who |-> c, pos |-> job[p].pos]
      /\ \A q \in Procs \ {p} : job'[q] = job[q]
  <2>1. job[p] \in Job /\ job[p].at = "clear"
    BY <1>inv, <1>1 DEF TypeOK, At
  <2> QED
    BY <1>inv, <1>1, <2>1 DEF TypeOK, Job
<1>j. /\ job'[p].at = IF f = NULL THEN "clear" ELSE "drop"
      /\ job'[p].file = f /\ job'[p].who = c /\ c # NULL
      /\ job'[p].fd = IF f = NULL THEN fd + 1 ELSE fd
      /\ \A q \in Procs \ {p} : job'[q] = job[q]
  BY <1>2, ProcsAssumption
<1>3. job' \in [Procs -> Job]
  <2>1. job[p].pos \in Offsets /\ fd \in 0..OPEN_MAX
    BY <1>inv, <1>1, Types
  <2>2. job'[p] \in Job
    <3>1. PICK at \in Places, i \in 0..OPEN_MAX :
            job'[p] = [at |-> at, file |-> f, fd |-> i, who |-> c, pos |-> job[p].pos]
      <4>1. "clear" \in Places /\ "drop" \in Places
        BY DEF Places
      <4> QED
        BY <1>1, <1>2, <2>1, <4>1
    <3> QED
      BY <2>1, <3>1 DEF Job
  <2> QED
    BY <1>inv, <1>1, <2>2 DEF TypeOK
<1>4. HoldingOf(p)'
  BY <1>1, <1>j DEF HoldingOf, At
<1>5. TableOf(p)'
  <2>1. c = p \/ job'[c].at = "born"
    BY <1>inv, <1>1, <1>j DEF Tables, TableOf, At
  <2>2. \A i \in Fds : i < fd => ft'[c][i] = NULL
    BY <1>inv, <1>1, <1>j DEF Tables, TableOf, At
  <2>3. ASSUME f = NULL, NEW i \in Fds, i < fd + 1 PROVE ft'[c][i] = NULL
    <3>1. i < fd \/ i = fd
      BY <2>3 DEF Fds
    <3>2. ft'[c][fd] = f
      BY <1>1
    <3> QED
      BY <2>2, <2>3, <3>1, <3>2
  <2> QED
    BY <1>j, <2>1, <2>2, <2>3 DEF TableOf, At
<1>6. Holding' /\ Tables' /\ OneKeeper' /\ CountsReferences'
  <2>1. /\ ~ At(p, "born") /\ ~ At(p, "destroy") /\ ~ At(p, "destroy")'
        /\ \A g \in Files : ~ Drops(job[p], g) /\ ~ Drops(job'[p], g)
    BY <1>1, <1>j DEF At, Drops
  <2>2. job'[p].who \in {job[p].who, p, NULL} /\ job'[p].at # "born"
    BY <1>1, <1>j
  <2> QED
    BY <1>1, <1>j, <1>3, <1>4, <1>5, <2>1, <2>2, OwnStep
<1>7. TypeOK' /\ OnlyDirentryPanics'
  BY <1>inv, <1>1, <1>3 DEF TypeOK, OnlyDirentryPanics
<1>8. Locks' /\ OffsetOwned'
  <2>1. ~ At(p, "move") /\ ~ At(p, "move")'
    BY <1>1, <1>j DEF At
  <2> QED
    BY <1>inv, <1>1, <1>2, <2>1 DEF Locks, OffsetOwned, At, TypeOK
<1> QED
  BY <1>6, <1>7, <1>8 DEF FileInv

LEMMA ClearedFileInv == ASSUME FileInv, NEW p \in Procs, Cleared(p) PROVE FileInv'
<1>inv. /\ TypeOK /\ Holding /\ Tables /\ OneKeeper /\ Locks
        /\ CountsReferences /\ OffsetOwned /\ OnlyDirentryPanics
  BY DEF FileInv
<1>1. PICK c \in Procs :
        /\ At(p, "clear") /\ c = job[p].who /\ job[p].fd = OPEN_MAX
        /\ job' = [q \in Procs |-> CASE q = c -> Idle("none")
                                     [] q = p /\ q # c -> Idle("run")
                                     [] OTHER -> job[q]]
        /\ UNCHANGED <<ft, of_refcount, of_offset, of_offsetlock, seekable, panic>>
  BY <1>inv, Types DEF Cleared, file, Tables, TableOf
<1>2. /\ c = p \/ At(c, "born")
      /\ \A i \in Fds : ft[c][i] = NULL
      /\ \A q \in Procs \ {p} : job[q].who # c /\ job[q].who # p
      /\ c # NULL
  <2>1. c = p \/ At(c, "born")
    BY <1>inv, <1>1 DEF Tables, TableOf, At
  <2>2. \A i \in Fds : i < OPEN_MAX
    BY LimitsAssumption DEF Fds
  <2>3. \A i \in Fds : ft[c][i] = NULL
    BY <1>inv, <1>1, <2>2, ProcsAssumption DEF Tables, TableOf, At
  <2>4. \A q \in Procs \ {p} : job[q].who # p
    BY <1>1, NotKept DEF At
  <2>5. \A q \in Procs \ {p} : job[q].who # c
    BY <1>inv, <1>1, ProcsAssumption DEF OneKeeper
  <2> QED
    BY <2>1, <2>3, <2>4, <2>5, ProcsAssumption
<1>3. /\ job'[c] = [at |-> "none", file |-> NULL, fd |-> 0, who |-> NULL, pos |-> 0]
      /\ p # c => job'[p] = [at |-> "run", file |-> NULL, fd |-> 0, who |-> NULL, pos |-> 0]
      /\ \A q \in Procs : q # p /\ q # c => job'[q] = job[q]
  BY <1>1 DEF Idle
<1>j. /\ job'[c].at = "none" /\ job'[c].file = NULL /\ job'[c].who = NULL
      /\ p # c => job'[p].at = "run" /\ job'[p].file = NULL /\ job'[p].who = NULL
      /\ \A q \in Procs : q # p /\ q # c => job'[q] = job[q]
  BY <1>3
<1>4. TypeOK'
  <2>1. job'[c] \in Job /\ (p # c => job'[p] \in Job)
    BY <1>3, LimitsAssumption DEF Job, Places, Offsets
  <2>2. \A q \in Procs : job'[q] \in Job
    BY <1>inv, <1>3, <2>1 DEF TypeOK
  <2>3. job' \in [Procs -> Job]
    BY <1>1, <2>2
  <2> QED
    BY <1>inv, <1>1, <2>3 DEF TypeOK
<1>5. Holding'
  BY <1>inv, <1>1, <1>j DEF Holding, HoldingOf, At
<1>6. Tables'
  <2>1. TableOf(c)'
    BY <1>1, <1>2, <1>j DEF TableOf, At
  <2>2. p # c => TableOf(p)'
    BY <1>j DEF TableOf, At
  <2>3. ASSUME NEW q \in Procs \ {p, c} PROVE TableOf(q)'
    <3>1. /\ TableOf(q) /\ ft' = ft /\ job'[q] = job[q]
          /\ job[q].who # NULL => job[q].who \in Procs /\ job'[job[q].who] = job[job[q].who]
      BY <1>inv, <1>1, <1>2, <1>j, Types DEF Tables
    <3> QED
      BY <3>1 DEF TableOf, At
  <2> QED
    BY <2>1, <2>2, <2>3 DEF Tables
<1>7. OneKeeper'
  BY <1>inv, <1>2, <1>j, Types DEF OneKeeper
<1>8. Locks' /\ OffsetOwned'
  <2>1. ~ At(p, "move") /\ ~ At(c, "move") /\ job'[c].at # "move" /\ job'[p].at # "move"
    BY <1>1, <1>2, <1>j DEF At
  <2> QED
    BY <1>inv, <1>1, <1>j, <2>1 DEF Locks, OffsetOwned, At, TypeOK
<1>9. OnlyDirentryPanics'
  BY <1>inv, <1>1 DEF OnlyDirentryPanics
<1>10. CountsReferences'
  <2>1. \A q \in Procs : \A g \in Files : Drops(job'[q], g) <=> Drops(job[q], g)
    BY <1>1, <1>2, <1>j DEF Drops, At
  <2> QED
    BY <1>inv, <1>1, <2>1, RecountNone
<1> QED
  BY <1>4, <1>5, <1>6, <1>7, <1>8, <1>9, <1>10 DEF FileInv

\* read, write and getdirentry up to the lock; a panic changes nothing else.
LEMMA AccessFileInv ==
  ASSUME FileInv, NEW p \in Procs, Access(p) \/ Getdirentry(p) PROVE FileInv'
<1>inv. /\ TypeOK /\ Holding /\ Tables /\ OneKeeper /\ Locks
        /\ CountsReferences /\ OffsetOwned /\ OnlyDirentryPanics
  BY DEF FileInv
<1>1. /\ At(p, "run")
      /\ UNCHANGED <<ft, of_refcount, of_offset, of_offsetlock, seekable>>
      /\ panic' \in {panic, "more_syscalls.c:300"}
      /\ \/ job' = job
         \/ \E fd \in Fds : \E at \in {"wait", "move"} :
              /\ ft[p][fd] # NULL
              /\ IF at = "wait" THEN seekable[ft[p][fd]] ELSE ~ seekable[ft[p][fd]]
              /\ job' = [job EXCEPT ![p] = [Idle(at) EXCEPT !.file = ft[p][fd], !.fd = fd]]
  BY DEF Access, Getdirentry, Do, file
<1>run. /\ job[p].at = "run"
        /\ UNCHANGED <<ft, of_refcount, of_offset, of_offsetlock, seekable>>
  BY <1>1 DEF At
<1>2. OnlyDirentryPanics'
  BY <1>inv, <1>1 DEF OnlyDirentryPanics
<1>3. CASE job' = job
  <2>1. TypeOK'
    BY <1>inv, <1>1, <1>3 DEF TypeOK
  <2>2. Holding' /\ Tables' /\ OneKeeper' /\ Locks' /\ OffsetOwned'
    BY <1>inv, <1>1, <1>3
       DEF Holding, HoldingOf, Tables, TableOf, OneKeeper, Locks, OffsetOwned, At
  <2>3. CountsReferences'
    BY <1>inv, <1>1, <1>3, RecountNone
  <2> QED
    BY <1>2, <2>1, <2>2, <2>3 DEF FileInv
<1>4. ASSUME NEW fd \in Fds, NEW at \in {"wait", "move"}, ft[p][fd] # NULL,
             IF at = "wait" THEN seekable[ft[p][fd]] ELSE ~ seekable[ft[p][fd]],
             job' = [job EXCEPT ![p] = [Idle(at) EXCEPT !.file = ft[p][fd], !.fd = fd]]
      PROVE  FileInv'
  <2> DEFINE f == ft[p][fd]
  <2>1. /\ job'[p] = [at |-> at, file |-> f, fd |-> fd, who |-> NULL, pos |-> 0]
        /\ \A q \in Procs \ {p} : job'[q] = job[q]
        /\ f \in Files
    <3>1. f \in Files
      BY <1>inv, <1>4 DEF TypeOK
    <3> QED
      BY <1>inv, <1>4, <3>1 DEF TypeOK, Idle
  <2>j. /\ job'[p].at = at /\ job'[p].file = f /\ job'[p].fd = fd /\ job'[p].who = NULL
        /\ \A q \in Procs \ {p} : job'[q] = job[q]
    BY <2>1
  <2>2. job' \in [Procs -> Job]
    <3>1. at \in Places /\ fd \in 0..OPEN_MAX /\ 0 \in Offsets
      BY LimitsAssumption DEF Places, Fds, Offsets
    <3>2. job'[p] \in Job
      BY <2>1, <3>1 DEF Job
    <3> QED
      BY <1>inv, <1>4, <3>2 DEF TypeOK
  <2>3. HoldingOf(p)'
    BY <1>1, <1>4, <2>j DEF HoldingOf, At
  <2>4. TableOf(p)'
    BY <2>j DEF TableOf, At
  <2>5. Holding' /\ Tables' /\ OneKeeper' /\ CountsReferences'
    <3>1. /\ ~ At(p, "born") /\ ~ At(p, "destroy") /\ ~ At(p, "destroy")'
          /\ \A g \in Files : ~ Drops(job[p], g) /\ ~ Drops(job'[p], g)
      BY <1>1, <2>j DEF At, Drops
    <3>2. job'[p].who \in {job[p].who, p, NULL} /\ job'[p].at # "born"
      BY <2>j
    <3> QED
      BY <1>1, <2>j, <2>2, <2>3, <2>4, <3>1, <3>2, OwnStep
  <2>6. TypeOK'
    BY <1>inv, <1>1, <2>2 DEF TypeOK
  <2>7. Locks'
    <3>1. ASSUME NEW g \in Files, of_offsetlock[g] # NULL PROVE of_offsetlock[g] \in Procs \ {p}
      BY <1>inv, <1>run, <3>1 DEF Locks, At, TypeOK
    <3> QED
      BY <1>inv, <1>run, <2>j, <3>1 DEF Locks, At
  <2>8. OffsetOwned'
    <3>1. job'[p].at = "move" => ~ seekable'[job'[p].file]
      BY <1>run, <1>4, <2>j
    <3> QED
      BY <1>inv, <1>run, <2>j, <3>1 DEF OffsetOwned, At
  <2> QED
    BY <1>2, <2>5, <2>6, <2>7, <2>8 DEF FileInv
<1> QED
  BY <1>1, <1>3, <1>4

LEMMA LockOffsetFileInv == ASSUME FileInv, NEW p \in Procs, LockOffset(p) PROVE FileInv'
<1>inv. /\ TypeOK /\ Holding /\ Tables /\ OneKeeper /\ Locks
        /\ CountsReferences /\ OffsetOwned /\ OnlyDirentryPanics
  BY DEF FileInv
<1>1. PICK f \in Files :
        /\ At(p, "wait") /\ f = job[p].file /\ seekable[f]
        /\ of_offsetlock[f] = NULL
        /\ of_offsetlock' = [of_offsetlock EXCEPT ![f] = p]
        /\ job' = [job EXCEPT ![p] = [job[p] EXCEPT !.at = "move", !.pos = of_offset[f]]]
        /\ UNCHANGED <<ft, of_refcount, of_offset, seekable, panic>>
  BY <1>inv, Types DEF LockOffset, Do, Holding, HoldingOf, At
<1>2. /\ job'[p] = [at |-> "move", file |-> f, fd |-> job[p].fd,
                    who |-> job[p].who, pos |-> of_offset[f]]
      /\ \A q \in Procs \ {p} : job'[q] = job[q]
  <2>1. job[p] \in Job /\ job[p].at = "wait"
    BY <1>inv, <1>1 DEF TypeOK, At
  <2> QED
    BY <1>inv, <1>1, <2>1 DEF TypeOK, Job
<1>j. /\ job'[p].at = "move" /\ job'[p].file = f /\ job'[p].fd = job[p].fd
      /\ job'[p].who = job[p].who /\ job[p].who = NULL /\ job'[p].pos = of_offset[f]
      /\ \A q \in Procs \ {p} : job'[q] = job[q]
  BY <1>inv, <1>1, <1>2 DEF Holding, HoldingOf, At
<1>3. job' \in [Procs -> Job]
  <2>1. "move" \in Places /\ of_offset[f] \in Offsets
    BY <1>inv DEF Places, TypeOK
  <2>2. job'[p] \in Job
    BY <1>inv, <1>2, <2>1, Types DEF Job
  <2> QED
    BY <1>inv, <1>1, <2>2 DEF TypeOK
<1>4. HoldingOf(p)'
  BY <1>inv, <1>1, <1>j DEF Holding, HoldingOf, At
<1>5. TableOf(p)'
  BY <1>j DEF TableOf, At
<1>6. Holding' /\ Tables' /\ OneKeeper' /\ CountsReferences'
  <2>1. /\ ~ At(p, "born") /\ ~ At(p, "destroy") /\ ~ At(p, "destroy")'
        /\ \A g \in Files : ~ Drops(job[p], g) /\ ~ Drops(job'[p], g)
    BY <1>1, <1>j DEF At, Drops
  <2>2. job'[p].who \in {job[p].who, p, NULL} /\ job'[p].at # "born"
    BY <1>j
  <2> QED
    BY <1>1, <1>j, <1>3, <1>4, <1>5, <2>1, <2>2, OwnStep
<1>7. TypeOK' /\ OnlyDirentryPanics'
  BY <1>inv, <1>1, <1>3 DEF TypeOK, OnlyDirentryPanics
<1>8. /\ of_offsetlock'[f] = p
      /\ \A g \in Files \ {f} : of_offsetlock'[g] = of_offsetlock[g]
  BY <1>inv, <1>1 DEF TypeOK
<1>9. Locks'
  <2>1. ASSUME NEW g \in Files, of_offsetlock[g] # NULL PROVE of_offsetlock[g] \in Procs \ {p}
    BY <1>inv, <1>1, <2>1 DEF Locks, At, TypeOK
  <2> QED
    BY <1>inv, <1>1, <1>8, <1>j, <2>1 DEF Locks, At
<1>10. OffsetOwned'
  <2>1. ASSUME NEW q \in Procs \ {p}, At(q, "move"), seekable[job[q].file]
        PROVE  job[q].file \in Files \ {f}
    BY <1>inv, <1>1, <2>1, Types DEF OffsetOwned, Holding, HoldingOf, At
  <2> QED
    BY <1>inv, <1>1, <1>8, <1>j, <2>1 DEF OffsetOwned, At
<1> QED
  BY <1>6, <1>7, <1>9, <1>10 DEF FileInv

LEMMA MovedFileInv == ASSUME FileInv, NEW p \in Procs, Moved(p) PROVE FileInv'
<1>inv. /\ TypeOK /\ Holding /\ Tables /\ OneKeeper /\ Locks
        /\ CountsReferences /\ OffsetOwned /\ OnlyDirentryPanics
  BY DEF FileInv
<1>1. PICK f \in Files :
        /\ At(p, "move") /\ f = job[p].file /\ ft[p][job[p].fd] = f
        /\ IF seekable[f]
           THEN \E o \in Offsets : Unlock(p, f, o)
           ELSE UNCHANGED <<of_offset, of_offsetlock>>
        /\ job' = [job EXCEPT ![p] = Idle("run")]
        /\ panic' = panic
        /\ UNCHANGED <<ft, of_refcount, seekable>>
  <2>1. job[p].file \in Files /\ ft[p][job[p].fd] = job[p].file /\ At(p, "move")
    BY <1>inv, Types DEF Moved, Holding, HoldingOf, At
  <2> QED
    BY <2>1 DEF Moved, Do
<1>2. /\ job'[p] = [at |-> "run", file |-> NULL, fd |-> 0, who |-> NULL, pos |-> 0]
      /\ \A q \in Procs \ {p} : job'[q] = job[q]
  BY <1>inv, <1>1 DEF TypeOK, Idle
<1>j. /\ job'[p].at = "run" /\ job'[p].file = NULL /\ job'[p].who = NULL
      /\ \A q \in Procs \ {p} : job'[q] = job[q]
  BY <1>2
<1>3. job' \in [Procs -> Job]
  <2>1. job'[p] \in Job
    BY <1>2, LimitsAssumption DEF Job, Places, Offsets
  <2> QED
    BY <1>inv, <1>1, <2>1 DEF TypeOK
<1>4. HoldingOf(p)' /\ TableOf(p)'
  BY <1>j DEF HoldingOf, TableOf, At
<1>5. Holding' /\ Tables' /\ OneKeeper' /\ CountsReferences'
  <2>1. /\ ~ At(p, "born") /\ ~ At(p, "destroy") /\ ~ At(p, "destroy")'
        /\ \A g \in Files : ~ Drops(job[p], g) /\ ~ Drops(job'[p], g)
    BY <1>1, <1>j DEF At, Drops
  <2>2. job'[p].who \in {job[p].who, p, NULL} /\ job'[p].at # "born"
    BY <1>j
  <2> QED
    BY <1>1, <1>j, <1>3, <1>4, <2>1, <2>2, OwnStep
<1>6. /\ of_offset' \in [Files -> Offsets] /\ of_offsetlock' \in [Files -> Procs \cup {NULL}]
      /\ \A g \in Files \ {f} : of_offset'[g] = of_offset[g] /\ of_offsetlock'[g] = of_offsetlock[g]
      /\ of_offsetlock'[f] = NULL
  <2>1. CASE seekable[f]
    BY <1>inv, <1>1, <2>1 DEF Unlock, TypeOK
  <2>2. CASE ~ seekable[f]
    BY <1>inv, <1>1, <2>2 DEF TypeOK, Locks
  <2> QED
    BY <2>1, <2>2
<1>7. TypeOK' /\ OnlyDirentryPanics'
  BY <1>inv, <1>1, <1>3, <1>6 DEF TypeOK, OnlyDirentryPanics
<1>8. Locks'
  <2>1. ASSUME NEW g \in Files \ {f}, of_offsetlock[g] # NULL PROVE of_offsetlock[g] \in Procs \ {p}
    BY <1>inv, <1>1, <2>1 DEF Locks, TypeOK
  <2> QED
    BY <1>inv, <1>1, <1>6, <1>j, <2>1 DEF Locks, At
<1>9. OffsetOwned'
  <2>1. ASSUME NEW q \in Procs \ {p}, At(q, "move"), seekable[job[q].file]
        PROVE  job[q].file \in Files \ {f}
    BY <1>inv, <1>1, <2>1, Types DEF OffsetOwned, Holding, HoldingOf, At
  <2> QED
    BY <1>inv, <1>1, <1>6, <1>j, <2>1 DEF OffsetOwned, At
<1> QED
  BY <1>5, <1>7, <1>8, <1>9 DEF FileInv

LEMMA LseekFileInv == ASSUME FileInv, NEW p \in Procs, Lseek(p) PROVE FileInv'
<1>inv. /\ TypeOK /\ Holding /\ Tables /\ OneKeeper /\ Locks
        /\ CountsReferences /\ OffsetOwned /\ OnlyDirentryPanics
  BY DEF FileInv
<1>1. PICK f \in Files, o \in Offsets :
        /\ seekable[f] /\ of_offsetlock[f] = NULL
        /\ of_offset' = [of_offset EXCEPT ![f] = o]
        /\ UNCHANGED <<ft, of_refcount, of_offsetlock, seekable, job, panic>>
  BY <1>inv, Types DEF Lseek
<1>2. TypeOK'
  BY <1>inv, <1>1 DEF TypeOK
<1>3. Holding' /\ Tables' /\ OneKeeper' /\ Locks' /\ OnlyDirentryPanics'
  BY <1>inv, <1>1
     DEF Holding, HoldingOf, Tables, TableOf, OneKeeper, Locks, OnlyDirentryPanics, At
<1>4. OffsetOwned'
  <2>1. ASSUME NEW q \in Procs, At(q, "move"), seekable[job[q].file]
        PROVE  of_offset'[job[q].file] = of_offset[job[q].file]
    BY <1>inv, <1>1, <2>1, Types DEF OffsetOwned, TypeOK
  <2> QED
    BY <1>inv, <1>1, <2>1 DEF OffsetOwned, At
<1>5. CountsReferences'
  BY <1>inv, <1>1, RecountNone
<1> QED
  BY <1>2, <1>3, <1>4, <1>5 DEF FileInv

LEMMA NextFileInv == FileInv /\ [Next]_vars => FileInv'
<1> SUFFICES ASSUME FileInv, [Next]_vars PROVE FileInv'
  OBVIOUS
<1>1. ASSUME NEW p \in Procs, Call(p) \/ Internal(p) PROVE FileInv'
  BY <1>1, OpenFileInv, CloseFileInv, Dup2FileInv, ForkFileInv, UnforkExitFileInv,
     AccessFileInv, LseekFileInv, DecrefFileInv, DestroyFileInv, CopyOneFileInv,
     ForkedFileInv, ClearOneFileInv, ClearedFileInv, LockOffsetFileInv, MovedFileInv
     DEF Call, Internal
<1>2. CASE UNCHANGED vars
  <2>1. CountsReferences'
    BY <1>2, RecountNone DEF FileInv, vars
  <2> QED
    BY <1>2, <2>1
       DEF vars, FileInv, TypeOK, Holding, HoldingOf, Tables, TableOf, OneKeeper, Locks,
           OffsetOwned, OnlyDirentryPanics, At
<1> QED
  BY <1>1, <1>2 DEF Next

-----------------------------------------------------------------------------
(* Theorems.                                                               *)

\* FileInv holds in every reachable state.
LEMMA AlwaysFileInv == Spec => []FileInv
<1> QED
  BY InitFileInv, NextFileInv, PTL DEF Spec

\* The variables keep their types: descriptors name openfiles or nothing,
\* counts and offsets stay in range, a lock's owner is a process.
THEOREM FileTypes == Spec => []TypeOK
<1>1. FileInv => TypeOK
  BY DEF FileInv
<1> QED
  BY <1>1, AlwaysFileInv, PTL

\* openfile_incref and openfile_decref: through every interleaving of fork,
\* exit, dup2 and close the count of an openfile is the number of references to
\* it, and whoever frees one is alone with it: no use after free, no leak.
THEOREM RefcountsAreExact == Spec => []RefcountExact
<1>1. ASSUME FileInv, NEW p \in Procs, NEW q \in Procs, At(p, "destroy"), p # q
      PROVE  /\ job[q].file # job[p].file
             /\ \A fd \in Fds : ft[q][fd] = job[p].file => job[p].who = q
  <2>1. of_refcount[job[p].file] = 1
    BY <1>1 DEF FileInv, Holding, HoldingOf
  <2> QED
    BY <1>1, <2>1, LastReference DEF At
<1>2. FileInv => RefcountExact
  BY <1>1 DEF FileInv, RefcountExact, DestroyerAlone
<1> QED
  BY <1>2, AlwaysFileInv, PTL

\* sys_read, sys_write and sys_lseek: a transfer that took of_offsetlock finds
\* the offset where it read it; transfers through a shared openfile follow on
\* one another.
THEOREM OffsetsAreOwned == Spec => []OffsetOwned
<1>1. FileInv => OffsetOwned
  BY DEF FileInv
<1> QED
  BY <1>1, AlwaysFileInv, PTL

\* The KASSERTs of openfile_decref, lock_destroy and filetable_put never fail:
\* the only panic is sys_getdirentry's, on a device.
THEOREM NoPanicButDirentry == Spec => []OnlyDirentryPanics
<1>1. FileInv => OnlyDirentryPanics
  BY DEF FileInv
<1> QED
  BY <1>1, AlwaysFileInv, PTL

=============================================================================
