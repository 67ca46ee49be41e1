------------------------------ MODULE Sfs_proofs ------------------------------
(***************************************************************************)
(* Proofs about Sfs, for any threads, names, number of blocks, size of an  *)
(* inode and of an indirect block, and bound on the faults: no block is    *)
(* lost or used twice, link and reference counts are exact, only the two   *)
(* known panics happen, and the volume implements NamedFiles.              *)
(***************************************************************************)
EXTENDS Sfs, FiniteSetTheorems, WellFoundedInduction, TLAPS

-----------------------------------------------------------------------------
(* The invariant of a volume.                                              *)

\* The files of volume s, their inodes and the blocks they list.
LiveIn(s) == {b \in Blocks : s.vnodes[b] # NULL \/ \E n \in Names : s.dents[n] = b}
InodeIn(s, b) == IF s.vnodes[b] # NULL THEN s.vnodes[b].i ELSE s.disk[b].i
Listed(s, i, k) == CASE k = -1 -> i.ind
                     [] k \in DirectIx -> i.direct[k]
                     [] OTHER -> IF i.ind = NOBLOCK THEN NOBLOCK
                                 ELSE PointersIn(s, i.ind)[k - NDIRECT]
At(s, b, k) == IF b \in LiveIn(s) THEN Listed(s, InodeIn(s, b), k) ELSE NOBLOCK
UsedIn(s) == LiveIn(s) \cup {x \in Blocks : \E b \in Blocks, k \in Places : At(s, b, k) = x}

\* No block has two uses.
Apart(s) ==
  /\ \A b, c \in Blocks, k, l \in Places :
       At(s, b, k) # NOBLOCK /\ At(s, b, k) = At(s, c, l) => b = c /\ k = l
  /\ \A b \in Blocks, k \in Places : At(s, b, k) \notin LiveIn(s)

\* The blocks in use are marked, and those an operation has in hand, X; each
\* other one stands for a fault.
Lost(s, X) == s.map \ (UsedIn(s) \cup X)
Marked(s, X) == /\ UsedIn(s) \cup X \subseteq s.map
                /\ UsedIn(s) \cap X = {}
                /\ Cardinality(Lost(s, X)) <= s.faults

\* What is needed from the disk is there.
OnDisk(s) ==
  \A b \in LiveIn(s) :
    /\ s.vnodes[b] = NULL => s.disk[b].kind = "inode"
    /\ s.vnodes[b] # NULL /\ ~s.vnodes[b].dirty => s.disk[b] = Inode(s.vnodes[b].i)
    /\ InodeIn(s, b).ind # NOBLOCK => Readable(s, InodeIn(s, b).ind)

Laid(s, X) == /\ s \in Volumes /\ s.panic = "none"
              /\ Apart(s) /\ Marked(s, X) /\ OnDisk(s)
              /\ ~s.mapdirty => s.diskmap = s.map

NamesOf(s, b) == {n \in Names : s.dents[n] = b}
Linked(s) == \A b \in LiveIn(s) : /\ IsFiniteSet(NamesOf(s, b))
                                  /\ InodeIn(s, b).links = Cardinality(NamesOf(s, b))

\* H[b] references to vnode b are held; one more is nobody's, after a fault.
Stray(s, H) == {b \in Blocks : s.vnodes[b] # NULL /\ s.vnodes[b].refs = H[b] + 1}
Counted(s, H) ==
  /\ H \in [Blocks -> Nat]
  /\ \A b \in Blocks : IF s.vnodes[b] = NULL THEN H[b] = 0
                       ELSE s.vnodes[b].refs \in {H[b], H[b] + 1}
  /\ Cardinality(Stray(s, H)) <= s.faults

Sound(s, X, H) == Laid(s, X) /\ Linked(s) /\ Counted(s, H)

\* The only ways in which the kernel stops.
Stopped(s) == /\ s \in Volumes
              /\ \/ s.panic = "Cannot recover" /\ s.faults >= 2
                 \/ s.panic = "torn" /\ s.faults >= 1

\* The volume as it would be if the map were read from the disk.
AsMounted(s) == [s EXCEPT !.map = s.diskmap]
Unmounted(s, H) ==
  /\ s \in Volumes /\ s.panic = "none" /\ ~s.mapdirty /\ Sound(AsMounted(s), {}, H)
  /\ \A b \in Blocks : s.vnodes[b] = NULL

\* The threads that hold a reference, and the references they hold.
Holders(o, b) == {t \in Threads : o[t] = b}
HeldOf(o) == [b \in Blocks |-> Cardinality(Holders(o, b))]
Finite(o) == \A b \in Blocks : IsFiniteSet(Holders(o, b))
Held == HeldOf(open)

\* The inductive invariant.
SfsInv ==
  /\ TypeOK
  /\ sfs.panic # "none" => Stopped(sfs)
  /\ sfs.panic = "none" => IF mounted THEN Sound(sfs, {}, Held) ELSE Unmounted(sfs, Held)
  /\ Finite(open)
  /\ \A t \in Threads : pc[t] = "reclaim" => open[t] # NOBLOCK

-----------------------------------------------------------------------------
(* Types.                                                                  *)

LEMMA Indices ==
  /\ NOBLOCK \notin Blocks
  /\ IsFiniteSet(Blocks) /\ IsFiniteSet(DirectIx) /\ IsFiniteSet(IndirectIx)
  /\ 0 \in DirectIx /\ 0 \in IndirectIx
  /\ -1 \in Places /\ -1 \notin DirectIx
  /\ \A k \in DirectIx : k \in FileBlocks /\ k \in Places /\ k < NDIRECT
  /\ \A k \in FileBlocks : k \in Places /\ k # -1
  /\ \A k \in FileBlocks : ~(k < NDIRECT) => k \notin DirectIx /\ k - NDIRECT \in IndirectIx
  /\ \A k \in FileBlocks : k < NDIRECT => k \in DirectIx
  /\ \A k \in Places : k # -1 /\ k \notin DirectIx => k - NDIRECT \in IndirectIx /\ k \in FileBlocks
  /\ \A j \in IndirectIx : /\ j + NDIRECT \in FileBlocks /\ j + NDIRECT \in Places
                           /\ j + NDIRECT # -1 /\ j + NDIRECT \notin DirectIx
                           /\ (j + NDIRECT) - NDIRECT = j
<1>1. NDIRECT \in Nat /\ NDIRECT >= 1 /\ DBPERIDB \in Nat /\ DBPERIDB >= 1 /\ NBlocks \in Nat
  BY SfsAssumption
<1>2. IsFiniteSet(Blocks)
  BY <1>1, FS_Interval DEF Blocks
<1>3. IsFiniteSet(DirectIx)
  BY <1>1, FS_Interval DEF DirectIx
<1>4. IsFiniteSet(IndirectIx)
  BY <1>1, FS_Interval DEF IndirectIx
<1> QED
  BY <1>1, <1>2, <1>3, <1>4 DEF NOBLOCK, Blocks, DirectIx, IndirectIx, FileBlocks, Places

LEMMA VolumeType ==
  ASSUME NEW s \in Volumes
  PROVE  /\ s.map \in SUBSET Blocks /\ s.mapdirty \in BOOLEAN
         /\ s.vnodes \in [Blocks -> Vnodes \cup {NULL}]
         /\ s.diskmap \in SUBSET Numbers /\ s.dents \in [Names -> Numbers]
         /\ s.disk \in [Blocks -> Contents] /\ s.faults \in Nat /\ s.panic \in Panics
         /\ s = [map |-> s.map, mapdirty |-> s.mapdirty, vnodes |-> s.vnodes,
                 diskmap |-> s.diskmap, dents |-> s.dents, disk |-> s.disk,
                 faults |-> s.faults, panic |-> s.panic]
BY DEF Volumes

LEMMA VnodeType ==
  ASSUME NEW s \in Volumes, NEW b \in Blocks, s.vnodes[b] # NULL
  PROVE  /\ s.vnodes[b] \in Vnodes
         /\ s.vnodes[b].i \in Inodes /\ s.vnodes[b].refs \in Nat \ {0}
         /\ s.vnodes[b].dirty \in BOOLEAN
         /\ s.vnodes[b] = [i |-> s.vnodes[b].i, refs |-> s.vnodes[b].refs, dirty |-> s.vnodes[b].dirty]
<1>1. s.vnodes[b] \in Vnodes
  BY VolumeType
<1> QED
  BY <1>1 DEF Vnodes

LEMMA InodeType ==
  ASSUME NEW i \in Inodes
  PROVE  /\ i.links \in Nat /\ i.direct \in [DirectIx -> Numbers] /\ i.ind \in Numbers
         /\ i = [links |-> i.links, direct |-> i.direct, ind |-> i.ind]
BY DEF Inodes

LEMMA KindsDiffer ==
  /\ Zeros.kind = "zeros" /\ Stale.kind = "stale"
  /\ Zeros \in Contents /\ Stale \in Contents
  /\ \A i : Inode(i).kind = "inode" /\ Inode(i).i = i
  /\ \A i \in Inodes : Inode(i) \in Contents
  /\ \A c \in Contents : c.kind = "zeros" => c = Zeros
  /\ \A c \in Contents : c.kind = "inode" => c.i \in Inodes /\ c = Inode(c.i)
  /\ \A c \in Contents : c.kind = "ptrs" => c # Zeros /\ c.p \in [IndirectIx -> Numbers]
<1>1. \A c \in Contents : \/ c = Zeros \/ c = Stale
                          \/ c \in [kind : {"ptrs"}, p : [IndirectIx -> Numbers]]
                          \/ c \in [kind : {"inode"}, i : Inodes]
  BY DEF Contents
<1>2. \A i : Inode(i).kind = "inode" /\ Inode(i).i = i
  BY DEF Inode
<1>3. \A i \in Inodes : Inode(i) \in Contents
  BY DEF Inode, Contents
<1>4. /\ Zeros.kind = "zeros" /\ Stale.kind = "stale"
      /\ Zeros \in Contents /\ Stale \in Contents
  BY DEF Zeros, Stale, Contents
<1>5. \A c \in Contents : c.kind = "zeros" => c = Zeros
  BY <1>1, <1>4
<1>6. \A c \in Contents : c.kind = "inode" => c.i \in Inodes /\ c = Inode(c.i)
  BY <1>1, <1>4 DEF Inode
<1>7. \A c \in Contents : c.kind = "ptrs" => c # Zeros /\ c.p \in [IndirectIx -> Numbers]
  BY <1>1, <1>4
<1> QED
  BY <1>2, <1>3, <1>4, <1>5, <1>6, <1>7

LEMMA PointersType ==
  ASSUME NEW s \in Volumes, NEW b \in Blocks, Readable(s, b)
  PROVE  PointersIn(s, b) \in [IndirectIx -> Numbers]
<1>1. s.disk[b] \in Contents /\ s.disk[b].kind \in {"zeros", "ptrs"}
  BY VolumeType DEF Readable
<1>2. NoPointers \in [IndirectIx -> Numbers]
  BY DEF NoPointers, Numbers
<1> QED
  BY <1>1, <1>2, KindsDiffer DEF PointersIn

-----------------------------------------------------------------------------
(* The blocks a file lists.                                                *)

LEMMA ListedPlaces ==
  ASSUME NEW s, NEW i
  PROVE  /\ Listed(s, i, -1) = i.ind
         /\ \A k \in DirectIx : Listed(s, i, k) = i.direct[k]
         /\ \A j \in IndirectIx : Listed(s, i, j + NDIRECT) =
              IF i.ind = NOBLOCK THEN NOBLOCK ELSE PointersIn(s, i.ind)[j]
         /\ \A k \in Places : k # -1 /\ k \notin DirectIx => Listed(s, i, k) =
              IF i.ind = NOBLOCK THEN NOBLOCK ELSE PointersIn(s, i.ind)[k - NDIRECT]
<1>1. Listed(s, i, -1) = i.ind
  BY Indices DEF Listed
<1>2. \A k \in DirectIx : Listed(s, i, k) = i.direct[k]
  BY Indices DEF Listed
<1>3. \A k \in Places : k # -1 /\ k \notin DirectIx => Listed(s, i, k) =
              IF i.ind = NOBLOCK THEN NOBLOCK ELSE PointersIn(s, i.ind)[k - NDIRECT]
  BY Indices DEF Listed
<1>4. \A j \in IndirectIx : Listed(s, i, j + NDIRECT) =
              IF i.ind = NOBLOCK THEN NOBLOCK ELSE PointersIn(s, i.ind)[j]
  <2> TAKE j \in IndirectIx
  <2>1. /\ j + NDIRECT \in Places /\ j + NDIRECT # -1 /\ j + NDIRECT \notin DirectIx
        /\ (j + NDIRECT) - NDIRECT = j
    BY Indices
  <2> QED
    BY <2>1, <1>3
<1> QED
  BY <1>1, <1>2, <1>3, <1>4

LEMMA ListedEntry ==
  ASSUME NEW s, NEW i, NEW k \in Places, k # -1, k \notin DirectIx
  PROVE  Listed(s, i, k) = IF i.ind = NOBLOCK THEN NOBLOCK ELSE PointersIn(s, i.ind)[k - NDIRECT]
BY ListedPlaces

LEMMA EmptyLists ==
  ASSUME NEW s, NEW i, i.ind = NOBLOCK, \A l \in DirectIx : i.direct[l] = NOBLOCK
  PROVE  \A k \in Places : Listed(s, i, k) = NOBLOCK
<1> TAKE k \in Places
<1>1. CASE k = -1
  <2>1. Listed(s, i, -1) = i.ind
    BY ListedPlaces
  <2> QED
    BY <1>1, <2>1
<1>2. CASE k \in DirectIx
  BY <1>2, ListedPlaces
<1>3. CASE k # -1 /\ k \notin DirectIx
  BY <1>3, ListedPlaces
<1> QED
  BY <1>1, <1>2, <1>3

\* A file's blocks stay when its inode and its indirect block do.
LEMMA ListedFrame ==
  ASSUME NEW s, NEW r, NEW i, NEW k \in Places,
         i.ind # NOBLOCK => r.disk[i.ind] = s.disk[i.ind]
  PROVE  Listed(r, i, k) = Listed(s, i, k)
<1>1. i.ind # NOBLOCK => PointersIn(r, i.ind) = PointersIn(s, i.ind)
  BY DEF PointersIn
<1>2. CASE k = -1
  <2>1. Listed(r, i, -1) = i.ind
    BY ListedPlaces
  <2>2. Listed(s, i, -1) = i.ind
    BY ListedPlaces
  <2> QED
    BY <1>2, <2>1, <2>2
<1>3. CASE k \in DirectIx
  <2>1. Listed(r, i, k) = i.direct[k]
    BY <1>3, ListedPlaces
  <2>2. Listed(s, i, k) = i.direct[k]
    BY <1>3, ListedPlaces
  <2> QED
    BY <2>1, <2>2
<1>4. CASE k # -1 /\ k \notin DirectIx
  <2>1. Listed(r, i, k) = IF i.ind = NOBLOCK THEN NOBLOCK ELSE PointersIn(r, i.ind)[k - NDIRECT]
    BY <1>4, ListedPlaces
  <2>2. Listed(s, i, k) = IF i.ind = NOBLOCK THEN NOBLOCK ELSE PointersIn(s, i.ind)[k - NDIRECT]
    BY <1>4, ListedPlaces
  <2> QED
    BY <1>1, <2>1, <2>2
<1> QED
  BY <1>2, <1>3, <1>4

LEMMA LiveType ==
  ASSUME NEW s \in Volumes, OnDisk(s), NEW b \in LiveIn(s)
  PROVE  /\ b \in Blocks /\ InodeIn(s, b) \in Inodes
         /\ InodeIn(s, b).ind # NOBLOCK =>
              /\ InodeIn(s, b).ind \in Blocks
              /\ Readable(s, InodeIn(s, b).ind)
              /\ PointersIn(s, InodeIn(s, b).ind) \in [IndirectIx -> Numbers]
<1>1. b \in Blocks
  BY DEF LiveIn
<1>2. s.disk[b] \in Contents
  BY <1>1, VolumeType
<1>3. InodeIn(s, b) \in Inodes
  <2>1. CASE s.vnodes[b] = NULL
    BY <1>2, <2>1, KindsDiffer DEF OnDisk, InodeIn
  <2>2. CASE s.vnodes[b] # NULL
    BY <1>1, <2>2, VnodeType DEF InodeIn
  <2> QED
    BY <2>1, <2>2
<1>4. InodeIn(s, b).ind # NOBLOCK => Readable(s, InodeIn(s, b).ind) /\ InodeIn(s, b).ind \in Blocks
  BY <1>3, InodeType DEF OnDisk, Numbers
<1> QED
  BY <1>1, <1>3, <1>4, PointersType

LEMMA AtType ==
  ASSUME NEW s \in Volumes, OnDisk(s), NEW b \in Blocks, NEW k \in Places
  PROVE  At(s, b, k) \in Numbers
<1>1. CASE b \notin LiveIn(s)
  BY <1>1 DEF At, Numbers
<1>2. CASE b \in LiveIn(s)
  <2> DEFINE i == InodeIn(s, b)
  <2>1. At(s, b, k) = Listed(s, i, k)
    BY <1>2 DEF At
  <2>2. /\ i.direct \in [DirectIx -> Numbers] /\ i.ind \in Numbers
        /\ i.ind # NOBLOCK => PointersIn(s, i.ind) \in [IndirectIx -> Numbers]
    BY <1>2, LiveType, InodeType
  <2> HIDE DEF i
  <2>3. CASE k = -1
    BY <2>1, <2>2, <2>3, ListedPlaces
  <2>4. CASE k \in DirectIx
    BY <2>1, <2>2, <2>4, ListedPlaces
  <2>5. CASE k # -1 /\ k \notin DirectIx
    <3>1. k - NDIRECT \in IndirectIx
      BY <2>5, Indices
    <3>2. Listed(s, i, k) = IF i.ind = NOBLOCK THEN NOBLOCK ELSE PointersIn(s, i.ind)[k - NDIRECT]
      BY <2>5, ListedPlaces
    <3> QED
      BY <2>1, <2>2, <3>1, <3>2 DEF Numbers
  <2> QED
    BY <2>3, <2>4, <2>5
<1> QED
  BY <1>1, <1>2

\* What a file lists is marked, in use once, and neither a file nor in hand.
LEMMA InUseOnce ==
  ASSUME NEW s, NEW X, Laid(s, X)
  PROVE  /\ s \in Volumes /\ s.panic = "none"
         /\ LiveIn(s) \subseteq s.map /\ LiveIn(s) \cap X = {} /\ LiveIn(s) \subseteq Blocks
         /\ X \subseteq s.map /\ s.map \subseteq Blocks
         /\ \A b \in Blocks, k \in Places : At(s, b, k) # NOBLOCK =>
              /\ b \in LiveIn(s) /\ At(s, b, k) = Listed(s, InodeIn(s, b), k)
              /\ At(s, b, k) \in Blocks /\ At(s, b, k) \in s.map
              /\ At(s, b, k) \notin LiveIn(s) /\ At(s, b, k) \notin X
              /\ At(s, b, k) \in UsedIn(s)
              /\ \A c \in Blocks, l \in Places : At(s, c, l) = At(s, b, k) => c = b /\ l = k
         /\ \A b \in LiveIn(s) : /\ b \in Blocks
                                 /\ InodeIn(s, b).ind = At(s, b, -1)
                                 /\ \A k \in Places : At(s, b, k) = Listed(s, InodeIn(s, b), k)
<1>1. s \in Volumes /\ s.panic = "none" /\ OnDisk(s) /\ Apart(s) /\ Marked(s, X)
  BY DEF Laid
<1>2. LiveIn(s) \subseteq Blocks /\ LiveIn(s) \subseteq UsedIn(s)
  BY DEF LiveIn, UsedIn
<1>3. /\ UsedIn(s) \cup X \subseteq s.map /\ UsedIn(s) \cap X = {} /\ s.map \subseteq Blocks
  BY <1>1, VolumeType DEF Marked
<1>4. ASSUME NEW b \in Blocks, NEW k \in Places, At(s, b, k) # NOBLOCK
      PROVE  /\ b \in LiveIn(s) /\ At(s, b, k) = Listed(s, InodeIn(s, b), k)
             /\ At(s, b, k) \in Blocks /\ At(s, b, k) \in s.map
             /\ At(s, b, k) \notin LiveIn(s) /\ At(s, b, k) \notin X
             /\ At(s, b, k) \in UsedIn(s)
             /\ \A c \in Blocks, l \in Places : At(s, c, l) = At(s, b, k) => c = b /\ l = k
  <2>1. At(s, b, k) \in Blocks
    BY <1>1, <1>4, AtType DEF Numbers
  <2>2. At(s, b, k) \in UsedIn(s)
    BY <2>1 DEF UsedIn
  <2>3. b \in LiveIn(s) /\ At(s, b, k) = Listed(s, InodeIn(s, b), k)
    BY <1>4 DEF At
  <2>4. /\ At(s, b, k) \notin LiveIn(s)
        /\ \A c \in Blocks, l \in Places : At(s, c, l) = At(s, b, k) => c = b /\ l = k
    BY <1>1, <1>4 DEF Apart
  <2> QED
    BY <1>3, <2>1, <2>2, <2>3, <2>4
<1>5. \A b \in LiveIn(s) : /\ b \in Blocks
                           /\ InodeIn(s, b).ind = At(s, b, -1)
                           /\ \A k \in Places : At(s, b, k) = Listed(s, InodeIn(s, b), k)
  BY <1>2, ListedPlaces, Indices DEF At
<1> QED
  BY <1>1, <1>2, <1>3, <1>4, <1>5

-----------------------------------------------------------------------------
(* How the uses of blocks may change.                                      *)

\* Marked blocks without use do not become more, but with the faults.
LEMMA LostBound ==
  ASSUME NEW s, NEW r, NEW X, NEW Y, Laid(s, X), r.faults \in Nat,
         \/ Lost(r, Y) \subseteq Lost(s, X) /\ r.faults >= s.faults
         \/ \E x : Lost(r, Y) \subseteq Lost(s, X) \cup {x} /\ r.faults >= s.faults + 1
  PROVE  Cardinality(Lost(r, Y)) <= r.faults
<1>1. /\ s.faults \in Nat /\ Cardinality(Lost(s, X)) <= s.faults
      /\ Lost(s, X) \subseteq Blocks
  BY VolumeType DEF Laid, Marked, Lost
<1>2. IsFiniteSet(Lost(s, X)) /\ Cardinality(Lost(s, X)) \in Nat
  BY <1>1, Indices, FS_Subset, FS_CardinalityType
<1>3. CASE Lost(r, Y) \subseteq Lost(s, X) /\ r.faults >= s.faults
  <2>1. Cardinality(Lost(r, Y)) <= Cardinality(Lost(s, X)) /\ IsFiniteSet(Lost(r, Y))
    BY <1>2, <1>3, FS_Subset
  <2>2. Cardinality(Lost(r, Y)) \in Nat
    BY <2>1, FS_CardinalityType
  <2> QED
    BY <1>1, <1>2, <1>3, <2>1, <2>2
<1>4. CASE \E x : Lost(r, Y) \subseteq Lost(s, X) \cup {x} /\ r.faults >= s.faults + 1
  <2>1. PICK x : Lost(r, Y) \subseteq Lost(s, X) \cup {x}
    BY <1>4
  <2>2. /\ IsFiniteSet(Lost(s, X) \cup {x})
        /\ Cardinality(Lost(s, X) \cup {x}) <= Cardinality(Lost(s, X)) + 1
        /\ Cardinality(Lost(s, X) \cup {x}) \in Nat
    <3>1. /\ IsFiniteSet(Lost(s, X) \cup {x})
          /\ Cardinality(Lost(s, X) \cup {x}) =
               IF x \in Lost(s, X) THEN Cardinality(Lost(s, X)) ELSE Cardinality(Lost(s, X)) + 1
      BY <1>2, FS_AddElement
    <3> QED
      BY <1>2, <3>1
  <2>3. Cardinality(Lost(r, Y)) <= Cardinality(Lost(s, X) \cup {x}) /\ IsFiniteSet(Lost(r, Y))
    BY <2>1, <2>2, FS_Subset
  <2>4. Cardinality(Lost(r, Y)) \in Nat
    BY <2>3, FS_CardinalityType
  <2> QED
    BY <1>1, <1>2, <1>4, <2>2, <2>3, <2>4
<1> QED
  BY <1>3, <1>4

LEMMA SameUse ==
  ASSUME NEW s, NEW r, NEW X, Laid(s, X), r \in Volumes, LiveIn(r) = LiveIn(s),
         \A b \in Blocks, k \in Places : At(r, b, k) = At(s, b, k),
         r.map = s.map, r.faults >= s.faults
  PROVE  Apart(r) /\ Marked(r, X)
<1>1. UsedIn(r) = UsedIn(s)
  BY DEF UsedIn
<1>2. Apart(r)
  BY DEF Laid, Apart
<1>3. Lost(r, X) = Lost(s, X) /\ r.faults \in Nat
  BY <1>1, VolumeType DEF Lost
<1> QED
  BY <1>1, <1>2, <1>3, LostBound DEF Marked, Laid

\* A block is taken from the free ones.
LEMMA TakeUse ==
  ASSUME NEW s, NEW r, Laid(s, {}), r \in Volumes, LiveIn(r) = LiveIn(s),
         \A b \in Blocks, k \in Places : At(r, b, k) = At(s, b, k),
         NEW x \in Blocks, x \notin s.map, r.map = s.map \cup {x}, r.faults >= s.faults
  PROVE  Apart(r) /\ Marked(r, {x})
<1>1. UsedIn(r) = UsedIn(s)
  BY DEF UsedIn
<1>2. Apart(r)
  BY DEF Laid, Apart
<1>3. Lost(r, {x}) \subseteq Lost(s, {}) /\ r.faults \in Nat
  BY <1>1, VolumeType DEF Lost
<1>4. Cardinality(Lost(r, {x})) <= r.faults
  BY <1>3, LostBound
<1> QED
  BY <1>1, <1>2, <1>4 DEF Marked, Laid

\* The blocks in hand are given back.
LEMMA GiveBackUse ==
  ASSUME NEW s, NEW r, NEW X, Laid(s, X), r \in Volumes, LiveIn(r) = LiveIn(s),
         \A b \in Blocks, k \in Places : At(r, b, k) = At(s, b, k),
         r.map = s.map \ X, r.faults >= s.faults
  PROVE  Apart(r) /\ Marked(r, {})
<1>1. UsedIn(r) = UsedIn(s)
  BY DEF UsedIn
<1>2. Apart(r)
  BY DEF Laid, Apart
<1>3. Lost(r, {}) \subseteq Lost(s, X) /\ r.faults \in Nat
  BY <1>1, VolumeType DEF Lost
<1>4. Cardinality(Lost(r, {})) <= r.faults
  BY <1>3, LostBound
<1> QED
  BY <1>1, <1>2, <1>4 DEF Marked, Laid

\* The block in hand is forgotten when the disk fails.
LEMMA LoseUse ==
  ASSUME NEW s, NEW r, NEW x, Laid(s, {x}), r \in Volumes, LiveIn(r) = LiveIn(s),
         \A b \in Blocks, k \in Places : At(r, b, k) = At(s, b, k),
         r.map = s.map, r.faults >= s.faults + 1
  PROVE  Apart(r) /\ Marked(r, {})
<1>1. UsedIn(r) = UsedIn(s)
  BY DEF UsedIn
<1>2. Apart(r)
  BY DEF Laid, Apart
<1>3. Lost(r, {}) \subseteq Lost(s, {x}) \cup {x} /\ r.faults \in Nat
  BY <1>1, VolumeType DEF Lost
<1>4. Cardinality(Lost(r, {})) <= r.faults
  BY <1>3, LostBound
<1> QED
  BY <1>1, <1>2, <1>4 DEF Marked, Laid

\* The block in hand is put in a free place of a file.
LEMMA PutUse ==
  ASSUME NEW s, NEW r, NEW x, Laid(s, {x}), r \in Volumes, LiveIn(r) = LiveIn(s),
         NEW c \in Blocks, NEW l \in Places, At(s, c, l) = NOBLOCK, At(r, c, l) = x,
         \A b \in Blocks, k \in Places : b # c \/ k # l => At(r, b, k) = At(s, b, k),
         r.map = s.map, r.faults >= s.faults
  PROVE  Apart(r) /\ Marked(r, {})
<1>1. x \in Blocks /\ x \notin UsedIn(s) /\ UsedIn(s) \subseteq s.map /\ x \in s.map
  BY VolumeType DEF Laid, Marked
<1>2. /\ \A b \in Blocks, k \in Places : At(s, b, k) # x
      /\ x \notin LiveIn(s)
  BY <1>1 DEF UsedIn
<1>3. UsedIn(r) = UsedIn(s) \cup {x}
  <2>1. UsedIn(r) \subseteq UsedIn(s) \cup {x}
    BY DEF UsedIn
  <2>2. x \in UsedIn(r)
    BY <1>1 DEF UsedIn
  <2>3. ASSUME NEW y \in UsedIn(s)  PROVE y \in UsedIn(r)
    <3>1. CASE y \in LiveIn(s)
      BY <3>1 DEF UsedIn
    <3>2. CASE y \notin LiveIn(s)
      <4>1. PICK b \in Blocks, k \in Places : At(s, b, k) = y
        BY <3>2 DEF UsedIn
      <4>2. y \in Blocks /\ y # NOBLOCK
        BY <3>2, Indices DEF UsedIn
      <4>3. b # c \/ k # l
        BY <4>1, <4>2
      <4> QED
        BY <4>1, <4>2, <4>3 DEF UsedIn
    <3> QED
      BY <3>1, <3>2
  <2> QED
    BY <2>1, <2>2, <2>3
<1>4. Apart(r)
  <2>1. ASSUME NEW b \in Blocks, NEW d \in Blocks, NEW k \in Places, NEW m \in Places,
               At(r, b, k) # NOBLOCK, At(r, b, k) = At(r, d, m)
        PROVE  b = d /\ k = m
    <3>1. CASE b = c /\ k = l
      BY <1>2, <2>1, <3>1
    <3>2. CASE ~(b = c /\ k = l)
      <4>1. At(r, b, k) = At(s, b, k) /\ At(s, b, k) # x
        BY <1>2, <3>2
      <4>2. At(r, d, m) = At(s, d, m)
        BY <2>1, <4>1
      <4>3. \A b1, c1 \in Blocks, k1, l1 \in Places :
                 At(s, b1, k1) # NOBLOCK /\ At(s, b1, k1) = At(s, c1, l1) => b1 = c1 /\ k1 = l1
        BY DEF Apart, Laid
      <4>4. At(s, b, k) # NOBLOCK /\ At(s, b, k) = At(s, d, m)
        BY <2>1, <4>1, <4>2
      <4> QED
        BY <4>3, <4>4
    <3> QED
      BY <3>1, <3>2
  <2>2. ASSUME NEW b \in Blocks, NEW k \in Places  PROVE At(r, b, k) \notin LiveIn(r)
    <3>1. At(s, b, k) \notin LiveIn(s)
      BY DEF Laid, Apart
    <3> QED
      BY <1>2, <3>1
  <2> QED
    BY <2>1, <2>2 DEF Apart
<1>5. Lost(r, {}) \subseteq Lost(s, {x}) /\ r.faults \in Nat
  BY <1>3, VolumeType DEF Lost
<1>6. Cardinality(Lost(r, {})) <= r.faults
  BY <1>5, LostBound
<1> QED
  BY <1>1, <1>3, <1>4, <1>6 DEF Marked

\* The block in hand becomes a file, an empty one.
LEMMA NewFileUse ==
  ASSUME NEW s, NEW r, NEW x, Laid(s, {x}), r \in Volumes, LiveIn(r) = LiveIn(s) \cup {x},
         \A b \in Blocks, k \in Places : At(r, b, k) = At(s, b, k),
         r.map = s.map, r.faults >= s.faults
  PROVE  Apart(r) /\ Marked(r, {})
<1>1. x \in Blocks /\ x \notin UsedIn(s) /\ UsedIn(s) \subseteq s.map /\ x \in s.map
  BY VolumeType DEF Laid, Marked
<1>2. /\ \A b \in Blocks, k \in Places : At(s, b, k) # x
      /\ x \notin LiveIn(s)
  BY <1>1 DEF UsedIn
<1>3. UsedIn(r) = UsedIn(s) \cup {x}
  BY DEF UsedIn
<1>4. Apart(r)
  BY <1>2 DEF Laid, Apart
<1>5. Lost(r, {}) \subseteq Lost(s, {x}) /\ r.faults \in Nat
  BY <1>3, VolumeType DEF Lost
<1>6. Cardinality(Lost(r, {})) <= r.faults
  BY <1>5, LostBound
<1> QED
  BY <1>1, <1>3, <1>4, <1>6 DEF Marked

\* A file without blocks goes, and its own block.
LEMMA GoneUse ==
  ASSUME NEW s, NEW r, NEW x, Laid(s, {}), r \in Volumes,
         x \in LiveIn(s), LiveIn(r) = LiveIn(s) \ {x},
         \A b \in Blocks, k \in Places : At(r, b, k) = At(s, b, k),
         r.map = s.map \ {x}, r.faults >= s.faults
  PROVE  Apart(r) /\ Marked(r, {})
<1>1. x \in Blocks /\ UsedIn(s) \subseteq s.map /\ s.map \subseteq Blocks
  BY VolumeType DEF Laid, Marked, LiveIn
<1>2. \A b \in Blocks, k \in Places : At(s, b, k) # x
  BY DEF Laid, Apart
<1>3. UsedIn(r) = UsedIn(s) \ {x}
  BY <1>2 DEF UsedIn
<1>4. Apart(r)
  BY DEF Laid, Apart
<1>5. Lost(r, {}) \subseteq Lost(s, {}) /\ r.faults \in Nat
  BY <1>3, VolumeType DEF Lost
<1>6. Cardinality(Lost(r, {})) <= r.faults
  BY <1>5, LostBound
<1> QED
  BY <1>1, <1>3, <1>4, <1>6 DEF Marked

\* The blocks in D are cut off, and are in hand.
LEMMA CutUse ==
  ASSUME NEW s, NEW r, NEW D, Laid(s, {}), r \in Volumes, LiveIn(r) = LiveIn(s),
         D \cap LiveIn(s) = {}, D \subseteq s.map,
         \A b \in Blocks, k \in Places :
           At(r, b, k) = IF At(s, b, k) \in D THEN NOBLOCK ELSE At(s, b, k),
         r.map = s.map, r.faults >= s.faults
  PROVE  Apart(r) /\ Marked(r, D)
<1>1. UsedIn(s) \subseteq s.map /\ s.map \subseteq Blocks /\ NOBLOCK \notin D
  BY VolumeType, Indices DEF Laid, Marked
<1>2. UsedIn(r) = UsedIn(s) \ D
  <2>1. UsedIn(r) \subseteq UsedIn(s) \ D
    BY <1>1, Indices DEF UsedIn, LiveIn
  <2>2. UsedIn(s) \ D \subseteq UsedIn(r)
    BY DEF UsedIn
  <2> QED
    BY <2>1, <2>2
<1>3. Apart(r)
  <2>1. ASSUME NEW b \in Blocks, NEW d \in Blocks, NEW k \in Places, NEW m \in Places,
               At(r, b, k) # NOBLOCK, At(r, b, k) = At(r, d, m)
        PROVE  b = d /\ k = m
    <3>1. At(r, b, k) = At(s, b, k) /\ At(r, d, m) = At(s, d, m)
      BY <2>1
    <3>2. \A b1, c1 \in Blocks, k1, l1 \in Places :
               At(s, b1, k1) # NOBLOCK /\ At(s, b1, k1) = At(s, c1, l1) => b1 = c1 /\ k1 = l1
      BY DEF Apart, Laid
    <3>3. At(s, b, k) # NOBLOCK /\ At(s, b, k) = At(s, d, m)
      BY <2>1, <3>1
    <3> QED
      BY <3>2, <3>3
  <2>2. ASSUME NEW b \in Blocks, NEW k \in Places  PROVE At(r, b, k) \notin LiveIn(r)
    <3>1. At(s, b, k) \notin LiveIn(s) /\ NOBLOCK \notin LiveIn(s)
      BY Indices DEF Laid, Apart, LiveIn
    <3> QED
      BY <3>1
  <2> QED
    BY <2>1, <2>2 DEF Apart
<1>4. Lost(r, D) \subseteq Lost(s, {}) /\ r.faults \in Nat
  BY <1>2, VolumeType DEF Lost
<1>5. Cardinality(Lost(r, D)) <= r.faults
  BY <1>4, LostBound
<1> QED
  BY <1>1, <1>2, <1>3, <1>5 DEF Marked

-----------------------------------------------------------------------------
(* What does not change the counts, and what changes nothing in use.       *)

LEMMA RowFrame ==
  ASSUME NEW s, NEW r, NEW b, NEW k \in Places, b \in LiveIn(r) <=> b \in LiveIn(s),
         b \in LiveIn(s) => /\ InodeIn(r, b) = InodeIn(s, b)
                            /\ LET d == InodeIn(s, b).ind IN d # NOBLOCK => r.disk[d] = s.disk[d]
  PROVE  At(r, b, k) = At(s, b, k)
<1>1. CASE b \in LiveIn(s)
  <2> DEFINE i == InodeIn(s, b)
  <2>1. i.ind # NOBLOCK => r.disk[i.ind] = s.disk[i.ind]
    BY <1>1
  <2>2. Listed(r, i, k) = Listed(s, i, k)
    <3> HIDE DEF i
    <3> QED
      BY <2>1, ListedFrame
  <2> QED
    BY <1>1, <2>2 DEF At
<1>2. CASE b \notin LiveIn(s)
  BY <1>2 DEF At
<1> QED
  BY <1>1, <1>2

LEMMA LiveFrame ==
  ASSUME NEW s, NEW r, r.dents = s.dents,
         \A b \in Blocks : r.vnodes[b] = NULL <=> s.vnodes[b] = NULL
  PROVE  LiveIn(r) = LiveIn(s)
BY DEF LiveIn

LEMMA LinkedFrame ==
  ASSUME NEW s, NEW r, Linked(s), LiveIn(r) = LiveIn(s), r.dents = s.dents,
         \A b \in LiveIn(s) : InodeIn(r, b).links = InodeIn(s, b).links
  PROVE  Linked(r)
BY DEF Linked, NamesOf

LEMMA CountedFrame ==
  ASSUME NEW s, NEW r, NEW H, Counted(s, H), s \in Volumes, r \in Volumes,
         \A b \in Blocks : /\ r.vnodes[b] = NULL <=> s.vnodes[b] = NULL
                           /\ s.vnodes[b] # NULL => r.vnodes[b].refs = s.vnodes[b].refs,
         r.faults >= s.faults
  PROVE  Counted(r, H) /\ Stray(r, H) = Stray(s, H)
<1>1. Stray(r, H) = Stray(s, H)
  BY DEF Stray
<1>2. Cardinality(Stray(s, H)) \in Nat /\ Stray(s, H) \subseteq Blocks
  <2>1. Stray(s, H) \subseteq Blocks
    BY DEF Stray
  <2> QED
    BY <2>1, Indices, FS_Subset, FS_CardinalityType
<1>3. Cardinality(Stray(r, H)) <= r.faults
  BY <1>1, <1>2, VolumeType DEF Counted
<1> QED
  BY <1>1, <1>3 DEF Counted

\* The frame of the lemmas that follow.
LEMMA Same ==
  ASSUME NEW s, NEW r, NEW X, NEW H, Sound(s, X, H), r \in Volumes, r.panic = "none",
         r.vnodes = s.vnodes, r.dents = s.dents, r.faults >= s.faults,
         \A b \in LiveIn(s) : r.disk[b] = s.disk[b],
         \A b \in LiveIn(s) : LET d == At(s, b, -1) IN d # NOBLOCK => r.disk[d] = s.disk[d]
  PROVE  /\ OnDisk(r) /\ Linked(r) /\ Counted(r, H)
         /\ LiveIn(r) = LiveIn(s)
         /\ \A b \in Blocks, k \in Places : At(r, b, k) = At(s, b, k)
<1>1. Laid(s, X) /\ Linked(s) /\ Counted(s, H) /\ s \in Volumes
  BY DEF Sound, Laid
<1>2. LiveIn(r) = LiveIn(s)
  BY LiveFrame
<1>3. \A b \in LiveIn(s) : r.disk[b] = s.disk[b] /\ b \in Blocks
  BY DEF LiveIn
<1>4. \A b \in LiveIn(s) : InodeIn(r, b) = InodeIn(s, b)
  BY <1>3 DEF InodeIn
<1>5. \A b \in LiveIn(s) : InodeIn(s, b).ind # NOBLOCK =>
        r.disk[InodeIn(s, b).ind] = s.disk[InodeIn(s, b).ind]
  <2> SUFFICES ASSUME NEW b \in LiveIn(s), InodeIn(s, b).ind # NOBLOCK
               PROVE  r.disk[InodeIn(s, b).ind] = s.disk[InodeIn(s, b).ind]
    OBVIOUS
  <2>1. At(s, b, -1) = InodeIn(s, b).ind
    BY <1>1, InUseOnce
  <2> QED
    BY <2>1
<1>6. \A b \in Blocks, k \in Places : At(r, b, k) = At(s, b, k)
  <2> TAKE b \in Blocks, k \in Places
  <2> QED
    BY <1>2, <1>4, <1>5, RowFrame
<1>7. OnDisk(r)
  <2> SUFFICES ASSUME NEW b \in LiveIn(s)
               PROVE /\ r.vnodes[b] = NULL => r.disk[b].kind = "inode"
                     /\ r.vnodes[b] # NULL /\ ~r.vnodes[b].dirty => r.disk[b] = Inode(r.vnodes[b].i)
                     /\ InodeIn(r, b).ind # NOBLOCK => Readable(r, InodeIn(r, b).ind)
    BY <1>2 DEF OnDisk
  <2>1. /\ s.vnodes[b] = NULL => s.disk[b].kind = "inode"
        /\ s.vnodes[b] # NULL /\ ~s.vnodes[b].dirty => s.disk[b] = Inode(s.vnodes[b].i)
        /\ InodeIn(s, b).ind # NOBLOCK => Readable(s, InodeIn(s, b).ind)
    BY <1>1 DEF Laid, OnDisk
  <2>2. InodeIn(r, b).ind # NOBLOCK => Readable(r, InodeIn(r, b).ind)
    BY <2>1, <1>4, <1>5 DEF Readable
  <2> QED
    BY <2>1, <2>2, <1>3
<1>8. Linked(r) /\ Counted(r, H)
  BY <1>1, <1>2, <1>4, LinkedFrame, CountedFrame
<1> QED
  BY <1>2, <1>6, <1>7, <1>8

\* Nothing in use changes.
LEMMA Kept ==
  ASSUME NEW s, NEW X, NEW r, NEW H, Sound(s, X, H), r \in Volumes, r.panic = "none",
         r.vnodes = s.vnodes, r.dents = s.dents, r.map = s.map, r.faults >= s.faults,
         ~r.mapdirty => r.diskmap = r.map,
         \A b \in LiveIn(s) : r.disk[b] = s.disk[b],
         \A b \in LiveIn(s) : LET d == At(s, b, -1) IN d # NOBLOCK => r.disk[d] = s.disk[d]
  PROVE  /\ Sound(r, X, H)
         /\ LiveIn(r) = LiveIn(s)
         /\ \A b \in Blocks, k \in Places : At(r, b, k) = At(s, b, k)
<1>1. /\ OnDisk(r) /\ Linked(r) /\ Counted(r, H)
      /\ LiveIn(r) = LiveIn(s)
      /\ \A b \in Blocks, k \in Places : At(r, b, k) = At(s, b, k)
  BY Same
<1>2. Apart(r) /\ Marked(r, X)
  BY <1>1, SameUse DEF Sound
<1> QED
  BY <1>1, <1>2 DEF Sound, Laid

\* A block is allocated.
LEMMA Taken ==
  ASSUME NEW s, NEW x \in Blocks, x \notin s.map,
         NEW r, NEW H, Sound(s, {}, H), r \in Volumes, r.panic = "none",
         r.vnodes = s.vnodes, r.dents = s.dents, r.map = s.map \cup {x}, r.faults >= s.faults,
         ~r.mapdirty => r.diskmap = r.map,
         \A b \in LiveIn(s) : r.disk[b] = s.disk[b],
         \A b \in LiveIn(s) : LET d == At(s, b, -1) IN d # NOBLOCK => r.disk[d] = s.disk[d]
  PROVE  /\ Sound(r, {x}, H)
         /\ LiveIn(r) = LiveIn(s)
         /\ \A b \in Blocks, k \in Places : At(r, b, k) = At(s, b, k)
<1>1. /\ OnDisk(r) /\ Linked(r) /\ Counted(r, H)
      /\ LiveIn(r) = LiveIn(s)
      /\ \A b \in Blocks, k \in Places : At(r, b, k) = At(s, b, k)
  BY Same
<1>2. Apart(r) /\ Marked(r, {x})
  BY <1>1, TakeUse DEF Sound
<1> QED
  BY <1>1, <1>2 DEF Sound, Laid

\* Blocks in hand are freed.
LEMMA GivenBack ==
  ASSUME NEW s, NEW X, NEW r, NEW H, Sound(s, X, H), r \in Volumes, r.panic = "none",
         r.vnodes = s.vnodes, r.dents = s.dents, r.map = s.map \ X, r.faults >= s.faults,
         ~r.mapdirty => r.diskmap = r.map,
         \A b \in LiveIn(s) : r.disk[b] = s.disk[b],
         \A b \in LiveIn(s) : LET d == At(s, b, -1) IN d # NOBLOCK => r.disk[d] = s.disk[d]
  PROVE  /\ Sound(r, {}, H)
         /\ LiveIn(r) = LiveIn(s)
         /\ \A b \in Blocks, k \in Places : At(r, b, k) = At(s, b, k)
<1>1. /\ OnDisk(r) /\ Linked(r) /\ Counted(r, H)
      /\ LiveIn(r) = LiveIn(s)
      /\ \A b \in Blocks, k \in Places : At(r, b, k) = At(s, b, k)
  BY Same
<1>2. Apart(r) /\ Marked(r, {})
  BY <1>1, GiveBackUse DEF Sound
<1> QED
  BY <1>1, <1>2 DEF Sound, Laid

\* It is forgotten.
LEMMA Forgotten ==
  ASSUME NEW s, NEW x, NEW r, NEW H, Sound(s, {x}, H), r \in Volumes, r.panic = "none",
         r.vnodes = s.vnodes, r.dents = s.dents, r.map = s.map, r.faults >= s.faults + 1,
         ~r.mapdirty => r.diskmap = r.map,
         \A b \in LiveIn(s) : r.disk[b] = s.disk[b],
         \A b \in LiveIn(s) : LET d == At(s, b, -1) IN d # NOBLOCK => r.disk[d] = s.disk[d]
  PROVE  /\ Sound(r, {}, H)
         /\ LiveIn(r) = LiveIn(s)
         /\ \A b \in Blocks, k \in Places : At(r, b, k) = At(s, b, k)
<1>0. r.faults >= s.faults
  BY VolumeType DEF Sound, Laid
<1>1. /\ OnDisk(r) /\ Linked(r) /\ Counted(r, H)
      /\ LiveIn(r) = LiveIn(s)
      /\ \A b \in Blocks, k \in Places : At(r, b, k) = At(s, b, k)
  BY <1>0, Same
<1>2. Apart(r) /\ Marked(r, {})
  BY <1>1, LoseUse DEF Sound
<1> QED
  BY <1>1, <1>2 DEF Sound, Laid

-----------------------------------------------------------------------------
(* A file's inode changes, in memory.                                      *)

Rewritten(s, r, ino, i) ==
  /\ r \in Volumes
  /\ r.map = s.map /\ r.mapdirty = s.mapdirty /\ r.diskmap = s.diskmap
  /\ r.dents = s.dents /\ r.faults = s.faults /\ r.panic = s.panic
  /\ r.vnodes = [s.vnodes EXCEPT ![ino] = [i |-> i, refs |-> s.vnodes[ino].refs, dirty |-> TRUE]]
  /\ \A b \in Blocks : b # ino => r.disk[b] = s.disk[b]

LEMMA VnodeFields ==
  ASSUME NEW v \in Vnodes
  PROVE  /\ \A i \in Inodes : /\ [v EXCEPT !.i = i] = [i |-> i, refs |-> v.refs, dirty |-> v.dirty]
                              /\ [v EXCEPT !.i = i] \in Vnodes
         /\ \A n \in Nat \ {0} : /\ [v EXCEPT !.refs = n] = [i |-> v.i, refs |-> n, dirty |-> v.dirty]
                                 /\ [v EXCEPT !.refs = n] \in Vnodes
         /\ \A d \in BOOLEAN : /\ [v EXCEPT !.dirty = d] = [i |-> v.i, refs |-> v.refs, dirty |-> d]
                               /\ [v EXCEPT !.dirty = d] \in Vnodes
<1>1. \A i \in Inodes : /\ [v EXCEPT !.i = i] = [i |-> i, refs |-> v.refs, dirty |-> v.dirty]
                        /\ [v EXCEPT !.i = i] \in Vnodes
  BY DEF Vnodes
<1>2. \A n \in Nat \ {0} : /\ [v EXCEPT !.refs = n] = [i |-> v.i, refs |-> n, dirty |-> v.dirty]
                           /\ [v EXCEPT !.refs = n] \in Vnodes
  BY DEF Vnodes
<1>3. \A d \in BOOLEAN : /\ [v EXCEPT !.dirty = d] = [i |-> v.i, refs |-> v.refs, dirty |-> d]
                         /\ [v EXCEPT !.dirty = d] \in Vnodes
  BY DEF Vnodes
<1> QED
  BY <1>1, <1>2, <1>3

LEMMA VnodeMade ==
  ASSUME NEW i \in Inodes, NEW n \in Nat \ {0}
  PROVE  /\ \A d \in BOOLEAN : /\ [i |-> i, refs |-> n, dirty |-> d] \in Vnodes
                               /\ [i |-> i, refs |-> n, dirty |-> d] # NULL
         /\ [i |-> i, refs |-> n, dirty |-> TRUE] \in Vnodes
         /\ [i |-> i, refs |-> n, dirty |-> TRUE] # NULL
         /\ [i |-> i, refs |-> n, dirty |-> FALSE] \in Vnodes
         /\ [i |-> i, refs |-> n, dirty |-> FALSE] # NULL
<1>1. \A d \in BOOLEAN : /\ [i |-> i, refs |-> n, dirty |-> d] \in Vnodes
                         /\ [i |-> i, refs |-> n, dirty |-> d] # NULL
  <2> TAKE d \in BOOLEAN
  <2>1. [i |-> i, refs |-> n, dirty |-> d] \in Vnodes
    BY DEF Vnodes
  <2> QED
    BY <2>1, NullAssumption
<1> DEFINE yes == TRUE
           no == FALSE
<1>2. yes \in BOOLEAN /\ no \in BOOLEAN
  OBVIOUS
<1>3. /\ [i |-> i, refs |-> n, dirty |-> yes] \in Vnodes
      /\ [i |-> i, refs |-> n, dirty |-> yes] # NULL
      /\ [i |-> i, refs |-> n, dirty |-> no] \in Vnodes
      /\ [i |-> i, refs |-> n, dirty |-> no] # NULL
  <2> HIDE DEF yes, no
  <2> QED
    BY <1>1, <1>2
<1> QED
  BY <1>1, <1>3

LEMMA SetDirtyOut ==
  ASSUME NEW s \in Volumes, NEW ino \in Blocks, s.vnodes[ino] # NULL, NEW i \in Inodes
  PROVE  LET u == [s EXCEPT !.vnodes = [s.vnodes EXCEPT ![ino] = [s.vnodes[ino] EXCEPT !.i = i]]]
         IN Rewritten(s, SetDirty(u, ino), ino, i)
<1> DEFINE v == s.vnodes[ino]
           w == [v EXCEPT !.i = i]
           u == [s EXCEPT !.vnodes = [s.vnodes EXCEPT ![ino] = w]]
           x == [w EXCEPT !.dirty = TRUE]
           r == SetDirty(u, ino)
<1>1. v \in Vnodes /\ v.i \in Inodes /\ v.refs \in Nat \ {0} /\ v.dirty \in BOOLEAN
  BY VnodeType
<1>2. w = [i |-> i, refs |-> v.refs, dirty |-> v.dirty] /\ w \in Vnodes
  BY <1>1, VnodeFields
<1>3. x = [i |-> i, refs |-> v.refs, dirty |-> TRUE] /\ x \in Vnodes
  <2> HIDE DEF w, v
  <2>1. w.i = i /\ w.refs = v.refs
    BY <1>2
  <2> QED
    BY <1>2, <2>1, VnodeFields
<1>4. /\ s.vnodes \in [Blocks -> Vnodes \cup {NULL}] /\ s.disk \in [Blocks -> Contents]
      /\ s.map \in SUBSET Blocks /\ s.mapdirty \in BOOLEAN
      /\ s.diskmap \in SUBSET Numbers /\ s.dents \in [Names -> Numbers]
      /\ s.faults \in Nat /\ s.panic \in Panics
      /\ s = [map |-> s.map, mapdirty |-> s.mapdirty, vnodes |-> s.vnodes,
              diskmap |-> s.diskmap, dents |-> s.dents, disk |-> s.disk,
              faults |-> s.faults, panic |-> s.panic]
  BY VolumeType
<1>5. u = [map |-> s.map, mapdirty |-> s.mapdirty, vnodes |-> [s.vnodes EXCEPT ![ino] = w],
           diskmap |-> s.diskmap, dents |-> s.dents, disk |-> s.disk,
           faults |-> s.faults, panic |-> s.panic]
  <2> HIDE DEF w
  <2> QED
    BY <1>4
<1>6. r = [u EXCEPT !.vnodes = [u.vnodes EXCEPT ![ino] = [u.vnodes[ino] EXCEPT !.dirty = TRUE]],
                    !.disk = [u.disk EXCEPT ![ino] = Stale]]
  BY DEF SetDirty
<1>7. /\ u.vnodes = [s.vnodes EXCEPT ![ino] = w] /\ u.vnodes[ino] = w
      /\ u.disk = s.disk
  <2> HIDE DEF w
  <2> QED
    BY <1>4, <1>5
<1>8. [u.vnodes EXCEPT ![ino] = [u.vnodes[ino] EXCEPT !.dirty = TRUE]] = [s.vnodes EXCEPT ![ino] = x]
  <2> HIDE DEF w
  <2> QED
    BY <1>4, <1>7
<1>9. r = [map |-> s.map, mapdirty |-> s.mapdirty, vnodes |-> [s.vnodes EXCEPT ![ino] = x],
           diskmap |-> s.diskmap, dents |-> s.dents, disk |-> [s.disk EXCEPT ![ino] = Stale],
           faults |-> s.faults, panic |-> s.panic]
  <2> HIDE DEF r, u, x
  <2> QED
    BY <1>5, <1>6, <1>7, <1>8
<1>10. /\ [s.vnodes EXCEPT ![ino] = x] \in [Blocks -> Vnodes \cup {NULL}]
       /\ [s.disk EXCEPT ![ino] = Stale] \in [Blocks -> Contents]
  <2> HIDE DEF x
  <2> QED
    BY <1>3, <1>4, KindsDiffer
<1>11. r \in Volumes
  <2> HIDE DEF r, x
  <2> QED
    BY <1>4, <1>9, <1>10 DEF Volumes
<1>12. Rewritten(s, r, ino, i)
  <2> HIDE DEF r, x
  <2>1. r.disk = [s.disk EXCEPT ![ino] = Stale]
    BY <1>9
  <2>2. \A b \in Blocks : b # ino => r.disk[b] = s.disk[b]
    BY <1>4, <2>1
  <2> QED
    BY <1>3, <1>9, <1>11, <2>2 DEF Rewritten
<1> QED
  BY <1>12

\* What that does to the files and the blocks they list.
NewRows(s, r, ino, i) ==
  /\ LiveIn(r) = LiveIn(s) /\ ino \in LiveIn(s)
  /\ InodeIn(r, ino) = i
  /\ \A b \in LiveIn(s) : b # ino => InodeIn(r, b) = InodeIn(s, b)
  /\ \A b \in Blocks, k \in Places :
       At(r, b, k) = IF b = ino THEN Listed(s, i, k) ELSE At(s, b, k)
  /\ OnDisk(r)
  /\ \A b \in Blocks : /\ r.vnodes[b] = NULL <=> s.vnodes[b] = NULL
                       /\ s.vnodes[b] # NULL => r.vnodes[b].refs = s.vnodes[b].refs

LEMMA RewrittenRows ==
  ASSUME NEW s, NEW r, NEW X, NEW ino \in Blocks, NEW i \in Inodes, Laid(s, X),
         s.vnodes[ino] # NULL, Rewritten(s, r, ino, i), i.ind \notin LiveIn(s),
         i.ind # NOBLOCK => Readable(s, i.ind)
  PROVE  NewRows(s, r, ino, i)
<1>1. /\ s \in Volumes /\ s.vnodes \in [Blocks -> Vnodes \cup {NULL}]
      /\ s.disk \in [Blocks -> Contents] /\ s.panic = "none"
  BY VolumeType DEF Laid
<1>2. /\ r \in Volumes /\ r.dents = s.dents /\ r.panic = "none"
      /\ r.vnodes = [s.vnodes EXCEPT ![ino] = [i |-> i, refs |-> s.vnodes[ino].refs, dirty |-> TRUE]]
      /\ \A b \in Blocks : b # ino => r.disk[b] = s.disk[b]
  BY <1>1 DEF Rewritten
<1>3. /\ r.vnodes[ino] = [i |-> i, refs |-> s.vnodes[ino].refs, dirty |-> TRUE]
      /\ r.vnodes[ino] # NULL
  <2>1. r.vnodes[ino] = [i |-> i, refs |-> s.vnodes[ino].refs, dirty |-> TRUE]
    BY <1>1, <1>2
  <2>2. s.vnodes[ino].refs \in Nat \ {0}
    BY <1>1, VnodeType
  <2>3. [i |-> i, refs |-> s.vnodes[ino].refs, dirty |-> TRUE] # NULL
    BY <2>2, VnodeMade
  <2> QED
    BY <2>1, <2>3
<1>4. \A b \in Blocks : b # ino => r.vnodes[b] = s.vnodes[b] /\ r.disk[b] = s.disk[b]
  BY <1>1, <1>2
<1>5. LiveIn(r) = LiveIn(s) /\ ino \in LiveIn(s)
  BY <1>2, <1>3, <1>4 DEF LiveIn
<1>6. InodeIn(r, ino) = i
  BY <1>3 DEF InodeIn
<1>7. \A b \in LiveIn(s) : b \in Blocks /\ (b # ino => InodeIn(r, b) = InodeIn(s, b))
  BY <1>4 DEF InodeIn, LiveIn
<1>8. ASSUME NEW b \in Blocks, NEW k \in Places, b # ino
      PROVE  At(r, b, k) = At(s, b, k)
  <2>1. ASSUME b \in LiveIn(s)
        PROVE  LET d == InodeIn(s, b).ind IN d # NOBLOCK => r.disk[d] = s.disk[d]
    <3>1. /\ InodeIn(s, b).ind = At(s, b, -1)
          /\ At(s, b, -1) # NOBLOCK => At(s, b, -1) \in Blocks /\ At(s, b, -1) \notin LiveIn(s)
      BY <2>1, InUseOnce, Indices
    <3> QED
      BY <3>1, <1>4, <1>5
  <2> QED
    BY <1>5, <1>7, <1>8, <2>1, RowFrame
<1>9. i.ind # NOBLOCK => i.ind \in Blocks /\ r.disk[i.ind] = s.disk[i.ind]
  <2>1. i.ind \in Numbers
    BY InodeType
  <2> QED
    BY <1>4, <1>5, <2>1 DEF Numbers
<1>10. ASSUME NEW k \in Places  PROVE At(r, ino, k) = Listed(s, i, k)
  <2>1. At(r, ino, k) = Listed(r, i, k)
    BY <1>5, <1>6 DEF At
  <2> QED
    BY <1>9, <2>1, ListedFrame
<1>11. OnDisk(r)
  <2> SUFFICES ASSUME NEW b \in LiveIn(s)
               PROVE /\ r.vnodes[b] = NULL => r.disk[b].kind = "inode"
                     /\ r.vnodes[b] # NULL /\ ~r.vnodes[b].dirty => r.disk[b] = Inode(r.vnodes[b].i)
                     /\ InodeIn(r, b).ind # NOBLOCK => Readable(r, InodeIn(r, b).ind)
    BY <1>5 DEF OnDisk
  <2>1. CASE b = ino
    <3>1. r.vnodes[b].dirty = TRUE
      BY <1>3, <2>1
    <3> QED
      BY <1>3, <1>6, <1>9, <2>1, <3>1 DEF Readable
  <2>2. CASE b # ino
    <3>1. /\ b \in Blocks /\ s.vnodes[b] = NULL => s.disk[b].kind = "inode"
          /\ s.vnodes[b] # NULL /\ ~s.vnodes[b].dirty => s.disk[b] = Inode(s.vnodes[b].i)
          /\ InodeIn(s, b).ind # NOBLOCK => Readable(s, InodeIn(s, b).ind)
      BY <1>7 DEF Laid, OnDisk
    <3>2. InodeIn(s, b).ind # NOBLOCK => r.disk[InodeIn(s, b).ind] = s.disk[InodeIn(s, b).ind]
      <4>1. /\ InodeIn(s, b).ind = At(s, b, -1)
            /\ At(s, b, -1) # NOBLOCK => At(s, b, -1) \in Blocks /\ At(s, b, -1) \notin LiveIn(s)
        BY <1>7, InUseOnce, Indices
      <4> QED
        BY <4>1, <1>4, <1>5
    <3> QED
      BY <1>4, <1>7, <2>2, <3>1, <3>2 DEF Readable
  <2> QED
    BY <2>1, <2>2
<1>12. \A b \in Blocks : /\ r.vnodes[b] = NULL <=> s.vnodes[b] = NULL
                         /\ s.vnodes[b] # NULL => r.vnodes[b].refs = s.vnodes[b].refs
  <2>1. r.vnodes[ino].refs = s.vnodes[ino].refs
    BY <1>3
  <2> QED
    BY <1>3, <1>4, <2>1
<1> QED
  BY <1>5, <1>6, <1>7, <1>8, <1>10, <1>11, <1>12 DEF NewRows

LEMMA InodeFields ==
  ASSUME NEW i \in Inodes
  PROVE  /\ \A d \in [DirectIx -> Numbers] :
              /\ [i EXCEPT !.direct = d] = [links |-> i.links, direct |-> d, ind |-> i.ind]
              /\ [i EXCEPT !.direct = d] \in Inodes
         /\ \A b \in Numbers :
              /\ [i EXCEPT !.ind = b] = [links |-> i.links, direct |-> i.direct, ind |-> b]
              /\ [i EXCEPT !.ind = b] \in Inodes
         /\ \A n \in Nat :
              /\ [i EXCEPT !.links = n] = [links |-> n, direct |-> i.direct, ind |-> i.ind]
              /\ [i EXCEPT !.links = n] \in Inodes
<1>1. \A d \in [DirectIx -> Numbers] :
        /\ [i EXCEPT !.direct = d] = [links |-> i.links, direct |-> d, ind |-> i.ind]
        /\ [i EXCEPT !.direct = d] \in Inodes
  BY DEF Inodes
<1>2. \A b \in Numbers :
        /\ [i EXCEPT !.ind = b] = [links |-> i.links, direct |-> i.direct, ind |-> b]
        /\ [i EXCEPT !.ind = b] \in Inodes
  BY DEF Inodes
<1>3. \A n \in Nat :
        /\ [i EXCEPT !.links = n] = [links |-> n, direct |-> i.direct, ind |-> i.ind]
        /\ [i EXCEPT !.links = n] \in Inodes
  BY DEF Inodes
<1> QED
  BY <1>1, <1>2, <1>3

\* All but the links and the uses of blocks.
LEMMA RewrittenSound ==
  ASSUME NEW s, NEW r, NEW X, NEW Y, NEW H, NEW ino \in Blocks, NEW i \in Inodes, Sound(s, X, H),
         s.vnodes[ino] # NULL, Rewritten(s, r, ino, i), i.ind \notin LiveIn(s),
         i.ind # NOBLOCK => Readable(s, i.ind), i.links = s.vnodes[ino].i.links,
         Apart(r), Marked(r, Y)
  PROVE  Sound(r, Y, H)
<1>1. Laid(s, X) /\ Linked(s) /\ Counted(s, H) /\ s \in Volumes
  BY DEF Sound, Laid
<1>2. /\ LiveIn(r) = LiveIn(s) /\ ino \in LiveIn(s)
      /\ InodeIn(r, ino) = i
      /\ \A b \in LiveIn(s) : b # ino => InodeIn(r, b) = InodeIn(s, b)
      /\ \A b \in Blocks, k \in Places :
           At(r, b, k) = IF b = ino THEN Listed(s, i, k) ELSE At(s, b, k)
      /\ OnDisk(r)
      /\ \A b \in Blocks : /\ r.vnodes[b] = NULL <=> s.vnodes[b] = NULL
                           /\ s.vnodes[b] # NULL => r.vnodes[b].refs = s.vnodes[b].refs
  <2>1. NewRows(s, r, ino, i)
    BY <1>1, RewrittenRows
  <2> QED
    BY <2>1 DEF NewRows
<1>3. /\ r \in Volumes /\ r.dents = s.dents /\ r.map = s.map /\ r.mapdirty = s.mapdirty
      /\ r.diskmap = s.diskmap /\ r.faults = s.faults /\ r.panic = "none"
  BY <1>1 DEF Rewritten, Laid
<1>4. \A b \in LiveIn(s) : InodeIn(r, b).links = InodeIn(s, b).links
  BY <1>2 DEF InodeIn
<1>5. Linked(r)
  BY <1>1, <1>2, <1>3, <1>4, LinkedFrame
<1>6. s.faults \in Nat /\ r.faults >= s.faults
  BY <1>1, <1>3, VolumeType
<1>7. Counted(r, H)
  BY <1>1, <1>2, <1>3, <1>6, CountedFrame
<1> QED
  BY <1>1, <1>2, <1>3, <1>5, <1>7 DEF Sound, Laid

\* The old inode of a file, in memory.
LEMMA InodeInMemory ==
  ASSUME NEW s, NEW X, Laid(s, X), NEW ino \in Blocks, s.vnodes[ino] # NULL
  PROVE  LET i == s.vnodes[ino].i IN
         /\ ino \in LiveIn(s) /\ InodeIn(s, ino) = i /\ i \in Inodes
         /\ i.links \in Nat /\ i.direct \in [DirectIx -> Numbers] /\ i.ind \in Numbers
         /\ \A k \in Places : At(s, ino, k) = Listed(s, i, k)
         /\ At(s, ino, -1) = i.ind /\ \A k \in DirectIx : At(s, ino, k) = i.direct[k]
         /\ i.ind \notin LiveIn(s)
         /\ i.ind # NOBLOCK => /\ i.ind \in Blocks /\ i.ind # ino /\ i.ind \in s.map
                               /\ Readable(s, i.ind)
                               /\ PointersIn(s, i.ind) \in [IndirectIx -> Numbers]
         /\ s.faults \in Nat
<1> DEFINE i == s.vnodes[ino].i
<1>1. ino \in LiveIn(s) /\ InodeIn(s, ino) = i
  BY DEF LiveIn, InodeIn
<1>2. s \in Volumes /\ OnDisk(s) /\ s.faults \in Nat
  BY VolumeType DEF Laid
<1>3. i \in Inodes
  BY <1>2, VnodeType
<1>4. i.links \in Nat /\ i.direct \in [DirectIx -> Numbers] /\ i.ind \in Numbers
  BY <1>3, InodeType
<1>5. \A k \in Places : At(s, ino, k) = Listed(s, i, k)
  BY <1>1 DEF At
<1>6. At(s, ino, -1) = i.ind /\ \A k \in DirectIx : At(s, ino, k) = i.direct[k]
  <2> HIDE DEF i
  <2> QED
    BY <1>5, ListedPlaces, Indices
<1>7. i.ind \notin LiveIn(s)
  <2>1. At(s, ino, -1) \notin LiveIn(s)
    BY <1>2, Indices DEF Laid, Apart
  <2> QED
    BY <1>6, <2>1
<1>8. i.ind # NOBLOCK => /\ i.ind \in Blocks /\ i.ind # ino /\ i.ind \in s.map
                         /\ Readable(s, i.ind)
                         /\ PointersIn(s, i.ind) \in [IndirectIx -> Numbers]
  <2>1. i.ind # NOBLOCK => /\ i.ind \in Blocks /\ Readable(s, i.ind)
                           /\ PointersIn(s, i.ind) \in [IndirectIx -> Numbers]
    BY <1>1, <1>2, LiveType
  <2>2. i.ind # NOBLOCK => i.ind \in s.map
    <3>1. At(s, ino, -1) # NOBLOCK => At(s, ino, -1) \in s.map
      BY InUseOnce, Indices
    <3> QED
      BY <3>1, <1>6
  <2> QED
    BY <1>1, <1>7, <2>1, <2>2
<1> QED
  BY <1>1, <1>2, <1>3, <1>4, <1>5, <1>6, <1>7, <1>8

\* The blocks stay where they are.
Unmoved(s, r, X, H) ==
  /\ Sound(r, X, H) /\ LiveIn(r) = LiveIn(s)
  /\ \A b \in Blocks, k \in Places : At(r, b, k) = At(s, b, k)

LEMMA DirtySound ==
  ASSUME NEW s, NEW r, NEW X, NEW H, NEW ino \in Blocks, Sound(s, X, H),
         s.vnodes[ino] # NULL, Rewritten(s, r, ino, s.vnodes[ino].i)
  PROVE  Unmoved(s, r, X, H)
<1> DEFINE i == s.vnodes[ino].i
<1>1. Laid(s, X) /\ s \in Volumes
  BY DEF Sound, Laid
<1>2. /\ i \in Inodes /\ i.ind \notin LiveIn(s) /\ (i.ind # NOBLOCK => Readable(s, i.ind))
      /\ \A k \in Places : At(s, ino, k) = Listed(s, i, k)
  BY <1>1, InodeInMemory
<1>3. Rewritten(s, r, ino, i) /\ i.links = s.vnodes[ino].i.links
  OBVIOUS
<1> HIDE DEF i
<1>4. NewRows(s, r, ino, i)
  BY <1>1, <1>2, <1>3, RewrittenRows
<1>5. /\ LiveIn(r) = LiveIn(s)
      /\ \A b \in Blocks, k \in Places : At(r, b, k) = At(s, b, k)
  BY <1>2, <1>4 DEF NewRows
<1>6. r \in Volumes /\ r.map = s.map /\ r.faults >= s.faults
  BY <1>1, VolumeType DEF Rewritten
<1>7. Apart(r) /\ Marked(r, X)
  BY <1>1, <1>5, <1>6, SameUse
<1>8. Sound(r, X, H)
  BY <1>2, <1>3, <1>7, RewrittenSound
<1> QED
  BY <1>5, <1>8 DEF Unmoved

\* The places of file b where there is data, and that they stay, or that file ino
\* may lose some of those in gone and get some of those in new.
Data(s, b) == {k \in FileBlocks : At(s, b, k) # NOBLOCK}
SameData(s, r) == \A b \in Blocks : Data(r, b) = Data(s, b)
Effect(s, r, ino, gone, new) ==
  /\ \A b \in Blocks : b # ino => Data(r, b) = Data(s, b)
  /\ Data(r, ino) \subseteq Data(s, ino) \cup new
  /\ Data(s, ino) \ gone \subseteq Data(r, ino)

LEMMA DataFrame ==
  ASSUME NEW s, NEW r, \A b \in Blocks, k \in Places : At(r, b, k) = At(s, b, k)
  PROVE  SameData(s, r)
<1>1. \A k \in FileBlocks : k \in Places
  BY Indices
<1> QED
  BY <1>1 DEF SameData, Data

LEMMA SameTransitive ==
  ASSUME NEW s, NEW u, NEW r, SameData(s, u), SameData(u, r)
  PROVE  SameData(s, r)
BY DEF SameData

LEMMA NoEffect ==
  ASSUME NEW s, NEW r, NEW ino \in Blocks, NEW gone, NEW new, SameData(s, r)
  PROVE  Effect(s, r, ino, gone, new)
<1>1. \A b \in Blocks : Data(r, b) = Data(s, b)
  BY DEF SameData
<1> QED
  BY <1>1, Zenon DEF Effect

LEMMA EffectTransitive ==
  ASSUME NEW s, NEW u, NEW r, NEW ino, NEW gone, NEW new,
         Effect(s, u, ino, gone, new), Effect(u, r, ino, gone, new)
  PROVE  Effect(s, r, ino, gone, new)
<1> DEFINE A == Data(s, ino)
           B == Data(u, ino)
           C == Data(r, ino)
<1>1. \A b \in Blocks : b # ino => Data(r, b) = Data(s, b)
  BY DEF Effect
<1>2. B \subseteq A \cup new /\ C \subseteq B \cup new /\ A \ gone \subseteq B /\ B \ gone \subseteq C
  BY DEF Effect
<1> HIDE DEF A, B, C
<1>3. C \subseteq A \cup new /\ A \ gone \subseteq C
  BY <1>2
<1> QED
  BY <1>1, <1>3 DEF Effect, A, C

LEMMA EffectAfter ==
  ASSUME NEW s, NEW u, NEW r, NEW ino \in Blocks, NEW gone, NEW new,
         SameData(s, u), Effect(u, r, ino, gone, new)
  PROVE  Effect(s, r, ino, gone, new)
BY NoEffect, EffectTransitive

\* x comes to a place l of file ino.
Placed(s, r, H, ino, l, x) ==
  /\ Sound(r, {}, H) /\ At(r, ino, l) = x
  /\ \A b \in Blocks, k \in Places : b # ino \/ k # l => At(r, b, k) = At(s, b, k)

LEMMA PlacedData ==
  ASSUME NEW s, NEW r, NEW H, NEW ino \in Blocks, NEW l, NEW x, Placed(s, r, H, ino, l, x)
  PROVE  /\ l = -1 => SameData(s, r)
         /\ At(s, ino, l) = NOBLOCK => Effect(s, r, ino, {}, {l})
<1>1. \A k \in FileBlocks : k \in Places /\ k # -1
  BY Indices
<1>2. \A b \in Blocks, k \in FileBlocks : b # ino \/ k # l => At(r, b, k) = At(s, b, k)
  BY <1>1 DEF Placed
<1>3. l = -1 => SameData(s, r)
  BY <1>1, <1>2 DEF SameData, Data
<1>4. ASSUME At(s, ino, l) = NOBLOCK
      PROVE  Effect(s, r, ino, {}, {l})
  <2>1. \A b \in Blocks : b # ino => Data(r, b) = Data(s, b)
    BY <1>2 DEF Data
  <2>2. Data(r, ino) \subseteq Data(s, ino) \cup {l}
    BY <1>2 DEF Data
  <2>3. Data(s, ino) \subseteq Data(r, ino)
    BY <1>2, <1>4 DEF Data
  <2> QED
    BY <2>1, <2>2, <2>3 DEF Effect
<1> QED
  BY <1>3, <1>4

\* Inode i is inode o with x as its direct block l.
PutIn(o, i, l, x) ==
  /\ i \in Inodes /\ i.links = o.links /\ i.ind = o.ind /\ i.direct[l] = x
  /\ \A m \in DirectIx : m # l => i.direct[m] = o.direct[m]

LEMMA PutDirect ==
  ASSUME NEW s, NEW r, NEW x, NEW H, NEW ino \in Blocks, NEW l \in DirectIx, Sound(s, {x}, H),
         s.vnodes[ino] # NULL, At(s, ino, l) = NOBLOCK,
         NEW i, Rewritten(s, r, ino, i), PutIn(s.vnodes[ino].i, i, l, x)
  PROVE  Placed(s, r, H, ino, l, x)
<1> DEFINE o == s.vnodes[ino].i
<1>1. Laid(s, {x}) /\ s \in Volumes
  BY DEF Sound, Laid
<1>2. /\ o \in Inodes /\ o.ind \notin LiveIn(s) /\ (o.ind # NOBLOCK => Readable(s, o.ind))
      /\ o.direct \in [DirectIx -> Numbers]
      /\ \A k \in Places : At(s, ino, k) = Listed(s, o, k)
  BY <1>1, InodeInMemory
<1>6. /\ i.links = o.links /\ i.ind = o.ind
      /\ \A m \in DirectIx : m # l => i.direct[m] = o.direct[m]
      /\ i \in Inodes /\ i.direct[l] = x
  BY DEF PutIn
<1> HIDE DEF o
<1>8. /\ LiveIn(r) = LiveIn(s)
      /\ \A b \in Blocks, k \in Places : At(r, b, k) = IF b = ino THEN Listed(s, i, k) ELSE At(s, b, k)
  <2>1. i.ind \notin LiveIn(s) /\ (i.ind # NOBLOCK => Readable(s, i.ind))
    BY <1>2, <1>6
  <2>2. NewRows(s, r, ino, i)
    BY <1>1, <1>6, <2>1, RewrittenRows
  <2> QED
    BY <2>2 DEF NewRows
<1>9. Listed(s, i, l) = x
  <2>1. Listed(s, i, l) = i.direct[l]
    BY ListedPlaces
  <2> QED
    BY <1>6, <2>1
<1>10. \A k \in Places : k # l => Listed(s, i, k) = Listed(s, o, k)
  <2> TAKE k \in Places
  <2>1. CASE k = -1
    <3>1. Listed(s, i, -1) = i.ind /\ Listed(s, o, -1) = o.ind
      BY ListedPlaces
    <3> QED
      BY <1>6, <2>1, <3>1
  <2>2. CASE k \in DirectIx
    <3>1. Listed(s, i, k) = i.direct[k] /\ Listed(s, o, k) = o.direct[k]
      BY <2>2, ListedPlaces
    <3> QED
      BY <1>2, <1>6, <2>2, <3>1
  <2>3. CASE k # -1 /\ k \notin DirectIx
    <3>1. /\ Listed(s, i, k) = IF i.ind = NOBLOCK THEN NOBLOCK ELSE PointersIn(s, i.ind)[k - NDIRECT]
          /\ Listed(s, o, k) = IF o.ind = NOBLOCK THEN NOBLOCK ELSE PointersIn(s, o.ind)[k - NDIRECT]
      BY <2>3, ListedPlaces
    <3> QED
      BY <1>6, <3>1
  <2> QED
    BY <2>1, <2>2, <2>3
<1>11. l \in Places /\ At(r, ino, l) = x
  BY <1>8, <1>9, Indices
<1>12. \A b \in Blocks, k \in Places : b # ino \/ k # l => At(r, b, k) = At(s, b, k)
  BY <1>2, <1>8, <1>10
<1>13. r \in Volumes /\ r.map = s.map /\ r.faults >= s.faults
  BY <1>1, VolumeType DEF Rewritten
<1>14. Apart(r) /\ Marked(r, {})
  BY <1>1, <1>8, <1>11, <1>12, <1>13, PutUse
<1>15. /\ i.links = s.vnodes[ino].i.links
       /\ i.ind \notin LiveIn(s) /\ (i.ind # NOBLOCK => Readable(s, i.ind))
  BY <1>2, <1>6 DEF o
<1>16. Sound(r, {}, H)
  BY <1>6, <1>14, <1>15, RewrittenSound
<1> QED
  BY <1>11, <1>12, <1>16 DEF Placed

LEMMA PutIndirect ==
  ASSUME NEW s, NEW r, NEW x, NEW H, NEW ino \in Blocks, Sound(s, {x}, H),
         s.vnodes[ino] # NULL, s.vnodes[ino].i.ind = NOBLOCK, s.disk[x] = Zeros,
         Rewritten(s, r, ino, [s.vnodes[ino].i EXCEPT !.ind = x])
  PROVE  Placed(s, r, H, ino, -1, x)
<1> DEFINE o == s.vnodes[ino].i
           i == [o EXCEPT !.ind = x]
<1>1. Laid(s, {x}) /\ s \in Volumes
  BY DEF Sound, Laid
<1>2. /\ o \in Inodes /\ o.ind = NOBLOCK
      /\ o.direct \in [DirectIx -> Numbers]
      /\ \A k \in Places : At(s, ino, k) = Listed(s, o, k)
  BY <1>1, InodeInMemory
<1>3. x \in Numbers /\ x \in Blocks /\ x \notin LiveIn(s)
  BY <1>1, InUseOnce DEF Numbers
<1>4. i = [links |-> o.links, direct |-> o.direct, ind |-> x] /\ i \in Inodes
  BY <1>2, <1>3, InodeFields
<1>5. i.links = o.links /\ i.ind = x /\ i.direct = o.direct
  BY <1>4
<1>6. Rewritten(s, r, ino, i) /\ i.links = s.vnodes[ino].i.links
  BY <1>5
<1> HIDE DEF i, o
<1>7. i.ind \notin LiveIn(s) /\ (i.ind # NOBLOCK => Readable(s, i.ind))
  BY <1>3, <1>5, KindsDiffer DEF Readable
<1>8. /\ LiveIn(r) = LiveIn(s)
      /\ \A b \in Blocks, k \in Places : At(r, b, k) = IF b = ino THEN Listed(s, i, k) ELSE At(s, b, k)
  <2>1. NewRows(s, r, ino, i)
    BY <1>1, <1>4, <1>6, <1>7, RewrittenRows
  <2> QED
    BY <2>1 DEF NewRows
<1>9. Listed(s, i, -1) = x /\ Listed(s, o, -1) = NOBLOCK
  <2>1. Listed(s, i, -1) = i.ind
    BY ListedPlaces
  <2>2. Listed(s, o, -1) = o.ind
    BY ListedPlaces
  <2> QED
    BY <1>2, <1>5, <2>1, <2>2
<1>10. \A k \in Places : k # -1 => Listed(s, i, k) = Listed(s, o, k)
  <2> TAKE k \in Places
  <2>1. CASE k \in DirectIx
    <3>1. Listed(s, i, k) = i.direct[k] /\ Listed(s, o, k) = o.direct[k]
      BY <2>1, ListedPlaces
    <3> QED
      BY <1>5, <3>1
  <2>2. CASE k # -1 /\ k \notin DirectIx
    <3>1. Listed(s, i, k) = IF i.ind = NOBLOCK THEN NOBLOCK ELSE PointersIn(s, i.ind)[k - NDIRECT]
      BY <2>2, ListedPlaces
    <3>2. Listed(s, o, k) = NOBLOCK
      <4>1. Listed(s, o, k) = IF o.ind = NOBLOCK THEN NOBLOCK ELSE PointersIn(s, o.ind)[k - NDIRECT]
        BY <2>2, ListedPlaces
      <4> QED
        BY <1>2, <4>1
    <3>3. PointersIn(s, x)[k - NDIRECT] = NOBLOCK
      BY <2>2, Indices DEF PointersIn, NoPointers
    <3> QED
      BY <1>5, <3>1, <3>2, <3>3
  <2> QED
    BY <2>1, <2>2
<1>11. At(r, ino, -1) = x /\ At(s, ino, -1) = NOBLOCK /\ -1 \in Places
  BY <1>2, <1>8, <1>9, Indices
<1>12. \A b \in Blocks, k \in Places : b # ino \/ k # -1 => At(r, b, k) = At(s, b, k)
  BY <1>2, <1>8, <1>10
<1>13. r \in Volumes /\ r.map = s.map /\ r.faults >= s.faults
  BY <1>1, VolumeType DEF Rewritten
<1>14. Apart(r) /\ Marked(r, {})
  BY <1>1, <1>8, <1>11, <1>12, <1>13, PutUse
<1>15. Sound(r, {}, H)
  <2>1. Apart(r) /\ Marked(r, {}) /\ i \in Inodes
    BY <1>4, <1>14
  <2> QED
    BY <1>6, <1>7, <2>1, RewrittenSound
<1> QED
  BY <1>11, <1>12, <1>15 DEF Placed

\* A block number is written to an indirect block.
Stored(s, r, d, c) ==
  /\ r \in Volumes
  /\ r.map = s.map /\ r.mapdirty = s.mapdirty /\ r.diskmap = s.diskmap
  /\ r.dents = s.dents /\ r.faults = s.faults /\ r.panic = s.panic /\ r.vnodes = s.vnodes
  /\ r.disk = [s.disk EXCEPT ![d] = c]
LEMMA PointersBack ==
  ASSUME NEW p \in [IndirectIx -> Numbers]
  PROVE  /\ Pointers(p) \in Contents /\ Pointers(p).kind \in {"zeros", "ptrs"}
         /\ \A r, d : r.disk[d] = Pointers(p) => PointersIn(r, d) = p
<1>1. CASE \A j \in IndirectIx : p[j] = NOBLOCK
  <2>1. Pointers(p) = Zeros
    BY <1>1 DEF Pointers
  <2>2. p = NoPointers
    BY <1>1 DEF NoPointers
  <2> QED
    BY <2>1, <2>2, KindsDiffer DEF PointersIn
<1>2. CASE ~\A j \in IndirectIx : p[j] = NOBLOCK
  <2>1. Pointers(p) = [kind |-> "ptrs", p |-> p]
    BY <1>2 DEF Pointers
  <2>2. [kind |-> "ptrs", p |-> p] \in Contents /\ [kind |-> "ptrs", p |-> p] # Zeros
    BY KindsDiffer DEF Contents
  <2> QED
    BY <2>1, <2>2 DEF PointersIn
<1> QED
  BY <1>1, <1>2

\* What it does to store p in the indirect block d of ino.
NewEntries(s, r, ino, p) ==
  /\ LiveIn(r) = LiveIn(s) /\ Linked(r) /\ OnDisk(r)
  /\ \A b \in Blocks, k \in Places :
       At(r, b, k) = IF b = ino /\ k # -1 /\ k \notin DirectIx THEN p[k - NDIRECT] ELSE At(s, b, k)
  /\ r.map = s.map /\ r.faults >= s.faults

LEMMA StoredRows ==
  ASSUME NEW s, NEW r, NEW X, NEW H, NEW ino \in Blocks, Sound(s, X, H),
         s.vnodes[ino] # NULL, NEW d \in Blocks, At(s, ino, -1) = d,
         NEW p \in [IndirectIx -> Numbers], Stored(s, r, d, Pointers(p))
  PROVE  NewEntries(s, r, ino, p) /\ Counted(r, H)
<1> DEFINE o == s.vnodes[ino].i
<1>1. /\ Laid(s, X) /\ Linked(s) /\ Counted(s, H) /\ s \in Volumes /\ s.panic = "none" /\ OnDisk(s)
      /\ s.disk \in [Blocks -> Contents] /\ s.faults \in Nat
  BY VolumeType DEF Sound, Laid
<1>2. /\ o \in Inodes /\ o.ind = d /\ d \notin LiveIn(s) /\ ino \in LiveIn(s) /\ InodeIn(s, ino) = o
      /\ \A k \in Places : At(s, ino, k) = Listed(s, o, k)
      /\ d # NOBLOCK
  BY <1>1, InodeInMemory, Indices
<1>3. /\ r.dents = s.dents /\ r.faults = s.faults /\ r.panic = s.panic /\ r.vnodes = s.vnodes
      /\ r.disk = [s.disk EXCEPT ![d] = Pointers(p)] /\ r \in Volumes /\ r.map = s.map
  BY DEF Stored
<1>4. LiveIn(r) = LiveIn(s)
  BY <1>3 DEF LiveIn
<1>5. /\ \A b \in Blocks : b # d => r.disk[b] = s.disk[b]
      /\ r.disk[d] = Pointers(p)
  BY <1>1, <1>3
<1>6. \A b \in LiveIn(s) : b \in Blocks /\ b # d /\ InodeIn(r, b) = InodeIn(s, b)
  BY <1>2, <1>3, <1>5 DEF InodeIn, LiveIn
<1>7. PointersIn(r, d) = p
  BY <1>5, PointersBack
<1>8. ASSUME NEW b \in Blocks, NEW k \in Places, b # ino
      PROVE  At(r, b, k) = At(s, b, k)
  <2>1. ASSUME b \in LiveIn(s)
        PROVE  LET f == InodeIn(s, b).ind IN f # NOBLOCK => r.disk[f] = s.disk[f]
    <3>1. InodeIn(s, b).ind = At(s, b, -1)
      BY <1>1, <2>1, InUseOnce
    <3>2. At(s, b, -1) # NOBLOCK => At(s, b, -1) \in Blocks
      BY <1>1, InUseOnce, Indices
    <3>3. At(s, b, -1) # d
      BY <1>1, <1>2, <1>8, InUseOnce, Indices
    <3> QED
      BY <3>1, <3>2, <3>3, <1>5
  <2>2. /\ b \in LiveIn(r) <=> b \in LiveIn(s)
        /\ b \in LiveIn(s) => InodeIn(r, b) = InodeIn(s, b)
    BY <1>4, <1>6
  <2> QED
    BY <2>1, <2>2, RowFrame
<1>9. ASSUME NEW k \in Places
      PROVE  At(r, ino, k) = IF k # -1 /\ k \notin DirectIx THEN p[k - NDIRECT] ELSE At(s, ino, k)
  <2>1. At(r, ino, k) = Listed(r, o, k) /\ At(s, ino, k) = Listed(s, o, k)
    BY <1>2, <1>4, <1>6 DEF At
  <2> HIDE DEF o
  <2>2. CASE k = -1
    <3>1. Listed(r, o, -1) = o.ind
      BY ListedPlaces
    <3>2. Listed(s, o, -1) = o.ind
      BY ListedPlaces
    <3> QED
      BY <2>1, <2>2, <3>1, <3>2
  <2>3. CASE k \in DirectIx
    <3>1. Listed(r, o, k) = o.direct[k]
      BY <2>3, ListedPlaces
    <3>2. Listed(s, o, k) = o.direct[k]
      BY <2>3, ListedPlaces
    <3> QED
      BY <2>1, <2>3, <3>1, <3>2
  <2>4. CASE k # -1 /\ k \notin DirectIx
    <3>1. Listed(r, o, k) = IF o.ind = NOBLOCK THEN NOBLOCK ELSE PointersIn(r, o.ind)[k - NDIRECT]
      BY <2>4, ListedPlaces
    <3> QED
      BY <1>2, <1>7, <2>1, <2>4, <3>1
  <2> QED
    BY <2>2, <2>3, <2>4
<1>10. \A b \in Blocks, k \in Places :
         At(r, b, k) = IF b = ino /\ k # -1 /\ k \notin DirectIx THEN p[k - NDIRECT] ELSE At(s, b, k)
  BY <1>8, <1>9
<1>11. OnDisk(r)
  <2> SUFFICES ASSUME NEW b \in LiveIn(s)
               PROVE /\ r.vnodes[b] = NULL => r.disk[b].kind = "inode"
                     /\ r.vnodes[b] # NULL /\ ~r.vnodes[b].dirty => r.disk[b] = Inode(r.vnodes[b].i)
                     /\ InodeIn(r, b).ind # NOBLOCK => Readable(r, InodeIn(r, b).ind)
    BY <1>4 DEF OnDisk
  <2>1. /\ s.vnodes[b] = NULL => s.disk[b].kind = "inode"
        /\ s.vnodes[b] # NULL /\ ~s.vnodes[b].dirty => s.disk[b] = Inode(s.vnodes[b].i)
        /\ InodeIn(s, b).ind # NOBLOCK => Readable(s, InodeIn(s, b).ind)
    BY <1>1 DEF OnDisk
  <2>2. InodeIn(s, b).ind # NOBLOCK => InodeIn(s, b).ind \in Blocks
    BY <1>1, LiveType
  <2>3. Readable(r, d)
    BY <1>5, PointersBack DEF Readable
  <2>4. InodeIn(s, b).ind # NOBLOCK => Readable(r, InodeIn(s, b).ind)
    BY <1>5, <2>1, <2>2, <2>3 DEF Readable
  <2> QED
    BY <1>3, <1>5, <1>6, <2>1, <2>4
<1>12. Linked(r)
  BY <1>1, <1>3, <1>4, <1>6, LinkedFrame
<1>13. r.faults >= s.faults
  BY <1>1, <1>3
<1>14. Counted(r, H)
  BY <1>1, <1>3, <1>13, CountedFrame
<1> QED
  BY <1>3, <1>4, <1>10, <1>11, <1>12, <1>13, <1>14 DEF NewEntries

LEMMA PutEntry ==
  ASSUME NEW s, NEW r, NEW x, NEW H, NEW ino \in Blocks, NEW j \in IndirectIx, Sound(s, {x}, H),
         s.vnodes[ino] # NULL, NEW d \in Blocks, At(s, ino, -1) = d,
         At(s, ino, j + NDIRECT) = NOBLOCK,
         NEW p \in [IndirectIx -> Numbers], p[j] = x,
         \A m \in IndirectIx : m # j => p[m] = PointersIn(s, d)[m],
         Stored(s, r, d, Pointers(p))
  PROVE  Placed(s, r, H, ino, j + NDIRECT, x)
<1> DEFINE q == PointersIn(s, d)
           l == j + NDIRECT
<1>1. /\ Laid(s, {x}) /\ s \in Volumes /\ s.panic = "none"
  BY DEF Sound, Laid
<1>2. /\ q \in [IndirectIx -> Numbers] /\ d # NOBLOCK
      /\ \A k \in Places : At(s, ino, k) = Listed(s, s.vnodes[ino].i, k)
      /\ s.vnodes[ino].i.ind = d
  BY <1>1, InodeInMemory, Indices
<1>3. x \in Blocks /\ x \in Numbers
  BY <1>1, InUseOnce DEF Numbers
<1>5. p \in [IndirectIx -> Numbers] /\ p[j] = x /\ \A m \in IndirectIx : m # j => p[m] = q[m]
  OBVIOUS
<1> HIDE DEF q
<1> HIDE DEF l
<1>6. NewEntries(s, r, ino, p) /\ Counted(r, H)
  BY StoredRows
<1>7. l \in Places /\ l # -1 /\ l \notin DirectIx /\ l - NDIRECT = j
  BY Indices DEF l
<1>8. At(r, ino, l) = x /\ At(s, ino, l) = NOBLOCK
  BY <1>5, <1>6, <1>7 DEF NewEntries, l
<1>9. ASSUME NEW b \in Blocks, NEW k \in Places, b # ino \/ k # l
      PROVE  At(r, b, k) = At(s, b, k)
  <2>1. CASE ~(b = ino /\ k # -1 /\ k \notin DirectIx)
    BY <1>6, <2>1 DEF NewEntries
  <2>2. CASE b = ino /\ k # -1 /\ k \notin DirectIx
    <3>1. k - NDIRECT \in IndirectIx
      BY <2>2, Indices
    <3>2. k - NDIRECT # j
      BY <1>9, <2>2, SfsAssumption DEF l, IndirectIx, Places, FileBlocks
    <3>3. At(r, b, k) = q[k - NDIRECT]
      BY <1>5, <1>6, <2>2, <3>1, <3>2 DEF NewEntries
    <3> DEFINE o == s.vnodes[ino].i
    <3>4. At(s, b, k) = Listed(s, o, k) /\ o.ind = d
      BY <1>2, <2>2
    <3> HIDE DEF o
    <3>5. Listed(s, o, k) = IF o.ind = NOBLOCK THEN NOBLOCK ELSE PointersIn(s, o.ind)[k - NDIRECT]
      BY <2>2, ListedEntry
    <3> QED
      BY <1>2, <3>3, <3>4, <3>5 DEF q
  <2> QED
    BY <2>1, <2>2
<1>10. r \in Volumes /\ LiveIn(r) = LiveIn(s) /\ r.map = s.map /\ r.faults >= s.faults
  BY <1>6 DEF Stored, NewEntries
<1>11. Apart(r) /\ Marked(r, {})
  BY <1>1, <1>7, <1>8, <1>9, <1>10, PutUse
<1>12. r.panic = "none" /\ (~r.mapdirty => r.diskmap = r.map)
  BY <1>1 DEF Stored, Laid
<1>13. Sound(r, {}, H)
  BY <1>6, <1>10, <1>11, <1>12 DEF Sound, Laid, NewEntries
<1>14. \A b \in Blocks, k \in Places : b # ino \/ k # l => At(r, b, k) = At(s, b, k)
  BY <1>9
<1> QED
  BY <1>8, <1>13, <1>14 DEF Placed, l

-----------------------------------------------------------------------------
(* Blocks are cut off a file.                                              *)

\* The blocks of ino at the places P.
Part(s, ino, P) == {At(s, ino, k) : k \in P} \ {NOBLOCK}

LEMMA PartOnly ==
  ASSUME NEW s, NEW X, Laid(s, X), NEW ino \in Blocks, NEW P \in SUBSET Places
  PROVE  LET D == Part(s, ino, P) IN
         /\ D \cap LiveIn(s) = {} /\ D \subseteq s.map /\ D \subseteq Blocks
         /\ \A b \in Blocks, k \in Places :
              At(s, b, k) \in D <=> b = ino /\ k \in P /\ At(s, b, k) # NOBLOCK
<1> DEFINE D == Part(s, ino, P)
<1>1. ASSUME NEW x \in D
      PROVE  \E k \in P : k \in Places /\ x = At(s, ino, k) /\ x # NOBLOCK
  BY DEF Part
<1>2. \A x \in D : x \notin LiveIn(s) /\ x \in s.map /\ x \in Blocks
  BY <1>1, InUseOnce
<1>3. ASSUME NEW b \in Blocks, NEW k \in Places, At(s, b, k) \in D
      PROVE  b = ino /\ k \in P /\ At(s, b, k) # NOBLOCK
  <2>1. PICK l \in P : l \in Places /\ At(s, b, k) = At(s, ino, l) /\ At(s, b, k) # NOBLOCK
    BY <1>1, <1>3
  <2>2. b = ino /\ k = l
    BY <2>1, InUseOnce
  <2> QED
    BY <2>1, <2>2
<1>4. \A k \in P : At(s, ino, k) # NOBLOCK => At(s, ino, k) \in D
  BY DEF Part
<1> QED
  BY <1>2, <1>3, <1>4

\* They are cut off, and in hand.
Detached(s, r, ino, H, P) ==
  /\ Sound(r, Part(s, ino, P), H)
  /\ \A b \in Blocks, k \in Places :
       At(r, b, k) = IF b = ino /\ k \in P THEN NOBLOCK ELSE At(s, b, k)

\* Inode i is inode o without the direct blocks K, or without its indirect block;
\* entries p are q without J.
CutOff(o, i, K) ==
  /\ i \in Inodes /\ i.links = o.links /\ i.ind = o.ind
  /\ \A k \in DirectIx : i.direct[k] = IF k \in K THEN NOBLOCK ELSE o.direct[k]
CutIndirect(o, i) ==
  i \in Inodes /\ i.links = o.links /\ i.ind = NOBLOCK /\ i.direct = o.direct
CutEntries(q, p, J) ==
  /\ p \in [IndirectIx -> Numbers]
  /\ \A j \in IndirectIx : p[j] = IF j \in J THEN NOBLOCK ELSE q[j]

LEMMA DetachDirect ==
  ASSUME NEW s, NEW r, NEW H, NEW ino \in Blocks, NEW K \in SUBSET DirectIx, Sound(s, {}, H),
         s.vnodes[ino] # NULL,
         NEW i, Rewritten(s, r, ino, i), CutOff(s.vnodes[ino].i, i, K)
  PROVE  Detached(s, r, ino, H, K)
<1> DEFINE o == s.vnodes[ino].i
           D == Part(s, ino, K)
<1>1. Laid(s, {}) /\ s \in Volumes
  BY DEF Sound, Laid
<1>2. /\ o \in Inodes /\ o.ind \notin LiveIn(s) /\ (o.ind # NOBLOCK => Readable(s, o.ind))
      /\ o.direct \in [DirectIx -> Numbers]
      /\ \A k \in Places : At(s, ino, k) = Listed(s, o, k)
  BY <1>1, InodeInMemory
<1>5. /\ i.links = o.links /\ i.ind = o.ind /\ i \in Inodes
      /\ \A k \in DirectIx : i.direct[k] = IF k \in K THEN NOBLOCK ELSE o.direct[k]
  BY DEF CutOff
<1>6. i.links = s.vnodes[ino].i.links
  BY <1>5
<1>7. i.ind \notin LiveIn(s) /\ (i.ind # NOBLOCK => Readable(s, i.ind))
  BY <1>2, <1>5
<1>8. /\ LiveIn(r) = LiveIn(s)
      /\ \A b \in Blocks, k \in Places : At(r, b, k) = IF b = ino THEN Listed(s, i, k) ELSE At(s, b, k)
  <2>1. NewRows(s, r, ino, i)
    BY <1>1, <1>5, <1>7, RewrittenRows
  <2> QED
    BY <2>1 DEF NewRows
<1>9. \A k \in Places : Listed(s, i, k) = IF k \in K THEN NOBLOCK ELSE Listed(s, o, k)
  <2> HIDE DEF o
  <2> TAKE k \in Places
  <2>1. CASE k = -1
    <3>1. Listed(s, i, -1) = i.ind
      BY ListedPlaces
    <3>2. Listed(s, o, -1) = o.ind
      BY ListedPlaces
    <3>3. -1 \notin K
      BY Indices
    <3> QED
      BY <1>5, <2>1, <3>1, <3>2, <3>3
  <2>2. CASE k \in DirectIx
    <3>1. Listed(s, i, k) = i.direct[k]
      BY <2>2, ListedPlaces
    <3>2. Listed(s, o, k) = o.direct[k]
      BY <2>2, ListedPlaces
    <3>3. i.direct[k] = IF k \in K THEN NOBLOCK ELSE o.direct[k]
      BY <1>5, <2>2
    <3> QED
      BY <3>1, <3>2, <3>3
  <2>3. CASE k # -1 /\ k \notin DirectIx
    <3>1. Listed(s, i, k) = IF i.ind = NOBLOCK THEN NOBLOCK ELSE PointersIn(s, i.ind)[k - NDIRECT]
      BY <2>3, ListedPlaces
    <3>2. Listed(s, o, k) = IF o.ind = NOBLOCK THEN NOBLOCK ELSE PointersIn(s, o.ind)[k - NDIRECT]
      BY <2>3, ListedPlaces
    <3> QED
      BY <1>5, <2>3, <3>1, <3>2
  <2> QED
    BY <2>1, <2>2, <2>3
<1>10. \A b \in Blocks, k \in Places :
         At(r, b, k) = IF b = ino /\ k \in K THEN NOBLOCK ELSE At(s, b, k)
  BY <1>2, <1>8, <1>9
<1>11. K \in SUBSET Places
  BY Indices
<1>12. /\ D \cap LiveIn(s) = {} /\ D \subseteq s.map
       /\ \A b \in Blocks, k \in Places :
            At(s, b, k) \in D <=> b = ino /\ k \in K /\ At(s, b, k) # NOBLOCK
  BY <1>1, <1>11, PartOnly
<1> HIDE DEF D
<1>13. \A b \in Blocks, k \in Places : At(r, b, k) = IF At(s, b, k) \in D THEN NOBLOCK ELSE At(s, b, k)
  BY <1>10, <1>12
<1>14. r \in Volumes /\ r.map = s.map /\ r.faults >= s.faults
  BY <1>1, VolumeType DEF Rewritten
<1>15. Apart(r) /\ Marked(r, D)
  BY <1>1, <1>8, <1>12, <1>13, <1>14, CutUse
<1>16. Sound(r, D, H)
  BY <1>5, <1>6, <1>7, <1>15, RewrittenSound
<1> QED
  BY <1>10, <1>16 DEF D, Detached

\* The places an indirect block stands for, itself included.
IndirectPlaces == Places \ DirectIx

LEMMA DetachIndirect ==
  ASSUME NEW s, NEW r, NEW H, NEW ino \in Blocks, Sound(s, {}, H),
         s.vnodes[ino] # NULL,
         NEW i, Rewritten(s, r, ino, i), CutIndirect(s.vnodes[ino].i, i)
  PROVE  Detached(s, r, ino, H, IndirectPlaces)
<1> DEFINE o == s.vnodes[ino].i
           D == Part(s, ino, IndirectPlaces)
<1>1. Laid(s, {}) /\ s \in Volumes
  BY DEF Sound, Laid
<1>2. /\ o \in Inodes
      /\ \A k \in Places : At(s, ino, k) = Listed(s, o, k)
  BY <1>1, InodeInMemory
<1>3. i.links = o.links /\ i.ind = NOBLOCK /\ i.direct = o.direct /\ i \in Inodes
  BY DEF CutIndirect
<1>4. Rewritten(s, r, ino, i) /\ i.links = s.vnodes[ino].i.links
  BY <1>3
<1>5. i.ind \notin LiveIn(s) /\ (i.ind # NOBLOCK => Readable(s, i.ind))
  BY <1>3, Indices DEF LiveIn
<1>6. /\ LiveIn(r) = LiveIn(s)
      /\ \A b \in Blocks, k \in Places : At(r, b, k) = IF b = ino THEN Listed(s, i, k) ELSE At(s, b, k)
  <2>1. NewRows(s, r, ino, i)
    BY <1>1, <1>3, <1>4, <1>5, RewrittenRows
  <2> QED
    BY <2>1 DEF NewRows
<1>7. \A k \in Places : Listed(s, i, k) = IF k \notin DirectIx THEN NOBLOCK ELSE Listed(s, o, k)
  <2> HIDE DEF o
  <2> TAKE k \in Places
  <2>1. CASE k = -1
    <3>1. Listed(s, i, -1) = i.ind
      BY ListedPlaces
    <3>2. -1 \notin DirectIx
      BY Indices
    <3> QED
      BY <1>3, <2>1, <3>1, <3>2
  <2>2. CASE k \in DirectIx
    <3>1. Listed(s, i, k) = i.direct[k]
      BY <2>2, ListedPlaces
    <3>2. Listed(s, o, k) = o.direct[k]
      BY <2>2, ListedPlaces
    <3> QED
      BY <1>3, <2>2, <3>1, <3>2
  <2>3. CASE k # -1 /\ k \notin DirectIx
    <3>1. Listed(s, i, k) = IF i.ind = NOBLOCK THEN NOBLOCK ELSE PointersIn(s, i.ind)[k - NDIRECT]
      BY <2>3, ListedPlaces
    <3> QED
      BY <1>3, <2>3, <3>1
  <2> QED
    BY <2>1, <2>2, <2>3
<1>8. \A b \in Blocks, k \in Places :
         At(r, b, k) = IF b = ino /\ k \notin DirectIx THEN NOBLOCK ELSE At(s, b, k)
  BY <1>2, <1>6, <1>7
<1>9. IndirectPlaces \in SUBSET Places
  BY DEF IndirectPlaces
<1>10. /\ D \cap LiveIn(s) = {} /\ D \subseteq s.map
       /\ \A b \in Blocks, k \in Places :
            At(s, b, k) \in D <=> b = ino /\ k \in IndirectPlaces /\ At(s, b, k) # NOBLOCK
  BY <1>1, <1>9, PartOnly
<1> HIDE DEF D
<1>11. \A b \in Blocks, k \in Places : At(r, b, k) = IF At(s, b, k) \in D THEN NOBLOCK ELSE At(s, b, k)
  BY <1>8, <1>10 DEF IndirectPlaces
<1>12. r \in Volumes /\ r.map = s.map /\ r.faults >= s.faults
  BY <1>1, VolumeType DEF Rewritten
<1>13. Apart(r) /\ Marked(r, D)
  BY <1>1, <1>6, <1>10, <1>11, <1>12, CutUse
<1>14. Sound(r, D, H)
  BY <1>3, <1>4, <1>5, <1>13, RewrittenSound
<1> QED
  BY <1>8, <1>14 DEF D, Detached, IndirectPlaces

\* The entries J of an indirect block.
PlacesOf(J) == {j + NDIRECT : j \in J}

LEMMA DetachEntries ==
  ASSUME NEW s, NEW r, NEW H, NEW ino \in Blocks, NEW J \in SUBSET IndirectIx, Sound(s, {}, H),
         s.vnodes[ino] # NULL, NEW d \in Blocks, At(s, ino, -1) = d, NEW p,
         CutEntries(PointersIn(s, d), p, J), Stored(s, r, d, Pointers(p))
  PROVE  Detached(s, r, ino, H, PlacesOf(J))
<1> DEFINE o == s.vnodes[ino].i
           D == Part(s, ino, PlacesOf(J))
<1>1. Laid(s, {}) /\ s \in Volumes
  BY DEF Sound, Laid
<1>2. /\ PointersIn(s, d) \in [IndirectIx -> Numbers] /\ d # NOBLOCK /\ o.ind = d
      /\ \A k \in Places : At(s, ino, k) = Listed(s, o, k)
  BY <1>1, InodeInMemory, Indices
<1>3. p \in [IndirectIx -> Numbers]
  BY DEF CutEntries
<1>4. NewEntries(s, r, ino, p) /\ Counted(r, H)
  BY <1>3, StoredRows
<1>5. ASSUME NEW b \in Blocks, NEW k \in Places
      PROVE  At(r, b, k) = IF b = ino /\ k \in PlacesOf(J) THEN NOBLOCK ELSE At(s, b, k)
  <2>1. CASE ~(b = ino /\ k # -1 /\ k \notin DirectIx)
    <3>1. k \in PlacesOf(J) => k # -1 /\ k \notin DirectIx
      BY Indices DEF PlacesOf
    <3> QED
      BY <1>4, <2>1, <3>1 DEF NewEntries
  <2>2. CASE b = ino /\ k # -1 /\ k \notin DirectIx
    <3>1. k - NDIRECT \in IndirectIx
      BY <2>2, Indices
    <3>2. k \in PlacesOf(J) <=> k - NDIRECT \in J
      <4>1. k \in Int /\ NDIRECT \in Int /\ J \subseteq Int
        BY SfsAssumption DEF Places, FileBlocks, IndirectIx
      <4>2. k = (k - NDIRECT) + NDIRECT /\ \A j \in J : k = j + NDIRECT => j = k - NDIRECT
        BY <4>1
      <4> QED
        BY <4>2 DEF PlacesOf
    <3>3. At(r, b, k) = p[k - NDIRECT]
      BY <1>4, <2>2 DEF NewEntries
    <3>4. At(s, b, k) = Listed(s, o, k)
      BY <1>2, <2>2
    <3> HIDE DEF o
    <3>5. Listed(s, o, k) = IF o.ind = NOBLOCK THEN NOBLOCK ELSE PointersIn(s, o.ind)[k - NDIRECT]
      BY <2>2, ListedPlaces
    <3>6. Listed(s, o, k) = PointersIn(s, d)[k - NDIRECT]
      BY <1>2, <3>5
    <3>7. p[k - NDIRECT] = IF k - NDIRECT \in J THEN NOBLOCK ELSE PointersIn(s, d)[k - NDIRECT]
      BY <3>1 DEF CutEntries
    <3> QED
      BY <2>2, <3>2, <3>3, <3>4, <3>6, <3>7
  <2> QED
    BY <2>1, <2>2
<1>6. PlacesOf(J) \in SUBSET Places
  BY Indices DEF PlacesOf
<1>7. /\ D \cap LiveIn(s) = {} /\ D \subseteq s.map
       /\ \A b \in Blocks, k \in Places :
            At(s, b, k) \in D <=> b = ino /\ k \in PlacesOf(J) /\ At(s, b, k) # NOBLOCK
  BY <1>1, <1>6, PartOnly
<1> HIDE DEF D
<1>8. \A b \in Blocks, k \in Places : At(r, b, k) = IF At(s, b, k) \in D THEN NOBLOCK ELSE At(s, b, k)
  BY <1>5, <1>7
<1>9. r \in Volumes /\ r.map = s.map /\ r.faults >= s.faults /\ LiveIn(r) = LiveIn(s)
  BY <1>4 DEF NewEntries, Stored
<1>10. Apart(r) /\ Marked(r, D)
  BY <1>1, <1>7, <1>8, <1>9, CutUse
<1>11. r.panic = "none" /\ (~r.mapdirty => r.diskmap = r.map)
  BY <1>1 DEF Stored, Laid
<1>12. Sound(r, D, H)
  BY <1>4, <1>9, <1>10, <1>11 DEF Sound, Laid, NewEntries
<1> QED
  BY <1>5, <1>12 DEF D, Detached

-----------------------------------------------------------------------------
(* Names and links.                                                        *)

Named(s, u, n, c) ==
  /\ u \in Volumes
  /\ u.map = s.map /\ u.mapdirty = s.mapdirty /\ u.diskmap = s.diskmap
  /\ u.disk = s.disk /\ u.faults = s.faults /\ u.panic = s.panic /\ u.vnodes = s.vnodes
  /\ u.dents = [s.dents EXCEPT ![n] = c]

LEMMA NamedRows ==
  ASSUME NEW s, NEW u, NEW X, NEW H, Sound(s, X, H), NEW ino \in Blocks, s.vnodes[ino] # NULL,
         NEW n \in Names, s.dents[n] \in {NOBLOCK, ino}, NEW c \in {NOBLOCK, ino}, Named(s, u, n, c)
  PROVE  /\ Laid(u, X) /\ Counted(u, H) /\ LiveIn(u) = LiveIn(s)
         /\ \A b \in LiveIn(s) : InodeIn(u, b) = InodeIn(s, b)
         /\ \A b \in Blocks, k \in Places : At(u, b, k) = At(s, b, k)
<1>1. /\ Laid(s, X) /\ Linked(s) /\ Counted(s, H) /\ s \in Volumes /\ s.panic = "none" /\ OnDisk(s)
      /\ s.dents \in [Names -> Numbers] /\ s.faults \in Nat
  BY VolumeType DEF Sound, Laid
<1>2. /\ u.map = s.map /\ u.mapdirty = s.mapdirty /\ u.diskmap = s.diskmap /\ u \in Volumes
      /\ u.disk = s.disk /\ u.faults = s.faults /\ u.panic = s.panic /\ u.vnodes = s.vnodes
      /\ u.dents = [s.dents EXCEPT ![n] = c]
  BY DEF Named
<1>3. LiveIn(u) = LiveIn(s)
  <2>1. u.dents[n] = c /\ \A m \in Names : m # n => u.dents[m] = s.dents[m]
    BY <1>1, <1>2
  <2> SUFFICES ASSUME NEW b \in Blocks  PROVE b \in LiveIn(u) <=> b \in LiveIn(s)
    BY DEF LiveIn
  <2>2. CASE b = ino
    BY <1>2, <2>2 DEF LiveIn
  <2>3. CASE b # ino
    <3>1. b # NOBLOCK
      BY Indices
    <3>2. \A m \in Names : u.dents[m] = b <=> s.dents[m] = b
      BY <2>1, <2>3, <3>1
    <3> QED
      BY <1>2, <3>2 DEF LiveIn
  <2> QED
    BY <2>2, <2>3
<1>4. \A b \in LiveIn(s) : InodeIn(u, b) = InodeIn(s, b)
  BY <1>2 DEF InodeIn
<1>5. \A b \in Blocks, k \in Places : At(u, b, k) = At(s, b, k)
  BY <1>2, <1>3, <1>4, RowFrame
<1>6. u.faults >= s.faults
  BY <1>1, <1>2
<1>7. Apart(u) /\ Marked(u, X)
  BY <1>1, <1>2, <1>3, <1>5, <1>6, SameUse
<1>8. OnDisk(u)
  BY <1>1, <1>2, <1>3, <1>4 DEF OnDisk, Readable
<1>9. Counted(u, H)
  BY <1>1, <1>2, <1>6, CountedFrame
<1>10. ~u.mapdirty => u.diskmap = u.map
  BY <1>1, <1>2 DEF Laid
<1>11. u.panic = "none"
  BY <1>1, <1>2
<1>12. Laid(u, X)
  BY <1>2, <1>7, <1>8, <1>10, <1>11 DEF Laid
<1> QED
  BY <1>3, <1>4, <1>5, <1>9, <1>12

LEMMA NameSound ==
  ASSUME NEW s, NEW u, NEW r, NEW X, NEW H, Sound(s, X, H), NEW ino \in Blocks, s.vnodes[ino] # NULL,
         NEW n \in Names, NEW c, NEW m, Named(s, u, n, c),
         \/ s.dents[n] = NOBLOCK /\ c = ino /\ m = s.vnodes[ino].i.links + 1
         \/ s.dents[n] = ino /\ c = NOBLOCK /\ m = s.vnodes[ino].i.links - 1,
         Rewritten(u, r, ino, [s.vnodes[ino].i EXCEPT !.links = m])
  PROVE  Sound(r, X, H) /\ LiveIn(r) = LiveIn(s) /\ SameData(s, r)
<1> DEFINE o == s.vnodes[ino].i
           i == [o EXCEPT !.links = m]
<1>1. /\ Laid(s, X) /\ Linked(s) /\ s \in Volumes /\ s.panic = "none"
      /\ s.dents \in [Names -> Numbers] /\ s.faults \in Nat
  BY VolumeType DEF Sound, Laid
<1>2. /\ u.vnodes = s.vnodes /\ u.dents = [s.dents EXCEPT ![n] = c]
      /\ u.faults = s.faults /\ u.panic = s.panic
  BY DEF Named
<1>3. c \in {NOBLOCK, ino} /\ s.dents[n] \in {NOBLOCK, ino}
  OBVIOUS
<1>4. /\ Laid(u, X) /\ Counted(u, H) /\ LiveIn(u) = LiveIn(s)
      /\ \A b \in LiveIn(s) : InodeIn(u, b) = InodeIn(s, b)
      /\ \A b \in Blocks, k \in Places : At(u, b, k) = At(s, b, k)
  BY <1>3, NamedRows
<1>5. /\ o \in Inodes /\ o.links \in Nat /\ ino \in LiveIn(s) /\ InodeIn(s, ino) = o
  BY <1>1, InodeInMemory
<1>6. /\ IsFiniteSet(NamesOf(s, ino)) /\ o.links = Cardinality(NamesOf(s, ino))
  BY <1>1, <1>5 DEF Linked
<1>7. /\ IsFiniteSet(NamesOf(u, ino)) /\ m = Cardinality(NamesOf(u, ino)) /\ m \in Nat
  <2>1. u.dents[n] = c /\ \A q \in Names : q # n => u.dents[q] = s.dents[q]
    BY <1>1, <1>2
  <2>2. CASE s.dents[n] = NOBLOCK /\ c = ino /\ m = o.links + 1
    <3>1. NamesOf(u, ino) = NamesOf(s, ino) \cup {n}
      BY <2>1, <2>2 DEF NamesOf
    <3>2. n \notin NamesOf(s, ino)
      BY <2>2, Indices DEF NamesOf
    <3> QED
      BY <1>5, <1>6, <2>2, <3>1, <3>2, FS_AddElement
  <2>3. CASE s.dents[n] = ino /\ c = NOBLOCK /\ m = o.links - 1
    <3>1. NamesOf(u, ino) = NamesOf(s, ino) \ {n}
      BY <2>1, <2>3, Indices DEF NamesOf
    <3>2. n \in NamesOf(s, ino)
      BY <2>3 DEF NamesOf
    <3>3. /\ IsFiniteSet(NamesOf(u, ino))
          /\ Cardinality(NamesOf(u, ino)) = Cardinality(NamesOf(s, ino)) - 1
      BY <1>6, <3>1, <3>2, FS_RemoveElement
    <3>4. Cardinality(NamesOf(u, ino)) \in Nat
      BY <3>3, FS_CardinalityType
    <3> QED
      BY <1>6, <2>3, <3>3, <3>4
  <2> QED
    BY <2>2, <2>3
<1>8. \A b \in LiveIn(s) : b # ino => NamesOf(u, b) = NamesOf(s, b)
  <2>1. u.dents[n] = c /\ \A q \in Names : q # n => u.dents[q] = s.dents[q]
    BY <1>1, <1>2
  <2>2. \A b \in LiveIn(s) : b # NOBLOCK
    BY Indices DEF LiveIn
  <2> QED
    BY <1>3, <2>1, <2>2 DEF NamesOf
<1>9. Rewritten(u, r, ino, i) /\ u.vnodes[ino] # NULL
  BY <1>2
<1>10. i.links = m /\ i.ind = o.ind /\ i.direct = o.direct /\ i \in Inodes
  <2> HIDE DEF o
  <2>1. i = [links |-> m, direct |-> o.direct, ind |-> o.ind] /\ i \in Inodes
    BY <1>5, <1>7, InodeFields
  <2> QED
    BY <2>1
<1> HIDE DEF i
<1>11. /\ o.ind \notin LiveIn(u) /\ (o.ind # NOBLOCK => Readable(u, o.ind))
       /\ \A k \in Places : At(u, ino, k) = Listed(u, o, k)
  <2>1. u.vnodes[ino].i = o
    BY <1>2
  <2> HIDE DEF o
  <2> QED
    BY <1>4, <1>9, <2>1, InodeInMemory
<1>12. i.ind \notin LiveIn(u) /\ (i.ind # NOBLOCK => Readable(u, i.ind))
  BY <1>10, <1>11
<1>13. NewRows(u, r, ino, i)
  BY <1>4, <1>9, <1>10, <1>12, RewrittenRows
<1>14. \A k \in Places : Listed(u, i, k) = Listed(u, o, k)
  <2> HIDE DEF o
  <2> TAKE k \in Places
  <2>1. CASE k = -1
    <3>1. Listed(u, i, -1) = i.ind
      BY ListedPlaces
    <3>2. Listed(u, o, -1) = o.ind
      BY ListedPlaces
    <3> QED
      BY <1>10, <2>1, <3>1, <3>2
  <2>2. CASE k \in DirectIx
    <3>1. Listed(u, i, k) = i.direct[k]
      BY <2>2, ListedPlaces
    <3>2. Listed(u, o, k) = o.direct[k]
      BY <2>2, ListedPlaces
    <3> QED
      BY <1>10, <3>1, <3>2
  <2>3. CASE k # -1 /\ k \notin DirectIx
    <3>1. Listed(u, i, k) = IF i.ind = NOBLOCK THEN NOBLOCK ELSE PointersIn(u, i.ind)[k - NDIRECT]
      BY <2>3, ListedPlaces
    <3>2. Listed(u, o, k) = IF o.ind = NOBLOCK THEN NOBLOCK ELSE PointersIn(u, o.ind)[k - NDIRECT]
      BY <2>3, ListedPlaces
    <3> QED
      BY <1>10, <3>1, <3>2
  <2> QED
    BY <2>1, <2>2, <2>3
<1>15. /\ LiveIn(r) = LiveIn(u)
       /\ \A b \in Blocks, k \in Places : At(r, b, k) = At(u, b, k)
  BY <1>11, <1>13, <1>14 DEF NewRows
<1>16. /\ r \in Volumes /\ r.map = u.map /\ r.faults >= u.faults /\ r.dents = u.dents /\ r.panic = "none"
       /\ (~r.mapdirty => r.diskmap = r.map)
  BY <1>1, <1>2, <1>4 DEF Rewritten, Laid
<1>17. Apart(r) /\ Marked(r, X)
  BY <1>4, <1>15, <1>16, SameUse
<1>18. Linked(r)
  <2> SUFFICES ASSUME NEW b \in LiveIn(s)
               PROVE  /\ IsFiniteSet(NamesOf(r, b))
                      /\ InodeIn(r, b).links = Cardinality(NamesOf(r, b))
    BY <1>4, <1>15 DEF Linked
  <2>1. NamesOf(r, b) = NamesOf(u, b)
    BY <1>16 DEF NamesOf
  <2>2. CASE b = ino
    BY <1>7, <1>10, <1>13, <2>1, <2>2 DEF NewRows
  <2>3. CASE b # ino
    <3>1. InodeIn(r, b) = InodeIn(s, b)
      BY <1>4, <1>13, <2>3 DEF NewRows
    <3> QED
      BY <1>1, <1>8, <2>1, <2>3, <3>1 DEF Linked
  <2> QED
    BY <2>2, <2>3
<1>19. Counted(r, H)
  <2>1. u \in Volumes
    BY DEF Named
  <2> QED
    BY <1>4, <1>13, <1>16, <2>1, CountedFrame DEF NewRows
<1>20. OnDisk(r)
  BY <1>13 DEF NewRows
<1>21. SameData(s, r)
  <2>1. \A b \in Blocks, k \in Places : At(r, b, k) = At(s, b, k)
    BY <1>4, <1>15
  <2> QED
    BY <2>1, DataFrame
<1> QED
  BY <1>4, <1>15, <1>16, <1>17, <1>18, <1>19, <1>20, <1>21 DEF Sound, Laid

-----------------------------------------------------------------------------
(* Vnodes come and go, and references to them.                             *)

Swapped(s, r, ino, v) ==
  /\ r \in Volumes
  /\ r.map = s.map /\ r.mapdirty = s.mapdirty /\ r.diskmap = s.diskmap /\ r.dents = s.dents
  /\ r.disk = s.disk /\ r.faults = s.faults /\ r.panic = s.panic
  /\ r.vnodes = [s.vnodes EXCEPT ![ino] = v]

LEMMA SwapRows ==
  ASSUME NEW s, NEW r, NEW X, NEW H, Sound(s, X, H), NEW ino \in LiveIn(s),
         NEW v \in Vnodes \cup {NULL}, Swapped(s, r, ino, v),
         v # NULL => v.i = InodeIn(s, ino) /\ (v.dirty \/ s.disk[ino] = Inode(v.i)),
         v = NULL => s.disk[ino] = Inode(InodeIn(s, ino)) /\ \E n \in Names : s.dents[n] = ino
  PROVE  /\ Laid(r, X) /\ Linked(r) /\ LiveIn(r) = LiveIn(s)
         /\ \A b \in Blocks, k \in Places : At(r, b, k) = At(s, b, k)
<1>1. /\ Laid(s, X) /\ Linked(s) /\ s \in Volumes /\ s.panic = "none" /\ OnDisk(s)
      /\ s.vnodes \in [Blocks -> Vnodes \cup {NULL}] /\ s.faults \in Nat /\ ino \in Blocks
  BY VolumeType DEF Sound, Laid, LiveIn
<1>2. /\ r.map = s.map /\ r.mapdirty = s.mapdirty /\ r.diskmap = s.diskmap /\ r.dents = s.dents
      /\ r.disk = s.disk /\ r.faults = s.faults /\ r.panic = s.panic /\ r \in Volumes
  BY DEF Swapped
<1>3. r.vnodes[ino] = v /\ \A b \in Blocks : b # ino => r.vnodes[b] = s.vnodes[b]
  BY <1>1 DEF Swapped
<1>4. LiveIn(r) = LiveIn(s)
  <2> SUFFICES ASSUME NEW b \in Blocks  PROVE b \in LiveIn(r) <=> b \in LiveIn(s)
    BY DEF LiveIn
  <2>1. CASE b = ino
    BY <1>2, <1>3, <2>1 DEF LiveIn
  <2>2. CASE b # ino
    BY <1>2, <1>3, <2>2 DEF LiveIn
  <2> QED
    BY <2>1, <2>2
<1>5. InodeIn(r, ino) = InodeIn(s, ino)
  <2>1. CASE v # NULL
    BY <1>3, <2>1 DEF InodeIn
  <2>2. CASE v = NULL
    <3>1. InodeIn(r, ino) = s.disk[ino].i
      BY <1>2, <1>3, <2>2 DEF InodeIn
    <3> QED
      BY <2>2, <3>1, KindsDiffer
  <2> QED
    BY <2>1, <2>2
<1>6. \A b \in LiveIn(s) : b \in Blocks /\ InodeIn(r, b) = InodeIn(s, b)
  BY <1>2, <1>3, <1>5 DEF InodeIn, LiveIn
<1>7. \A b \in Blocks, k \in Places : At(r, b, k) = At(s, b, k)
  BY <1>2, <1>4, <1>6, RowFrame
<1>8. r.faults >= s.faults
  BY <1>1, <1>2
<1>9. Apart(r) /\ Marked(r, X)
  BY <1>1, <1>2, <1>4, <1>7, <1>8, SameUse
<1>10. OnDisk(r)
  <2> SUFFICES ASSUME NEW b \in LiveIn(s)
               PROVE /\ r.vnodes[b] = NULL => r.disk[b].kind = "inode"
                     /\ r.vnodes[b] # NULL /\ ~r.vnodes[b].dirty => r.disk[b] = Inode(r.vnodes[b].i)
                     /\ InodeIn(r, b).ind # NOBLOCK => Readable(r, InodeIn(r, b).ind)
    BY <1>4 DEF OnDisk
  <2>1. InodeIn(r, b).ind # NOBLOCK => Readable(r, InodeIn(r, b).ind)
    BY <1>1, <1>2, <1>6 DEF OnDisk, Readable
  <2>2. CASE b = ino
    <3>1. v = NULL => r.disk[b].kind = "inode"
      BY <1>2, <2>2, KindsDiffer
    <3>2. v # NULL /\ ~v.dirty => r.disk[b] = Inode(v.i)
      BY <1>2, <2>2
    <3> QED
      BY <1>3, <2>1, <2>2, <3>1, <3>2
  <2>3. CASE b # ino
    BY <1>1, <1>2, <1>3, <1>6, <2>1, <2>3 DEF OnDisk
  <2> QED
    BY <2>2, <2>3
<1>11. Linked(r)
  BY <1>1, <1>2, <1>4, <1>6, LinkedFrame
<1>12. ~r.mapdirty => r.diskmap = r.map
  BY <1>1, <1>2 DEF Laid
<1>13. Laid(r, X)
  BY <1>1, <1>2, <1>9, <1>10, <1>12 DEF Laid
<1> QED
  BY <1>4, <1>7, <1>11, <1>13

\* References are counted anew for one vnode.
LEMMA CountedAnew ==
  ASSUME NEW s, NEW r, NEW H, Counted(s, H), s \in Volumes, r \in Volumes, r.faults >= s.faults,
         NEW ino \in Blocks, NEW m \in Nat, \A b \in Blocks : b # ino => r.vnodes[b] = s.vnodes[b],
         r.vnodes[ino] = NULL => m = 0,
         r.vnodes[ino] # NULL => r.vnodes[ino].refs \in {m, m + 1},
         r.vnodes[ino] # NULL /\ r.vnodes[ino].refs = m + 1 =>
           s.vnodes[ino] # NULL /\ s.vnodes[ino].refs = H[ino] + 1
  PROVE  Counted(r, [H EXCEPT ![ino] = m])
<1> DEFINE G == [H EXCEPT ![ino] = m]
<1>1. H \in [Blocks -> Nat]
  BY DEF Counted
<1>2. G \in [Blocks -> Nat] /\ G[ino] = m /\ \A b \in Blocks : b # ino => G[b] = H[b]
  BY <1>1
<1> HIDE DEF G
<1>3. Stray(r, G) \subseteq Stray(s, H)
  <2> SUFFICES ASSUME NEW b \in Stray(r, G)  PROVE b \in Stray(s, H)
    OBVIOUS
  <2>1. b \in Blocks /\ r.vnodes[b] # NULL /\ r.vnodes[b].refs = G[b] + 1
    BY DEF Stray
  <2>2. CASE b = ino
    BY <1>2, <2>1, <2>2 DEF Stray
  <2>3. CASE b # ino
    BY <1>2, <2>1, <2>3 DEF Stray
  <2> QED
    BY <2>2, <2>3
<1>4. Stray(s, H) \subseteq Blocks
  BY DEF Stray
<1>5. IsFiniteSet(Stray(s, H)) /\ Cardinality(Stray(s, H)) \in Nat
  BY <1>4, Indices, FS_Subset, FS_CardinalityType
<1>6. IsFiniteSet(Stray(r, G)) /\ Cardinality(Stray(r, G)) <= Cardinality(Stray(s, H))
  BY <1>3, <1>5, FS_Subset
<1>7. Cardinality(Stray(r, G)) \in Nat /\ Cardinality(Stray(s, H)) <= s.faults
  BY <1>6, FS_CardinalityType DEF Counted
<1>8. Cardinality(Stray(r, G)) <= r.faults
  BY <1>5, <1>6, <1>7, VolumeType
<1>9. \A b \in Blocks : IF r.vnodes[b] = NULL THEN G[b] = 0 ELSE r.vnodes[b].refs \in {G[b], G[b] + 1}
  <2> TAKE b \in Blocks
  <2>1. CASE b = ino
    BY <1>2, <2>1
  <2>2. CASE b # ino
    BY <1>2, <2>2 DEF Counted
  <2> QED
    BY <2>1, <2>2
<1>10. Counted(r, G)
  BY <1>2, <1>8, <1>9 DEF Counted
<1> QED
  BY <1>10 DEF G

\* A reference is given up although the disk failed: the vnode keeps it.
LEMMA CountedStray ==
  ASSUME NEW s, NEW r, NEW H, Counted(s, H), s \in Volumes, r \in Volumes, r.faults >= s.faults + 1,
         NEW ino \in Blocks, s.vnodes[ino] # NULL, s.vnodes[ino].refs = 1, H[ino] = 1,
         \A b \in Blocks : /\ r.vnodes[b] = NULL <=> s.vnodes[b] = NULL
                           /\ s.vnodes[b] # NULL => r.vnodes[b].refs = s.vnodes[b].refs
  PROVE  Counted(r, [H EXCEPT ![ino] = 0])
<1> DEFINE G == [H EXCEPT ![ino] = 0]
<1>1. H \in [Blocks -> Nat]
  BY DEF Counted
<1>2. G \in [Blocks -> Nat] /\ G[ino] = 0 /\ \A b \in Blocks : b # ino => G[b] = H[b]
  BY <1>1
<1> HIDE DEF G
<1>3. Stray(r, G) \subseteq Stray(s, H) \cup {ino}
  BY <1>2 DEF Stray
<1>4. Stray(s, H) \subseteq Blocks
  BY DEF Stray
<1>5. IsFiniteSet(Stray(s, H)) /\ Cardinality(Stray(s, H)) \in Nat
  BY <1>4, Indices, FS_Subset, FS_CardinalityType
<1>6. /\ IsFiniteSet(Stray(s, H) \cup {ino})
      /\ Cardinality(Stray(s, H) \cup {ino}) <= Cardinality(Stray(s, H)) + 1
      /\ Cardinality(Stray(s, H) \cup {ino}) \in Nat
  <2>1. /\ IsFiniteSet(Stray(s, H) \cup {ino})
        /\ Cardinality(Stray(s, H) \cup {ino}) =
             IF ino \in Stray(s, H) THEN Cardinality(Stray(s, H)) ELSE Cardinality(Stray(s, H)) + 1
    BY <1>5, FS_AddElement
  <2> QED
    BY <1>5, <2>1
<1>7. IsFiniteSet(Stray(r, G)) /\ Cardinality(Stray(r, G)) <= Cardinality(Stray(s, H) \cup {ino})
  BY <1>3, <1>6, FS_Subset
<1>8. Cardinality(Stray(r, G)) \in Nat /\ Cardinality(Stray(s, H)) <= s.faults
  BY <1>7, FS_CardinalityType DEF Counted
<1>9. Cardinality(Stray(r, G)) <= r.faults
  BY <1>5, <1>6, <1>7, <1>8, VolumeType
<1>10. \A b \in Blocks : IF r.vnodes[b] = NULL THEN G[b] = 0 ELSE r.vnodes[b].refs \in {G[b], G[b] + 1}
  <2> TAKE b \in Blocks
  <2>1. CASE b = ino
    BY <1>2, <2>1
  <2>2. CASE b # ino
    BY <1>2, <2>2 DEF Counted
  <2> QED
    BY <2>1, <2>2
<1>11. Counted(r, G)
  BY <1>2, <1>9, <1>10 DEF Counted
<1> QED
  BY <1>11 DEF G

\* A file without names and blocks goes.
LEMMA Erased ==
  ASSUME NEW s, NEW r, NEW H, Sound(s, {}, H), NEW ino \in Blocks, s.vnodes[ino] # NULL,
         \A k \in Places : At(s, ino, k) = NOBLOCK, \A n \in Names : s.dents[n] # ino,
         r \in Volumes, r.map = s.map \ {ino}, r.mapdirty, r.dents = s.dents,
         r.faults = s.faults, r.panic = s.panic, r.vnodes = [s.vnodes EXCEPT ![ino] = NULL],
         \A b \in Blocks : b # ino => r.disk[b] = s.disk[b]
  PROVE  Sound(r, {}, [H EXCEPT ![ino] = 0]) /\ SameData(s, r)
<1>1. /\ Laid(s, {}) /\ Linked(s) /\ Counted(s, H) /\ s \in Volumes /\ s.panic = "none" /\ OnDisk(s)
      /\ s.vnodes \in [Blocks -> Vnodes \cup {NULL}] /\ s.faults \in Nat
  BY VolumeType DEF Sound, Laid
<1>2. r.vnodes[ino] = NULL /\ \A b \in Blocks : b # ino => r.vnodes[b] = s.vnodes[b]
  BY <1>1
<1>3. ino \in LiveIn(s) /\ LiveIn(r) = LiveIn(s) \ {ino}
  <2>1. ino \in LiveIn(s) /\ ino \notin LiveIn(r)
    BY <1>2 DEF LiveIn
  <2>2. \A b \in Blocks : b # ino => (b \in LiveIn(r) <=> b \in LiveIn(s))
    BY <1>2 DEF LiveIn
  <2>3. LiveIn(r) \subseteq Blocks /\ LiveIn(s) \subseteq Blocks
    BY DEF LiveIn
  <2> QED
    BY <2>1, <2>2, <2>3
<1>4. \A b \in LiveIn(r) : /\ b \in Blocks /\ b # ino /\ b \in LiveIn(s)
                           /\ InodeIn(r, b) = InodeIn(s, b)
                           /\ r.vnodes[b] = s.vnodes[b] /\ r.disk[b] = s.disk[b]
  <2> SUFFICES ASSUME NEW b \in LiveIn(r)
               PROVE  /\ b \in Blocks /\ b # ino /\ b \in LiveIn(s)
                      /\ InodeIn(r, b) = InodeIn(s, b)
                      /\ r.vnodes[b] = s.vnodes[b] /\ r.disk[b] = s.disk[b]
    OBVIOUS
  <2>1. b \in Blocks /\ b # ino /\ b \in LiveIn(s)
    BY <1>3 DEF LiveIn
  <2> QED
    BY <1>2, <2>1 DEF InodeIn
<1>5. \A b \in LiveIn(r) : InodeIn(s, b).ind # NOBLOCK => r.disk[InodeIn(s, b).ind] = s.disk[InodeIn(s, b).ind]
  <2> SUFFICES ASSUME NEW b \in LiveIn(r), InodeIn(s, b).ind # NOBLOCK
               PROVE  r.disk[InodeIn(s, b).ind] = s.disk[InodeIn(s, b).ind]
    OBVIOUS
  <2>1. b \in Blocks /\ b \in LiveIn(s) /\ InodeIn(s, b).ind = At(s, b, -1)
    BY <1>1, <1>4, InUseOnce
  <2>2. InodeIn(s, b).ind \in Blocks /\ InodeIn(s, b).ind \notin LiveIn(s)
    BY <1>1, <2>1, InUseOnce, Indices
  <2> QED
    BY <1>3, <2>2
<1>6. ASSUME NEW b \in Blocks, NEW k \in Places
      PROVE  At(r, b, k) = At(s, b, k)
  <2>1. CASE b = ino
    BY <1>3, <2>1 DEF At
  <2>2. CASE b # ino
    <3>1. b \in LiveIn(r) <=> b \in LiveIn(s)
      BY <1>3, <2>2
    <3> QED
      BY <1>4, <1>5, <3>1, RowFrame
  <2> QED
    BY <2>1, <2>2
<1>7. Apart(r) /\ Marked(r, {})
  <2>1. r.faults >= s.faults
    BY <1>1
  <2> QED
    BY <1>1, <1>3, <1>6, <2>1, GoneUse
<1>8. OnDisk(r)
  BY <1>1, <1>4, <1>5 DEF OnDisk, Readable
<1>9. Linked(r)
  BY <1>1, <1>4 DEF Linked, NamesOf
<1>10. Counted(r, [H EXCEPT ![ino] = 0])
  <2>1. r.faults >= s.faults
    BY <1>1
  <2> QED
    BY <1>1, <1>2, <2>1, CountedAnew
<1>11. SameData(s, r)
  BY <1>6, DataFrame
<1> QED
  BY <1>1, <1>7, <1>8, <1>9, <1>10, <1>11 DEF Sound, Laid

\* The block in hand becomes a file, without names and blocks.
LEMMA Born ==
  ASSUME NEW s, NEW r, NEW H, NEW x, Sound(s, {x}, H), NEW v, v.i = NewInode, v.refs = 1, v.dirty, v # NULL,
         r \in Volumes, r.map = s.map, r.mapdirty, r.dents = s.dents,
         r.faults = s.faults, r.panic = s.panic, r.vnodes = [s.vnodes EXCEPT ![x] = v],
         \A b \in Blocks : b # x => r.disk[b] = s.disk[b]
  PROVE  /\ Sound(r, {}, [H EXCEPT ![x] = 1]) /\ H[x] = 0 /\ H \in [Blocks -> Nat]
         /\ x \in Blocks /\ LiveIn(r) = LiveIn(s) \cup {x} /\ x \notin LiveIn(s)
         /\ \A b \in Blocks, k \in Places : At(r, b, k) = At(s, b, k)
<1>1. /\ Laid(s, {x}) /\ Linked(s) /\ Counted(s, H) /\ s \in Volumes /\ s.panic = "none" /\ OnDisk(s)
      /\ s.vnodes \in [Blocks -> Vnodes \cup {NULL}] /\ s.faults \in Nat
  BY VolumeType DEF Sound, Laid
<1>2. x \in Blocks /\ x \notin LiveIn(s)
  BY <1>1, InUseOnce
<1>3. r.vnodes[x] = v /\ \A b \in Blocks : b # x => r.vnodes[b] = s.vnodes[b]
  BY <1>1, <1>2
<1>4. s.vnodes[x] = NULL /\ \A n \in Names : s.dents[n] # x
  BY <1>2 DEF LiveIn
<1>5. LiveIn(r) = LiveIn(s) \cup {x}
  <2>1. x \in LiveIn(r)
    BY <1>2, <1>3 DEF LiveIn
  <2>2. \A b \in Blocks : b # x => (b \in LiveIn(r) <=> b \in LiveIn(s))
    BY <1>3 DEF LiveIn
  <2>3. LiveIn(r) \subseteq Blocks /\ LiveIn(s) \subseteq Blocks
    BY DEF LiveIn
  <2> QED
    BY <1>2, <2>1, <2>2, <2>3
<1>6. \A b \in LiveIn(s) : /\ b \in Blocks /\ b # x
                           /\ InodeIn(r, b) = InodeIn(s, b)
                           /\ r.vnodes[b] = s.vnodes[b] /\ r.disk[b] = s.disk[b]
  <2> SUFFICES ASSUME NEW b \in LiveIn(s)
               PROVE  /\ b \in Blocks /\ b # x
                      /\ InodeIn(r, b) = InodeIn(s, b)
                      /\ r.vnodes[b] = s.vnodes[b] /\ r.disk[b] = s.disk[b]
    OBVIOUS
  <2>1. b \in Blocks /\ b # x
    BY <1>2 DEF LiveIn
  <2> QED
    BY <1>3, <2>1 DEF InodeIn
<1>7. \A b \in LiveIn(s) : InodeIn(s, b).ind # NOBLOCK => r.disk[InodeIn(s, b).ind] = s.disk[InodeIn(s, b).ind]
  <2> SUFFICES ASSUME NEW b \in LiveIn(s), InodeIn(s, b).ind # NOBLOCK
               PROVE  r.disk[InodeIn(s, b).ind] = s.disk[InodeIn(s, b).ind]
    OBVIOUS
  <2>1. b \in Blocks /\ InodeIn(s, b).ind = At(s, b, -1)
    BY <1>1, <1>6, InUseOnce
  <2>2. InodeIn(s, b).ind \in Blocks /\ InodeIn(s, b).ind # x
    BY <1>1, <2>1, InUseOnce, Indices
  <2> QED
    BY <2>2
<1>8. InodeIn(r, x) = NewInode
  BY <1>3 DEF InodeIn
<1>9. \A k \in Places : Listed(r, NewInode, k) = NOBLOCK
  <2> DEFINE i == NewInode
  <2>1. i.ind = NOBLOCK /\ \A l \in DirectIx : i.direct[l] = NOBLOCK
    BY DEF NewInode
  <2> HIDE DEF i
  <2>2. \A k \in Places : Listed(r, i, k) = NOBLOCK
    BY <2>1, EmptyLists
  <2> QED
    BY <2>2 DEF i
<1>10. ASSUME NEW b \in Blocks, NEW k \in Places
       PROVE  At(r, b, k) = At(s, b, k)
  <2>1. CASE b = x
    BY <1>2, <1>5, <1>8, <1>9, <2>1 DEF At
  <2>2. CASE b # x
    <3>1. b \in LiveIn(r) <=> b \in LiveIn(s)
      BY <1>5, <2>2
    <3> QED
      BY <1>6, <1>7, <3>1, RowFrame
  <2> QED
    BY <2>1, <2>2
<1>11. Apart(r) /\ Marked(r, {})
  <2>1. r.faults >= s.faults
    BY <1>1
  <2> QED
    BY <1>1, <1>5, <1>10, <2>1, NewFileUse
<1>12. OnDisk(r)
  <2> SUFFICES ASSUME NEW b \in LiveIn(r)
               PROVE /\ r.vnodes[b] = NULL => r.disk[b].kind = "inode"
                     /\ r.vnodes[b] # NULL /\ ~r.vnodes[b].dirty => r.disk[b] = Inode(r.vnodes[b].i)
                     /\ InodeIn(r, b).ind # NOBLOCK => Readable(r, InodeIn(r, b).ind)
    BY DEF OnDisk
  <2>1. CASE b = x
    BY <1>3, <1>8, <2>1 DEF NewInode
  <2>2. CASE b # x
    <3>1. b \in LiveIn(s)
      BY <1>5, <2>2
    <3>2. /\ s.vnodes[b] = NULL => s.disk[b].kind = "inode"
          /\ s.vnodes[b] # NULL /\ ~s.vnodes[b].dirty => s.disk[b] = Inode(s.vnodes[b].i)
          /\ InodeIn(s, b).ind # NOBLOCK => Readable(s, InodeIn(s, b).ind)
      BY <1>1, <3>1 DEF OnDisk
    <3>3. InodeIn(r, b).ind # NOBLOCK => Readable(r, InodeIn(r, b).ind)
      BY <1>6, <1>7, <3>1, <3>2 DEF Readable
    <3> QED
      BY <1>6, <3>1, <3>2, <3>3
  <2> QED
    BY <2>1, <2>2
<1>13. Linked(r)
  <2> SUFFICES ASSUME NEW b \in LiveIn(r)
               PROVE  /\ IsFiniteSet(NamesOf(r, b))
                      /\ InodeIn(r, b).links = Cardinality(NamesOf(r, b))
    BY DEF Linked
  <2>1. CASE b = x
    <3>1. NamesOf(r, b) = {}
      BY <1>4, <2>1 DEF NamesOf
    <3> QED
      BY <1>8, <2>1, <3>1, FS_EmptySet DEF NewInode
  <2>2. CASE b # x
    BY <1>1, <1>5, <1>6, <2>2 DEF Linked, NamesOf
  <2> QED
    BY <2>1, <2>2
<1>14. H[x] = 0 /\ H \in [Blocks -> Nat]
  BY <1>1, <1>2, <1>4 DEF Counted
<1>15. Counted(r, [H EXCEPT ![x] = 1])
  <2>1. r.faults >= s.faults
    BY <1>1
  <2>2. r.vnodes[x] # NULL /\ r.vnodes[x].refs = 1
    BY <1>3
  <2> QED
    BY <1>1, <1>2, <1>3, <2>1, <2>2, CountedAnew
<1> QED
  BY <1>1, <1>2, <1>5, <1>10, <1>11, <1>12, <1>13, <1>14, <1>15 DEF Sound, Laid

-----------------------------------------------------------------------------
(* Reading, writing, allocating and freeing blocks.                        *)

Faulted(s, r) ==
  /\ r \in Volumes
  /\ r.map = s.map /\ r.mapdirty = s.mapdirty /\ r.diskmap = s.diskmap /\ r.dents = s.dents
  /\ r.disk = s.disk /\ r.panic = s.panic /\ r.vnodes = s.vnodes
  /\ r.faults = s.faults + 1

LEMMA FaultyOut ==
  ASSUME NEW s \in Volumes, NEW r \in Faulty(s)
  PROVE  Faulted(s, r.s) /\ r.err /\ r.v = NOBLOCK
<1>1. r.s = [s EXCEPT !.faults = @ + 1] /\ r.err /\ r.v = NOBLOCK
  BY DEF Faulty, Fail
<1>2. s.faults + 1 \in Nat
  BY VolumeType
<1>3. [s EXCEPT !.faults = @ + 1] \in Volumes
  BY <1>2 DEF Volumes
<1>4. Faulted(s, [s EXCEPT !.faults = @ + 1])
  BY <1>3, VolumeType DEF Faulted
<1> QED
  BY <1>1, <1>4

LEMMA ReadOut ==
  ASSUME NEW s \in Volumes, NEW r \in ReadBlock(s)
  PROVE  \/ r.s = s /\ ~r.err /\ r.v = NOBLOCK
         \/ Faulted(s, r.s) /\ r.err /\ r.v = NOBLOCK
<1>1. CASE r \in Faulty(s)
  BY <1>1, FaultyOut
<1>2. CASE r \notin Faulty(s)
  BY <1>2 DEF ReadBlock, Ok
<1> QED
  BY <1>1, <1>2

LEMMA WriteOut ==
  ASSUME NEW s \in Volumes, NEW b \in Blocks, NEW c \in Contents, NEW r \in WriteBlock(s, b, c)
  PROVE  \/ Stored(s, r.s, b, c) /\ ~r.err /\ r.v = b
         \/ Faulted(s, r.s) /\ r.err /\ r.v = NOBLOCK
<1>1. CASE r \in Faulty(s)
  BY <1>1, FaultyOut
<1>2. CASE r \notin Faulty(s)
  <2> DEFINE e == [s.disk EXCEPT ![b] = c]
             u == [s EXCEPT !.disk = e]
  <2>1. e \in [Blocks -> Contents]
    BY VolumeType
  <2>2. r.s = u /\ ~r.err /\ r.v = b
    BY <1>2 DEF WriteBlock, Ok
  <2>3. Stored(s, u, b, c)
    <3>1. u \in Volumes /\ u.disk = e
      <4> HIDE DEF e
      <4> QED
        BY <2>1 DEF Volumes
    <3>2. /\ u.map = s.map /\ u.mapdirty = s.mapdirty /\ u.diskmap = s.diskmap
          /\ u.dents = s.dents /\ u.faults = s.faults /\ u.panic = s.panic /\ u.vnodes = s.vnodes
      <4> HIDE DEF e
      <4> QED
        BY VolumeType
    <3> QED
      BY <3>1, <3>2 DEF Stored
  <2> HIDE DEF u
  <2> QED
    BY <2>2, <2>3
<1> QED
  BY <1>1, <1>2

LEMMA FaultedSound ==
  ASSUME NEW s, NEW r, NEW X, NEW H, Sound(s, X, H), Faulted(s, r)
  PROVE  /\ Sound(r, X, H) /\ LiveIn(r) = LiveIn(s) /\ r.faults >= s.faults /\ s.faults \in Nat
         /\ \A b \in Blocks, k \in Places : At(r, b, k) = At(s, b, k)
<1>1. s.panic = "none" /\ s.faults \in Nat /\ (~s.mapdirty => s.diskmap = s.map)
  BY VolumeType DEF Sound, Laid
<1>2. /\ r \in Volumes /\ r.panic = "none" /\ r.vnodes = s.vnodes /\ r.dents = s.dents
      /\ r.map = s.map /\ r.faults >= s.faults /\ (~r.mapdirty => r.diskmap = r.map)
      /\ r.disk = s.disk
  BY <1>1 DEF Faulted
<1> QED
  BY <1>1, <1>2, Kept

SetFields(s, r, m) ==
  /\ r \in Volumes /\ r.map = m /\ r.mapdirty /\ r.vnodes = s.vnodes /\ r.dents = s.dents
  /\ r.disk = s.disk /\ r.faults = s.faults /\ r.panic = s.panic

LEMMA SetMapOut ==
  ASSUME NEW s \in Volumes, NEW m \in SUBSET Blocks
  PROVE  SetFields(s, SetMap(s, m), m)
<1> DEFINE t == TRUE
           d == StaleMap
           r == [s EXCEPT !.map = m, !.mapdirty = t, !.diskmap = d]
<1>1. t \in BOOLEAN /\ d \in SUBSET Numbers /\ t
  BY DEF StaleMap, Numbers
<1>2. SetMap(s, m) = r
  BY DEF SetMap
<1> HIDE DEF t, d
<1>3. r \in Volumes
  BY <1>1 DEF Volumes
<1>4. /\ r.map = m /\ r.mapdirty = t /\ r.vnodes = s.vnodes /\ r.dents = s.dents
      /\ r.disk = s.disk /\ r.faults = s.faults /\ r.panic = s.panic
  BY VolumeType
<1> QED
  BY <1>1, <1>2, <1>3, <1>4 DEF SetFields

\* The least element of a set of natural numbers.
LEMMA LowestIn == ASSUME NEW S \in SUBSET Nat, S # {} PROVE Min(S) \in S
<1> DEFINE R == OpToRel(<, Nat)
<1>1. \A x, y \in Nat : y < x => <<y, x>> \in R
  BY DEF OpToRel
<1>2. IsWellFoundedOn(R, Nat)
  BY NatLessThanWellFounded
<1> HIDE DEF R
<1>3. PICK x \in S : \A y \in S : ~ (<<y, x>> \in R)
  BY <1>2, WFMin
<1>4. \A y \in S : x \in Nat /\ y \in Nat /\ ~ (y < x)
  BY <1>1, <1>3
<1>5. \A y \in S : x <= y
  BY <1>4
<1> QED
  BY <1>3, <1>5 DEF Min

\* The block that sfs_balloc returns is allocated and clear; after an error
\* nothing is.
Allocated(s, r) ==
  /\ r.s \in Volumes /\ r.s.vnodes = s.vnodes /\ r.s.dents = s.dents /\ r.s.panic = s.panic
  /\ \/ /\ ~r.err /\ r.v \in Blocks /\ r.v \notin s.map
        /\ r.s.map = s.map \cup {r.v} /\ r.s.mapdirty /\ r.s.faults = s.faults
        /\ r.s.disk = [s.disk EXCEPT ![r.v] = Zeros]
     \/ /\ r.err /\ r.v = NOBLOCK /\ r.s.map = s.map /\ r.s.disk = s.disk
        /\ \/ r.s = s
           \/ r.s.mapdirty /\ r.s.faults = s.faults + 1

LEMMA BallocOut ==
  ASSUME NEW s \in Volumes, s.panic = "none", NEW r \in Balloc(s)
  PROVE  Allocated(s, r)
<1> DEFINE b == Min(Blocks \ s.map)
           m == s.map \cup {b}
           w == SetMap(s, m)
<1>1. CASE s.map = Blocks
  <2>1. r \in Fail(s)
    BY <1>1 DEF Balloc
  <2>2. r.s = s /\ r.err /\ r.v = NOBLOCK
    BY <2>1 DEF Fail
  <2> QED
    BY <2>2 DEF Allocated
<1>2. CASE s.map # Blocks
  <2>1. b \in Blocks /\ b \notin s.map
    <3>1. s.map \subseteq Blocks /\ Blocks \ s.map \in SUBSET Nat
      BY VolumeType, SfsAssumption DEF Blocks
    <3>2. Blocks \ s.map # {}
      BY <1>2, <3>1
    <3> QED
      BY <3>1, <3>2, LowestIn
  <2>2. SetFields(s, w, m)
    <3>1. m \in SUBSET Blocks
      BY <2>1, VolumeType
    <3> QED
      BY <3>1, SetMapOut
  <2>3. PICK q \in WriteBlock(w, b, Zeros) :
          IF ~q.err THEN r \in Ok(q.s, q.v)
          ELSE IF q.s.panic # "none" THEN r = q ELSE r \in Fail([q.s EXCEPT !.map = @ \ {b}])
    BY <1>2 DEF Balloc, Try
  <2> HIDE DEF b, w
  <2>4. /\ w \in Volumes /\ w.map = s.map \cup {b} /\ w.mapdirty /\ w.vnodes = s.vnodes /\ w.dents = s.dents
        /\ w.disk = s.disk /\ w.faults = s.faults /\ w.panic = s.panic
    BY <2>2 DEF SetFields
  <2>5. \/ Stored(w, q.s, b, Zeros) /\ ~q.err /\ q.v = b
        \/ Faulted(w, q.s) /\ q.err /\ q.v = NOBLOCK
    BY <2>1, <2>3, <2>4, WriteOut, KindsDiffer
  <2>6. CASE ~q.err
    <3>1. Stored(w, q.s, b, Zeros) /\ q.v = b
      BY <2>5, <2>6
    <3>2. r.s = q.s /\ ~r.err /\ r.v = b
      BY <2>3, <2>6, <3>1 DEF Ok
    <3> QED
      BY <2>1, <2>4, <3>1, <3>2 DEF Stored, Allocated
  <2>7. CASE q.err
    <3>1. Faulted(w, q.s) /\ q.v = NOBLOCK
      BY <2>5, <2>7
    <3>2. /\ q.s \in Volumes /\ q.s.map = s.map \cup {b} /\ q.s.mapdirty /\ q.s.vnodes = s.vnodes
          /\ q.s.dents = s.dents /\ q.s.disk = s.disk /\ q.s.faults = s.faults + 1 /\ q.s.panic = s.panic
      BY <2>4, <3>1 DEF Faulted
    <3> DEFINE x == q.s.map \ {b}
               y == [q.s EXCEPT !.map = x]
    <3>3. r.s = y /\ r.err /\ r.v = NOBLOCK
      BY <2>3, <2>7, <3>2 DEF Fail
    <3>4. x = s.map /\ x \in SUBSET Blocks
      BY <2>1, <3>2, VolumeType
    <3> HIDE DEF x
    <3>5. y \in Volumes
      BY <3>2, <3>4 DEF Volumes
    <3>6. /\ y.map = x /\ y.mapdirty = q.s.mapdirty /\ y.vnodes = q.s.vnodes
          /\ y.dents = q.s.dents /\ y.disk = q.s.disk /\ y.faults = q.s.faults /\ y.panic = q.s.panic
      BY <3>2 DEF Volumes
    <3> HIDE DEF y
    <3> QED
      BY <3>2, <3>3, <3>4, <3>5, <3>6 DEF Allocated
  <2> QED
    BY <2>6, <2>7
<1> QED
  BY <1>1, <1>2

LEMMA BallocSound ==
  ASSUME NEW s, NEW H, Sound(s, {}, H), NEW r \in Balloc(s)
  PROVE  /\ r.s.vnodes = s.vnodes /\ r.s.dents = s.dents /\ LiveIn(r.s) = LiveIn(s)
         /\ \A b \in Blocks, k \in Places : At(r.s, b, k) = At(s, b, k)
         /\ \/ ~r.err /\ Sound(r.s, {r.v}, H) /\ r.v \in Blocks /\ r.s.disk[r.v] = Zeros /\ r.s.mapdirty
               /\ r.s.faults = s.faults
            \/ r.err /\ Sound(r.s, {}, H) /\ r.v = NOBLOCK /\ r.s.faults >= s.faults
<1>1. /\ Laid(s, {}) /\ s \in Volumes /\ s.panic = "none" /\ s.faults \in Nat
      /\ s.disk \in [Blocks -> Contents] /\ (~s.mapdirty => s.diskmap = s.map)
  BY VolumeType DEF Sound, Laid
<1>2. Allocated(s, r)
  BY <1>1, BallocOut
<1> DEFINE u == r.s
           b == r.v
<1>3. u \in Volumes /\ u.vnodes = s.vnodes /\ u.dents = s.dents /\ u.panic = "none"
  BY <1>1, <1>2 DEF Allocated
<1>4. CASE ~r.err
  <2>1. /\ b \in Blocks /\ b \notin s.map /\ u.map = s.map \cup {b} /\ u.mapdirty /\ u.faults = s.faults
        /\ u.disk = [s.disk EXCEPT ![b] = Zeros]
    BY <1>2, <1>4 DEF Allocated
  <2> HIDE DEF u, b
  <2>2. u.disk[b] = Zeros /\ \A c \in Blocks : c # b => u.disk[c] = s.disk[c]
    BY <1>1, <2>1
  <2>3. \A c \in LiveIn(s) : /\ c \in Blocks /\ c # b
                             /\ At(s, c, -1) # NOBLOCK => At(s, c, -1) \in Blocks /\ At(s, c, -1) # b
    BY <1>1, <2>1, InUseOnce, Indices
  <2>4. /\ \A c \in LiveIn(s) : u.disk[c] = s.disk[c]
        /\ \A c \in LiveIn(s) : At(s, c, -1) # NOBLOCK => u.disk[At(s, c, -1)] = s.disk[At(s, c, -1)]
    BY <2>2, <2>3
  <2>5. u.faults >= s.faults
    BY <1>1, <2>1
  <2> DEFINE P == /\ u \in Volumes /\ u.panic = "none"
                  /\ u.vnodes = s.vnodes /\ u.dents = s.dents /\ u.map = s.map \cup {b}
                  /\ u.faults >= s.faults /\ (~u.mapdirty => u.diskmap = u.map)
  <2>8. P
    BY <1>3, <2>1, <2>5 DEF u
  <2>9. b \in Blocks /\ b \notin s.map
    BY <2>1
  <2>6. /\ Sound(u, {b}, H) /\ LiveIn(u) = LiveIn(s)
        /\ \A c \in Blocks, k \in Places : At(u, c, k) = At(s, c, k)
    BY <2>4, <2>8, <2>9, Taken
  <2> QED
    BY <1>3, <1>4, <2>1, <2>2, <2>6 DEF u, b
<1>5. CASE r.err
  <2>1. b = NOBLOCK /\ u.map = s.map /\ u.disk = s.disk /\ (u = s \/ (u.mapdirty /\ u.faults = s.faults + 1))
    BY <1>2, <1>5 DEF Allocated
  <2> HIDE DEF u, b
  <2>2. u.faults >= s.faults /\ (~u.mapdirty => u.diskmap = u.map)
    BY <1>1, <2>1
  <2>3. /\ Sound(u, {}, H) /\ LiveIn(u) = LiveIn(s)
        /\ \A c \in Blocks, k \in Places : At(u, c, k) = At(s, c, k)
    BY <1>3, <2>1, <2>2, Kept
  <2> QED
    BY <1>3, <1>5, <2>1, <2>2, <2>3 DEF u, b
<1> QED
  BY <1>4, <1>5

\* sfs_bfree of blocks that are marked, each listed once.
Freed(s, r, B) ==
  /\ r \in Volumes /\ r.map = s.map \ B
  /\ r.mapdirty \/ (B = {} /\ r.mapdirty = s.mapdirty /\ r.diskmap = s.diskmap)
  /\ r.vnodes = s.vnodes /\ r.dents = s.dents /\ r.faults = s.faults /\ r.panic = s.panic
  /\ \A b \in Blocks : b \notin B => r.disk[b] = s.disk[b]

BlocksIn(f) == {f[i] : i \in DOMAIN f} \ {NOBLOCK}

LEMMA BfreeOut ==
  ASSUME NEW s \in Volumes, NEW I, IsFiniteSet(I), NEW f \in [I -> Numbers],
         BlocksIn(f) \subseteq s.map,
         \A i, j \in I : f[i] # NOBLOCK /\ f[i] = f[j] => i = j,
         NEW r \in Bfree(s, f)
  PROVE  Freed(s, r.s, BlocksIn(f)) /\ ~r.err /\ r.v = NOBLOCK
<1> DEFINE J == {i \in I : f[i] # NOBLOCK}
           B == {f[i] : i \in J}
           e == [b \in Blocks |-> IF b \in B THEN Zeros ELSE s.disk[b]]
           w == SetMap(s, s.map \ B)
<1>1. DOMAIN f = I
  OBVIOUS
<1>2. B = BlocksIn(f)
  BY <1>1 DEF BlocksIn
<1>3. Cardinality(B) = Cardinality(J)
  <2> DEFINE g == [i \in J |-> f[i]]
  <2>1. IsFiniteSet(J)
    BY FS_Subset
  <2>2. g \in Surjection(J, B)
    BY DEF Surjection
  <2>3. g \in Injection(J, B)
    BY DEF Injection, IsInjective
  <2> QED
    BY <2>1, <2>2, <2>3, FS_Surjection
<1>4. r \in Ok(IF B = {} THEN s
               ELSE [w EXCEPT !.disk = [b \in Blocks |-> IF b \in B THEN Zeros ELSE w.disk[b]]], NOBLOCK)
  <2>1. r \in LET K == {i \in DOMAIN f : f[i] # NOBLOCK}
                  C == {f[i] : i \in K}
              IN IF Cardinality(C) = Cardinality(K) /\ C \subseteq s.map
                 THEN Ok(IF C = {} THEN s
                         ELSE [SetMap(s, s.map \ C) EXCEPT !.disk =
                                 [b \in Blocks |-> IF b \in C THEN Zeros ELSE @[b]]], NOBLOCK)
                 ELSE Panic(s, "bitmap.c:156")
    BY DEF Bfree
  <2>2. B \subseteq s.map
    BY <1>2
  <2> QED
    BY <1>1, <1>3, <2>1, <2>2
<1>5. ~r.err /\ r.v = NOBLOCK
  BY <1>4 DEF Ok
<1>6. CASE B = {}
  <2>1. r.s = s
    BY <1>4, <1>6 DEF Ok
  <2>2. s.map \ {} = s.map
    OBVIOUS
  <2>3. Freed(s, s, {})
    BY <2>2 DEF Freed
  <2> QED
    BY <1>2, <1>5, <1>6, <2>1, <2>3
<1>7. CASE B # {}
  <2> DEFINE d == [b \in Blocks |-> IF b \in B THEN Zeros ELSE w.disk[b]]
             u == [w EXCEPT !.disk = d]
  <2>1. r.s = u
    BY <1>4, <1>7 DEF Ok
  <2>2. SetFields(s, w, s.map \ B)
    <3>1. s.map \ B \in SUBSET Blocks
      BY VolumeType
    <3> QED
      BY <3>1, SetMapOut
  <2> HIDE DEF w, B
  <2>3. w \in Volumes /\ w.disk = s.disk /\ s.disk \in [Blocks -> Contents]
    BY <2>2, VolumeType DEF SetFields
  <2>4. d \in [Blocks -> Contents] /\ \A b \in Blocks : b \notin B => d[b] = s.disk[b]
    BY <2>3, KindsDiffer
  <2> HIDE DEF d
  <2>5. u \in Volumes
    BY <2>3, <2>4 DEF Volumes
  <2>6. /\ u.map = w.map /\ u.mapdirty = w.mapdirty /\ u.vnodes = w.vnodes /\ u.dents = w.dents
        /\ u.disk = d /\ u.faults = w.faults /\ u.panic = w.panic
    BY <2>3 DEF Volumes
  <2> HIDE DEF u
  <2>7. Freed(s, u, B)
    BY <2>2, <2>4, <2>5, <2>6 DEF Freed, SetFields
  <2> QED
    BY <1>2, <1>5, <2>1, <2>7
<1> QED
  BY <1>6, <1>7

\* The blocks in hand, freed.
LEMMA FreedSound ==
  ASSUME NEW s, NEW X, NEW H, Sound(s, X, H), NEW r, Freed(s, r, X)
  PROVE  /\ Sound(r, {}, H) /\ LiveIn(r) = LiveIn(s)
         /\ \A b \in Blocks, k \in Places : At(r, b, k) = At(s, b, k)
<1>1. /\ Laid(s, X) /\ s \in Volumes /\ s.panic = "none" /\ s.faults \in Nat
      /\ (~s.mapdirty => s.diskmap = s.map)
  BY VolumeType DEF Sound, Laid
<1>2. /\ \A c \in LiveIn(s) : r.disk[c] = s.disk[c]
      /\ \A c \in LiveIn(s) : At(s, c, -1) # NOBLOCK => r.disk[At(s, c, -1)] = s.disk[At(s, c, -1)]
  <2>1. \A c \in LiveIn(s) : /\ c \in Blocks /\ c \notin X
                             /\ At(s, c, -1) # NOBLOCK => At(s, c, -1) \in Blocks /\ At(s, c, -1) \notin X
    BY <1>1, InUseOnce, Indices
  <2> QED
    BY <2>1 DEF Freed
<1>3. /\ r \in Volumes /\ r.panic = "none" /\ r.vnodes = s.vnodes /\ r.dents = s.dents
      /\ r.map = s.map \ X /\ r.faults >= s.faults /\ (~r.mapdirty => r.diskmap = r.map)
  BY <1>1 DEF Freed
<1> QED
  BY <1>2, <1>3, GivenBack

-----------------------------------------------------------------------------
(* The operations on one file.                                             *)

\* Vnodes, references, names and links stay.
Kin(s, r) ==
  /\ r.dents = s.dents /\ r.faults >= s.faults /\ s.faults \in Nat /\ r.faults \in Nat
  /\ \A b \in Blocks : /\ r.vnodes[b] = NULL <=> s.vnodes[b] = NULL
                       /\ s.vnodes[b] # NULL => /\ r.vnodes[b].refs = s.vnodes[b].refs
                                                /\ r.vnodes[b].i.links = s.vnodes[b].i.links

\* The outcome r of an operation on s that leaves H references.
Settled(r, H) == /\ r.err => r.v = NOBLOCK
                 /\ \/ Sound(r.s, {}, H)
                    \/ Stopped(r.s) /\ r.err
Done(s, r, H) == Settled(r, H) /\ (Sound(r.s, {}, H) => Kin(s, r.s))

LEMMA KinTransitive ==
  ASSUME NEW s, NEW u, NEW r, Kin(s, u), Kin(u, r)
  PROVE  Kin(s, r)
BY DEF Kin

LEMMA KinFrame ==
  ASSUME NEW s \in Volumes, NEW r \in Volumes, r.vnodes = s.vnodes, r.dents = s.dents,
         r.faults >= s.faults
  PROVE  Kin(s, r)
<1>1. s.faults \in Nat /\ r.faults \in Nat
  BY VolumeType
<1> QED
  BY <1>1 DEF Kin

LEMMA KinRewritten ==
  ASSUME NEW s \in Volumes, NEW r, NEW ino \in Blocks, s.vnodes[ino] # NULL, NEW i \in Inodes,
         Rewritten(s, r, ino, i), i.links = s.vnodes[ino].i.links
  PROVE  Kin(s, r)
<1> DEFINE n == s.vnodes[ino].refs
           x == [i |-> i, refs |-> n, dirty |-> TRUE]
<1>1. x.i = i /\ x.refs = n
  OBVIOUS
<1>2. x # NULL
  <2>1. n \in Nat \ {0}
    BY VnodeType
  <2> QED
    BY <2>1, VnodeMade
<1>3. r.vnodes = [s.vnodes EXCEPT ![ino] = x]
  BY DEF Rewritten
<1> HIDE DEF x
<1>4. s.vnodes \in [Blocks -> Vnodes \cup {NULL}]
  BY VolumeType
<1>5. r.vnodes[ino] = x /\ \A b \in Blocks : b # ino => r.vnodes[b] = s.vnodes[b]
  BY <1>3, <1>4
<1>6. r.dents = s.dents /\ r.faults >= s.faults /\ s.faults \in Nat /\ r.faults \in Nat
  BY VolumeType DEF Rewritten
<1>7. \A b \in Blocks : /\ r.vnodes[b] = NULL <=> s.vnodes[b] = NULL
                        /\ s.vnodes[b] # NULL => /\ r.vnodes[b].refs = s.vnodes[b].refs
                                                 /\ r.vnodes[b].i.links = s.vnodes[b].i.links
  <2> TAKE b \in Blocks
  <2>1. CASE b = ino
    BY <1>1, <1>2, <1>5, <2>1
  <2>2. CASE b # ino
    BY <1>5, <2>2
  <2> QED
    BY <2>1, <2>2
<1> QED
  BY <1>6, <1>7 DEF Kin

LEMMA SoundType ==
  ASSUME NEW s, NEW X, NEW H, Sound(s, X, H)
  PROVE  /\ s \in Volumes /\ s.panic = "none" /\ s.faults \in Nat /\ Laid(s, X)
         /\ ~Stopped(s)
<1>1. "none" # "Cannot recover" /\ "none" # "torn"
  OBVIOUS
<1> QED
  BY <1>1, VolumeType DEF Sound, Laid, Stopped

LEMMA FaultyDone ==
  ASSUME NEW s, NEW H, Sound(s, {}, H), NEW r, Faulted(s, r.s), r.err, r.v = NOBLOCK
  PROVE  Done(s, r, H) /\ Sound(r.s, {}, H) /\ SameData(s, r.s)
<1>1. Sound(r.s, {}, H) /\ r.s.faults >= s.faults
  BY FaultedSound
<1>2. s \in Volumes /\ r.s \in Volumes
  BY <1>1, SoundType
<1>3. Kin(s, r.s)
  BY <1>1, <1>2, KinFrame DEF Faulted
<1>4. SameData(s, r.s)
  <2>1. \A b \in Blocks, k \in Places : At(r.s, b, k) = At(s, b, k)
    BY FaultedSound
  <2> QED
    BY <2>1, DataFrame
<1> QED
  BY <1>1, <1>3, <1>4 DEF Done, Settled

LEMMA ReadDone ==
  ASSUME NEW s, NEW H, Sound(s, {}, H), NEW r \in ReadBlock(s)
  PROVE  Done(s, r, H) /\ Sound(r.s, {}, H) /\ SameData(s, r.s) /\ (~r.err => r.s = s)
<1>1. s \in Volumes
  BY SoundType
<1>2. \/ r.s = s /\ ~r.err /\ r.v = NOBLOCK
      \/ Faulted(s, r.s) /\ r.err /\ r.v = NOBLOCK
  BY <1>1, ReadOut
<1>3. CASE r.s = s /\ ~r.err
  <2>1. s.faults >= s.faults
    BY SoundType
  <2>2. Kin(s, s)
    BY <1>1, <2>1, KinFrame
  <2> QED
    BY <1>3, <2>2 DEF Done, Settled, SameData
<1>4. CASE Faulted(s, r.s) /\ r.err /\ r.v = NOBLOCK
  BY <1>4, FaultyDone
<1> QED
  BY <1>2, <1>3, <1>4

\* An outcome of the second part is one of the whole.
LEMMA DoneAfter ==
  ASSUME NEW s, NEW u, NEW r, NEW H, Kin(s, u), Done(u, r, H)
  PROVE  Done(s, r, H)
BY KinTransitive DEF Done

LEMMA IndirectBlockDone ==
  ASSUME NEW s, NEW H, Sound(s, {}, H), NEW ino \in Blocks, s.vnodes[ino] # NULL,
         NEW doalloc \in BOOLEAN, NEW r \in IndirectBlock(s, ino, doalloc)
  PROVE  /\ Done(s, r, H) /\ SameData(s, r.s)
         /\ ~r.err => /\ Sound(r.s, {}, H) /\ r.v = At(r.s, ino, -1)
                      /\ doalloc => r.v # NOBLOCK
<1> DEFINE b == s.vnodes[ino].i.ind
<1>1. s \in Volumes /\ s.faults >= s.faults /\ s.faults \in Nat /\ Laid(s, {})
  BY SoundType
<1>2. Kin(s, s)
  BY <1>1, KinFrame
<1>3. At(s, ino, -1) = b
  BY <1>1, InodeInMemory
<1>4. CASE b # NOBLOCK
  <2>1. PICK q \in ReadBlock(s) : \/ ~q.err /\ r \in Ok(q.s, b)
                                  \/ q.err /\ r.err /\ r.s = q.s /\ (r.v = q.v \/ r.v = NOBLOCK)
    BY <1>4 DEF IndirectBlock, Then, Try, Fail
  <2>2. Done(s, q, H) /\ Sound(q.s, {}, H) /\ SameData(s, q.s) /\ (~q.err => q.s = s)
    BY ReadDone
  <2> QED
    BY <1>2, <1>3, <1>4, <2>1, <2>2 DEF Done, Settled, Ok
<1>5. CASE b = NOBLOCK /\ doalloc
  <2>1. PICK q \in Balloc(s) : \/ ~q.err /\ r \in Ok(SetIndirect(q.s, ino, q.v), q.v)
                               \/ q.err /\ r.err /\ r.s = q.s /\ (r.v = q.v \/ r.v = NOBLOCK)
    BY <1>5 DEF IndirectBlock, Then, Try, Fail
  <2>2. /\ q.s.vnodes = s.vnodes /\ q.s.dents = s.dents
        /\ \/ ~q.err /\ Sound(q.s, {q.v}, H) /\ q.v \in Blocks /\ q.s.disk[q.v] = Zeros
              /\ q.s.faults = s.faults
           \/ q.err /\ Sound(q.s, {}, H) /\ q.v = NOBLOCK /\ q.s.faults >= s.faults
    BY BallocSound
  <2>5. SameData(s, q.s)
    <3>1. \A c \in Blocks, k \in Places : At(q.s, c, k) = At(s, c, k)
      BY BallocSound
    <3> QED
      BY <3>1, DataFrame
  <2>3. CASE q.err
    <3>1. Kin(s, q.s)
      BY <1>1, <2>2, <2>3, SoundType, KinFrame
    <3> QED
      BY <2>1, <2>2, <2>3, <2>5, <3>1 DEF Done, Settled
  <2>4. CASE ~q.err
    <3> DEFINE i == [q.s.vnodes[ino].i EXCEPT !.ind = q.v]
               u == SetIndirect(q.s, ino, q.v)
               old == q.s.vnodes[ino].i
    <3>1. r.s = u /\ ~r.err /\ r.v = q.v
      BY <2>1, <2>4 DEF Ok
    <3>2. q.s \in Volumes /\ q.s.vnodes[ino] # NULL /\ old = s.vnodes[ino].i
      BY <2>2, <2>4, SoundType
    <3>3. old \in Inodes
      BY <3>2, VnodeType
    <3>4. i \in Inodes /\ i.links = old.links
      <4>1. q.v \in Numbers
        BY <2>2, <2>4 DEF Numbers
      <4>2. \A x \in Inodes, y \in Numbers :
              /\ [x EXCEPT !.ind = y] = [links |-> x.links, direct |-> x.direct, ind |-> y]
              /\ [x EXCEPT !.ind = y] \in Inodes
        BY InodeFields
      <4>3. i = [links |-> old.links, direct |-> old.direct, ind |-> q.v] /\ i \in Inodes
        BY <3>3, <4>1, <4>2
      <4> QED
        BY <4>3
    <3>5. Rewritten(q.s, u, ino, i)
      <4> HIDE DEF i
      <4>1. u = SetDirty([q.s EXCEPT !.vnodes = [q.s.vnodes EXCEPT ![ino] = [q.s.vnodes[ino] EXCEPT !.i = i]]], ino)
        BY DEF SetIndirect, i
      <4>2. Rewritten(q.s, SetDirty([q.s EXCEPT !.vnodes = [q.s.vnodes EXCEPT ![ino] = [q.s.vnodes[ino] EXCEPT !.i = i]]], ino), ino, i)
        BY <3>2, <3>4, SetDirtyOut
      <4> QED
        BY <4>1, <4>2
    <3> HIDE DEF u
    <3>6. Sound(u, {}, H) /\ At(u, ino, -1) = q.v /\ SameData(s, u)
      <4>1. q.s.vnodes[ino].i.ind = NOBLOCK
        BY <1>5, <3>2
      <4>2. Placed(q.s, u, H, ino, -1, q.v)
        BY <2>2, <2>4, <3>2, <3>5, <4>1, PutIndirect
      <4>3. SameData(q.s, u)
        BY <4>2, PlacedData
      <4>4. SameData(s, u)
        BY <2>5, <4>3, SameTransitive
      <4> QED
        BY <4>2, <4>4 DEF Placed
    <3>7. Kin(q.s, u)
      BY <3>2, <3>4, <3>5, KinRewritten
    <3>8. Kin(s, q.s)
      BY <1>1, <2>2, <2>4, <3>2, KinFrame
    <3>9. Kin(s, u)
      BY <3>7, <3>8, KinTransitive
    <3> QED
      BY <2>2, <2>4, <3>1, <3>6, <3>9, Indices DEF Done, Settled
  <2> QED
    BY <2>3, <2>4
<1>6. CASE b = NOBLOCK /\ ~doalloc
  <2>2. r \in Ok(s, NOBLOCK)
    BY <1>6, Zenon DEF IndirectBlock
  <2>1. r.s = s /\ ~r.err /\ r.v = NOBLOCK
    BY <2>2 DEF Ok
  <2> QED
    BY <1>2, <1>3, <1>6, <2>1 DEF Done, Settled, SameData
<1> QED
  BY <1>4, <1>5, <1>6

LEMMA BallocKeeps ==
  ASSUME NEW s, s \in Volumes, s.panic = "none", NEW r \in Balloc(s), NEW b \in Blocks, b \in s.map
  PROVE  r.s.disk[b] = s.disk[b]
<1>1. Allocated(s, r)
  BY BallocOut
<1>2. s.disk \in [Blocks -> Contents]
  BY VolumeType
<1> QED
  BY <1>1, <1>2 DEF Allocated

LEMMA BallocKin ==
  ASSUME NEW s, NEW H, Sound(s, {}, H), NEW r \in Balloc(s)
  PROVE  Kin(s, r.s) /\ SameData(s, r.s) /\ (r.err => Done(s, r, H))
<1>1. /\ r.s.vnodes = s.vnodes /\ r.s.dents = s.dents
      /\ \/ ~r.err /\ Sound(r.s, {r.v}, H) /\ r.s.faults = s.faults
         \/ r.err /\ Sound(r.s, {}, H) /\ r.v = NOBLOCK /\ r.s.faults >= s.faults
  BY BallocSound
<1>2. s \in Volumes /\ r.s \in Volumes /\ s.faults \in Nat
  BY <1>1, SoundType
<1>3. r.s.faults >= s.faults
  BY <1>1, <1>2
<1>4. Kin(s, r.s)
  BY <1>1, <1>2, <1>3, KinFrame
<1>5. SameData(s, r.s)
  <2>1. \A b \in Blocks, k \in Places : At(r.s, b, k) = At(s, b, k)
    BY BallocSound
  <2> QED
    BY <2>1, DataFrame
<1> QED
  BY <1>1, <1>4, <1>5 DEF Done, Settled

\* The disk fails, and the block in hand is lost.
LEMMA LostInHand ==
  ASSUME NEW s, NEW x, NEW H, Sound(s, {x}, H), NEW r, Faulted(s, r)
  PROVE  /\ Sound(r, {}, H) /\ Kin(s, r)
         /\ SameData(s, r)
<1>1. /\ s \in Volumes /\ s.faults \in Nat /\ s.panic = "none" /\ (~s.mapdirty => s.diskmap = s.map)
      /\ \A b \in LiveIn(s) : b \in Blocks
  BY SoundType DEF Laid, LiveIn
<1>2. /\ r \in Volumes /\ r.panic = "none" /\ r.vnodes = s.vnodes /\ r.dents = s.dents
      /\ r.map = s.map /\ r.faults >= s.faults + 1 /\ (~r.mapdirty => r.diskmap = r.map)
      /\ r.disk = s.disk
  BY <1>1 DEF Faulted
<1>3. r.faults >= s.faults
  BY <1>1 DEF Faulted
<1>4. Kin(s, r)
  BY <1>1, <1>2, <1>3, KinFrame
<1>5. Sound(r, {}, H) /\ \A b \in Blocks, k \in Places : At(r, b, k) = At(s, b, k)
  BY <1>2, Forgotten
<1> QED
  BY <1>4, <1>5, DataFrame

LEMMA NewEntryDone ==
  ASSUME NEW s, NEW H, Sound(s, {}, H), NEW ino \in Blocks, s.vnodes[ino] # NULL,
         NEW id \in Blocks, At(s, ino, -1) = id, NEW j \in IndirectIx,
         At(s, ino, j + NDIRECT) = NOBLOCK, NEW r \in NewEntry(s, id, j)
  PROVE  /\ Done(s, r, H) /\ Effect(s, r.s, ino, {}, {j + NDIRECT})
         /\ ~r.err => /\ Sound(r.s, {}, H) /\ r.v = At(r.s, ino, j + NDIRECT)
                      /\ r.v # NOBLOCK
<1> DEFINE p(b) == [PointersIn(s, id) EXCEPT ![j] = b]
<1>1. PICK q \in Balloc(s) :
        \/ ~q.err /\ r \in Then(WriteBlock(q.s, id, Pointers(p(q.v))), LAMBDA w, v : Ok(w, q.v))
        \/ q.err /\ r.err /\ r.s = q.s /\ (r.v = q.v \/ r.v = NOBLOCK)
  BY DEF NewEntry, Then, Try, Fail
<1>2. Kin(s, q.s) /\ SameData(s, q.s) /\ (q.err => Done(s, q, H))
  BY BallocKin
<1>3. CASE q.err
  <2>1. Effect(s, q.s, ino, {}, {j + NDIRECT})
    BY <1>2, NoEffect
  <2> QED
    BY <1>1, <1>2, <1>3, <2>1 DEF Done, Settled
<1>4. CASE ~q.err
  <2>1. /\ Sound(q.s, {q.v}, H) /\ q.v \in Blocks
        /\ At(q.s, ino, -1) = id /\ At(q.s, ino, j + NDIRECT) = NOBLOCK
    <3>1. -1 \in Places /\ j + NDIRECT \in Places
      BY Indices
    <3> QED
      BY <1>4, <3>1, BallocSound
  <2>2. q.s \in Volumes /\ q.s.vnodes[ino] # NULL /\ Laid(q.s, {q.v}) /\ s \in Volumes /\ Laid(s, {})
    BY <1>2, <2>1, SoundType DEF Kin
  <2>3. PointersIn(q.s, id) = PointersIn(s, id) /\ PointersIn(s, id) \in [IndirectIx -> Numbers]
    <3>1. id \in s.map
      BY <2>2, InUseOnce, Indices
    <3>2. q.s.disk[id] = s.disk[id]
      BY <2>2, <3>1, SoundType, BallocKeeps
    <3>3. s.vnodes[ino].i.ind = id
      BY <2>2, InodeInMemory
    <3>4. PointersIn(s, id) \in [IndirectIx -> Numbers]
      BY <2>2, <3>3, InodeInMemory, Indices
    <3> QED
      BY <3>2, <3>4 DEF PointersIn
  <2>4. p(q.v) \in [IndirectIx -> Numbers]
    BY <2>1, <2>3 DEF Numbers
  <2>5. Pointers(p(q.v)) \in Contents
    BY <2>4, PointersBack
  <2> DEFINE c == Pointers(p(q.v))
             R == WriteBlock(q.s, id, c)
  <2>11. r \in Then(R, LAMBDA w, v : Ok(w, q.v))
    BY <1>1, <1>4
  <2> HIDE DEF c, R
  <2>6. PICK w \in R :
          \/ ~w.err /\ r \in Ok(w.s, q.v)
          \/ w.err /\ r.err /\ r.s = w.s /\ (r.v = w.v \/ r.v = NOBLOCK)
    BY <2>11 DEF Then, Try, Fail
  <2>7. \/ Stored(q.s, w.s, id, c) /\ ~w.err
        \/ Faulted(q.s, w.s) /\ w.err /\ w.v = NOBLOCK
    BY <2>2, <2>5, WriteOut DEF c, R
  <2>8. CASE w.err
    <3>1. Sound(w.s, {}, H) /\ Kin(q.s, w.s)
      BY <2>1, <2>7, <2>8, LostInHand
    <3>2. Kin(s, w.s)
      BY <1>2, <3>1, KinTransitive
    <3>3. SameData(q.s, w.s)
      BY <2>1, <2>7, <2>8, LostInHand
    <3>4. Effect(s, w.s, ino, {}, {j + NDIRECT})
      BY <1>2, <3>3, SameTransitive, NoEffect
    <3> QED
      BY <2>6, <2>7, <2>8, <3>1, <3>2, <3>4 DEF Done, Settled
  <2>9. CASE ~w.err
    <3>1. Stored(q.s, w.s, id, c)
      BY <2>7, <2>9
    <3>2. /\ Sound(w.s, {}, H) /\ At(w.s, ino, j + NDIRECT) = q.v
          /\ Effect(q.s, w.s, ino, {}, {j + NDIRECT})
      <4> DEFINE u == q.s
                 y == w.s
                 x == q.v
                 l == p(x)
      <4>1. l \in [IndirectIx -> Numbers] /\ l[j] = x /\ \A m \in IndirectIx : m # j => l[m] = PointersIn(u, id)[m]
        BY <2>3, <2>4
      <4>3. /\ Sound(u, {x}, H) /\ u.vnodes[ino] # NULL /\ At(u, ino, -1) = id
            /\ At(u, ino, j + NDIRECT) = NOBLOCK
            /\ Stored(u, y, id, Pointers(l))
        BY <2>1, <2>2, <3>1 DEF c
      <4> HIDE DEF u, y, x, l
      <4>2. Placed(u, y, H, ino, j + NDIRECT, x)
        BY <4>1, <4>3, PutEntry
      <4>4. Effect(u, y, ino, {}, {j + NDIRECT})
        BY <4>2, <4>3, PlacedData
      <4> QED
        BY <4>2, <4>4 DEF Placed, u, y, x
    <3>3. Kin(q.s, w.s)
      <4>1. w.s \in Volumes /\ w.s.vnodes = q.s.vnodes /\ w.s.dents = q.s.dents /\ w.s.faults = q.s.faults
        BY <3>1 DEF Stored
      <4>2. w.s.faults >= q.s.faults
        BY <2>1, <4>1, SoundType
      <4> QED
        BY <2>2, <4>1, <4>2, KinFrame
    <3>4. Kin(s, w.s)
      BY <1>2, <3>3, KinTransitive
    <3>5. r.s = w.s /\ ~r.err /\ r.v = q.v
      BY <2>6, <2>9 DEF Ok
    <3>6. Effect(s, w.s, ino, {}, {j + NDIRECT})
      BY <1>2, <3>2, EffectAfter
    <3> QED
      BY <2>1, <3>2, <3>4, <3>5, <3>6, Indices DEF Done, Settled
  <2> QED
    BY <2>8, <2>9
<1> QED
  BY <1>3, <1>4

LEMMA BmapDirect ==
  ASSUME NEW s, NEW H, Sound(s, {}, H), NEW ino \in Blocks, s.vnodes[ino] # NULL,
         NEW l \in DirectIx, At(s, ino, l) = NOBLOCK, NEW q \in Balloc(s), ~q.err
  PROVE  LET u == SetDirect(q.s, ino, l, q.v) IN
         /\ Sound(u, {}, H) /\ Kin(s, u) /\ At(u, ino, l) = q.v /\ q.v \in Blocks
         /\ Effect(s, u, ino, {}, {l})
<1> DEFINE t == q.s
           x == q.v
           old == t.vnodes[ino].i
           f == [old.direct EXCEPT ![l] = x]
           i == [old EXCEPT !.direct = f]
           u == SetDirect(t, ino, l, x)
<1>1. /\ Sound(t, {x}, H) /\ x \in Blocks /\ At(t, ino, l) = NOBLOCK /\ t.vnodes[ino] # NULL
  BY Indices, BallocSound
<1>2. Kin(s, t) /\ SameData(s, t)
  BY BallocKin
<1>3. u = SetDirty([t EXCEPT !.vnodes = [t.vnodes EXCEPT ![ino] = [t.vnodes[ino] EXCEPT !.i = i]]], ino)
  BY DEF SetDirect
<1> HIDE DEF t, x
<1>4. t \in Volumes
  BY <1>1, SoundType
<1>5. old \in Inodes
  BY <1>1, <1>4, VnodeType
<1>6. f \in [DirectIx -> Numbers]
  <2>1. x \in Numbers /\ old.direct \in [DirectIx -> Numbers]
    BY <1>1, <1>5, InodeType DEF Numbers
  <2> QED
    BY <2>1
<1>7. i \in Inodes /\ i.links = old.links
  <2> HIDE DEF f, old
  <2>1. i = [links |-> old.links, direct |-> f, ind |-> old.ind] /\ i \in Inodes
    BY <1>5, <1>6, InodeFields
  <2> QED
    BY <2>1
<1>8. Rewritten(t, u, ino, i)
  <2> HIDE DEF i, u
  <2>1. Rewritten(t, SetDirty([t EXCEPT !.vnodes = [t.vnodes EXCEPT ![ino] = [t.vnodes[ino] EXCEPT !.i = i]]], ino), ino, i)
    BY <1>1, <1>4, <1>7, SetDirtyOut
  <2> QED
    BY <1>3, <2>1
<1> HIDE DEF u
<1>9. Sound(u, {}, H) /\ At(u, ino, l) = x /\ Effect(t, u, ino, {}, {l})
  <2>1. PutIn(old, i, l, x)
    <3>1. old.direct \in [DirectIx -> Numbers]
      BY <1>5, InodeType
    <3>2. f[l] = x /\ \A m \in DirectIx : m # l => f[m] = old.direct[m]
      BY <3>1
    <3> HIDE DEF f, old
    <3>3. i = [links |-> old.links, direct |-> f, ind |-> old.ind]
      BY <1>5, <1>6, InodeFields
    <3>4. i.links = old.links /\ i.ind = old.ind /\ i.direct = f
      BY <3>3
    <3> HIDE DEF i
    <3> QED
      BY <1>7, <3>2, <3>4 DEF PutIn
  <2>2. PutIn(t.vnodes[ino].i, i, l, x)
    BY <2>1
  <2>3. Sound(t, {x}, H) /\ t.vnodes[ino] # NULL /\ At(t, ino, l) = NOBLOCK
    BY <1>1
  <2> HIDE DEF i, f, old
  <2>4. Placed(t, u, H, ino, l, x)
    BY <1>8, <2>2, <2>3, PutDirect
  <2>5. Effect(t, u, ino, {}, {l})
    BY <2>3, <2>4, PlacedData
  <2> QED
    BY <2>4, <2>5 DEF Placed
<1>10. Kin(t, u)
  BY <1>1, <1>4, <1>7, <1>8, KinRewritten
<1>11. Kin(s, u)
  BY <1>2, <1>10, KinTransitive
<1>12. Effect(s, u, ino, {}, {l})
  BY <1>2, <1>9, EffectAfter
<1> QED
  BY <1>1, <1>9, <1>11, <1>12 DEF u, t, x

LEMMA CheckedDone ==
  ASSUME NEW s, NEW H, Sound(s, {}, H), NEW ino \in Blocks, NEW k \in Places,
         NEW r \in Checked(s, At(s, ino, k))
  PROVE  Done(s, r, H) /\ ~r.err /\ r.s = s /\ r.v = At(s, ino, k)
<1>1. s \in Volumes /\ s.faults >= s.faults /\ Laid(s, {})
  BY SoundType
<1>2. At(s, ino, k) # NOBLOCK => At(s, ino, k) \in s.map
  BY <1>1, InUseOnce
<1>5. r \in Ok(s, At(s, ino, k))
  BY <1>2 DEF Checked
<1>3. ~r.err /\ r.s = s /\ r.v = At(s, ino, k)
  BY <1>5 DEF Ok
<1>4. Kin(s, s)
  BY <1>1, KinFrame
<1> QED
  BY <1>3, <1>4 DEF Done, Settled

LEMMA BmapDone ==
  ASSUME NEW s, NEW H, Sound(s, {}, H), NEW ino \in Blocks, s.vnodes[ino] # NULL,
         NEW i \in FileBlocks, NEW doalloc \in BOOLEAN, NEW r \in Bmap(s, ino, i, doalloc)
  PROVE  /\ Done(s, r, H)
         /\ Effect(s, r.s, ino, {}, {i}) /\ (~doalloc => SameData(s, r.s))
         /\ ~r.err => /\ Sound(r.s, {}, H) /\ r.v = At(r.s, ino, i)
                      /\ doalloc => r.v # NOBLOCK
<1>0. i \in Places /\ i # -1
  BY Indices
<1>3. \A u : SameData(s, u) => Effect(s, u, ino, {}, {i})
  BY NoEffect
<1>4. SameData(s, s)
  BY DEF SameData
<1>1. CASE i < NDIRECT
  <2>1. i \in DirectIx
    BY <1>1, Indices
  <2>2. At(s, ino, i) = s.vnodes[ino].i.direct[i]
    BY <2>1, SoundType, InodeInMemory
  <2>3. r \in IF At(s, ino, i) = NOBLOCK /\ doalloc
              THEN Then(Balloc(s), LAMBDA u, v : Ok(SetDirect(u, ino, i, v), v))
              ELSE Checked(s, At(s, ino, i))
    BY <1>1, <2>2 DEF Bmap
  <2>4. CASE At(s, ino, i) = NOBLOCK /\ doalloc
    <3>1. PICK q \in Balloc(s) : \/ ~q.err /\ r \in Ok(SetDirect(q.s, ino, i, q.v), q.v)
                                 \/ q.err /\ r.err /\ r.s = q.s /\ (r.v = q.v \/ r.v = NOBLOCK)
      BY <2>3, <2>4 DEF Then, Try, Fail
    <3>2. CASE q.err
      <4>1. Done(s, q, H) /\ SameData(s, q.s)
        BY <3>2, BallocKin
      <4> QED
        BY <1>3, <3>1, <3>2, <4>1 DEF Done, Settled
    <3>3. CASE ~q.err
      <4> DEFINE u == SetDirect(q.s, ino, i, q.v)
      <4>1. /\ Sound(u, {}, H) /\ Kin(s, u) /\ At(u, ino, i) = q.v /\ q.v \in Blocks
            /\ Effect(s, u, ino, {}, {i})
        BY <2>1, <2>4, <3>3, BmapDirect
      <4>2. r.s = u /\ ~r.err /\ r.v = q.v
        BY <3>1, <3>3 DEF Ok
      <4> HIDE DEF u
      <4> QED
        BY <2>4, <4>1, <4>2, Indices DEF Done, Settled
    <3> QED
      BY <3>2, <3>3
  <2>5. CASE ~(At(s, ino, i) = NOBLOCK /\ doalloc)
    <3>1. r \in Checked(s, At(s, ino, i))
      BY <2>3, <2>5, Zenon
    <3>2. Done(s, r, H) /\ ~r.err /\ r.s = s /\ r.v = At(s, ino, i)
      BY <1>0, <3>1, CheckedDone
    <3> QED
      BY <1>3, <1>4, <2>5, <3>2, Zenon
  <2> QED
    BY <2>4, <2>5
<1>2. CASE ~(i < NDIRECT)
  <2> DEFINE j == i - NDIRECT
  <2>1. j \in IndirectIx /\ i \notin DirectIx /\ j + NDIRECT = i
    BY <1>2, Indices, SfsAssumption DEF FileBlocks
  <2>2. PICK q \in IndirectBlock(s, ino, doalloc) :
          \/ /\ ~q.err
             /\ r \in IF q.v = NOBLOCK THEN Ok(q.s, NOBLOCK)
                      ELSE IF ~Readable(q.s, q.v) THEN Garbage(q.s)
                      ELSE IF PointersIn(q.s, q.v)[j] = NOBLOCK /\ doalloc THEN NewEntry(q.s, q.v, j)
                      ELSE Checked(q.s, PointersIn(q.s, q.v)[j])
          \/ q.err /\ r.err /\ r.s = q.s /\ (r.v = q.v \/ r.v = NOBLOCK)
    BY <1>2 DEF Bmap, Then, Try, Fail
  <2>3. /\ Done(s, q, H) /\ SameData(s, q.s)
        /\ ~q.err => /\ Sound(q.s, {}, H) /\ q.v = At(q.s, ino, -1)
                     /\ doalloc => q.v # NOBLOCK
    BY IndirectBlockDone
  <2>4. CASE q.err
    BY <1>3, <2>2, <2>3, <2>4 DEF Done, Settled
  <2>5. CASE ~q.err
    <3> DEFINE u == q.s
               id == q.v
    <3>1. /\ Sound(u, {}, H) /\ Kin(s, u) /\ id = At(u, ino, -1) /\ (doalloc => id # NOBLOCK)
          /\ SameData(s, u)
      BY <2>3, <2>5 DEF Done
    <3>2. r \in IF id = NOBLOCK THEN Ok(u, NOBLOCK)
                ELSE IF ~Readable(u, id) THEN Garbage(u)
                ELSE IF PointersIn(u, id)[j] = NOBLOCK /\ doalloc THEN NewEntry(u, id, j)
                ELSE Checked(u, PointersIn(u, id)[j])
      BY <2>2, <2>5
    <3> HIDE DEF u, id, j
    <3>3. u.vnodes[ino] # NULL
      BY <3>1 DEF Kin
    <3>4. u.vnodes[ino].i.ind = id /\ At(u, ino, i) = Listed(u, u.vnodes[ino].i, i)
      BY <1>0, <3>1, <3>3, SoundType, InodeInMemory
    <3>5. At(u, ino, i) = IF id = NOBLOCK THEN NOBLOCK ELSE PointersIn(u, id)[j]
      <4> DEFINE o == u.vnodes[ino].i
      <4>1. o.ind = id /\ At(u, ino, i) = Listed(u, o, i)
        BY <3>4
      <4> HIDE DEF o
      <4>2. Listed(u, o, i) = IF o.ind = NOBLOCK THEN NOBLOCK ELSE PointersIn(u, o.ind)[i - NDIRECT]
        BY <1>0, <2>1, ListedEntry
      <4> QED
        BY <4>1, <4>2 DEF j
    <3>6. CASE id = NOBLOCK
      <4>1. ~r.err /\ r.s = u /\ r.v = NOBLOCK
        BY <3>2, <3>6 DEF Ok
      <4>2. Done(s, r, H)
        BY <3>1, <4>1 DEF Done, Settled
      <4> QED
        BY <1>3, <3>1, <3>5, <3>6, <4>1, <4>2
    <3>7. CASE id # NOBLOCK
      <4>1. Readable(u, id) /\ id \in Blocks
        BY <3>1, <3>3, <3>4, <3>7, SoundType, InodeInMemory
      <4>2. At(u, ino, i) = PointersIn(u, id)[j]
        BY <3>5, <3>7
      <4>3. r \in IF At(u, ino, i) = NOBLOCK /\ doalloc THEN NewEntry(u, id, j) ELSE Checked(u, At(u, ino, i))
        BY <3>2, <3>7, <4>1, <4>2
      <4>4. CASE At(u, ino, i) = NOBLOCK /\ doalloc
        <5>1. r \in NewEntry(u, id, j)
          BY <4>3, <4>4
        <5>2. At(u, ino, j + NDIRECT) = NOBLOCK
          BY <2>1, <4>4 DEF j
        <5>3. j \in IndirectIx
          BY <2>1 DEF j
        <5>4. /\ Done(u, r, H) /\ Effect(u, r.s, ino, {}, {j + NDIRECT})
              /\ ~r.err => Sound(r.s, {}, H) /\ r.v = At(r.s, ino, j + NDIRECT) /\ r.v # NOBLOCK
          BY <3>1, <3>3, <4>1, <5>1, <5>2, <5>3, NewEntryDone
        <5>5. Done(s, r, H)
          BY <3>1, <5>4, DoneAfter
        <5>6. j + NDIRECT = i
          BY <2>1 DEF j
        <5>7. Effect(s, r.s, ino, {}, {j + NDIRECT})
          BY <3>1, <5>4, EffectAfter
        <5> QED
          BY <4>4, <5>4, <5>5, <5>6, <5>7
      <4>5. CASE ~(At(u, ino, i) = NOBLOCK /\ doalloc)
        <5>1. r \in Checked(u, At(u, ino, i))
          BY <4>3, <4>5, Zenon
        <5>2. Done(u, r, H) /\ ~r.err /\ r.s = u /\ r.v = At(u, ino, i)
          BY <1>0, <3>1, <5>1, CheckedDone
        <5>3. Done(s, r, H)
          BY <3>1, <5>2, DoneAfter
        <5>4. Sound(r.s, {}, H)
          BY <3>1, <5>2
        <5>5. SameData(s, r.s) /\ Effect(s, r.s, ino, {}, {i})
          BY <1>3, <3>1, <5>2
        <5> QED
          BY <4>5, <5>2, <5>3, <5>4, <5>5, Zenon
      <4> QED
        BY <4>4, <4>5
    <3> QED
      BY <3>6, <3>7
  <2> QED
    BY <2>4, <2>5
<1> QED
  BY <1>1, <1>2

\* Data is written.
LEMMA DataSound ==
  ASSUME NEW s, NEW r, NEW H, Sound(s, {}, H), NEW ino \in Blocks, NEW k \in Places, k # -1,
         NEW d, d = At(s, ino, k), d # NOBLOCK, NEW c, Stored(s, r, d, c)
  PROVE  Sound(r, {}, H) /\ Kin(s, r) /\ SameData(s, r)
<1>1. s \in Volumes /\ s.faults >= s.faults /\ Laid(s, {}) /\ s.panic = "none"
      /\ (~s.mapdirty => s.diskmap = s.map)
  BY SoundType DEF Laid
<1>2. d \in Blocks /\ s.disk \in [Blocks -> Contents]
  BY <1>1, InUseOnce, VolumeType
<1>3. \A b \in Blocks : b # d => r.disk[b] = s.disk[b]
  BY <1>2 DEF Stored
<1>4. \A b \in LiveIn(s) : b \in Blocks /\ b # d
  BY <1>1, InUseOnce
<1>5. \A b \in LiveIn(s) : At(s, b, -1) # NOBLOCK => At(s, b, -1) \in Blocks /\ At(s, b, -1) # d
  <2> TAKE b \in LiveIn(s)
  <2>1. -1 \in Places /\ b \in Blocks
    BY <1>4, Indices
  <2> QED
    BY <1>1, <2>1, InUseOnce
<1>6. /\ \A b \in LiveIn(s) : r.disk[b] = s.disk[b]
      /\ \A b \in LiveIn(s) : At(s, b, -1) # NOBLOCK => r.disk[At(s, b, -1)] = s.disk[At(s, b, -1)]
  BY <1>3, <1>4, <1>5
<1>7. /\ r \in Volumes /\ r.panic = "none" /\ r.vnodes = s.vnodes /\ r.dents = s.dents
      /\ r.map = s.map /\ r.faults >= s.faults /\ (~r.mapdirty => r.diskmap = r.map)
  BY <1>1 DEF Stored
<1>8. Kin(s, r)
  BY <1>1, <1>7, KinFrame
<1>9. Sound(r, {}, H) /\ \A b \in Blocks, l \in Places : At(r, b, l) = At(s, b, l)
  BY <1>6, <1>7, Kept
<1> QED
  BY <1>8, <1>9, DataFrame

LEMMA WriteDone ==
  ASSUME NEW s, NEW H, Sound(s, {}, H), NEW ino \in Blocks, s.vnodes[ino] # NULL,
         NEW i \in FileBlocks, NEW r \in Write(s, ino, i)
  PROVE  Done(s, r, H) /\ Effect(s, r.s, ino, {}, {i})
<1>0. i \in Places /\ i # -1
  BY Indices
<1> DEFINE t == TRUE
           R == Bmap(s, ino, i, t)
<1>10. r \in Then(R, LAMBDA u, b : WriteBlock(u, b, Zeros))
  BY Zenon DEF Write
<1>2. t \in BOOLEAN /\ t
  OBVIOUS
<1> HIDE DEF t, R
<1>1. PICK q \in R : \/ ~q.err /\ r \in WriteBlock(q.s, q.v, Zeros)
                     \/ q.err /\ r.err /\ r.s = q.s /\ (r.v = q.v \/ r.v = NOBLOCK)
  BY <1>10 DEF Then, Try, Fail
<1>3. /\ Done(s, q, H) /\ Effect(s, q.s, ino, {}, {i})
      /\ ~q.err => Sound(q.s, {}, H) /\ q.v = At(q.s, ino, i) /\ q.v # NOBLOCK
  BY <1>2, BmapDone DEF R
<1>4. CASE q.err
  BY <1>1, <1>3, <1>4 DEF Done, Settled
<1>5. CASE ~q.err
  <2> DEFINE u == q.s
             b == q.v
  <2>1. /\ Sound(u, {}, H) /\ Kin(s, u) /\ b = At(u, ino, i) /\ b # NOBLOCK /\ r \in WriteBlock(u, b, Zeros)
        /\ Effect(s, u, ino, {}, {i})
    BY <1>1, <1>3, <1>5 DEF Done
  <2> HIDE DEF u, b
  <2>2. u \in Volumes /\ b \in Blocks
    BY <1>0, <2>1, SoundType, InUseOnce
  <2>3. \/ Stored(u, r.s, b, Zeros) /\ ~r.err
        \/ Faulted(u, r.s) /\ r.err /\ r.v = NOBLOCK
    BY <2>1, <2>2, KindsDiffer, WriteOut
  <2>4. Done(u, r, H) /\ SameData(u, r.s)
    <3>1. CASE Stored(u, r.s, b, Zeros) /\ ~r.err
      <4>1. Sound(r.s, {}, H) /\ Kin(u, r.s) /\ SameData(u, r.s)
        BY <1>0, <2>1, <3>1, DataSound
      <4> QED
        BY <3>1, <4>1 DEF Done, Settled
    <3>2. CASE Faulted(u, r.s) /\ r.err /\ r.v = NOBLOCK
      BY <2>1, <3>2, FaultyDone
    <3> QED
      BY <2>3, <3>1, <3>2
  <2>5. Effect(s, r.s, ino, {}, {i})
    BY <2>1, <2>4, NoEffect, EffectTransitive
  <2> QED
    BY <2>1, <2>4, <2>5, DoneAfter
<1> QED
  BY <1>4, <1>5

LEMMA ReadFileDone ==
  ASSUME NEW s, NEW H, Sound(s, {}, H), NEW ino \in Blocks, s.vnodes[ino] # NULL,
         NEW i \in FileBlocks, NEW r \in Read(s, ino, i)
  PROVE  Done(s, r, H) /\ SameData(s, r.s)
<1> DEFINE t == FALSE
           R == Bmap(s, ino, i, t)
<1>10. r \in Then(R, LAMBDA u, b : IF b = NOBLOCK THEN Ok(u, b) ELSE ReadBlock(u))
  BY Zenon DEF Read
<1>2. t \in BOOLEAN /\ ~t
  OBVIOUS
<1> HIDE DEF t, R
<1>1. PICK q \in R :
        \/ ~q.err /\ r \in IF q.v = NOBLOCK THEN Ok(q.s, q.v) ELSE ReadBlock(q.s)
        \/ q.err /\ r.err /\ r.s = q.s /\ (r.v = q.v \/ r.v = NOBLOCK)
  BY <1>10 DEF Then, Try, Fail
<1>3. /\ Done(s, q, H) /\ SameData(s, q.s)
      /\ ~q.err => Sound(q.s, {}, H)
  BY <1>2, BmapDone DEF R
<1>4. CASE q.err
  BY <1>1, <1>3, <1>4 DEF Done, Settled
<1>5. CASE ~q.err /\ q.v = NOBLOCK
  <2>1. r.s = q.s /\ ~r.err
    BY <1>1, <1>5 DEF Ok
  <2> QED
    BY <1>3, <1>5, <2>1 DEF Done, Settled
<1>6. CASE ~q.err /\ q.v # NOBLOCK
  <2>1. Sound(q.s, {}, H) /\ Kin(s, q.s) /\ r \in ReadBlock(q.s)
    BY <1>1, <1>3, <1>6 DEF Done
  <2>2. Done(q.s, r, H) /\ SameData(q.s, r.s)
    BY <2>1, ReadDone
  <2>3. SameData(s, r.s)
    BY <1>3, <2>2, SameTransitive
  <2> QED
    BY <2>1, <2>2, <2>3, DoneAfter
<1> QED
  BY <1>4, <1>5, <1>6

-----------------------------------------------------------------------------
(* sfs_itrunc.                                                             *)

\* Blocks are freed before they are cut off; it might be the other way round.
LEMMA FreedThenRewritten ==
  ASSUME NEW s \in Volumes, NEW u, NEW r, NEW B, NEW ino \in Blocks, NEW i,
         Freed(s, u, B), Rewritten(u, r, ino, i)
  PROVE  \E w : Rewritten(s, w, ino, i) /\ Freed(w, r, B)
<1> DEFINE d == [b \in Blocks |-> IF b = ino THEN r.disk[ino] ELSE s.disk[b]]
           w == [map |-> s.map, mapdirty |-> s.mapdirty, vnodes |-> r.vnodes,
                 diskmap |-> s.diskmap, dents |-> s.dents, disk |-> d,
                 faults |-> s.faults, panic |-> s.panic]
<1>1. r \in Volumes /\ u \in Volumes
  BY DEF Freed, Rewritten
<1>2. d \in [Blocks -> Contents]
  <2>1. s.disk \in [Blocks -> Contents] /\ r.disk \in [Blocks -> Contents]
    BY <1>1, VolumeType
  <2> QED
    BY <2>1
<1>3. d[ino] = r.disk[ino] /\ \A b \in Blocks : b # ino => d[b] = s.disk[b]
  OBVIOUS
<1> HIDE DEF d
<1>4. w \in Volumes
  BY <1>1, <1>2, VolumeType DEF Volumes
<1>5. /\ w.map = s.map /\ w.mapdirty = s.mapdirty /\ w.vnodes = r.vnodes
      /\ w.diskmap = s.diskmap /\ w.dents = s.dents /\ w.disk = d
      /\ w.faults = s.faults /\ w.panic = s.panic
  OBVIOUS
<1> HIDE DEF w
<1>6. Rewritten(s, w, ino, i)
  BY <1>3, <1>4, <1>5 DEF Rewritten, Freed
<1>7. Freed(w, r, B)
  <2>1. \A b \in Blocks : b \notin B => r.disk[b] = w.disk[b]
    BY <1>3, <1>5 DEF Rewritten, Freed
  <2> QED
    BY <1>1, <1>5, <2>1 DEF Rewritten, Freed
<1> QED
  BY <1>6, <1>7

LEMMA FreedThenStored ==
  ASSUME NEW s \in Volumes, NEW u, NEW r, NEW B, NEW d \in Blocks, NEW c \in Contents,
         Freed(s, u, B), Stored(u, r, d, c)
  PROVE  \E w : Stored(s, w, d, c) /\ Freed(w, r, B)
<1> DEFINE e == [s.disk EXCEPT ![d] = c]
           w == [map |-> s.map, mapdirty |-> s.mapdirty, vnodes |-> s.vnodes,
                 diskmap |-> s.diskmap, dents |-> s.dents, disk |-> e,
                 faults |-> s.faults, panic |-> s.panic]
<1>1. r \in Volumes /\ u \in Volumes
  BY DEF Freed, Stored
<1>2. s.disk \in [Blocks -> Contents] /\ u.disk \in [Blocks -> Contents]
  BY <1>1, VolumeType
<1>3. e \in [Blocks -> Contents] /\ e[d] = c /\ \A b \in Blocks : b # d => e[b] = s.disk[b]
  BY <1>2
<1>8. e = [s.disk EXCEPT ![d] = c]
  OBVIOUS
<1> HIDE DEF e
<1>4. w \in Volumes
  BY <1>1, <1>3, VolumeType DEF Volumes
<1>5. /\ w.map = s.map /\ w.mapdirty = s.mapdirty /\ w.vnodes = s.vnodes
      /\ w.diskmap = s.diskmap /\ w.dents = s.dents /\ w.disk = e
      /\ w.faults = s.faults /\ w.panic = s.panic
  OBVIOUS
<1> HIDE DEF w
<1>6. Stored(s, w, d, c)
  BY <1>4, <1>5, <1>8 DEF Stored
<1>7. Freed(w, r, B)
  <2>2. r.disk[d] = c /\ \A b \in Blocks : b # d => r.disk[b] = u.disk[b]
    BY <1>2 DEF Stored
  <2>1. \A b \in Blocks : b \notin B => r.disk[b] = w.disk[b]
    BY <1>3, <1>5, <2>2 DEF Freed
  <2> QED
    BY <1>1, <1>5, <2>1 DEF Stored, Freed
<1> QED
  BY <1>6, <1>7

LEMMA FreedTwice ==
  ASSUME NEW s, NEW u, NEW r, NEW B, NEW C, Freed(s, u, B), Freed(u, r, C)
  PROVE  Freed(s, r, B \cup C)
<1>1. r.map = s.map \ (B \cup C)
  BY DEF Freed
<1>2. r.mapdirty \/ (B \cup C = {} /\ r.mapdirty = s.mapdirty /\ r.diskmap = s.diskmap)
  BY DEF Freed
<1> QED
  BY <1>1, <1>2 DEF Freed

\* What may be freed of a file.
LEMMA FreePart ==
  ASSUME NEW s, NEW H, Sound(s, {}, H), NEW ino \in Blocks, s.vnodes[ino] # NULL,
         NEW P \in SUBSET Places, NEW I, IsFiniteSet(I), NEW f \in [I -> Numbers],
         NEW g, \A j \in I : f[j] # NOBLOCK => g[j] \in P /\ f[j] = At(s, ino, g[j]),
         \A j, m \in I : g[j] = g[m] => j = m,
         \A k \in P : At(s, ino, k) # NOBLOCK => \E j \in I : f[j] = At(s, ino, k),
         NEW r \in Bfree(s, f)
  PROVE  Freed(s, r.s, Part(s, ino, P)) /\ ~r.err
<1>1. s \in Volumes /\ Laid(s, {})
  BY SoundType
<1>2. BlocksIn(f) = Part(s, ino, P)
  BY DEF BlocksIn, Part
<1>3. Part(s, ino, P) \subseteq s.map
  BY <1>1, PartOnly
<1>4. \A j, m \in I : f[j] # NOBLOCK /\ f[j] = f[m] => j = m
  <2> SUFFICES ASSUME NEW j \in I, NEW m \in I, f[j] # NOBLOCK, f[j] = f[m]
               PROVE  j = m
    OBVIOUS
  <2>1. At(s, ino, g[j]) = At(s, ino, g[m]) /\ At(s, ino, g[j]) # NOBLOCK /\ g[j] \in Places /\ g[m] \in Places
    OBVIOUS
  <2>2. g[j] = g[m]
    BY <1>1, <2>1, InUseOnce
  <2> QED
    BY <2>2
<1>5. BlocksIn(f) \subseteq s.map
  BY <1>2, <1>3
<1>6. Freed(s, r.s, BlocksIn(f)) /\ ~r.err /\ r.v = NOBLOCK
  BY <1>1, <1>4, <1>5, BfreeOut
<1> QED
  BY <1>2, <1>6

\* Then they are freed.
Trimmed(s, r, ino, H, P) ==
  /\ Sound(r, {}, H)
  /\ \A b \in Blocks, k \in Places :
       At(r, b, k) = IF b = ino /\ k \in P THEN NOBLOCK ELSE At(s, b, k)

LEMMA DetachedFreed ==
  ASSUME NEW s, NEW w, NEW r, NEW ino \in Blocks, NEW H, NEW P, Detached(s, w, ino, H, P),
         Freed(w, r, Part(s, ino, P))
  PROVE  Trimmed(s, r, ino, H, P)
<1> DEFINE X == Part(s, ino, P)
<1>1. Sound(w, X, H) /\ Freed(w, r, X)
  BY DEF Detached
<1> HIDE DEF X
<1>2. Sound(r, {}, H) /\ \A b \in Blocks, k \in Places : At(r, b, k) = At(w, b, k)
  BY <1>1, FreedSound
<1> QED
  BY <1>2 DEF Detached, Trimmed

\* The places from block len of a file on.
Past(len) == {k \in FileBlocks : k >= len}

LEMMA TrimmedData ==
  ASSUME NEW s, NEW r, NEW ino \in Blocks, NEW H, NEW P, NEW len, Trimmed(s, r, ino, H, P),
         \A k \in FileBlocks : k \in P => k >= len \/ At(s, ino, k) = NOBLOCK
  PROVE  Effect(s, r, ino, Past(len), {})
<1>1. \A b \in Blocks, k \in FileBlocks :
        At(r, b, k) = IF b = ino /\ k \in P THEN NOBLOCK ELSE At(s, b, k)
  BY Indices DEF Trimmed
<1>2. \A b \in Blocks : b # ino => Data(r, b) = Data(s, b)
  BY <1>1 DEF Data
<1>3. Data(r, ino) \subseteq Data(s, ino) \cup {}
  BY <1>1 DEF Data
<1>4. Data(s, ino) \ Past(len) \subseteq Data(r, ino)
  <2> SUFFICES ASSUME NEW k \in FileBlocks, At(s, ino, k) # NOBLOCK, ~(k >= len)
               PROVE  At(r, ino, k) # NOBLOCK
    BY DEF Data, Past
  <2> QED
    BY <1>1
<1> QED
  BY <1>2, <1>3, <1>4 DEF Effect

LEMMA FreedKin ==
  ASSUME NEW s \in Volumes, NEW r, NEW B, Freed(s, r, B)
  PROVE  Kin(s, r)
<1>1. r \in Volumes /\ r.vnodes = s.vnodes /\ r.dents = s.dents /\ r.faults >= s.faults
  BY VolumeType DEF Freed
<1> QED
  BY <1>1, KinFrame

\* The direct part of sfs_itrunc.
PastIn(len) == {k \in DirectIx : k >= len}

LEMMA CutDirect ==
  ASSUME NEW s, NEW H, Sound(s, {}, H), NEW ino \in Blocks, s.vnodes[ino] # NULL,
         NEW len \in FileBlocks,
         NEW gone, gone = [k \in DirectIx |-> IF k >= len THEN s.vnodes[ino].i.direct[k] ELSE NOBLOCK],
         NEW kept, kept = [k \in DirectIx |-> IF k >= len THEN NOBLOCK ELSE s.vnodes[ino].i.direct[k]],
         NEW q \in Bfree(s, gone)
  PROVE  LET r == IF kept = s.vnodes[ino].i.direct THEN q.s
                  ELSE SetDirty([q.s EXCEPT !.vnodes[ino].i.direct = kept], ino)
         IN ~q.err /\ Kin(s, r) /\ Trimmed(s, r, ino, H, PastIn(len))
<1> DEFINE o == s.vnodes[ino].i
           K == PastIn(len)
           u == q.s
<1>1. s \in Volumes /\ Laid(s, {})
  BY SoundType
<1>2. /\ o.direct \in [DirectIx -> Numbers] /\ o \in Inodes /\ o.ind \in Numbers /\ o.links \in Nat
      /\ \A k \in DirectIx : At(s, ino, k) = o.direct[k]
  BY <1>1, InodeInMemory
<1>3. \A k \in DirectIx : /\ gone[k] = IF k \in K THEN o.direct[k] ELSE NOBLOCK
                          /\ kept[k] = IF k \in K THEN NOBLOCK ELSE o.direct[k]
  BY DEF PastIn
<1>4. gone \in [DirectIx -> Numbers] /\ kept \in [DirectIx -> Numbers]
  BY <1>2 DEF Numbers
<1>5. K \in SUBSET Places /\ K \in SUBSET DirectIx /\ DirectIx \subseteq Places /\ IsFiniteSet(DirectIx)
  BY Indices DEF PastIn
<1> DEFINE g == [k \in DirectIx |-> k]
<1>6. Freed(s, u, Part(s, ino, K)) /\ ~q.err
  <2>1. \A j \in DirectIx : gone[j] # NOBLOCK => g[j] \in K /\ gone[j] = At(s, ino, g[j])
    BY <1>2, <1>3
  <2>2. \A j, m \in DirectIx : g[j] = g[m] => j = m
    OBVIOUS
  <2>3. \A k \in K : At(s, ino, k) # NOBLOCK => \E j \in DirectIx : gone[j] = At(s, ino, k)
    BY <1>2, <1>3, <1>5
  <2> HIDE DEF g, K, u
  <2>4. Freed(s, q.s, Part(s, ino, K)) /\ ~q.err
    BY <1>4, <1>5, <2>1, <2>2, <2>3, FreePart
  <2> QED
    BY <2>4 DEF u
<1>7. Kin(s, u) /\ u \in Volumes /\ u.vnodes = s.vnodes
  BY <1>1, <1>6, FreedKin DEF Freed
<1>8. CASE kept = o.direct
  <2>1. \A k \in K : At(s, ino, k) = NOBLOCK
    BY <1>2, <1>3, <1>5, <1>8
  <2>2. Part(s, ino, K) = {}
    BY <2>1 DEF Part
  <2>3. Freed(s, u, {})
    BY <1>6, <2>2
  <2> HIDE DEF u, K
  <2>4. Sound(u, {}, H) /\ \A b \in Blocks, k \in Places : At(u, b, k) = At(s, b, k)
    BY <2>3, FreedSound
  <2>5. Trimmed(s, u, ino, H, K)
    BY <2>1, <2>4 DEF Trimmed
  <2> QED
    BY <1>6, <1>7, <1>8, <2>5 DEF u, K
<1>9. CASE kept # o.direct
  <2> DEFINE i == [u.vnodes[ino].i EXCEPT !.direct = kept]
             r == SetDirty([u EXCEPT !.vnodes[ino].i.direct = kept], ino)
  <2>1. r = SetDirty([u EXCEPT !.vnodes = [u.vnodes EXCEPT ![ino] = [u.vnodes[ino] EXCEPT !.i = i]]], ino)
    OBVIOUS
  <2>2. u.vnodes[ino].i = o /\ u.vnodes[ino] # NULL
    BY <1>7
  <2>3. i.links = o.links /\ i.ind = o.ind /\ i.direct = kept /\ i \in Inodes
    <3> HIDE DEF o, u
    <3>1. i = [o EXCEPT !.direct = kept]
      BY <2>2
    <3>2. [o EXCEPT !.direct = kept] = [links |-> o.links, direct |-> kept, ind |-> o.ind]
          /\ [o EXCEPT !.direct = kept] \in Inodes
      BY <1>2, <1>4, InodeFields
    <3>3. i = [links |-> o.links, direct |-> kept, ind |-> o.ind] /\ i \in Inodes
      BY <3>1, <3>2
    <3> HIDE DEF i
    <3> QED
      BY <3>3
  <2> HIDE DEF i, r, u
  <2>4. Rewritten(u, r, ino, i)
    <3>1. Rewritten(u, SetDirty([u EXCEPT !.vnodes = [u.vnodes EXCEPT ![ino] = [u.vnodes[ino] EXCEPT !.i = i]]], ino), ino, i)
      BY <1>7, <2>2, <2>3, SetDirtyOut
    <3> QED
      BY <2>1, <3>1
  <2>5. CutOff(s.vnodes[ino].i, i, K)
    BY <1>3, <2>3 DEF CutOff
  <2> HIDE DEF K
  <2>6. PICK w : Rewritten(s, w, ino, i) /\ Freed(w, r, Part(s, ino, K))
    BY <1>1, <1>6, <2>4, FreedThenRewritten
  <2>7. Detached(s, w, ino, H, K)
    BY <1>5, <2>5, <2>6, DetachDirect
  <2>8. Trimmed(s, r, ino, H, K)
    BY <2>6, <2>7, DetachedFreed
  <2>9. Kin(u, r)
    <3>1. i.links = u.vnodes[ino].i.links
      BY <2>2, <2>3
    <3> QED
      BY <1>7, <2>2, <2>3, <2>4, <3>1, KinRewritten
  <2>10. Kin(s, r)
    BY <1>7, <2>9, KinTransitive
  <2> QED
    BY <1>6, <1>9, <2>8, <2>10 DEF r, u, K
<1> QED
  BY <1>8, <1>9

LEMMA EntriesAt ==
  ASSUME NEW s, NEW X, NEW H, Sound(s, X, H), NEW ino \in Blocks, s.vnodes[ino] # NULL,
         NEW id \in Blocks, s.vnodes[ino].i.ind = id
  PROVE  \A j \in IndirectIx : /\ j + NDIRECT \in Places
                               /\ At(s, ino, j + NDIRECT) = PointersIn(s, id)[j]
<1> DEFINE o == s.vnodes[ino].i
<1>1. o.ind = id /\ id # NOBLOCK /\ \A k \in Places : At(s, ino, k) = Listed(s, o, k)
  BY SoundType, InodeInMemory, Indices
<1> HIDE DEF o
<1>2. \A j \in IndirectIx : Listed(s, o, j + NDIRECT) =
            IF o.ind = NOBLOCK THEN NOBLOCK ELSE PointersIn(s, o.ind)[j]
  BY ListedPlaces
<1>3. \A j \in IndirectIx : j + NDIRECT \in Places
  BY Indices
<1> QED
  BY <1>1, <1>2, <1>3

\* The indirect part, first what it frees: the entries J, and then the block.
LEMMA FreeEntries ==
  ASSUME NEW s, NEW H, Sound(s, {}, H), NEW ino \in Blocks, s.vnodes[ino] # NULL,
         NEW id \in Blocks, s.vnodes[ino].i.ind = id, NEW J \in SUBSET IndirectIx,
         NEW gone \in [IndirectIx -> Numbers],
         \A j \in IndirectIx : gone[j] = IF j \in J THEN PointersIn(s, id)[j] ELSE NOBLOCK,
         NEW r \in Bfree(s, gone)
  PROVE  Freed(s, r.s, Part(s, ino, PlacesOf(J))) /\ ~r.err
<1> DEFINE g == [j \in IndirectIx |-> j + NDIRECT]
           P == PlacesOf(J)
<1>1. P \in SUBSET Places /\ IsFiniteSet(IndirectIx)
  BY Indices DEF PlacesOf
<1>2. \A j \in IndirectIx : j + NDIRECT \in Places /\ At(s, ino, j + NDIRECT) = PointersIn(s, id)[j]
  BY EntriesAt
<1>3. \A j \in IndirectIx : gone[j] # NOBLOCK => g[j] \in P /\ gone[j] = At(s, ino, g[j])
  BY <1>2 DEF PlacesOf
<1>4. \A j, m \in IndirectIx : g[j] = g[m] => j = m
  <2>1. IndirectIx \subseteq Int /\ NDIRECT \in Int
    BY SfsAssumption DEF IndirectIx
  <2> QED
    BY <2>1
<1>5. \A k \in P : At(s, ino, k) # NOBLOCK => \E j \in IndirectIx : gone[j] = At(s, ino, k)
  <2> TAKE k \in P
  <2>1. PICK j \in J : k = j + NDIRECT
    BY DEF PlacesOf
  <2> QED
    BY <1>2, <2>1
<1> HIDE DEF g, P
<1>6. Freed(s, r.s, Part(s, ino, P)) /\ ~r.err
  BY <1>1, <1>3, <1>4, <1>5, FreePart
<1> QED
  BY <1>6 DEF P

LEMMA FreeOne ==
  ASSUME NEW s \in Volumes, NEW b \in s.map, NEW r \in Bfree(s, <<b>>)
  PROVE  Freed(s, r.s, {b}) /\ ~r.err
<1> DEFINE f == <<b>>
           I == 1 .. 1
<1>1. b \in Blocks /\ b \in Numbers /\ b # NOBLOCK
  BY VolumeType, Indices DEF Numbers
<1>2. f \in [I -> Numbers] /\ IsFiniteSet(I) /\ DOMAIN f = I /\ f[1] = b
  <2>3. 1 .. 1 = {1} /\ IsFiniteSet({1})
    BY FS_Singleton
  <2>1. IsFiniteSet(1 .. 1)
    BY <2>3
  <2>2. f \in [I -> Numbers] /\ DOMAIN f = I /\ f[1] = b
    BY <1>1
  <2> QED
    BY <2>1, <2>2
<1>3. BlocksIn(f) = {b}
  BY <1>1, <1>2 DEF BlocksIn
<1>4. BlocksIn(f) \subseteq s.map
  BY <1>3
<1>5. \A i, j \in I : f[i] # NOBLOCK /\ f[i] = f[j] => i = j
  OBVIOUS
<1>6. r \in Bfree(s, f)
  OBVIOUS
<1> HIDE DEF f, I
<1>7. Freed(s, r.s, BlocksIn(f)) /\ ~r.err /\ r.v = NOBLOCK
  BY <1>2, <1>4, <1>5, <1>6, BfreeOut
<1> QED
  BY <1>3, <1>7

\* The indirect block goes with all its entries.
LEMMA DropIndirect ==
  ASSUME NEW s, NEW H, Sound(s, {}, H), NEW ino \in Blocks, s.vnodes[ino] # NULL,
         NEW id \in Blocks, s.vnodes[ino].i.ind = id, NEW J \in SUBSET IndirectIx,
         \A j \in IndirectIx : j \notin J => PointersIn(s, id)[j] = NOBLOCK,
         NEW w, Freed(s, w, Part(s, ino, PlacesOf(J))), NEW q \in Bfree(w, <<id>>)
  PROVE  LET r == SetIndirect(q.s, ino, NOBLOCK)
         IN ~q.err /\ Kin(s, r) /\ Trimmed(s, r, ino, H, IndirectPlaces)
<1> DEFINE B == Part(s, ino, PlacesOf(J))
           u == q.s
           o == u.vnodes[ino].i
           i == [o EXCEPT !.ind = NOBLOCK]
           r == SetIndirect(u, ino, NOBLOCK)
<1>1. s \in Volumes /\ Laid(s, {}) /\ w \in Volumes
  BY SoundType DEF Freed
<1>2. /\ id \in s.map /\ id # NOBLOCK /\ At(s, ino, -1) = id /\ s.vnodes[ino].i \in Inodes
      /\ \A k \in Places : At(s, ino, k) = Listed(s, s.vnodes[ino].i, k)
  BY <1>1, InodeInMemory, Indices
<1>3. PlacesOf(J) \in SUBSET Places /\ -1 \in Places /\ -1 \notin PlacesOf(J)
  BY Indices DEF PlacesOf
<1>4. id \notin B
  BY <1>1, <1>2, <1>3, PartOnly
<1>5. id \in w.map
  BY <1>2, <1>4 DEF Freed
<1>6. Freed(w, u, {id}) /\ ~q.err
  BY <1>1, <1>5, FreeOne
<1>7. Freed(s, u, B \cup {id})
  BY <1>6, FreedTwice
<1>8. B \cup {id} = Part(s, ino, IndirectPlaces)
  <2>1. \A k \in IndirectPlaces : k = -1 \/ k \in PlacesOf(J) \/ At(s, ino, k) = NOBLOCK
    <3> TAKE k \in IndirectPlaces
    <3> SUFFICES ASSUME k # -1, k \notin PlacesOf(J)
                 PROVE  At(s, ino, k) = NOBLOCK
      OBVIOUS
    <3>1. k \in Places /\ k \notin DirectIx
      BY DEF IndirectPlaces
    <3>2. k - NDIRECT \in IndirectIx
      BY <3>1, Indices
    <3>3. k - NDIRECT \notin J
      <4>1. k \in Int /\ NDIRECT \in Int
        BY <3>1, SfsAssumption DEF Places, FileBlocks
      <4>2. k = (k - NDIRECT) + NDIRECT
        BY <4>1
      <4> QED
        BY <4>2 DEF PlacesOf
    <3> DEFINE x == s.vnodes[ino].i
    <3>4. x.ind = id /\ At(s, ino, k) = Listed(s, x, k)
      BY <1>2, <3>1
    <3> HIDE DEF x
    <3>5. Listed(s, x, k) = IF x.ind = NOBLOCK THEN NOBLOCK ELSE PointersIn(s, x.ind)[k - NDIRECT]
      BY <3>1, ListedEntry
    <3> QED
      BY <1>2, <3>2, <3>3, <3>4, <3>5
  <2>2. PlacesOf(J) \subseteq IndirectPlaces /\ -1 \in IndirectPlaces
    BY Indices DEF PlacesOf, IndirectPlaces
  <2>3. B \cup {id} \subseteq Part(s, ino, IndirectPlaces)
    BY <1>2, <2>2 DEF Part
  <2>4. Part(s, ino, IndirectPlaces) \subseteq B \cup {id}
    BY <1>2, <2>1 DEF Part
  <2> QED
    BY <2>3, <2>4
<1>9. Kin(s, u) /\ u \in Volumes /\ u.vnodes = s.vnodes
  BY <1>1, <1>7, FreedKin DEF Freed
<1>10. r = SetDirty([u EXCEPT !.vnodes = [u.vnodes EXCEPT ![ino] = [u.vnodes[ino] EXCEPT !.i = i]]], ino)
  BY DEF SetIndirect
<1>11. o = s.vnodes[ino].i /\ u.vnodes[ino] # NULL
  BY <1>9
<1>12. i.links = o.links /\ i.ind = NOBLOCK /\ i.direct = o.direct /\ i \in Inodes
  <2>1. NOBLOCK \in Numbers /\ o \in Inodes
    BY <1>2, <1>11 DEF Numbers
  <2> HIDE DEF o
  <2>2. i = [links |-> o.links, direct |-> o.direct, ind |-> NOBLOCK] /\ i \in Inodes
    BY <2>1, InodeFields
  <2> QED
    BY <2>2
<1> HIDE DEF i, r, u, B
<1>13. Rewritten(u, r, ino, i)
  <2>1. Rewritten(u, SetDirty([u EXCEPT !.vnodes = [u.vnodes EXCEPT ![ino] = [u.vnodes[ino] EXCEPT !.i = i]]], ino), ino, i)
    BY <1>9, <1>11, <1>12, SetDirtyOut
  <2> QED
    BY <1>10, <2>1
<1>14. CutIndirect(s.vnodes[ino].i, i)
  BY <1>11, <1>12 DEF CutIndirect
<1>15. PICK x : Rewritten(s, x, ino, i) /\ Freed(x, r, Part(s, ino, IndirectPlaces))
  <2>1. Freed(s, u, Part(s, ino, IndirectPlaces))
    BY <1>7, <1>8
  <2> QED
    BY <1>1, <1>13, <2>1, FreedThenRewritten
<1>16. Detached(s, x, ino, H, IndirectPlaces)
  BY <1>14, <1>15, DetachIndirect
<1>17. Trimmed(s, r, ino, H, IndirectPlaces)
  BY <1>15, <1>16, DetachedFreed
<1>18. Kin(u, r)
  <2>1. i.links = u.vnodes[ino].i.links
    BY <1>12
  <2> QED
    BY <1>9, <1>11, <1>12, <1>13, <2>1, KinRewritten
<1>19. Kin(s, r)
  BY <1>9, <1>18, KinTransitive
<1> QED
  BY <1>6, <1>17, <1>19 DEF r, u

LEMMA PanicOut ==
  ASSUME NEW s \in Volumes, NEW what \in Panics, NEW r \in Panic(s, what)
  PROVE  /\ r.err /\ r.v = NOBLOCK
         /\ r.s \in Volumes /\ r.s.panic = what /\ r.s.faults = s.faults
<1>1. r.err /\ r.v = NOBLOCK /\ r.s = [s EXCEPT !.panic = what]
  BY DEF Panic, Fail
<1> QED
  BY <1>1 DEF Volumes

\* sfs_itrunc fails only if the disk does.
Costly(s, r) == r.err => r.s.faults >= s.faults + 1

LEMMA ItruncIndirectDone ==
  ASSUME NEW s, NEW H, Sound(s, {}, H), NEW ino \in Blocks, s.vnodes[ino] # NULL,
         NEW len \in FileBlocks, NEW r \in ItruncIndirect(s, ino, len)
  PROVE  /\ Done(s, r, H) /\ Costly(s, r)
         /\ Sound(r.s, {}, H) => Effect(s, r.s, ino, Past(len), {})
         /\ ~r.err => /\ Sound(r.s, {}, H)
                      /\ \A k \in DirectIx : At(r.s, ino, k) = At(s, ino, k)
                      /\ len = 0 => \A k \in IndirectPlaces : At(r.s, ino, k) = NOBLOCK
<1> DEFINE id == s.vnodes[ino].i.ind
           p == PointersIn(s, id)
           J == PastEnd(len)
           gone == [j \in IndirectIx |-> IF j \in J THEN p[j] ELSE NOBLOCK]
           kept == [j \in IndirectIx |-> IF j \in J THEN NOBLOCK ELSE p[j]]
<1>1. s \in Volumes /\ s.faults \in Nat /\ Laid(s, {})
  BY SoundType
<1>2. s.faults >= s.faults
  BY <1>1
<1>3. Kin(s, s)
  BY <1>1, <1>2, KinFrame
<1>4. DirectIx \subseteq Places /\ J \in SUBSET IndirectIx /\ len \in Int
      /\ \A k \in DirectIx : k \notin IndirectPlaces
  BY Indices, SfsAssumption DEF PastEnd, FileBlocks, IndirectPlaces
<1>5. /\ id \in Numbers /\ At(s, ino, -1) = id /\ \A k \in Places : At(s, ino, k) = Listed(s, s.vnodes[ino].i, k)
      /\ id # NOBLOCK => id \in Blocks /\ Readable(s, id) /\ p \in [IndirectIx -> Numbers]
  BY <1>1, InodeInMemory
<1>8. \A u : SameData(s, u) => Effect(s, u, ino, Past(len), {})
  BY NoEffect
<1>9. Effect(s, s, ino, Past(len), {})
  BY <1>8 DEF SameData
<1>6. CASE id = NOBLOCK \/ len >= NDIRECT + DBPERIDB - 1
  <2>1. r \in Ok(s, NOBLOCK)
    BY <1>6 DEF ItruncIndirect
  <2>2. r.s = s /\ ~r.err
    BY <2>1 DEF Ok
  <2>3. len = 0 => id = NOBLOCK
    BY <1>6, SfsAssumption
  <2>4. len = 0 => \A k \in IndirectPlaces : At(s, ino, k) = NOBLOCK
    <3> SUFFICES ASSUME len = 0, NEW k \in IndirectPlaces
                 PROVE  At(s, ino, k) = NOBLOCK
      OBVIOUS
    <3> DEFINE o == s.vnodes[ino].i
    <3>1. o.ind = NOBLOCK /\ k \in Places /\ k \notin DirectIx /\ At(s, ino, k) = Listed(s, o, k)
      BY <1>5, <2>3 DEF IndirectPlaces
    <3>2. CASE k = -1
      BY <1>5, <2>3, <3>2
    <3>3. CASE k # -1
      <4> HIDE DEF o
      <4>1. Listed(s, o, k) = IF o.ind = NOBLOCK THEN NOBLOCK ELSE PointersIn(s, o.ind)[k - NDIRECT]
        BY <3>1, <3>3, ListedEntry
      <4> QED
        BY <3>1, <4>1
    <3> QED
      BY <3>2, <3>3
  <2> QED
    BY <1>3, <1>9, <2>2, <2>4 DEF Done, Settled, Costly
<1>7. CASE ~(id = NOBLOCK \/ len >= NDIRECT + DBPERIDB - 1)
  <2>1. id \in Blocks /\ Readable(s, id) /\ p \in [IndirectIx -> Numbers]
    BY <1>5, <1>7
  <2>2. gone \in [IndirectIx -> Numbers] /\ kept \in [IndirectIx -> Numbers]
    BY <2>1 DEF Numbers
  <2>3. PICK q \in ReadBlock(s) :
          \/ ~q.err /\ r \in IF ~Readable(q.s, id) THEN Garbage(q.s)
                             ELSE Then(Bfree(q.s, gone), LAMBDA w, x :
                                    IF kept = NoPointers
                                    THEN Then(Bfree(w, <<id>>), LAMBDA y, z : Ok(SetIndirect(y, ino, NOBLOCK), NOBLOCK))
                                    ELSE IF gone = NoPointers THEN Ok(w, NOBLOCK)
                                    ELSE Try(WriteBlock(w, id, Pointers(kept)), Ok,
                                             LAMBDA y : Panic(y, "torn")))
          \/ q.err /\ r.err /\ r.s = q.s /\ (r.v = q.v \/ r.v = NOBLOCK)
    <3> DEFINE R == ReadBlock(s)
               F(u) == IF ~Readable(u, id) THEN Garbage(u)
                             ELSE Then(Bfree(u, gone), LAMBDA w, x :
                                    IF kept = NoPointers
                                    THEN Then(Bfree(w, <<id>>), LAMBDA y, z : Ok(SetIndirect(y, ino, NOBLOCK), NOBLOCK))
                                    ELSE IF gone = NoPointers THEN Ok(w, NOBLOCK)
                                    ELSE Try(WriteBlock(w, id, Pointers(kept)), Ok,
                                             LAMBDA y : Panic(y, "torn")))
    <3>1. r \in Then(R, LAMBDA u, v : F(u))
      BY <1>7 DEF ItruncIndirect
    <3> HIDE DEF F, R
    <3>2. \E q \in R : \/ ~q.err /\ r \in F(q.s)
                       \/ q.err /\ r.err /\ r.s = q.s /\ (r.v = q.v \/ r.v = NOBLOCK)
      BY <3>1 DEF Then, Try, Fail
    <3> QED
      BY <3>2 DEF F, R
  <2>4. CASE q.err
    <3>1. Done(s, q, H) /\ SameData(s, q.s)
      BY ReadDone
    <3>2. Faulted(s, q.s)
      BY <1>1, <2>4, ReadOut
    <3>3. q.s.faults >= s.faults + 1
      BY <1>1, <3>2 DEF Faulted
    <3> QED
      BY <1>8, <2>3, <2>4, <3>1, <3>3 DEF Done, Settled, Costly
  <2>5. CASE ~q.err
    <3> DEFINE F(w) == IF kept = NoPointers
                       THEN Then(Bfree(w, <<id>>), LAMBDA y, z : Ok(SetIndirect(y, ino, NOBLOCK), NOBLOCK))
                       ELSE IF gone = NoPointers THEN Ok(w, NOBLOCK)
                       ELSE Try(WriteBlock(w, id, Pointers(kept)), Ok, LAMBDA y : Panic(y, "torn"))
               B == Part(s, ino, PlacesOf(J))
    <3>1. q.s = s
      BY <2>5, ReadDone
    <3>2. r \in Then(Bfree(s, gone), LAMBDA w, x : F(w))
      BY <2>1, <2>3, <2>5, <3>1
    <3>3. \A g \in Bfree(s, gone) : Freed(s, g.s, B) /\ ~g.err
      <4>1. \A j \in IndirectIx : gone[j] = IF j \in J THEN p[j] ELSE NOBLOCK
        OBVIOUS
      <4> HIDE DEF gone, J
      <4>2. s.vnodes[ino].i.ind = id
        OBVIOUS
      <4> QED
        BY <1>4, <2>1, <2>2, <4>1, <4>2, FreeEntries
    <3>4. PICK g \in Bfree(s, gone) : r \in F(g.s)
      <4> HIDE DEF F, gone
      <4> QED
        BY <3>2, <3>3 DEF Then, Try, Fail
    <3> DEFINE w == g.s
    <3>5. Freed(s, w, B) /\ w \in Volumes
      BY <3>3 DEF Freed
    <3>6. Kin(s, w)
      BY <1>1, <3>5, FreedKin
    <3>7. len = 0 => kept = NoPointers
      <4>1. len = 0 => J = IndirectIx
        BY SfsAssumption DEF PastEnd, IndirectIx
      <4> QED
        BY <4>1 DEF NoPointers
    <3>11. \A j \in IndirectIx : At(s, ino, j + NDIRECT) = p[j]
      <4>1. s.vnodes[ino].i.ind = id
        OBVIOUS
      <4> QED
        BY <2>1, <4>1, EntriesAt
    <3>12. \A j \in J : j \in IndirectIx /\ j + NDIRECT >= len
      BY <1>4, SfsAssumption DEF PastEnd, IndirectIx
    <3>8. CASE kept = NoPointers
      <4>1. r \in Then(Bfree(w, <<id>>), LAMBDA y, z : Ok(SetIndirect(y, ino, NOBLOCK), NOBLOCK))
        BY <3>4, <3>8
      <4>2. \A j \in IndirectIx : j \notin J => p[j] = NOBLOCK
        <5>1. \A j \in IndirectIx : kept[j] = NoPointers[j]
          BY <3>8
        <5> QED
          BY <5>1 DEF NoPointers
      <4> HIDE DEF w, kept, gone, J, B
      <4>3. \A y \in Bfree(w, <<id>>) :
              LET u == SetIndirect(y.s, ino, NOBLOCK)
              IN ~y.err /\ Kin(s, u) /\ Trimmed(s, u, ino, H, IndirectPlaces)
        BY <1>4, <2>1, <3>5, <4>2, DropIndirect DEF B
      <4>4. PICK y \in Bfree(w, <<id>>) : ~y.err /\ r \in Ok(SetIndirect(y.s, ino, NOBLOCK), NOBLOCK)
        BY <4>1, <4>3 DEF Then, Try, Fail
      <4> DEFINE u == SetIndirect(y.s, ino, NOBLOCK)
      <4>5. Kin(s, u) /\ Trimmed(s, u, ino, H, IndirectPlaces)
        BY <4>3
      <4>6. r.s = u /\ ~r.err
        BY <4>4 DEF Ok
      <4> HIDE DEF u
      <4>7. \A k \in IndirectPlaces : k \in Places
        BY DEF IndirectPlaces
      <4>8. \A k \in FileBlocks : k \in IndirectPlaces => k >= len \/ At(s, ino, k) = NOBLOCK
        <5> SUFFICES ASSUME NEW k \in FileBlocks, k \in IndirectPlaces
                     PROVE  k >= len \/ At(s, ino, k) = NOBLOCK
          OBVIOUS
        <5>1. k - NDIRECT \in IndirectIx /\ (k - NDIRECT) + NDIRECT = k
          BY Indices, SfsAssumption DEF IndirectPlaces, FileBlocks
        <5>2. CASE k - NDIRECT \in J
          BY <3>12, <5>1, <5>2
        <5>3. CASE k - NDIRECT \notin J
          BY <3>11, <4>2, <5>1, <5>3
        <5> QED
          BY <5>2, <5>3
      <4>9. Effect(s, u, ino, Past(len), {})
        BY <4>5, <4>8, TrimmedData
      <4> QED
        BY <1>4, <4>5, <4>6, <4>7, <4>9 DEF Trimmed, Done, Settled, Costly
    <3>9. CASE kept # NoPointers /\ gone = NoPointers
      <4>1. r \in Ok(w, NOBLOCK)
        BY <3>4, <3>9
      <4>2. r.s = w /\ ~r.err
        BY <4>1 DEF Ok
      <4>3. B = {}
        <5>1. \A j \in IndirectIx : gone[j] = NoPointers[j]
          BY <3>9
        <5>2. \A j \in J : p[j] = NOBLOCK
          BY <1>4, <5>1 DEF NoPointers
        <5>3. \A j \in J : At(s, ino, j + NDIRECT) = NOBLOCK
          <6> HIDE DEF J
          <6>1. s.vnodes[ino].i.ind = id
            OBVIOUS
          <6>2. \A j \in IndirectIx : At(s, ino, j + NDIRECT) = p[j]
            BY <2>1, <6>1, EntriesAt
          <6> QED
            BY <1>4, <5>2, <6>2
        <5> HIDE DEF J
        <5> QED
          BY <5>3 DEF Part, PlacesOf
      <4>4. Freed(s, w, {})
        BY <3>5, <4>3
      <4> HIDE DEF w, B, kept, gone, J
      <4>5. Sound(w, {}, H) /\ \A b \in Blocks, k \in Places : At(w, b, k) = At(s, b, k)
        BY <4>4, FreedSound
      <4>6. Effect(s, w, ino, Past(len), {})
        BY <1>8, <4>5, DataFrame
      <4> QED
        BY <1>4, <3>6, <3>7, <3>9, <4>2, <4>5, <4>6 DEF Done, Settled, Costly
    <3>10. CASE kept # NoPointers /\ gone # NoPointers
      <4> DEFINE c == Pointers(kept)
      <4>1. r \in Try(WriteBlock(w, id, c), Ok, LAMBDA y : Panic(y, "torn"))
        BY <3>4, <3>10
      <4>2. CutEntries(p, kept, J)
        BY <2>2 DEF CutEntries
      <4>3. len # 0
        BY <3>7, <3>10
      <4>4. c \in Contents
        <5> HIDE DEF kept
        <5> QED
          BY <2>2, PointersBack
      <4>5. c = Pointers(kept) /\ p = PointersIn(s, s.vnodes[ino].i.ind)
        OBVIOUS
      <4> HIDE DEF w, c, kept, gone, J
      <4>6. PICK y \in WriteBlock(w, id, c) :
              \/ ~y.err /\ r \in Ok(y.s, y.v)
              \/ y.err /\ y.s.panic # "none" /\ r = y
              \/ y.err /\ r \in Panic(y.s, "torn")
        BY <4>1 DEF Try
      <4>7. \/ Stored(w, y.s, id, c) /\ ~y.err
            \/ Faulted(w, y.s) /\ y.err
        BY <2>1, <3>5, <4>4, WriteOut
      <4>8. CASE Stored(w, y.s, id, c) /\ ~y.err
        <5> DEFINE u == y.s
        <5>1. r.s = u /\ ~r.err
          BY <4>6, <4>8 DEF Ok
        <5>2. Stored(w, u, id, c)
          BY <4>8
        <5> HIDE DEF u
        <5>3. PICK x : Stored(s, x, id, c) /\ Freed(x, u, B)
          <6> HIDE DEF B
          <6> QED
            BY <1>1, <2>1, <3>5, <4>4, <5>2, FreedThenStored
        <5>4. Stored(s, x, id, Pointers(kept))
          BY <4>5, <5>3
        <5>5. Detached(s, x, ino, H, PlacesOf(J))
          <6> DEFINE m == id
          <6>1. m \in Blocks /\ At(s, ino, -1) = m /\ CutEntries(PointersIn(s, m), kept, J)
                /\ Stored(s, x, m, Pointers(kept))
            BY <1>5, <2>1, <4>2, <5>4
          <6> HIDE DEF m
          <6> QED
            BY <1>4, <6>1, DetachEntries
        <5>6. Trimmed(s, u, ino, H, PlacesOf(J))
          BY <5>3, <5>5, DetachedFreed
        <5>7. \A k \in DirectIx : k \notin PlacesOf(J)
          BY <1>4, Indices DEF PlacesOf
        <5>8. Kin(w, u)
          <6>1. u \in Volumes /\ u.vnodes = w.vnodes /\ u.dents = w.dents /\ u.faults = w.faults
            BY <5>2 DEF Stored
          <6>2. u.faults >= w.faults
            BY <3>5, <6>1, VolumeType
          <6> QED
            BY <3>5, <6>1, <6>2, KinFrame
        <5>9. Kin(s, u)
          BY <3>6, <5>8, KinTransitive
        <5>10. \A k \in FileBlocks : k \in PlacesOf(J) => k >= len \/ At(s, ino, k) = NOBLOCK
          BY <3>12 DEF PlacesOf
        <5>11. Effect(s, u, ino, Past(len), {})
          BY <5>6, <5>10, TrimmedData
        <5> QED
          BY <1>4, <4>3, <5>1, <5>6, <5>7, <5>9, <5>11 DEF Trimmed, Done, Settled, Costly
      <4>9. CASE Faulted(w, y.s) /\ y.err
        <5> DEFINE u == y.s
        <5>1. u \in Volumes /\ u.panic = "none" /\ u.faults = s.faults + 1
          BY <1>1, <3>5, <4>9 DEF Faulted, Freed, Laid
        <5>2. r \in Panic(u, "torn")
          BY <4>6, <4>9, <5>1
        <5> HIDE DEF u
        <5> DEFINE torn == "torn"
        <5>3. torn \in Panics /\ r \in Panic(u, torn)
          BY <5>2 DEF Panics
        <5> HIDE DEF torn
        <5>7. /\ r.err /\ r.v = NOBLOCK
              /\ r.s \in Volumes /\ r.s.panic = torn /\ r.s.faults = u.faults
          BY <5>1, <5>3, PanicOut
        <5>4. /\ r.err /\ r.v = NOBLOCK
              /\ r.s \in Volumes /\ r.s.panic = "torn" /\ r.s.faults = u.faults
          BY <5>7 DEF torn
        <5>5. r.s.faults >= 1 /\ r.s.faults >= s.faults + 1
          BY <1>1, <5>1, <5>4
        <5>6. ~Sound(r.s, {}, H)
          BY <5>4, SoundType
        <5> QED
          BY <5>4, <5>5, <5>6 DEF Done, Settled, Costly, Stopped
      <4> QED
        BY <4>7, <4>8, <4>9
    <3> QED
      BY <3>8, <3>9, <3>10
  <2> QED
    BY <2>4, <2>5
<1> QED
  BY <1>6, <1>7

LEMMA SetDirtySame ==
  ASSUME NEW s \in Volumes, NEW ino \in Blocks, s.vnodes[ino] # NULL
  PROVE  Rewritten(s, SetDirty(s, ino), ino, s.vnodes[ino].i)
<1> DEFINE i == s.vnodes[ino].i
           w == [s.vnodes[ino] EXCEPT !.i = i]
           u == [s EXCEPT !.vnodes = [s.vnodes EXCEPT ![ino] = w]]
<1>1. i \in Inodes /\ s.vnodes[ino] = [i |-> i, refs |-> s.vnodes[ino].refs, dirty |-> s.vnodes[ino].dirty]
      /\ s.vnodes[ino] \in Vnodes
  BY VnodeType
<1>2. w = s.vnodes[ino]
  <2> DEFINE v == s.vnodes[ino]
  <2>1. v \in Vnodes /\ i \in Inodes /\ v = [i |-> i, refs |-> v.refs, dirty |-> v.dirty]
    BY <1>1
  <2> HIDE DEF v, i
  <2>2. [v EXCEPT !.i = i] = [i |-> i, refs |-> v.refs, dirty |-> v.dirty]
    BY <2>1, VnodeFields
  <2> QED
    BY <2>1, <2>2 DEF v
<1> HIDE DEF w
<1>3. [s.vnodes EXCEPT ![ino] = w] = s.vnodes
  BY <1>2, VolumeType
<1>4. u = s
  <2>1. u = [s EXCEPT !.vnodes = s.vnodes]
    BY <1>3
  <2>2. [s EXCEPT !.vnodes = s.vnodes] = s
    BY DEF Volumes
  <2> QED
    BY <2>1, <2>2
<1>5. Rewritten(s, SetDirty(u, ino), ino, i)
  <2> HIDE DEF i
  <2> QED
    BY <1>1, SetDirtyOut DEF w
<1> QED
  BY <1>4, <1>5

LEMMA SetDirtyDone ==
  ASSUME NEW s, NEW X, NEW H, Sound(s, X, H), NEW ino \in Blocks, s.vnodes[ino] # NULL
  PROVE  LET r == SetDirty(s, ino) IN
         /\ Sound(r, X, H) /\ Kin(s, r) /\ r.faults = s.faults
         /\ \A b \in Blocks, k \in Places : At(r, b, k) = At(s, b, k)
<1> DEFINE r == SetDirty(s, ino)
           i == s.vnodes[ino].i
<1>1. s \in Volumes
  BY SoundType
<1>2. i \in Inodes /\ Rewritten(s, r, ino, i)
  BY <1>1, VnodeType, SetDirtySame
<1> HIDE DEF r
<1>3. /\ Sound(r, X, H) /\ LiveIn(r) = LiveIn(s)
      /\ \A b \in Blocks, k \in Places : At(r, b, k) = At(s, b, k)
  <2>1. Rewritten(s, r, ino, s.vnodes[ino].i)
    BY <1>2
  <2> HIDE DEF i
  <2>2. Unmoved(s, r, X, H)
    BY <2>1, DirtySound
  <2> QED
    BY <2>2 DEF Unmoved
<1>4. Kin(s, r)
  BY <1>1, <1>2, KinRewritten
<1> QED
  BY <1>2, <1>3, <1>4 DEF r, Rewritten

LEMMA ItruncDone ==
  ASSUME NEW s, NEW H, Sound(s, {}, H), NEW ino \in Blocks, s.vnodes[ino] # NULL,
         NEW len \in FileBlocks, NEW r \in Itrunc(s, ino, len)
  PROVE  /\ Done(s, r, H) /\ Costly(s, r)
         /\ Sound(r.s, {}, H) => Effect(s, r.s, ino, Past(len), {})
         /\ ~r.err => /\ Sound(r.s, {}, H)
                      /\ len = 0 => \A k \in Places : At(r.s, ino, k) = NOBLOCK
<1> DEFINE o == s.vnodes[ino].i
           gone == [k \in DirectIx |-> IF k >= len THEN o.direct[k] ELSE NOBLOCK]
           kept == [k \in DirectIx |-> IF k >= len THEN NOBLOCK ELSE o.direct[k]]
           Cut(u) == IF kept = o.direct THEN u
                     ELSE SetDirty([u EXCEPT !.vnodes[ino].i.direct = kept], ino)
           R == Bfree(s, gone)
           F(u) == Then(ItruncIndirect(Cut(u), ino, len), LAMBDA w, x : Ok(SetDirty(w, ino), NOBLOCK))
<1>1. r \in Then(R, LAMBDA u, v : F(u))
  BY DEF Itrunc
<1>2. \A q \in R : ~q.err /\ Kin(s, Cut(q.s)) /\ Trimmed(s, Cut(q.s), ino, H, PastIn(len))
  <2>1. gone = [k \in DirectIx |-> IF k >= len THEN s.vnodes[ino].i.direct[k] ELSE NOBLOCK]
    OBVIOUS
  <2>2. kept = [k \in DirectIx |-> IF k >= len THEN NOBLOCK ELSE s.vnodes[ino].i.direct[k]]
    OBVIOUS
  <2> HIDE DEF gone, kept
  <2> QED
    BY <2>1, <2>2, CutDirect
<1> HIDE DEF F, R
<1>3. PICK q \in R : r \in F(q.s)
  BY <1>1, <1>2 DEF Then, Try
<1> DEFINE c == Cut(q.s)
<1>4. Kin(s, c) /\ Trimmed(s, c, ino, H, PastIn(len))
  BY <1>2
<1>5. r \in Then(ItruncIndirect(c, ino, len), LAMBDA w, x : Ok(SetDirty(w, ino), NOBLOCK))
  BY <1>3 DEF F
<1> HIDE DEF c, Cut
<1>6. Sound(c, {}, H) /\ c.vnodes[ino] # NULL /\ s \in Volumes /\ c \in Volumes
  BY <1>4, SoundType DEF Trimmed, Kin
<1>7. PICK w \in ItruncIndirect(c, ino, len) :
        \/ ~w.err /\ r \in Ok(SetDirty(w.s, ino), NOBLOCK)
        \/ w.err /\ r.err /\ r.s = w.s /\ (r.v = w.v \/ r.v = NOBLOCK)
  BY <1>5 DEF Then, Try, Fail
<1>12. Effect(s, c, ino, Past(len), {})
  <2>1. \A k \in FileBlocks : k \in PastIn(len) => k >= len \/ At(s, ino, k) = NOBLOCK
    BY DEF PastIn
  <2> QED
    BY <1>4, <2>1, TrimmedData
<1>8. /\ Done(c, w, H) /\ Costly(c, w)
      /\ Sound(w.s, {}, H) => Effect(c, w.s, ino, Past(len), {})
      /\ ~w.err => /\ Sound(w.s, {}, H)
                   /\ \A k \in DirectIx : At(w.s, ino, k) = At(c, ino, k)
                   /\ len = 0 => \A k \in IndirectPlaces : At(w.s, ino, k) = NOBLOCK
  BY <1>6, ItruncIndirectDone
<1>9. c.faults >= s.faults /\ c.faults \in Nat /\ s.faults \in Nat
  BY <1>4 DEF Kin
<1>10. CASE w.err
  <2>1. Done(s, w, H)
    BY <1>4, <1>8, DoneAfter
  <2>2. w.s.faults >= s.faults + 1
    <3>1. w.s \in Volumes
      BY <2>1, SoundType DEF Done, Settled, Stopped
    <3>2. w.s.faults \in Nat /\ w.s.faults >= c.faults + 1
      BY <1>8, <1>10, <3>1, VolumeType DEF Costly
    <3> QED
      BY <1>9, <3>2
  <2>3. Sound(w.s, {}, H) => Effect(s, w.s, ino, Past(len), {})
    BY <1>8, <1>12, EffectTransitive
  <2> QED
    BY <1>7, <1>10, <2>1, <2>2, <2>3 DEF Done, Settled, Costly
<1>11. CASE ~w.err
  <2> DEFINE u == w.s
             x == SetDirty(u, ino)
  <2>1. /\ Sound(u, {}, H) /\ Kin(c, u) /\ u.vnodes[ino] # NULL
        /\ Effect(c, u, ino, Past(len), {})
    BY <1>6, <1>8, <1>11 DEF Done, Kin
  <2>2. r.s = x /\ ~r.err
    BY <1>7, <1>11 DEF Ok
  <2> HIDE DEF u
  <2>3. Sound(x, {}, H) /\ Kin(u, x) /\ \A b \in Blocks, k \in Places : At(x, b, k) = At(u, b, k)
    BY <2>1, SetDirtyDone
  <2>4. Kin(s, x)
    BY <1>4, <2>1, <2>3, KinTransitive
  <2>5. len = 0 => \A k \in Places : At(u, ino, k) = NOBLOCK
    <3> SUFFICES ASSUME len = 0, NEW k \in Places
                 PROVE  At(u, ino, k) = NOBLOCK
      OBVIOUS
    <3>1. CASE k \in DirectIx
      <4>1. k \in PastIn(len)
        BY <3>1, SfsAssumption DEF PastIn, DirectIx
      <4>2. At(c, ino, k) = NOBLOCK
        BY <1>4, <4>1 DEF Trimmed
      <4> QED
        BY <1>8, <1>11, <3>1, <4>2 DEF u
    <3>2. CASE k \notin DirectIx
      BY <1>8, <1>11, <3>2 DEF u, IndirectPlaces
    <3> QED
      BY <3>1, <3>2
  <2> HIDE DEF x
  <2>6. SameData(u, x)
    BY <2>3, DataFrame
  <2>7. Effect(s, x, ino, Past(len), {})
    <3>1. Effect(u, x, ino, Past(len), {})
      BY <2>6, NoEffect
    <3>2. Effect(c, x, ino, Past(len), {})
      BY <2>1, <3>1, EffectTransitive
    <3> QED
      BY <1>12, <3>2, EffectTransitive
  <2> QED
    BY <2>2, <2>3, <2>4, <2>5, <2>7 DEF Done, Settled, Costly
<1> QED
  BY <1>10, <1>11

-----------------------------------------------------------------------------
(* Inodes are written back.                                                *)
Synced(s, r, D) ==
  /\ r \in Volumes
  /\ r.map = s.map /\ r.mapdirty = s.mapdirty /\ r.diskmap = s.diskmap
  /\ r.dents = s.dents /\ r.faults >= s.faults /\ r.panic = s.panic
  /\ \A b \in D : /\ r.vnodes[b] # NULL /\ s.vnodes[b] # NULL /\ r.vnodes[b].i = s.vnodes[b].i
                  /\ r.vnodes[b].refs = s.vnodes[b].refs /\ r.disk[b] = Inode(s.vnodes[b].i)
  /\ \A b \in Blocks : b \notin D => r.vnodes[b] = s.vnodes[b] /\ r.disk[b] = s.disk[b]

LEMMA SyncedSound ==
  ASSUME NEW s, NEW r, NEW X, NEW H, Sound(s, X, H), NEW D \in SUBSET Blocks, Synced(s, r, D)
  PROVE  Unmoved(s, r, X, H) /\ Kin(s, r)
<1>1. Laid(s, X) /\ Linked(s) /\ Counted(s, H) /\ s \in Volumes /\ r \in Volumes
  BY DEF Sound, Laid, Synced
<1>2. \A b \in Blocks : /\ r.vnodes[b] = NULL <=> s.vnodes[b] = NULL
                        /\ s.vnodes[b] # NULL => /\ r.vnodes[b].refs = s.vnodes[b].refs
                                                 /\ r.vnodes[b].i = s.vnodes[b].i
  BY DEF Synced
<1>3. r.dents = s.dents /\ r.faults >= s.faults /\ r.map = s.map
  BY DEF Synced
<1>4. LiveIn(r) = LiveIn(s)
  BY <1>2, <1>3, LiveFrame
<1>5. \A b \in LiveIn(s) : b \in Blocks /\ InodeIn(r, b) = InodeIn(s, b)
  <2> SUFFICES ASSUME NEW b \in LiveIn(s)
               PROVE  b \in Blocks /\ InodeIn(r, b) = InodeIn(s, b)
    OBVIOUS
  <2>1. b \in Blocks
    BY DEF LiveIn
  <2>2. s.vnodes[b] = NULL => r.disk[b] = s.disk[b]
    BY <2>1 DEF Synced
  <2> QED
    BY <1>2, <2>1, <2>2 DEF InodeIn
<1>6. \A b \in LiveIn(s) : InodeIn(s, b).ind # NOBLOCK =>
        r.disk[InodeIn(s, b).ind] = s.disk[InodeIn(s, b).ind]
  <2> SUFFICES ASSUME NEW b \in LiveIn(s), InodeIn(s, b).ind # NOBLOCK
               PROVE  r.disk[InodeIn(s, b).ind] = s.disk[InodeIn(s, b).ind]
    OBVIOUS
  <2> DEFINE d == InodeIn(s, b).ind
  <2>1. At(s, b, -1) = d /\ b \in Blocks /\ -1 \in Places
    BY <1>1, <1>5, InUseOnce, Indices
  <2>2. d \in Blocks /\ d \notin LiveIn(s)
    BY <1>1, <2>1, InUseOnce
  <2>3. d \notin D
    BY <2>2 DEF LiveIn, Synced
  <2> QED
    BY <2>2, <2>3 DEF Synced
<1>7. \A b \in Blocks, k \in Places : At(r, b, k) = At(s, b, k)
  <2> TAKE b \in Blocks, k \in Places
  <2> QED
    BY <1>4, <1>5, <1>6, RowFrame
<1>8. OnDisk(r)
  <2> SUFFICES ASSUME NEW b \in LiveIn(s)
               PROVE /\ r.vnodes[b] = NULL => r.disk[b].kind = "inode"
                     /\ r.vnodes[b] # NULL /\ ~r.vnodes[b].dirty => r.disk[b] = Inode(r.vnodes[b].i)
                     /\ InodeIn(r, b).ind # NOBLOCK => Readable(r, InodeIn(r, b).ind)
    BY <1>4 DEF OnDisk
  <2>1. /\ s.vnodes[b] = NULL => s.disk[b].kind = "inode"
        /\ s.vnodes[b] # NULL /\ ~s.vnodes[b].dirty => s.disk[b] = Inode(s.vnodes[b].i)
        /\ InodeIn(s, b).ind # NOBLOCK => Readable(s, InodeIn(s, b).ind)
    BY <1>1 DEF Laid, OnDisk
  <2>2. InodeIn(r, b).ind # NOBLOCK => Readable(r, InodeIn(r, b).ind)
    BY <2>1, <1>5, <1>6 DEF Readable
  <2>3. CASE b \in D
    BY <1>2, <1>5, <2>2, <2>3 DEF Synced
  <2>4. CASE b \notin D
    BY <1>2, <1>5, <2>1, <2>2, <2>4 DEF Synced
  <2> QED
    BY <2>3, <2>4
<1>9. Linked(r) /\ Counted(r, H)
  BY <1>1, <1>2, <1>3, <1>4, <1>5, LinkedFrame, CountedFrame
<1>10. Apart(r) /\ Marked(r, X)
  BY <1>1, <1>3, <1>4, <1>7, SameUse
<1>11. r.panic = "none" /\ (~r.mapdirty => r.diskmap = r.map)
  BY <1>1 DEF Synced, Laid
<1>12. Sound(r, X, H)
  BY <1>1, <1>8, <1>9, <1>10, <1>11 DEF Sound, Laid
<1>13. Kin(s, r)
  <2>1. s.faults \in Nat /\ r.faults \in Nat
    BY <1>1, VolumeType
  <2> QED
    BY <1>2, <1>3, <2>1 DEF Kin
<1> QED
  BY <1>4, <1>7, <1>12, <1>13 DEF Unmoved

LEMMA SyncInodeDone ==
  ASSUME NEW s, NEW H, Sound(s, {}, H), NEW ino \in Blocks, s.vnodes[ino] # NULL,
         NEW r \in SyncInode(s, ino)
  PROVE  /\ Done(s, r, H) /\ Costly(s, r) /\ Sound(r.s, {}, H) /\ SameData(s, r.s)
         /\ ~r.err => Unmoved(s, r.s, {}, H) /\ r.s.disk[ino] = Inode(r.s.vnodes[ino].i)
<1> DEFINE v == s.vnodes[ino]
           c == Inode(v.i)
<1>1. s \in Volumes /\ s.faults \in Nat /\ v \in Vnodes /\ v.i \in Inodes /\ Laid(s, {})
  BY SoundType, VnodeType
<1>2. c \in Contents
  BY <1>1, KindsDiffer
<1>3. CASE ~v.dirty
  <2>6. r \in Ok(s, NOBLOCK)
    BY <1>3, Zenon DEF SyncInode
  <2>1. r.s = s /\ ~r.err
    BY <2>6 DEF Ok
  <2>2. ino \in LiveIn(s)
    BY DEF LiveIn
  <2>3. s.disk[ino] = Inode(s.vnodes[ino].i)
    BY <1>1, <1>3, <2>2 DEF Laid, OnDisk
  <2>4. s.faults >= s.faults
    BY <1>1
  <2>5. Kin(s, s)
    BY <1>1, <2>4, KinFrame
  <2> QED
    BY <2>1, <2>3, <2>5 DEF Done, Settled, Costly, Unmoved, SameData
<1>4. CASE v.dirty
  <2> DEFINE f == FALSE
             R == WriteBlock(s, ino, c)
             F(u) == Ok([u EXCEPT !.vnodes[ino].dirty = f], NOBLOCK)
  <2>1. r \in Then(R, LAMBDA u, x : F(u))
    BY <1>4, Zenon DEF SyncInode
  <2>2. f \in BOOLEAN
    OBVIOUS
  <2> HIDE DEF f, R, F
  <2>3. PICK q \in R : \/ ~q.err /\ r \in F(q.s)
                       \/ q.err /\ r.err /\ r.s = q.s /\ (r.v = q.v \/ r.v = NOBLOCK)
    BY <2>1 DEF Then, Try, Fail
  <2>4. \/ Stored(s, q.s, ino, c) /\ ~q.err
        \/ Faulted(s, q.s) /\ q.err /\ q.v = NOBLOCK
    <3> HIDE DEF c
    <3> QED
      BY <1>1, <1>2, WriteOut DEF R
  <2>5. CASE Faulted(s, q.s) /\ q.err /\ q.v = NOBLOCK
    <3>1. Done(s, q, H) /\ Sound(q.s, {}, H) /\ SameData(s, q.s)
      BY <2>5, FaultyDone
    <3>2. q.s.faults >= s.faults + 1
      BY <1>1, <2>5 DEF Faulted
    <3> QED
      BY <2>3, <2>5, <3>1, <3>2 DEF Done, Settled, Costly
  <2>6. CASE Stored(s, q.s, ino, c) /\ ~q.err
    <3> DEFINE u == q.s
               w == [v EXCEPT !.dirty = f]
               y == [u EXCEPT !.vnodes = [u.vnodes EXCEPT ![ino] = w]]
    <3>1. u \in Volumes /\ u.vnodes = s.vnodes
      BY <2>6 DEF Stored
    <3>2. w = [i |-> v.i, refs |-> v.refs, dirty |-> f] /\ w \in Vnodes
      <4> HIDE DEF v
      <4> QED
        BY <1>1, <2>2, VnodeFields
    <3>3. w.i = v.i /\ w.refs = v.refs /\ w # NULL
      <4>1. w.i = v.i /\ w.refs = v.refs
        BY <3>2
      <4>2. w # NULL
        BY <3>2, NullAssumption
      <4> QED
        BY <4>1, <4>2
    <3>4. r.s = y /\ ~r.err
      <4>1. r.s = [u EXCEPT !.vnodes[ino].dirty = f] /\ ~r.err
        BY <2>3, <2>6 DEF Ok, F
      <4> QED
        BY <3>1, <4>1
    <3> DEFINE g == [u.vnodes EXCEPT ![ino] = w]
    <3> HIDE DEF w, u
    <3>5. g \in [Blocks -> Vnodes \cup {NULL}] /\ g[ino] = w /\ \A b \in Blocks : b # ino => g[b] = s.vnodes[b]
      <4>1. s.vnodes \in [Blocks -> Vnodes \cup {NULL}]
        BY <1>1, VolumeType
      <4> QED
        BY <3>1, <3>2, <4>1
    <3>6. y = [u EXCEPT !.vnodes = g]
      OBVIOUS
    <3> HIDE DEF g, y
    <3>7. /\ y \in Volumes /\ y.map = u.map /\ y.mapdirty = u.mapdirty /\ y.diskmap = u.diskmap
          /\ y.dents = u.dents /\ y.faults = u.faults /\ y.panic = u.panic /\ y.disk = u.disk /\ y.vnodes = g
      BY <3>1, <3>5, <3>6 DEF Volumes
    <3>8. u.disk[ino] = c /\ \A b \in Blocks : b # ino => u.disk[b] = s.disk[b]
      <4>1. u.disk = [s.disk EXCEPT ![ino] = c] /\ s.disk \in [Blocks -> Contents]
        BY <1>1, <2>6, VolumeType DEF Stored, u
      <4> QED
        BY <4>1
    <3>9. Synced(s, y, {ino})
      <4>1. /\ y.map = s.map /\ y.mapdirty = s.mapdirty /\ y.diskmap = s.diskmap
            /\ y.dents = s.dents /\ y.faults >= s.faults /\ y.panic = s.panic
        BY <1>1, <2>6, <3>7 DEF Stored, u
      <4>2. /\ y.vnodes[ino] # NULL /\ y.vnodes[ino].i = s.vnodes[ino].i
            /\ y.vnodes[ino].refs = s.vnodes[ino].refs /\ y.disk[ino] = Inode(s.vnodes[ino].i)
        BY <3>3, <3>5, <3>7, <3>8
      <4>3. \A b \in Blocks : b # ino => y.vnodes[b] = s.vnodes[b] /\ y.disk[b] = s.disk[b]
        BY <3>5, <3>7, <3>8
      <4> QED
        BY <3>7, <4>1, <4>2, <4>3 DEF Synced
    <3>10. Unmoved(s, y, {}, H) /\ Kin(s, y)
      <4> DEFINE D == {ino}
      <4>1. D \in SUBSET Blocks /\ Synced(s, y, D)
        BY <3>9
      <4> HIDE DEF D
      <4> QED
        BY <4>1, SyncedSound
    <3>11. y.disk[ino] = Inode(y.vnodes[ino].i)
      BY <3>3, <3>5, <3>7, <3>8
    <3>12. SameData(s, y)
      <4>1. \A b \in Blocks, k \in Places : At(y, b, k) = At(s, b, k)
        BY <3>10 DEF Unmoved
      <4> QED
        BY <4>1, DataFrame
    <3> QED
      BY <3>4, <3>10, <3>11, <3>12 DEF Done, Settled, Costly, Unmoved
  <2> QED
    BY <2>4, <2>5, <2>6
<1> QED
  BY <1>3, <1>4

-----------------------------------------------------------------------------
(* sfs_reclaim.                                                            *)
Plus(H, b) == [H EXCEPT ![b] = H[b] + 1]
Minus(H, b) == [H EXCEPT ![b] = H[b] - 1]

LEMMA PlusMinus ==
  ASSUME NEW H \in [Blocks -> Nat], NEW b \in Blocks
  PROVE  /\ Plus(H, b) \in [Blocks -> Nat] /\ Plus(H, b)[b] = H[b] + 1 /\ Plus(H, b)[b] >= 1
         /\ Minus(Plus(H, b), b) = H
         /\ H[b] >= 1 => Minus(H, b) \in [Blocks -> Nat]
<1> DEFINE f == Plus(H, b)
<1>1. H[b] \in Nat /\ H[b] + 1 \in Nat /\ H[b] + 1 >= 1 /\ (H[b] + 1) - 1 = H[b]
  OBVIOUS
<1>2. /\ f \in [Blocks -> Nat] /\ f[b] = H[b] + 1 /\ \A c \in Blocks : c # b => f[c] = H[c]
      /\ DOMAIN f = Blocks
  BY <1>1 DEF Plus
<1>3. H[b] >= 1 => H[b] - 1 \in Nat
  BY <1>1
<1>4. H[b] >= 1 => Minus(H, b) \in [Blocks -> Nat]
  BY <1>3 DEF Minus
<1> HIDE DEF f
<1>5. Minus(f, b) = [c \in Blocks |-> H[c]]
  <2>1. f[b] - 1 = H[b]
    BY <1>1, <1>2
  <2>2. Minus(f, b) = [c \in Blocks |-> IF c = b THEN f[b] - 1 ELSE f[c]]
    BY <1>2, Zenon DEF Minus
  <2>3. \A c \in Blocks : (IF c = b THEN f[b] - 1 ELSE f[c]) = H[c]
    BY <1>2, <2>1
  <2> QED
    BY <2>2, <2>3, Zenon
<1>6. H = [c \in Blocks |-> H[c]]
  OBVIOUS
<1> QED
  BY <1>1, <1>2, <1>4, <1>5, <1>6 DEF f

\* The files that have names or are held keep their data, and all names stay.
Intact(s, r, H) ==
  \A b \in Blocks : H[b] >= 1 \/ (\E n \in Names : r.dents[n] = b) => Data(r, b) = Data(s, b)
SameNames(s, r) == r.dents = s.dents

LEMMA IntactSame ==
  ASSUME NEW s, NEW r, NEW H, SameData(s, r)
  PROVE  Intact(s, r, H)
BY DEF SameData, Intact

LEMMA IntactAfter ==
  ASSUME NEW s, NEW u, NEW r, NEW H, SameData(s, u), Intact(u, r, H)
  PROVE  Intact(s, r, H)
BY DEF SameData, Intact

\* The volume keeps names and data; or those of files that have names or are held.
Quiet(s, r) == SameNames(s, r) /\ SameData(s, r)
Spared(s, r, H) == SameNames(s, r) /\ Intact(s, r, H)

LEMMA QuietTransitive ==
  ASSUME NEW s, NEW u, NEW r, Quiet(s, u), Quiet(u, r)
  PROVE  Quiet(s, r)
BY DEF Quiet, SameNames, SameData

LEMMA SparedAfter ==
  ASSUME NEW s, NEW u, NEW r, NEW H, Quiet(s, u), Spared(u, r, H)
  PROVE  Spared(s, r, H)
<1>1. SameNames(s, r)
  BY DEF Quiet, Spared, SameNames
<1>2. Intact(s, r, H)
  BY IntactAfter DEF Quiet, Spared
<1> QED
  BY <1>1, <1>2 DEF Spared

LEMMA SparedQuiet ==
  ASSUME NEW s, NEW r, NEW H, Quiet(s, r)
  PROVE  Spared(s, r, H)
BY IntactSame DEF Quiet, Spared

LEMMA FaultedQuiet ==
  ASSUME NEW s, NEW r, NEW X, NEW H, Sound(s, X, H), Faulted(s, r)
  PROVE  Quiet(s, r)
<1>1. \A b \in Blocks, k \in Places : At(r, b, k) = At(s, b, k)
  BY FaultedSound
<1>2. SameData(s, r)
  BY <1>1, DataFrame
<1> QED
  BY <1>2 DEF Quiet, SameNames, Faulted

LEMMA QuietSelf == ASSUME NEW s PROVE Quiet(s, s)
BY DEF Quiet, SameNames, SameData

\* Data are in the vnodes, the directory and on the disk.
LEMMA FieldsQuiet ==
  ASSUME NEW s, NEW r, r.vnodes = s.vnodes, r.dents = s.dents, r.disk = s.disk
  PROVE  Quiet(s, r)
<1>1. LiveIn(r) = LiveIn(s) /\ \A b \in Blocks : InodeIn(r, b) = InodeIn(s, b)
  BY DEF LiveIn, InodeIn
<1>2. \A b : PointersIn(r, b) = PointersIn(s, b)
  BY DEF PointersIn
<1>3. \A b \in Blocks, k \in Places : At(r, b, k) = At(s, b, k)
  BY <1>1, <1>2 DEF At, Listed
<1>4. SameData(s, r)
  BY <1>3, DataFrame
<1> QED
  BY <1>4 DEF Quiet, SameNames

\* An error: the vnode stays, with a reference that nobody has.
LEMMA ReclaimFails ==
  ASSUME NEW s, NEW u, NEW H, Sound(s, {}, H), NEW ino \in Blocks, s.vnodes[ino] # NULL,
         s.vnodes[ino].refs = 1, H[ino] = 1, Sound(u, {}, H), Kin(s, u),
         u.faults >= s.faults + 1
  PROVE  Sound(u, {}, Minus(H, ino))
<1>1. Counted(s, H) /\ s \in Volumes /\ u \in Volumes /\ H \in [Blocks -> Nat]
  BY SoundType DEF Sound, Counted
<1>2. \A b \in Blocks : /\ u.vnodes[b] = NULL <=> s.vnodes[b] = NULL
                        /\ s.vnodes[b] # NULL => u.vnodes[b].refs = s.vnodes[b].refs
  BY DEF Kin
<1>3. Counted(u, [H EXCEPT ![ino] = 0])
  BY <1>1, <1>2, CountedStray
<1>4. Minus(H, ino) = [H EXCEPT ![ino] = 0]
  BY <1>1 DEF Minus
<1> QED
  BY <1>3, <1>4 DEF Sound

\* A vnode gets another value, or none, and nothing else changes.
LEMMA SwapOut ==
  ASSUME NEW s \in Volumes, NEW ino \in Blocks, NEW v \in Vnodes \cup {NULL}
  PROVE  LET r == [s EXCEPT !.vnodes = [s.vnodes EXCEPT ![ino] = v]] IN
         /\ Swapped(s, r, ino, v) /\ r.vnodes[ino] = v
         /\ \A b \in Blocks : b # ino => r.vnodes[b] = s.vnodes[b]
<1> DEFINE g == [s.vnodes EXCEPT ![ino] = v]
           r == [s EXCEPT !.vnodes = g]
<1>1. s.vnodes \in [Blocks -> Vnodes \cup {NULL}]
  BY VolumeType
<1>2. g \in [Blocks -> Vnodes \cup {NULL}] /\ g[ino] = v /\ \A b \in Blocks : b # ino => g[b] = s.vnodes[b]
  BY <1>1
<1>3. g = [s.vnodes EXCEPT ![ino] = v]
  OBVIOUS
<1>4. r = [s EXCEPT !.vnodes = g]
  OBVIOUS
<1> HIDE DEF g, r
<1>5. /\ r \in Volumes /\ r.map = s.map /\ r.mapdirty = s.mapdirty /\ r.diskmap = s.diskmap
      /\ r.dents = s.dents /\ r.faults = s.faults /\ r.panic = s.panic /\ r.disk = s.disk /\ r.vnodes = g
  BY <1>2, <1>4 DEF Volumes
<1> QED
  BY <1>2, <1>3, <1>5 DEF Swapped, r, g

LEMMA DropReference ==
  ASSUME NEW s, NEW H, Sound(s, {}, H), NEW ino \in Blocks, s.vnodes[ino] # NULL,
         s.vnodes[ino].refs # 1, H[ino] >= 1
  PROVE  LET r == [s EXCEPT !.vnodes[ino].refs = @ - 1] IN
         Sound(r, {}, Minus(H, ino)) /\ SameNames(s, r) /\ SameData(s, r)
<1> DEFINE v == s.vnodes[ino]
           n == v.refs - 1
           w == [v EXCEPT !.refs = n]
           r == [s EXCEPT !.vnodes = [s.vnodes EXCEPT ![ino] = w]]
<1>1. s \in Volumes /\ v \in Vnodes /\ v.refs \in Nat \ {0} /\ Laid(s, {}) /\ Linked(s) /\ Counted(s, H)
  BY SoundType, VnodeType DEF Sound
<1>2. n \in Nat \ {0}
  BY <1>1
<1>3. w = [i |-> v.i, refs |-> n, dirty |-> v.dirty] /\ w \in Vnodes
  <2> HIDE DEF v, n
  <2> QED
    BY <1>1, <1>2, VnodeFields
<1>4. w.i = v.i /\ w.refs = n /\ w.dirty = v.dirty /\ w # NULL
  <2>1. w # NULL
    BY <1>3, NullAssumption
  <2> QED
    BY <1>3, <2>1
<1>5. r = [s EXCEPT !.vnodes[ino].refs = @ - 1]
  OBVIOUS
<1> HIDE DEF w
<1>6. /\ Swapped(s, r, ino, w) /\ r.vnodes[ino] = w
      /\ \A b \in Blocks : b # ino => r.vnodes[b] = s.vnodes[b]
  BY <1>1, <1>3, SwapOut
<1> HIDE DEF r
<1>7. ino \in LiveIn(s) /\ InodeIn(s, ino) = v.i
  BY DEF LiveIn, InodeIn
<1>8. w.i = InodeIn(s, ino) /\ (w.dirty \/ s.disk[ino] = Inode(w.i))
  BY <1>1, <1>4, <1>7 DEF Laid, OnDisk
<1>9. /\ Laid(r, {}) /\ Linked(r)
      /\ \A b \in Blocks, k \in Places : At(r, b, k) = At(s, b, k)
  BY <1>3, <1>4, <1>6, <1>7, <1>8, SwapRows
<1>11. SameNames(s, r) /\ SameData(s, r)
  BY <1>6, <1>9, DataFrame DEF Swapped, SameNames
<1>10. Counted(r, Minus(H, ino))
  <2> DEFINE m == H[ino] - 1
  <2>1. H[ino] \in Nat /\ v.refs \in {H[ino], H[ino] + 1}
    BY <1>1 DEF Counted
  <2>2. m \in Nat /\ n \in {m, m + 1} /\ (n = m + 1 => v.refs = H[ino] + 1)
    BY <1>1, <2>1
  <2>3. r \in Volumes /\ r.faults >= s.faults
    BY <1>1, <1>6, VolumeType DEF Swapped
  <2> HIDE DEF m, n, v
  <2>4. r.vnodes[ino] # NULL /\ r.vnodes[ino].refs = n
    BY <1>4, <1>6
  <2>5. Counted(r, [H EXCEPT ![ino] = m])
    BY <1>1, <1>6, <2>2, <2>3, <2>4, CountedAnew DEF v
  <2> QED
    BY <2>5 DEF Minus, m
<1> QED
  BY <1>5, <1>9, <1>10, <1>11 DEF Sound

\* The vnode goes, as the inode on disk is the same.
LEMMA EvictSound ==
  ASSUME NEW w, NEW H, Sound(w, {}, H), NEW ino \in Blocks, w.vnodes[ino] # NULL,
         w.disk[ino] = Inode(w.vnodes[ino].i), w.vnodes[ino].i.links # 0, H[ino] = 1
  PROVE  LET r == [w EXCEPT !.vnodes[ino] = NULL] IN
         Sound(r, {}, Minus(H, ino)) /\ SameNames(w, r) /\ SameData(w, r)
<1> DEFINE v == NULL
           i == w.vnodes[ino].i
           r == [w EXCEPT !.vnodes = [w.vnodes EXCEPT ![ino] = v]]
<1>1. w \in Volumes /\ Laid(w, {}) /\ Linked(w) /\ Counted(w, H) /\ v \in Vnodes \cup {NULL}
  BY SoundType DEF Sound
<1>2. ino \in LiveIn(w) /\ InodeIn(w, ino) = i
  BY DEF LiveIn, InodeIn
<1>3. \E n \in Names : w.dents[n] = ino
  <2>1. IsFiniteSet(NamesOf(w, ino)) /\ i.links = Cardinality(NamesOf(w, ino))
    BY <1>1, <1>2 DEF Linked
  <2>2. NamesOf(w, ino) # {}
    BY <2>1, FS_EmptySet
  <2> QED
    BY <2>2 DEF NamesOf
<1>4. /\ Swapped(w, r, ino, v) /\ r.vnodes[ino] = v
      /\ \A b \in Blocks : b # ino => r.vnodes[b] = w.vnodes[b]
  <2> HIDE DEF v
  <2> QED
    BY <1>1, SwapOut
<1>5. v = NULL => w.disk[ino] = Inode(InodeIn(w, ino)) /\ \E n \in Names : w.dents[n] = ino
  BY <1>2, <1>3
<1>6. [w EXCEPT !.vnodes[ino] = NULL] = r
  OBVIOUS
<1>7. v = NULL
  OBVIOUS
<1> HIDE DEF r, v
<1>8. /\ Laid(r, {}) /\ Linked(r)
      /\ \A b \in Blocks, k \in Places : At(r, b, k) = At(w, b, k)
  BY <1>1, <1>2, <1>4, <1>5, <1>7, SwapRows
<1>10. SameNames(w, r) /\ SameData(w, r)
  BY <1>4, <1>8, DataFrame DEF Swapped, SameNames
<1>9. Counted(r, Minus(H, ino))
  <2> DEFINE m == 0
  <2>1. r \in Volumes /\ r.faults >= w.faults /\ m \in Nat
    BY <1>1, <1>4, VolumeType DEF Swapped
  <2>2. r.vnodes[ino] = NULL /\ m = 0
    BY <1>4, <1>7
  <2> HIDE DEF m
  <2>3. Counted(r, [H EXCEPT ![ino] = m])
    BY <1>1, <1>4, <2>1, <2>2, CountedAnew
  <2>4. H[ino] - 1 = m
    BY <2>2
  <2> QED
    BY <2>3, <2>4 DEF Minus
<1> QED
  BY <1>6, <1>8, <1>9, <1>10 DEF Sound

\* A file without names and blocks: its inode's block is freed, its vnode goes.
LEMMA EraseSound ==
  ASSUME NEW w, NEW H, Sound(w, {}, H), NEW ino \in Blocks, w.vnodes[ino] # NULL,
         w.vnodes[ino].i.links = 0, H[ino] = 1, \A k \in Places : At(w, ino, k) = NOBLOCK,
         NEW q \in Bfree(w, <<ino>>)
  PROVE  LET r == [q.s EXCEPT !.vnodes[ino] = NULL] IN
         ~q.err /\ Sound(r, {}, Minus(H, ino)) /\ SameNames(w, r) /\ SameData(w, r)
<1> DEFINE u == q.s
           i == w.vnodes[ino].i
           r == [u EXCEPT !.vnodes = [u.vnodes EXCEPT ![ino] = NULL]]
           v == NULL
<1>1. w \in Volumes /\ Laid(w, {}) /\ Linked(w)
  BY SoundType DEF Sound
<1>2. ino \in LiveIn(w) /\ InodeIn(w, ino) = i
  BY DEF LiveIn, InodeIn
<1>3. \A n \in Names : w.dents[n] # ino
  <2>1. IsFiniteSet(NamesOf(w, ino)) /\ i.links = Cardinality(NamesOf(w, ino))
    BY <1>1, <1>2 DEF Linked
  <2>2. NamesOf(w, ino) = {}
    BY <2>1, FS_EmptySet
  <2> QED
    BY <2>2 DEF NamesOf
<1>4. ino \in w.map
  BY <1>1, <1>2, InUseOnce
<1>5. Freed(w, u, {ino}) /\ ~q.err
  BY <1>1, <1>4, FreeOne
<1>6. [u EXCEPT !.vnodes[ino] = NULL] = r /\ v \in Vnodes \cup {NULL} /\ v = NULL
  OBVIOUS
<1> HIDE DEF u, v
<1>7. u \in Volumes
  BY <1>5 DEF Freed
<1>8. Swapped(u, r, ino, NULL)
  <2> DEFINE y == [u EXCEPT !.vnodes = [u.vnodes EXCEPT ![ino] = v]]
  <2>1. Swapped(u, y, ino, v)
    BY <1>6, <1>7, SwapOut
  <2> QED
    BY <1>6, <2>1
<1> HIDE DEF r
<1>9. /\ r \in Volumes /\ r.map = w.map \ {ino} /\ r.mapdirty /\ r.dents = w.dents
      /\ r.faults = w.faults /\ r.panic = w.panic /\ r.vnodes = [w.vnodes EXCEPT ![ino] = NULL]
      /\ \A b \in Blocks : b # ino => r.disk[b] = w.disk[b]
  BY <1>5, <1>8 DEF Swapped, Freed
<1>10. Sound(r, {}, [H EXCEPT ![ino] = 0]) /\ SameData(w, r)
  BY <1>3, <1>9, Erased
<1>11. H[ino] - 1 = 0
  OBVIOUS
<1> QED
  BY <1>5, <1>6, <1>9, <1>10, <1>11 DEF Minus, SameNames, u

LEMMA ReclaimDone ==
  ASSUME NEW s, NEW H, Sound(s, {}, H), NEW ino \in Blocks, s.vnodes[ino] # NULL, H[ino] >= 1,
         NEW r \in Reclaim(s, ino)
  PROVE  /\ Settled(r, Minus(H, ino))
         /\ Sound(r.s, {}, Minus(H, ino)) => SameNames(s, r.s) /\ Intact(s, r.s, Minus(H, ino))
<1>1. s \in Volumes /\ s.faults \in Nat /\ Counted(s, H) /\ H \in [Blocks -> Nat]
  BY SoundType DEF Sound, Counted
<1>2. CASE s.vnodes[ino].refs # 1
  <2>1. r \in Ok([s EXCEPT !.vnodes[ino].refs = @ - 1], NOBLOCK)
    BY <1>2, Zenon DEF Reclaim
  <2>2. r.s = [s EXCEPT !.vnodes[ino].refs = @ - 1] /\ ~r.err
    BY <2>1 DEF Ok
  <2>3. Sound(r.s, {}, Minus(H, ino)) /\ SameNames(s, r.s) /\ SameData(s, r.s)
    BY <1>2, <2>2, DropReference
  <2> QED
    BY <2>2, <2>3, IntactSame DEF Settled
<1>3. CASE s.vnodes[ino].refs = 1
  <2>1. H[ino] = 1
    BY <1>1, <1>3 DEF Counted
  <2> DEFINE erase == s.vnodes[ino].i.links = 0
             A == IF erase THEN Itrunc(s, ino, 0) ELSE Ok(s, NOBLOCK)
             E(y) == Ok([y EXCEPT !.vnodes[ino] = NULL], NOBLOCK)
             D(w) == IF erase THEN Bfree(w, <<ino>>) ELSE Ok(w, NOBLOCK)
             C(w) == Then(D(w), LAMBDA y, z : E(y))
             S(u) == SyncInode(u, ino)
             B(u) == Then(S(u), LAMBDA w, x : C(w))
             W(x) == /\ SameNames(s, x)
                     /\ \A b \in Blocks : b # ino => Data(x, b) = Data(s, b)
                     /\ ~erase => SameData(s, x)
  <2>2. r \in Then(A, LAMBDA u, v : B(u))
    BY <1>3, Zenon DEF Reclaim
  <2>7. ASSUME NEW x, W(x)
        PROVE  SameNames(s, x) /\ Intact(s, x, Minus(H, ino))
    <3>1. Minus(H, ino)[ino] = 0
      BY <1>1, <2>1 DEF Minus
    <3>2. (\E n \in Names : s.dents[n] = ino) => ~erase
      <4>1. ino \in LiveIn(s) /\ InodeIn(s, ino) = s.vnodes[ino].i
        BY DEF LiveIn, InodeIn
      <4>2. IsFiniteSet(NamesOf(s, ino)) /\ InodeIn(s, ino).links = Cardinality(NamesOf(s, ino))
        BY <4>1 DEF Sound, Linked
      <4>3. erase => NamesOf(s, ino) = {}
        BY <4>1, <4>2, FS_EmptySet
      <4> QED
        BY <4>3 DEF NamesOf
    <3> HIDE DEF erase
    <3>3. (\E n \in Names : x.dents[n] = ino) => SameData(s, x)
      BY <2>7, <3>2 DEF SameNames
    <3>4. Intact(s, x, Minus(H, ino))
      <4> SUFFICES ASSUME NEW b \in Blocks,
                          Minus(H, ino)[b] >= 1 \/ (\E n \in Names : x.dents[n] = b)
                   PROVE  Data(x, b) = Data(s, b)
        BY DEF Intact
      <4>1. CASE b # ino
        BY <2>7, <4>1
      <4>2. CASE b = ino
        BY <3>1, <3>3, <4>2 DEF SameData
      <4> QED
        BY <4>1, <4>2
    <3> QED
      BY <2>7, <3>4
  <2>8. ASSUME NEW x, NEW y, W(x), SameNames(x, y), SameData(x, y)
        PROVE  W(y)
    <3> HIDE DEF erase
    <3> QED
      BY <2>8 DEF SameNames, SameData
  <2> HIDE DEF A, B
  <2>3. PICK q \in A : \/ ~q.err /\ r \in B(q.s)
                       \/ q.err /\ r.err /\ r.s = q.s /\ (r.v = q.v \/ r.v = NOBLOCK)
    BY <2>2 DEF Then, Try, Fail
  <2> DEFINE u == q.s
  <2>4. /\ Done(s, q, H) /\ Costly(s, q)
        /\ ~q.err => /\ Sound(u, {}, H)
                     /\ erase => \A k \in Places : At(u, ino, k) = NOBLOCK
        /\ Sound(u, {}, H) => W(u)
    <3>1. CASE erase
      <4> DEFINE len == 0
      <4>1. len \in FileBlocks /\ len = 0
        BY Indices
      <4>2. q \in Itrunc(s, ino, len)
        BY <3>1 DEF A
      <4> HIDE DEF len
      <4>3. /\ Done(s, q, H) /\ Costly(s, q)
            /\ ~q.err => /\ Sound(u, {}, H)
                         /\ \A k \in Places : At(u, ino, k) = NOBLOCK
            /\ Sound(u, {}, H) => Effect(s, u, ino, Past(len), {})
        BY <4>1, <4>2, ItruncDone
      <4>4. Sound(u, {}, H) => W(u)
        BY <3>1, <4>3 DEF Done, Kin, SameNames, Effect
      <4> QED
        BY <4>3, <4>4
    <3>2. CASE ~erase
      <4>1. q \in Ok(s, NOBLOCK)
        BY <3>2, Zenon DEF A
      <4>2. q.s = s /\ ~q.err
        BY <4>1 DEF Ok
      <4>3. s.faults >= s.faults
        BY <1>1
      <4>4. Kin(s, s)
        BY <1>1, <4>3, KinFrame
      <4> QED
        BY <3>2, <4>2, <4>4 DEF Done, Settled, Costly, SameNames, SameData
    <3> QED
      BY <3>1, <3>2
  <2> HIDE DEF u, erase, W
  <2>5. CASE q.err
    <3>1. CASE Sound(u, {}, H)
      <4>1. Kin(s, u) /\ u.faults >= s.faults + 1
        BY <2>4, <2>5, <3>1 DEF Done, Costly, u
      <4>2. Sound(u, {}, Minus(H, ino))
        BY <1>3, <2>1, <3>1, <4>1, ReclaimFails
      <4>3. SameNames(s, u) /\ Intact(s, u, Minus(H, ino))
        BY <2>4, <2>7, <3>1
      <4> QED
        BY <2>3, <2>4, <2>5, <4>2, <4>3 DEF Done, Settled, u
    <3>2. CASE Stopped(u)
      BY <2>3, <2>4, <2>5, <3>2, SoundType DEF Done, Settled, u
    <3> QED
      BY <2>4, <3>1, <3>2 DEF Done, Settled, u
  <2>6. CASE ~q.err
    <3>1. Sound(u, {}, H) /\ Kin(s, u) /\ u.vnodes[ino] # NULL
      BY <2>4, <2>6 DEF Done, Kin, u
    <3>2. r \in B(u)
      BY <2>3, <2>6 DEF u
    <3> HIDE DEF C, S
    <3>3. PICK p \in S(u) : \/ ~p.err /\ r \in C(p.s)
                            \/ p.err /\ r.err /\ r.s = p.s /\ (r.v = p.v \/ r.v = NOBLOCK)
      BY <3>2 DEF B, Then, Try, Fail
    <3> DEFINE w == p.s
    <3>4. /\ Done(u, p, H) /\ Costly(u, p) /\ Sound(w, {}, H) /\ SameData(u, w)
          /\ ~p.err => Unmoved(u, w, {}, H) /\ w.disk[ino] = Inode(w.vnodes[ino].i)
      <4>1. p \in SyncInode(u, ino)
        BY <3>3 DEF S
      <4> QED
        BY <3>1, <4>1, SyncInodeDone
    <3> HIDE DEF w
    <3>5. Kin(s, w)
      <4>1. Kin(u, w)
        BY <3>4 DEF Done, w
      <4> QED
        BY <3>1, <4>1, KinTransitive
    <3>8. W(w)
      <4>1. SameNames(u, w)
        BY <3>4 DEF Done, Kin, SameNames, w
      <4>2. W(u)
        BY <2>4, <3>1
      <4> QED
        BY <2>8, <3>4, <4>1, <4>2
    <3>6. CASE p.err
      <4>1. w.faults >= s.faults + 1
        <5>1. w.faults >= u.faults + 1
          BY <3>4, <3>6 DEF Costly, w
        <5> QED
          BY <3>1, <3>5, <5>1 DEF Kin
      <4>2. Sound(w, {}, Minus(H, ino))
        BY <1>3, <2>1, <3>4, <3>5, <4>1, ReclaimFails
      <4> QED
        BY <2>7, <3>3, <3>4, <3>6, <3>8, <4>2 DEF Done, Settled, w
    <3>7. CASE ~p.err
      <4>1. /\ w.vnodes[ino] # NULL /\ w.disk[ino] = Inode(w.vnodes[ino].i)
            /\ w.vnodes[ino].i.links = s.vnodes[ino].i.links
            /\ erase => \A k \in Places : At(w, ino, k) = NOBLOCK
        BY <2>4, <2>6, <3>4, <3>5, <3>7 DEF Kin, Unmoved
      <4>2. r \in C(w)
        BY <3>3, <3>7 DEF w
      <4>3. CASE ~erase
        <5>1. w.vnodes[ino].i.links # 0
          BY <4>1, <4>3 DEF erase
        <5> DEFINE z == [w EXCEPT !.vnodes[ino] = NULL]
        <5>2. Sound(z, {}, Minus(H, ino)) /\ SameNames(w, z) /\ SameData(w, z)
          BY <2>1, <3>4, <4>1, <5>1, EvictSound
        <5>3. r.s = z /\ ~r.err
          <6>1. r \in Then(Ok(w, NOBLOCK), LAMBDA y, x : E(y))
            BY <4>2, <4>3, Zenon DEF C, D
          <6>2. r \in E(w)
            BY <6>1 DEF Then, Try, Ok
          <6> QED
            BY <6>2 DEF Ok
        <5> HIDE DEF z
        <5>4. W(z)
          BY <2>8, <3>8, <5>2
        <5> QED
          BY <2>7, <5>2, <5>3, <5>4 DEF Settled
      <4>4. CASE erase
        <5>1. w.vnodes[ino].i.links = 0
          BY <4>1, <4>4 DEF erase
        <5> DEFINE X == Bfree(w, <<ino>>)
        <5>2. r \in Then(X, LAMBDA y, z : E(y))
          BY <4>2, <4>4, Zenon DEF C, D
        <5> HIDE DEF X, E
        <5>3. PICK o \in X : \/ ~o.err /\ r \in E(o.s)
                             \/ o.err /\ r.err /\ r.s = o.s /\ (r.v = o.v \/ r.v = NOBLOCK)
          BY <5>2 DEF Then, Try, Fail
        <5> DEFINE z == [o.s EXCEPT !.vnodes[ino] = NULL]
        <5>4. ~o.err /\ Sound(z, {}, Minus(H, ino)) /\ SameNames(w, z) /\ SameData(w, z)
          <6>1. o \in Bfree(w, <<ino>>)
            BY <5>3 DEF X
          <6> QED
            BY <2>1, <3>4, <4>1, <4>4, <5>1, <6>1, EraseSound
        <5>5. r.s = z /\ ~r.err
          BY <5>3, <5>4 DEF E, Ok
        <5> HIDE DEF z
        <5>6. W(z)
          BY <2>8, <3>8, <5>4
        <5> QED
          BY <2>7, <5>4, <5>5, <5>6 DEF Settled
      <4> QED
        BY <4>3, <4>4
    <3> QED
      BY <3>6, <3>7
  <2> QED
    BY <2>5, <2>6
<1> QED
  BY <1>2, <1>3

\* vnode_decref: the error of sfs_reclaim is not returned.
LEMMA DecrefDone ==
  ASSUME NEW s, NEW H, Sound(s, {}, H), NEW ino \in Blocks, s.vnodes[ino] # NULL, H[ino] >= 1,
         NEW r \in Decref(s, ino)
  PROVE  /\ Settled(r, Minus(H, ino)) /\ (r.err => Stopped(r.s))
         /\ Sound(r.s, {}, Minus(H, ino)) => SameNames(s, r.s) /\ Intact(s, r.s, Minus(H, ino))
<1> DEFINE R == Reclaim(s, ino)
<1>1. r \in Try(R, Ok, LAMBDA u : Ok(u, NOBLOCK))
  BY DEF Decref, Ignore
<1> HIDE DEF R
<1>2. PICK q \in R : \/ ~q.err /\ r \in Ok(q.s, q.v)
                     \/ q.err /\ q.s.panic # "none" /\ r = q
                     \/ q.err /\ q.s.panic = "none" /\ r \in Ok(q.s, NOBLOCK)
  BY <1>1 DEF Try
<1>3. /\ Settled(q, Minus(H, ino))
      /\ Sound(q.s, {}, Minus(H, ino)) => SameNames(s, q.s) /\ Intact(s, q.s, Minus(H, ino))
  BY <1>2, ReclaimDone DEF R
<1>4. CASE ~q.err /\ r \in Ok(q.s, q.v)
  <2>1. ~r.err /\ r.s = q.s
    BY <1>4 DEF Ok
  <2> QED
    BY <1>3, <1>4, <2>1 DEF Settled
<1>5. CASE q.err /\ q.s.panic # "none" /\ r = q
  BY <1>3, <1>5, SoundType DEF Settled
<1>6. CASE q.err /\ q.s.panic = "none" /\ r \in Ok(q.s, NOBLOCK)
  <2>1. ~r.err /\ r.s = q.s
    BY <1>6 DEF Ok
  <2>2. ~Stopped(q.s)
    BY <1>6 DEF Stopped
  <2> QED
    BY <1>3, <2>1, <2>2 DEF Settled
<1> QED
  BY <1>2, <1>4, <1>5, <1>6

-----------------------------------------------------------------------------
(* Inodes are loaded and made.                                             *)

\* There is one reference more to vnode ino.
Loaded(s, r, ino, H) ==
  /\ Sound(r, {}, Plus(H, ino)) /\ r.dents = s.dents /\ r.faults >= s.faults
  /\ LiveIn(r) = LiveIn(s) /\ r.vnodes[ino] # NULL /\ r.vnodes[ino].i = InodeIn(s, ino)
  /\ SameData(s, r)

LEMMA AddReference ==
  ASSUME NEW s, NEW H, Sound(s, {}, H), NEW ino \in LiveIn(s), NEW v \in Vnodes,
         v.i = InodeIn(s, ino), v.dirty \/ s.disk[ino] = Inode(v.i),
         s.vnodes[ino] = NULL => v.refs = 1,
         s.vnodes[ino] # NULL => v.refs = s.vnodes[ino].refs + 1
  PROVE  LET r == [s EXCEPT !.vnodes = [s.vnodes EXCEPT ![ino] = v]] IN
         Loaded(s, r, ino, H)
<1> DEFINE r == [s EXCEPT !.vnodes = [s.vnodes EXCEPT ![ino] = v]]
           m == H[ino] + 1
<1>1. s \in Volumes /\ s.faults \in Nat /\ Counted(s, H) /\ H \in [Blocks -> Nat] /\ ino \in Blocks
  BY SoundType DEF Sound, Counted, LiveIn
<1>2. /\ Swapped(s, r, ino, v) /\ r.vnodes[ino] = v
      /\ \A b \in Blocks : b # ino => r.vnodes[b] = s.vnodes[b]
  BY <1>1, SwapOut
<1>3. v # NULL
  BY NullAssumption
<1> HIDE DEF r
<1>4. /\ Laid(r, {}) /\ Linked(r) /\ LiveIn(r) = LiveIn(s)
      /\ \A b \in Blocks, k \in Places : At(r, b, k) = At(s, b, k)
  BY <1>2, <1>3, SwapRows
<1>8. SameData(s, r)
  BY <1>4, DataFrame
<1>5. r \in Volumes /\ r.faults >= s.faults /\ r.dents = s.dents
  BY <1>1, <1>2 DEF Swapped
<1>6. m \in Nat /\ r.vnodes[ino].refs \in {m, m + 1}
      /\ (r.vnodes[ino].refs = m + 1 => s.vnodes[ino] # NULL /\ s.vnodes[ino].refs = H[ino] + 1)
  <2>1. H[ino] \in Nat
    BY <1>1
  <2>2. CASE s.vnodes[ino] = NULL
    BY <1>1, <1>2, <2>1, <2>2 DEF Counted
  <2>3. CASE s.vnodes[ino] # NULL
    <3>1. s.vnodes[ino].refs \in {H[ino], H[ino] + 1} /\ v.refs = s.vnodes[ino].refs + 1
      BY <1>1, <2>3 DEF Counted
    <3> QED
      BY <1>2, <2>1, <2>3, <3>1
  <2> QED
    BY <2>2, <2>3
<1>7. Counted(r, Plus(H, ino))
  <2> HIDE DEF m
  <2>1. Counted(r, [H EXCEPT ![ino] = m])
    BY <1>1, <1>2, <1>3, <1>5, <1>6, CountedAnew
  <2> QED
    BY <2>1 DEF Plus, m
<1> QED
  BY <1>2, <1>3, <1>4, <1>5, <1>7, <1>8 DEF Loaded, Sound, r

\* Every inode in memory, and this one, is marked.
LEMMA WellPlaced ==
  ASSUME NEW s, NEW X, NEW H, Sound(s, X, H), NEW ino \in Blocks, ino \in LiveIn(s) \cup X
  PROVE  ~Misplaced(s, ino)
<1>1. LiveIn(s) \subseteq s.map /\ X \subseteq s.map
  BY SoundType, InUseOnce
<1>2. \A b \in Blocks : s.vnodes[b] # NULL => b \in LiveIn(s)
  BY DEF LiveIn
<1> QED
  BY <1>1, <1>2 DEF Misplaced

\* The outcome r of an operation on s that takes a reference to vnode ino.
Taking(s, r, ino, H) ==
  \/ r.err /\ r.v = NOBLOCK /\ Sound(r.s, {}, H) /\ Kin(s, r.s) /\ SameData(s, r.s)
  \/ ~r.err /\ r.v = ino /\ Loaded(s, r.s, ino, H)

LEMMA LoadVnodeDone ==
  ASSUME NEW s, NEW H, Sound(s, {}, H), NEW ino \in LiveIn(s), NEW r \in LoadVnode(s, ino)
  PROVE  Taking(s, r, ino, H)
<1>1. s \in Volumes /\ s.faults \in Nat /\ Laid(s, {}) /\ ino \in Blocks
  BY SoundType DEF LiveIn
<1>2. ~Misplaced(s, ino)
  BY <1>1, WellPlaced
<1>3. CASE s.vnodes[ino] # NULL
  <2> DEFINE w == s.vnodes[ino]
             n == w.refs + 1
             v == [w EXCEPT !.refs = n]
             y == [s EXCEPT !.vnodes = [s.vnodes EXCEPT ![ino] = v]]
  <2>1. r \in Ok([s EXCEPT !.vnodes[ino].refs = @ + 1], ino)
    BY <1>2, <1>3, Zenon DEF LoadVnode
  <2>2. r.s = y /\ ~r.err /\ r.v = ino
    BY <2>1 DEF Ok
  <2>3. w \in Vnodes /\ n \in Nat \ {0}
    <3>1. w \in Vnodes /\ w.refs \in Nat \ {0}
      BY <1>1, <1>3, VnodeType
    <3> HIDE DEF w
    <3> QED
      BY <3>1
  <2>4. v = [i |-> w.i, refs |-> n, dirty |-> w.dirty] /\ v \in Vnodes
    <3> HIDE DEF w, n
    <3> QED
      BY <2>3, VnodeFields
  <2>5. v.i = w.i /\ v.refs = n /\ v.dirty = w.dirty
    BY <2>4
  <2> HIDE DEF v
  <2>6. v.i = InodeIn(s, ino) /\ (v.dirty \/ s.disk[ino] = Inode(v.i))
    BY <1>1, <1>3, <2>5 DEF Laid, OnDisk, InodeIn
  <2>7. Loaded(s, y, ino, H)
    BY <1>3, <2>4, <2>5, <2>6, AddReference
  <2> QED
    BY <2>2, <2>7 DEF Taking
<1>4. CASE s.vnodes[ino] = NULL
  <2> DEFINE f == FALSE
             G(u) == IF u.disk[ino].kind # "inode" THEN Panic(u, "invalid inode type")
                     ELSE Ok([u EXCEPT !.vnodes[ino] = Vnode(u.disk[ino].i, f)], ino)
             R == ReadBlock(s)
  <2>1. r \in Then(R, LAMBDA u, v : G(u))
    BY <1>2, <1>4, Zenon DEF LoadVnode
  <2>2. f \in BOOLEAN
    OBVIOUS
  <2> HIDE DEF R, G, f
  <2>3. PICK q \in R : \/ ~q.err /\ r \in G(q.s)
                       \/ q.err /\ r.err /\ r.s = q.s /\ (r.v = q.v \/ r.v = NOBLOCK)
    BY <2>1 DEF Then, Try, Fail
  <2>4. Done(s, q, H) /\ Sound(q.s, {}, H) /\ SameData(s, q.s) /\ (~q.err => q.s = s)
    BY <2>3, ReadDone DEF R
  <2>5. CASE q.err
    BY <2>3, <2>4, <2>5 DEF Done, Settled, Taking
  <2>6. CASE ~q.err
    <3> DEFINE i == s.disk[ino].i
               v == Vnode(i, f)
               y == [s EXCEPT !.vnodes = [s.vnodes EXCEPT ![ino] = v]]
    <3>1. s.disk[ino].kind = "inode"
      BY <1>1, <1>4 DEF Laid, OnDisk
    <3>2. s.disk[ino] \in Contents
      BY <1>1, VolumeType
    <3>3. i \in Inodes /\ s.disk[ino] = Inode(i)
      BY <3>1, <3>2, KindsDiffer
    <3>4. r \in G(s)
      BY <2>3, <2>4, <2>6
    <3>5. r \in Ok(y, ino)
      BY <3>1, <3>4, Zenon DEF G
    <3>6. r.s = y /\ ~r.err /\ r.v = ino
      BY <3>5 DEF Ok
    <3>7. v.i = i /\ v.refs = 1 /\ v \in Vnodes
      <4> DEFINE n == 1
      <4>1. v = [i |-> i, refs |-> n, dirty |-> f] /\ n \in Nat \ {0} /\ n = 1
        BY DEF Vnode
      <4> HIDE DEF v, i, n
      <4>2. v \in Vnodes
        BY <2>2, <3>3, <4>1, VnodeMade
      <4> QED
        BY <4>1, <4>2
    <3> HIDE DEF v
    <3>8. v.i = InodeIn(s, ino) /\ s.disk[ino] = Inode(v.i)
      BY <1>4, <3>3, <3>7 DEF InodeIn
    <3>9. Loaded(s, y, ino, H)
      BY <1>4, <3>7, <3>8, AddReference
    <3> QED
      BY <3>6, <3>9 DEF Taking
  <2> QED
    BY <2>5, <2>6
<1> QED
  BY <1>3, <1>4

LEMMA NewInodeType == /\ NewInode \in Inodes /\ NewInode.links = 0
<1> DEFINE z == [i \in DirectIx |-> NOBLOCK]
<1>1. z \in [DirectIx -> Numbers] /\ NOBLOCK \in Numbers
  BY DEF Numbers
<1>2. NewInode = [links |-> 0, direct |-> z, ind |-> NOBLOCK]
  BY DEF NewInode
<1> HIDE DEF z
<1> QED
  BY <1>1, <1>2 DEF Inodes

\* The outcome r of an operation on s that makes a file, with one reference to it.
Making(s, r, H) ==
  \/ r.err /\ r.v = NOBLOCK /\ Sound(r.s, {}, H) /\ Kin(s, r.s) /\ SameData(s, r.s)
  \/ /\ ~r.err /\ r.v \in Blocks /\ r.v \notin LiveIn(s) /\ Sound(r.s, {}, Plus(H, r.v))
     /\ r.s.dents = s.dents /\ r.s.faults >= s.faults /\ r.s.vnodes[r.v] # NULL
     /\ SameData(s, r.s)

LEMMA BornSound ==
  ASSUME NEW s, NEW x \in Blocks, NEW H, Sound(s, {x}, H), s.mapdirty
  PROVE  LET r == SetDirty([s EXCEPT !.vnodes[x] = Vnode(NewInode, TRUE)], x) IN
         /\ Sound(r, {}, Plus(H, x)) /\ r.dents = s.dents /\ r.faults = s.faults
         /\ r.vnodes[x] # NULL /\ x \notin LiveIn(s) /\ SameData(s, r)
<1> DEFINE t == TRUE
           n == 1
           o == NewInode
           v == Vnode(o, t)
           z == [i |-> o, refs |-> n, dirty |-> t]
           y == [s EXCEPT !.vnodes = [s.vnodes EXCEPT ![x] = v]]
           r == SetDirty(y, x)
<1>1. s \in Volumes /\ t \in BOOLEAN /\ n \in Nat \ {0} /\ n = 1 /\ t
  BY SoundType
<1>2. o \in Inodes /\ o = NewInode
  BY NewInodeType
<1>3. v = z
  BY DEF Vnode
<1>4. r = SetDirty([s EXCEPT !.vnodes[x] = Vnode(NewInode, TRUE)], x)
  OBVIOUS
<1> HIDE DEF v, o, n, t
<1>5. z \in Vnodes /\ z # NULL /\ z.i = o /\ z.refs = 1 /\ z.dirty
  BY <1>1, <1>2, VnodeMade
<1> HIDE DEF z
<1>6. v \in Vnodes \cup {NULL} /\ v # NULL /\ v.i = o /\ v.refs = 1 /\ v.dirty
  BY <1>3, <1>5
<1>7. Swapped(s, y, x, v) /\ y.vnodes[x] = v
  BY <1>1, <1>6, SwapOut
<1> HIDE DEF y
<1>8. y \in Volumes /\ y.vnodes[x] # NULL
  BY <1>6, <1>7 DEF Swapped
<1>9. Rewritten(y, r, x, v.i)
  <2>1. Rewritten(y, r, x, y.vnodes[x].i)
    BY <1>8, SetDirtySame
  <2> QED
    BY <1>7, <2>1
<1> HIDE DEF r
<1>10. /\ r \in Volumes /\ r.map = s.map /\ r.mapdirty /\ r.dents = s.dents
       /\ r.faults = s.faults /\ r.panic = s.panic
       /\ \A b \in Blocks : b # x => r.disk[b] = s.disk[b]
  BY <1>7, <1>9 DEF Rewritten, Swapped
<1>11. r.vnodes = [s.vnodes EXCEPT ![x] = v]
  <2>1. r.vnodes = [y.vnodes EXCEPT ![x] = [i |-> v.i, refs |-> y.vnodes[x].refs, dirty |-> TRUE]]
    BY <1>9 DEF Rewritten
  <2>2. [i |-> v.i, refs |-> y.vnodes[x].refs, dirty |-> TRUE] = v
    BY <1>3, <1>6, <1>7 DEF z, t, n
  <2>3. y.vnodes = [s.vnodes EXCEPT ![x] = v]
    BY <1>7 DEF Swapped
  <2> QED
    BY <2>1, <2>2, <2>3
<1>12. /\ Sound(r, {}, [H EXCEPT ![x] = 1]) /\ H[x] = 0 /\ x \notin LiveIn(s)
       /\ \A b \in Blocks, k \in Places : At(r, b, k) = At(s, b, k)
  BY <1>2, <1>6, <1>10, <1>11, Born
<1>14. SameData(s, r)
  BY <1>12, DataFrame
<1>13. r.vnodes[x] # NULL
  <2>1. s.vnodes \in [Blocks -> Vnodes \cup {NULL}]
    BY <1>1, VolumeType
  <2> QED
    BY <1>6, <1>11, <2>1
<1> QED
  BY <1>4, <1>10, <1>12, <1>13, <1>14 DEF Plus

LEMMA LoadNewDone ==
  ASSUME NEW s, NEW x \in Blocks, NEW H, Sound(s, {x}, H), s.mapdirty, s.disk[x] = Zeros,
         NEW r \in LoadNew(s, x)
  PROVE  \/ r.err /\ r.v = NOBLOCK /\ Faulted(s, r.s)
         \/ /\ ~r.err /\ r.v = x /\ x \notin LiveIn(s) /\ Sound(r.s, {}, Plus(H, x))
            /\ r.s.dents = s.dents /\ r.s.faults = s.faults /\ r.s.vnodes[x] # NULL
            /\ SameData(s, r.s)
<1>1. s \in Volumes /\ ~Misplaced(s, x)
  BY SoundType, WellPlaced
<1> DEFINE w == SetDirty([s EXCEPT !.vnodes[x] = Vnode(NewInode, TRUE)], x)
           R == ReadBlock(s)
           F(u) == IF u.disk[x].kind # "zeros" THEN Panic(u, "sfs_inode.c:214")
                   ELSE Ok(SetDirty([u EXCEPT !.vnodes[x] = Vnode(NewInode, TRUE)], x), x)
<1>2. /\ Sound(w, {}, Plus(H, x)) /\ w.dents = s.dents /\ w.faults = s.faults
      /\ w.vnodes[x] # NULL /\ x \notin LiveIn(s) /\ SameData(s, w)
  BY BornSound
<1>3. s.vnodes[x] = NULL
  BY <1>2 DEF LiveIn
<1>4. r \in Then(R, LAMBDA u, v : F(u))
  BY <1>1, <1>3, Zenon DEF LoadNew
<1> HIDE DEF R, F
<1>5. PICK q \in R : \/ ~q.err /\ r \in F(q.s)
                     \/ q.err /\ r.err /\ r.s = q.s /\ (r.v = q.v \/ r.v = NOBLOCK)
  BY <1>4 DEF Then, Try, Fail
<1>6. \/ q.s = s /\ ~q.err
      \/ Faulted(s, q.s) /\ q.err /\ q.v = NOBLOCK
  BY <1>1, <1>5, ReadOut DEF R
<1>7. CASE Faulted(s, q.s) /\ q.err /\ q.v = NOBLOCK
  BY <1>5, <1>7
<1>8. CASE q.s = s /\ ~q.err
  <2>1. r \in F(s)
    BY <1>5, <1>8
  <2>2. s.disk[x].kind = "zeros"
    BY KindsDiffer
  <2>3. r \in Ok(w, x)
    BY <2>1, <2>2, Zenon DEF F
  <2> HIDE DEF w
  <2>4. r.s = w /\ ~r.err /\ r.v = x
    BY <2>3 DEF Ok
  <2> QED
    BY <1>2, <2>4
<1> QED
  BY <1>6, <1>7, <1>8

LEMMA MakeObjDone ==
  ASSUME NEW s, NEW H, Sound(s, {}, H), NEW r \in MakeObj(s)
  PROVE  Making(s, r, H)
<1>1. s \in Volumes /\ s.faults \in Nat
  BY SoundType
<1> DEFINE R == Balloc(s)
           G(w, x) == Then(Bfree(w, <<x>>), LAMBDA y, v : Fail(y))
           F(u, x) == Try(LoadNew(u, x), Ok, LAMBDA w : G(w, x))
<1>2. r \in Then(R, F)
  BY DEF MakeObj
<1> HIDE DEF R, F
<1>3. PICK q \in R : \/ ~q.err /\ r \in F(q.s, q.v)
                     \/ q.err /\ r.err /\ r.s = q.s /\ (r.v = q.v \/ r.v = NOBLOCK)
  BY <1>2 DEF Then, Try, Fail
<1>4. Kin(s, q.s) /\ SameData(s, q.s) /\ (q.err => Done(s, q, H))
  BY <1>3, BallocKin DEF R
<1>5. /\ q.s.dents = s.dents /\ LiveIn(q.s) = LiveIn(s)
      /\ \/ ~q.err /\ Sound(q.s, {q.v}, H) /\ q.v \in Blocks /\ q.s.disk[q.v] = Zeros /\ q.s.mapdirty
            /\ q.s.faults = s.faults
         \/ q.err /\ Sound(q.s, {}, H) /\ q.v = NOBLOCK /\ q.s.faults >= s.faults
  BY <1>3, BallocSound DEF R
<1>6. CASE q.err
  BY <1>3, <1>4, <1>5, <1>6 DEF Making
<1>7. CASE ~q.err
  <2> DEFINE u == q.s
             x == q.v
             S == LoadNew(u, x)
  <2>1. /\ x \in Blocks /\ Sound(u, {x}, H) /\ u.mapdirty /\ u.disk[x] = Zeros /\ u.faults = s.faults
        /\ u.dents = s.dents /\ LiveIn(u) = LiveIn(s) /\ Kin(s, u)
        /\ SameData(s, u)
    BY <1>4, <1>5, <1>7
  <2>2. r \in F(u, x)
    BY <1>3, <1>7
  <2> HIDE DEF u, x, S, G
  <2>3. r \in Try(S, Ok, LAMBDA w : G(w, x))
    BY <2>2 DEF F, S
  <2>4. PICK p \in S : \/ ~p.err /\ r \in Ok(p.s, p.v)
                       \/ p.err /\ p.s.panic # "none" /\ r = p
                       \/ p.err /\ p.s.panic = "none" /\ r \in G(p.s, x)
    BY <2>3 DEF Try
  <2>5. \/ p.err /\ p.v = NOBLOCK /\ Faulted(u, p.s)
        \/ /\ ~p.err /\ p.v = x /\ x \notin LiveIn(u) /\ Sound(p.s, {}, Plus(H, x))
           /\ p.s.dents = u.dents /\ p.s.faults = u.faults /\ p.s.vnodes[x] # NULL
           /\ SameData(u, p.s)
    BY <2>1, <2>4, LoadNewDone DEF S
  <2>6. CASE ~p.err
    <3>1. r.s = p.s /\ r.v = p.v /\ ~r.err
      BY <2>4, <2>6 DEF Ok
    <3>2. SameData(s, p.s)
      BY <2>1, <2>5, <2>6, SameTransitive
    <3> QED
      BY <1>1, <2>1, <2>5, <2>6, <3>1, <3>2 DEF Making
  <2>7. CASE p.err /\ Faulted(u, p.s)
    <3> DEFINE w == p.s
               T == Bfree(w, <<x>>)
    <3>1. Sound(w, {x}, H) /\ SameData(u, w)
      <4> HIDE DEF w
      <4>1. Faulted(u, w)
        BY <2>7 DEF w
      <4> DEFINE X == {x}
      <4>2. Sound(u, X, H)
        BY <2>1
      <4> HIDE DEF X
      <4>3. Sound(w, X, H) /\ \A b \in Blocks, k \in Places : At(w, b, k) = At(u, b, k)
        BY <4>1, <4>2, FaultedSound
      <4> QED
        BY <4>3, DataFrame DEF X
    <3>2. w.panic = "none" /\ w \in Volumes
      BY <3>1, SoundType
    <3>3. r \in Then(T, LAMBDA y, v : Fail(y))
      BY <2>4, <2>7, <3>2 DEF G
    <3> HIDE DEF T, w
    <3>4. PICK o \in T : \/ ~o.err /\ r \in Fail(o.s)
                         \/ o.err /\ r.err /\ r.s = o.s /\ (r.v = o.v \/ r.v = NOBLOCK)
      BY <3>3 DEF Then, Try, Fail
    <3>5. Freed(w, o.s, {x}) /\ ~o.err
      <4>1. x \in w.map
        BY <3>1, SoundType, InUseOnce
      <4> QED
        BY <3>2, <3>4, <4>1, FreeOne DEF T
    <3>6. r.s = o.s /\ r.err /\ r.v = NOBLOCK
      BY <3>4, <3>5 DEF Fail
    <3>7. Sound(o.s, {}, H) /\ SameData(w, o.s)
      <4> DEFINE X == {x}
                 z == o.s
      <4>1. Sound(w, X, H) /\ Freed(w, z, X)
        BY <3>1, <3>5
      <4> HIDE DEF X, z
      <4>2. Sound(z, {}, H) /\ \A b \in Blocks, k \in Places : At(z, b, k) = At(w, b, k)
        BY <4>1, FreedSound
      <4> QED
        BY <4>2, DataFrame DEF z
    <3>9. SameData(s, o.s)
      BY <2>1, <3>1, <3>7, SameTransitive
    <3>8. Kin(s, o.s)
      <4>1. Kin(w, o.s)
        BY <3>2, <3>5, FreedKin
      <4>2. w.vnodes = u.vnodes /\ w.faults >= u.faults
        <5>1. u.faults \in Nat
          BY <2>1 DEF Kin
        <5> QED
          BY <2>7, <5>1 DEF Faulted, w
      <4>3. u \in Volumes
        BY <2>1, SoundType
      <4>4. Kin(u, w)
        <5>1. w.dents = u.dents
          BY <2>7 DEF Faulted, w
        <5> QED
          BY <3>2, <4>2, <4>3, <5>1, KinFrame
      <4> QED
        BY <2>1, <4>1, <4>4, KinTransitive
    <3> QED
      BY <3>6, <3>7, <3>8, <3>9 DEF Making
  <2> QED
    BY <2>5, <2>6, <2>7
<1> QED
  BY <1>6, <1>7

-----------------------------------------------------------------------------
(* Names come and go.                                                      *)

\* A vnode to which there is a reference is in memory.
LEMMA HeldVnode ==
  ASSUME NEW s, NEW X, NEW H, Sound(s, X, H), NEW ino \in Blocks, H[ino] >= 1
  PROVE  s.vnodes[ino] # NULL
BY DEF Sound, Counted

LEMMA FindNameDone ==
  ASSUME NEW s, NEW H, Sound(s, {}, H), NEW n \in Names, NEW r \in FindName(s, n)
  PROVE  \/ ~r.err /\ r.s = s /\ r.v = s.dents[n]
         \/ r.err /\ r.v = NOBLOCK /\ Faulted(s, r.s) /\ Sound(r.s, {}, H)
<1> DEFINE R == ReadBlock(s)
<1>1. r \in Then(R, LAMBDA u, v : Ok(u, u.dents[n])) /\ s \in Volumes
  BY SoundType DEF FindName
<1> HIDE DEF R
<1>2. PICK q \in R : \/ ~q.err /\ r \in Ok(q.s, q.s.dents[n])
                     \/ q.err /\ r.err /\ r.s = q.s /\ (r.v = q.v \/ r.v = NOBLOCK)
  BY <1>1 DEF Then, Try, Fail
<1>3. \/ q.s = s /\ ~q.err
      \/ Faulted(s, q.s) /\ q.err /\ q.v = NOBLOCK
  BY <1>1, <1>2, ReadOut DEF R
<1>4. CASE ~q.err
  <2>1. r \in Ok(s, s.dents[n])
    BY <1>2, <1>3, <1>4
  <2> QED
    BY <2>1 DEF Ok
<1>5. CASE q.err
  <2>1. Faulted(s, r.s) /\ r.err /\ r.v = NOBLOCK
    BY <1>2, <1>3, <1>5
  <2> QED
    BY <2>1, FaultyDone
<1> QED
  BY <1>4, <1>5

LEMMA NamedOut ==
  ASSUME NEW s \in Volumes, NEW n \in Names, NEW c \in Numbers
  PROVE  Named(s, [s EXCEPT !.dents[n] = c], n, c)
<1> DEFINE d == [s.dents EXCEPT ![n] = c]
           r == [s EXCEPT !.dents = d]
<1>1. s.dents \in [Names -> Numbers]
  BY VolumeType
<1>2. d \in [Names -> Numbers]
  BY <1>1
<1>3. r = [s EXCEPT !.dents = d] /\ [s EXCEPT !.dents[n] = c] = r
  OBVIOUS
<1> HIDE DEF d, r
<1>4. /\ r \in Volumes /\ r.map = s.map /\ r.mapdirty = s.mapdirty /\ r.diskmap = s.diskmap
      /\ r.dents = d /\ r.faults = s.faults /\ r.panic = s.panic /\ r.disk = s.disk /\ r.vnodes = s.vnodes
  BY <1>2, <1>3 DEF Volumes
<1> QED
  BY <1>3, <1>4 DEF Named, d

LEMMA WriteDirOut ==
  ASSUME NEW s \in Volumes, NEW n \in Names, NEW c \in Numbers, NEW r \in WriteDir(s, n, c)
  PROVE  \/ ~r.err /\ Named(s, r.s, n, c) /\ r.v = c
         \/ r.err /\ Faulted(s, r.s) /\ r.v = NOBLOCK
<1> DEFINE R == ReadBlock(s)
           F(u) == Ok([u EXCEPT !.dents[n] = c], c) \cup Faulty(u)
<1>1. r \in Then(R, LAMBDA u, v : F(u))
  BY DEF WriteDir
<1> HIDE DEF R, F
<1>2. PICK q \in R : \/ ~q.err /\ r \in F(q.s)
                     \/ q.err /\ r.err /\ r.s = q.s /\ (r.v = q.v \/ r.v = NOBLOCK)
  BY <1>1 DEF Then, Try, Fail
<1>3. \/ q.s = s /\ ~q.err
      \/ Faulted(s, q.s) /\ q.err /\ q.v = NOBLOCK
  BY <1>2, ReadOut DEF R
<1>4. CASE ~q.err
  <2>1. r \in F(s)
    BY <1>2, <1>3, <1>4
  <2>2. CASE r \in Faulty(s)
    BY <2>2, FaultyOut
  <2>3. CASE r \in Ok([s EXCEPT !.dents[n] = c], c)
    <3>1. r.s = [s EXCEPT !.dents[n] = c] /\ ~r.err /\ r.v = c
      BY <2>3 DEF Ok
    <3> QED
      BY <3>1, NamedOut
  <2> QED
    BY <2>1, <2>2, <2>3 DEF F
<1>5. CASE q.err
  BY <1>2, <1>3, <1>5
<1> QED
  BY <1>4, <1>5

LEMMA DirLinkOut ==
  ASSUME NEW s, NEW H, Sound(s, {}, H), NEW n \in Names, NEW c \in Numbers, NEW r \in DirLink(s, n, c)
  PROVE  \/ ~r.err /\ s.dents[n] = NOBLOCK /\ Named(s, r.s, n, c) /\ r.v = c
         \/ r.err /\ r.v = NOBLOCK /\ (r.s = s \/ Faulted(s, r.s)) /\ Sound(r.s, {}, H)
<1> DEFINE R == FindName(s, n)
           F(u, v) == IF v # NOBLOCK THEN Fail(u) ELSE WriteDir(u, n, c)
<1>1. r \in Then(R, F) /\ s \in Volumes
  BY SoundType DEF DirLink
<1> HIDE DEF R, F
<1>2. PICK q \in R : \/ ~q.err /\ r \in F(q.s, q.v)
                     \/ q.err /\ r.err /\ r.s = q.s /\ (r.v = q.v \/ r.v = NOBLOCK)
  BY <1>1 DEF Then, Try, Fail
<1>3. \/ ~q.err /\ q.s = s /\ q.v = s.dents[n]
      \/ q.err /\ q.v = NOBLOCK /\ Faulted(s, q.s) /\ Sound(q.s, {}, H)
  BY <1>2, FindNameDone DEF R
<1>4. CASE q.err
  BY <1>2, <1>3, <1>4
<1>5. CASE ~q.err
  <2>1. r \in F(s, s.dents[n])
    BY <1>2, <1>3, <1>5
  <2>2. CASE s.dents[n] # NOBLOCK
    <3>1. r \in Fail(s)
      BY <2>1, <2>2, Zenon DEF F
    <3> QED
      BY <3>1 DEF Fail
  <2>3. CASE s.dents[n] = NOBLOCK
    <3>1. r \in WriteDir(s, n, c)
      BY <2>1, <2>3, Zenon DEF F
    <3>2. \/ ~r.err /\ Named(s, r.s, n, c) /\ r.v = c
          \/ r.err /\ Faulted(s, r.s) /\ r.v = NOBLOCK
      BY <1>1, <3>1, WriteDirOut
    <3> QED
      BY <2>3, <3>2, FaultyDone
  <2> QED
    BY <2>2, <2>3
<1> QED
  BY <1>4, <1>5

LEMMA AddLinksOut ==
  ASSUME NEW s \in Volumes, NEW ino \in Blocks, s.vnodes[ino] # NULL, NEW k \in Int,
         s.vnodes[ino].i.links + k \in Nat
  PROVE  Rewritten(s, AddLinks(s, ino, k), ino,
                   [s.vnodes[ino].i EXCEPT !.links = s.vnodes[ino].i.links + k])
<1> DEFINE v == s.vnodes[ino]
           o == v.i
           m == o.links + k
           i == [o EXCEPT !.links = m]
           u == [s EXCEPT !.vnodes = [s.vnodes EXCEPT ![ino] = [v EXCEPT !.i = i]]]
<1>1. o \in Inodes
  BY VnodeType
<1>2. i \in Inodes
  <2>1. m \in Nat
    OBVIOUS
  <2> HIDE DEF m, o
  <2> QED
    BY <1>1, <2>1, InodeFields
<1>3. [s EXCEPT !.vnodes[ino].i.links = @ + k] = u
  OBVIOUS
<1>4. AddLinks(s, ino, k) = SetDirty(u, ino)
  BY <1>3, Zenon DEF AddLinks
<1> HIDE DEF i
<1>5. Rewritten(s, SetDirty(u, ino), ino, i)
  BY <1>2, SetDirtyOut
<1> QED
  BY <1>4, <1>5 DEF i

\* A name is entered or removed, and its link counted.
LEMMA RelinkSound ==
  ASSUME NEW s, NEW u, NEW H, Sound(s, {}, H), NEW ino \in Blocks, s.vnodes[ino] # NULL,
         NEW n \in Names, NEW c, NEW k, Named(s, u, n, c),
         \/ s.dents[n] = NOBLOCK /\ c = ino /\ k = 1
         \/ s.dents[n] = ino /\ c = NOBLOCK /\ k = -1
  PROVE  LET r == AddLinks(u, ino, k) IN
         /\ Sound(r, {}, H) /\ r.dents = u.dents /\ r.faults = s.faults
         /\ r.vnodes[ino].dirty /\ SameData(s, r)
<1> DEFINE o == s.vnodes[ino].i
           m == o.links + k
           i == [o EXCEPT !.links = m]
           r == AddLinks(u, ino, k)
<1>1. /\ s \in Volumes /\ Laid(s, {}) /\ Linked(s) /\ u \in Volumes /\ u.vnodes = s.vnodes
      /\ u.faults = s.faults
  BY SoundType DEF Sound, Named
<1>2. o.links \in Nat /\ ino \in LiveIn(s) /\ InodeIn(s, ino) = o
  BY <1>1, InodeInMemory
<1>3. IsFiniteSet(NamesOf(s, ino)) /\ o.links = Cardinality(NamesOf(s, ino))
  BY <1>1, <1>2 DEF Linked
<1>4. m \in Nat /\ k \in Int
  <2>1. CASE k = 1
    BY <1>2, <2>1
  <2>2. CASE s.dents[n] = ino /\ k = -1
    <3>1. NamesOf(s, ino) # {}
      BY <2>2 DEF NamesOf
    <3>2. o.links # 0
      BY <1>3, <3>1, FS_EmptySet
    <3> QED
      BY <1>2, <2>2, <3>2
  <2> QED
    BY <2>1, <2>2
<1>5. Rewritten(u, r, ino, i)
  <2>1. u.vnodes[ino] # NULL /\ u.vnodes[ino].i.links + k \in Nat
    BY <1>1, <1>4
  <2>2. Rewritten(u, AddLinks(u, ino, k), ino,
                   [u.vnodes[ino].i EXCEPT !.links = u.vnodes[ino].i.links + k])
    BY <1>1, <1>4, <2>1, AddLinksOut
  <2> QED
    BY <1>1, <2>2
<1>6. \/ s.dents[n] = NOBLOCK /\ c = ino /\ m = o.links + 1
      \/ s.dents[n] = ino /\ c = NOBLOCK /\ m = o.links - 1
  BY <1>2
<1> HIDE DEF r, m
<1>7. Sound(r, {}, H) /\ SameData(s, r)
  BY <1>5, <1>6, NameSound
<1>8. r.dents = u.dents /\ r.faults = s.faults
  BY <1>1, <1>5 DEF Rewritten
<1>9. r.vnodes[ino].dirty
  <2> DEFINE t == TRUE
             w == [i |-> i, refs |-> u.vnodes[ino].refs, dirty |-> t]
  <2>1. r.vnodes = [u.vnodes EXCEPT ![ino] = w] /\ t
    BY <1>5 DEF Rewritten
  <2>2. w.dirty = t
    OBVIOUS
  <2> HIDE DEF w, t
  <2>3. u.vnodes \in [Blocks -> Vnodes \cup {NULL}]
    BY <1>1, VolumeType
  <2> QED
    BY <2>1, <2>2, <2>3
<1> QED
  BY <1>7, <1>8, <1>9 DEF r

\* The same without sfs_rename's setting of the dirty bit, which is set by then.
LEMMA UndoSound ==
  ASSUME NEW s, NEW u, NEW H, Sound(s, {}, H), NEW ino \in Blocks, s.vnodes[ino] # NULL,
         s.vnodes[ino].dirty, NEW n \in Names, s.dents[n] = ino, Named(s, u, n, NOBLOCK)
  PROVE  LET r == [u EXCEPT !.vnodes[ino].i.links = @ - 1] IN
         Sound(r, {}, H) /\ SameNames(u, r) /\ SameData(s, r)
<1> DEFINE v == s.vnodes[ino]
           o == v.i
           m == o.links - 1
           i == [o EXCEPT !.links = m]
           w == [v EXCEPT !.i = i]
           r == [u EXCEPT !.vnodes = [u.vnodes EXCEPT ![ino] = w]]
           t == TRUE
           x == [i |-> i, refs |-> v.refs, dirty |-> t]
<1>1. /\ s \in Volumes /\ Laid(s, {}) /\ Linked(s) /\ u \in Volumes /\ u.vnodes = s.vnodes
      /\ v \in Vnodes /\ v.dirty \in BOOLEAN
  BY SoundType, VnodeType DEF Sound, Named
<1>2. o.links \in Nat /\ ino \in LiveIn(s) /\ InodeIn(s, ino) = o /\ o \in Inodes
  BY <1>1, InodeInMemory
<1>3. m \in Nat
  <2>1. IsFiniteSet(NamesOf(s, ino)) /\ o.links = Cardinality(NamesOf(s, ino))
    BY <1>1, <1>2 DEF Linked
  <2>2. NamesOf(s, ino) # {}
    BY DEF NamesOf
  <2>3. o.links # 0
    BY <2>1, <2>2, FS_EmptySet
  <2> QED
    BY <1>2, <2>3
<1>4. i \in Inodes
  <2> HIDE DEF m, o
  <2> QED
    BY <1>2, <1>3, InodeFields
<1>5. w = [i |-> i, refs |-> v.refs, dirty |-> v.dirty] /\ w \in Vnodes
  <2> HIDE DEF i, v
  <2> QED
    BY <1>1, <1>4, VnodeFields
<1>6. v.dirty = t
  BY <1>1, Zenon
<1>7. w = x
  <2> HIDE DEF t, w, i, v
  <2> QED
    BY <1>5, <1>6
<1>8. [u EXCEPT !.vnodes[ino].i.links = @ - 1] = r
  BY <1>1
<1> HIDE DEF w
<1>9. Swapped(u, r, ino, w)
  BY <1>1, <1>5, SwapOut
<1> HIDE DEF r
<1>10. Rewritten(u, r, ino, i)
  <2>1. u.vnodes[ino] = v
    BY <1>1
  <2> HIDE DEF i, v
  <2>2. r.vnodes = [u.vnodes EXCEPT ![ino] = [i |-> i, refs |-> u.vnodes[ino].refs, dirty |-> TRUE]]
    BY <1>7, <1>9, <2>1 DEF Swapped, x, t
  <2> QED
    BY <1>9, <2>2 DEF Swapped, Rewritten
<1>11. m = o.links - 1 /\ m = s.vnodes[ino].i.links - 1
  OBVIOUS
<1> HIDE DEF m
<1>12. Sound(r, {}, H) /\ SameData(s, r)
  <2> DEFINE c == NOBLOCK
  <2>1. Named(s, u, n, c) /\ c = NOBLOCK
    OBVIOUS
  <2> HIDE DEF c
  <2> QED
    BY <1>10, <1>11, <2>1, NameSound
<1>13. SameNames(u, r)
  BY <1>9 DEF Swapped, SameNames
<1> QED
  BY <1>8, <1>12, <1>13

-----------------------------------------------------------------------------
(* The operations on names.                                                *)

\* The outcome r of an operation that opens a file.
Opened(r, H) ==
  \/ r.err /\ Settled(r, H)
  \/ ~r.err /\ r.v \in Blocks /\ Sound(r.s, {}, Plus(H, r.v))

LEMMA NamedLive ==
  ASSUME NEW s, NEW X, NEW H, Sound(s, X, H), NEW n \in Names, s.dents[n] # NOBLOCK
  PROVE  s.dents[n] \in Blocks /\ s.dents[n] \in LiveIn(s) /\ InodeIn(s, s.dents[n]).links # 0
<1> DEFINE b == s.dents[n]
<1>1. s \in Volumes /\ Linked(s)
  BY SoundType DEF Sound
<1>2. b \in Blocks /\ b \in LiveIn(s)
  BY <1>1, VolumeType DEF Numbers, LiveIn
<1>3. IsFiniteSet(NamesOf(s, b)) /\ InodeIn(s, b).links = Cardinality(NamesOf(s, b))
  BY <1>1, <1>2 DEF Linked
<1>4. NamesOf(s, b) # {}
  BY DEF NamesOf
<1> QED
  BY <1>2, <1>3, <1>4, FS_EmptySet

LEMMA LookonceDone ==
  ASSUME NEW s, NEW H, Sound(s, {}, H), NEW n \in Names, NEW r \in Lookonce(s, n)
  PROVE  /\ Opened(r, H)
         /\ ~r.err => /\ r.v = s.dents[n] /\ r.s.dents = s.dents
                      /\ r.s.vnodes[r.v] # NULL
         /\ r.s.panic = "none" /\ Quiet(s, r.s)
<1> DEFINE R == FindName(s, n)
           G(w, ino) == IF w.vnodes[ino].i.links = 0 THEN Panic(w, "linkcount 0") ELSE Ok(w, ino)
           L(u, ino) == Then(LoadVnode(u, ino), LAMBDA w, v : G(w, ino))
           F(u, ino) == IF ino = NOBLOCK THEN Fail(u) ELSE L(u, ino)
<1>1. r \in Then(R, F) /\ s \in Volumes /\ s.panic = "none"
  BY SoundType DEF Lookonce
<1> HIDE DEF R, F, L
<1>2. PICK q \in R : \/ ~q.err /\ r \in F(q.s, q.v)
                     \/ q.err /\ r.err /\ r.s = q.s /\ (r.v = q.v \/ r.v = NOBLOCK)
  BY <1>1 DEF Then, Try, Fail
<1>3. \/ ~q.err /\ q.s = s /\ q.v = s.dents[n]
      \/ q.err /\ q.v = NOBLOCK /\ Faulted(s, q.s) /\ Sound(q.s, {}, H)
  BY <1>2, FindNameDone DEF R
<1>4. CASE q.err
  <2>1. Sound(r.s, {}, H) /\ r.err /\ r.v = NOBLOCK /\ Quiet(s, r.s)
    BY <1>2, <1>3, <1>4, FaultedQuiet
  <2> QED
    BY <2>1, SoundType DEF Opened, Settled
<1>5. CASE ~q.err
  <2> DEFINE ino == s.dents[n]
             S == LoadVnode(s, ino)
  <2>1. r \in F(s, ino)
    BY <1>2, <1>3, <1>5
  <2>2. CASE ino = NOBLOCK
    <3>1. r \in Fail(s)
      BY <2>1, <2>2, Zenon DEF F
    <3>2. r.s = s /\ r.err /\ r.v = NOBLOCK
      BY <3>1 DEF Fail
    <3> QED
      BY <1>1, <3>2, QuietSelf DEF Opened, Settled
  <2>3. CASE ino # NOBLOCK
    <3>1. ino \in Blocks /\ ino \in LiveIn(s) /\ InodeIn(s, ino).links # 0
      BY <2>3, NamedLive
    <3>2. r \in Then(S, LAMBDA w, v : G(w, ino))
      BY <2>1, <2>3, Zenon DEF F, L
    <3> HIDE DEF S, G, ino
    <3>3. PICK p \in S : \/ ~p.err /\ r \in G(p.s, ino)
                         \/ p.err /\ r.err /\ r.s = p.s /\ (r.v = p.v \/ r.v = NOBLOCK)
      BY <3>2 DEF Then, Try, Fail
    <3>4. Taking(s, p, ino, H)
      BY <3>1, <3>3, LoadVnodeDone DEF S
    <3>5. CASE p.err
      <4>1. Sound(r.s, {}, H) /\ r.err /\ r.v = NOBLOCK /\ Quiet(s, r.s)
        BY <3>3, <3>4, <3>5 DEF Taking, Kin, Quiet, SameNames
      <4> QED
        BY <4>1, SoundType DEF Opened, Settled
    <3>6. CASE ~p.err
      <4> DEFINE w == p.s
      <4>1. /\ Sound(w, {}, Plus(H, ino)) /\ w.dents = s.dents /\ w.vnodes[ino] # NULL
            /\ w.vnodes[ino].i.links # 0 /\ SameData(s, w)
        BY <3>1, <3>4, <3>6 DEF Taking, Loaded
      <4>2. r \in G(w, ino)
        BY <3>3, <3>6
      <4> HIDE DEF w
      <4>3. r \in Ok(w, ino)
        BY <4>1, <4>2, Zenon DEF G
      <4>4. r.s = w /\ ~r.err /\ r.v = ino
        BY <4>3 DEF Ok
      <4> QED
        BY <3>1, <4>1, <4>4, SoundType DEF Opened, ino, Quiet, SameNames
    <3> QED
      BY <3>5, <3>6
  <2> QED
    BY <2>2, <2>3
<1> QED
  BY <1>4, <1>5

LEMMA LinkDone ==
  ASSUME NEW s, NEW H, Sound(s, {}, H), NEW ino \in Blocks, s.vnodes[ino] # NULL,
         NEW n \in Names, NEW r \in Link(s, n, ino)
  PROVE  /\ Sound(r.s, {}, H) /\ (r.err => r.v = NOBLOCK)
         /\ ~r.err => /\ s.dents[n] = NOBLOCK /\ r.s.dents = [s.dents EXCEPT ![n] = ino]
                      /\ r.s.vnodes[ino].dirty
         /\ SameData(s, r.s) /\ (r.err => SameNames(s, r.s))
<1> DEFINE R == DirLink(s, n, ino)
           F(u) == Ok(AddLinks(u, ino, 1), ino)
<1>1. r \in Then(R, LAMBDA u, v : F(u)) /\ s \in Volumes /\ ino \in Numbers
  BY SoundType DEF Link, Numbers
<1> HIDE DEF R, F
<1>2. PICK q \in R : \/ ~q.err /\ r \in F(q.s)
                     \/ q.err /\ r.err /\ r.s = q.s /\ (r.v = q.v \/ r.v = NOBLOCK)
  BY <1>1 DEF Then, Try, Fail
<1>3. \/ ~q.err /\ s.dents[n] = NOBLOCK /\ Named(s, q.s, n, ino)
      \/ q.err /\ q.v = NOBLOCK /\ (q.s = s \/ Faulted(s, q.s)) /\ Sound(q.s, {}, H)
  BY <1>1, <1>2, DirLinkOut DEF R
<1>4. CASE q.err
  <2>1. Quiet(s, q.s)
    BY <1>3, <1>4, FaultedQuiet, QuietSelf
  <2> QED
    BY <1>2, <1>3, <1>4, <2>1 DEF Quiet
<1>5. CASE ~q.err
  <2> DEFINE k == 1
             u == q.s
             w == AddLinks(u, ino, k)
  <2>1. r.s = w /\ ~r.err
    BY <1>2, <1>5 DEF F, Ok
  <2>2. Named(s, u, n, ino) /\ k = 1 /\ s.dents[n] = NOBLOCK
    BY <1>3, <1>5
  <2> HIDE DEF k, u
  <2>3. Sound(w, {}, H) /\ w.dents = u.dents /\ w.vnodes[ino].dirty /\ SameData(s, w)
    BY <2>2, RelinkSound
  <2> HIDE DEF w
  <2>4. u.dents = [s.dents EXCEPT ![n] = ino]
    BY <2>2 DEF Named
  <2> QED
    BY <2>1, <2>2, <2>3, <2>4
<1> QED
  BY <1>4, <1>5

LEMMA LinkSettled ==
  ASSUME NEW s, NEW H, Sound(s, {}, H), NEW ino \in Blocks, s.vnodes[ino] # NULL,
         NEW n \in Names, NEW r \in Link(s, n, ino)
  PROVE  Settled(r, H)
<1>1. Sound(r.s, {}, H) /\ (r.err => r.v = NOBLOCK)
  BY LinkDone
<1> QED
  BY <1>1 DEF Settled

\* What sfs_creat does to names and data.
Creating(s, r, n, H) ==
  \/ r.err /\ (Sound(r.s, {}, H) => Spared(s, r.s, H))
  \/ ~r.err /\ s.dents[n] # NOBLOCK /\ r.v = s.dents[n] /\ Quiet(s, r.s)
  \/ /\ ~r.err /\ s.dents[n] = NOBLOCK /\ r.v \notin LiveIn(s)
     /\ r.s.dents = [s.dents EXCEPT ![n] = r.v] /\ SameData(s, r.s)

LEMMA CreatDone ==
  ASSUME NEW s, NEW H, Sound(s, {}, H), NEW n \in Names, NEW r \in Creat(s, n)
  PROVE  Opened(r, H) /\ Creating(s, r, n, H)
<1> DEFINE R == FindName(s, n)
           U(x, new) == Then(Decref(x, new), LAMBDA y, z : Fail(y))
           E(w, new) == Try(DirLink(w, n, new), LAMBDA x, v : Ok(AddLinks(x, new, 1), new),
                            LAMBDA x : U(x, new))
           G(u) == Then(MakeObj(u), LAMBDA w, new : E(w, new))
           F(u, ino) == IF ino # NOBLOCK THEN Fail(u) \cup LoadVnode(u, ino) ELSE G(u)
<1>1. r \in Then(R, F) /\ s \in Volumes /\ s.panic = "none"
  BY SoundType DEF Creat
<1> HIDE DEF R, F, G
<1>2. PICK q \in R : \/ ~q.err /\ r \in F(q.s, q.v)
                     \/ q.err /\ r.err /\ r.s = q.s /\ (r.v = q.v \/ r.v = NOBLOCK)
  BY <1>1 DEF Then, Try, Fail
<1>3. \/ ~q.err /\ q.s = s /\ q.v = s.dents[n]
      \/ q.err /\ q.v = NOBLOCK /\ Faulted(s, q.s) /\ Sound(q.s, {}, H)
  BY <1>2, FindNameDone DEF R
<1>4. CASE q.err
  <2>1. Sound(r.s, {}, H) /\ r.err /\ r.v = NOBLOCK /\ Spared(s, r.s, H)
    BY <1>2, <1>3, <1>4, FaultedQuiet, SparedQuiet
  <2> QED
    BY <2>1 DEF Opened, Settled, Creating
<1>5. CASE ~q.err /\ s.dents[n] # NOBLOCK
  <2> DEFINE ino == s.dents[n]
  <2>1. r \in F(s, ino) /\ ino # NOBLOCK
    BY <1>2, <1>3, <1>5
  <2>2. ino \in Blocks /\ ino \in LiveIn(s)
    BY <1>5, NamedLive
  <2> HIDE DEF ino
  <2>3. r \in Fail(s) \/ r \in LoadVnode(s, ino)
    BY <2>1, Zenon DEF F
  <2>4. CASE r \in Fail(s)
    <3>1. r.s = s /\ r.err /\ r.v = NOBLOCK
      BY <2>4 DEF Fail
    <3> QED
      BY <3>1, QuietSelf, SparedQuiet DEF Opened, Settled, Creating
  <2>5. CASE r \in LoadVnode(s, ino)
    <3>1. Taking(s, r, ino, H)
      BY <2>2, <2>5, LoadVnodeDone
    <3>2. Opened(r, H)
      BY <2>2, <3>1 DEF Taking, Loaded, Opened, Settled
    <3>3. Quiet(s, r.s) /\ (~r.err => r.v = s.dents[n])
      BY <3>1 DEF Taking, Loaded, Kin, Quiet, SameNames, ino
    <3>4. r.err \/ ~r.err
      OBVIOUS
    <3> QED
      BY <1>5, <3>2, <3>3, <3>4, SparedQuiet DEF Creating
  <2> QED
    BY <2>3, <2>4, <2>5
<1>6. CASE ~q.err /\ s.dents[n] = NOBLOCK
  <2> DEFINE S == MakeObj(s)
  <2>1. r \in F(s, NOBLOCK)
    BY <1>2, <1>3, <1>6
  <2>2. r \in G(s)
    BY <2>1, Zenon DEF F
  <2>3. r \in Then(S, E)
    BY <2>2 DEF G
  <2> HIDE DEF S, E
  <2>4. PICK p \in S : \/ ~p.err /\ r \in E(p.s, p.v)
                       \/ p.err /\ r.err /\ r.s = p.s /\ (r.v = p.v \/ r.v = NOBLOCK)
    BY <2>3 DEF Then, Try, Fail
  <2>5. Making(s, p, H)
    BY <2>4, MakeObjDone DEF S
  <2>6. CASE p.err
    <3>1. r.err /\ r.v = NOBLOCK /\ Sound(r.s, {}, H) /\ Quiet(s, r.s)
      BY <2>4, <2>5, <2>6 DEF Making, Kin, Quiet, SameNames
    <3> QED
      BY <3>1, SparedQuiet DEF Opened, Settled, Creating
  <2>7. CASE ~p.err
    <3> DEFINE w == p.s
               new == p.v
               J == Plus(H, new)
               T == DirLink(w, n, new)
               A(x) == Ok(AddLinks(x, new, 1), new)
    <3>1. /\ new \in Blocks /\ Sound(w, {}, J) /\ w.dents = s.dents /\ w.vnodes[new] # NULL
          /\ w.dents[n] = NOBLOCK /\ new \notin LiveIn(s) /\ Quiet(s, w)
      BY <1>6, <2>5, <2>7 DEF Making, Quiet, SameNames
    <3>2. r \in E(w, new) /\ new \in Numbers
      BY <2>4, <2>7, <3>1 DEF Numbers
    <3>3. H \in [Blocks -> Nat]
      BY DEF Sound, Counted
    <3>4. J[new] >= 1 /\ Minus(J, new) = H
      BY <3>1, <3>3, PlusMinus
    <3> HIDE DEF w, new, T, A, U
    <3>5. r \in Try(T, LAMBDA x, v : A(x), LAMBDA x : U(x, new))
      BY <3>2 DEF E, T, A
    <3>6. PICK o \in T : \/ ~o.err /\ r \in A(o.s)
                         \/ o.err /\ o.s.panic # "none" /\ r = o
                         \/ o.err /\ o.s.panic = "none" /\ r \in U(o.s, new)
      BY <3>5 DEF Try
    <3> HIDE DEF J
    <3>7. \/ ~o.err /\ Named(w, o.s, n, new)
          \/ o.err /\ o.v = NOBLOCK /\ (o.s = w \/ Faulted(w, o.s)) /\ Sound(o.s, {}, J)
      BY <3>1, <3>2, <3>6, DirLinkOut DEF T
    <3>8. CASE ~o.err
      <4> DEFINE k == 1
                 u == o.s
                 z == AddLinks(u, new, k)
      <4>1. r.s = z /\ ~r.err /\ r.v = new
        BY <3>6, <3>8 DEF A, Ok
      <4>2. Named(w, u, n, new) /\ k = 1
        BY <3>7, <3>8
      <4> HIDE DEF k, u
      <4>3. Sound(z, {}, J) /\ z.dents = u.dents /\ SameData(w, z)
        BY <3>1, <4>2, RelinkSound
      <4>4. SameData(s, z)
        BY <3>1, <4>3, SameTransitive DEF Quiet
      <4>5. z.dents = [s.dents EXCEPT ![n] = new]
        BY <3>1, <4>2, <4>3 DEF Named
      <4>6. Creating(s, r, n, H)
        BY <1>6, <3>1, <4>1, <4>4, <4>5 DEF Creating
      <4> QED
        BY <3>1, <4>1, <4>3, <4>6 DEF Opened, J
    <3>9. CASE o.err
      <4> DEFINE x == o.s
                 Q == Decref(x, new)
      <4>1. Sound(x, {}, J) /\ x.panic = "none"
        BY <3>7, <3>9, SoundType
      <4>6. Quiet(s, x)
        <5>1. Quiet(w, x)
          BY <3>1, <3>7, <3>9, FaultedQuiet, QuietSelf
        <5> QED
          BY <3>1, <5>1, QuietTransitive
      <4>2. r \in Then(Q, LAMBDA y, z : Fail(y))
        BY <3>6, <3>9, <4>1 DEF U
      <4> HIDE DEF Q, x
      <4>3. PICK y \in Q : \/ ~y.err /\ r \in Fail(y.s)
                           \/ y.err /\ r.err /\ r.s = y.s /\ (r.v = y.v \/ r.v = NOBLOCK)
        BY <4>2 DEF Then, Try, Fail
      <4>4. Settled(y, H) /\ (Sound(y.s, {}, H) => Spared(x, y.s, H))
        <5>1. x.vnodes[new] # NULL
          BY <3>1, <3>4, <4>1, HeldVnode
        <5>2. /\ Settled(y, Minus(J, new))
              /\ Sound(y.s, {}, Minus(J, new)) => SameNames(x, y.s) /\ Intact(x, y.s, Minus(J, new))
          BY <3>1, <3>4, <4>1, <4>3, <5>1, DecrefDone DEF Q
        <5> QED
          BY <3>4, <5>2 DEF Spared
      <4>5. r.s = y.s /\ r.err /\ r.v = NOBLOCK
        <5>1. CASE ~y.err
          BY <4>3, <5>1 DEF Fail
        <5>2. CASE y.err
          BY <4>3, <4>4, <5>2 DEF Settled
        <5> QED
          BY <5>1, <5>2
      <4>7. Sound(y.s, {}, H) => Spared(s, y.s, H)
        BY <4>4, <4>6, SparedAfter
      <4> QED
        BY <4>4, <4>5, <4>7 DEF Opened, Settled, Creating
    <3> QED
      BY <3>8, <3>9
  <2> QED
    BY <2>6, <2>7
<1> QED
  BY <1>3, <1>4, <1>5, <1>6

\* The reference that an operation took is given up.
LEMMA DecrefLast ==
  ASSUME NEW w, NEW H \in [Blocks -> Nat], NEW ino \in Blocks, Sound(w, {}, Plus(H, ino)),
         NEW r \in Decref(w, ino)
  PROVE  Settled(r, H) /\ (Sound(r.s, {}, H) => Spared(w, r.s, H))
<1> DEFINE J == Plus(H, ino)
<1>1. J[ino] >= 1 /\ Minus(J, ino) = H
  BY PlusMinus
<1>2. Sound(w, {}, J)
  OBVIOUS
<1> HIDE DEF J
<1>3. w.vnodes[ino] # NULL
  BY <1>1, <1>2, HeldVnode
<1>4. /\ Settled(r, Minus(J, ino))
      /\ Sound(r.s, {}, Minus(J, ino)) => SameNames(w, r.s) /\ Intact(w, r.s, Minus(J, ino))
  BY <1>1, <1>2, <1>3, DecrefDone
<1> QED
  BY <1>1, <1>4 DEF Spared

\* A name is removed, or the disk fails.
LEMMA UnlinkDone ==
  ASSUME NEW s, NEW H, Sound(s, {}, H), NEW ino \in Blocks, s.vnodes[ino] # NULL,
         NEW n \in Names, s.dents[n] = ino, NEW q \in DirUnlink(s, n)
  PROVE  LET w == AddLinks(q.s, ino, -1) IN
         \/ /\ ~q.err /\ Named(s, q.s, n, NOBLOCK) /\ Sound(w, {}, H)
            /\ w.dents = [s.dents EXCEPT ![n] = NOBLOCK] /\ SameData(s, w)
         \/ q.err /\ q.v = NOBLOCK /\ Faulted(s, q.s) /\ Sound(q.s, {}, H)
<1> DEFINE c == NOBLOCK
           k == -1
<1>1. s \in Volumes /\ c \in Numbers /\ c = NOBLOCK /\ k = -1
  BY SoundType DEF Numbers
<1>2. q \in WriteDir(s, n, c)
  BY DEF DirUnlink
<1>3. AddLinks(q.s, ino, k) = AddLinks(q.s, ino, -1)
  OBVIOUS
<1> HIDE DEF c, k
<1>4. \/ ~q.err /\ Named(s, q.s, n, c)
      \/ q.err /\ Faulted(s, q.s) /\ q.v = NOBLOCK
  BY <1>1, <1>2, WriteDirOut
<1>5. CASE q.err
  BY <1>4, <1>5, FaultyDone
<1>6. CASE ~q.err
  <2> DEFINE u == q.s
             w == AddLinks(u, ino, k)
  <2>1. Named(s, u, n, c)
    BY <1>4, <1>6
  <2> HIDE DEF u
  <2>2. Sound(w, {}, H) /\ w.dents = u.dents /\ SameData(s, w)
    BY <1>1, <2>1, RelinkSound
  <2>3. u.dents = [s.dents EXCEPT ![n] = c]
    BY <2>1 DEF Named
  <2> QED
    BY <1>1, <1>3, <1>6, <2>1, <2>2, <2>3 DEF u
<1> QED
  BY <1>5, <1>6

\* What sfs_remove does to names and data.
Removing(s, r, n, H) ==
  /\ Intact(s, r, H)
  /\ \/ SameNames(s, r)
     \/ s.dents[n] # NOBLOCK /\ r.dents = [s.dents EXCEPT ![n] = NOBLOCK]

LEMMA RemoveDone ==
  ASSUME NEW s, NEW H, Sound(s, {}, H), NEW n \in Names, NEW r \in Remove(s, n)
  PROVE  Settled(r, H) /\ (Sound(r.s, {}, H) => Removing(s, r.s, n, H))
<1> DEFINE R == Lookonce(s, n)
           M(u, ino) == Try(DirUnlink(u, n), LAMBDA w, v : Ok(AddLinks(w, ino, -1), ino),
                            LAMBDA w : Ok(w, ino))
           F(u, ino) == Then(M(u, ino), LAMBDA w, v : Decref(w, ino))
<1>1. r \in Then(R, F) /\ H \in [Blocks -> Nat]
  BY DEF Remove, Sound, Counted
<1> HIDE DEF R, F
<1>2. PICK q \in R : \/ ~q.err /\ r \in F(q.s, q.v)
                     \/ q.err /\ r.err /\ r.s = q.s /\ (r.v = q.v \/ r.v = NOBLOCK)
  BY <1>1 DEF Then, Try, Fail
<1>3. /\ Opened(q, H)
      /\ ~q.err => /\ q.v = s.dents[n] /\ q.s.dents = s.dents
                   /\ q.s.vnodes[q.v] # NULL
      /\ Quiet(s, q.s)
  BY <1>2, LookonceDone DEF R
<1>4. CASE q.err
  BY <1>2, <1>3, <1>4, IntactSame DEF Opened, Settled, Quiet, Removing
<1>5. CASE ~q.err
  <2> DEFINE u == q.s
             ino == q.v
             J == Plus(H, ino)
             N == M(u, ino)
             S == DirUnlink(u, n)
             A(w) == Ok(AddLinks(w, ino, -1), ino)
             B(w) == Ok(w, ino)
  <2>1. /\ ino \in Blocks /\ Sound(u, {}, J) /\ u.dents[n] = ino /\ u.vnodes[ino] # NULL
        /\ ino = s.dents[n] /\ u.dents = s.dents /\ SameData(s, u) /\ ino # NOBLOCK
    BY <1>3, <1>5, Indices DEF Opened, Quiet
  <2>2. r \in F(u, ino)
    BY <1>2, <1>5
  <2>3. N = Try(S, LAMBDA w, v : A(w), LAMBDA w : B(w))
    OBVIOUS
  <2> HIDE DEF u, ino, N, S, A, B
  <2>4. r \in Then(N, LAMBDA w, v : Decref(w, ino))
    BY <2>2 DEF F, N
  <2>5. PICK p \in N : \/ ~p.err /\ r \in Decref(p.s, ino)
                       \/ p.err /\ r.err /\ r.s = p.s /\ (r.v = p.v \/ r.v = NOBLOCK)
    BY <2>4 DEF Then, Try, Fail
  <2>6. PICK o \in S : \/ ~o.err /\ p \in A(o.s)
                       \/ o.err /\ o.s.panic # "none" /\ p = o
                       \/ o.err /\ o.s.panic = "none" /\ p \in B(o.s)
    BY <2>3, <2>5 DEF Try
  <2> HIDE DEF J
  <2> DEFINE w == AddLinks(o.s, ino, -1)
  <2>7. \/ /\ ~o.err /\ Sound(w, {}, J)
           /\ w.dents = [u.dents EXCEPT ![n] = NOBLOCK] /\ SameData(u, w)
        \/ o.err /\ Faulted(u, o.s) /\ Sound(o.s, {}, J)
    BY <2>1, <2>6, UnlinkDone DEF S
  <2>8. /\ ~p.err /\ Sound(p.s, {}, J) /\ SameData(u, p.s)
        /\ p.s.dents = u.dents \/ p.s.dents = [u.dents EXCEPT ![n] = NOBLOCK]
    <3>1. CASE ~o.err
      <4>1. p \in Ok(w, ino)
        BY <2>6, <3>1 DEF A
      <4> HIDE DEF w
      <4>2. p.s = w /\ ~p.err
        BY <4>1 DEF Ok
      <4> QED
        BY <2>7, <3>1, <4>2
    <3>2. CASE o.err
      <4>1. o.s.panic = "none"
        BY <2>7, <3>2, SoundType
      <4>2. p.s = o.s /\ ~p.err
        BY <2>6, <3>2, <4>1 DEF B, Ok
      <4>3. Quiet(u, o.s)
        BY <2>1, <2>7, <3>2, FaultedQuiet
      <4> QED
        BY <2>7, <3>2, <4>2, <4>3 DEF Quiet, SameNames
    <3> QED
      BY <3>1, <3>2
  <2> HIDE DEF w
  <2>9. Settled(r, H) /\ (Sound(r.s, {}, H) => Spared(p.s, r.s, H))
    BY <1>1, <2>1, <2>5, <2>8, DecrefLast DEF J
  <2>10. ASSUME Sound(r.s, {}, H)
         PROVE  Removing(s, r.s, n, H)
    <3>1. r.s.dents = p.s.dents /\ Intact(p.s, r.s, H)
      BY <2>9, <2>10 DEF Spared, SameNames
    <3>2. SameData(s, p.s)
      BY <2>1, <2>8, SameTransitive
    <3>3. Intact(s, r.s, H)
      BY <3>1, <3>2, IntactAfter
    <3> QED
      BY <2>1, <2>8, <3>1, <3>3 DEF Removing, SameNames
  <2> QED
    BY <2>9, <2>10
<1> QED
  BY <1>4, <1>5

\* When the old name stays, the new one goes again; if that fails as well, the
\* kernel stops.
LEMMA UndoDone ==
  ASSUME NEW s, NEW x, NEW H, Sound(s, {}, H), Faulted(s, x), NEW ino \in Blocks,
         x.vnodes[ino] # NULL, x.vnodes[ino].dirty, NEW n \in Names, x.dents[n] = ino,
         NEW r \in UndoRename(x, n, ino)
  PROVE  \/ /\ ~r.err /\ Sound(r.s, {}, H)
            /\ r.s.dents = [x.dents EXCEPT ![n] = NOBLOCK] /\ SameData(x, r.s)
         \/ r.err /\ r.v = NOBLOCK /\ Stopped(r.s)
<1> DEFINE S == DirUnlink(x, n)
           A(u) == Ok([u EXCEPT !.vnodes[ino].i.links = @ - 1], ino)
           B(u) == Panic(u, "Cannot recover")
<1>1. /\ Sound(x, {}, H) /\ s.faults \in Nat /\ x.faults = s.faults + 1
      /\ x \in Volumes
  <2> DEFINE X == {}
  <2>1. Sound(s, X, H)
    OBVIOUS
  <2> HIDE DEF X
  <2>2. Sound(x, X, H)
    BY <2>1, FaultedSound
  <2> QED
    BY <2>2, SoundType DEF X, Faulted
<1>2. r \in Try(S, LAMBDA u, v : A(u), LAMBDA u : B(u))
  BY DEF UndoRename
<1> HIDE DEF S, A, B
<1>3. PICK q \in S : \/ ~q.err /\ r \in A(q.s)
                     \/ q.err /\ q.s.panic # "none" /\ r = q
                     \/ q.err /\ q.s.panic = "none" /\ r \in B(q.s)
  BY <1>2 DEF Try
<1>4. \/ ~q.err /\ Named(x, q.s, n, NOBLOCK)
      \/ q.err /\ q.v = NOBLOCK /\ Faulted(x, q.s) /\ Sound(q.s, {}, H)
  BY <1>1, <1>3, UnlinkDone DEF S
<1>5. CASE ~q.err
  <2> DEFINE u == q.s
             w == [u EXCEPT !.vnodes[ino].i.links = @ - 1]
  <2>1. r.s = w /\ ~r.err
    BY <1>3, <1>5 DEF A, Ok
  <2>2. Named(x, u, n, NOBLOCK)
    BY <1>4, <1>5
  <2> HIDE DEF u
  <2>3. Sound(w, {}, H) /\ SameNames(u, w) /\ SameData(x, w)
    BY <1>1, <2>2, UndoSound
  <2>4. u.dents = [x.dents EXCEPT ![n] = NOBLOCK]
    BY <2>2 DEF Named
  <2> HIDE DEF w
  <2> QED
    BY <2>1, <2>3, <2>4 DEF SameNames
<1>6. CASE q.err
  <2>1. q.s.panic = "none" /\ q.s \in Volumes
    BY <1>4, <1>6, SoundType
  <2> DEFINE what == "Cannot recover"
             u == q.s
  <2>2. r \in Panic(u, what)
    BY <1>3, <1>6, <2>1 DEF B
  <2>3. what \in Panics
    BY DEF Panics
  <2>8. what = "Cannot recover"
    OBVIOUS
  <2>4. u.faults = s.faults + 1 + 1
    BY <1>1, <1>4, <1>6 DEF Faulted
  <2> HIDE DEF what, u
  <2>5. u \in Volumes
    BY <2>1 DEF u
  <2>6. r.err /\ r.v = NOBLOCK /\ r.s \in Volumes /\ r.s.panic = what /\ r.s.faults = u.faults
    BY <2>2, <2>3, <2>5, PanicOut
  <2>7. r.s.faults >= 2
    BY <1>1, <2>4, <2>6
  <2> QED
    BY <2>6, <2>7, <2>8 DEF Stopped
<1> QED
  BY <1>5, <1>6

\* What sfs_rename does to names and data.
Renaming(s, r, n1, n2, H) ==
  /\ Intact(s, r, H)
  /\ \/ SameNames(s, r)
     \/ /\ s.dents[n1] # NOBLOCK /\ s.dents[n2] = NOBLOCK
        /\ r.dents = [s.dents EXCEPT ![n2] = s.dents[n1], ![n1] = NOBLOCK]

LEMMA RenameDone ==
  ASSUME NEW s, NEW H, Sound(s, {}, H), NEW n1 \in Names, NEW n2 \in Names, NEW r \in Rename(s, n1, n2)
  PROVE  Settled(r, H) /\ (Sound(r.s, {}, H) => Renaming(s, r.s, n1, n2, H))
<1> DEFINE R == Lookonce(s, n1)
           N(w, ino) == Try(DirUnlink(w, n1), LAMBDA x, y : Ok(AddLinks(x, ino, -1), ino),
                            LAMBDA x : UndoRename(x, n2, ino))
           M(u, ino) == Try(Link(u, n2, ino), LAMBDA w, v : N(w, ino), LAMBDA w : Ok(w, ino))
           F(u, ino) == Then(M(u, ino), LAMBDA w, v : Decref(w, ino))
<1>1. r \in Then(R, F) /\ H \in [Blocks -> Nat]
  BY DEF Rename, Sound, Counted
<1> HIDE DEF R, F
<1>2. PICK q \in R : \/ ~q.err /\ r \in F(q.s, q.v)
                     \/ q.err /\ r.err /\ r.s = q.s /\ (r.v = q.v \/ r.v = NOBLOCK)
  BY <1>1 DEF Then, Try, Fail
<1>3. /\ Opened(q, H)
      /\ ~q.err => /\ q.v = s.dents[n1] /\ q.s.dents = s.dents
                   /\ q.s.vnodes[q.v] # NULL
      /\ Quiet(s, q.s)
  BY <1>2, LookonceDone DEF R
<1>4. CASE q.err
  BY <1>2, <1>3, <1>4, IntactSame DEF Opened, Settled, Quiet, Renaming
<1>5. CASE ~q.err
  <2> DEFINE u == q.s
             ino == q.v
             J == Plus(H, ino)
             K == M(u, ino)
             S == Link(u, n2, ino)
             A(w) == N(w, ino)
             B(w) == Ok(w, ino)
  <2>1. /\ ino \in Blocks /\ Sound(u, {}, J) /\ u.dents[n1] = ino /\ u.vnodes[ino] # NULL
        /\ ino = s.dents[n1] /\ u.dents = s.dents /\ SameData(s, u) /\ ino # NOBLOCK
    BY <1>3, <1>5, Indices DEF Opened, Quiet
  <2>2. r \in F(u, ino)
    BY <1>2, <1>5
  <2>3. K = Try(S, LAMBDA w, v : A(w), LAMBDA w : B(w))
    OBVIOUS
  <2> HIDE DEF u, ino, K, S, A, B
  <2>4. r \in Then(K, LAMBDA w, v : Decref(w, ino))
    BY <2>2 DEF F, K
  <2>5. PICK p \in K : \/ ~p.err /\ r \in Decref(p.s, ino)
                       \/ p.err /\ r.err /\ r.s = p.s /\ (r.v = p.v \/ r.v = NOBLOCK)
    BY <2>4 DEF Then, Try, Fail
  <2>6. PICK o \in S : \/ ~o.err /\ p \in A(o.s)
                       \/ o.err /\ o.s.panic # "none" /\ p = o
                       \/ o.err /\ o.s.panic = "none" /\ p \in B(o.s)
    BY <2>3, <2>5 DEF Try
  <2> HIDE DEF J, N
  <2>7. /\ Sound(o.s, {}, J)
        /\ ~o.err => /\ u.dents[n2] = NOBLOCK /\ o.s.dents = [u.dents EXCEPT ![n2] = ino]
                     /\ o.s.vnodes[ino].dirty
        /\ SameData(u, o.s) /\ (o.err => SameNames(u, o.s))
    BY <2>1, <2>6, LinkDone DEF S
  <2> DEFINE d == [u.dents EXCEPT ![n2] = ino, ![n1] = NOBLOCK]
  <2>8. \/ /\ ~p.err /\ Sound(p.s, {}, J) /\ SameData(u, p.s)
           /\ p.s.dents = u.dents \/ (u.dents[n2] = NOBLOCK /\ p.s.dents = d)
        \/ p.err /\ p.v = NOBLOCK /\ Stopped(p.s)
    <3>1. CASE o.err
      <4>1. o.s.panic = "none"
        BY <2>7, <3>1, SoundType
      <4> QED
        BY <2>6, <2>7, <3>1, <4>1 DEF B, Ok, SameNames
    <3>2. CASE ~o.err
      <4> DEFINE w == o.s
                 T == DirUnlink(w, n1)
                 C(x) == Ok(AddLinks(x, ino, -1), ino)
                 E(x) == UndoRename(x, n2, ino)
      <4>1. p \in N(w, ino)
        BY <2>6, <3>2 DEF A
      <4>2. p \in Try(T, LAMBDA x, y : C(x), LAMBDA x : E(x))
        BY <4>1 DEF N
      <4>3. Sound(w, {}, J) /\ w.vnodes[ino].dirty /\ SameData(u, w)
        BY <2>7, <3>2
      <4>4. w.dents[n1] = ino /\ w.dents[n2] = ino
        <5>1. u.dents \in [Names -> Numbers]
          BY <2>1, SoundType, VolumeType
        <5>2. n1 # n2
          BY <2>1, <2>7, <3>2, Indices
        <5> QED
          BY <2>1, <2>7, <3>2, <5>1, <5>2
      <4>5. w.vnodes[ino] # NULL
        <5>1. H[ino] \in Nat /\ J[ino] >= 1
          BY <1>1, <2>1, PlusMinus DEF J
        <5> HIDE DEF w
        <5> QED
          BY <2>1, <4>3, <5>1, HeldVnode
      <4> HIDE DEF w, T, C, E
      <4>6. PICK z \in T : \/ ~z.err /\ p \in C(z.s)
                           \/ z.err /\ z.s.panic # "none" /\ p = z
                           \/ z.err /\ z.s.panic = "none" /\ p \in E(z.s)
        BY <4>2 DEF Try
      <4>10. /\ w.dents = [u.dents EXCEPT ![n2] = ino] /\ u.dents[n2] = NOBLOCK
             /\ u.dents \in [Names -> Numbers]
        BY <2>1, <2>7, <3>2, SoundType, VolumeType DEF w
      <4> DEFINE a == AddLinks(z.s, ino, -1)
      <4>7. \/ /\ ~z.err /\ Sound(a, {}, J)
               /\ a.dents = [w.dents EXCEPT ![n1] = NOBLOCK] /\ SameData(w, a)
            \/ z.err /\ z.v = NOBLOCK /\ Faulted(w, z.s) /\ Sound(z.s, {}, J)
        BY <2>1, <4>3, <4>4, <4>5, <4>6, UnlinkDone DEF T
      <4>8. CASE ~z.err
        <5>1. p \in Ok(a, ino)
          BY <4>6, <4>8 DEF C
        <5> HIDE DEF a
        <5>2. p.s = a /\ ~p.err
          BY <5>1 DEF Ok
        <5>3. SameData(u, a)
          BY <4>3, <4>7, <4>8, SameTransitive
        <5>4. a.dents = d
          BY <4>7, <4>8, <4>10
        <5> QED
          BY <4>7, <4>8, <4>10, <5>2, <5>3, <5>4
      <4>9. CASE z.err
        <5> DEFINE x == z.s
        <5>1. Faulted(w, x) /\ x.panic = "none"
          BY <4>7, <4>9, SoundType
        <5>2. p \in UndoRename(x, n2, ino)
          BY <4>6, <4>9, <5>1 DEF E
        <5> HIDE DEF x
        <5>3. x.vnodes[ino] # NULL /\ x.vnodes[ino].dirty /\ x.dents[n2] = ino
          BY <4>3, <4>4, <4>5, <5>1 DEF Faulted
        <5>4. Quiet(w, x)
          BY <4>3, <5>1, FaultedQuiet
        <5>5. \/ /\ ~p.err /\ Sound(p.s, {}, J)
                 /\ p.s.dents = [x.dents EXCEPT ![n2] = NOBLOCK] /\ SameData(x, p.s)
              \/ p.err /\ p.v = NOBLOCK /\ Stopped(p.s)
          BY <2>1, <4>3, <5>1, <5>2, <5>3, UndoDone
        <5>6. CASE p.err
          BY <5>5, <5>6
        <5>7. CASE ~p.err
          <6>1. SameData(u, x)
            BY <4>3, <5>4, SameTransitive DEF Quiet
          <6>2. SameData(u, p.s)
            BY <5>5, <5>7, <6>1, SameTransitive
          <6>3. x.dents = w.dents
            BY <5>4 DEF Quiet, SameNames
          <6>4. p.s.dents = u.dents
            BY <4>10, <5>5, <5>7, <6>3
          <6> QED
            BY <5>5, <5>7, <6>2, <6>4
        <5> QED
          BY <5>6, <5>7
      <4> QED
        BY <4>8, <4>9
    <3> QED
      BY <3>1, <3>2
  <2>9. CASE /\ ~p.err /\ Sound(p.s, {}, J) /\ SameData(u, p.s)
             /\ p.s.dents = u.dents \/ (u.dents[n2] = NOBLOCK /\ p.s.dents = d)
    <3>1. Settled(r, H) /\ (Sound(r.s, {}, H) => Spared(p.s, r.s, H))
      BY <1>1, <2>1, <2>5, <2>9, DecrefLast DEF J
    <3>2. ASSUME Sound(r.s, {}, H)
          PROVE  Renaming(s, r.s, n1, n2, H)
      <4>1. r.s.dents = p.s.dents /\ Intact(p.s, r.s, H)
        BY <3>1, <3>2 DEF Spared, SameNames
      <4>2. SameData(s, p.s)
        BY <2>1, <2>9, SameTransitive
      <4>3. Intact(s, r.s, H)
        BY <4>1, <4>2, IntactAfter
      <4> QED
        BY <2>1, <2>9, <4>1, <4>3 DEF Renaming, SameNames
    <3> QED
      BY <3>1, <3>2
  <2>10. CASE p.err /\ p.v = NOBLOCK /\ Stopped(p.s)
    BY <2>5, <2>10, SoundType DEF Settled
  <2> QED
    BY <2>8, <2>9, <2>10
<1> QED
  BY <1>4, <1>5

-----------------------------------------------------------------------------
(* sfs_sync, and the volume unmounted and mounted.                         *)

LEMMA SyncVnodesDone ==
  ASSUME NEW s, NEW H, Sound(s, {}, H), NEW r \in SyncVnodes(s)
  PROVE  /\ Sound(r.s, {}, H) /\ Kin(s, r.s) /\ ~r.err /\ Quiet(s, r.s)
<1> DEFINE f == FALSE
           dirty == {b \in Blocks : s.vnodes[b] # NULL /\ s.vnodes[b].dirty}
           O(D, m) ==
             Ok([s EXCEPT !.faults = @ + m,
                   !.vnodes = [b \in Blocks |-> IF b \in D THEN [@[b] EXCEPT !.dirty = f] ELSE @[b]],
                   !.disk = [b \in Blocks |-> IF b \in D THEN Inode(s.vnodes[b].i) ELSE @[b]]],
                NOBLOCK)
<1>1. PICK failed \in SUBSET dirty : r \in O(dirty \ failed, Cardinality(failed))
  BY DEF SyncVnodes
<1> DEFINE D == dirty \ failed
           m == Cardinality(failed)
           g == [b \in Blocks |-> IF b \in D THEN [s.vnodes[b] EXCEPT !.dirty = f] ELSE s.vnodes[b]]
           d == [b \in Blocks |-> IF b \in D THEN Inode(s.vnodes[b].i) ELSE s.disk[b]]
           k == s.faults + m
           y == [s EXCEPT !.faults = k, !.vnodes = g, !.disk = d]
<1>2. r.s = y /\ ~r.err
  BY <1>1 DEF Ok
<1>3. s \in Volumes /\ s.faults \in Nat
  BY SoundType
<1>4. D \in SUBSET Blocks /\ \A b \in D : s.vnodes[b] # NULL
  OBVIOUS
<1>5. k \in Nat /\ k >= s.faults
  <2>1. IsFiniteSet(failed)
    <3>1. failed \subseteq Blocks
      BY <1>1
    <3> QED
      BY <3>1, Indices, FS_Subset
  <2>2. m \in Nat
    BY <2>1, FS_CardinalityType
  <2> HIDE DEF m
  <2> QED
    BY <1>3, <2>2
<1>6. f \in BOOLEAN
  OBVIOUS
<1>7. y = [s EXCEPT !.faults = k, !.vnodes = g, !.disk = d]
  OBVIOUS
<1> HIDE DEF f, D, m, k, y
<1>8. ASSUME NEW b \in D
      PROVE  LET v == [s.vnodes[b] EXCEPT !.dirty = f] IN
             /\ v \in Vnodes /\ v.i = s.vnodes[b].i /\ v.refs = s.vnodes[b].refs /\ v # NULL
             /\ s.vnodes[b].i \in Inodes
  <2> DEFINE w == s.vnodes[b]
             v == [w EXCEPT !.dirty = f]
  <2>1. w \in Vnodes /\ w.i \in Inodes
    BY <1>3, <1>4, VnodeType
  <2> HIDE DEF w
  <2>2. v = [i |-> w.i, refs |-> w.refs, dirty |-> f] /\ v \in Vnodes
    BY <1>6, <2>1, VnodeFields
  <2>3. v.i = w.i /\ v.refs = w.refs
    BY <2>2
  <2>4. v # NULL
    BY <2>2, NullAssumption
  <2> QED
    BY <2>1, <2>2, <2>3, <2>4 DEF w
<1>9. g \in [Blocks -> Vnodes \cup {NULL}] /\ d \in [Blocks -> Contents]
  <2>1. s.vnodes \in [Blocks -> Vnodes \cup {NULL}] /\ s.disk \in [Blocks -> Contents]
    BY <1>3, VolumeType
  <2>2. \A b \in D : Inode(s.vnodes[b].i) \in Contents
    BY <1>8, KindsDiffer
  <2> QED
    BY <1>8, <2>1, <2>2
<1>10. /\ \A b \in D : /\ g[b] # NULL /\ g[b].i = s.vnodes[b].i
                       /\ g[b].refs = s.vnodes[b].refs /\ d[b] = Inode(s.vnodes[b].i)
       /\ \A b \in Blocks : b \notin D => g[b] = s.vnodes[b] /\ d[b] = s.disk[b]
  <2>1. \A b \in D : g[b] = [s.vnodes[b] EXCEPT !.dirty = f] /\ d[b] = Inode(s.vnodes[b].i)
    BY <1>4
  <2>2. \A b \in Blocks : b \notin D => g[b] = s.vnodes[b] /\ d[b] = s.disk[b]
    OBVIOUS
  <2> HIDE DEF g, d
  <2> QED
    BY <1>8, <2>1, <2>2
<1> HIDE DEF g, d
<1>11. /\ y \in Volumes /\ y.map = s.map /\ y.mapdirty = s.mapdirty /\ y.diskmap = s.diskmap
       /\ y.dents = s.dents /\ y.faults = k /\ y.panic = s.panic /\ y.disk = d /\ y.vnodes = g
  BY <1>3, <1>5, <1>7, <1>9 DEF Volumes
<1>12. Synced(s, y, D)
  BY <1>4, <1>5, <1>10, <1>11 DEF Synced
<1> DEFINE X == {}
<1>13. Sound(s, X, H)
  OBVIOUS
<1> HIDE DEF X
<1>14. Unmoved(s, y, X, H) /\ Kin(s, y)
  BY <1>4, <1>12, <1>13, SyncedSound
<1>15. Quiet(s, y)
  <2>1. \A b \in Blocks, l \in Places : At(y, b, l) = At(s, b, l)
    BY <1>14 DEF Unmoved
  <2>2. SameData(s, y)
    BY <2>1, DataFrame
  <2> QED
    BY <1>11, <2>2 DEF Quiet, SameNames
<1> QED
  BY <1>2, <1>14, <1>15 DEF Unmoved, X

\* The free map is written.
LEMMA MapWritten ==
  ASSUME NEW s, NEW H, Sound(s, {}, H)
  PROVE  LET r == [s EXCEPT !.diskmap = s.map, !.mapdirty = FALSE] IN
         Sound(r, {}, H) /\ Kin(s, r) /\ ~r.mapdirty /\ Quiet(s, r)
<1> DEFINE f == FALSE
           X == {}
           r == [s EXCEPT !.diskmap = s.map, !.mapdirty = f]
<1>1. s \in Volumes /\ s.panic = "none" /\ Sound(s, X, H) /\ s.faults \in Nat
  BY SoundType
<1>2. f \in BOOLEAN /\ ~f
  OBVIOUS
<1>3. s.map \in SUBSET Numbers
  BY <1>1, VolumeType DEF Numbers
<1>4. r = [s EXCEPT !.diskmap = s.map, !.mapdirty = f]
  OBVIOUS
<1> HIDE DEF f, r, X
<1>5. /\ r \in Volumes /\ r.map = s.map /\ r.mapdirty = f /\ r.diskmap = s.map
      /\ r.dents = s.dents /\ r.faults = s.faults /\ r.panic = s.panic /\ r.disk = s.disk
      /\ r.vnodes = s.vnodes
  BY <1>1, <1>2, <1>3, <1>4 DEF Volumes
<1>6. r.faults >= s.faults
  BY <1>1, <1>5
<1>7. Sound(r, X, H)
  BY <1>1, <1>5, <1>6, Kept
<1>8. Kin(s, r)
  BY <1>1, <1>5, <1>6, KinFrame
<1>9. Quiet(s, r)
  BY <1>5, FieldsQuiet
<1> QED
  BY <1>2, <1>5, <1>7, <1>8, <1>9 DEF r, f, X

LEMMA SyncDone ==
  ASSUME NEW s, NEW H, Sound(s, {}, H), NEW r \in Sync(s)
  PROVE  Done(s, r, H) /\ Sound(r.s, {}, H) /\ (~r.err => ~r.s.mapdirty) /\ Quiet(s, r.s)
<1> DEFINE R == SyncVnodes(s)
           W(u) == Ok([u EXCEPT !.diskmap = u.map, !.mapdirty = FALSE], NOBLOCK)
           F(u) == IF u.mapdirty THEN W(u) \cup Faulty(u) ELSE Ok(u, NOBLOCK)
<1>1. r \in Then(R, LAMBDA u, v : F(u))
  BY DEF Sync
<1> HIDE DEF R, F, W
<1>2. PICK q \in R : \/ ~q.err /\ r \in F(q.s)
                     \/ q.err /\ r.err /\ r.s = q.s /\ (r.v = q.v \/ r.v = NOBLOCK)
  BY <1>1 DEF Then, Try, Fail
<1> DEFINE u == q.s
<1>3. Sound(u, {}, H) /\ Kin(s, u) /\ ~q.err /\ Quiet(s, u)
  BY <1>2, SyncVnodesDone DEF R
<1>4. r \in F(u)
  BY <1>2, <1>3
<1> HIDE DEF u
<1>5. CASE r \in Faulty(u)
  <2>1. u \in Volumes
    BY <1>3, SoundType
  <2>2. Faulted(u, r.s) /\ r.err /\ r.v = NOBLOCK
    BY <1>5, <2>1, FaultyOut
  <2>3. Done(u, r, H) /\ Sound(r.s, {}, H)
    BY <1>3, <2>2, FaultyDone
  <2>4. Quiet(u, r.s)
    BY <1>3, <2>2, FaultedQuiet
  <2>5. Quiet(s, r.s)
    BY <1>3, <2>4, QuietTransitive
  <2> QED
    BY <1>3, <2>2, <2>3, <2>5, DoneAfter
<1>6. CASE ~u.mapdirty
  <2>1. r \in Ok(u, NOBLOCK)
    BY <1>4, <1>6, Zenon DEF F
  <2>2. r.s = u /\ ~r.err
    BY <2>1 DEF Ok
  <2> QED
    BY <1>3, <1>6, <2>2 DEF Done, Settled
<1>7. CASE u.mapdirty /\ r \in W(u)
  <2> DEFINE w == [u EXCEPT !.diskmap = u.map, !.mapdirty = FALSE]
  <2>1. r.s = w /\ ~r.err
    BY <1>7 DEF W, Ok
  <2>2. Sound(w, {}, H) /\ Kin(u, w) /\ ~w.mapdirty /\ Quiet(u, w)
    BY <1>3, MapWritten
  <2> HIDE DEF w
  <2>3. Kin(s, w)
    BY <1>3, <2>2, KinTransitive
  <2>4. Quiet(s, w)
    BY <1>3, <2>2, QuietTransitive
  <2> QED
    BY <2>1, <2>2, <2>3, <2>4 DEF Done, Settled
<1>8. r \in W(u) \cup Faulty(u) \/ ~u.mapdirty
  BY <1>4, Zenon DEF F
<1> QED
  BY <1>5, <1>6, <1>7, <1>8

\* Whether an error was returned is a Boolean.
LEMMA OkOut ==
  ASSUME NEW s, NEW v, NEW r \in Ok(s, v)
  PROVE  r.s = s /\ r.v = v /\ r.err = FALSE /\ r.err \in BOOLEAN
<1> DEFINE f == FALSE
<1>1. r = [s |-> s, err |-> f, v |-> v] /\ f \in BOOLEAN
  BY DEF Ok
<1> HIDE DEF f
<1>2. r.err = f /\ r.s = s /\ r.v = v
  BY <1>1
<1> QED
  BY <1>1, <1>2 DEF f

LEMMA FailOut ==
  ASSUME NEW s, NEW r \in Fail(s)
  PROVE  r.s = s /\ r.v = NOBLOCK /\ r.err = TRUE /\ r.err \in BOOLEAN
<1> DEFINE t == TRUE
<1>1. r = [s |-> s, err |-> t, v |-> NOBLOCK] /\ t \in BOOLEAN
  BY DEF Fail
<1> HIDE DEF t
<1>2. r.err = t /\ r.s = s /\ r.v = NOBLOCK
  BY <1>1
<1> QED
  BY <1>1, <1>2 DEF t

LEMMA FaultyErr == ASSUME NEW s, NEW r \in Faulty(s) PROVE r.err \in BOOLEAN
<1>1. r \in Fail([s EXCEPT !.faults = @ + 1])
  BY DEF Faulty
<1> QED
  BY <1>1, FailOut

LEMMA ReadErr == ASSUME NEW s, NEW r \in ReadBlock(s) PROVE r.err \in BOOLEAN
<1>1. r \in Ok(s, NOBLOCK) \/ r \in Faulty(s)
  BY DEF ReadBlock
<1> QED
  BY <1>1, OkOut, FaultyErr

LEMMA SyncErr == ASSUME NEW s, NEW r \in Sync(s) PROVE r.err \in BOOLEAN
<1> DEFINE R == SyncVnodes(s)
           W(u) == Ok([u EXCEPT !.diskmap = u.map, !.mapdirty = FALSE], NOBLOCK)
           F(u) == IF u.mapdirty THEN W(u) \cup Faulty(u) ELSE Ok(u, NOBLOCK)
<1>1. r \in Then(R, LAMBDA u, v : F(u))
  BY DEF Sync
<1>2. ASSUME NEW q \in R PROVE ~q.err
  <2>1. PICK u : q \in Ok(u, NOBLOCK)
    BY DEF SyncVnodes
  <2> QED
    BY <2>1, OkOut
<1> HIDE DEF R, F, W
<1>3. PICK q \in R : ~q.err /\ r \in F(q.s)
  BY <1>1, <1>2 DEF Then, Try
<1>4. r \in W(q.s) \/ r \in Faulty(q.s) \/ r \in Ok(q.s, NOBLOCK)
  BY <1>3, Zenon DEF F
<1>5. r \in W(q.s) => r.err \in BOOLEAN
  BY OkOut DEF W
<1> QED
  BY <1>4, <1>5, OkOut, FaultyErr

LEMMA UnmountDone ==
  ASSUME NEW s, NEW H, Sound(s, {}, H), NEW r \in Unmount(s)
  PROVE  /\ r.err \in BOOLEAN
         /\ r.err => Sound(r.s, {}, H)
         /\ ~r.err => Unmounted(r.s, H)
         /\ Quiet(s, r.s)
<1> DEFINE R == Sync(s)
           E(u) == [u EXCEPT !.map = {}]
           F(u) == IF \E b \in Blocks : u.vnodes[b] # NULL THEN Fail(u)
                   ELSE IF u.mapdirty THEN Panic(u, "sfs_fsops.c:291")
                   ELSE Ok(E(u), NOBLOCK)
<1>1. r \in Then(R, LAMBDA u, v : F(u))
  BY DEF Unmount
<1> HIDE DEF R, F, E
<1>2. PICK q \in R : \/ ~q.err /\ r \in F(q.s)
                     \/ q.err /\ r.err = TRUE /\ r.s = q.s
  <2>1. PICK q \in R : \/ ~q.err /\ r \in F(q.s)
                       \/ q.err /\ (r = q \/ r \in Fail(q.s))
    BY <1>1 DEF Then, Try
  <2>2. q.err \in BOOLEAN
    <3>1. q \in Sync(s)
      BY <2>1 DEF R
    <3> QED
      BY <3>1, SyncErr
  <2>3. q.err => q.err = TRUE
    BY <2>2, Zenon
  <2> QED
    BY <2>1, <2>3 DEF Fail
<1>3. Sound(q.s, {}, H) /\ (~q.err => ~q.s.mapdirty) /\ Quiet(s, q.s)
  BY <1>2, SyncDone DEF R
<1>4. CASE q.err
  BY <1>2, <1>3, <1>4
<1>5. CASE ~q.err
  <2> DEFINE u == q.s
  <2>1. r \in F(u) /\ Sound(u, {}, H) /\ ~u.mapdirty /\ Quiet(s, u)
    BY <1>2, <1>3, <1>5
  <2> HIDE DEF u
  <2>2. CASE \E b \in Blocks : u.vnodes[b] # NULL
    <3>1. r \in Fail(u)
      BY <2>1, <2>2, Zenon DEF F
    <3>2. r.s = u /\ r.err = TRUE /\ r.err \in BOOLEAN
      BY <3>1, FailOut
    <3> QED
      BY <2>1, <3>2
  <2>3. CASE \A b \in Blocks : u.vnodes[b] = NULL
    <3> DEFINE w == E(u)
    <3>1. r \in Ok(w, NOBLOCK)
      BY <2>1, <2>3, Zenon DEF F
    <3> HIDE DEF w
    <3>2. r.s = w /\ ~r.err /\ r.err \in BOOLEAN
      BY <3>1, OkOut
    <3>3. u \in Volumes /\ u.panic = "none" /\ u.diskmap = u.map
      BY <2>1, SoundType DEF Laid
    <3>4. /\ w \in Volumes /\ w.panic = u.panic /\ w.mapdirty = u.mapdirty /\ w.vnodes = u.vnodes
      BY <3>3 DEF w, E, Volumes
    <3>5. AsMounted(w) = u
      BY <3>3 DEF AsMounted, w, E, Volumes
    <3>6. Quiet(u, w)
      <4>1. w.vnodes = u.vnodes /\ w.dents = u.dents /\ w.disk = u.disk
        BY <3>3 DEF w, E, Volumes
      <4> QED
        BY <4>1, FieldsQuiet
    <3>7. Quiet(s, w)
      BY <2>1, <3>6, QuietTransitive
    <3> QED
      BY <2>1, <2>3, <3>2, <3>3, <3>4, <3>5, <3>7 DEF Unmounted
  <2> QED
    BY <2>2, <2>3
<1> QED
  BY <1>4, <1>5

LEMMA MountDone ==
  ASSUME NEW s, NEW H, Unmounted(s, H), NEW r \in Mount(s)
  PROVE  /\ r.err \in BOOLEAN
         /\ r.err => Unmounted(r.s, H)
         /\ ~r.err => Sound(r.s, {}, H)
         /\ Quiet(s, r.s)
<1> DEFINE R == ReadBlock(s)
           F(u) == Ok(AsMounted(u), NOBLOCK)
<1>1. r \in Then(R, LAMBDA u, v : F(u))
  BY DEF Mount, AsMounted
<1>2. s \in Volumes /\ s.panic = "none"
  BY DEF Unmounted
<1> HIDE DEF R, F
<1>3. PICK q \in R : \/ ~q.err /\ r \in F(q.s)
                     \/ q.err /\ (r = q \/ r \in Fail(q.s))
  BY <1>1 DEF Then, Try
<1>4. \/ q.s = s /\ ~q.err
      \/ Faulted(s, q.s) /\ q.err /\ q.v = NOBLOCK
  BY <1>2, <1>3, ReadOut DEF R
<1>5. CASE q.s = s /\ ~q.err
  <2>1. r \in F(s)
    BY <1>3, <1>5
  <2>2. r.s = AsMounted(s) /\ r.err = FALSE
    BY <2>1 DEF F, Ok
  <2> DEFINE u == AsMounted(s)
  <2>3. Quiet(s, u)
    <3>1. u.vnodes = s.vnodes /\ u.dents = s.dents /\ u.disk = s.disk
      BY <1>2 DEF AsMounted, Volumes
    <3> HIDE DEF u
    <3> QED
      BY <3>1, FieldsQuiet
  <2> HIDE DEF u
  <2> QED
    BY <2>2, <2>3 DEF Unmounted, u
<1>6. CASE Faulted(s, q.s) /\ q.err
  <2> DEFINE u == q.s
  <2>1. r.s = u /\ r.err = TRUE
    <3>1. q.err \in BOOLEAN
      BY <1>3, ReadErr DEF R
    <3>2. q.err = TRUE
      BY <1>6, <3>1, Zenon
    <3> QED
      BY <1>3, <1>6, <3>2 DEF Fail
  <2>2. Faulted(s, u)
    BY <1>6
  <2> HIDE DEF u
  <2> DEFINE v == AsMounted(s)
             w == AsMounted(u)
             X == {}
  <2>3. Sound(v, X, H)
    BY DEF Unmounted
  <2>4. u \in Volumes
    BY <2>2 DEF Faulted
  <2>5. /\ v.mapdirty = s.mapdirty /\ v.diskmap = s.diskmap /\ v.dents = s.dents /\ v.map = s.diskmap
        /\ v.disk = s.disk /\ v.panic = s.panic /\ v.vnodes = s.vnodes /\ v.faults = s.faults
    BY <1>2 DEF AsMounted, Volumes
  <2>6. /\ w.mapdirty = u.mapdirty /\ w.diskmap = u.diskmap /\ w.dents = u.dents /\ w.map = u.diskmap
        /\ w.disk = u.disk /\ w.panic = u.panic /\ w.vnodes = u.vnodes /\ w.faults = u.faults
    BY <2>4 DEF AsMounted, Volumes
  <2>7. w \in Volumes
    <3>1. s.diskmap \in SUBSET Blocks
      <4>1. v.map \in SUBSET Blocks
        BY <2>3, SoundType, VolumeType
      <4> QED
        BY <2>5, <4>1
    <3>2. u.diskmap \in SUBSET Blocks
      BY <2>2, <3>1 DEF Faulted
    <3> QED
      BY <2>4, <3>2 DEF AsMounted, Volumes
  <2> HIDE DEF v, w, X
  <2>8. Faulted(v, w)
    BY <2>2, <2>5, <2>6, <2>7 DEF Faulted
  <2>9. Sound(w, X, H)
    BY <2>3, <2>8, FaultedSound
  <2>10. Quiet(s, u)
    <3>1. u.vnodes = s.vnodes /\ u.dents = s.dents /\ u.disk = s.disk
      BY <2>2 DEF Faulted
    <3> QED
      BY <3>1, FieldsQuiet
  <2> QED
    BY <1>2, <2>1, <2>2, <2>4, <2>9, <2>10 DEF Unmounted, Faulted, w, X, u
<1> QED
  BY <1>4, <1>5, <1>6

-----------------------------------------------------------------------------
(* The threads and the references they hold.                               *)

LEMMA HeldTaken ==
  ASSUME NEW o \in [Threads -> Numbers], Finite(o), NEW t \in Threads, o[t] = NOBLOCK, NEW b \in Blocks
  PROVE  LET p == [o EXCEPT ![t] = b] IN
         p \in [Threads -> Numbers] /\ Finite(p) /\ HeldOf(p) = Plus(HeldOf(o), b)
<1> DEFINE p == [o EXCEPT ![t] = b]
<1>1. p \in [Threads -> Numbers] /\ NOBLOCK \notin Blocks
  BY Indices DEF Numbers
<1>2. /\ Holders(p, b) = Holders(o, b) \cup {t} /\ t \notin Holders(o, b)
      /\ \A c \in Blocks : c # b => Holders(p, c) = Holders(o, c)
  BY <1>1 DEF Holders
<1> HIDE DEF p
<1>3. /\ IsFiniteSet(Holders(p, b))
      /\ Cardinality(Holders(p, b)) = Cardinality(Holders(o, b)) + 1
  BY <1>2, FS_AddElement DEF Finite
<1>4. Finite(p)
  BY <1>2, <1>3 DEF Finite
<1>5. HeldOf(p) = Plus(HeldOf(o), b)
  <2>1. \A c \in Blocks : Cardinality(Holders(p, c)) =
          IF c = b THEN Cardinality(Holders(o, b)) + 1 ELSE Cardinality(Holders(o, c))
    BY <1>2, <1>3
  <2> QED
    BY <2>1 DEF HeldOf, Plus
<1> QED
  BY <1>1, <1>4, <1>5 DEF p

LEMMA HeldGiven ==
  ASSUME NEW o \in [Threads -> Numbers], Finite(o), NEW t \in Threads, o[t] \in Blocks
  PROVE  LET p == [o EXCEPT ![t] = NOBLOCK] IN
         /\ p \in [Threads -> Numbers] /\ Finite(p) /\ HeldOf(p) = Minus(HeldOf(o), o[t])
         /\ HeldOf(o)[o[t]] >= 1
<1> DEFINE p == [o EXCEPT ![t] = NOBLOCK]
           b == o[t]
<1>1. p \in [Threads -> Numbers] /\ NOBLOCK \notin Blocks
  BY Indices DEF Numbers
<1>2. /\ Holders(p, b) = Holders(o, b) \ {t} /\ t \in Holders(o, b)
      /\ \A c \in Blocks : c # b => Holders(p, c) = Holders(o, c)
  BY <1>1 DEF Holders
<1>3. b \in Blocks
  OBVIOUS
<1> HIDE DEF p, b
<1>4. /\ IsFiniteSet(Holders(p, b)) /\ Cardinality(Holders(o, b)) \in Nat
      /\ Cardinality(Holders(p, b)) = Cardinality(Holders(o, b)) - 1
      /\ Cardinality(Holders(p, b)) \in Nat
  <2>1. IsFiniteSet(Holders(o, b))
    BY <1>3 DEF Finite
  <2>2. /\ IsFiniteSet(Holders(p, b))
        /\ Cardinality(Holders(p, b)) = Cardinality(Holders(o, b)) - 1
    BY <1>2, <2>1, FS_RemoveElement
  <2> QED
    BY <2>1, <2>2, FS_CardinalityType
<1>5. Finite(p)
  BY <1>2, <1>4 DEF Finite
<1>6. HeldOf(p) = Minus(HeldOf(o), b)
  <2>1. \A c \in Blocks : Cardinality(Holders(p, c)) =
          IF c = b THEN Cardinality(Holders(o, b)) - 1 ELSE Cardinality(Holders(o, c))
    BY <1>2, <1>4
  <2> QED
    BY <1>3, <2>1 DEF HeldOf, Minus
<1>7. HeldOf(o)[b] >= 1
  BY <1>3, <1>4 DEF HeldOf
<1> QED
  BY <1>1, <1>5, <1>6, <1>7 DEF p, b

\* A file that a thread has open is in memory, on a mounted volume.
LEMMA OpenInMemory ==
  ASSUME SfsInv, sfs.panic = "none", NEW t \in Threads, open[t] # NOBLOCK
  PROVE  /\ mounted /\ open[t] \in Blocks /\ sfs.vnodes[open[t]] # NULL
         /\ Sound(sfs, {}, Held) /\ Held[open[t]] >= 1
<1>1. open \in [Threads -> Numbers] /\ Finite(open) /\ mounted \in BOOLEAN
  BY DEF SfsInv, TypeOK
<1>2. open[t] \in Blocks
  BY <1>1 DEF Numbers
<1>3. Held[open[t]] >= 1
  BY <1>1, <1>2, HeldGiven DEF Held
<1>4. mounted
  <2> SUFFICES ASSUME ~mounted PROVE FALSE
    OBVIOUS
  <2> DEFINE s == AsMounted(sfs)
             H == Held
             b == open[t]
  <2>1. Unmounted(sfs, Held)
    BY DEF SfsInv
  <2>2. Sound(s, {}, H) /\ sfs.vnodes[b] = NULL /\ sfs \in Volumes
    BY <1>2, <2>1 DEF Unmounted
  <2>3. s.vnodes = sfs.vnodes
    BY <2>2 DEF AsMounted, Volumes
  <2>4. b \in Blocks /\ H[b] >= 1
    BY <1>2, <1>3
  <2> HIDE DEF s, H, b
  <2>5. s.vnodes[b] # NULL
    BY <2>2, <2>4, HeldVnode
  <2> QED
    BY <2>2, <2>3, <2>5
<1>5. Sound(sfs, {}, Held)
  BY <1>4 DEF SfsInv
<1> DEFINE H == Held
           b == open[t]
<1>6. Sound(sfs, {}, H) /\ b \in Blocks /\ H[b] >= 1
  BY <1>2, <1>3, <1>5
<1> HIDE DEF H, b
<1>7. sfs.vnodes[b] # NULL
  BY <1>6, HeldVnode
<1> QED
  BY <1>2, <1>3, <1>4, <1>5, <1>7 DEF b

-----------------------------------------------------------------------------
(* The invariant is inductive.                                             *)

LEMMA InitInv == Init => SfsInv
<1> SUFFICES ASSUME Init PROVE SfsInv
  OBVIOUS
<1> DEFINE f == FALSE
           none == "none"
           nodes == [b \in Blocks |-> NULL]
           names == [n \in Names |-> NOBLOCK]
           zeros == [b \in Blocks |-> Zeros]
<1>1. f \in BOOLEAN /\ none \in Panics /\ ~f
  BY DEF Panics
<1>2. nodes \in [Blocks -> Vnodes \cup {NULL}] /\ names \in [Names -> Numbers] /\ zeros \in [Blocks -> Contents]
  BY KindsDiffer DEF Numbers
<1>3. sfs = [map |-> {}, mapdirty |-> f, vnodes |-> nodes, diskmap |-> {}, dents |-> names,
             disk |-> zeros, faults |-> 0, panic |-> none]
  BY DEF Init
<1>4. /\ \A b \in Blocks : nodes[b] = NULL
      /\ \A n \in Names : names[n] \notin Blocks
  BY Indices
<1>5. none = "none"
  OBVIOUS
<1> HIDE DEF f, none, nodes, names, zeros
<1>6. /\ sfs \in Volumes /\ sfs.map = {} /\ ~sfs.mapdirty /\ sfs.vnodes = nodes /\ sfs.diskmap = {}
      /\ sfs.dents = names /\ sfs.faults = 0 /\ sfs.panic = "none"
  BY <1>1, <1>2, <1>3, <1>5 DEF Volumes
<1>7. LiveIn(sfs) = {}
  BY <1>4, <1>6 DEF LiveIn
<1>8. \A b \in Blocks, k \in Places : At(sfs, b, k) = NOBLOCK
  BY <1>7 DEF At
<1>9. UsedIn(sfs) = {}
  BY <1>7, <1>8, Indices DEF UsedIn
<1>10. Laid(sfs, {})
  <2>1. Apart(sfs)
    BY <1>7, <1>8 DEF Apart
  <2>2. Marked(sfs, {})
    <3>1. Lost(sfs, {}) = {}
      BY <1>6 DEF Lost
    <3> QED
      BY <1>6, <1>9, <3>1, FS_EmptySet DEF Marked
  <2>3. OnDisk(sfs)
    BY <1>7 DEF OnDisk
  <2> QED
    BY <1>6, <2>1, <2>2, <2>3 DEF Laid
<1>11. Linked(sfs)
  BY <1>7 DEF Linked
<1>12. \A b \in Blocks : Holders(open, b) = {}
  BY Indices DEF Init, Holders
<1>13. Finite(open) /\ Held \in [Blocks -> Nat] /\ \A b \in Blocks : Held[b] = 0
  BY <1>12, FS_EmptySet DEF Finite, Held, HeldOf
<1>14. Counted(sfs, Held)
  <2>1. Stray(sfs, Held) = {}
    BY <1>4, <1>6 DEF Stray
  <2> QED
    BY <1>4, <1>6, <1>13, <2>1, FS_EmptySet DEF Counted
<1>15. TypeOK
  BY <1>6 DEF TypeOK, Init, Numbers
<1>16. mounted /\ \A t \in Threads : pc[t] # "reclaim"
  BY DEF Init
<1> QED
  BY <1>6, <1>10, <1>11, <1>13, <1>14, <1>15, <1>16 DEF SfsInv, Sound

\* An operation leaves the volume sound, or stops the kernel.
LEMMA NextVolume ==
  ASSUME SfsInv, mounted' = TRUE, Sound(sfs', {}, Held') \/ Stopped(sfs'),
         open' \in [Threads -> Numbers], Finite(open'),
         pc' \in [Threads -> {"idle", "reclaim"}],
         \A t \in Threads : pc'[t] = "reclaim" => open'[t] # NOBLOCK
  PROVE  SfsInv'
<1>1. sfs' \in Volumes
  BY SoundType DEF Stopped
<1>2. sfs'.panic = "none" => Sound(sfs', {}, Held')
  BY DEF Stopped
<1>3. sfs'.panic # "none" => Stopped(sfs')
  BY SoundType
<1>4. TypeOK'
  BY <1>1 DEF TypeOK
<1> QED
  BY <1>2, <1>3, <1>4 DEF SfsInv

LEMMA CallKeeps ==
  ASSUME SfsInv, mounted, NEW r, Settled(r, Held), sfs' = r.s, UNCHANGED <<mounted, open, pc>>
  PROVE  SfsInv'
<1>1. Held' = Held
  BY DEF Held
<1>2. Sound(sfs', {}, Held') \/ Stopped(sfs')
  BY <1>1 DEF Settled
<1>3. mounted' = TRUE
  <2>1. mounted \in BOOLEAN
    BY DEF SfsInv, TypeOK
  <2> QED
    BY <2>1, Zenon
<1>4. /\ open' \in [Threads -> Numbers] /\ Finite(open')
      /\ pc' \in [Threads -> {"idle", "reclaim"}]
      /\ \A t \in Threads : pc'[t] = "reclaim" => open'[t] # NOBLOCK
  BY DEF SfsInv, TypeOK
<1> QED
  BY <1>2, <1>3, <1>4, NextVolume

LEMMA SettledOpen ==
  ASSUME SfsInv, sfs.panic = "none", NEW t \in Threads, Idle(t), mounted, open[t] = NOBLOCK,
         NEW r, Opened(r, Held), sfs' = r.s, open' = [open EXCEPT ![t] = r.v],
         UNCHANGED <<mounted, pc>>
  PROVE  SfsInv'
<1>1. /\ open \in [Threads -> Numbers] /\ Finite(open) /\ pc \in [Threads -> {"idle", "reclaim"}]
      /\ mounted \in BOOLEAN /\ pc[t] # "reclaim"
  BY DEF SfsInv, TypeOK, Idle
<1>2. mounted' = TRUE
  BY <1>1, Zenon
<1>3. CASE r.err
  <2>1. r.v = NOBLOCK /\ Settled(r, Held)
    BY <1>3 DEF Opened, Settled
  <2>2. open' = open
    BY <1>1, <2>1
  <2> QED
    BY <2>1, <2>2, CallKeeps
<1>4. CASE ~r.err
  <2> DEFINE b == r.v
  <2>1. b \in Blocks /\ Sound(r.s, {}, Plus(Held, b))
    BY <1>4 DEF Opened
  <2>2. open' = [open EXCEPT ![t] = b]
    OBVIOUS
  <2> HIDE DEF b
  <2>3. open' \in [Threads -> Numbers] /\ Finite(open') /\ HeldOf(open') = Plus(HeldOf(open), b)
    <3> DEFINE o == open
               p == [o EXCEPT ![t] = b]
    <3>1. o \in [Threads -> Numbers] /\ Finite(o) /\ o[t] = NOBLOCK
      BY <1>1
    <3>2. open' = p
      BY <2>2
    <3> HIDE DEF o
    <3>3. p \in [Threads -> Numbers] /\ Finite(p) /\ HeldOf(p) = Plus(HeldOf(o), b)
      BY <2>1, <3>1, HeldTaken
    <3> QED
      BY <3>2, <3>3 DEF o
  <2>4. Sound(sfs', {}, Held')
    BY <2>1, <2>3 DEF Held
  <2>5. \A d \in Threads : pc'[d] = "reclaim" => open'[d] # NOBLOCK
    BY <1>1, <2>2 DEF SfsInv
  <2> QED
    BY <1>1, <1>2, <2>3, <2>4, <2>5, NextVolume
<1> QED
  BY <1>3, <1>4

LEMMA CloseKeeps ==
  ASSUME SfsInv, sfs.panic = "none", NEW t \in Threads, Close(t)
  PROVE  SfsInv'
<1> DEFINE b == open[t]
<1>1. /\ open \in [Threads -> Numbers] /\ Finite(open) /\ pc \in [Threads -> {"idle", "reclaim"}]
      /\ mounted \in BOOLEAN /\ pc[t] # "reclaim" /\ b # NOBLOCK /\ mounted' = mounted
  BY DEF SfsInv, TypeOK, Close, Idle
<1>2. /\ mounted /\ b \in Blocks /\ sfs.vnodes[b] # NULL
      /\ Sound(sfs, {}, Held) /\ Held[b] >= 1
  BY <1>1, OpenInMemory
<1>3. mounted' = TRUE
  BY <1>1, <1>2, Zenon
<1>4. CASE sfs.vnodes[b].refs > 1
  <2>1. /\ sfs' = [sfs EXCEPT !.vnodes[b].refs = @ - 1]
        /\ open' = [open EXCEPT ![t] = NOBLOCK] /\ pc' = pc
    BY <1>4 DEF Close
  <2>2. open' \in [Threads -> Numbers] /\ Finite(open') /\ HeldOf(open') = Minus(HeldOf(open), b)
    BY <1>1, <1>2, <2>1, HeldGiven
  <2>3. sfs.vnodes[b].refs # 1
    BY <1>4
  <2> DEFINE H == Held
  <2>4. Sound(sfs, {}, H) /\ H[b] >= 1
    BY <1>2
  <2> HIDE DEF b, H
  <2>5. Sound(sfs', {}, Minus(H, b))
    BY <1>2, <2>1, <2>3, <2>4, DropReference
  <2>6. Sound(sfs', {}, Held')
    BY <2>2, <2>5 DEF Held, H
  <2>7. \A d \in Threads : pc'[d] = "reclaim" => open'[d] # NOBLOCK
    BY <1>1, <2>1 DEF SfsInv
  <2> QED
    BY <1>1, <1>3, <2>1, <2>2, <2>6, <2>7, NextVolume
<1>5. CASE ~(sfs.vnodes[b].refs > 1)
  <2>1. pc' = [pc EXCEPT ![t] = "reclaim"] /\ sfs' = sfs /\ open' = open
    BY <1>5 DEF Close
  <2>2. pc' \in [Threads -> {"idle", "reclaim"}]
    BY <1>1, <2>1
  <2>3. \A d \in Threads : pc'[d] = "reclaim" => open'[d] # NOBLOCK
    BY <1>1, <2>1 DEF SfsInv
  <2>4. Sound(sfs', {}, Held')
    BY <1>2, <2>1 DEF Held
  <2> QED
    BY <1>1, <1>3, <2>1, <2>2, <2>3, <2>4, NextVolume
<1> QED
  BY <1>4, <1>5

LEMMA CallReclaimKeeps ==
  ASSUME SfsInv, sfs.panic = "none", NEW t \in Threads, CallReclaim(t)
  PROVE  SfsInv'
<1> DEFINE b == open[t]
<1>1. /\ open \in [Threads -> Numbers] /\ Finite(open) /\ pc \in [Threads -> {"idle", "reclaim"}]
      /\ mounted \in BOOLEAN /\ b # NOBLOCK /\ mounted' = mounted
      /\ open' = [open EXCEPT ![t] = NOBLOCK] /\ pc' = [pc EXCEPT ![t] = "idle"]
  BY DEF SfsInv, TypeOK, CallReclaim
<1>2. /\ mounted /\ b \in Blocks /\ sfs.vnodes[b] # NULL
      /\ Sound(sfs, {}, Held) /\ Held[b] >= 1
  BY <1>1, OpenInMemory
<1>3. mounted' = TRUE
  BY <1>1, <1>2, Zenon
<1>4. PICK r \in Reclaim(sfs, b) : sfs' = r.s
  BY DEF CallReclaim
<1>5. open' \in [Threads -> Numbers] /\ Finite(open') /\ HeldOf(open') = Minus(HeldOf(open), b)
  BY <1>1, <1>2, HeldGiven
<1>6. pc' \in [Threads -> {"idle", "reclaim"}]
  BY <1>1
<1>7. \A d \in Threads : pc'[d] = "reclaim" => open'[d] # NOBLOCK
  BY <1>1 DEF SfsInv
<1> DEFINE H == Held
<1>8. Sound(sfs, {}, H) /\ H[b] >= 1
  BY <1>2
<1> HIDE DEF b, H
<1>9. Settled(r, Minus(H, b))
  BY <1>2, <1>4, <1>8, ReclaimDone
<1>10. Sound(sfs', {}, Held') \/ Stopped(sfs')
  BY <1>4, <1>5, <1>9 DEF Held, H, Settled
<1> QED
  BY <1>3, <1>5, <1>6, <1>7, <1>10, NextVolume

LEMMA UnmountKeeps ==
  ASSUME SfsInv, sfs.panic = "none", DoUnmount
  PROVE  SfsInv'
<1>1. PICK r \in Unmount(sfs) : sfs' = r.s /\ mounted' = r.err
  BY DEF DoUnmount
<1> DEFINE H == Held
<1>2. Sound(sfs, {}, H)
  BY DEF SfsInv, DoUnmount
<1>3. H = Held' /\ open' = open /\ pc' = pc
  BY DEF DoUnmount, Held
<1> HIDE DEF H
<1>4. /\ r.err \in BOOLEAN
      /\ r.err => Sound(r.s, {}, H)
      /\ ~r.err => Unmounted(r.s, H)
  BY <1>1, <1>2, UnmountDone
<1>5. sfs'.panic = "none" /\ sfs' \in Volumes
  BY <1>1, <1>4, SoundType DEF Unmounted
<1>6. mounted' \in BOOLEAN
  BY <1>1, <1>4
<1>7. mounted' => Sound(sfs', {}, Held')
  BY <1>1, <1>3, <1>4
<1>8. ~mounted' => Unmounted(sfs', Held')
  BY <1>1, <1>3, <1>4
<1>9. TypeOK'
  BY <1>3, <1>5, <1>6 DEF SfsInv, TypeOK
<1>10. Finite(open') /\ \A t \in Threads : pc'[t] = "reclaim" => open'[t] # NOBLOCK
  BY <1>3 DEF SfsInv
<1> QED
  BY <1>5, <1>7, <1>8, <1>9, <1>10 DEF SfsInv

LEMMA MountKeeps ==
  ASSUME SfsInv, sfs.panic = "none", DoMount
  PROVE  SfsInv'
<1>1. PICK r \in Mount(sfs) : sfs' = r.s /\ mounted' = ~r.err
  BY DEF DoMount
<1> DEFINE H == Held
<1>2. Unmounted(sfs, H)
  BY DEF SfsInv, DoMount
<1>3. H = Held' /\ open' = open /\ pc' = pc
  BY DEF DoMount, Held
<1> HIDE DEF H
<1>4. /\ r.err \in BOOLEAN
      /\ r.err => Unmounted(r.s, H)
      /\ ~r.err => Sound(r.s, {}, H)
  BY <1>1, <1>2, MountDone
<1>5. sfs'.panic = "none" /\ sfs' \in Volumes
  BY <1>1, <1>4, SoundType DEF Unmounted
<1>6. mounted' \in BOOLEAN
  BY <1>1, <1>4
<1>7. mounted' => Sound(sfs', {}, Held')
  BY <1>1, <1>3, <1>4
<1>8. ~mounted' => Unmounted(sfs', Held')
  BY <1>1, <1>3, <1>4
<1>9. TypeOK'
  BY <1>3, <1>5, <1>6 DEF SfsInv, TypeOK
<1>10. Finite(open') /\ \A t \in Threads : pc'[t] = "reclaim" => open'[t] # NOBLOCK
  BY <1>3 DEF SfsInv
<1> QED
  BY <1>5, <1>7, <1>8, <1>9, <1>10 DEF SfsInv

LEMMA OnNamesKeeps ==
  ASSUME SfsInv, sfs.panic = "none", OnNames
  PROVE  SfsInv'
<1> DEFINE H == Held
<1>1. PICK r : sfs' = r.s /\ Settled(r, H) /\ mounted /\ UNCHANGED <<mounted, open, pc>>
  <2>1. PICK n \in Names : \/ Call(Remove(sfs, n))
                           \/ \E m \in Names : Call(Rename(sfs, n, m))
    BY DEF OnNames
  <2>2. mounted /\ UNCHANGED <<mounted, open, pc>>
    BY <2>1 DEF Call
  <2>3. Sound(sfs, {}, H)
    BY <2>2 DEF SfsInv
  <2> HIDE DEF H
  <2>4. CASE Call(Remove(sfs, n))
    <3>1. PICK r \in Remove(sfs, n) : sfs' = r.s
      BY <2>4 DEF Call
    <3>2. Settled(r, H)
      BY <2>3, <3>1, RemoveDone
    <3> QED
      BY <2>2, <3>1, <3>2
  <2>5. ASSUME NEW m \in Names, Call(Rename(sfs, n, m))
        PROVE  \E r : sfs' = r.s /\ Settled(r, H) /\ mounted /\ UNCHANGED <<mounted, open, pc>>
    <3>1. PICK r \in Rename(sfs, n, m) : sfs' = r.s
      BY <2>5 DEF Call
    <3>2. Settled(r, H)
      BY <2>3, <3>1, RenameDone
    <3> QED
      BY <2>2, <3>1, <3>2
  <2> QED
    BY <2>1, <2>4, <2>5
<1> QED
  BY <1>1, CallKeeps

LEMMA OnFileKeeps ==
  ASSUME SfsInv, sfs.panic = "none", NEW ino \in OpenFiles, OnFile(ino)
  PROVE  SfsInv'
<1> DEFINE H == Held
<1>1. PICK t \in Threads : ino = open[t] /\ open[t] # NOBLOCK
  BY DEF OpenFiles
<1>2. /\ mounted /\ ino \in Blocks /\ sfs.vnodes[ino] # NULL /\ Sound(sfs, {}, H)
  BY <1>1, OpenInMemory
<1> HIDE DEF H
<1>4. \A n \in Names : \A r \in Link(sfs, n, ino) : Settled(r, H)
  BY <1>2, LinkSettled
<1>5. \A r \in SyncInode(sfs, ino) : Settled(r, H)
  BY <1>2, SyncInodeDone DEF Done
<1>6. \A i \in FileBlocks : \A r \in Read(sfs, ino, i) : Settled(r, H)
  BY <1>2, ReadFileDone DEF Done
<1>7. \A i \in FileBlocks : \A r \in Write(sfs, ino, i) : Settled(r, H)
  BY <1>2, WriteDone DEF Done
<1>8. \A i \in FileBlocks : \A r \in Itrunc(sfs, ino, i) : Settled(r, H)
  BY <1>2, ItruncDone DEF Done
<1>9. PICK r : sfs' = r.s /\ Settled(r, H) /\ UNCHANGED <<mounted, open, pc>>
  <2>1. CASE \E n \in Names : Call(Link(sfs, n, ino))
    BY <1>4, <2>1 DEF Call
  <2>2. CASE Call(SyncInode(sfs, ino))
    BY <1>5, <2>2 DEF Call
  <2>3. CASE Call(UNION {Read(sfs, ino, i) : i \in FileBlocks})
    BY <1>6, <2>3 DEF Call
  <2>4. CASE \E i \in FileBlocks : Call(Write(sfs, ino, i))
    BY <1>7, <2>4 DEF Call
  <2>5. CASE \E i \in FileBlocks : Call(Itrunc(sfs, ino, i))
    BY <1>8, <2>5 DEF Call
  <2> QED
    BY <2>1, <2>2, <2>3, <2>4, <2>5 DEF OnFile
<1> QED
  BY <1>2, <1>9, CallKeeps DEF H

LEMMA StepKeeps ==
  ASSUME SfsInv, sfs.panic = "none", NEW t \in Threads, Step(t)
  PROVE  SfsInv'
<1> DEFINE H == Held
<1>1. ASSUME NEW n \in Names, Open(t, Lookonce(sfs, n)) \/ Open(t, Creat(sfs, n))
      PROVE  SfsInv'
  <2>1. PICK r \in Lookonce(sfs, n) \cup Creat(sfs, n) : sfs' = r.s /\ open' = [open EXCEPT ![t] = r.v]
    BY <1>1 DEF Open
  <2>2. Idle(t) /\ mounted /\ open[t] = NOBLOCK /\ UNCHANGED <<mounted, pc>>
    BY <1>1 DEF Open
  <2>3. Sound(sfs, {}, H)
    BY <2>2 DEF SfsInv
  <2> HIDE DEF H
  <2>4. Opened(r, H)
    <3>1. CASE r \in Lookonce(sfs, n)
      BY <2>3, <3>1, LookonceDone
    <3>2. CASE r \in Creat(sfs, n)
      BY <2>3, <3>2, CreatDone
    <3> QED
      BY <2>1, <3>1, <3>2
  <2> QED
    BY <2>1, <2>2, <2>4, SettledOpen DEF H
<1>2. CASE Close(t)
  BY <1>2, CloseKeeps
<1>3. CASE CallReclaim(t)
  BY <1>3, CallReclaimKeeps
<1> QED
  BY <1>1, <1>2, <1>3 DEF Step

LEMMA NextInv == SfsInv /\ [Next]_vars => SfsInv'
<1> SUFFICES ASSUME SfsInv, [Next]_vars PROVE SfsInv'
  OBVIOUS
<1>1. CASE UNCHANGED vars
  <2>1. sfs' = sfs /\ mounted' = mounted /\ open' = open /\ pc' = pc
    BY <1>1 DEF vars
  <2>2. Held' = Held
    BY <2>1 DEF Held
  <2>3. TypeOK'
    BY <2>1 DEF SfsInv, TypeOK
  <2> QED
    BY <2>1, <2>2, <2>3 DEF SfsInv
<1>2. CASE Next
  <2>1. sfs.panic = "none"
    BY <1>2 DEF Next
  <2>2. CASE DoUnmount
    BY <2>1, <2>2, UnmountKeeps
  <2>3. CASE DoMount
    BY <2>1, <2>3, MountKeeps
  <2>4. CASE Call(Sync(sfs))
    <3> DEFINE H == Held
    <3>1. PICK r \in Sync(sfs) : sfs' = r.s /\ mounted /\ UNCHANGED <<mounted, open, pc>>
      BY <2>4 DEF Call
    <3>2. Sound(sfs, {}, H)
      BY <2>1, <3>1 DEF SfsInv
    <3> HIDE DEF H
    <3>3. Settled(r, H)
      BY <3>1, <3>2, SyncDone DEF Done
    <3> QED
      BY <3>1, <3>3, CallKeeps DEF H
  <2>5. CASE OnNames
    BY <2>1, <2>5, OnNamesKeeps
  <2>6. CASE \E ino \in OpenFiles : OnFile(ino)
    BY <2>1, <2>6, OnFileKeeps
  <2>7. CASE \E t \in Threads : Step(t)
    BY <2>1, <2>7, StepKeeps
  <2> QED
    BY <1>2, <2>2, <2>3, <2>4, <2>5, <2>6, <2>7 DEF Next
<1> QED
  BY <1>1, <1>2

\* What holds in every state: the types, and the volume of a kernel that goes on
\* is sound.  It stops after a rename that could not be undone; the model also ends
\* ("torn") at an indirect block that sfs_itrunc could not write back.
THEOREM Invariant == Spec => []SfsInv
<1>1. Init => SfsInv
  BY InitInv
<1>2. SfsInv /\ [Next]_vars => SfsInv'
  BY NextInv
<1> QED
  BY <1>1, <1>2, PTL DEF Spec

\* No value of a variable has another type.
THEOREM Typed == Spec => []TypeOK
<1>1. SfsInv => TypeOK
  BY DEF SfsInv
<1> QED
  BY <1>1, Invariant, PTL

\* Until an indirect block fails to be written back in sfs_itrunc, which takes one
\* failure of the disk, the kernel stops only after a rename that could not be
\* undone, which takes two.  Nothing is claimed of what comes after such a block:
\* the code goes on there (sfs_bmap.c:285-289), and other assertions can fail.
THEOREM KnownPanics == Spec => []OnlyKnownPanics
<1>1. SfsInv => OnlyKnownPanics
  BY DEF SfsInv, Stopped, OnlyKnownPanics
<1> QED
  BY <1>1, Invariant, PTL

\* The volume as it is, or will be once it is mounted.
Volume == IF mounted THEN sfs ELSE AsMounted(sfs)

LEMMA VolumeSound ==
  ASSUME SfsInv, sfs.panic = "none"
  PROVE  /\ Sound(Volume, {}, Held) /\ sfs \in Volumes
         /\ Volume.vnodes = sfs.vnodes /\ Volume.dents = sfs.dents /\ Volume.disk = sfs.disk
         /\ Volume.faults = sfs.faults
         /\ Volume.map = IF mounted THEN sfs.map ELSE sfs.diskmap
<1>1. sfs \in Volumes
  BY DEF SfsInv, TypeOK
<1>2. CASE mounted
  <2>1. Volume = sfs
    BY <1>2 DEF Volume
  <2> QED
    BY <1>1, <1>2, <2>1 DEF SfsInv
<1>3. CASE ~mounted
  <2>1. Volume = AsMounted(sfs)
    BY <1>3 DEF Volume
  <2>2. Sound(AsMounted(sfs), {}, Held)
    BY <1>3 DEF SfsInv, Unmounted
  <2>3. /\ AsMounted(sfs).vnodes = sfs.vnodes /\ AsMounted(sfs).dents = sfs.dents
        /\ AsMounted(sfs).disk = sfs.disk /\ AsMounted(sfs).faults = sfs.faults
        /\ AsMounted(sfs).map = sfs.diskmap
    BY <1>1 DEF AsMounted, Volumes
  <2> QED
    BY <1>1, <1>3, <2>1, <2>2, <2>3
<1> QED
  BY <1>2, <1>3

LEMMA SameFiles ==
  ASSUME SfsInv, sfs.panic = "none"
  PROVE  /\ Live = LiveIn(Volume)
         /\ \A b : InodeOf(b) = InodeIn(Volume, b)
         /\ \A b, k : Block(b, k) = Listed(Volume, InodeIn(Volume, b), k)
         /\ \A b : {n \in Names : sfs.dents[n] = b} = NamesOf(Volume, b)
<1>1. /\ Volume.vnodes = sfs.vnodes /\ Volume.dents = sfs.dents /\ Volume.disk = sfs.disk
  BY VolumeSound
<1>2. Live = LiveIn(Volume)
  BY <1>1 DEF Live, LiveIn
<1>3. \A b : InodeOf(b) = InodeIn(Volume, b)
  BY <1>1 DEF InodeOf, InodeIn
<1>4. \A b : PointersIn(sfs, b) = PointersIn(Volume, b)
  BY <1>1 DEF PointersIn
<1>5. \A b, k : Block(b, k) = Listed(Volume, InodeIn(Volume, b), k)
  BY <1>3, <1>4 DEF Block, Listed
<1>6. \A b : {n \in Names : sfs.dents[n] = b} = NamesOf(Volume, b)
  BY <1>1 DEF NamesOf
<1> QED
  BY <1>2, <1>3, <1>5, <1>6

\* An inode has as many links as names, at any time.
THEOREM LinkCounts == Spec => []LinksExact
<1>1. SfsInv => LinksExact
  <2> SUFFICES ASSUME SfsInv, sfs.panic = "none", NEW b \in Live
               PROVE  InodeOf(b).links = Cardinality({n \in Names : sfs.dents[n] = b})
    BY DEF LinksExact
  <2>1. Linked(Volume)
    BY VolumeSound DEF Sound
  <2>2. b \in LiveIn(Volume) /\ InodeOf(b) = InodeIn(Volume, b)
        /\ {n \in Names : sfs.dents[n] = b} = NamesOf(Volume, b)
    BY SameFiles
  <2> QED
    BY <2>1, <2>2 DEF Linked
<1> QED
  BY <1>1, Invariant, PTL

\* A vnode has a reference for every thread that has the file open, and at most
\* one more, which a failure of the disk has left.
THEOREM References == Spec => []RefsExact
<1>1. SfsInv => RefsExact
  <2> SUFFICES ASSUME SfsInv, sfs.panic = "none" PROVE RefsExact
    BY DEF RefsExact
  <2> DEFINE Refs(b) == IF sfs.vnodes[b] = NULL THEN 0 ELSE sfs.vnodes[b].refs
             Extra(b) == Refs(b) - Cardinality({t \in Threads : open[t] = b})
  <2>1. Counted(Volume, Held) /\ Volume.vnodes = sfs.vnodes /\ Volume.faults = sfs.faults
    BY VolumeSound DEF Sound
  <2>2. \A b \in Blocks : Held[b] = Cardinality({t \in Threads : open[t] = b})
    BY DEF Held, HeldOf, Holders
  <2>3. ASSUME NEW b \in Blocks
        PROVE  Extra(b) \in {0, 1} /\ (Extra(b) = 1 <=> b \in Stray(Volume, Held))
    <3>1. Held[b] \in Nat
      BY <2>1 DEF Counted
    <3>2. Extra(b) = Refs(b) - Held[b]
      BY <2>2
    <3>3. CASE sfs.vnodes[b] = NULL
      <4>1. Held[b] = 0 /\ Refs(b) = 0 /\ b \notin Stray(Volume, Held)
        BY <2>1, <3>3 DEF Counted, Stray
      <4> QED
        BY <3>2, <4>1
    <3>4. CASE sfs.vnodes[b] # NULL
      <4> DEFINE n == Held[b]
                 m == sfs.vnodes[b].refs
      <4>1. m \in {n, n + 1} /\ Refs(b) = m
        BY <2>1, <3>4 DEF Counted
      <4>2. b \in Stray(Volume, Held) <=> m = n + 1
        BY <2>1, <3>4 DEF Stray
      <4>3. Extra(b) = m - n /\ n \in Nat
        BY <3>1, <3>2, <4>1
      <4> HIDE DEF m, n, Extra
      <4> QED
        BY <4>1, <4>2, <4>3
    <3> QED
      BY <3>3, <3>4
  <2>4. {b \in Blocks : Extra(b) = 1} = Stray(Volume, Held)
    <3>1. Stray(Volume, Held) \subseteq Blocks
      BY DEF Stray
    <3> HIDE DEF Extra
    <3> QED
      BY <2>3, <3>1
  <2>5. Cardinality(Stray(Volume, Held)) <= sfs.faults
    BY <2>1 DEF Counted
  <2> QED
    BY <2>3, <2>4, <2>5 DEF RefsExact
<1> QED
  BY <1>1, Invariant, PTL

\* The blocks that files list are as many as the places that list them.
UsesIn(s) == {u \in LiveIn(s) \X Places : At(s, u[1], u[2]) # NOBLOCK}
LEMMA UsesCounted ==
  ASSUME NEW s, NEW X, Laid(s, X)
  PROVE  Cardinality(UsedIn(s)) = Cardinality(LiveIn(s)) + Cardinality(UsesIn(s))
<1> DEFINE S == UsesIn(s)
           T == {x \in Blocks : \E b \in Blocks, k \in Places : At(s, b, k) = x}
           f == [u \in S |-> At(s, u[1], u[2])]
<1>1. /\ LiveIn(s) \subseteq Blocks
      /\ \A b \in Blocks, k \in Places : At(s, b, k) # NOBLOCK =>
           /\ b \in LiveIn(s) /\ At(s, b, k) \in Blocks /\ At(s, b, k) \notin LiveIn(s)
           /\ \A c \in Blocks, l \in Places : At(s, c, l) = At(s, b, k) => c = b /\ l = k
  BY InUseOnce
<1>2. /\ IsFiniteSet(T) /\ IsFiniteSet(LiveIn(s))
  <2>1. T \subseteq Blocks
    OBVIOUS
  <2> QED
    BY <1>1, <2>1, Indices, FS_Subset
<1>3. ASSUME NEW u \in S
      PROVE  /\ u[1] \in Blocks /\ u[2] \in Places /\ u = <<u[1], u[2]>>
             /\ f[u] = At(s, u[1], u[2]) /\ f[u] # NOBLOCK /\ f[u] \in T
  <2>1. u \in LiveIn(s) \X Places /\ At(s, u[1], u[2]) # NOBLOCK
    BY DEF UsesIn
  <2>2. u[1] \in Blocks /\ u[2] \in Places /\ u = <<u[1], u[2]>>
    BY <1>1, <2>1
  <2> QED
    BY <1>1, <2>1, <2>2
<1>4. f \in [S -> T]
  BY <1>3
<1>5. \A u, v \in S : f[u] = f[v] => u = v
  <2> TAKE u, v \in S
  <2> HAVE f[u] = f[v]
  <2>1. /\ At(s, u[1], u[2]) # NOBLOCK /\ At(s, v[1], v[2]) = At(s, u[1], u[2])
        /\ u[1] \in Blocks /\ u[2] \in Places /\ v[1] \in Blocks /\ v[2] \in Places
        /\ u = <<u[1], u[2]>> /\ v = <<v[1], v[2]>>
    BY <1>3
  <2>2. v[1] = u[1] /\ v[2] = u[2]
    BY <1>1, <2>1
  <2> QED
    BY <2>1, <2>2
<1>6. \A x \in T : \E u \in S : f[u] = x
  <2> TAKE x \in T
  <2>1. PICK b \in Blocks, k \in Places : At(s, b, k) = x
    OBVIOUS
  <2>2. x # NOBLOCK
    BY Indices
  <2> DEFINE u == <<b, k>>
  <2>3. u \in S
    BY <1>1, <2>1, <2>2 DEF UsesIn
  <2>4. f[u] = x
    BY <2>1, <2>3
  <2> QED
    BY <2>3, <2>4
<1> HIDE DEF f, S, T
<1>7. f \in Injection(S, T) /\ f \in Surjection(S, T)
  BY <1>4, <1>5, <1>6 DEF Injection, Surjection, IsInjective
<1>8. Cardinality(S) = Cardinality(T)
  BY <1>2, <1>7, FS_Injection
<1>9. LiveIn(s) \cap T = {} /\ UsedIn(s) = LiveIn(s) \cup T
  BY <1>1, Indices DEF T, UsedIn
<1>10. Cardinality(LiveIn(s) \cup T) = Cardinality(LiveIn(s)) + Cardinality(T) - Cardinality({})
  BY <1>2, <1>9, FS_Union
<1>11. Cardinality({}) = 0 /\ Cardinality(T) \in Nat /\ Cardinality(LiveIn(s)) \in Nat
  BY <1>2, FS_EmptySet, FS_CardinalityType
<1> QED
  BY <1>8, <1>9, <1>10, <1>11 DEF S

\* No block has two uses, every block in use is marked, and no more are marked
\* without use than the disk has failed times.
THEOREM BlockCounts == Spec => []BlocksExact
<1>1. SfsInv => BlocksExact
  <2> SUFFICES ASSUME SfsInv, sfs.panic = "none" PROVE BlocksExact
    BY DEF BlocksExact
  <2> DEFINE V == Volume
             marked == IF mounted THEN sfs.map ELSE sfs.diskmap
  <2>1. Sound(V, {}, Held) /\ V.map = marked /\ V.faults = sfs.faults
    BY VolumeSound
  <2>2. Laid(V, {}) /\ Marked(V, {})
    BY <2>1 DEF Sound, Laid
  <2>3. /\ Live = LiveIn(V)
        /\ \A b, k : Block(b, k) = Listed(V, InodeIn(V, b), k)
    BY SameFiles
  <2>4. LiveIn(V) \subseteq Blocks
    BY DEF LiveIn
  <2>5. \A b \in LiveIn(V), k \in Places : Block(b, k) = At(V, b, k)
    BY <2>3 DEF At
  <2> HIDE DEF V, marked
  <2>6. Uses = UsesIn(V)
    <3>1. \A u \in LiveIn(V) \X Places : Block(u[1], u[2]) = At(V, u[1], u[2])
      BY <2>5
    <3> QED
      BY <2>3, <3>1 DEF Uses, UsesIn
  <2>7. InUse = UsedIn(V)
    <3>1. ASSUME NEW u \in UsesIn(V)
          PROVE  Block(u[1], u[2]) \in UsedIn(V)
      <4>1. u[1] \in LiveIn(V) /\ u[2] \in Places /\ At(V, u[1], u[2]) # NOBLOCK
        BY DEF UsesIn
      <4>2. Block(u[1], u[2]) = At(V, u[1], u[2]) /\ u[1] \in Blocks
        BY <2>4, <2>5, <4>1
      <4> QED
        BY <2>2, <4>1, <4>2, InUseOnce
    <3>2. ASSUME NEW x \in Blocks, NEW b \in Blocks, NEW k \in Places, At(V, b, k) = x
          PROVE  \E u \in UsesIn(V) : x = Block(u[1], u[2])
      <4>1. x # NOBLOCK
        BY Indices
      <4>2. b \in LiveIn(V)
        BY <3>2, <4>1 DEF At
      <4>3. <<b, k>> \in UsesIn(V) /\ Block(b, k) = x
        BY <2>5, <3>2, <4>1, <4>2 DEF UsesIn
      <4> QED
        BY <4>3
    <3>3. InUse \subseteq UsedIn(V)
      BY <2>3, <2>6, <3>1 DEF InUse, UsedIn
    <3>4. UsedIn(V) \subseteq InUse
      BY <2>3, <2>6, <3>2 DEF InUse, UsedIn
    <3> QED
      BY <3>3, <3>4
  <2>8. Cardinality(InUse) = Cardinality(Live) + Cardinality(Uses)
    BY <2>2, <2>3, <2>6, <2>7, UsesCounted
  <2>9. InUse \subseteq marked /\ Cardinality(marked \ InUse) <= sfs.faults
    BY <2>1, <2>2, <2>7 DEF Marked, Lost
  <2> QED
    BY <2>8, <2>9 DEF BlocksExact, marked
<1> QED
  BY <1>1, Invariant, PTL

-----------------------------------------------------------------------------
(* The volume implements files with names.                                 *)

\* What the abstract specification sees of the threads and of the files, and
\* that it is the data of the files.
UsersOf == [t \in Threads |-> IF Idle(t) THEN open[t] ELSE NOBLOCK]
FilesOf == [b \in Blocks |-> IF Lives(b) /\ sfs.panic = "none" THEN BlocksOf(InodeOf(b)) ELSE {}]
Shown ==
  /\ \A b \in Blocks :
       Lives(b) <=> (\E n \in Names : sfs.dents[n] = b) \/ (\E t \in Threads : UsersOf[t] = b)
  /\ \A b \in Blocks : Lives(b) => Held[b] >= 1 \/ \E n \in Names : sfs.dents[n] = b
  /\ sfs.panic = "none" => /\ FilesOf = [b \in Blocks |-> IF Lives(b) THEN Data(sfs, b) ELSE {}]
                           /\ \A b \in Blocks : b \notin LiveIn(sfs) => Data(sfs, b) = {}
                           /\ \A b \in Blocks : Lives(b) => b \in LiveIn(sfs)

\* The blocks an inode lists as data.
LEMMA BlocksListed ==
  ASSUME NEW i
  PROVE  BlocksOf(i) = {k \in FileBlocks : Listed(sfs, i, k) # NOBLOCK}
<1> DEFINE p == IF i.ind = NOBLOCK THEN NoPointers ELSE PointersIn(sfs, i.ind)
           A == {k \in DirectIx : i.direct[k] # NOBLOCK}
           B == {NDIRECT + j : j \in {j \in IndirectIx : p[j] # NOBLOCK}}
<1>1. BlocksOf(i) = A \cup B
  BY Zenon DEF BlocksOf
<1>2. \A k \in DirectIx : k \in FileBlocks /\ Listed(sfs, i, k) = i.direct[k]
  <2> TAKE k \in DirectIx
  <2>1. Listed(sfs, i, k) = i.direct[k]
    BY ListedPlaces
  <2> QED
    BY <2>1, Indices
<1>3. ASSUME NEW j \in IndirectIx
      PROVE  NDIRECT + j \in FileBlocks /\ Listed(sfs, i, NDIRECT + j) = p[j]
  <2> DEFINE k == j + NDIRECT
  <2>1. /\ k \in FileBlocks /\ k \in Places /\ k # -1 /\ k \notin DirectIx /\ k - NDIRECT = j
    BY Indices
  <2>2. k = NDIRECT + j
    BY SfsAssumption DEF IndirectIx
  <2> HIDE DEF k
  <2>3. Listed(sfs, i, k) = IF i.ind = NOBLOCK THEN NOBLOCK ELSE PointersIn(sfs, i.ind)[k - NDIRECT]
    BY <2>1, ListedPlaces
  <2>4. NoPointers[j] = NOBLOCK
    BY DEF NoPointers
  <2> QED
    BY <2>1, <2>2, <2>3, <2>4
<1>4. \A k \in FileBlocks : \/ k \in DirectIx
                            \/ (k - NDIRECT \in IndirectIx /\ k = NDIRECT + (k - NDIRECT))
  <2> TAKE k \in FileBlocks
  <2>1. k \in Int /\ NDIRECT \in Int
    BY SfsAssumption DEF FileBlocks
  <2>2. k \in DirectIx \/ k - NDIRECT \in IndirectIx
    BY Indices
  <2>3. k = NDIRECT + (k - NDIRECT)
    BY <2>1
  <2> QED
    BY <2>2, <2>3
<1> HIDE DEF p
<1>5. A \cup B \subseteq {k \in FileBlocks : Listed(sfs, i, k) # NOBLOCK}
  BY <1>2, <1>3
<1>6. ASSUME NEW k \in FileBlocks, Listed(sfs, i, k) # NOBLOCK
      PROVE  k \in A \cup B
  <2>1. CASE k \in DirectIx
    BY <1>2, <1>6, <2>1
  <2>2. CASE k \notin DirectIx
    <3> DEFINE j == k - NDIRECT
    <3>1. j \in IndirectIx /\ k = NDIRECT + j
      BY <1>4, <2>2
    <3> HIDE DEF j
    <3>2. p[j] # NOBLOCK
      BY <1>3, <1>6, <3>1
    <3> QED
      BY <3>1, <3>2
  <2> QED
    BY <2>1, <2>2
<1> QED
  BY <1>1, <1>5, <1>6

\* Under the invariant files and users are as shown, and no data is left of a
\* file that does not live.
LEMMA ShownInv == SfsInv => Shown
<1> SUFFICES ASSUME SfsInv PROVE Shown
  OBVIOUS
<1>1. NOBLOCK \notin Blocks /\ open \in [Threads -> Numbers] /\ Finite(open)
  BY Indices DEF SfsInv, TypeOK
<1>2. \A b \in Blocks :
       Lives(b) <=> (\E n \in Names : sfs.dents[n] = b) \/ (\E t \in Threads : UsersOf[t] = b)
  BY <1>1 DEF Lives, UsersOf
<1>3. ASSUME NEW b \in Blocks, NEW t \in Threads, open[t] = b
      PROVE  Held[b] >= 1
  BY <1>1, <1>3, HeldGiven DEF Held
<1>4. \A b \in Blocks : Lives(b) => Held[b] >= 1 \/ \E n \in Names : sfs.dents[n] = b
  BY <1>3 DEF Lives
<1>5. ASSUME sfs.panic = "none"
      PROVE  /\ FilesOf = [b \in Blocks |-> IF Lives(b) THEN Data(sfs, b) ELSE {}]
             /\ \A b \in Blocks : b \notin LiveIn(sfs) => Data(sfs, b) = {}
             /\ \A b \in Blocks : Lives(b) => b \in LiveIn(sfs)
  <2>1. ASSUME NEW b \in Blocks, Lives(b)
        PROVE  b \in LiveIn(sfs)
    <3>1. CASE \E n \in Names : sfs.dents[n] = b
      BY <3>1 DEF LiveIn
    <3>2. CASE \E t \in Threads : open[t] = b
      BY <1>1, <1>5, <3>2, OpenInMemory DEF LiveIn
    <3> QED
      BY <2>1, <3>1, <3>2 DEF Lives
  <2>2. \A b \in Blocks : b \notin LiveIn(sfs) => Data(sfs, b) = {}
    BY DEF Data, At
  <2>3. ASSUME NEW b \in Blocks, Lives(b)
        PROVE  BlocksOf(InodeOf(b)) = Data(sfs, b)
    <3>1. b \in LiveIn(sfs) /\ InodeOf(b) = InodeIn(sfs, b)
      BY <2>1, <2>3 DEF InodeOf, InodeIn
    <3>2. BlocksOf(InodeIn(sfs, b)) = {k \in FileBlocks : Listed(sfs, InodeIn(sfs, b), k) # NOBLOCK}
      BY BlocksListed
    <3> QED
      BY <3>1, <3>2 DEF Data, At
  <2>4. FilesOf = [b \in Blocks |-> IF Lives(b) THEN Data(sfs, b) ELSE {}]
    BY <1>5, <2>3 DEF FilesOf
  <2> QED
    BY <2>1, <2>2, <2>4
<1> QED
  BY <1>2, <1>4, <1>5 DEF Shown

\* Files that lose names and users are forgotten with their data; the kernel
\* runs before and after the step.
SeenForget == FilesOf' = [b \in Blocks |-> IF Lives(b)' THEN FilesOf[b] ELSE {}]
Running == sfs.panic = "none" /\ sfs'.panic = "none"

\* The abstract actions, of what is seen.
LEMMA Fails ==
  ASSUME sfs'.dents = sfs.dents, UsersOf' = UsersOf, FilesOf' = FilesOf, Running
  PROVE  Abstract!ANext
BY DEF Abstract!ANext, Abstract!AFail, Abstract!avars, UsersOf, FilesOf, Running

LEMMA Stops ==
  ASSUME sfs.panic = "none", sfs'.panic # "none"
  PROVE  Abstract!ANext
BY DEF Abstract!ANext

\* Files live in the abstract specification as they do here.
LEMMA LivesSeen ==
  ASSUME Shown, Shown'
  PROVE  \A b \in Blocks : (Abstract!Lives(b) <=> Lives(b)) /\ (Abstract!Lives(b)' <=> Lives(b)')
<1>1. \A b \in Blocks : Abstract!Lives(b) <=> Lives(b)
  BY DEF Shown, Abstract!Lives, UsersOf
<1>2. \A b \in Blocks : Abstract!Lives(b)' <=> Lives(b)'
  BY DEF Shown, Abstract!Lives, UsersOf
<1> QED
  BY <1>1, <1>2

LEMMA ForgetSeen ==
  ASSUME Shown, Shown', SeenForget
  PROVE  Abstract!Forget
<1>1. \A b \in Blocks : Abstract!Lives(b)' <=> Lives(b)'
  BY LivesSeen
<1>2. [b \in Blocks |-> IF Lives(b)' THEN FilesOf[b] ELSE {}]
        = [b \in Blocks |-> IF Abstract!Lives(b)' THEN FilesOf[b] ELSE {}]
  BY <1>1
<1> QED
  BY <1>2 DEF Abstract!Forget, SeenForget, FilesOf

LEMMA Closes ==
  ASSUME Running, Shown, Shown', NEW t \in Threads, UsersOf[t] # NOBLOCK,
         UsersOf' = [UsersOf EXCEPT ![t] = NOBLOCK],
         sfs'.dents = sfs.dents, SeenForget
  PROVE  Abstract!ANext
<1>1. Abstract!Forget
  BY ForgetSeen
<1>2. Abstract!AClose(t)
  BY <1>1 DEF Abstract!AClose, UsersOf
<1> QED
  BY <1>2 DEF Abstract!ANext, Running

LEMMA Removes ==
  ASSUME Running, Shown, Shown', NEW n \in Names, sfs.dents[n] # NOBLOCK, UsersOf' = UsersOf,
         sfs'.dents = [sfs.dents EXCEPT ![n] = NOBLOCK], SeenForget
  PROVE  Abstract!ANext
<1>1. Abstract!Forget
  BY ForgetSeen
<1>2. Abstract!ARemove(n)
  BY <1>1 DEF Abstract!ARemove, UsersOf
<1> QED
  BY <1>2 DEF Abstract!ANext, Running

LEMMA Renames ==
  ASSUME Running, NEW m \in Names, NEW n \in Names,
         sfs.dents[m] # NOBLOCK, sfs.dents[n] = NOBLOCK, UsersOf' = UsersOf,
         sfs'.dents = [sfs.dents EXCEPT ![n] = sfs.dents[m], ![m] = NOBLOCK], FilesOf' = FilesOf
  PROVE  Abstract!ANext
<1>2. Abstract!ARename(m, n)
  BY DEF Abstract!ARename, UsersOf, FilesOf
<1> QED
  BY <1>2 DEF Abstract!ANext, Running

LEMMA Opens ==
  ASSUME Running, NEW t \in Threads, NEW n \in Names, UsersOf[t] = NOBLOCK, sfs.dents[n] # NOBLOCK,
         UsersOf' = [UsersOf EXCEPT ![t] = sfs.dents[n]],
         sfs'.dents = sfs.dents, FilesOf' = FilesOf
  PROVE  Abstract!ANext
<1>2. Abstract!AOpen(t, n)
  BY DEF Abstract!AOpen, UsersOf, FilesOf
<1> QED
  BY <1>2 DEF Abstract!ANext, Running

LEMMA Creates ==
  ASSUME Running, Shown, Shown', NEW t \in Threads, NEW n \in Names, NEW f \in Blocks,
         UsersOf[t] = NOBLOCK, sfs.dents[n] = NOBLOCK,
         ~Lives(f), UsersOf' = [UsersOf EXCEPT ![t] = f],
         sfs'.dents = [sfs.dents EXCEPT ![n] = f], FilesOf' = FilesOf
  PROVE  Abstract!ANext
<1>1. ~Abstract!Lives(f)
  BY LivesSeen
<1>2. Abstract!ACreate(t, n, f)
  BY <1>1 DEF Abstract!ACreate, UsersOf, FilesOf
<1> QED
  BY <1>2 DEF Abstract!ANext, Running

LEMMA Links ==
  ASSUME Running, NEW t \in Threads, NEW n \in Names, UsersOf[t] # NOBLOCK, sfs.dents[n] = NOBLOCK,
         UsersOf' = UsersOf, sfs'.dents = [sfs.dents EXCEPT ![n] = UsersOf[t]], FilesOf' = FilesOf
  PROVE  Abstract!ANext
<1>2. Abstract!ALink(t, n)
  BY DEF Abstract!ALink, UsersOf, FilesOf
<1> QED
  BY <1>2 DEF Abstract!ANext, Running

LEMMA Truncates ==
  ASSUME Running, NEW t \in Threads, NEW i \in FileBlocks, NEW f \in Blocks,
         UsersOf[t] = f, UsersOf' = UsersOf,
         sfs'.dents = sfs.dents, NEW gone \in SUBSET {k \in FileBlocks : k >= i},
         FilesOf' = [FilesOf EXCEPT ![f] = @ \ gone]
  PROVE  Abstract!ANext
<1>2. Abstract!ATruncate(t, i)
  BY DEF Abstract!ATruncate, UsersOf, FilesOf
<1> QED
  BY <1>2 DEF Abstract!ANext, Running

LEMMA Writes ==
  ASSUME Running, NEW t \in Threads, NEW i \in FileBlocks, NEW f \in Blocks,
         UsersOf[t] = f, UsersOf' = UsersOf,
         sfs'.dents = sfs.dents, FilesOf' = [FilesOf EXCEPT ![f] = @ \cup {i}]
  PROVE  Abstract!ANext
<1>2. Abstract!AWrite(t, i)
  BY DEF Abstract!AWrite, UsersOf, FilesOf
<1> QED
  BY <1>2 DEF Abstract!ANext, Running

\* A step that leaves the files that live with their data takes nothing from one
\* that goes on living.
LEMMA Forgetting ==
  ASSUME Running, Shown, Shown', Intact(sfs, sfs', Held'),
         \A b \in Blocks : Lives(b)' /\ ~Lives(b) => Data(sfs, b) = {}
  PROVE  /\ SeenForget
         /\ (\A b \in Blocks : Lives(b) => Lives(b)') => FilesOf' = FilesOf
<1>1. /\ FilesOf = [b \in Blocks |-> IF Lives(b) THEN Data(sfs, b) ELSE {}]
      /\ FilesOf' = [b \in Blocks |-> IF Lives(b)' THEN Data(sfs', b) ELSE {}]
  BY DEF Shown, Running
<1>2. ASSUME NEW b \in Blocks, Lives(b)'
      PROVE  Data(sfs', b) = Data(sfs, b)
  <2>1. Held'[b] >= 1 \/ \E n \in Names : sfs'.dents[n] = b
    BY <1>2 DEF Shown
  <2> QED
    BY <2>1 DEF Intact
<1>3. \A b \in Blocks : Lives(b)' => Data(sfs', b) = FilesOf[b]
  BY <1>1, <1>2
<1>4. FilesOf' = [b \in Blocks |-> IF Lives(b)' THEN FilesOf[b] ELSE {}]
  BY <1>1, <1>3
<1>5. ASSUME \A b \in Blocks : Lives(b) => Lives(b)'
      PROVE  FilesOf' = FilesOf
  BY <1>1, <1>3, <1>5
<1> QED
  BY <1>4, <1>5 DEF SeenForget

\* Nothing is seen of an operation that leaves names and users alone.
LEMMA SameLives ==
  ASSUME Shown, Shown', UsersOf' = UsersOf, SameNames(sfs, sfs')
  PROVE  \A b \in Blocks : Lives(b)' <=> Lives(b)
BY DEF Shown, SameNames

LEMMA Unseen ==
  ASSUME Running, Shown, Shown', UsersOf' = UsersOf, Spared(sfs, sfs', Held')
  PROVE  Abstract!ANext
<1>1. SameNames(sfs, sfs') /\ Intact(sfs, sfs', Held')
  BY DEF Spared
<1>2. \A b \in Blocks : Lives(b)' <=> Lives(b)
  BY <1>1, SameLives
<1>3. FilesOf' = FilesOf
  BY <1>1, <1>2, Forgetting
<1> QED
  BY <1>1, <1>3, Fails DEF SameNames

LEMMA QuietUnseen ==
  ASSUME Running, Shown, Shown', UsersOf' = UsersOf, Quiet(sfs, sfs')
  PROVE  Abstract!ANext
<1> DEFINE H == Held'
<1> HIDE DEF H
<1>1. Spared(sfs, sfs', H)
  BY SparedQuiet
<1> QED
  BY <1>1, Unseen DEF H

\* A step of the system, with what is known before and after it.
Seen == SfsInv /\ SfsInv' /\ Shown /\ Shown' /\ sfs.panic = "none"

\* A call changes nothing but the volume, and leaves a sound one or stops.
LEMMA SameUsers == ASSUME UNCHANGED <<open, pc>> PROVE UsersOf' = UsersOf /\ Held' = Held
BY DEF UsersOf, Idle, Held

LEMMA NewSound ==
  ASSUME Seen, mounted', Running
  PROVE  Sound(sfs', {}, Held')
BY DEF Seen, SfsInv, Running

LEMMA CallSeen ==
  ASSUME Seen, NEW R, Call(R)
  PROVE  /\ UsersOf' = UsersOf /\ Held' = Held /\ Sound(sfs, {}, Held)
         /\ Running => Sound(sfs', {}, Held)
         /\ ~Running => Abstract!ANext
         /\ \E r \in R : sfs' = r.s
<1>1. mounted /\ mounted' = mounted /\ UNCHANGED <<open, pc>>
  BY DEF Call
<1>2. UsersOf' = UsersOf /\ Held' = Held
  BY <1>1, SameUsers
<1>3. Running => Sound(sfs', {}, Held)
  BY <1>1, <1>2, NewSound
<1>4. ~Running => Abstract!ANext
  BY Stops DEF Running, Seen
<1>5. Sound(sfs, {}, Held)
  BY <1>1 DEF Seen, SfsInv
<1> QED
  BY <1>2, <1>3, <1>4, <1>5 DEF Call

\* sfs_remove and sfs_rename: the name goes, or moves, or nothing is seen.
LEMMA RemoveSeen ==
  ASSUME Seen, NEW n \in Names, Call(Remove(sfs, n))
  PROVE  Abstract!ANext
<1> DEFINE H == Held
           R == Remove(sfs, n)
<1>1. /\ UsersOf' = UsersOf /\ Held' = H /\ Sound(sfs, {}, H)
      /\ Running => Sound(sfs', {}, H)
      /\ ~Running => Abstract!ANext
      /\ \E r \in R : sfs' = r.s
  BY CallSeen
<1>2. PICK r \in R : sfs' = r.s
  BY <1>1
<1> SUFFICES ASSUME Running PROVE Abstract!ANext
  BY <1>1
<1> HIDE DEF H
<1>3. Sound(r.s, {}, H)
  BY <1>1, <1>2
<1>4. Removing(sfs, r.s, n, H)
  BY <1>1, <1>3, RemoveDone
<1>5. Intact(sfs, sfs', Held')
  BY <1>1, <1>2, <1>4 DEF Removing
<1>6. CASE SameNames(sfs, sfs')
  BY <1>1, <1>5, <1>6, Unseen DEF Seen, Spared
<1>7. CASE sfs.dents[n] # NOBLOCK /\ sfs'.dents = [sfs.dents EXCEPT ![n] = NOBLOCK]
  <2>1. sfs.dents \in [Names -> Numbers] /\ NOBLOCK \notin Blocks
    BY Indices, VolumeType DEF Seen, SfsInv, TypeOK
  <2>2. \A b \in Blocks, m \in Names : sfs'.dents[m] = b => sfs.dents[m] = b
    BY <1>7, <2>1
  <2>3. \A b \in Blocks : Lives(b)' => Lives(b)
    BY <1>1, <2>2 DEF Seen, Shown
  <2>4. SeenForget
    BY <1>5, <2>3, Forgetting DEF Seen
  <2> QED
    BY <1>1, <1>7, <2>4, Removes DEF Seen
<1> QED
  BY <1>2, <1>4, <1>6, <1>7 DEF Removing

LEMMA RenameSeen ==
  ASSUME Seen, NEW n1 \in Names, NEW n2 \in Names, Call(Rename(sfs, n1, n2))
  PROVE  Abstract!ANext
<1> DEFINE H == Held
           R == Rename(sfs, n1, n2)
<1>1. /\ UsersOf' = UsersOf /\ Held' = H /\ Sound(sfs, {}, H)
      /\ Running => Sound(sfs', {}, H)
      /\ ~Running => Abstract!ANext
      /\ \E r \in R : sfs' = r.s
  BY CallSeen
<1>2. PICK r \in R : sfs' = r.s
  BY <1>1
<1> SUFFICES ASSUME Running PROVE Abstract!ANext
  BY <1>1
<1> HIDE DEF H
<1>3. Sound(r.s, {}, H)
  BY <1>1, <1>2
<1>4. Renaming(sfs, r.s, n1, n2, H)
  BY <1>1, <1>3, RenameDone
<1>5. Intact(sfs, sfs', Held')
  BY <1>1, <1>2, <1>4 DEF Renaming
<1>6. CASE SameNames(sfs, sfs')
  BY <1>1, <1>5, <1>6, Unseen DEF Seen, Spared
<1>7. CASE /\ sfs.dents[n1] # NOBLOCK /\ sfs.dents[n2] = NOBLOCK
           /\ sfs'.dents = [sfs.dents EXCEPT ![n2] = sfs.dents[n1], ![n1] = NOBLOCK]
  <2>1. sfs.dents \in [Names -> Numbers] /\ NOBLOCK \notin Blocks
    BY Indices, VolumeType DEF Seen, SfsInv, TypeOK
  <2>2. /\ sfs'.dents[n1] = NOBLOCK /\ sfs'.dents[n2] = sfs.dents[n1] /\ n1 # n2
        /\ \A m \in Names : m # n1 /\ m # n2 => sfs'.dents[m] = sfs.dents[m]
    BY <1>7, <2>1
  <2>3. \A b \in Blocks :
          (\E m \in Names : sfs'.dents[m] = b) <=> (\E m \in Names : sfs.dents[m] = b)
    BY <1>7, <2>1, <2>2
  <2>4. \A b \in Blocks : Lives(b)' <=> Lives(b)
    BY <1>1, <2>3 DEF Seen, Shown
  <2>5. FilesOf' = FilesOf
    BY <1>5, <2>4, Forgetting DEF Seen
  <2> QED
    BY <1>1, <1>7, <2>5, Renames
<1> QED
  BY <1>2, <1>4, <1>6, <1>7 DEF Renaming

\* The operations of one who has the file open.
LEMMA OpenSeen ==
  ASSUME Seen, NEW ino \in OpenFiles
  PROVE  /\ ino \in Blocks /\ sfs.vnodes[ino] # NULL /\ mounted /\ Lives(ino)
         /\ \E t \in Threads : UsersOf[t] = ino /\ ino # NOBLOCK
<1>1. PICK t \in Threads : Idle(t) /\ ino = open[t] /\ open[t] # NOBLOCK
  BY DEF OpenFiles
<1>2. mounted /\ ino \in Blocks /\ sfs.vnodes[ino] # NULL
  BY <1>1, OpenInMemory DEF Seen
<1>3. UsersOf[t] = ino
  BY <1>1 DEF UsersOf
<1>4. Lives(ino)
  BY <1>1 DEF Lives
<1> QED
  BY <1>1, <1>2, <1>3, <1>4

\* A call that leaves names and data alone is not seen.
LEMMA QuietCall ==
  ASSUME Seen, NEW R, Call(R), \A r \in R : Sound(r.s, {}, Held) => Quiet(sfs, r.s)
  PROVE  Abstract!ANext
<1> DEFINE H == Held
<1>1. /\ UsersOf' = UsersOf
      /\ Running => Sound(sfs', {}, H)
      /\ ~Running => Abstract!ANext
      /\ \E r \in R : sfs' = r.s
  BY CallSeen
<1>2. Running => Quiet(sfs, sfs')
  BY <1>1
<1> QED
  BY <1>1, <1>2, QuietUnseen DEF Seen

LEMMA SyncInodeSeen ==
  ASSUME Seen, NEW ino \in OpenFiles, Call(SyncInode(sfs, ino))
  PROVE  Abstract!ANext
<1> DEFINE H == Held
           R == SyncInode(sfs, ino)
<1>1. ino \in Blocks /\ sfs.vnodes[ino] # NULL
  BY OpenSeen
<1>2. Sound(sfs, {}, H)
  BY CallSeen
<1> HIDE DEF H
<1>3. ASSUME NEW r \in R, Sound(r.s, {}, H)
      PROVE  Quiet(sfs, r.s)
  <2>1. Done(sfs, r, H) /\ SameData(sfs, r.s)
    BY <1>1, <1>2, SyncInodeDone
  <2> QED
    BY <1>3, <2>1 DEF Done, Kin, Quiet, SameNames
<1> QED
  BY <1>3, QuietCall DEF H

LEMMA ReadSeen ==
  ASSUME Seen, NEW ino \in OpenFiles, Call(UNION {Read(sfs, ino, i) : i \in FileBlocks})
  PROVE  Abstract!ANext
<1> DEFINE H == Held
           R == UNION {Read(sfs, ino, i) : i \in FileBlocks}
<1>1. ino \in Blocks /\ sfs.vnodes[ino] # NULL
  BY OpenSeen
<1>2. Sound(sfs, {}, H)
  BY CallSeen
<1> HIDE DEF H
<1>3. ASSUME NEW r \in R, Sound(r.s, {}, H)
      PROVE  Quiet(sfs, r.s)
  <2>1. PICK i \in FileBlocks : r \in Read(sfs, ino, i)
    OBVIOUS
  <2>2. Done(sfs, r, H) /\ SameData(sfs, r.s)
    BY <1>1, <1>2, <2>1, ReadFileDone
  <2> QED
    BY <1>3, <2>2 DEF Done, Kin, Quiet, SameNames
<1> QED
  BY <1>3, QuietCall DEF H

LEMMA SyncSeen ==
  ASSUME Seen, Call(Sync(sfs))
  PROVE  Abstract!ANext
<1> DEFINE H == Held
           R == Sync(sfs)
<1>2. Sound(sfs, {}, H)
  BY CallSeen
<1> HIDE DEF H
<1>3. \A r \in R : Quiet(sfs, r.s)
  BY <1>2, SyncDone
<1> QED
  BY <1>3, QuietCall

\* sfs_link, sfs_write and sfs_truncate of an open file.
LEMMA LinkSeen ==
  ASSUME Seen, NEW ino \in OpenFiles, NEW n \in Names, Call(Link(sfs, n, ino))
  PROVE  Abstract!ANext
<1> DEFINE H == Held
           R == Link(sfs, n, ino)
<1>1. /\ UsersOf' = UsersOf /\ Held' = H /\ Sound(sfs, {}, H)
      /\ ~Running => Abstract!ANext
      /\ \E r \in R : sfs' = r.s
  BY CallSeen
<1>2. PICK r \in R : sfs' = r.s
  BY <1>1
<1> SUFFICES ASSUME Running PROVE Abstract!ANext
  BY <1>1
<1> HIDE DEF H
<1>3. ino \in Blocks /\ sfs.vnodes[ino] # NULL /\ Lives(ino)
  BY OpenSeen
<1>4. PICK t \in Threads : UsersOf[t] = ino /\ ino # NOBLOCK
  BY OpenSeen
<1>5. /\ SameData(sfs, sfs') /\ (r.err => SameNames(sfs, sfs'))
      /\ ~r.err => sfs.dents[n] = NOBLOCK /\ sfs'.dents = [sfs.dents EXCEPT ![n] = ino]
  BY <1>1, <1>2, <1>3, LinkDone
<1>6. CASE SameNames(sfs, sfs')
  BY <1>1, <1>5, <1>6, QuietUnseen DEF Seen, Quiet
<1>7. CASE sfs.dents[n] = NOBLOCK /\ sfs'.dents = [sfs.dents EXCEPT ![n] = ino]
  <2>1. sfs.dents \in [Names -> Numbers] /\ NOBLOCK \notin Blocks
    BY Indices, VolumeType DEF Seen, SfsInv, TypeOK
  <2>2. sfs'.dents[n] = ino /\ \A m \in Names : m # n => sfs'.dents[m] = sfs.dents[m]
    BY <1>7, <2>1
  <2>3. \A b \in Blocks :
          (\E m \in Names : sfs'.dents[m] = b) <=> b = ino \/ (\E m \in Names : sfs.dents[m] = b)
    BY <1>7, <2>1, <2>2
  <2>4. \A b \in Blocks : Lives(b)' <=> Lives(b)
    BY <1>1, <1>3, <2>3 DEF Seen, Shown
  <2> DEFINE G == Held'
  <2> HIDE DEF G
  <2>5. Intact(sfs, sfs', G)
    BY <1>5, IntactSame
  <2>6. FilesOf' = FilesOf
    BY <2>4, <2>5, Forgetting DEF Seen, G
  <2> QED
    BY <1>1, <1>4, <1>7, <2>6, Links
<1> QED
  BY <1>5, <1>6, <1>7

\* What is seen of a change to the data of one file.
LEMMA EffectSeen ==
  ASSUME Seen, Running, NEW ino \in Blocks, Lives(ino), UsersOf' = UsersOf, SameNames(sfs, sfs'),
         \A b \in Blocks : b # ino => Data(sfs', b) = Data(sfs, b)
  PROVE  /\ FilesOf' = [FilesOf EXCEPT ![ino] = Data(sfs', ino)]
         /\ FilesOf[ino] = Data(sfs, ino)
<1>1. /\ FilesOf = [b \in Blocks |-> IF Lives(b) THEN Data(sfs, b) ELSE {}]
      /\ FilesOf' = [b \in Blocks |-> IF Lives(b)' THEN Data(sfs', b) ELSE {}]
  BY DEF Shown, Running, Seen
<1>2. \A b \in Blocks : Lives(b)' <=> Lives(b)
  BY SameLives DEF Seen
<1>3. \A b \in Blocks : (IF Lives(b)' THEN Data(sfs', b) ELSE {})
                          = IF b = ino THEN Data(sfs', ino) ELSE FilesOf[b]
  BY <1>1, <1>2
<1> DEFINE F == FilesOf
           G == FilesOf'
           d == Data(sfs', ino)
<1>4. G = [b \in Blocks |-> IF b = ino THEN d ELSE F[b]] /\ DOMAIN F = Blocks
  BY <1>1, <1>3
<1>5. FilesOf[ino] = Data(sfs, ino)
  BY <1>1
<1> HIDE DEF F, G, d
<1>6. G = [F EXCEPT ![ino] = d]
  BY <1>4
<1> QED
  BY <1>5, <1>6 DEF F, G, d

LEMMA WriteSeen ==
  ASSUME Seen, NEW ino \in OpenFiles, NEW i \in FileBlocks, Call(Write(sfs, ino, i))
  PROVE  Abstract!ANext
<1> DEFINE H == Held
           R == Write(sfs, ino, i)
<1>1. /\ UsersOf' = UsersOf /\ Held' = H /\ Sound(sfs, {}, H)
      /\ Running => Sound(sfs', {}, H)
      /\ ~Running => Abstract!ANext
      /\ \E r \in R : sfs' = r.s
  BY CallSeen
<1>2. PICK r \in R : sfs' = r.s
  BY <1>1
<1> SUFFICES ASSUME Running PROVE Abstract!ANext
  BY <1>1
<1> HIDE DEF H
<1>3. ino \in Blocks /\ sfs.vnodes[ino] # NULL /\ Lives(ino)
  BY OpenSeen
<1>4. PICK t \in Threads : UsersOf[t] = ino /\ ino # NOBLOCK
  BY OpenSeen
<1>5. Done(sfs, r, H) /\ Effect(sfs, r.s, ino, {}, {i})
  BY <1>1, <1>3, WriteDone
<1>6. SameNames(sfs, sfs')
  BY <1>1, <1>2, <1>5 DEF Done, Kin, SameNames
<1>7. /\ \A b \in Blocks : b # ino => Data(sfs', b) = Data(sfs, b)
      /\ Data(sfs', ino) = Data(sfs, ino) \/ Data(sfs', ino) = Data(sfs, ino) \cup {i}
  BY <1>2, <1>5 DEF Effect
<1>8. FilesOf' = [FilesOf EXCEPT ![ino] = Data(sfs', ino)] /\ FilesOf[ino] = Data(sfs, ino)
  BY <1>1, <1>3, <1>6, <1>7, EffectSeen
<1>9. CASE Data(sfs', ino) = Data(sfs, ino)
  <2>1. SameData(sfs, sfs')
    BY <1>7, <1>9 DEF SameData
  <2> QED
    BY <1>1, <1>6, <2>1, QuietUnseen DEF Seen, Quiet
<1>10. CASE Data(sfs', ino) = Data(sfs, ino) \cup {i}
  <2>1. FilesOf' = [FilesOf EXCEPT ![ino] = @ \cup {i}]
    BY <1>8, <1>10
  <2> QED
    BY <1>1, <1>3, <1>4, <1>6, <2>1, Writes DEF SameNames
<1> QED
  BY <1>7, <1>9, <1>10

LEMMA ItruncSeen ==
  ASSUME Seen, NEW ino \in OpenFiles, NEW i \in FileBlocks, Call(Itrunc(sfs, ino, i))
  PROVE  Abstract!ANext
<1> DEFINE H == Held
           R == Itrunc(sfs, ino, i)
<1>1. /\ UsersOf' = UsersOf /\ Held' = H /\ Sound(sfs, {}, H)
      /\ Running => Sound(sfs', {}, H)
      /\ ~Running => Abstract!ANext
      /\ \E r \in R : sfs' = r.s
  BY CallSeen
<1>2. PICK r \in R : sfs' = r.s
  BY <1>1
<1> SUFFICES ASSUME Running PROVE Abstract!ANext
  BY <1>1
<1> HIDE DEF H
<1>3. ino \in Blocks /\ sfs.vnodes[ino] # NULL /\ Lives(ino)
  BY OpenSeen
<1>4. PICK t \in Threads : UsersOf[t] = ino /\ ino # NOBLOCK
  BY OpenSeen
<1>5. Sound(r.s, {}, H)
  BY <1>1, <1>2
<1>6. Done(sfs, r, H) /\ Effect(sfs, r.s, ino, Past(i), {})
  BY <1>1, <1>3, <1>5, ItruncDone
<1>7. SameNames(sfs, sfs')
  BY <1>2, <1>5, <1>6 DEF Done, Kin, SameNames
<1> DEFINE gone == Data(sfs, ino) \ Data(sfs', ino)
<1>8. /\ \A b \in Blocks : b # ino => Data(sfs', b) = Data(sfs, b)
      /\ Data(sfs', ino) = Data(sfs, ino) \ gone
      /\ gone \subseteq Past(i)
  BY <1>2, <1>6 DEF Effect
<1>9. FilesOf' = [FilesOf EXCEPT ![ino] = Data(sfs', ino)] /\ FilesOf[ino] = Data(sfs, ino)
  BY <1>1, <1>3, <1>7, <1>8, EffectSeen
<1>10. gone \in SUBSET {k \in FileBlocks : k >= i}
  BY <1>8 DEF Past
<1> HIDE DEF gone
<1>11. FilesOf' = [FilesOf EXCEPT ![ino] = @ \ gone]
  BY <1>8, <1>9
<1> QED
  BY <1>1, <1>3, <1>4, <1>7, <1>10, <1>11, Truncates DEF SameNames

\* The thread that vfs_open returns a file to, or none.
LEMMA OpenUsers ==
  ASSUME Seen, NEW t \in Threads, NEW v, Idle(t), open[t] = NOBLOCK,
         open' = [open EXCEPT ![t] = v], pc' = pc
  PROVE  UsersOf[t] = NOBLOCK /\ UsersOf' = [UsersOf EXCEPT ![t] = v]
<1>1. open \in [Threads -> Numbers]
  BY DEF Seen, SfsInv, TypeOK
<1>2. UsersOf[t] = NOBLOCK
  BY DEF UsersOf
<1>3. UsersOf' = [u \in Threads |-> IF Idle(u) THEN open'[u] ELSE NOBLOCK]
  BY DEF UsersOf, Idle
<1>4. open'[t] = v /\ \A u \in Threads : u # t => open'[u] = open[u]
  BY <1>1
<1>5. \A u \in Threads : (IF Idle(u) THEN open'[u] ELSE NOBLOCK) = IF u = t THEN v ELSE UsersOf[u]
  BY <1>4 DEF UsersOf
<1>6. DOMAIN UsersOf = Threads
  BY DEF UsersOf
<1> QED
  BY <1>2, <1>3, <1>5, <1>6

LEMMA NothingOpened ==
  ASSUME Seen, NEW t \in Threads, NEW v, v = NOBLOCK, Idle(t), open[t] = NOBLOCK,
         open' = [open EXCEPT ![t] = v], pc' = pc
  PROVE  UsersOf' = UsersOf /\ Held' = Held
<1>1. open \in [Threads -> Numbers]
  BY DEF Seen, SfsInv, TypeOK
<1>2. open' = open
  BY <1>1
<1> QED
  BY <1>2, SameUsers

LEMMA NamedOpened ==
  ASSUME Seen, Running, NEW t \in Threads, NEW n \in Names, UsersOf[t] = NOBLOCK,
         UsersOf' = [UsersOf EXCEPT ![t] = sfs.dents[n]], sfs.dents[n] # NOBLOCK, Quiet(sfs, sfs')
  PROVE  Abstract!ANext
<1>1. SameNames(sfs, sfs') /\ SameData(sfs, sfs')
  BY DEF Quiet
<1> DEFINE f == sfs.dents[n]
           U == UsersOf
           V == UsersOf'
<1>2. DOMAIN U = Threads
  BY DEF UsersOf
<1>3. V = [U EXCEPT ![t] = f] /\ U[t] = NOBLOCK /\ NOBLOCK \notin Blocks
  BY Indices
<1> HIDE DEF U, V
<1>4. V[t] = f /\ \A u \in Threads : u # t => V[u] = U[u]
  BY <1>2, <1>3
<1>5. \A b \in Blocks : (\E u \in Threads : V[u] = b) <=> b = f \/ (\E u \in Threads : U[u] = b)
  BY <1>3, <1>4
<1>6. \A b \in Blocks : Lives(b)' <=> Lives(b)
  BY <1>1, <1>5 DEF Seen, Shown, SameNames, U, V
<1> DEFINE G == Held'
<1> HIDE DEF G
<1>7. Intact(sfs, sfs', G)
  BY <1>1, IntactSame
<1>8. FilesOf' = FilesOf
  BY <1>6, <1>7, Forgetting DEF Seen, G
<1> QED
  BY <1>1, <1>8, Opens DEF SameNames

\* vfs_open, with sfs_lookonce or sfs_creat.
LEMMA LookonceSeen ==
  ASSUME Seen, NEW t \in Threads, NEW n \in Names, Open(t, Lookonce(sfs, n))
  PROVE  Abstract!ANext
<1>1. /\ Idle(t) /\ mounted /\ open[t] = NOBLOCK /\ UNCHANGED <<mounted, pc>>
      /\ \E r \in Lookonce(sfs, n) : sfs' = r.s /\ open' = [open EXCEPT ![t] = r.v]
  BY DEF Open
<1>2. PICK r \in Lookonce(sfs, n) : sfs' = r.s /\ open' = [open EXCEPT ![t] = r.v]
  BY <1>1
<1> DEFINE H == Held
<1>3. Sound(sfs, {}, H)
  BY <1>1 DEF Seen, SfsInv
<1> HIDE DEF H
<1>4. /\ Opened(r, H) /\ r.s.panic = "none" /\ Quiet(sfs, r.s)
      /\ ~r.err => r.v = sfs.dents[n]
  BY <1>3, LookonceDone
<1>5. Running
  BY <1>2, <1>4 DEF Running, Seen
<1> SUFFICES ASSUME ~Abstract!ANext PROVE FALSE
  OBVIOUS
<1>6. CASE r.err
  <2>1. r.v = NOBLOCK
    BY <1>4, <1>6 DEF Opened, Settled
  <2>2. UsersOf' = UsersOf
    BY <1>1, <1>2, <2>1, NothingOpened
  <2> QED
    BY <1>2, <1>4, <1>5, <2>2, QuietUnseen DEF Seen
<1>7. CASE ~r.err
  <2>1. r.v = sfs.dents[n] /\ r.v # NOBLOCK
    BY <1>4, <1>7, Indices DEF Opened
  <2>2. UsersOf[t] = NOBLOCK /\ UsersOf' = [UsersOf EXCEPT ![t] = r.v]
    BY <1>1, <1>2, OpenUsers
  <2> QED
    BY <1>2, <1>4, <1>5, <2>1, <2>2, NamedOpened
<1> QED
  BY <1>6, <1>7

LEMMA CreatSeen ==
  ASSUME Seen, NEW t \in Threads, NEW n \in Names, Open(t, Creat(sfs, n))
  PROVE  Abstract!ANext
<1>1. /\ Idle(t) /\ mounted /\ open[t] = NOBLOCK /\ UNCHANGED <<mounted, pc>>
      /\ \E r \in Creat(sfs, n) : sfs' = r.s /\ open' = [open EXCEPT ![t] = r.v]
  BY DEF Open
<1>2. PICK r \in Creat(sfs, n) : sfs' = r.s /\ open' = [open EXCEPT ![t] = r.v]
  BY <1>1
<1> SUFFICES ASSUME Running PROVE Abstract!ANext
  BY Stops DEF Running, Seen
<1> DEFINE H == Held
<1>3. Sound(sfs, {}, H)
  BY <1>1 DEF Seen, SfsInv
<1>4. Sound(sfs', {}, Held')
  <2>1. mounted'
    BY <1>1
  <2> QED
    BY <2>1, NewSound
<1> HIDE DEF H
<1>5. Opened(r, H) /\ Creating(sfs, r, n, H)
  BY <1>3, CreatDone
<1>6. UsersOf[t] = NOBLOCK /\ UsersOf' = [UsersOf EXCEPT ![t] = r.v]
  BY <1>1, <1>2, OpenUsers
<1>7. CASE r.err /\ (Sound(r.s, {}, H) => Spared(sfs, r.s, H))
  <2>1. r.v = NOBLOCK
    BY <1>5, <1>7 DEF Opened, Settled
  <2>2. UsersOf' = UsersOf /\ Held' = H
    BY <1>1, <1>2, <2>1, NothingOpened DEF H
  <2>3. Spared(sfs, sfs', Held')
    BY <1>2, <1>4, <1>7, <2>2
  <2> QED
    BY <2>2, <2>3, Unseen DEF Seen
<1>8. CASE ~r.err /\ sfs.dents[n] # NOBLOCK /\ r.v = sfs.dents[n] /\ Quiet(sfs, r.s)
  BY <1>2, <1>6, <1>8, NamedOpened
<1>9. CASE /\ ~r.err /\ sfs.dents[n] = NOBLOCK /\ r.v \notin LiveIn(sfs)
           /\ r.s.dents = [sfs.dents EXCEPT ![n] = r.v] /\ SameData(sfs, r.s)
  <2> DEFINE f == r.v
             U == UsersOf
             V == UsersOf'
  <2>1. f \in Blocks
    BY <1>5, <1>9 DEF Opened
  <2>2. ~Lives(f) /\ Data(sfs, f) = {}
    BY <1>9, <2>1 DEF Seen, Shown
  <2>3. DOMAIN U = Threads /\ V = [U EXCEPT ![t] = f] /\ U[t] = NOBLOCK /\ NOBLOCK \notin Blocks
    BY <1>6, Indices DEF UsersOf
  <2>4. sfs.dents \in [Names -> Numbers] /\ sfs'.dents = [sfs.dents EXCEPT ![n] = f]
    BY <1>2, <1>9, VolumeType DEF Seen, SfsInv, TypeOK
  <2> HIDE DEF U, V, f
  <2>5. V[t] = f /\ \A u \in Threads : u # t => V[u] = U[u]
    BY <2>3
  <2>6. \A b \in Blocks : (\E u \in Threads : V[u] = b) <=> b = f \/ (\E u \in Threads : U[u] = b)
    BY <2>3, <2>5
  <2>7. sfs'.dents[n] = f /\ \A m \in Names : m # n => sfs'.dents[m] = sfs.dents[m]
    BY <2>4
  <2>8. \A b \in Blocks :
          (\E m \in Names : sfs'.dents[m] = b) <=> b = f \/ (\E m \in Names : sfs.dents[m] = b)
    BY <1>9, <2>3, <2>7
  <2>9. \A b \in Blocks : Lives(b)' <=> b = f \/ Lives(b)
    BY <2>6, <2>8 DEF Seen, Shown, U, V
  <2> DEFINE G == Held'
  <2> HIDE DEF G
  <2>10. Intact(sfs, sfs', G)
    BY <1>2, <1>9, IntactSame
  <2>11. FilesOf' = FilesOf
    <3>1. SeenForget
      BY <2>2, <2>9, <2>10, Forgetting DEF Seen, G
    <3>2. \A b \in Blocks : Lives(b) => Lives(b)'
      BY <2>9
    <3> QED
      BY <2>2, <2>9, <2>10, <3>2, Forgetting DEF Seen, G
  <2> QED
    BY <1>6, <1>9, <2>1, <2>2, <2>4, <2>11, Creates DEF Seen, f
<1> QED
  BY <1>5, <1>7, <1>8, <1>9 DEF Creating

\* vfs_close, up to the call of sfs_reclaim, is seen.
LEMMA CloseSeen ==
  ASSUME Seen, NEW t \in Threads, Close(t)
  PROVE  Abstract!ANext
<1> DEFINE b == open[t]
<1>1. /\ open \in [Threads -> Numbers] /\ Finite(open) /\ pc \in [Threads -> {"idle", "reclaim"}]
      /\ Idle(t) /\ b # NOBLOCK
  BY DEF Seen, SfsInv, TypeOK, Close
<1>2. /\ b \in Blocks /\ sfs.vnodes[b] # NULL /\ Sound(sfs, {}, Held) /\ Held[b] >= 1
  BY <1>1, OpenInMemory DEF Seen
<1> SUFFICES ASSUME Running PROVE Abstract!ANext
  BY Stops DEF Running, Seen
<1>3. /\ UsersOf[t] # NOBLOCK /\ UsersOf' = [UsersOf EXCEPT ![t] = NOBLOCK]
  <2>1. UsersOf[t] # NOBLOCK
    BY <1>1 DEF UsersOf
  <2>2. UsersOf' = [u \in Threads |-> IF pc'[u] = "idle" THEN open'[u] ELSE NOBLOCK]
    BY DEF UsersOf, Idle
  <2>3. \A u \in Threads : (IF pc'[u] = "idle" THEN open'[u] ELSE NOBLOCK)
                              = IF u = t THEN NOBLOCK ELSE UsersOf[u]
    <3>1. CASE open' = [open EXCEPT ![t] = NOBLOCK] /\ pc' = pc
      BY <1>1, <3>1 DEF UsersOf, Idle
    <3>2. CASE pc' = [pc EXCEPT ![t] = "reclaim"] /\ open' = open
      BY <1>1, <3>2 DEF UsersOf, Idle
    <3> QED
      BY <3>1, <3>2 DEF Close
  <2>4. DOMAIN UsersOf = Threads
    BY DEF UsersOf
  <2> QED
    BY <2>1, <2>2, <2>3, <2>4
<1>4. Quiet(sfs, sfs')
  <2>1. CASE sfs.vnodes[b].refs > 1 /\ sfs' = [sfs EXCEPT !.vnodes[b].refs = @ - 1]
    <3>1. sfs.vnodes[b].refs # 1
      BY <2>1
    <3> DEFINE H == Held
    <3>2. Sound(sfs, {}, H) /\ H[b] >= 1
      BY <1>2
    <3> HIDE DEF b, H
    <3> QED
      BY <1>2, <2>1, <3>1, <3>2, DropReference DEF Quiet
  <2>2. CASE sfs' = sfs
    BY <2>2, QuietSelf
  <2> QED
    BY <2>1, <2>2 DEF Close
<1>5. SameNames(sfs, sfs') /\ SameData(sfs, sfs')
  BY <1>4 DEF Quiet
<1>6. SeenForget
  <2> DEFINE G == Held'
             U == UsersOf
             V == UsersOf'
  <2>1. DOMAIN U = Threads /\ V = [U EXCEPT ![t] = NOBLOCK] /\ NOBLOCK \notin Blocks
    BY <1>3, Indices DEF UsersOf
  <2> HIDE DEF G, U, V
  <2>2. \A f \in Blocks, u \in Threads : V[u] = f => U[u] = f
    BY <2>1
  <2>3. \A f \in Blocks : Lives(f)' => Lives(f)
    BY <1>5, <2>2 DEF Seen, Shown, SameNames, U, V
  <2>4. Intact(sfs, sfs', G)
    BY <1>5, IntactSame
  <2> QED
    BY <2>3, <2>4, Forgetting DEF Seen, G
<1> QED
  BY <1>3, <1>5, <1>6, Closes DEF Seen, SameNames

\* sfs_reclaim itself is not.
LEMMA CallReclaimSeen ==
  ASSUME Seen, NEW t \in Threads, CallReclaim(t)
  PROVE  Abstract!ANext
<1> DEFINE b == open[t]
<1>1. /\ open \in [Threads -> Numbers] /\ Finite(open) /\ pc \in [Threads -> {"idle", "reclaim"}]
      /\ b # NOBLOCK /\ pc[t] = "reclaim" /\ mounted' = mounted
      /\ open' = [open EXCEPT ![t] = NOBLOCK] /\ pc' = [pc EXCEPT ![t] = "idle"]
  BY DEF Seen, SfsInv, TypeOK, CallReclaim
<1>2. /\ mounted /\ b \in Blocks /\ sfs.vnodes[b] # NULL
      /\ Sound(sfs, {}, Held) /\ Held[b] >= 1
  BY <1>1, OpenInMemory DEF Seen
<1> SUFFICES ASSUME Running PROVE Abstract!ANext
  BY Stops DEF Running, Seen
<1>3. UsersOf' = UsersOf
  <2>1. UsersOf' = [u \in Threads |-> IF pc'[u] = "idle" THEN open'[u] ELSE NOBLOCK]
    BY DEF UsersOf, Idle
  <2>2. \A u \in Threads : (IF pc'[u] = "idle" THEN open'[u] ELSE NOBLOCK)
                              = IF pc[u] = "idle" THEN open[u] ELSE NOBLOCK
    BY <1>1
  <2> QED
    BY <2>1, <2>2 DEF UsersOf, Idle
<1>4. PICK r \in Reclaim(sfs, b) : sfs' = r.s
  BY DEF CallReclaim
<1>5. HeldOf(open') = Minus(HeldOf(open), b)
  BY <1>1, <1>2, HeldGiven
<1>6. Sound(sfs', {}, Held')
  BY <1>1, <1>2, NewSound
<1> DEFINE H == Held
<1>7. Sound(sfs, {}, H) /\ H[b] >= 1
  BY <1>2
<1>8. Held' = Minus(H, b)
  BY <1>5 DEF Held
<1> HIDE DEF b, H
<1>9. Sound(r.s, {}, Minus(H, b))
  BY <1>4, <1>6, <1>8
<1>10. SameNames(sfs, r.s) /\ Intact(sfs, r.s, Minus(H, b))
  BY <1>2, <1>4, <1>7, <1>9, ReclaimDone
<1>11. Spared(sfs, sfs', Held')
  BY <1>4, <1>8, <1>10 DEF Spared
<1> QED
  BY <1>3, <1>11, Unseen DEF Seen

\* Whether the volume is mounted is not seen.
LEMMA UnmountSeen ==
  ASSUME Seen, DoUnmount
  PROVE  Abstract!ANext
<1> SUFFICES ASSUME Running PROVE Abstract!ANext
  BY Stops DEF Running, Seen
<1> DEFINE H == Held
<1>1. Sound(sfs, {}, H) /\ UNCHANGED <<open, pc>>
  BY DEF Seen, SfsInv, DoUnmount
<1>2. PICK r \in Unmount(sfs) : sfs' = r.s
  BY DEF DoUnmount
<1>3. UsersOf' = UsersOf
  BY <1>1, SameUsers
<1> HIDE DEF H
<1>4. Quiet(sfs, r.s)
  BY <1>1, <1>2, UnmountDone
<1> QED
  BY <1>2, <1>3, <1>4, QuietUnseen DEF Seen

LEMMA MountSeen ==
  ASSUME Seen, DoMount
  PROVE  Abstract!ANext
<1> SUFFICES ASSUME Running PROVE Abstract!ANext
  BY Stops DEF Running, Seen
<1> DEFINE H == Held
<1>1. Unmounted(sfs, H) /\ UNCHANGED <<open, pc>>
  BY DEF Seen, SfsInv, DoMount
<1>2. PICK r \in Mount(sfs) : sfs' = r.s
  BY DEF DoMount
<1>3. UsersOf' = UsersOf
  BY <1>1, SameUsers
<1> HIDE DEF H
<1>4. Quiet(sfs, r.s)
  BY <1>1, <1>2, MountDone
<1> QED
  BY <1>2, <1>3, <1>4, QuietUnseen DEF Seen

\* Every step of sfs is one of files with names, or not seen at all.
LEMMA NextSeen ==
  ASSUME Seen, Next
  PROVE  Abstract!ANext
<1>1. CASE OnNames
  BY <1>1, RemoveSeen, RenameSeen DEF OnNames
<1>2. ASSUME NEW ino \in OpenFiles, OnFile(ino)
      PROVE  Abstract!ANext
  <2>1. CASE \E n \in Names : Call(Link(sfs, n, ino))
    BY <2>1, LinkSeen
  <2>2. CASE Call(SyncInode(sfs, ino))
    BY <2>2, SyncInodeSeen
  <2>3. CASE Call(UNION {Read(sfs, ino, i) : i \in FileBlocks})
    BY <2>3, ReadSeen
  <2>4. CASE \E i \in FileBlocks : Call(Write(sfs, ino, i))
    BY <2>4, WriteSeen
  <2>5. CASE \E i \in FileBlocks : Call(Itrunc(sfs, ino, i))
    BY <2>5, ItruncSeen
  <2> QED
    BY <1>2, <2>1, <2>2, <2>3, <2>4, <2>5 DEF OnFile
<1>3. ASSUME NEW t \in Threads, Step(t)
      PROVE  Abstract!ANext
  <2>1. CASE \E n \in Names : Open(t, Lookonce(sfs, n))
    BY <2>1, LookonceSeen
  <2>2. CASE \E n \in Names : Open(t, Creat(sfs, n))
    BY <2>2, CreatSeen
  <2> QED
    BY <1>3, <2>1, <2>2, CloseSeen, CallReclaimSeen DEF Step
<1> QED
  BY <1>1, <1>2, <1>3, UnmountSeen, MountSeen, SyncSeen DEF Next

LEMMA StutterSeen ==
  ASSUME UNCHANGED vars
  PROVE  UNCHANGED Abstract!avars
<1>1. sfs' = sfs /\ open' = open /\ pc' = pc
  BY DEF vars
<1>2. UsersOf' = UsersOf
  BY <1>1, SameUsers
<1>3. \A b \in Blocks : Lives(b)' <=> Lives(b)
  BY <1>1 DEF Lives, Idle
<1>4. \A b \in Blocks : BlocksOf(InodeOf(b))' = BlocksOf(InodeOf(b))
  BY <1>1 DEF BlocksOf, InodeOf, PointersIn
<1>5. FilesOf' = FilesOf
  BY <1>1, <1>3, <1>4 DEF FilesOf
<1> QED
  BY <1>1, <1>2, <1>5 DEF Abstract!avars, UsersOf, FilesOf

LEMMA InitSeen == Init => Abstract!AInit
<1> SUFFICES ASSUME Init PROVE Abstract!AInit
  OBVIOUS
<1>1. /\ sfs.dents = [n \in Names |-> NOBLOCK] /\ sfs.panic = "none"
      /\ open = [t \in Threads |-> NOBLOCK]
  BY DEF Init
<1>2. UsersOf = [t \in Threads |-> NOBLOCK]
  BY <1>1 DEF UsersOf
<1>3. \A b \in Blocks : ~Lives(b)
  BY <1>1, Indices DEF Lives
<1>4. FilesOf = [b \in Blocks |-> {}]
  BY <1>3 DEF FilesOf
<1> QED
  BY <1>1, <1>2, <1>4 DEF Abstract!AInit, UsersOf, FilesOf

\* sfs implements files with names: a call takes effect as a whole or not at all
\* though reads and writes of the disk fail, a file that has a name or is open loses
\* no data to the calls of others, and nothing of it is lost when its vnode is
\* reclaimed or the volume unmounted and mounted again.  The exception is one failure:
\* once sfs_itrunc could not write back an indirect block (sfs_bmap.c:285-289), the
\* code goes on and nothing is claimed; a block listed there may become another
\* file's.
THEOREM SfsRefines == Spec => ImplementsFiles
<1>1. Init => Abstract!AInit
  BY InitSeen
<1>2. SfsInv /\ SfsInv' /\ [Next]_vars => [Abstract!ANext]_(Abstract!avars)
  <2> SUFFICES ASSUME SfsInv, SfsInv', [Next]_vars
               PROVE  [Abstract!ANext]_(Abstract!avars)
    OBVIOUS
  <2>1. Shown
    BY ShownInv
  <2>2. Shown'
    BY ShownInv, PTL
  <2>3. CASE Next
    <3>1. sfs.panic = "none"
      BY <2>3 DEF Next
    <3> QED
      BY <2>1, <2>2, <2>3, <3>1, NextSeen DEF Seen
  <2>4. CASE UNCHANGED vars
    BY <2>4, StutterSeen
  <2> QED
    BY <2>3, <2>4
<1> QED
  BY <1>1, <1>2, Invariant, PTL DEF Spec, ImplementsFiles, Abstract!ASpec

=============================================================================
