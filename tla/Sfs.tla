--------------------------------- MODULE Sfs ---------------------------------
(***************************************************************************)
(* kern/fs/sfs, the simple file system, with the part of kern/vfs that     *)
(* opens, closes, syncs, mounts and unmounts it.                           *)
(*                                                                         *)
(* vfs_biglock covers every operation, so that each is one action.  The    *)
(* one decision outside it is vnode_decref's, which passes the last        *)
(* reference to sfs_reclaim undecremented: a thread in between has pc      *)
(* "reclaim".  An operation is written as the set of its outcomes, one for *)
(* each way in which the disk may fail under it: every block read or       *)
(* written may, after the ten retries of sfs_rwblock, and then has done    *)
(* nothing.  (A read that fails stands for kmalloc failing, too.)          *)
(*                                                                         *)
(* The superblock, the free map's block and the root directory are not     *)
(* among Blocks.  The directory has been full before, so that its block    *)
(* and its size no longer change.  What files contain, and their sizes,    *)
(* are left out: a read may be of any block.  So is what a disk block      *)
(* holds from when its copy in memory changes to when it is written back:  *)
(* it is Stale then, and Zeros if free, and reading it would be an error.  *)
(***************************************************************************)
EXTENDS Integers, Sequences, FiniteSets, FiniteSetsExt

CONSTANTS Threads, Names,
          NBlocks,     \* blocks for inodes, indirect blocks and data
          NDIRECT, DBPERIDB,
          MaxFaults,   \* bound: reads and writes that fail
          NULL

Blocks == 1 .. NBlocks
NOBLOCK == 0               \* also SFS_NOINO
DirectIx == 0 .. NDIRECT - 1
IndirectIx == 0 .. DBPERIDB - 1
FileBlocks == 0 .. NDIRECT + DBPERIDB - 1

ASSUME SfsAssumption == /\ NBlocks \in Nat \ {0}
                        /\ NDIRECT \in Nat \ {0}
                        /\ DBPERIDB \in Nat \ {0}
                        /\ MaxFaults \in Nat
                        /\ NULL \notin Blocks \cup Threads

VARIABLES
  sfs,       \* the volume, in memory and on disk:
             \*   map            the free map in memory: the used blocks
             \*   mapdirty       whether it changed
             \*   vnodes         the vnode of each inode, or NULL
             \*   diskmap        the free map on disk, StaleMap if the one in memory changed
             \*   dents, disk    the directory and the blocks on disk
             \*   faults         how often the disk has failed
             \*   panic          what stopped the kernel, or "none"; "torn" is no panic: an
             \*                  indirect block on disk lists blocks that are free, and
             \*                  no behaviour is followed past it
  mounted,
  open,      \* the inode whose vnode t has a reference to, or NOBLOCK
  pc         \* "idle", or "reclaim": in vnode_decref, about to call VOP_RECLAIM

vars == <<sfs, mounted, open, pc>>

\* What a block may hold: zeros (or a file's data), an inode, block numbers, or
\* something out of date.
Zeros == [kind |-> "zeros"]
Stale == [kind |-> "stale"]
StaleMap == {NOBLOCK}
Pointers(p) == IF \A j \in IndirectIx : p[j] = NOBLOCK THEN Zeros ELSE [kind |-> "ptrs", p |-> p]
NoPointers == [j \in IndirectIx |-> NOBLOCK]

\* struct sfs_dinode, as in struct sfs_vnode and as on disk.
NewInode == [links |-> 0, direct |-> [i \in DirectIx |-> NOBLOCK], ind |-> NOBLOCK]
Vnode(i, dirty) == [i |-> i, refs |-> 1, dirty |-> dirty]
Inode(i) == [kind |-> "inode", i |-> i]

\* The types of inodes, vnodes, blocks and volumes.
Numbers == Blocks \cup {NOBLOCK}
Inodes == [links : Nat, direct : [DirectIx -> Numbers], ind : Numbers]
Vnodes == [i : Inodes, refs : Nat \ {0}, dirty : BOOLEAN]
Contents == {Zeros, Stale} \cup [kind : {"ptrs"}, p : [IndirectIx -> Numbers]]
                           \cup [kind : {"inode"}, i : Inodes]
Panics == {"none", "torn", "garbage", "marked free", "bitmap.c:156", "unallocated",
           "invalid inode type", "sfs_inode.c:177", "sfs_inode.c:214", "linkcount 0",
           "Cannot recover", "sfs_fsops.c:291"}
Volumes == [map : SUBSET Blocks, mapdirty : BOOLEAN, vnodes : [Blocks -> Vnodes \cup {NULL}],
            diskmap : SUBSET Numbers, dents : [Names -> Numbers],
            disk : [Blocks -> Contents], faults : Nat, panic : Panics]

ASSUME NullAssumption == NULL \notin Vnodes

Init == /\ sfs = [map |-> {}, mapdirty |-> FALSE, vnodes |-> [b \in Blocks |-> NULL],
                  diskmap |-> {}, dents |-> [n \in Names |-> NOBLOCK],
                  disk |-> [b \in Blocks |-> Zeros],
                  faults |-> 0, panic |-> "none"]
        /\ mounted = TRUE
        /\ open = [t \in Threads |-> NOBLOCK]
        /\ pc = [t \in Threads |-> "idle"]

-----------------------------------------------------------------------------
(* Outcomes: the volume s afterwards, whether an error is returned, and a  *)
(* block number v otherwise.                                               *)
Ok(s, v) == {[s |-> s, err |-> FALSE, v |-> v]}
Fail(s) == {[s |-> s, err |-> TRUE, v |-> NOBLOCK]}
Panic(s, what) == Fail([s EXCEPT !.panic = what])

\* First R, then F of its result, or G if R returned an error.
Try(R, F(_, _), G(_)) ==
  UNION {IF ~r.err THEN F(r.s, r.v)
         ELSE IF r.s.panic # "none" THEN {r} ELSE G(r.s) : r \in R}
Then(R, F(_, _)) == Try(R, F, Fail)
Ignore(R) == Try(R, Ok, LAMBDA s : Ok(s, NOBLOCK))

\* sfs_rwblock gives up, on a read or a write.
Faulty(s) == IF s.faults < MaxFaults THEN Fail([s EXCEPT !.faults = @ + 1]) ELSE {}
ReadBlock(s) == Ok(s, NOBLOCK) \cup Faulty(s)
WriteBlock(s, b, c) == Ok([s EXCEPT !.disk[b] = c], b) \cup Faulty(s)

\* A block that should hold block numbers holds something else.
Garbage(s) == Panic(s, "garbage")

-----------------------------------------------------------------------------
(* sfs_balloc.c *)

\* mutant: the free map is not marked dirty, and never written.
SetMapOnly(s, m) == [s EXCEPT !.map = m]
SetMap(s, m) == [s EXCEPT !.map = m, !.mapdirty = TRUE, !.diskmap = StaleMap]

\* sfs_balloc: the lowest free block, cleared.
Balloc(s) ==
  LET b == Min(Blocks \ s.map) IN
    IF s.map = Blocks THEN Fail(s)
    ELSE Try(WriteBlock(SetMap(s, s.map \cup {b}), b, Zeros), Ok,
             LAMBDA u : Fail([u EXCEPT !.map = @ \ {b}]))

\* sfs_bfree of the blocks f lists, one after the other; bitmap_unmark asserts
\* that each is in use.  Nothing reads a free block: what it held is forgotten.
Bfree(s, f) ==
  LET I == {i \in DOMAIN f : f[i] # NOBLOCK}
      B == {f[i] : i \in I}
  IN IF Cardinality(B) = Cardinality(I) /\ B \subseteq s.map
     THEN Ok(IF B = {} THEN s
             ELSE [SetMap(s, s.map \ B) EXCEPT !.disk =
                     [b \in Blocks |-> IF b \in B THEN Zeros ELSE @[b]]], NOBLOCK)
     ELSE Panic(s, "bitmap.c:156")

-----------------------------------------------------------------------------
(* sfs_bmap.c *)

\* A block about to be handed back must be in use.
Checked(s, b) == IF b # NOBLOCK /\ b \notin s.map THEN Panic(s, "marked free") ELSE Ok(s, b)

\* The block numbers in indirect block b.
PointersIn(s, b) == IF s.disk[b] = Zeros THEN NoPointers ELSE s.disk[b].p
Readable(s, b) == s.disk[b].kind \in {"zeros", "ptrs"}

SetDirty(s, ino) == [s EXCEPT !.vnodes[ino].dirty = TRUE, !.disk[ino] = Stale]
SetDirect(s, ino, i, b) == SetDirty([s EXCEPT !.vnodes[ino].i.direct[i] = b], ino)
\* mutant: an indirect block that was freed stays in the inode.
SetIndirectUnlessGone(s, ino, b) ==
  IF b = NOBLOCK THEN s ELSE SetDirty([s EXCEPT !.vnodes[ino].i.ind = b], ino)
SetIndirect(s, ino, b) == SetDirty([s EXCEPT !.vnodes[ino].i.ind = b], ino)

\* The indirect block, read into memory; a new one if doalloc asks for it.
IndirectBlock(s, ino, doalloc) ==
  LET b == s.vnodes[ino].i.ind IN
    IF b # NOBLOCK THEN Then(ReadBlock(s), LAMBDA u, v : Ok(u, b))
    ELSE IF doalloc THEN Then(Balloc(s), LAMBDA u, v : Ok(SetIndirect(u, ino, v), v))
    ELSE Ok(s, NOBLOCK)

\* A new block for entry j of indirect block id, which is written back.
NewEntry(s, id, j) ==
  Then(Balloc(s), LAMBDA u, b :
    Then(WriteBlock(u, id, Pointers([PointersIn(s, id) EXCEPT ![j] = b])),
         LAMBDA w, v : Ok(w, b)))

\* sfs_bmap: the disk block of block i of the file.
Bmap(s, ino, i, doalloc) ==
  IF i < NDIRECT
  THEN LET b == s.vnodes[ino].i.direct[i] IN
         IF b = NOBLOCK /\ doalloc
         THEN Then(Balloc(s), LAMBDA u, v : Ok(SetDirect(u, ino, i, v), v))
         ELSE Checked(s, b)
  ELSE Then(IndirectBlock(s, ino, doalloc), LAMBDA u, id :
         LET b == PointersIn(u, id)[i - NDIRECT] IN
           IF id = NOBLOCK THEN Ok(u, NOBLOCK)
           ELSE IF ~Readable(u, id) THEN Garbage(u)
           ELSE IF b = NOBLOCK /\ doalloc THEN NewEntry(u, id, i - NDIRECT)
           ELSE Checked(u, b))

\* The entries of the indirect block that sfs_itrunc(len) discards: those past
\* block len.  (Block len itself is past the end as well, but stays.)
PastEnd(len) == {j \in IndirectIx : len < NDIRECT + j}

\* The indirect part of sfs_itrunc.  When the indirect block cannot be written back
\* the code returns the error and goes on, with freed blocks listed on disk; the
\* model ends there, "torn".
ItruncIndirect(s, ino, len) ==
  LET id == s.vnodes[ino].i.ind
      p == PointersIn(s, id)
      gone == [j \in IndirectIx |-> IF j \in PastEnd(len) THEN p[j] ELSE NOBLOCK]
      kept == [j \in IndirectIx |-> IF j \in PastEnd(len) THEN NOBLOCK ELSE p[j]]
  IN IF id = NOBLOCK \/ len >= NDIRECT + DBPERIDB - 1 THEN Ok(s, NOBLOCK)
     ELSE Then(ReadBlock(s), LAMBDA u, v :
       IF ~Readable(u, id) THEN Garbage(u)
       ELSE Then(Bfree(u, gone), LAMBDA w, x :
         IF kept = NoPointers
         THEN Then(Bfree(w, <<id>>), LAMBDA y, z : Ok(SetIndirect(y, ino, NOBLOCK), NOBLOCK))
         ELSE IF gone = NoPointers THEN Ok(w, NOBLOCK)
         ELSE Try(WriteBlock(w, id, Pointers(kept)), Ok,
                  LAMBDA y : Panic(y, "torn"))))

\* sfs_itrunc: nothing that fails is undone.
Itrunc(s, ino, len) ==
  LET sv == s.vnodes[ino]
      gone == [i \in DirectIx |-> IF i >= len THEN sv.i.direct[i] ELSE NOBLOCK]
      kept == [i \in DirectIx |-> IF i >= len THEN NOBLOCK ELSE sv.i.direct[i]]
      Cut(u) == IF kept = sv.i.direct THEN u
                ELSE SetDirty([u EXCEPT !.vnodes[ino].i.direct = kept], ino)
  IN Then(Bfree(s, gone), LAMBDA u, v :
       Then(ItruncIndirect(Cut(u), ino, len), LAMBDA w, x : Ok(SetDirty(w, ino), NOBLOCK)))

-----------------------------------------------------------------------------
(* sfs_inode.c *)

SyncInode(s, ino) ==
  IF s.vnodes[ino].dirty
  THEN Then(WriteBlock(s, ino, Inode(s.vnodes[ino].i)), LAMBDA u, v :
         Ok([u EXCEPT !.vnodes[ino].dirty = FALSE], NOBLOCK))
  ELSE Ok(s, NOBLOCK)

\* sfs_reclaim.  After an error the vnode stays, with a reference nobody has.
Reclaim(s, ino) ==
  LET erase == s.vnodes[ino].i.links = 0 IN
    IF s.vnodes[ino].refs # 1 THEN Ok([s EXCEPT !.vnodes[ino].refs = @ - 1], NOBLOCK)
    ELSE Then(IF erase THEN Itrunc(s, ino, 0) ELSE Ok(s, NOBLOCK), LAMBDA u, v :
           Then(SyncInode(u, ino), LAMBDA w, x :
             Then(IF erase THEN Bfree(w, <<ino>>) ELSE Ok(w, NOBLOCK), LAMBDA y, z :
               Ok([y EXCEPT !.vnodes[ino] = NULL], NOBLOCK))))

\* VOP_DECREF by a thread that holds vfs_biglock; the error is only printed.
Decref(s, ino) == Ignore(Reclaim(s, ino))

\* sfs_loadvnode.  Every inode in memory must be in an allocated block.
Misplaced(s, ino) == \E b \in Blocks \ s.map : b = ino \/ s.vnodes[b] # NULL
LoadVnode(s, ino) ==
  IF Misplaced(s, ino) THEN Panic(s, "unallocated")
  ELSE IF s.vnodes[ino] # NULL THEN Ok([s EXCEPT !.vnodes[ino].refs = @ + 1], ino)
  ELSE Then(ReadBlock(s), LAMBDA u, v :
         IF u.disk[ino].kind # "inode" THEN Panic(u, "invalid inode type")
         ELSE Ok([u EXCEPT !.vnodes[ino] = Vnode(u.disk[ino].i, FALSE)], ino))

\* sfs_loadvnode with a forcetype, of a block that sfs_balloc has cleared.
LoadNew(s, ino) ==
  IF Misplaced(s, ino) THEN Panic(s, "unallocated")
  ELSE IF s.vnodes[ino] # NULL THEN Panic(s, "sfs_inode.c:177")
  ELSE Then(ReadBlock(s), LAMBDA u, v :
         IF u.disk[ino].kind # "zeros" THEN Panic(u, "sfs_inode.c:214")
         ELSE Ok(SetDirty([u EXCEPT !.vnodes[ino] = Vnode(NewInode, TRUE)], ino), ino))

\* sfs_makeobj.
MakeObj(s) ==
  Then(Balloc(s), LAMBDA u, ino :
    Try(LoadNew(u, ino), Ok, LAMBDA w : Then(Bfree(w, <<ino>>), LAMBDA x, v : Fail(x))))

-----------------------------------------------------------------------------
(* sfs_dir.c *)

\* sfs_dir_findname: the inode, or SFS_NOINO for ENOENT.
FindName(s, n) == Then(ReadBlock(s), LAMBDA u, v : Ok(u, u.dents[n]))

\* sfs_writedir, through sfs_metaio, which reads the block and writes it back.
WriteDir(s, n, ino) ==
  Then(ReadBlock(s), LAMBDA u, v : Ok([u EXCEPT !.dents[n] = ino], ino) \cup Faulty(u))

DirLink(s, n, ino) ==
  Then(FindName(s, n), LAMBDA u, v : IF v # NOBLOCK THEN Fail(u) ELSE WriteDir(u, n, ino))
DirUnlink(s, n) == WriteDir(s, n, NOBLOCK)

AddLinks(s, ino, k) == SetDirty([s EXCEPT !.vnodes[ino].i.links = @ + k], ino)

\* sfs_lookonce.
Lookonce(s, n) ==
  Then(FindName(s, n), LAMBDA u, ino :
    IF ino = NOBLOCK THEN Fail(u)
    ELSE Then(LoadVnode(u, ino), LAMBDA w, v :
           IF w.vnodes[ino].i.links = 0 THEN Panic(w, "linkcount 0") ELSE Ok(w, ino)))

-----------------------------------------------------------------------------
(* sfs_vnops.c and sfs_fsops.c *)

\* sfs_creat, with or without O_EXCL.
Creat(s, n) ==
  Then(FindName(s, n), LAMBDA u, ino :
    IF ino # NOBLOCK THEN Fail(u) \cup LoadVnode(u, ino)
    ELSE Then(MakeObj(u), LAMBDA w, new :
           Try(DirLink(w, n, new),
               LAMBDA x, v : Ok(AddLinks(x, new, 1), new),
               LAMBDA x : Then(Decref(x, new), LAMBDA y, z : Fail(y)))))

\* sfs_link.
Link(s, n, ino) == Then(DirLink(s, n, ino), LAMBDA u, v : Ok(AddLinks(u, ino, 1), ino))

\* sfs_remove.
Remove(s, n) ==
  Then(Lookonce(s, n), LAMBDA u, ino :
    Then(Try(DirUnlink(u, n), LAMBDA w, v : Ok(AddLinks(w, ino, -1), ino), LAMBDA w : Ok(w, ino)),
         LAMBDA w, v : Decref(w, ino)))

\* mutant: the new name is taken back, but not the link it counted for.
UndoNameOnly(s, n, ino) ==
  Try(DirUnlink(s, n), LAMBDA u, v : Ok(u, ino), LAMBDA u : Panic(u, "Cannot recover"))

\* mutant: both names stay, and both links.
UndoNothing(s, n, ino) == Ok(s, ino)

\* puke_harder of sfs_rename: the new name is taken back.
UndoRename(s, n, ino) ==
  Try(DirUnlink(s, n),
      LAMBDA u, v : Ok([u EXCEPT !.vnodes[ino].i.links = @ - 1], ino),
      LAMBDA u : Panic(u, "Cannot recover"))

\* mutant: when the new name exists, the reference of the lookup stays.
RenameKeepsVnode(s, n1, n2) ==
  Then(Lookonce(s, n1), LAMBDA u, ino :
    Then(Link(u, n2, ino), LAMBDA w, v :
      Then(Try(DirUnlink(w, n1),
               LAMBDA x, y : Ok(AddLinks(x, ino, -1), ino),
               LAMBDA x : UndoRename(x, n2, ino)),
           LAMBDA x, y : Decref(x, ino))))

\* sfs_rename.
Rename(s, n1, n2) ==
  Then(Lookonce(s, n1), LAMBDA u, ino :
    Then(Try(Link(u, n2, ino),
             LAMBDA w, v : Try(DirUnlink(w, n1),
                               LAMBDA x, y : Ok(AddLinks(x, ino, -1), ino),
                               LAMBDA x : UndoRename(x, n2, ino)),
             LAMBDA w : Ok(w, ino)),
         LAMBDA w, v : Decref(w, ino)))

\* sfs_io of one block.
Write(s, ino, i) ==
  Then(Bmap(s, ino, i, TRUE), LAMBDA u, b : WriteBlock(u, b, Zeros))
Read(s, ino, i) ==
  Then(Bmap(s, ino, i, FALSE), LAMBDA u, b : IF b = NOBLOCK THEN Ok(u, b) ELSE ReadBlock(u))

\* sfs_sync_vnodes: some of the inodes to be written may fail to be, and
\* nobody looks.
SyncVnodes(s) ==
  LET dirty == {b \in Blocks : s.vnodes[b] # NULL /\ s.vnodes[b].dirty} IN
  UNION {LET done == dirty \ failed IN
         Ok([s EXCEPT !.faults = @ + Cardinality(failed),
               !.vnodes = [b \in Blocks |-> IF b \in done THEN [@[b] EXCEPT !.dirty = FALSE] ELSE @[b]],
               !.disk = [b \in Blocks |-> IF b \in done THEN Inode(s.vnodes[b].i) ELSE @[b]]],
            NOBLOCK)
         : failed \in {F \in SUBSET dirty : Cardinality(F) <= MaxFaults - s.faults}}

\* sfs_sync; sfs_superdirty is never set.
Sync(s) ==
  Then(SyncVnodes(s), LAMBDA u, v :
    IF u.mapdirty THEN Ok([u EXCEPT !.diskmap = u.map, !.mapdirty = FALSE], NOBLOCK) \cup Faulty(u)
    ELSE Ok(u, NOBLOCK))

\* vfs_unmount: a sync, and then sfs_unmount.
Unmount(s) ==
  Then(Sync(s), LAMBDA u, v :
    IF \E b \in Blocks : u.vnodes[b] # NULL THEN Fail(u)
    ELSE IF u.mapdirty THEN Panic(u, "sfs_fsops.c:291")
    ELSE Ok([u EXCEPT !.map = {}], NOBLOCK))

\* sfs_domount.
Mount(s) == Then(ReadBlock(s), LAMBDA u, v : Ok([u EXCEPT !.map = u.diskmap], NOBLOCK))

-----------------------------------------------------------------------------
Idle(t) == pc[t] = "idle"

\* An operation whose caller, one of Threads or another, keeps no reference.
Call(R) == /\ mounted
           /\ \E s \in {r.s : r \in R} : sfs' = s
           /\ UNCHANGED <<mounted, open, pc>>

\* An operation on a file that its caller has open.
OpenFiles == {open[t] : t \in {u \in Threads : Idle(u)}} \ {NOBLOCK}

\* vfs_open; O_TRUNC is a Truncate that follows.
Open(t, R) == /\ Idle(t)
              /\ mounted
              /\ open[t] = NOBLOCK
              /\ \E r \in R : /\ sfs' = r.s
                              /\ open' = [open EXCEPT ![t] = r.v]
              /\ UNCHANGED <<mounted, pc>>

\* vfs_close: vnode_decref, without vfs_biglock.
Close(t) ==
  LET b == open[t] IN
  /\ Idle(t)
  /\ b # NOBLOCK
  /\ IF sfs.vnodes[b].refs > 1
     THEN /\ sfs' = [sfs EXCEPT !.vnodes[b].refs = @ - 1]
          /\ open' = [open EXCEPT ![t] = NOBLOCK]
          /\ UNCHANGED pc
     ELSE /\ pc' = [pc EXCEPT ![t] = "reclaim"]
          /\ UNCHANGED <<sfs, open>>
  /\ UNCHANGED mounted

\* VOP_RECLAIM, which vnode_decref has decided to call.
CallReclaim(t) == /\ pc[t] = "reclaim"
                  /\ \E r \in Reclaim(sfs, open[t]) : sfs' = r.s
                  /\ open' = [open EXCEPT ![t] = NOBLOCK]
                  /\ pc' = [pc EXCEPT ![t] = "idle"]
                  /\ UNCHANGED mounted

DoUnmount == /\ mounted
             /\ \E r \in Unmount(sfs) : sfs' = r.s /\ mounted' = r.err
             /\ UNCHANGED <<open, pc>>

DoMount == /\ ~mounted
           /\ \E r \in Mount(sfs) : sfs' = r.s /\ mounted' = ~r.err
           /\ UNCHANGED <<open, pc>>

OnNames == \E n \in Names : \/ Call(Remove(sfs, n))
                              \/ \E m \in Names : Call(Rename(sfs, n, m))

OnFile(ino) == \/ \E n \in Names : Call(Link(sfs, n, ino))
               \/ Call(SyncInode(sfs, ino))
               \/ Call(UNION {Read(sfs, ino, i) : i \in FileBlocks})
               \/ \E i \in FileBlocks : Call(Write(sfs, ino, i)) \/ Call(Itrunc(sfs, ino, i))

Step(t) == \/ \E n \in Names : Open(t, Lookonce(sfs, n)) \/ Open(t, Creat(sfs, n))
           \/ Close(t)
           \/ CallReclaim(t)

Next == /\ sfs.panic = "none"
        /\ \/ DoUnmount \/ DoMount
           \/ Call(Sync(sfs)) \/ OnNames
           \/ \E ino \in OpenFiles : OnFile(ino)
           \/ \E t \in Threads : Step(t)

Spec == Init /\ [][Next]_vars

-----------------------------------------------------------------------------
\* Types.  A vnode is in memory only with a reference.
TypeOK == /\ sfs \in Volumes
          /\ mounted \in BOOLEAN
          /\ open \in [Threads -> Numbers]
          /\ pc \in [Threads -> {"idle", "reclaim"}]

Live == {b \in Blocks : sfs.vnodes[b] # NULL \/ \E n \in Names : sfs.dents[n] = b}
InodeOf(b) == IF sfs.vnodes[b] # NULL THEN sfs.vnodes[b].i ELSE sfs.disk[b].i

\* The blocks file b lists: its indirect block (at -1) and its data.
Places == FileBlocks \cup {-1}
Block(b, k) == CASE k = -1 -> InodeOf(b).ind
                 [] k \in DirectIx -> InodeOf(b).direct[k]
                 [] OTHER -> IF InodeOf(b).ind = NOBLOCK THEN NOBLOCK
                             ELSE PointersIn(sfs, InodeOf(b).ind)[k - NDIRECT]
Uses == {u \in Live \X Places : Block(u[1], u[2]) # NOBLOCK}
InUse == Live \cup {Block(u[1], u[2]) : u \in Uses}

\* Unless an indirect block could not be written back, no block has two uses,
\* every block in use is marked so, in memory or, after an unmount, on disk,
\* and no more are marked without use than the disk has failed times.
BlocksExact ==
  LET marked == IF mounted THEN sfs.map ELSE sfs.diskmap IN
  sfs.panic = "none" =>
    /\ Cardinality(InUse) = Cardinality(Live) + Cardinality(Uses)
    /\ InUse \subseteq marked
    /\ Cardinality(marked \ InUse) <= sfs.faults

\* The link count of an inode, in memory or on disk, is the number of its names.
LinksExact ==
  sfs.panic = "none" =>
    \A b \in Live : InodeOf(b).links = Cardinality({n \in Names : sfs.dents[n] = b})

\* A vnode has a reference for every thread that holds one, those about to
\* reclaim it included: none is freed in use, and none stays behind, but for
\* one each time the disk fails under sfs_reclaim.
RefsExact ==
  LET Refs(b) == IF sfs.vnodes[b] = NULL THEN 0 ELSE sfs.vnodes[b].refs
      Extra(b) == Refs(b) - Cardinality({t \in Threads : open[t] = b})
  IN sfs.panic = "none" =>
       /\ \A b \in Blocks : Extra(b) \in {0, 1}
       /\ Cardinality({b \in Blocks : Extra(b) = 1}) <= sfs.faults

\* As long as no indirect block failed to be written back in sfs_itrunc ("torn"), no
\* assertion or panic of sfs, the bitmap and the inode cache stops the kernel but
\* that of a rename whose undoing fails as well.  Past such a block others can.
OnlyKnownPanics ==
  \/ sfs.panic = "none"
  \/ sfs.panic = "Cannot recover" /\ sfs.faults >= 2
  \/ sfs.panic = "torn" /\ sfs.faults >= 1

\* Directory, vnodes and blocks as files with names.  A thread in vnode_decref
\* has closed its file.
BlocksOf(i) ==
  LET p == IF i.ind = NOBLOCK THEN NoPointers ELSE PointersIn(sfs, i.ind) IN
    {k \in DirectIx : i.direct[k] # NOBLOCK}
      \cup {NDIRECT + j : j \in {j \in IndirectIx : p[j] # NOBLOCK}}
Lives(b) == (\E n \in Names : sfs.dents[n] = b) \/ (\E t \in Threads : Idle(t) /\ open[t] = b)
Abstract == INSTANCE NamedFiles WITH
  Files <- Blocks, None <- NOBLOCK,
  named <- sfs.dents,
  open <- [t \in Threads |-> IF Idle(t) THEN open[t] ELSE NOBLOCK],
  blocks <- [b \in Blocks |-> IF Lives(b) /\ sfs.panic = "none" THEN BlocksOf(InodeOf(b)) ELSE {}],
  stopped <- sfs.panic # "none"

\* sfs implements files with names: a failing disk never leaves half a rename,
\* removal or creation, a removed file stays whole while it is open, no call
\* touches the blocks of another file, and what was written is there after the
\* vnode was reclaimed, the volume unmounted and mounted again.  All this up to an
\* indirect block that sfs_itrunc fails to write back (sfs_bmap.c:285), where the
\* code goes on and nothing is promised: a block it lists may become another file's.
ImplementsFiles == Abstract!ASpec
=============================================================================
