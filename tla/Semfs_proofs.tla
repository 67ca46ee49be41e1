---------------------------- MODULE Semfs_proofs ----------------------------
(***************************************************************************)
(* Proofs about Semfs, for any finite set of threads and any names, number *)
(* of semaphores and width of the counts: the directory, the table of      *)
(* semaphores and that of vnodes agree, references are counted exactly,    *)
(* only the three known assertions are met, and what users see are the     *)
(* semaphores of the manual page.                                          *)
(***************************************************************************)
EXTENDS Semfs, FiniteSetTheorems, WellFoundedInduction, TLAPS

InDir == {"dir", "inserted", "unlinked", "freeing"}
InRemove == {"unlinked", "freeing"}

HasName(i) == \E d \in Entries : d.num = i
Users(i) == {t \in Threads : open[t] = i /\ pc[t] # "clearing"}
Keeps(t, i) == \/ pc[t] = "clearing" /\ open[t] = i
               \/ pc[t] = "inserted" /\ dent.num = i
Removes(t, i) == pc[t] \in InRemove /\ dent.num = i
Sleeps(t, i) == pc[t] = "asleep" /\ open[t] = i

\* No two entries of the directory share a name or a semaphore.
Directory == \A k, l \in DOMAIN semfs_dents :
  k # l /\ semfs_dents[k] # NULL /\ semfs_dents[l] # NULL
    => semfs_dents[k].name # semfs_dents[l].name /\ semfs_dents[k].num # semfs_dents[l].num

\* Who holds the two locks of the file system.
Locked == \A t \in Threads : /\ pc[t] \in InDir <=> dirlock = t
                             /\ pc[t] = "clearing" <=> tablelock = t

\* What a thread has in hand at each place: the semaphore of a creation has
\* neither name nor vnode and nobody reaches it, the entry of a removal is in
\* the directory until the end, and a vnode being cleared has no users.
Work(t) ==
  /\ pc[t] = "inserted" => /\ open[t] = NULL
                           /\ dent \in Entry
                           /\ At(dent.name) = {}
                           /\ ~HasName(dent.num)
                           /\ vn_refcount[dent.num] = 0
                           /\ semfs_sems[dent.num].count = 0
  /\ pc[t] \in InRemove => dent \in Entries
  /\ pc[t] = "freeing" => vn_refcount[dent.num] = 0
  /\ pc[t] \in {"asleep", "woken", "reclaim", "clearing"} => open[t] # NULL
  /\ pc[t] = "clearing" => vn_refcount[open[t]] = 0
  /\ uio_resid[t] > 0 <=> pc[t] \in {"asleep", "woken"}
Works == \A t \in Threads : Work(t)

\* Semaphore i is in the table as long as something needs it; its flags, its
\* lock and its sleepers are those its name, its vnode and the threads say.
Record(i) ==
  LET sem == semfs_sems[i]
  IN /\ sem # NULL <=> \/ HasName(i)
                       \/ vn_refcount[i] > 0
                       \/ \E t \in Threads : Keeps(t, i)
     /\ sem # NULL =>
          /\ sem.hasvnode <=> vn_refcount[i] > 0
          /\ sem.linked <=> HasName(i) /\ ~ \E t \in Threads : Removes(t, i)
          /\ \A t \in Threads : sem.holder = t <=> Removes(t, i)
          /\ \A k, l \in DOMAIN sem.cv : k # l => sem.cv[k] # sem.cv[l]
          /\ \A t \in Threads : (\E k \in DOMAIN sem.cv : sem.cv[k] = t) <=> Sleeps(t, i)
Records == \A i \in Slots : Record(i)

\* A semaphore whose vnode is being cleared is not one just created: its number
\* is taken until the end of semfs_reclaim.
Spare == \A t, u \in Threads : pc[t] = "inserted" /\ pc[u] = "clearing" => open[u] # dent.num

Exact == TypeOK /\ Directory /\ Locked /\ Works /\ Spare /\ Records /\ RefsExact
SemfsInv == Exact /\ OnlyKnownPanics

-----------------------------------------------------------------------------
(* The directory.                                                          *)

\* The least element of a set of natural numbers.
LEMMA LowestIn == ASSUME NEW S \in SUBSET Nat, S # {} PROVE Lowest(S) \in S
<1> DEFINE R == OpToRel(<, Nat)
<1>1. \A x, y \in Nat : y < x => <<y, x>> \in R
  BY DEF OpToRel
<1>2. IsWellFoundedOn(R, Nat)
  BY NatLessThanWellFounded
<1> HIDE DEF R
<1>3. PICK x \in S : \A y \in S : ~ (<<y, x>> \in R)
  BY <1>2, WFMin
<1>4. \A y \in S : x \in Nat /\ y \in Nat /\ ~ (y < x)
  BY <1>1, <1>3
<1>5. \A y \in S : x <= y
  BY <1>4
<1> QED
  BY <1>3, <1>5 DEF Lowest

\* The constants.
LEMMA Constant ==
  /\ MaxSems \in Nat /\ MaxSems > 0
  /\ Width \in Nat /\ MaxAmount \in Nat /\ MaxAmount > 0 /\ MaxAmount < Width
  /\ 0 \in Counts
  /\ IsFiniteSet(Threads)
  /\ NULL \notin Threads /\ NULL \notin Slots /\ NULL \notin Entry /\ NULL \notin Sems
BY SemfsAssumption DEF Counts

LEMMA EntryFacts ==
  ASSUME TypeOK
  PROVE  /\ DOMAIN semfs_dents = 1 .. Len(semfs_dents) /\ Len(semfs_dents) \in Nat
         /\ \A k \in DOMAIN semfs_dents : semfs_dents[k] \in Entry \cup {NULL}
         /\ Entries \subseteq Entry
         /\ \A d \in Entries : \E k \in DOMAIN semfs_dents : d = semfs_dents[k]
         /\ \A k \in DOMAIN semfs_dents : semfs_dents[k] # NULL => semfs_dents[k] \in Entries
<1>1. semfs_dents \in Seq(Entry \cup {NULL})
  BY DEF TypeOK
<1>2. /\ DOMAIN semfs_dents = 1 .. Len(semfs_dents) /\ Len(semfs_dents) \in Nat
      /\ \A k \in DOMAIN semfs_dents : semfs_dents[k] \in Entry \cup {NULL}
  BY <1>1
<1> QED
  BY <1>2 DEF Entries

LEMMA EntryFields ==
  ASSUME NEW d \in Entry
  PROVE  d.name \in Names /\ d.num \in Slots /\ d # NULL
BY Constant DEF Entry

\* An entry is found by its name, and by no other.
LEMMA Naming ==
  ASSUME TypeOK, Directory
  PROVE  /\ \A n : At(n) # {} <=> \E d \in Entries : d.name = n
         /\ \A d \in Entries : Named(d.name) = d.num
         /\ \A n : At(n) # {} => \E d \in Entries : d.name = n /\ d.num = Named(n)
         /\ \A d, e \in Entries : d.name = e.name \/ d.num = e.num => d = e
<1>1. \A n : At(n) # {} <=> \E d \in Entries : d.name = n
  BY EntryFacts DEF At, Entries
<1>2. \A d, e \in Entries : d.name = e.name \/ d.num = e.num => d = e
  <2> SUFFICES ASSUME NEW d \in Entries, NEW e \in Entries, d.name = e.name \/ d.num = e.num
               PROVE  d = e
    OBVIOUS
  <2>1. PICK k \in DOMAIN semfs_dents : d = semfs_dents[k] /\ d # NULL
    BY DEF Entries
  <2>2. PICK l \in DOMAIN semfs_dents : e = semfs_dents[l] /\ e # NULL
    BY DEF Entries
  <2> QED
    BY <2>1, <2>2 DEF Directory
<1>3. ASSUME NEW n, At(n) # {}
      PROVE  \E d \in Entries : d.name = n /\ d.num = Named(n)
  <2>1. PICK k \in At(n) : Named(n) = semfs_dents[k].num
    BY <1>3 DEF Named
  <2>2. semfs_dents[k] \in Entries /\ semfs_dents[k].name = n
    BY EntryFacts DEF At
  <2> QED
    BY <2>1, <2>2
<1>4. ASSUME NEW d \in Entries PROVE Named(d.name) = d.num
  <2>1. At(d.name) # {}
    BY <1>1
  <2>2. PICK e \in Entries : e.name = d.name /\ e.num = Named(d.name)
    BY <1>3, <2>1
  <2> QED
    BY <1>2, <2>2
<1> QED
  BY <1>1, <1>2, <1>3, <1>4

\* The array of the directory takes entry d, or stays as long as it grew.
LEMMA EntryAdded ==
  ASSUME TypeOK, Directory, NEW d \in Entry \cup {NULL},
         \A e \in Entries : d # NULL => e.name # d.name /\ e.num # d.num,
         semfs_dents' = WithEntry(d)
  PROVE  /\ semfs_dents' \in Seq(Entry \cup {NULL})
         /\ Directory'
         /\ Entries' = Entries \cup ({d} \ {NULL})
<1> DEFINE s == semfs_dents
<1>0. s \in Seq(Entry \cup {NULL}) /\ DOMAIN s = 1 .. Len(s) /\ Len(s) \in Nat
  BY EntryFacts DEF TypeOK
<1>1. \E p : /\ p \notin DOMAIN s \/ s[p] = NULL
             /\ semfs_dents' \in Seq(Entry \cup {NULL})
             /\ DOMAIN semfs_dents' = DOMAIN s \cup {p}
             /\ \A k \in DOMAIN semfs_dents' : semfs_dents'[k] = IF k = p THEN d ELSE s[k]
  <2>1. CASE HasRoom(s) = {}
    <3>1. semfs_dents' = Append(s, d)
      BY <2>1 DEF WithEntry
    <3>2. /\ semfs_dents' \in Seq(Entry \cup {NULL})
          /\ Len(semfs_dents') = Len(s) + 1
          /\ DOMAIN semfs_dents' = 1 .. Len(s) + 1
          /\ \A k \in 1 .. Len(s) + 1 :
               semfs_dents'[k] = IF k = Len(s) + 1 THEN d ELSE s[k]
      BY <1>0, <3>1
    <3>3. DOMAIN semfs_dents' = DOMAIN s \cup {Len(s) + 1} /\ Len(s) + 1 \notin DOMAIN s
      BY <1>0, <3>2
    <3> QED
      BY <3>2, <3>3
  <2>2. CASE HasRoom(s) # {}
    <3>1. Lowest(HasRoom(s)) \in HasRoom(s)
      <4>1. HasRoom(s) \in SUBSET Nat
        BY <1>0 DEF HasRoom
      <4> QED
        BY <2>2, <4>1, LowestIn
    <3>2. PICK p \in HasRoom(s) : semfs_dents' = [s EXCEPT ![p] = d]
      BY <2>2, <3>1 DEF WithEntry
    <3>3. p \in DOMAIN s /\ s[p] = NULL
      BY DEF HasRoom
    <3>4. semfs_dents' \in Seq(Entry \cup {NULL})
      BY <1>0, <3>2, <3>3
    <3>5. /\ DOMAIN semfs_dents' = DOMAIN s
          /\ \A k \in DOMAIN semfs_dents' : semfs_dents'[k] = IF k = p THEN d ELSE s[k]
      BY <1>0, <3>2, <3>3
    <3> QED
      BY <3>3, <3>4, <3>5
  <2> QED
    BY <2>1, <2>2
<1>2. PICK p : /\ p \notin DOMAIN s \/ s[p] = NULL
               /\ semfs_dents' \in Seq(Entry \cup {NULL})
               /\ DOMAIN semfs_dents' = DOMAIN s \cup {p}
               /\ \A k \in DOMAIN semfs_dents' : semfs_dents'[k] = IF k = p THEN d ELSE s[k]
  BY <1>1
<1>3. \A k \in DOMAIN s : s[k] # NULL => s[k] \in Entries
  BY EntryFacts
<1>4. Entries' = Entries \cup ({d} \ {NULL})
  BY <1>2 DEF Entries
<1>5. Directory'
  <2> SUFFICES ASSUME NEW k \in DOMAIN semfs_dents', NEW l \in DOMAIN semfs_dents', k # l,
                      semfs_dents'[k] # NULL, semfs_dents'[l] # NULL
               PROVE  /\ semfs_dents'[k].name # semfs_dents'[l].name
                      /\ semfs_dents'[k].num # semfs_dents'[l].num
    BY DEF Directory
  <2>1. CASE k # p /\ l # p
    BY <1>2, <2>1 DEF Directory
  <2>2. CASE k = p
    <3>1. semfs_dents'[k] = d /\ semfs_dents'[l] = s[l] /\ l \in DOMAIN s
      BY <1>2, <2>2
    <3> QED
      BY <1>3, <3>1
  <2>3. CASE l = p
    <3>1. semfs_dents'[l] = d /\ semfs_dents'[k] = s[k] /\ k \in DOMAIN s
      BY <1>2, <2>3
    <3> QED
      BY <1>3, <3>1
  <2> QED
    BY <2>1, <2>2, <2>3
<1> QED
  BY <1>2, <1>4, <1>5

\* semfs_direntryarray_set(..., NULL) for the entry of name n.
LEMMA EntryTaken ==
  ASSUME TypeOK, Directory, NEW n, semfs_dents' = WithoutEntry(n)
  PROVE  /\ semfs_dents' \in Seq(Entry \cup {NULL})
         /\ Directory'
         /\ Entries' = {e \in Entries : e.name # n}
<1> DEFINE s == semfs_dents
<1>0. s \in Seq(Entry \cup {NULL}) /\ DOMAIN s = 1 .. Len(s) /\ Len(s) \in Nat
  BY EntryFacts DEF TypeOK
<1>1. /\ DOMAIN semfs_dents' = DOMAIN s
      /\ \A k \in DOMAIN s :
           semfs_dents'[k] = IF s[k] # NULL /\ s[k].name = n THEN NULL ELSE s[k]
  BY DEF WithoutEntry, At
<1>2. semfs_dents' \in Seq(Entry \cup {NULL})
  <2>1. \A k \in 1 .. Len(s) : semfs_dents'[k] \in Entry \cup {NULL}
    BY <1>0, <1>1, EntryFacts
  <2>2. semfs_dents' = [k \in 1 .. Len(s) |-> semfs_dents'[k]]
    BY <1>0 DEF WithoutEntry
  <2> QED
    BY <1>0, <2>1, <2>2
<1>3. Entries' = {e \in Entries : e.name # n}
  BY <1>1 DEF Entries
<1>4. Directory'
  BY <1>1 DEF Directory
<1> QED
  BY <1>2, <1>3, <1>4

-----------------------------------------------------------------------------
(* What the invariant says in every state.                                 *)

LEMMA UsersCounted ==
  ASSUME TypeOK, RefsExact, NEW i \in Slots
  PROVE  /\ IsFiniteSet(Users(i))
         /\ vn_refcount[i] = Cardinality(Users(i)) /\ vn_refcount[i] \in Nat
         /\ vn_refcount[i] > 0 <=> Users(i) # {}
<1>1. IsFiniteSet(Users(i))
  <2>1. Users(i) \in SUBSET Threads
    BY DEF Users
  <2> QED
    BY <2>1, Constant, FS_Subset
<1>2. vn_refcount[i] = Cardinality(Users(i)) /\ vn_refcount[i] \in Nat
  BY DEF RefsExact, Users, TypeOK
<1>3. Cardinality(Users(i)) = 0 <=> Users(i) = {}
  BY <1>1, FS_EmptySet
<1> QED
  BY <1>1, <1>2, <1>3

\* A vnode with a reference has its semaphore, and so does every entry.
LEMMA Reached ==
  ASSUME Exact
  PROVE  /\ \A u \in Threads : open[u] # NULL =>
              /\ open[u] \in Slots
              /\ semfs_sems[open[u]] \in Sems
              /\ pc[u] # "clearing" => /\ vn_refcount[open[u]] > 0
                                       /\ semfs_sems[open[u]].hasvnode
         /\ \A d \in Entries : /\ d.name \in Names /\ d.num \in Slots
                               /\ semfs_sems[d.num] \in Sems
<1>inv. TypeOK /\ Records /\ RefsExact
  BY DEF Exact
<1>1. ASSUME NEW u \in Threads, open[u] # NULL
      PROVE  /\ open[u] \in Slots
             /\ semfs_sems[open[u]] \in Sems
             /\ pc[u] # "clearing" => /\ vn_refcount[open[u]] > 0
                                      /\ semfs_sems[open[u]].hasvnode
  <2>1. open[u] \in Slots
    BY <1>inv, <1>1 DEF TypeOK
  <2>2. Record(open[u]) /\ semfs_sems[open[u]] \in Sems \cup {NULL}
    BY <1>inv, <2>1 DEF Records, TypeOK
  <2>3. pc[u] # "clearing" => vn_refcount[open[u]] > 0
    BY <1>inv, <2>1, UsersCounted DEF Users
  <2>4. pc[u] = "clearing" => Keeps(u, open[u])
    BY DEF Keeps
  <2>5. semfs_sems[open[u]] # NULL
    BY <2>2, <2>3, <2>4 DEF Record
  <2> QED
    BY <2>1, <2>2, <2>3, <2>5 DEF Record
<1>2. ASSUME NEW d \in Entries
      PROVE  d.name \in Names /\ d.num \in Slots /\ semfs_sems[d.num] \in Sems
  <2>1. d.name \in Names /\ d.num \in Slots
    BY <1>inv, EntryFacts, EntryFields
  <2>2. Record(d.num) /\ semfs_sems[d.num] \in Sems \cup {NULL} /\ HasName(d.num)
    BY <1>inv, <2>1 DEF Records, TypeOK, HasName
  <2> QED
    BY <2>1, <2>2 DEF Record
<1> QED
  BY <1>1, <1>2

\* One thread at a time is in a lookup, a creation or a removal, and one in the
\* second half of semfs_reclaim.
LEMMA Alone ==
  ASSUME Locked, TypeOK, NEW t \in Threads
  PROVE  /\ pc[t] \in InDir => /\ dirlock = t
                               /\ \A u \in Threads : u # t => pc[u] \notin InDir
         /\ dirlock = NULL => pc[t] \notin InDir
         /\ pc[t] = "clearing" => /\ tablelock = t
                                  /\ \A u \in Threads : u # t => pc[u] # "clearing"
         /\ tablelock = NULL => pc[t] # "clearing"
BY Constant DEF Locked

\* A semaphore that a step does not concern.
LEMMA RecordKept ==
  ASSUME NEW i \in Slots, Record(i),
         semfs_sems'[i] = semfs_sems[i],
         vn_refcount'[i] > 0 <=> vn_refcount[i] > 0,
         HasName(i)' <=> HasName(i),
         \A u \in Threads : /\ Keeps(u, i)' <=> Keeps(u, i)
                            /\ Removes(u, i)' <=> Removes(u, i)
                            /\ Sleeps(u, i)' <=> Sleeps(u, i)
  PROVE  Record(i)'
BY DEF Record

\* A thread that a step does not concern.
LEMMA WorkKept ==
  ASSUME NEW u \in Threads, Work(u),
         pc'[u] = pc[u], open'[u] = open[u], uio_resid'[u] = uio_resid[u],
         pc[u] \in InDir => dent' = dent /\ semfs_dents' = semfs_dents,
         pc[u] \in {"inserted", "freeing"} => vn_refcount'[dent.num] = 0,
         pc[u] = "inserted" => semfs_sems'[dent.num].count = 0,
         pc[u] = "clearing" => vn_refcount'[open[u]] = 0
  PROVE  Work(u)'
<1>1. CASE pc[u] \in InDir
  <2>1. /\ At(dent.name)' = At(dent.name)
        /\ HasName(dent.num)' <=> HasName(dent.num)
        /\ Entries' = Entries
    BY <1>1 DEF At, HasName, Entries
  <2> QED
    BY <1>1, <2>1 DEF Work, InDir, InRemove
<1>2. CASE pc[u] \notin InDir
  BY <1>2 DEF Work, InDir, InRemove
<1> QED
  BY <1>1, <1>2

LEMMA RefsKept ==
  ASSUME RefsExact, NEW i \in Slots, Users(i)' = Users(i), vn_refcount'[i] = vn_refcount[i]
  PROVE  vn_refcount'[i] = Cardinality(Users(i)')
BY DEF RefsExact, Users

\* The start: nothing is in use.
LEMMA StartExact == ASSUME Init PROVE SemfsInv
<1>1. TypeOK
  <2>1. semfs_dents \in Seq(Entry \cup {NULL})
    BY DEF Init
  <2> QED
    BY <2>1, Constant DEF Init, TypeOK, Places, Amounts
<1>2. Entries = {} /\ Directory
  BY DEF Init, Entries, Directory
<1>3. Locked
  BY Constant DEF Init, Locked, InDir
<1>4. Works
  BY DEF Init, Works, Work, InRemove
<1>5. Records
  BY <1>2, Constant DEF Init, Records, Record, HasName, Keeps
<1>6. RefsExact
  <2>1. \A i \in Slots : {t \in Threads : open[t] = i /\ pc[t] # "clearing"} = {}
    BY Constant DEF Init
  <2> QED
    BY <2>1, FS_EmptySet DEF RefsExact, Init
<1>7. Spare
  BY DEF Init, Spare
<1>8. OnlyKnownPanics
  BY DEF Init, OnlyKnownPanics
<1> QED
  BY <1>1, <1>2, <1>3, <1>4, <1>5, <1>6, <1>7, <1>8 DEF SemfsInv, Exact

-----------------------------------------------------------------------------
(* One lemma per action.                                                   *)

LEMMA EnterDirStep == ASSUME Exact, NEW t \in Threads, EnterDir(t) PROVE Exact'
<1>inv. TypeOK /\ Directory /\ Locked /\ Works /\ Spare /\ Records /\ RefsExact
  BY DEF Exact
<1>1. /\ pc[t] = "idle" /\ dirlock = NULL /\ dirlock' = t
      /\ pc' = [pc EXCEPT ![t] = "dir"]
      /\ semfs_dents' = semfs_dents /\ semfs_sems' = semfs_sems /\ vn_refcount' = vn_refcount
      /\ tablelock' = tablelock /\ dent' = dent /\ open' = open /\ uio_resid' = uio_resid
  BY DEF EnterDir, Go, tables
<1>2. /\ pc' \in [Threads -> Places] /\ pc'[t] = "dir"
      /\ \A u \in Threads : u # t => pc'[u] = pc[u]
      /\ \A u \in Threads : pc[u] \notin InDir
  BY <1>inv, <1>1, Alone DEF TypeOK, Places
<1>3. TypeOK'
  BY <1>inv, <1>1, <1>2 DEF TypeOK
<1>4. Directory'
  BY <1>inv, <1>1 DEF Directory
<1>5. Locked'
  BY <1>inv, <1>1, <1>2, Constant DEF Locked, InDir
<1>6. Works'
  <2>1. ASSUME NEW u \in Threads, u # t PROVE Work(u)'
    BY <1>inv, <1>1, <1>2, <2>1, WorkKept DEF Works, Work, InDir
  <2>2. Work(t)'
    BY <1>inv, <1>1, <1>2 DEF Works, Work, InRemove
  <2> QED
    BY <2>1, <2>2 DEF Works
<1>7. Entries' = Entries
  BY <1>1 DEF Entries
<1>8. Records'
  <2> SUFFICES ASSUME NEW i \in Slots PROVE Record(i)'
    BY DEF Records
  <2>1. \A u \in Threads : /\ Keeps(u, i)' <=> Keeps(u, i)
                           /\ Removes(u, i)' <=> Removes(u, i)
                           /\ Sleeps(u, i)' <=> Sleeps(u, i)
    BY <1>1, <1>2 DEF Keeps, Removes, Sleeps, InRemove
  <2> QED
    BY <1>inv, <1>1, <1>7, <2>1, RecordKept DEF Records, HasName
<1>9. RefsExact'
  <2>1. \A i \in Slots : Users(i)' = Users(i)
    BY <1>1, <1>2 DEF Users
  <2> QED
    BY <1>inv, <1>1, <2>1, RefsKept DEF RefsExact, Users
<1>spare. Spare'
  BY <1>inv, <1>1, <1>2 DEF Spare
<1> QED
  BY <1>spare, <1>3, <1>4, <1>5, <1>6, <1>8, <1>9 DEF Exact

LEMMA LeaveDirStep == ASSUME Exact, NEW t \in Threads, LeaveDir(t) PROVE Exact'
<1>inv. TypeOK /\ Directory /\ Locked /\ Works /\ Spare /\ Records /\ RefsExact
  BY DEF Exact
<1>1. /\ pc[t] = "dir" /\ dirlock' = NULL
      /\ pc' = [pc EXCEPT ![t] = "idle"]
      /\ semfs_dents' = semfs_dents /\ semfs_sems' = semfs_sems /\ vn_refcount' = vn_refcount
      /\ tablelock' = tablelock /\ dent' = dent /\ open' = open /\ uio_resid' = uio_resid
  BY DEF LeaveDir, Go, tables
<1>2. /\ pc' \in [Threads -> Places] /\ pc'[t] = "idle"
      /\ \A u \in Threads : u # t => pc'[u] = pc[u] /\ pc[u] \notin InDir
  BY <1>inv, <1>1, Alone DEF TypeOK, Places, InDir
<1>3. TypeOK'
  BY <1>inv, <1>1, <1>2 DEF TypeOK
<1>4. Directory'
  BY <1>inv, <1>1 DEF Directory
<1>5. Locked'
  BY <1>inv, <1>1, <1>2, Constant DEF Locked, InDir
<1>6. Works'
  <2>1. ASSUME NEW u \in Threads, u # t PROVE Work(u)'
    BY <1>inv, <1>1, <1>2, <2>1, WorkKept DEF Works, Work, InDir
  <2>2. Work(t)'
    BY <1>inv, <1>1, <1>2 DEF Works, Work, InRemove
  <2> QED
    BY <2>1, <2>2 DEF Works
<1>7. Entries' = Entries
  BY <1>1 DEF Entries
<1>8. Records'
  <2> SUFFICES ASSUME NEW i \in Slots PROVE Record(i)'
    BY DEF Records
  <2>1. \A u \in Threads : /\ Keeps(u, i)' <=> Keeps(u, i)
                           /\ Removes(u, i)' <=> Removes(u, i)
                           /\ Sleeps(u, i)' <=> Sleeps(u, i)
    BY <1>1, <1>2 DEF Keeps, Removes, Sleeps, InRemove
  <2> QED
    BY <1>inv, <1>1, <1>7, <2>1, RecordKept DEF Records, HasName
<1>9. RefsExact'
  <2>1. \A i \in Slots : Users(i)' = Users(i)
    BY <1>1, <1>2 DEF Users
  <2> QED
    BY <1>inv, <1>1, <2>1, RefsKept DEF RefsExact, Users
<1>spare. Spare'
  BY <1>2 DEF Spare, InDir
<1> QED
  BY <1>spare, <1>3, <1>4, <1>5, <1>6, <1>8, <1>9 DEF Exact

\* A reference more, to a vnode that was there or not.
LEMMA LookupStep ==
  ASSUME Exact, NEW t \in Threads, NEW n \in Names, Lookup(t, n), panic' = "no", panic = "no"
  PROVE  Exact'
<1>inv. TypeOK /\ Directory /\ Locked /\ Works /\ Spare /\ Records /\ RefsExact
  BY DEF Exact
<1>0. \E i \in Slots : i = Named(n) /\ semfs_sems[i] \in Sems /\ HasName(i)
  <2>1. PICK d \in Entries : d.name = n /\ d.num = Named(n)
    BY <1>inv, Naming DEF Lookup
  <2> QED
    BY <2>1, Reached DEF HasName
<1>2. PICK i \in Slots : i = Named(n) /\ semfs_sems[i] \in Sems /\ HasName(i)
  BY <1>0
<1>1. /\ pc[t] = "dir" /\ open[t] = NULL /\ tablelock = NULL /\ dirlock' = NULL
      /\ pc' = [pc EXCEPT ![t] = "idle"] /\ open' = [open EXCEPT ![t] = i]
      /\ vn_refcount' = [vn_refcount EXCEPT ![i] = @ + 1]
      /\ semfs_sems' = [semfs_sems EXCEPT ![i].hasvnode = TRUE]
      /\ semfs_dents' = semfs_dents
      /\ tablelock' = tablelock /\ dent' = dent /\ uio_resid' = uio_resid
  BY <1>2 DEF Lookup, GetVnode, Go, Panic
<1>3. /\ pc' \in [Threads -> Places] /\ pc'[t] = "idle"
      /\ \A u \in Threads : u # t => pc'[u] = pc[u] /\ pc[u] \notin InDir
  BY <1>inv, <1>1, Alone DEF TypeOK, Places, InDir
<1>4. /\ open' \in [Threads -> Slots \cup {NULL}] /\ open'[t] = i
      /\ \A u \in Threads : u # t => open'[u] = open[u]
  BY <1>inv, <1>1, <1>2 DEF TypeOK
<1>5. /\ vn_refcount' \in [Slots -> Nat] /\ vn_refcount'[i] = vn_refcount[i] + 1
      /\ vn_refcount[i] \in Nat
      /\ \A j \in Slots : j # i => vn_refcount'[j] = vn_refcount[j]
  BY <1>inv, <1>1, <1>2 DEF TypeOK
<1>6. /\ semfs_sems' \in [Slots -> Sems \cup {NULL}]
      /\ semfs_sems'[i] = [semfs_sems[i] EXCEPT !.hasvnode = TRUE]
      /\ semfs_sems'[i] \in Sems
      /\ \A j \in Slots : j # i => semfs_sems'[j] = semfs_sems[j]
  <2>1. [semfs_sems[i] EXCEPT !.hasvnode = TRUE] \in Sems
    BY <1>2 DEF Sems
  <2>2. semfs_sems \in [Slots -> Sems \cup {NULL}]
    BY <1>inv DEF TypeOK
  <2> QED
    BY <1>1, <1>2, <2>1, <2>2
<1>7. Entries' = Entries
  BY <1>1 DEF Entries
<1>8. TypeOK'
  BY <1>inv, <1>1, <1>3, <1>4, <1>5, <1>6 DEF TypeOK
<1>9. Directory'
  BY <1>inv, <1>1 DEF Directory
<1>10. Locked'
  BY <1>inv, <1>1, <1>3, Constant DEF Locked, InDir
<1>11. \A u \in Threads : pc[u] # "clearing"
  BY <1>inv, <1>1, Alone
<1>12. Works'
  <2>1. ASSUME NEW u \in Threads, u # t PROVE Work(u)'
    BY <1>inv, <1>1, <1>3, <1>4, <1>11, <2>1, WorkKept DEF Works, InDir
  <2>2. Work(t)'
    BY <1>inv, <1>1, <1>3 DEF Works, Work, InRemove
  <2> QED
    BY <2>1, <2>2 DEF Works
<1>13. Records'
  <2> SUFFICES ASSUME NEW j \in Slots PROVE Record(j)'
    BY DEF Records
  <2>1. \A u \in Threads : /\ Keeps(u, j)' <=> Keeps(u, j)
                           /\ Removes(u, j)' <=> Removes(u, j)
                           /\ Sleeps(u, j)' <=> Sleeps(u, j)
    BY <1>1, <1>3, <1>4 DEF Keeps, Removes, Sleeps, InRemove
  <2>2. CASE j # i
    BY <1>inv, <1>5, <1>6, <1>7, <2>1, <2>2, RecordKept DEF Records, HasName
  <2>3. CASE j = i
    <3>1. /\ semfs_sems'[i] # NULL /\ semfs_sems'[i].hasvnode
          /\ semfs_sems'[i].linked = semfs_sems[i].linked
          /\ semfs_sems'[i].holder = semfs_sems[i].holder
          /\ semfs_sems'[i].cv = semfs_sems[i].cv
      BY <1>2, <1>6, Constant DEF Sems
    <3>2. Record(i) /\ semfs_sems[i] # NULL
      BY <1>inv, <1>2, Constant DEF Records
    <3>3. HasName(i)' <=> HasName(i)
      BY <1>7 DEF HasName
    <3> QED
      BY <1>2, <1>5, <2>1, <2>3, <3>1, <3>2, <3>3 DEF Record
  <2> QED
    BY <2>2, <2>3
<1>14. RefsExact'
  <2> SUFFICES ASSUME NEW j \in Slots PROVE vn_refcount'[j] = Cardinality(Users(j)')
    BY DEF RefsExact, Users
  <2>1. CASE j # i
    <3>1. Users(j)' = Users(j)
      BY <1>1, <1>3, <1>4, <2>1, Constant DEF Users
    <3> QED
      BY <1>inv, <1>5, <2>1, <3>1, RefsKept
  <2>2. CASE j = i
    <3>1. Users(i)' = Users(i) \cup {t} /\ t \notin Users(i)
      BY <1>1, <1>2, <1>3, <1>4, Constant DEF Users
    <3> QED
      BY <1>inv, <1>2, <1>5, <2>2, <3>1, UsersCounted, FS_AddElement
  <2> QED
    BY <2>1, <2>2
<1>spare. Spare'
  BY <1>3 DEF Spare, InDir
<1> QED
  BY <1>spare, <1>8, <1>9, <1>10, <1>12, <1>13, <1>14 DEF Exact

\* A slot of the table that was empty, hence used by nobody.
LEMMA CreatInsertStep ==
  ASSUME Exact, NEW t \in Threads, NEW n \in Names, CreatInsert(t, n)
  PROVE  Exact'
<1>inv. TypeOK /\ Directory /\ Locked /\ Works /\ Spare /\ Records /\ RefsExact
  BY DEF Exact
<1>0. Lowest(HasRoom(semfs_sems)) \in HasRoom(semfs_sems)
  <2>1. DOMAIN semfs_sems = Slots /\ Slots \subseteq Nat
    BY <1>inv, Constant DEF TypeOK, Slots
  <2>2. HasRoom(semfs_sems) \in SUBSET Nat /\ HasRoom(semfs_sems) # {}
    BY <2>1 DEF HasRoom, CreatInsert
  <2> QED
    BY <2>2, LowestIn
<1>1. PICK i \in Slots : i = Lowest(HasRoom(semfs_sems)) /\ semfs_sems[i] = NULL
  BY <1>inv, <1>0 DEF HasRoom, TypeOK
<1> DEFINE new == [count |-> 0, hasvnode |-> FALSE, linked |-> FALSE, holder |-> NULL,
                   cv |-> <<>>]
           d == [name |-> n, num |-> i]
<1>2. /\ pc[t] = "dir" /\ open[t] = NULL /\ tablelock = NULL /\ At(n) = {}
      /\ pc' = [pc EXCEPT ![t] = "inserted"]
      /\ semfs_sems' = [semfs_sems EXCEPT ![i] = new] /\ dent' = d
      /\ semfs_dents' = semfs_dents /\ vn_refcount' = vn_refcount /\ open' = open
      /\ dirlock' = dirlock /\ tablelock' = tablelock /\ uio_resid' = uio_resid
  BY <1>1 DEF CreatInsert, Go
<1>3. /\ new \in Sems /\ new.count = 0 /\ ~new.hasvnode /\ ~new.linked
      /\ new.holder = NULL /\ DOMAIN new.cv = {} /\ new # NULL
      /\ d \in Entry /\ d.name = n /\ d.num = i
  <2>1. /\ new.count = 0 /\ ~new.hasvnode /\ ~new.linked
        /\ new.holder = NULL /\ new.cv = <<>> /\ d.name = n /\ d.num = i
    OBVIOUS
  <2>2. new \in Sems
    BY Constant DEF Sems
  <2>3. d \in Entry
    BY DEF Entry
  <2>4. DOMAIN <<>> = {}
    OBVIOUS
  <2> HIDE DEF new, d
  <2>5. DOMAIN new.cv = {}
    BY <2>1, <2>4
  <2>6. new # NULL
    BY <2>2, Constant
  <2> QED
    BY <2>1, <2>2, <2>3, <2>5, <2>6
<1> HIDE DEF new, d
<1>4. /\ pc' \in [Threads -> Places] /\ pc'[t] = "inserted" /\ dirlock = t
      /\ \A u \in Threads : u # t => pc'[u] = pc[u] /\ pc[u] \notin InDir
  BY <1>inv, <1>2, Alone DEF TypeOK, Places, InDir
<1>5. /\ semfs_sems' \in [Slots -> Sems \cup {NULL}] /\ semfs_sems'[i] = new
      /\ \A j \in Slots : j # i => semfs_sems'[j] = semfs_sems[j]
  BY <1>inv, <1>2, <1>3 DEF TypeOK
<1>6. Entries' = Entries /\ \A m : At(m)' = At(m)
  BY <1>2 DEF Entries, At
<1>7. /\ ~HasName(i) /\ vn_refcount[i] = 0
      /\ \A u \in Threads : ~Keeps(u, i) /\ ~Sleeps(u, i)
  <2>1. Record(i) /\ vn_refcount[i] \in Nat
    BY <1>inv DEF Records, TypeOK
  <2>2. ~HasName(i) /\ ~(vn_refcount[i] > 0) /\ \A u \in Threads : ~Keeps(u, i)
    BY <1>1, <2>1 DEF Record
  <2>3. \A u \in Threads : open[u] # i
    BY <1>1, Reached, Constant
  <2> QED
    BY <2>1, <2>2, <2>3 DEF Sleeps
<1>8. TypeOK'
  BY <1>inv, <1>2, <1>3, <1>4, <1>5 DEF TypeOK
<1>9. Directory'
  BY <1>inv, <1>2 DEF Directory
<1>10. Locked'
  BY <1>inv, <1>2, <1>4, Constant DEF Locked, InDir
<1>11. Works'
  <2>1. ASSUME NEW u \in Threads, u # t PROVE Work(u)'
    <3>1. pc[u] = "clearing" => vn_refcount[open[u]] = 0
      BY <1>inv DEF Works, Work
    <3> QED
      BY <1>inv, <1>2, <1>4, <2>1, <3>1, WorkKept DEF Works, InDir
  <2>2. Work(t)'
    <3>1. ~HasName(i)'
      BY <1>6, <1>7 DEF HasName
    <3>2. uio_resid[t] > 0 <=> pc[t] \in {"asleep", "woken"}
      BY <1>inv DEF Works, Work
    <3> QED
      BY <1>2, <1>3, <1>4, <1>5, <1>6, <1>7, <3>1, <3>2 DEF Work, InRemove
  <2> QED
    BY <2>1, <2>2 DEF Works
<1>12. Records'
  <2> SUFFICES ASSUME NEW j \in Slots PROVE Record(j)'
    BY DEF Records
  <2>1. \A u \in Threads : /\ Removes(u, j)' <=> Removes(u, j)
                           /\ ~Removes(u, j)
                           /\ Sleeps(u, j)' <=> Sleeps(u, j)
    BY <1>2, <1>4 DEF Removes, Sleeps, InRemove, InDir
  <2>2. HasName(j)' <=> HasName(j)
    BY <1>6 DEF HasName
  <2>3. CASE j # i
    <3>1. \A u \in Threads : Keeps(u, j)' <=> Keeps(u, j)
      BY <1>2, <1>3, <1>4, <2>3 DEF Keeps, InDir
    <3> QED
      BY <1>inv, <1>2, <1>5, <2>1, <2>2, <2>3, <3>1, RecordKept DEF Records
  <2>4. CASE j = i
    <3>1. Keeps(t, i)'
      BY <1>2, <1>3, <1>4 DEF Keeps
    <3>2. vn_refcount'[i] = 0 /\ ~HasName(i)' /\ \A u \in Threads : ~Sleeps(u, i)'
      BY <1>2, <1>7, <2>1, <2>2, <2>4
    <3>3. \A u \in Threads : ~Removes(u, i)'
      BY <2>1, <2>4
    <3> QED
      BY <1>3, <1>5, <2>4, <3>1, <3>2, <3>3, Constant DEF Record
  <2> QED
    BY <2>3, <2>4
<1>13. RefsExact'
  <2>1. \A j \in Slots : Users(j)' = Users(j)
    BY <1>2, <1>4 DEF Users
  <2> QED
    BY <1>inv, <1>2, <2>1, RefsKept DEF RefsExact, Users
<1>spare. Spare'
  BY <1>2, <1>3, <1>4, <1>7 DEF Spare, Keeps, InDir
<1> QED
  BY <1>spare, <1>8, <1>9, <1>10, <1>11, <1>12, <1>13 DEF Exact

\* The entry, the vnode with its first reference and the two flags.
LEMMA CreatFinishStep ==
  ASSUME Exact, NEW t \in Threads, CreatFinish(t)
  PROVE  Exact'
<1>inv. TypeOK /\ Directory /\ Locked /\ Works /\ Spare /\ Records /\ RefsExact
  BY DEF Exact
<1>0. /\ pc[t] = "inserted" /\ open[t] = NULL /\ tablelock = NULL
      /\ dent \in Entry /\ At(dent.name) = {} /\ ~HasName(dent.num)
      /\ vn_refcount[dent.num] = 0
  BY <1>inv DEF CreatFinish, Works, Work
<1>1. PICK d \in Entry : d = dent
  BY <1>0
<1>2. PICK i \in Slots : i = d.num
  BY EntryFields
<1>3. /\ semfs_dents' = WithEntry(d) /\ dent' = NULL /\ dirlock' = NULL
      /\ semfs_sems' = [semfs_sems EXCEPT ![i].hasvnode = TRUE, ![i].linked = TRUE]
      /\ vn_refcount' = [vn_refcount EXCEPT ![i] = @ + 1]
      /\ open' = [open EXCEPT ![t] = i] /\ pc' = [pc EXCEPT ![t] = "idle"]
      /\ tablelock' = tablelock /\ uio_resid' = uio_resid
  BY <1>1, <1>2 DEF CreatFinish, GetVnode, Go
<1>4. /\ pc' \in [Threads -> Places] /\ pc'[t] = "idle"
      /\ \A u \in Threads : u # t => pc'[u] = pc[u] /\ pc[u] \notin InDir
  BY <1>inv, <1>0, <1>3, Alone DEF TypeOK, Places, InDir
<1>5. /\ open' \in [Threads -> Slots \cup {NULL}] /\ open'[t] = i
      /\ \A u \in Threads : u # t => open'[u] = open[u]
  BY <1>inv, <1>3 DEF TypeOK
<1>6. /\ vn_refcount' \in [Slots -> Nat] /\ vn_refcount'[i] = 1
      /\ \A j \in Slots : j # i => vn_refcount'[j] = vn_refcount[j]
  BY <1>inv, <1>0, <1>1, <1>2, <1>3 DEF TypeOK
<1>7. semfs_sems[i] \in Sems /\ Record(i)
  <2>1. Keeps(t, i) /\ Record(i) /\ semfs_sems[i] \in Sems \cup {NULL}
    BY <1>inv, <1>0, <1>1, <1>2 DEF Keeps, Records, TypeOK
  <2> QED
    BY <2>1 DEF Record
<1>8. /\ semfs_sems' \in [Slots -> Sems \cup {NULL}]
      /\ semfs_sems'[i] # NULL /\ semfs_sems'[i].hasvnode /\ semfs_sems'[i].linked
      /\ semfs_sems'[i].holder = semfs_sems[i].holder
      /\ semfs_sems'[i].cv = semfs_sems[i].cv
      /\ \A j \in Slots : j # i => semfs_sems'[j] = semfs_sems[j]
  <2> DEFINE new == [[semfs_sems[i] EXCEPT !.hasvnode = TRUE] EXCEPT !.linked = TRUE]
  <2>1. /\ new \in Sems /\ new.hasvnode /\ new.linked
        /\ new.holder = semfs_sems[i].holder /\ new.cv = semfs_sems[i].cv
    BY <1>7 DEF Sems
  <2>2. semfs_sems \in [Slots -> Sems \cup {NULL}]
    BY <1>inv DEF TypeOK
  <2>3. semfs_sems' = [semfs_sems EXCEPT ![i] = new]
    BY <1>3, <2>2
  <2> HIDE DEF new
  <2>4. semfs_sems'[i] = new
    BY <2>2, <2>3
  <2> QED
    BY <2>1, <2>2, <2>3, <2>4, Constant
<1>9. \A e \in Entries : e.name # d.name /\ e.num # d.num
  BY <1>inv, <1>0, <1>1, Naming DEF HasName
<1>10. /\ semfs_dents' \in Seq(Entry \cup {NULL}) /\ Directory'
       /\ Entries' = Entries \cup {d}
  <2>1. d # NULL
    BY Constant
  <2> QED
    BY <1>inv, <1>3, <1>9, <2>1, EntryAdded
<1>11. TypeOK'
  BY <1>inv, <1>3, <1>4, <1>5, <1>6, <1>8, <1>10 DEF TypeOK
<1>12. Locked'
  BY <1>inv, <1>0, <1>3, <1>4, Constant DEF Locked, InDir
<1>13. \A u \in Threads : pc[u] # "clearing"
  BY <1>inv, <1>0, Alone
<1>14. Works'
  <2>1. ASSUME NEW u \in Threads, u # t PROVE Work(u)'
    BY <1>inv, <1>3, <1>4, <1>5, <1>13, <2>1, WorkKept DEF Works, InDir
  <2>2. Work(t)'
    BY <1>inv, <1>0, <1>3, <1>4 DEF Works, Work, InRemove
  <2> QED
    BY <2>1, <2>2 DEF Works
<1>15. Records'
  <2> SUFFICES ASSUME NEW j \in Slots PROVE Record(j)'
    BY DEF Records
  <2>1. \A u \in Threads : /\ Removes(u, j)' <=> Removes(u, j)
                           /\ ~Removes(u, j)
                           /\ Sleeps(u, j)' <=> Sleeps(u, j)
    BY <1>0, <1>3, <1>4, <1>5 DEF Removes, Sleeps, InRemove, InDir
  <2>2. HasName(j)' <=> HasName(j) \/ j = i
    BY <1>2, <1>10 DEF HasName
  <2>3. CASE j # i
    <3>1. \A u \in Threads : Keeps(u, j)' <=> Keeps(u, j)
      BY <1>0, <1>1, <1>2, <1>3, <1>4, <1>13, <2>3 DEF Keeps, InDir
    <3> QED
      BY <1>inv, <1>6, <1>8, <2>1, <2>2, <2>3, <3>1, RecordKept DEF Records
  <2>4. CASE j = i
    BY <1>6, <1>7, <1>8, <2>1, <2>2, <2>4, Constant DEF Record
  <2> QED
    BY <2>3, <2>4
<1>16. RefsExact'
  <2> SUFFICES ASSUME NEW j \in Slots PROVE vn_refcount'[j] = Cardinality(Users(j)')
    BY DEF RefsExact, Users
  <2>1. CASE j # i
    <3>1. Users(j)' = Users(j)
      BY <1>0, <1>4, <1>5, <2>1, Constant DEF Users
    <3> QED
      BY <1>inv, <1>6, <2>1, <3>1, RefsKept
  <2>2. CASE j = i
    <3>1. Users(i)' = Users(i) \cup {t} /\ t \notin Users(i)
      BY <1>0, <1>4, <1>5, Constant DEF Users
    <3>2. IsFiniteSet(Users(i)) /\ Cardinality(Users(i)) = 0
      BY <1>inv, <1>0, <1>1, <1>2, UsersCounted
    <3>3. Cardinality(Users(i) \cup {t}) = 1
      BY <3>1, <3>2, FS_AddElement
    <3> QED
      BY <1>6, <2>2, <3>1, <3>3
  <2> QED
    BY <2>1, <2>2
<1>spare. Spare'
  BY <1>4 DEF Spare, InDir
<1> QED
  BY <1>spare, <1>10, <1>11, <1>12, <1>14, <1>15, <1>16 DEF Exact

\* The semaphore goes again, before anyone could reach it.
LEMMA CreatUndoStep == ASSUME Exact, NEW t \in Threads, CreatUndo(t) PROVE Exact'
<1>inv. TypeOK /\ Directory /\ Locked /\ Works /\ Spare /\ Records /\ RefsExact
  BY DEF Exact
<1>0. /\ pc[t] = "inserted" /\ tablelock = NULL /\ dent \in Entry
      /\ ~HasName(dent.num) /\ vn_refcount[dent.num] = 0
  BY <1>inv DEF CreatUndo, Works, Work
<1>1. PICK i \in Slots : i = dent.num
  BY <1>0, EntryFields
<1>2. /\ semfs_dents' \in {semfs_dents, WithEntry(NULL)} /\ dent' = NULL /\ dirlock' = NULL
      /\ semfs_sems' = [semfs_sems EXCEPT ![i] = NULL] /\ pc' = [pc EXCEPT ![t] = "idle"]
      /\ vn_refcount' = vn_refcount /\ open' = open
      /\ tablelock' = tablelock /\ uio_resid' = uio_resid
  BY <1>1 DEF CreatUndo, Go
<1>3. /\ pc' \in [Threads -> Places] /\ pc'[t] = "idle"
      /\ \A u \in Threads : u # t => pc'[u] = pc[u] /\ pc[u] \notin InDir
  BY <1>inv, <1>0, <1>2, Alone DEF TypeOK, Places, InDir
<1>4. /\ semfs_sems' \in [Slots -> Sems \cup {NULL}] /\ semfs_sems'[i] = NULL
      /\ \A j \in Slots : j # i => semfs_sems'[j] = semfs_sems[j]
  BY <1>inv, <1>2 DEF TypeOK
<1>5. semfs_dents' \in Seq(Entry \cup {NULL}) /\ Directory' /\ Entries' = Entries
  <2>1. CASE semfs_dents' = semfs_dents
    BY <1>inv, <2>1 DEF TypeOK, Directory, Entries
  <2>2. CASE semfs_dents' = WithEntry(NULL)
    <3>1. NULL \in Entry \cup {NULL}
      OBVIOUS
    <3>2. /\ semfs_dents' \in Seq(Entry \cup {NULL}) /\ Directory'
          /\ Entries' = Entries \cup ({NULL} \ {NULL})
      BY <1>inv, <2>2, <3>1, EntryAdded
    <3> QED
      BY <3>2
  <2> QED
    BY <1>2, <2>1, <2>2
<1>6. TypeOK'
  BY <1>inv, <1>2, <1>3, <1>4, <1>5 DEF TypeOK
<1>7. Locked'
  BY <1>inv, <1>0, <1>2, <1>3, Constant DEF Locked, InDir
<1>8. \A u \in Threads : pc[u] # "clearing"
  BY <1>inv, <1>0, Alone
<1>9. Works'
  <2>1. ASSUME NEW u \in Threads, u # t PROVE Work(u)'
    BY <1>inv, <1>2, <1>3, <1>8, <2>1, WorkKept DEF Works, InDir
  <2>2. Work(t)'
    BY <1>inv, <1>0, <1>2, <1>3 DEF Works, Work, InRemove
  <2> QED
    BY <2>1, <2>2 DEF Works
<1>10. Records'
  <2> SUFFICES ASSUME NEW j \in Slots PROVE Record(j)'
    BY DEF Records
  <2>1. \A u \in Threads : /\ Removes(u, j)' <=> Removes(u, j)
                           /\ Sleeps(u, j)' <=> Sleeps(u, j)
    BY <1>0, <1>2, <1>3 DEF Removes, Sleeps, InRemove, InDir
  <2>2. HasName(j)' <=> HasName(j)
    BY <1>5 DEF HasName
  <2>3. CASE j # i
    <3>1. \A u \in Threads : Keeps(u, j)' <=> Keeps(u, j)
      BY <1>0, <1>1, <1>2, <1>3, <1>8, <2>3 DEF Keeps, InDir
    <3> QED
      BY <1>inv, <1>2, <1>4, <2>1, <2>2, <2>3, <3>1, RecordKept DEF Records
  <2>4. CASE j = i
    <3>1. \A u \in Threads : ~Keeps(u, i)'
      BY <1>2, <1>3, <1>8 DEF Keeps, InDir
    <3>2. ~HasName(i)' /\ vn_refcount'[i] = 0
      BY <1>0, <1>1, <1>2, <2>2, <2>4
    <3> QED
      BY <1>4, <2>4, <3>1, <3>2 DEF Record
  <2> QED
    BY <2>3, <2>4
<1>11. RefsExact'
  <2>1. \A j \in Slots : Users(j)' = Users(j)
    BY <1>0, <1>2, <1>3 DEF Users
  <2> QED
    BY <1>inv, <1>2, <2>1, RefsKept DEF RefsExact, Users
<1>spare. Spare'
  BY <1>3 DEF Spare, InDir
<1> QED
  BY <1>spare, <1>5, <1>6, <1>7, <1>9, <1>10, <1>11 DEF Exact

\* sems_lock is taken and sems_linked cleared; the entry stays for now.
LEMMA RemoveUnlinkStep ==
  ASSUME Exact, NEW t \in Threads, NEW n \in Names, RemoveUnlink(t, n),
         panic = "no", panic' = "no"
  PROVE  Exact'
<1>inv. TypeOK /\ Directory /\ Locked /\ Works /\ Spare /\ Records /\ RefsExact
  BY DEF Exact
<1>1. PICK d \in Entries : d.name = n /\ d.num = Named(n)
  BY <1>inv, Naming DEF RemoveUnlink
<1>2. PICK i \in Slots : i = d.num /\ semfs_sems[i] \in Sems /\ HasName(i)
  BY Reached DEF HasName
<1>3. d \in Entry /\ d = [name |-> n, num |-> i]
  BY <1>inv, <1>1, <1>2, EntryFacts DEF Entry
<1>4. /\ pc[t] = "dir" /\ pc' = [pc EXCEPT ![t] = "unlinked"]
      /\ semfs_sems' = [semfs_sems EXCEPT ![i].holder = t, ![i].linked = FALSE] /\ dent' = d
      /\ semfs_dents' = semfs_dents /\ vn_refcount' = vn_refcount /\ open' = open
      /\ dirlock' = dirlock /\ tablelock' = tablelock /\ uio_resid' = uio_resid
  BY <1>1, <1>2, <1>3 DEF RemoveUnlink, Go, Panic
<1>5. /\ pc' \in [Threads -> Places] /\ pc'[t] = "unlinked" /\ dirlock = t
      /\ \A u \in Threads : u # t => pc'[u] = pc[u] /\ pc[u] \notin InDir
  BY <1>inv, <1>4, Alone DEF TypeOK, Places, InDir
<1>6. /\ semfs_sems' \in [Slots -> Sems \cup {NULL}]
      /\ semfs_sems'[i] # NULL /\ semfs_sems'[i].holder = t /\ ~semfs_sems'[i].linked
      /\ semfs_sems'[i].hasvnode = semfs_sems[i].hasvnode
      /\ semfs_sems'[i].cv = semfs_sems[i].cv
      /\ \A j \in Slots : j # i => semfs_sems'[j] = semfs_sems[j]
  <2> DEFINE new == [[semfs_sems[i] EXCEPT !.holder = t] EXCEPT !.linked = FALSE]
  <2>1. /\ new \in Sems /\ new.holder = t /\ ~new.linked
        /\ new.hasvnode = semfs_sems[i].hasvnode /\ new.cv = semfs_sems[i].cv
    BY <1>2 DEF Sems
  <2>2. semfs_sems \in [Slots -> Sems \cup {NULL}]
    BY <1>inv DEF TypeOK
  <2>3. semfs_sems' = [semfs_sems EXCEPT ![i] = new]
    BY <1>4, <2>2
  <2> HIDE DEF new
  <2>4. semfs_sems'[i] = new
    BY <2>2, <2>3
  <2> QED
    BY <2>1, <2>2, <2>3, <2>4, Constant
<1>7. Entries' = Entries
  BY <1>4 DEF Entries
<1>8. TypeOK'
  BY <1>inv, <1>3, <1>4, <1>5, <1>6 DEF TypeOK
<1>9. Directory'
  BY <1>inv, <1>4 DEF Directory
<1>10. Locked'
  BY <1>inv, <1>4, <1>5, Constant DEF Locked, InDir
<1>11. Works'
  <2>1. ASSUME NEW u \in Threads, u # t PROVE Work(u)'
    <3>1. pc[u] = "clearing" => vn_refcount[open[u]] = 0
      BY <1>inv DEF Works, Work
    <3> QED
      BY <1>inv, <1>4, <1>5, <2>1, <3>1, WorkKept DEF Works, InDir
  <2>2. Work(t)'
    BY <1>inv, <1>4, <1>5, <1>7 DEF Works, Work, InRemove
  <2> QED
    BY <2>1, <2>2 DEF Works
<1>12. Records'
  <2> SUFFICES ASSUME NEW j \in Slots PROVE Record(j)'
    BY DEF Records
  <2>1. \A u \in Threads : /\ Keeps(u, j)' <=> Keeps(u, j)
                           /\ ~Removes(u, j)
                           /\ Removes(u, j)' <=> u = t /\ j = i
                           /\ Sleeps(u, j)' <=> Sleeps(u, j)
    BY <1>2, <1>4, <1>5 DEF Keeps, Removes, Sleeps, InRemove, InDir
  <2>2. HasName(j)' <=> HasName(j)
    BY <1>7 DEF HasName
  <2>3. CASE j # i
    BY <1>inv, <1>4, <1>6, <2>1, <2>2, <2>3, RecordKept DEF Records
  <2>4. CASE j = i
    <3>1. Record(i) /\ semfs_sems[i] # NULL
      BY <1>inv, <1>2, Constant DEF Records
    <3> QED
      BY <1>2, <1>4, <1>6, <2>1, <2>2, <2>4, <3>1 DEF Record
  <2> QED
    BY <2>3, <2>4
<1>13. RefsExact'
  <2>1. \A j \in Slots : Users(j)' = Users(j)
    BY <1>4, <1>5 DEF Users
  <2> QED
    BY <1>inv, <1>4, <2>1, RefsKept DEF RefsExact, Users
<1>spare. Spare'
  BY <1>5 DEF Spare, InDir
<1> QED
  BY <1>spare, <1>8, <1>9, <1>10, <1>11, <1>12, <1>13 DEF Exact

\* The entry of a removal, and what becomes of the directory without it.
LEMMA RemovedEntry ==
  ASSUME Exact, NEW t \in Threads, pc[t] \in InRemove
  PROVE  \E d \in Entries :
           /\ d = dent /\ d \in Entry /\ d.num \in Slots /\ semfs_sems[d.num] \in Sems
           /\ HasName(d.num) /\ Removes(t, d.num) /\ Record(d.num)
           /\ semfs_sems[d.num].holder = t /\ ~semfs_sems[d.num].linked
           /\ semfs_dents' = WithoutEntry(d.name) =>
                /\ semfs_dents' \in Seq(Entry \cup {NULL}) /\ Directory'
                /\ \A j : HasName(j)' <=> HasName(j) /\ j # d.num
<1>inv. TypeOK /\ Directory /\ Works /\ Records
  BY DEF Exact
<1>1. dent \in Entries
  BY <1>inv DEF Works, Work
<1>2. PICK d \in Entries : d = dent
  BY <1>1
<1>3. d \in Entry /\ d.num \in Slots /\ semfs_sems[d.num] \in Sems /\ Record(d.num)
  BY <1>inv, EntryFacts, Reached DEF Records
<1>4. HasName(d.num) /\ Removes(t, d.num) /\ semfs_sems[d.num] # NULL
  BY <1>2, <1>3, Constant DEF HasName, Removes
<1>5. semfs_sems[d.num].holder = t /\ ~semfs_sems[d.num].linked
  BY <1>3, <1>4 DEF Record
<1>6. ASSUME semfs_dents' = WithoutEntry(d.name)
      PROVE  /\ semfs_dents' \in Seq(Entry \cup {NULL}) /\ Directory'
             /\ \A j : HasName(j)' <=> HasName(j) /\ j # d.num
  <2>1. /\ semfs_dents' \in Seq(Entry \cup {NULL}) /\ Directory'
        /\ Entries' = {e \in Entries : e.name # d.name}
    BY <1>inv, <1>6, EntryTaken
  <2>2. \A e \in Entries : e.name # d.name <=> e.num # d.num
    BY <1>inv, Naming
  <2> QED
    BY <2>1, <2>2 DEF HasName
<1> QED
  BY <1>2, <1>3, <1>4, <1>5, <1>6

\* The vnode is there: the last close will see that sems_linked is clear.
LEMMA RemoveKeepStep ==
  ASSUME Exact, NEW t \in Threads, RemoveTest(t), semfs_sems[dent.num].hasvnode
  PROVE  Exact'
<1>inv. TypeOK /\ Directory /\ Locked /\ Works /\ Spare /\ Records /\ RefsExact
  BY DEF Exact
<1>0. pc[t] = "unlinked" /\ semfs_dents' = WithoutEntry(dent.name)
  BY DEF RemoveTest, RemoveEntry
<1>1. PICK d \in Entries :
           /\ d = dent /\ d \in Entry /\ d.num \in Slots /\ semfs_sems[d.num] \in Sems
           /\ HasName(d.num) /\ Removes(t, d.num) /\ Record(d.num)
           /\ semfs_sems[d.num].holder = t /\ ~semfs_sems[d.num].linked
           /\ semfs_dents' \in Seq(Entry \cup {NULL}) /\ Directory'
           /\ \A j : HasName(j)' <=> HasName(j) /\ j # d.num
  BY <1>0, RemovedEntry DEF InRemove
<1>2. PICK i \in Slots : i = d.num
  BY <1>1
<1>3. /\ semfs_sems' = [semfs_sems EXCEPT ![i].holder = NULL] /\ semfs_sems[i].hasvnode
      /\ dent' = NULL /\ dirlock' = NULL /\ pc' = [pc EXCEPT ![t] = "idle"]
      /\ vn_refcount' = vn_refcount /\ open' = open
      /\ tablelock' = tablelock /\ uio_resid' = uio_resid
  BY <1>1, <1>2 DEF RemoveTest, RemoveEntry, Go
<1>4. /\ pc' \in [Threads -> Places] /\ pc'[t] = "idle"
      /\ \A u \in Threads : u # t => pc'[u] = pc[u] /\ pc[u] \notin InDir
  BY <1>inv, <1>0, <1>3, Alone DEF TypeOK, Places, InDir
<1>5. /\ semfs_sems' \in [Slots -> Sems \cup {NULL}]
      /\ semfs_sems'[i] # NULL /\ semfs_sems'[i].holder = NULL
      /\ semfs_sems'[i].linked = semfs_sems[i].linked
      /\ semfs_sems'[i].hasvnode = semfs_sems[i].hasvnode
      /\ semfs_sems'[i].cv = semfs_sems[i].cv
      /\ \A j \in Slots : j # i => semfs_sems'[j] = semfs_sems[j]
  <2> DEFINE new == [semfs_sems[i] EXCEPT !.holder = NULL]
  <2>1. /\ new \in Sems /\ new.holder = NULL /\ new.linked = semfs_sems[i].linked
        /\ new.hasvnode = semfs_sems[i].hasvnode /\ new.cv = semfs_sems[i].cv
    BY <1>1, <1>2 DEF Sems
  <2>2. semfs_sems \in [Slots -> Sems \cup {NULL}]
    BY <1>inv DEF TypeOK
  <2>3. semfs_sems' = [semfs_sems EXCEPT ![i] = new]
    BY <1>3, <2>2
  <2> HIDE DEF new
  <2>4. semfs_sems'[i] = new
    BY <2>2, <2>3
  <2> QED
    BY <2>1, <2>2, <2>3, <2>4, Constant
<1>6. TypeOK'
  BY <1>inv, <1>1, <1>3, <1>4, <1>5 DEF TypeOK
<1>7. Locked'
  BY <1>inv, <1>0, <1>3, <1>4, Constant DEF Locked, InDir
<1>8. Works'
  <2>1. ASSUME NEW u \in Threads, u # t PROVE Work(u)'
    <3>1. pc[u] = "clearing" => vn_refcount[open[u]] = 0
      BY <1>inv DEF Works, Work
    <3> QED
      BY <1>inv, <1>3, <1>4, <2>1, <3>1, WorkKept DEF Works, InDir
  <2>2. Work(t)'
    BY <1>inv, <1>0, <1>3, <1>4 DEF Works, Work, InRemove
  <2> QED
    BY <2>1, <2>2 DEF Works
<1>9. Records'
  <2> SUFFICES ASSUME NEW j \in Slots PROVE Record(j)'
    BY DEF Records
  <2>1. \A u \in Threads : /\ Keeps(u, j)' <=> Keeps(u, j)
                           /\ Sleeps(u, j)' <=> Sleeps(u, j)
                           /\ ~Removes(u, j)'
    BY <1>0, <1>3, <1>4 DEF Keeps, Removes, Sleeps, InRemove, InDir
  <2>2. HasName(j)' <=> HasName(j) /\ j # i
    BY <1>1, <1>2
  <2>3. CASE j # i
    <3>1. \A u \in Threads : ~Removes(u, j)
      BY <1>1, <1>2, <1>4, <2>3 DEF Removes, InRemove, InDir
    <3> QED
      BY <1>inv, <1>3, <1>5, <2>1, <2>2, <2>3, <3>1, RecordKept DEF Records
  <2>4. CASE j = i
    <3>1. semfs_sems[i] # NULL /\ Record(i)
      BY <1>1, <1>2, Constant
    <3>2. vn_refcount'[i] > 0 /\ semfs_sems'[i].hasvnode
      BY <1>3, <1>5, <3>1 DEF Record
    <3>3. \A u \in Threads : ~(semfs_sems'[i].holder = u)
      BY <1>5, Constant
    <3> QED
      BY <1>1, <1>2, <1>5, <2>1, <2>2, <2>4, <3>1, <3>2, <3>3 DEF Record
  <2> QED
    BY <2>3, <2>4
<1>10. RefsExact'
  <2>1. \A j \in Slots : Users(j)' = Users(j)
    BY <1>0, <1>3, <1>4 DEF Users
  <2> QED
    BY <1>inv, <1>3, <2>1, RefsKept DEF RefsExact, Users
<1>spare. Spare'
  BY <1>4 DEF Spare, InDir
<1> QED
  BY <1>spare, <1>1, <1>6, <1>7, <1>8, <1>9, <1>10 DEF Exact

\* There is no vnode: it is for the removal to free the semaphore.
LEMMA RemoveDecideStep ==
  ASSUME Exact, NEW t \in Threads, RemoveTest(t), ~semfs_sems[dent.num].hasvnode
  PROVE  Exact'
<1>inv. TypeOK /\ Directory /\ Locked /\ Works /\ Spare /\ Records /\ RefsExact
  BY DEF Exact
<1>0. pc[t] = "unlinked"
  BY DEF RemoveTest
<1>1. /\ dent \in Entries /\ dent.num \in Slots /\ semfs_sems[dent.num] \in Sems
      /\ Record(dent.num)
  BY <1>0, RemovedEntry DEF InRemove
<1>2. /\ pc' = [pc EXCEPT ![t] = "freeing"]
      /\ semfs_dents' = semfs_dents /\ semfs_sems' = semfs_sems /\ vn_refcount' = vn_refcount
      /\ dirlock' = dirlock /\ tablelock' = tablelock /\ dent' = dent /\ open' = open
      /\ uio_resid' = uio_resid
  BY DEF RemoveTest, Go
<1>3. /\ pc' \in [Threads -> Places] /\ pc'[t] = "freeing"
      /\ \A u \in Threads : u # t => pc'[u] = pc[u] /\ pc[u] \notin InDir
  BY <1>inv, <1>0, <1>2, Alone DEF TypeOK, Places, InDir
<1>4. TypeOK'
  BY <1>inv, <1>2, <1>3 DEF TypeOK
<1>5. Directory'
  BY <1>inv, <1>2 DEF Directory
<1>6. Locked'
  BY <1>inv, <1>0, <1>2, <1>3 DEF Locked, InDir
<1>7. Works'
  <2>1. ASSUME NEW u \in Threads, u # t PROVE Work(u)'
    <3>1. pc[u] = "clearing" => vn_refcount[open[u]] = 0
      BY <1>inv DEF Works, Work
    <3> QED
      BY <1>inv, <1>2, <1>3, <2>1, <3>1, WorkKept DEF Works, InDir
  <2>2. Work(t)'
    <3>1. Entries' = Entries
      BY <1>2 DEF Entries
    <3>2. vn_refcount[dent.num] = 0
      BY <1>inv, <1>1, Constant DEF Record, TypeOK
    <3> QED
      BY <1>inv, <1>0, <1>1, <1>2, <1>3, <3>1, <3>2 DEF Works, Work, InRemove
  <2> QED
    BY <2>1, <2>2 DEF Works
<1>8. Records'
  <2> SUFFICES ASSUME NEW j \in Slots PROVE Record(j)'
    BY DEF Records
  <2>1. \A u \in Threads : /\ Keeps(u, j)' <=> Keeps(u, j)
                           /\ Sleeps(u, j)' <=> Sleeps(u, j)
                           /\ Removes(u, j)' <=> Removes(u, j)
    BY <1>0, <1>2, <1>3 DEF Keeps, Removes, Sleeps, InRemove, InDir
  <2>2. HasName(j)' <=> HasName(j)
    BY <1>2 DEF HasName, Entries
  <2> QED
    BY <1>inv, <1>2, <2>1, <2>2, RecordKept DEF Records
<1>9. RefsExact'
  <2>1. \A j \in Slots : Users(j)' = Users(j)
    BY <1>0, <1>2, <1>3 DEF Users
  <2> QED
    BY <1>inv, <1>2, <2>1, RefsKept DEF RefsExact, Users
<1>spare. Spare'
  BY <1>3 DEF Spare, InDir
<1> QED
  BY <1>spare, <1>4, <1>5, <1>6, <1>7, <1>8, <1>9 DEF Exact

\* Nobody can be asleep on the semaphore, for that takes a vnode.
LEMMA RemoveFreeStep ==
  ASSUME Exact, NEW t \in Threads, RemoveFree(t)
  PROVE  Exact' /\ panic' = panic
<1>inv. TypeOK /\ Directory /\ Locked /\ Works /\ Spare /\ Records /\ RefsExact
  BY DEF Exact
<1>0. pc[t] = "freeing" /\ tablelock = NULL
  BY DEF RemoveFree
<1>1. PICK d \in Entries :
           /\ d = dent /\ d \in Entry /\ d.num \in Slots /\ semfs_sems[d.num] \in Sems
           /\ HasName(d.num) /\ Removes(t, d.num) /\ Record(d.num)
           /\ semfs_dents' = WithoutEntry(d.name) =>
                /\ semfs_dents' \in Seq(Entry \cup {NULL}) /\ Directory'
                /\ \A j : HasName(j)' <=> HasName(j) /\ j # d.num
  BY <1>0, RemovedEntry DEF InRemove
<1>2. PICK i \in Slots : i = d.num
  BY <1>1
<1>3. vn_refcount[i] = 0
  BY <1>inv, <1>0, <1>1, <1>2 DEF Works, Work
<1>4. \A u \in Threads : open[u] # i
  BY <1>inv, <1>0, <1>3, Reached, Alone, Constant
<1>5. semfs_sems[i].cv = <<>>
  <2>1. semfs_sems[i].cv \in Seq(Threads) /\ semfs_sems[i] # NULL /\ Record(i)
    BY <1>1, <1>2, Constant DEF Sems
  <2>2. ASSUME semfs_sems[i].cv # <<>> PROVE FALSE
    <3>1. 1 \in DOMAIN semfs_sems[i].cv /\ semfs_sems[i].cv[1] \in Threads
      BY <2>1, <2>2
    <3>2. Sleeps(semfs_sems[i].cv[1], i)
      BY <2>1, <3>1 DEF Record
    <3> QED
      BY <1>4, <3>1, <3>2 DEF Sleeps
  <2> QED
    BY <2>2
<1>6. /\ semfs_sems' = [semfs_sems EXCEPT ![i] = NULL] /\ semfs_dents' = WithoutEntry(d.name)
      /\ dent' = NULL /\ dirlock' = NULL /\ pc' = [pc EXCEPT ![t] = "idle"]
      /\ vn_refcount' = vn_refcount /\ open' = open
      /\ tablelock' = tablelock /\ uio_resid' = uio_resid /\ panic' = panic
  BY <1>1, <1>2, <1>5 DEF RemoveFree, RemoveEntry, Go
<1>7. /\ semfs_dents' \in Seq(Entry \cup {NULL}) /\ Directory'
      /\ \A j : HasName(j)' <=> HasName(j) /\ j # i
  BY <1>1, <1>2, <1>6
<1>8. /\ pc' \in [Threads -> Places] /\ pc'[t] = "idle"
      /\ \A u \in Threads : u # t => pc'[u] = pc[u] /\ pc[u] \notin InDir
  BY <1>inv, <1>0, <1>6, Alone DEF TypeOK, Places, InDir
<1>9. /\ semfs_sems' \in [Slots -> Sems \cup {NULL}] /\ semfs_sems'[i] = NULL
      /\ \A j \in Slots : j # i => semfs_sems'[j] = semfs_sems[j]
  BY <1>inv, <1>6 DEF TypeOK
<1>10. TypeOK'
  BY <1>inv, <1>6, <1>7, <1>8, <1>9 DEF TypeOK
<1>11. Locked'
  BY <1>inv, <1>0, <1>6, <1>8, Constant DEF Locked, InDir
<1>12. \A u \in Threads : pc[u] # "clearing"
  BY <1>inv, <1>0, Alone
<1>13. Works'
  <2>1. ASSUME NEW u \in Threads, u # t PROVE Work(u)'
    BY <1>inv, <1>6, <1>8, <1>12, <2>1, WorkKept DEF Works, InDir
  <2>2. Work(t)'
    BY <1>inv, <1>0, <1>6, <1>8 DEF Works, Work, InRemove
  <2> QED
    BY <2>1, <2>2 DEF Works
<1>14. Records'
  <2> SUFFICES ASSUME NEW j \in Slots PROVE Record(j)'
    BY DEF Records
  <2>1. \A u \in Threads : /\ Keeps(u, j)' <=> Keeps(u, j)
                           /\ ~Keeps(u, j)
                           /\ Sleeps(u, j)' <=> Sleeps(u, j)
                           /\ ~Removes(u, j)'
    BY <1>0, <1>6, <1>8, <1>12 DEF Keeps, Removes, Sleeps, InRemove, InDir
  <2>2. CASE j # i
    <3>1. \A u \in Threads : ~Removes(u, j)
      BY <1>1, <1>2, <1>8, <2>2 DEF Removes, InRemove, InDir
    <3> QED
      BY <1>inv, <1>6, <1>7, <1>9, <2>1, <2>2, <3>1, RecordKept DEF Records
  <2>3. CASE j = i
    BY <1>3, <1>6, <1>7, <1>9, <2>1, <2>3 DEF Record
  <2> QED
    BY <2>2, <2>3
<1>15. RefsExact'
  <2>1. \A j \in Slots : Users(j)' = Users(j)
    BY <1>0, <1>6, <1>8 DEF Users
  <2> QED
    BY <1>inv, <1>6, <2>1, RefsKept DEF RefsExact, Users
<1>spare. Spare'
  BY <1>8 DEF Spare, InDir
<1> QED
  BY <1>spare, <1>6, <1>7, <1>10, <1>11, <1>13, <1>14, <1>15 DEF Exact

-----------------------------------------------------------------------------
(* The sleepers of one semaphore: a queue without repetition.              *)

Distinct(s) == \A k, l \in DOMAIN s : k # l => s[k] # s[l]
On(s, x) == \E k \in DOMAIN s : s[k] = x

LEMMA QueueUp ==
  ASSUME NEW s \in Seq(Threads), Distinct(s), NEW x \in Threads, ~On(s, x)
  PROVE  /\ Append(s, x) \in Seq(Threads) /\ Distinct(Append(s, x))
         /\ \A u : On(Append(s, x), u) <=> On(s, u) \/ u = x
<1> DEFINE r == Append(s, x)
<1>1. /\ r \in Seq(Threads) /\ Len(s) \in Nat /\ DOMAIN s = 1 .. Len(s)
      /\ DOMAIN r = 1 .. Len(s) + 1
      /\ \A k \in DOMAIN s : r[k] = s[k]
      /\ r[Len(s) + 1] = x
  OBVIOUS
<1> HIDE DEF r
<1>2. \A k \in DOMAIN r : k \in DOMAIN s \/ k = Len(s) + 1
  BY <1>1
<1>3. Distinct(r)
  BY <1>1, <1>2 DEF Distinct, On
<1>4. Len(s) + 1 \in DOMAIN r /\ \A k \in DOMAIN s : k \in DOMAIN r
  BY <1>1
<1>5. \A u : On(r, u) <=> On(s, u) \/ u = x
  BY <1>1, <1>2, <1>4 DEF On
<1> QED
  BY <1>1, <1>3, <1>5 DEF r

LEMMA Dequeue ==
  ASSUME NEW s \in Seq(Threads), Distinct(s), s # <<>>
  PROVE  /\ Head(s) \in Threads /\ On(s, Head(s))
         /\ Tail(s) \in Seq(Threads) /\ Distinct(Tail(s))
         /\ \A u : On(Tail(s), u) <=> On(s, u) /\ u # Head(s)
<1> DEFINE r == Tail(s)
<1>1. /\ Len(s) \in Nat /\ Len(s) > 0 /\ DOMAIN s = 1 .. Len(s) /\ 1 \in DOMAIN s
      /\ Head(s) = s[1] /\ s[1] \in Threads
      /\ r \in Seq(Threads) /\ DOMAIN r = 1 .. Len(s) - 1
      /\ \A k \in DOMAIN r : k + 1 \in DOMAIN s /\ k + 1 # 1 /\ r[k] = s[k + 1]
  OBVIOUS
<1>2. \A k \in DOMAIN s : k = 1 \/ (k - 1 \in DOMAIN r /\ r[k - 1] = s[k])
  BY <1>1
<1> HIDE DEF r
<1>3. Distinct(r)
  <2> SUFFICES ASSUME NEW k \in DOMAIN r, NEW l \in DOMAIN r, k # l PROVE r[k] # r[l]
    BY DEF Distinct
  <2>1. k + 1 # l + 1
    BY <1>1
  <2> QED
    BY <1>1, <2>1 DEF Distinct
<1>4. \A u : On(r, u) => On(s, u) /\ u # s[1]
  BY <1>1 DEF On, Distinct
<1>5. \A u : On(s, u) /\ u # s[1] => On(r, u)
  BY <1>1, <1>2 DEF On
<1>6. On(s, Head(s))
  BY <1>1 DEF On
<1> QED
  BY <1>1, <1>3, <1>4, <1>5, <1>6 DEF r

LEMMA NoQueue == <<>> \in Seq(Threads) /\ Distinct(<<>>) /\ \A u : ~On(<<>>, u)
BY DEF Distinct, On

\* The semaphore that a thread uses.
LEMMA OwnSem ==
  ASSUME Exact, NEW t \in Threads, open[t] # NULL, pc[t] # "clearing"
  PROVE  \E i \in Slots :
           /\ open[t] = i /\ semfs_sems[i] \in Sems /\ semfs_sems[i] # NULL /\ Record(i)
           /\ vn_refcount[i] > 0 /\ semfs_sems[i].hasvnode
           /\ semfs_sems[i].count \in Counts /\ semfs_sems[i].cv \in Seq(Threads)
           /\ Distinct(semfs_sems[i].cv)
           /\ \A u \in Threads : On(semfs_sems[i].cv, u) <=> Sleeps(u, i)
<1>inv. Records
  BY DEF Exact
<1>1. PICK i \in Slots : i = open[t] /\ semfs_sems[i] \in Sems /\ vn_refcount[i] > 0
                         /\ semfs_sems[i].hasvnode
  BY Reached
<1>2. semfs_sems[i].count \in Counts /\ semfs_sems[i].cv \in Seq(Threads)
  BY <1>1 DEF Sems
<1>3. Record(i) /\ semfs_sems[i] # NULL
  BY <1>inv, <1>1, Constant DEF Records
<1>4. /\ Distinct(semfs_sems[i].cv)
      /\ \A u \in Threads : On(semfs_sems[i].cv, u) <=> Sleeps(u, i)
  BY <1>3 DEF Record, Distinct, On
<1> QED
  BY <1>1, <1>2, <1>3, <1>4

\* A semaphore whose count and sleepers change, and nothing else of it.
LEMMA RecordCounted ==
  ASSUME NEW i \in Slots, Record(i), semfs_sems[i] # NULL, semfs_sems'[i] # NULL,
         semfs_sems'[i].hasvnode = semfs_sems[i].hasvnode,
         semfs_sems'[i].linked = semfs_sems[i].linked,
         semfs_sems'[i].holder = semfs_sems[i].holder,
         vn_refcount'[i] = vn_refcount[i],
         HasName(i)' <=> HasName(i),
         Distinct(semfs_sems'[i].cv),
         \A u \in Threads : /\ Keeps(u, i)' <=> Keeps(u, i)
                            /\ Removes(u, i)' <=> Removes(u, i)
                            /\ On(semfs_sems'[i].cv, u) <=> Sleeps(u, i)'
  PROVE  Record(i)'
BY DEF Record, Distinct, On

-----------------------------------------------------------------------------
(* Semaphore operations.                                                   *)

\* The loop of semfs_read: what it takes, and whether it sleeps.
LEMMA Taken ==
  ASSUME Exact, NEW t \in Threads, NEW k \in Amounts, pc[t] \in {"idle", "woken"},
         Usable(t), TakeLoop(t, k)
  PROVE  \E i \in Slots, got \in Nat, left \in 0 .. MaxAmount :
           /\ open[t] = i /\ got = (IF k > semfs_sems[i].count THEN semfs_sems[i].count ELSE k)
           /\ left = k - got
           /\ uio_resid' = [uio_resid EXCEPT ![t] = left]
           /\ pc' = [pc EXCEPT ![t] = IF left = 0 THEN "idle" ELSE "asleep"]
           /\ semfs_sems \in [Slots -> Sems \cup {NULL}] /\ semfs_sems[i] \in Sems
           /\ semfs_sems' \in [Slots -> Sems \cup {NULL}]
           /\ semfs_sems'[i] \in Sems /\ semfs_sems'[i] # NULL
           /\ semfs_sems'[i].count = semfs_sems[i].count - got
           /\ semfs_sems'[i].hasvnode = semfs_sems[i].hasvnode
           /\ semfs_sems'[i].linked = semfs_sems[i].linked
           /\ semfs_sems'[i].holder = semfs_sems[i].holder
           /\ Distinct(semfs_sems'[i].cv)
           /\ \A u \in Threads : On(semfs_sems'[i].cv, u) <=> (Sleeps(u, i) \/ (u = t /\ left # 0))
           /\ \A j \in Slots : j # i => semfs_sems'[j] = semfs_sems[j]
<1>inv. TypeOK
  BY DEF Exact
<1>1. open[t] # NULL /\ pc[t] # "clearing"
  BY DEF Usable
<1>2. PICK i \in Slots :
           /\ open[t] = i /\ semfs_sems[i] \in Sems /\ semfs_sems[i] # NULL
           /\ semfs_sems[i].count \in Counts /\ semfs_sems[i].cv \in Seq(Threads)
           /\ Distinct(semfs_sems[i].cv)
           /\ \A u \in Threads : On(semfs_sems[i].cv, u) <=> Sleeps(u, i)
  BY <1>1, OwnSem
<1> DEFINE c == semfs_sems[i].count
           q == semfs_sems[i].cv
           g == IF k > c THEN c ELSE k
<1>3. /\ c \in Nat /\ c < Width /\ k \in Nat /\ k > 0 /\ k <= MaxAmount /\ MaxAmount \in Nat
      /\ Width \in Nat
  BY <1>2, Constant DEF Counts, Amounts
<1>4. /\ g \in Nat /\ g <= c /\ g <= k /\ k - g \in 0 .. MaxAmount /\ c - g \in Counts
      /\ g = k <=> k - g = 0
  BY <1>3 DEF Counts
<1> DEFINE newq == IF g = k THEN q ELSE Append(q, t)
           new == [semfs_sems[i] EXCEPT !.count = c - g, !.cv = newq]
<1>5. /\ newq \in Seq(Threads) /\ Distinct(newq)
      /\ \A u \in Threads : On(newq, u) <=> (Sleeps(u, i) \/ (u = t /\ k - g # 0))
  <2>1. CASE g = k
    BY <1>2, <1>4, <2>1
  <2>2. CASE g # k
    <3>1. ~On(q, t)
      BY <1>2 DEF Sleeps
    <3>2. /\ Append(q, t) \in Seq(Threads) /\ Distinct(Append(q, t))
          /\ \A u : On(Append(q, t), u) <=> On(q, u) \/ u = t
      BY <1>2, <3>1, QueueUp
    <3>3. newq = Append(q, t) /\ k - g # 0
      BY <1>4, <2>2
    <3> HIDE DEF newq, g
    <3> QED
      BY <1>2, <3>2, <3>3
  <2> QED
    BY <2>1, <2>2
<1>6. /\ uio_resid' = [uio_resid EXCEPT ![t] = k - g]
      /\ semfs_sems' = [semfs_sems EXCEPT ![i].count = @ - g,
                                          ![i].cv = IF g = k THEN @ ELSE Append(@, t)]
      /\ pc' = [pc EXCEPT ![t] = IF g = k THEN "idle" ELSE "asleep"]
  BY <1>2 DEF TakeLoop, Go
<1>7. semfs_sems \in [Slots -> Sems \cup {NULL}]
  BY <1>inv DEF TypeOK
<1> HIDE DEF g
<1>8. semfs_sems' = [semfs_sems EXCEPT ![i] = new]
  BY <1>2, <1>6, <1>7
<1>9. /\ new \in Sems /\ new.count = c - g /\ new.cv = newq
      /\ new.hasvnode = semfs_sems[i].hasvnode /\ new.linked = semfs_sems[i].linked
      /\ new.holder = semfs_sems[i].holder
  <2> HIDE DEF newq
  <2> QED
    BY <1>2, <1>4, <1>5 DEF Sems
<1> HIDE DEF new, newq, c, q
<1>10. /\ semfs_sems' \in [Slots -> Sems \cup {NULL}] /\ semfs_sems'[i] = new /\ new # NULL
       /\ \A j \in Slots : j # i => semfs_sems'[j] = semfs_sems[j]
  BY <1>2, <1>7, <1>8, <1>9, Constant
<1>11. g = (IF k > semfs_sems[i].count THEN semfs_sems[i].count ELSE k)
  BY DEF g, c
<1>12. pc' = [pc EXCEPT ![t] = IF k - g = 0 THEN "idle" ELSE "asleep"]
  BY <1>4, <1>6
<1>13. c = semfs_sems[i].count
  BY DEF c
<1>14. open[t] = i /\ k - g = k - g /\ semfs_sems'[i] \in Sems /\ semfs_sems'[i] # NULL
  BY <1>2, <1>9, <1>10
<1>15. /\ semfs_sems'[i].count = semfs_sems[i].count - g
       /\ semfs_sems'[i].hasvnode = semfs_sems[i].hasvnode
       /\ semfs_sems'[i].linked = semfs_sems[i].linked
       /\ semfs_sems'[i].holder = semfs_sems[i].holder
  BY <1>9, <1>10, <1>13
<1>16. semfs_sems'[i].cv = newq
  BY <1>9, <1>10
<1>17. /\ Distinct(semfs_sems'[i].cv)
       /\ \A u \in Threads : On(semfs_sems'[i].cv, u)
                               <=> (Sleeps(u, i) \/ (u = t /\ k - g # 0))
  BY <1>5, <1>16
<1>18. k - g \in 0 .. MaxAmount /\ g \in Nat
  BY <1>4
<1> USE <1>18
<1> WITNESS i \in Slots, g \in Nat, k - g \in 0 .. MaxAmount
<1> QED
  BY <1>2, <1>6, <1>7, <1>10, <1>11, <1>12, <1>14, <1>15, <1>17

LEMMA TakeStep ==
  ASSUME Exact, NEW t \in Threads, NEW k \in Amounts, pc[t] \in {"idle", "woken"},
         Usable(t), TakeLoop(t, k), UNCHANGED <<semfs_dents, vn_refcount, locks, open>>
  PROVE  Exact'
<1>inv. TypeOK /\ Directory /\ Locked /\ Works /\ Spare /\ Records /\ RefsExact
  BY DEF Exact
<1>1. PICK i \in Slots, left \in 0 .. MaxAmount :
           /\ open[t] = i
           /\ uio_resid' = [uio_resid EXCEPT ![t] = left]
           /\ pc' = [pc EXCEPT ![t] = IF left = 0 THEN "idle" ELSE "asleep"]
           /\ semfs_sems[i] \in Sems
           /\ semfs_sems' \in [Slots -> Sems \cup {NULL}]
           /\ semfs_sems'[i] \in Sems /\ semfs_sems'[i] # NULL
           /\ semfs_sems'[i].hasvnode = semfs_sems[i].hasvnode
           /\ semfs_sems'[i].linked = semfs_sems[i].linked
           /\ semfs_sems'[i].holder = semfs_sems[i].holder
           /\ Distinct(semfs_sems'[i].cv)
           /\ \A u \in Threads : On(semfs_sems'[i].cv, u) <=> (Sleeps(u, i) \/ (u = t /\ left # 0))
           /\ \A j \in Slots : j # i => semfs_sems'[j] = semfs_sems[j]
  BY Taken
<1>2. /\ semfs_dents' = semfs_dents /\ vn_refcount' = vn_refcount /\ open' = open
      /\ dirlock' = dirlock /\ tablelock' = tablelock /\ dent' = dent
  BY DEF locks
<1>3. /\ pc' \in [Threads -> Places]
      /\ pc'[t] = IF left = 0 THEN "idle" ELSE "asleep"
      /\ \A u \in Threads : u # t => pc'[u] = pc[u]
  BY <1>inv, <1>1 DEF TypeOK, Places
<1>4. /\ uio_resid' \in [Threads -> 0 .. MaxAmount] /\ uio_resid'[t] = left
      /\ \A u \in Threads : u # t => uio_resid'[u] = uio_resid[u]
  BY <1>inv, <1>1 DEF TypeOK
<1>5. open[t] # NULL /\ vn_refcount[i] > 0 /\ semfs_sems[i] # NULL
  BY <1>1, Reached, Constant DEF Usable
<1>6. TypeOK'
  BY <1>inv, <1>1, <1>2, <1>3, <1>4 DEF TypeOK
<1>7. Directory'
  BY <1>inv, <1>2 DEF Directory
<1>8. Locked'
  BY <1>inv, <1>2, <1>3 DEF Locked, InDir
<1>9. Works'
  <2>1. ASSUME NEW u \in Threads, u # t PROVE Work(u)'
    <3>1. /\ pc[u] = "clearing" => vn_refcount[open[u]] = 0
          /\ pc[u] = "inserted" => vn_refcount[dent.num] = 0 /\ semfs_sems[dent.num].count = 0
                                   /\ dent.num \in Slots
          /\ pc[u] = "freeing" => vn_refcount[dent.num] = 0
      BY <1>inv, EntryFields DEF Works, Work
    <3>2. pc[u] = "inserted" => dent.num # i
      BY <1>5, <3>1
    <3>3. pc[u] = "inserted" => semfs_sems'[dent.num].count = 0
      BY <1>1, <3>1, <3>2
    <3> QED
      BY <1>inv, <1>2, <1>3, <1>4, <2>1, <3>1, <3>3, WorkKept DEF Works
  <2>2. Work(t)'
    BY <1>2, <1>3, <1>4, <1>5 DEF Work, InRemove
  <2> QED
    BY <2>1, <2>2 DEF Works
<1>10. Records'
  <2> SUFFICES ASSUME NEW j \in Slots PROVE Record(j)'
    BY DEF Records
  <2>1. \A u \in Threads : /\ Keeps(u, j)' <=> Keeps(u, j)
                           /\ Removes(u, j)' <=> Removes(u, j)
                           /\ Sleeps(u, j)' <=> Sleeps(u, j) \/ (u = t /\ left # 0 /\ j = i)
    BY <1>1, <1>2, <1>3 DEF Keeps, Removes, Sleeps, InRemove
  <2>2. HasName(j)' <=> HasName(j)
    BY <1>2 DEF HasName, Entries
  <2>3. CASE j # i
    BY <1>inv, <1>1, <1>2, <2>1, <2>2, <2>3, RecordKept DEF Records
  <2>4. CASE j = i
    <3>1. Record(i)
      BY <1>inv DEF Records
    <3>2. \A u \in Threads : On(semfs_sems'[i].cv, u) <=> Sleeps(u, i)'
      BY <1>1, <2>1, <2>4
    <3> QED
      BY <1>1, <1>2, <1>5, <2>1, <2>2, <2>4, <3>1, <3>2, RecordCounted
  <2> QED
    BY <2>3, <2>4
<1>11. RefsExact'
  <2>1. \A j \in Slots : Users(j)' = Users(j)
    BY <1>2, <1>3 DEF Users
  <2> QED
    BY <1>inv, <1>2, <2>1, RefsKept DEF RefsExact, Users
<1>spare. Spare'
  BY <1>inv, <1>2, <1>3 DEF Spare
<1> QED
  BY <1>spare, <1>6, <1>7, <1>8, <1>9, <1>10, <1>11 DEF Exact

\* semfs_wakeup: who is woken leaves the queue, the others stay.
LEMMA Wakened ==
  ASSUME Exact, NEW t \in Threads, NEW c \in Counts, pc[t] = "idle", Usable(t), SetCount(t, c)
  PROVE  \E i \in Slots, W \in SUBSET Threads :
           /\ open[t] = i /\ t \notin W /\ \A u \in W : Sleeps(u, i)
           /\ pc' = [u \in Threads |-> IF u \in W THEN "woken" ELSE pc[u]]
           /\ semfs_sems[i] \in Sems /\ semfs_sems' \in [Slots -> Sems \cup {NULL}]
           /\ semfs_sems'[i] \in Sems /\ semfs_sems'[i] # NULL
           /\ semfs_sems'[i].count = c
           /\ semfs_sems'[i].hasvnode = semfs_sems[i].hasvnode
           /\ semfs_sems'[i].linked = semfs_sems[i].linked
           /\ semfs_sems'[i].holder = semfs_sems[i].holder
           /\ Distinct(semfs_sems'[i].cv)
           /\ \A u \in Threads : On(semfs_sems'[i].cv, u) <=> Sleeps(u, i) /\ u \notin W
           /\ \A j \in Slots : j # i => semfs_sems'[j] = semfs_sems[j]
<1>inv. TypeOK
  BY DEF Exact
<1>1. open[t] # NULL /\ pc[t] # "clearing"
  BY DEF Usable
<1>2. PICK i \in Slots :
           /\ open[t] = i /\ semfs_sems[i] \in Sems /\ semfs_sems[i] # NULL
           /\ semfs_sems[i].cv \in Seq(Threads)
           /\ Distinct(semfs_sems[i].cv)
           /\ \A u \in Threads : On(semfs_sems[i].cv, u) <=> Sleeps(u, i)
  BY <1>1, OwnSem
<1> DEFINE q == semfs_sems[i].cv
           w == Woken(semfs_sems[i], c)
           newq == IF w = {} THEN q ELSE IF c = 1 THEN Tail(q) ELSE <<>>
           new == [semfs_sems[i] EXCEPT !.count = c, !.cv = newq]
<1>3. \/ w = {}
      \/ c = 1 /\ q # <<>> /\ w = {Head(q)}
      \/ c # 1 /\ q # <<>> /\ w = {q[k] : k \in DOMAIN q}
  BY DEF Woken
<1> HIDE DEF w
<1>4. /\ w \in SUBSET Threads /\ \A u \in w : Sleeps(u, i)
      /\ newq \in Seq(Threads) /\ Distinct(newq)
      /\ \A u \in Threads : On(newq, u) <=> Sleeps(u, i) /\ u \notin w
  <2>1. CASE w = {}
    BY <1>2, <2>1
  <2>2. CASE w # {} /\ c = 1
    <3>1. q # <<>> /\ w = {Head(q)} /\ newq = Tail(q)
      BY <1>3, <2>2
    <3>2. /\ Head(q) \in Threads /\ On(q, Head(q))
          /\ Tail(q) \in Seq(Threads) /\ Distinct(Tail(q))
          /\ \A u : On(Tail(q), u) <=> On(q, u) /\ u # Head(q)
      BY <1>2, <3>1, Dequeue
    <3> HIDE DEF newq
    <3> QED
      BY <1>2, <3>1, <3>2
  <2>3. CASE w # {} /\ c # 1
    <3>1. w = {q[k] : k \in DOMAIN q} /\ newq = <<>>
      BY <1>3, <2>3
    <3>2. \A u : u \in w <=> On(q, u)
      BY <3>1 DEF On
    <3>3. \A k \in DOMAIN q : q[k] \in Threads
      BY <1>2
    <3>4. w \in SUBSET Threads
      BY <3>1, <3>3
    <3> HIDE DEF newq
    <3> QED
      BY <1>2, <3>1, <3>2, <3>4, NoQueue
  <2> QED
    BY <2>1, <2>2, <2>3
<1>5. /\ semfs_sems' = [semfs_sems EXCEPT ![i].count = c,
                          ![i].cv = IF w = {} THEN @ ELSE IF c = 1 THEN Tail(@) ELSE <<>>]
      /\ pc' = [u \in Threads |-> IF u \in w THEN "woken" ELSE pc[u]]
  BY <1>2 DEF SetCount, w
<1>6. semfs_sems \in [Slots -> Sems \cup {NULL}]
  BY <1>inv DEF TypeOK
<1>7. semfs_sems' = [semfs_sems EXCEPT ![i] = new]
  BY <1>2, <1>5, <1>6
<1>8. /\ new \in Sems /\ new.count = c /\ new.cv = newq
      /\ new.hasvnode = semfs_sems[i].hasvnode /\ new.linked = semfs_sems[i].linked
      /\ new.holder = semfs_sems[i].holder
  <2> HIDE DEF newq
  <2> QED
    BY <1>2, <1>4 DEF Sems
<1> HIDE DEF new, newq, q
<1>9. /\ semfs_sems' \in [Slots -> Sems \cup {NULL}] /\ semfs_sems'[i] = new /\ new # NULL
      /\ \A j \in Slots : j # i => semfs_sems'[j] = semfs_sems[j]
  BY <1>2, <1>6, <1>7, <1>8, Constant
<1>10. t \notin w
  BY <1>4 DEF Sleeps
<1>11. /\ semfs_sems'[i] \in Sems /\ semfs_sems'[i] # NULL /\ semfs_sems'[i].count = c
       /\ semfs_sems'[i].hasvnode = semfs_sems[i].hasvnode
       /\ semfs_sems'[i].linked = semfs_sems[i].linked
       /\ semfs_sems'[i].holder = semfs_sems[i].holder
       /\ semfs_sems'[i].cv = newq
  BY <1>8, <1>9
<1>12. /\ Distinct(semfs_sems'[i].cv)
       /\ \A u \in Threads : On(semfs_sems'[i].cv, u) <=> Sleeps(u, i) /\ u \notin w
  BY <1>4, <1>11
<1>13. w \in SUBSET Threads
  BY <1>4
<1> USE <1>13
<1> WITNESS i \in Slots, w \in SUBSET Threads
<1> QED
  BY <1>2, <1>4, <1>5, <1>9, <1>10, <1>11, <1>12

LEMMA CountStep ==
  ASSUME Exact, NEW t \in Threads, NEW c \in Counts, pc[t] = "idle", Usable(t), SetCount(t, c),
         UNCHANGED <<semfs_dents, vn_refcount, locks, open, uio_resid>>
  PROVE  Exact'
<1>inv. TypeOK /\ Directory /\ Locked /\ Works /\ Spare /\ Records /\ RefsExact
  BY DEF Exact
<1>1. PICK i \in Slots, W \in SUBSET Threads :
           /\ open[t] = i /\ t \notin W /\ \A u \in W : Sleeps(u, i)
           /\ pc' = [u \in Threads |-> IF u \in W THEN "woken" ELSE pc[u]]
           /\ semfs_sems[i] \in Sems /\ semfs_sems' \in [Slots -> Sems \cup {NULL}]
           /\ semfs_sems'[i] \in Sems /\ semfs_sems'[i] # NULL
           /\ semfs_sems'[i].hasvnode = semfs_sems[i].hasvnode
           /\ semfs_sems'[i].linked = semfs_sems[i].linked
           /\ semfs_sems'[i].holder = semfs_sems[i].holder
           /\ Distinct(semfs_sems'[i].cv)
           /\ \A u \in Threads : On(semfs_sems'[i].cv, u) <=> Sleeps(u, i) /\ u \notin W
           /\ \A j \in Slots : j # i => semfs_sems'[j] = semfs_sems[j]
  BY Wakened
<1>2. /\ semfs_dents' = semfs_dents /\ vn_refcount' = vn_refcount /\ open' = open
      /\ dirlock' = dirlock /\ tablelock' = tablelock /\ dent' = dent
      /\ uio_resid' = uio_resid
  BY DEF locks
<1>3. /\ pc' \in [Threads -> Places]
      /\ \A u \in Threads : u \notin W => pc'[u] = pc[u]
      /\ \A u \in W : u \in Threads /\ pc'[u] = "woken" /\ pc[u] = "asleep" /\ open[u] = i
  BY <1>inv, <1>1 DEF TypeOK, Places, Sleeps
<1>4. vn_refcount[i] > 0 /\ semfs_sems[i] # NULL
  BY <1>1, Reached, Constant DEF Usable
<1>5. TypeOK'
  BY <1>inv, <1>1, <1>2, <1>3 DEF TypeOK
<1>6. Directory'
  BY <1>inv, <1>2 DEF Directory
<1>7. Locked'
  BY <1>inv, <1>2, <1>3 DEF Locked, InDir
<1>8. Works'
  <2>1. ASSUME NEW u \in Threads, u \notin W PROVE Work(u)'
    <3>1. /\ pc[u] = "clearing" => vn_refcount[open[u]] = 0
          /\ pc[u] = "inserted" => vn_refcount[dent.num] = 0 /\ semfs_sems[dent.num].count = 0
                                   /\ dent.num \in Slots
          /\ pc[u] = "freeing" => vn_refcount[dent.num] = 0
      BY <1>inv, EntryFields DEF Works, Work
    <3>2. pc[u] = "inserted" => dent.num # i
      BY <1>4, <3>1
    <3>3. pc[u] = "inserted" => semfs_sems'[dent.num].count = 0
      BY <1>1, <3>1, <3>2
    <3> QED
      BY <1>inv, <1>2, <1>3, <2>1, <3>1, <3>3, WorkKept DEF Works
  <2>2. ASSUME NEW u \in W PROVE Work(u)'
    BY <1>inv, <1>2, <1>3 DEF Works, Work, InRemove
  <2> QED
    BY <2>1, <2>2 DEF Works
<1>9. Records'
  <2> SUFFICES ASSUME NEW j \in Slots PROVE Record(j)'
    BY DEF Records
  <2>1. \A u \in Threads : /\ Keeps(u, j)' <=> Keeps(u, j)
                           /\ Removes(u, j)' <=> Removes(u, j)
                           /\ Sleeps(u, j)' <=> Sleeps(u, j) /\ u \notin W
    BY <1>2, <1>3 DEF Keeps, Removes, Sleeps, InRemove
  <2>2. HasName(j)' <=> HasName(j)
    BY <1>2 DEF HasName, Entries
  <2>3. CASE j # i
    <3>1. \A u \in Threads : Sleeps(u, j) => u \notin W
      BY <1>3, <2>3 DEF Sleeps
    <3> QED
      BY <1>inv, <1>1, <1>2, <2>1, <2>2, <2>3, <3>1, RecordKept DEF Records
  <2>4. CASE j = i
    <3>1. Record(i)
      BY <1>inv DEF Records
    <3>2. \A u \in Threads : On(semfs_sems'[i].cv, u) <=> Sleeps(u, i)'
      BY <1>1, <2>1, <2>4
    <3> QED
      BY <1>1, <1>2, <1>4, <2>1, <2>2, <2>4, <3>1, <3>2, RecordCounted
  <2> QED
    BY <2>3, <2>4
<1>10. RefsExact'
  <2>1. \A j \in Slots : Users(j)' = Users(j)
    BY <1>2, <1>3 DEF Users
  <2> QED
    BY <1>inv, <1>2, <2>1, RefsKept DEF RefsExact, Users
<1>spare. Spare'
  BY <1>inv, <1>2, <1>3 DEF Spare
<1> QED
  BY <1>spare, <1>5, <1>6, <1>7, <1>8, <1>9, <1>10 DEF Exact

LEMMA Remainder ==
  ASSUME NEW b \in Nat \ {0}, NEW a \in Nat, a < b + b
  PROVE  a % b = IF a < b THEN a ELSE a - b
<1>1. CASE a < b
  BY <1>1
<1>2. CASE ~ (a < b)
  BY <1>2
<1> QED
  BY <1>1, <1>2

\* semfs_write: a sum that does not wrap is the sum.
LEMMA NewCount ==
  ASSUME NEW c \in Counts, NEW k \in Amounts, (c + k) % Width >= c
  PROVE  (c + k) % Width = c + k /\ c + k \in Counts
<1>1. /\ c \in Nat /\ c < Width /\ k \in Nat /\ k > 0 /\ k < Width /\ Width \in Nat \ {0}
  BY Constant DEF Counts, Amounts
<1> DEFINE a == c + k
<1>2. a \in Nat /\ a < Width + Width /\ a - Width < c
  BY <1>1
<1>3. a % Width = IF a < Width THEN a ELSE a - Width
  <2> HIDE DEF a
  <2> QED
    BY <1>1, <1>2, Remainder
<1>4. a % Width >= c
  OBVIOUS
<1> HIDE DEF a
<1>5. a < Width /\ a % Width = a
  BY <1>1, <1>2, <1>3, <1>4
<1> QED
  BY <1>1, <1>2, <1>5 DEF a, Counts

-----------------------------------------------------------------------------
(* The last reference.                                                     *)

\* A reference less, of several: vnode_decref, and semfs_reclaim with EBUSY.
LEMMA DropStep ==
  ASSUME Exact, NEW t \in Threads, pc[t] \in {"idle", "reclaim"}, open[t] # NULL,
         vn_refcount[open[t]] > 1,
         vn_refcount' = [vn_refcount EXCEPT ![open[t]] = @ - 1],
         open' = [open EXCEPT ![t] = NULL], pc' = [pc EXCEPT ![t] = "idle"],
         UNCHANGED <<semfs_dents, semfs_sems, locks, uio_resid>>
  PROVE  Exact'
<1>inv. TypeOK /\ Directory /\ Locked /\ Works /\ Spare /\ Records /\ RefsExact
  BY DEF Exact
<1>1. PICK i \in Slots : i = open[t]
  BY Reached
<1>2. /\ semfs_dents' = semfs_dents /\ semfs_sems' = semfs_sems /\ uio_resid' = uio_resid
      /\ dirlock' = dirlock /\ tablelock' = tablelock /\ dent' = dent
  BY DEF locks
<1>3. /\ pc' \in [Threads -> Places] /\ pc'[t] = "idle"
      /\ \A u \in Threads : u # t => pc'[u] = pc[u]
  BY <1>inv DEF TypeOK, Places
<1>4. /\ open' \in [Threads -> Slots \cup {NULL}] /\ open'[t] = NULL
      /\ \A u \in Threads : u # t => open'[u] = open[u]
  BY <1>inv DEF TypeOK
<1>5. /\ vn_refcount' \in [Slots -> Nat] /\ vn_refcount'[i] = vn_refcount[i] - 1
      /\ vn_refcount[i] \in Nat /\ vn_refcount[i] > 1
      /\ \A j \in Slots : j # i => vn_refcount'[j] = vn_refcount[j]
  <2>1. vn_refcount \in [Slots -> Nat] /\ vn_refcount[i] \in Nat /\ vn_refcount[i] > 1
    BY <1>inv, <1>1 DEF TypeOK
  <2>2. vn_refcount[i] - 1 \in Nat
    BY <2>1
  <2> QED
    BY <1>1, <2>1, <2>2
<1>6. TypeOK'
  BY <1>inv, <1>2, <1>3, <1>4, <1>5 DEF TypeOK
<1>7. Directory'
  BY <1>inv, <1>2 DEF Directory
<1>8. Locked'
  BY <1>inv, <1>2, <1>3 DEF Locked, InDir
<1>9. Works'
  <2>1. ASSUME NEW u \in Threads, u # t PROVE Work(u)'
    <3>1. /\ pc[u] = "clearing" => vn_refcount[open[u]] = 0 /\ open[u] \in Slots
          /\ pc[u] = "inserted" => vn_refcount[dent.num] = 0 /\ semfs_sems[dent.num].count = 0
                                   /\ dent.num \in Slots
          /\ pc[u] = "freeing" => vn_refcount[dent.num] = 0 /\ dent.num \in Slots
      BY <1>inv, EntryFields, Reached DEF Works, Work, InRemove
    <3>2. /\ pc[u] = "clearing" => vn_refcount'[open[u]] = 0
          /\ pc[u] \in {"inserted", "freeing"} => vn_refcount'[dent.num] = 0
          /\ pc[u] = "inserted" => semfs_sems'[dent.num].count = 0
      BY <1>2, <1>5, <3>1
    <3> QED
      BY <1>inv, <1>2, <1>3, <1>4, <2>1, <3>2, WorkKept DEF Works
  <2>2. Work(t)'
    BY <1>inv, <1>2, <1>3 DEF Works, Work, InRemove
  <2> QED
    BY <2>1, <2>2 DEF Works
<1>10. Records'
  <2> SUFFICES ASSUME NEW j \in Slots PROVE Record(j)'
    BY DEF Records
  <2>1. \A u \in Threads : /\ Keeps(u, j)' <=> Keeps(u, j)
                           /\ Removes(u, j)' <=> Removes(u, j)
                           /\ Sleeps(u, j)' <=> Sleeps(u, j)
    BY <1>2, <1>3, <1>4 DEF Keeps, Removes, Sleeps, InRemove
  <2>2. HasName(j)' <=> HasName(j)
    BY <1>2 DEF HasName, Entries
  <2>3. vn_refcount'[j] > 0 <=> vn_refcount[j] > 0
    BY <1>5
  <2> QED
    BY <1>inv, <1>2, <2>1, <2>2, <2>3, RecordKept DEF Records
<1>11. RefsExact'
  <2> SUFFICES ASSUME NEW j \in Slots PROVE vn_refcount'[j] = Cardinality(Users(j)')
    BY DEF RefsExact, Users
  <2>1. CASE j # i
    <3>1. Users(j)' = Users(j)
      BY <1>1, <1>3, <1>4, <2>1, Constant DEF Users
    <3> QED
      BY <1>inv, <1>5, <2>1, <3>1, RefsKept
  <2>2. CASE j = i
    <3>1. Users(i)' = Users(i) \ {t} /\ t \in Users(i)
      BY <1>1, <1>3, <1>4, Constant DEF Users
    <3>2. IsFiniteSet(Users(i)) /\ Cardinality(Users(i)) = vn_refcount[i]
      BY <1>inv, UsersCounted
    <3>3. Cardinality(Users(i) \ {t}) = vn_refcount[i] - 1
      BY <3>1, <3>2, FS_RemoveElement
    <3> QED
      BY <1>5, <2>2, <3>1, <3>3
  <2> QED
    BY <2>1, <2>2
<1>spare. Spare'
  BY <1>inv, <1>2, <1>3, <1>4 DEF Spare
<1> QED
  BY <1>spare, <1>6, <1>7, <1>8, <1>9, <1>10, <1>11 DEF Exact

LEMMA CloseStep == ASSUME Exact, NEW t \in Threads, Close(t) PROVE Exact'
<1>inv. TypeOK /\ Directory /\ Locked /\ Works /\ Spare /\ Records /\ RefsExact
  BY DEF Exact
<1>0. /\ pc[t] = "idle" /\ open[t] # NULL /\ pc \in [Threads -> Places]
      /\ UNCHANGED <<semfs_dents, semfs_sems, locks, uio_resid>>
  BY <1>inv DEF Close, TypeOK
<1>1. CASE vn_refcount[open[t]] > 1
  <2>1. /\ vn_refcount' = [vn_refcount EXCEPT ![open[t]] = @ - 1]
        /\ open' = [open EXCEPT ![t] = NULL] /\ pc' = pc
    BY <1>1 DEF Close
  <2>2. pc' = [pc EXCEPT ![t] = "idle"]
    BY <1>0, <2>1
  <2> QED
    BY <1>0, <1>1, <2>1, <2>2, DropStep
<1>2. CASE ~(vn_refcount[open[t]] > 1)
  <2>1. /\ pc' = [pc EXCEPT ![t] = "reclaim"] /\ vn_refcount' = vn_refcount /\ open' = open
        /\ semfs_dents' = semfs_dents /\ semfs_sems' = semfs_sems /\ uio_resid' = uio_resid
        /\ dirlock' = dirlock /\ tablelock' = tablelock /\ dent' = dent
    BY <1>2 DEF Close, Go, locks
  <2>2. /\ pc' \in [Threads -> Places] /\ pc'[t] = "reclaim"
        /\ \A u \in Threads : u # t => pc'[u] = pc[u]
    BY <1>inv, <2>1 DEF TypeOK, Places
  <2>3. TypeOK'
    BY <1>inv, <2>1, <2>2 DEF TypeOK
  <2>4. Directory' /\ Locked'
    BY <1>inv, <1>0, <2>1, <2>2 DEF Directory, Locked, InDir
  <2>5. Works'
    <3>1. ASSUME NEW u \in Threads, u # t PROVE Work(u)'
      <4>1. /\ pc[u] = "clearing" => vn_refcount[open[u]] = 0
            /\ pc[u] = "inserted" => vn_refcount[dent.num] = 0
                                     /\ semfs_sems[dent.num].count = 0
            /\ pc[u] = "freeing" => vn_refcount[dent.num] = 0
        BY <1>inv DEF Works, Work
      <4> QED
        BY <1>inv, <2>1, <2>2, <3>1, <4>1, WorkKept DEF Works
    <3>2. Work(t)'
      BY <1>inv, <1>0, <2>1, <2>2 DEF Works, Work, InRemove
    <3> QED
      BY <3>1, <3>2 DEF Works
  <2>6. Spare'
    BY <1>inv, <2>1, <2>2 DEF Spare
  <2>7. Records'
    <3> SUFFICES ASSUME NEW j \in Slots PROVE Record(j)'
      BY DEF Records
    <3>1. \A u \in Threads : /\ Keeps(u, j)' <=> Keeps(u, j)
                             /\ Removes(u, j)' <=> Removes(u, j)
                             /\ Sleeps(u, j)' <=> Sleeps(u, j)
      BY <1>0, <2>1, <2>2 DEF Keeps, Removes, Sleeps, InRemove
    <3>2. HasName(j)' <=> HasName(j)
      BY <2>1 DEF HasName, Entries
    <3> QED
      BY <1>inv, <2>1, <3>1, <3>2, RecordKept DEF Records
  <2>8. RefsExact'
    <3>1. \A j \in Slots : Users(j)' = Users(j)
      BY <1>0, <2>1, <2>2 DEF Users
    <3> QED
      BY <1>inv, <2>1, <3>1, RefsKept DEF RefsExact, Users
  <2> QED
    BY <2>3, <2>4, <2>5, <2>6, <2>7, <2>8 DEF Exact
<1> QED
  BY <1>1, <1>2

\* Nobody took a reference meanwhile: the vnode goes, and its flag.
LEMMA ReclaimClearStep ==
  ASSUME Exact, NEW t \in Threads, Reclaim(t), ~(vn_refcount[open[t]] > 1)
  PROVE  Exact' /\ panic' = panic
<1>inv. TypeOK /\ Directory /\ Locked /\ Works /\ Spare /\ Records /\ RefsExact
  BY DEF Exact
<1>0. pc[t] = "reclaim" /\ tablelock = NULL /\ open[t] # NULL
  BY <1>inv DEF Reclaim, Works, Work
<1>1. PICK i \in Slots : /\ i = open[t] /\ semfs_sems[i] \in Sems /\ semfs_sems[i] # NULL
                         /\ vn_refcount[i] > 0 /\ semfs_sems[i].hasvnode
  BY <1>0, Reached, Constant
<1>2. /\ vn_refcount' = [vn_refcount EXCEPT ![i] = 0]
      /\ semfs_sems' = [semfs_sems EXCEPT ![i].hasvnode = FALSE]
      /\ tablelock' = t /\ pc' = [pc EXCEPT ![t] = "clearing"]
      /\ semfs_dents' = semfs_dents /\ dirlock' = dirlock /\ dent' = dent /\ open' = open
      /\ uio_resid' = uio_resid /\ panic' = panic
  BY <1>1 DEF Reclaim, Go
<1>3. /\ pc' \in [Threads -> Places] /\ pc'[t] = "clearing"
      /\ \A u \in Threads : u # t => pc'[u] = pc[u]
      /\ \A u \in Threads : pc[u] # "clearing"
  BY <1>inv, <1>0, <1>2, Alone DEF TypeOK, Places
<1>4. /\ vn_refcount' \in [Slots -> Nat] /\ vn_refcount'[i] = 0 /\ vn_refcount[i] = 1
      /\ \A j \in Slots : j # i => vn_refcount'[j] = vn_refcount[j]
  BY <1>inv, <1>1, <1>2 DEF TypeOK
<1>5. /\ semfs_sems' \in [Slots -> Sems \cup {NULL}] /\ semfs_sems'[i] # NULL
      /\ ~semfs_sems'[i].hasvnode
      /\ semfs_sems'[i].linked = semfs_sems[i].linked
      /\ semfs_sems'[i].holder = semfs_sems[i].holder
      /\ semfs_sems'[i].cv = semfs_sems[i].cv
      /\ \A j \in Slots : j # i => semfs_sems'[j] = semfs_sems[j]
  <2> DEFINE new == [semfs_sems[i] EXCEPT !.hasvnode = FALSE]
  <2>1. /\ new \in Sems /\ ~new.hasvnode
        /\ new.linked = semfs_sems[i].linked
        /\ new.holder = semfs_sems[i].holder /\ new.cv = semfs_sems[i].cv
    BY <1>1 DEF Sems
  <2>2. semfs_sems \in [Slots -> Sems \cup {NULL}]
    BY <1>inv DEF TypeOK
  <2>3. semfs_sems' = [semfs_sems EXCEPT ![i] = new]
    BY <1>2, <2>2
  <2> HIDE DEF new
  <2>4. semfs_sems'[i] = new
    BY <2>2, <2>3
  <2> QED
    BY <2>1, <2>2, <2>3, <2>4, Constant
<1>6. \A u \in Threads : pc[u] \in {"inserted", "freeing"} =>
        /\ dent.num \in Slots /\ dent.num # i /\ vn_refcount[dent.num] = 0
        /\ pc[u] = "inserted" => semfs_sems[dent.num].count = 0
  <2> SUFFICES ASSUME NEW u \in Threads, pc[u] \in {"inserted", "freeing"}
               PROVE  /\ dent.num \in Slots /\ dent.num # i /\ vn_refcount[dent.num] = 0
                      /\ pc[u] = "inserted" => semfs_sems[dent.num].count = 0
    OBVIOUS
  <2>1. Work(u)
    BY <1>inv DEF Works
  <2>2. vn_refcount[dent.num] = 0 /\ (pc[u] = "inserted" => semfs_sems[dent.num].count = 0)
    BY <2>1 DEF Work
  <2>3. dent.num \in Slots
    <3>1. pc[u] = "inserted" => dent \in Entry
      BY <2>1 DEF Work
    <3>2. pc[u] = "freeing" => dent \in Entries
      BY <2>1 DEF Work, InRemove
    <3> QED
      BY <3>1, <3>2, EntryFields, Reached
  <2> QED
    BY <1>1, <2>2, <2>3
<1>7. TypeOK'
  BY <1>inv, <1>2, <1>3, <1>4, <1>5 DEF TypeOK
<1>8. Directory'
  BY <1>inv, <1>2 DEF Directory
<1>9. Locked'
  BY <1>inv, <1>0, <1>2, <1>3, Constant DEF Locked, InDir
<1>10. Works'
  <2>1. ASSUME NEW u \in Threads, u # t PROVE Work(u)'
    <3>1. /\ pc[u] \in {"inserted", "freeing"} => vn_refcount'[dent.num] = 0
          /\ pc[u] = "inserted" => semfs_sems'[dent.num].count = 0
      BY <1>4, <1>5, <1>6
    <3> QED
      BY <1>inv, <1>2, <1>3, <2>1, <3>1, WorkKept DEF Works
  <2>2. Work(t)'
    BY <1>inv, <1>0, <1>1, <1>2, <1>3, <1>4 DEF Works, Work, InRemove
  <2> QED
    BY <2>1, <2>2 DEF Works
<1>11. Spare'
  BY <1>1, <1>2, <1>3, <1>6 DEF Spare
<1>12. Records'
  <2> SUFFICES ASSUME NEW j \in Slots PROVE Record(j)'
    BY DEF Records
  <2>1. \A u \in Threads : /\ Removes(u, j)' <=> Removes(u, j)
                           /\ Sleeps(u, j)' <=> Sleeps(u, j)
                           /\ Keeps(u, j)' <=> Keeps(u, j) \/ (u = t /\ j = i)
    BY <1>0, <1>1, <1>2, <1>3 DEF Keeps, Removes, Sleeps, InRemove
  <2>2. HasName(j)' <=> HasName(j)
    BY <1>2 DEF HasName, Entries
  <2>3. CASE j # i
    BY <1>inv, <1>4, <1>5, <2>1, <2>2, <2>3, RecordKept DEF Records
  <2>4. CASE j = i
    <3>1. Record(i)
      BY <1>inv DEF Records
    <3>2. Keeps(t, i)'
      BY <2>1, <2>4
    <3> QED
      BY <1>1, <1>4, <1>5, <2>1, <2>2, <2>4, <3>1, <3>2 DEF Record
  <2> QED
    BY <2>3, <2>4
<1>13. RefsExact'
  <2> SUFFICES ASSUME NEW j \in Slots PROVE vn_refcount'[j] = Cardinality(Users(j)')
    BY DEF RefsExact, Users
  <2>1. CASE j # i
    <3>1. Users(j)' = Users(j)
      BY <1>1, <1>2, <1>3, <2>1, Constant DEF Users
    <3> QED
      BY <1>inv, <1>4, <2>1, <3>1, RefsKept
  <2>2. CASE j = i
    <3>1. Users(i)' = Users(i) \ {t} /\ t \in Users(i)
      BY <1>0, <1>1, <1>2, <1>3, Constant DEF Users
    <3>2. IsFiniteSet(Users(i)) /\ Cardinality(Users(i)) = 1
      BY <1>inv, <1>4, UsersCounted
    <3>3. Cardinality(Users(i) \ {t}) = Cardinality(Users(i)) - 1
      BY <3>1, <3>2, FS_RemoveElement
    <3>4. Cardinality(Users(i) \ {t}) = 0
      BY <3>2, <3>3
    <3> QED
      BY <1>4, <2>2, <3>1, <3>4
  <2> QED
    BY <2>1, <2>2
<1> QED
  BY <1>2, <1>7, <1>8, <1>9, <1>10, <1>11, <1>12, <1>13 DEF Exact

LEMMA ReclaimStep ==
  ASSUME Exact, NEW t \in Threads, Reclaim(t)
  PROVE  Exact' /\ panic' = panic
<1>1. CASE vn_refcount[open[t]] > 1
  <2>1. open[t] # NULL /\ pc[t] = "reclaim"
    BY DEF Reclaim, Exact, Works, Work
  <2> QED
    BY <1>1, <2>1, DropStep DEF Reclaim, Go
<1>2. CASE ~(vn_refcount[open[t]] > 1)
  BY <1>2, ReclaimClearStep
<1> QED
  BY <1>1, <1>2

\* The test of sems_linked, when it does not fail.
LEMMA ReclaimTestStep ==
  ASSUME Exact, NEW t \in Threads, ReclaimTest(t),
         semfs_sems[open[t]].linked \/ MayDestroy(open[t])
  PROVE  Exact'
<1>inv. TypeOK /\ Directory /\ Locked /\ Works /\ Spare /\ Records /\ RefsExact
  BY DEF Exact
<1>0. pc[t] = "clearing" /\ open[t] # NULL /\ vn_refcount[open[t]] = 0
  BY <1>inv DEF ReclaimTest, Works, Work
<1>1. PICK i \in Slots : /\ i = open[t] /\ semfs_sems[i] \in Sems /\ semfs_sems[i] # NULL
  BY <1>0, Reached, Constant
<1>2. /\ semfs_sems' = [semfs_sems EXCEPT ![i] = IF @.linked THEN @ ELSE NULL]
      /\ tablelock' = NULL /\ open' = [open EXCEPT ![t] = NULL]
      /\ pc' = [pc EXCEPT ![t] = "idle"]
      /\ semfs_dents' = semfs_dents /\ vn_refcount' = vn_refcount
      /\ dirlock' = dirlock /\ dent' = dent /\ uio_resid' = uio_resid
  BY <1>1 DEF ReclaimTest, Go
<1>3. /\ pc' \in [Threads -> Places] /\ pc'[t] = "idle"
      /\ \A u \in Threads : u # t => pc'[u] = pc[u] /\ pc[u] # "clearing"
  BY <1>inv, <1>0, <1>2, Alone DEF TypeOK, Places
<1>4. /\ open' \in [Threads -> Slots \cup {NULL}] /\ open'[t] = NULL
      /\ \A u \in Threads : u # t => open'[u] = open[u]
  BY <1>inv, <1>2 DEF TypeOK
<1>5. /\ semfs_sems' \in [Slots -> Sems \cup {NULL}]
      /\ semfs_sems'[i] = IF semfs_sems[i].linked THEN semfs_sems[i] ELSE NULL
      /\ \A j \in Slots : j # i => semfs_sems'[j] = semfs_sems[j]
  BY <1>inv, <1>1, <1>2 DEF TypeOK
<1>6. TypeOK'
  BY <1>inv, <1>2, <1>3, <1>4, <1>5 DEF TypeOK
<1>7. Directory'
  BY <1>inv, <1>2 DEF Directory
<1>8. Locked'
  BY <1>inv, <1>0, <1>2, <1>3, Constant DEF Locked, InDir
<1>9. Works'
  <2>1. ASSUME NEW u \in Threads, u # t PROVE Work(u)'
    <3>1. /\ pc[u] = "inserted" => /\ vn_refcount[dent.num] = 0
                                   /\ semfs_sems[dent.num].count = 0 /\ dent.num \in Slots
          /\ pc[u] = "freeing" => vn_refcount[dent.num] = 0
      BY <1>inv, EntryFields DEF Works, Work
    <3>2. pc[u] = "inserted" => dent.num # i
      BY <1>inv, <1>0, <1>1 DEF Spare
    <3>3. pc[u] = "inserted" => semfs_sems'[dent.num].count = 0
      BY <1>5, <3>1, <3>2
    <3> QED
      BY <1>inv, <1>2, <1>3, <1>4, <2>1, <3>1, <3>3, WorkKept DEF Works
  <2>2. Work(t)'
    BY <1>inv, <1>0, <1>2, <1>3 DEF Works, Work, InRemove
  <2> QED
    BY <2>1, <2>2 DEF Works
<1>10. Spare'
  BY <1>3 DEF Spare
<1>11. Records'
  <2> SUFFICES ASSUME NEW j \in Slots PROVE Record(j)'
    BY DEF Records
  <2>1. \A u \in Threads : /\ Removes(u, j)' <=> Removes(u, j)
                           /\ Sleeps(u, j)' <=> Sleeps(u, j)
    BY <1>0, <1>2, <1>3, <1>4 DEF Removes, Sleeps, InRemove
  <2>2. HasName(j)' <=> HasName(j)
    BY <1>2 DEF HasName, Entries
  <2>3. CASE j # i
    <3>1. \A u \in Threads : Keeps(u, j)' <=> Keeps(u, j)
      BY <1>0, <1>1, <1>2, <1>3, <1>4, <2>3 DEF Keeps
    <3> QED
      BY <1>inv, <1>2, <1>5, <2>1, <2>2, <2>3, <3>1, RecordKept DEF Records
  <2>4. CASE j = i
    <3>1. \A u \in Threads : ~Keeps(u, i)'
      BY <1>inv, <1>0, <1>1, <1>2, <1>3 DEF Keeps, Spare
    <3>2. Record(i)
      BY <1>inv DEF Records
    <3>3. CASE semfs_sems[i].linked
      BY <1>0, <1>1, <1>2, <1>5, <2>1, <2>2, <2>4, <3>2, <3>3 DEF Record
    <3>4. CASE ~semfs_sems[i].linked
      <4>1. semfs_sems[i].holder = NULL
        BY <1>1, <3>4 DEF MayDestroy
      <4>2. \A u \in Threads : ~Removes(u, i)
        BY <1>1, <3>2, <4>1, Constant DEF Record
      <4>3. ~HasName(i)
        BY <1>1, <3>2, <3>4, <4>2 DEF Record
      <4> QED
        BY <1>0, <1>1, <1>2, <1>5, <2>2, <2>4, <3>1, <3>4, <4>3 DEF Record
    <3> QED
      BY <3>3, <3>4
  <2> QED
    BY <2>3, <2>4
<1>12. RefsExact'
  <2>1. \A j \in Slots : Users(j)' = Users(j)
    BY <1>0, <1>3, <1>4, Constant DEF Users
  <2> QED
    BY <1>inv, <1>2, <2>1, RefsKept DEF RefsExact, Users
<1> QED
  BY <1>6, <1>7, <1>8, <1>9, <1>10, <1>11, <1>12 DEF Exact

-----------------------------------------------------------------------------
(* Every step.                                                             *)

Same == UNCHANGED <<tables, locks, open, pc, uio_resid>>

LEMMA PanicStep == ASSUME Exact, Same PROVE Exact'
<1>inv. TypeOK /\ Directory /\ Locked /\ Works /\ Spare /\ Records /\ RefsExact
  BY DEF Exact
<1>1. /\ semfs_dents' = semfs_dents /\ semfs_sems' = semfs_sems /\ vn_refcount' = vn_refcount
      /\ dirlock' = dirlock /\ tablelock' = tablelock /\ dent' = dent /\ open' = open
      /\ pc' = pc /\ uio_resid' = uio_resid
  BY DEF Same, tables, locks
<1>2. TypeOK' /\ Directory' /\ Locked' /\ Spare'
  BY <1>inv, <1>1 DEF TypeOK, Directory, Locked, Spare
<1>3. Works'
  <2> SUFFICES ASSUME NEW u \in Threads PROVE Work(u)'
    BY DEF Works
  <2>1. /\ pc[u] = "clearing" => vn_refcount[open[u]] = 0
        /\ pc[u] = "inserted" => vn_refcount[dent.num] = 0 /\ semfs_sems[dent.num].count = 0
        /\ pc[u] = "freeing" => vn_refcount[dent.num] = 0
    BY <1>inv DEF Works, Work
  <2> QED
    BY <1>inv, <1>1, <2>1, WorkKept DEF Works
<1>4. Records'
  <2> SUFFICES ASSUME NEW i \in Slots PROVE Record(i)'
    BY DEF Records
  <2>1. \A u \in Threads : /\ Keeps(u, i)' <=> Keeps(u, i)
                           /\ Removes(u, i)' <=> Removes(u, i)
                           /\ Sleeps(u, i)' <=> Sleeps(u, i)
    BY <1>1 DEF Keeps, Removes, Sleeps
  <2>2. HasName(i)' <=> HasName(i)
    BY <1>1 DEF HasName, Entries
  <2> QED
    BY <1>inv, <1>1, <2>1, <2>2, RecordKept DEF Records
<1>5. RefsExact'
  <2>1. \A i \in Slots : Users(i)' = Users(i)
    BY <1>1 DEF Users
  <2> QED
    BY <1>inv, <1>1, <2>1, RefsKept DEF RefsExact, Users
<1> QED
  BY <1>2, <1>3, <1>4, <1>5 DEF Exact

\* semfs_getvnode finds sems_hasvnode clear where it makes a new vnode.
LEMMA LookupSafe ==
  ASSUME Exact, NEW t \in Threads, NEW n \in Names, Lookup(t, n)
  PROVE  panic' = panic
<1>inv. TypeOK /\ Directory /\ Records
  BY DEF Exact
<1>1. PICK d \in Entries : d.name = n /\ d.num = Named(n)
  BY <1>inv, Naming DEF Lookup
<1>2. d.num \in Slots /\ semfs_sems[d.num] \in Sems /\ semfs_sems[d.num] # NULL
  BY Reached, Constant
<1>3. Record(d.num) /\ vn_refcount[d.num] \in Nat
  BY <1>inv, <1>2 DEF Records, TypeOK
<1>4. ~(vn_refcount[d.num] = 0
        /\ (semfs_sems[d.num] = NULL \/ semfs_sems[d.num].hasvnode))
  BY <1>2, <1>3 DEF Record
<1> QED
  BY <1>1, <1>4 DEF Lookup

\* semfs_remove finds its semaphore in the table, and linked.
LEMMA RemoveUnlinkSafe ==
  ASSUME Exact, NEW t \in Threads, NEW n \in Names, RemoveUnlink(t, n)
  PROVE  panic' = panic
<1>inv. TypeOK /\ Directory /\ Locked /\ Records
  BY DEF Exact
<1>1. PICK d \in Entries : d.name = n /\ d.num = Named(n)
  BY <1>inv, Naming DEF RemoveUnlink
<1>2. d.num \in Slots /\ semfs_sems[d.num] \in Sems /\ semfs_sems[d.num] # NULL /\ HasName(d.num)
  BY Reached, Constant DEF HasName
<1>3. \A u \in Threads : ~Removes(u, d.num)
  <2>1. pc[t] = "dir"
    BY DEF RemoveUnlink
  <2>2. \A u \in Threads : u # t => pc[u] \notin InDir
    BY <1>inv, <2>1, Alone DEF InDir
  <2> QED
    BY <2>1, <2>2 DEF Removes, InRemove, InDir
<1>4. semfs_sems[d.num].linked
  BY <1>inv, <1>2, <1>3 DEF Records, Record
<1> QED
  BY <1>1, <1>2, <1>4 DEF RemoveUnlink

\* lock_destroy fails only if a semfs_remove has the lock: nobody is asleep on a
\* semaphore without a vnode.
LEMMA LockDestroyed ==
  ASSUME Exact, NEW t \in Threads, ReclaimTest(t),
         ~(semfs_sems[open[t]].linked \/ MayDestroy(open[t]))
  PROVE  Same /\ panic' = "lock_destroy" /\ \E u \in Threads : t # u /\ pc[u] \in InRemove
<1>inv. TypeOK /\ Locked /\ Works /\ Records
  BY DEF Exact
<1>0. pc[t] = "clearing" /\ open[t] # NULL /\ vn_refcount[open[t]] = 0
  BY <1>inv DEF ReclaimTest, Works, Work
<1>1. PICK i \in Slots : /\ i = open[t] /\ semfs_sems[i] \in Sems /\ semfs_sems[i] # NULL
                         /\ Record(i)
  BY <1>inv, <1>0, Reached, Constant DEF Records
<1>2. \A u \in Threads : ~Sleeps(u, i)
  <2>1. \A u \in Threads : open[u] = i => pc[u] = "clearing"
    BY <1>0, <1>1, Reached, Constant
  <2> QED
    BY <2>1 DEF Sleeps
<1>3. semfs_sems[i].cv = <<>>
  <2>1. semfs_sems[i].cv \in Seq(Threads)
    BY <1>1 DEF Sems
  <2>2. ASSUME semfs_sems[i].cv # <<>> PROVE FALSE
    <3>1. 1 \in DOMAIN semfs_sems[i].cv /\ semfs_sems[i].cv[1] \in Threads
      BY <2>1, <2>2
    <3>2. Sleeps(semfs_sems[i].cv[1], i)
      BY <1>1, <3>1 DEF Record
    <3> QED
      BY <1>2, <3>1, <3>2
  <2> QED
    BY <2>2
<1>4. semfs_sems[i].holder # NULL /\ semfs_sems[i].holder \in Threads \cup {NULL}
  BY <1>1, <1>3 DEF MayDestroy, Sems
<1>5. PICK u \in Threads : semfs_sems[i].holder = u
  BY <1>4
<1>6. Removes(u, i)
  BY <1>1, <1>5 DEF Record
<1>7. pc[u] \in InRemove /\ u # t
  BY <1>0, <1>6 DEF Removes, InRemove
<1>8. Same /\ panic' = "lock_destroy"
  BY <1>1 DEF ReclaimTest, Panic, Same
<1> QED
  BY <1>7, <1>8

LEMMA SemfsStep == ASSUME SemfsInv, [Next]_vars PROVE SemfsInv'
<1>inv. Exact /\ OnlyKnownPanics
  BY DEF SemfsInv
<1>1. ASSUME UNCHANGED vars PROVE SemfsInv'
  <2>1. Same /\ panic' = panic /\ pc' = pc
    BY <1>1 DEF vars, Same, tables, locks
  <2>2. OnlyKnownPanics'
    BY <1>inv, <2>1 DEF OnlyKnownPanics
  <2> QED
    BY <1>inv, <2>1, <2>2, PanicStep DEF SemfsInv
<1>2. ASSUME panic = "no", panic' = panic, Exact' PROVE SemfsInv'
  BY <1>2 DEF SemfsInv, OnlyKnownPanics
<1>3. ASSUME panic = "no", Getdirentry PROVE SemfsInv'
  <2>1. Same /\ panic' = "getdirentry"
    BY <1>3 DEF Getdirentry, Panic, Same
  <2> QED
    BY <1>inv, <2>1, PanicStep DEF SemfsInv, OnlyKnownPanics
<1>4. ASSUME panic = "no", NEW t \in Threads, Call(t) PROVE SemfsInv'
  <2>1. CASE EnterDir(t)
    BY <1>inv, <1>2, <1>4, <2>1, EnterDirStep DEF EnterDir
  <2>2. CASE Close(t)
    BY <1>inv, <1>2, <1>4, <2>2, CloseStep DEF Close
  <2>3. ASSUME NEW k \in Amounts, Read(t, k) PROVE SemfsInv'
    <3>1. /\ pc[t] \in {"idle", "woken"} /\ Usable(t) /\ TakeLoop(t, k)
          /\ UNCHANGED <<semfs_dents, vn_refcount, locks, open>> /\ panic' = panic
      BY <2>3 DEF Read
    <3> QED
      BY <1>inv, <1>2, <1>4, <3>1, TakeStep
  <2>4. ASSUME NEW k \in Amounts, Write(t, k) PROVE SemfsInv'
    <3>1. pc[t] = "idle" /\ Usable(t) /\ pc[t] # "clearing" /\ open[t] # NULL
      BY <2>4 DEF Write, Usable
    <3>2. semfs_sems[open[t]].count \in Counts
      BY <1>inv, <3>1, OwnSem
    <3>3. PICK c \in Counts : c = (semfs_sems[open[t]].count + k) % Width
      BY <2>4, <3>2, NewCount DEF Write
    <3>4. /\ SetCount(t, c) /\ panic' = panic
          /\ UNCHANGED <<semfs_dents, vn_refcount, locks, open, uio_resid>>
      BY <2>4, <3>3 DEF Write
    <3> QED
      BY <1>inv, <1>2, <1>4, <3>1, <3>4, CountStep
  <2>5. ASSUME NEW c \in Counts, Truncate(t, c) PROVE SemfsInv'
    <3>1. /\ pc[t] = "idle" /\ Usable(t) /\ SetCount(t, c) /\ panic' = panic
          /\ UNCHANGED <<semfs_dents, vn_refcount, locks, open, uio_resid>>
      BY <2>5 DEF Truncate
    <3> QED
      BY <1>inv, <1>2, <1>4, <3>1, CountStep
  <2> QED
    BY <1>4, <2>1, <2>2, <2>3, <2>4, <2>5 DEF Call
<1>5. ASSUME panic = "no", NEW t \in Threads, ThreadStep(t) PROVE SemfsInv'
  <2>1. CASE LeaveDir(t)
    BY <1>inv, <1>2, <1>5, <2>1, LeaveDirStep DEF LeaveDir
  <2>2. CASE CreatFinish(t)
    BY <1>inv, <1>2, <1>5, <2>2, CreatFinishStep DEF CreatFinish
  <2>3. CASE CreatUndo(t)
    BY <1>inv, <1>2, <1>5, <2>3, CreatUndoStep DEF CreatUndo
  <2>4. CASE CreatNoEntry(t)
    <3>1. Same /\ panic' = "vfs_open" /\ MemFails
      BY <2>4 DEF CreatNoEntry, Panic, Same
    <3> QED
      BY <1>inv, <3>1, PanicStep DEF SemfsInv, OnlyKnownPanics
  <2>5. CASE RemoveTest(t)
    <3>1. Exact'
      BY <1>inv, <2>5, RemoveKeepStep, RemoveDecideStep
    <3> QED
      BY <1>2, <1>5, <2>5, <3>1 DEF RemoveTest
  <2>6. CASE RemoveFree(t)
    BY <1>inv, <1>2, <1>5, <2>6, RemoveFreeStep
  <2>7. CASE ReadOn(t)
    <3>1. uio_resid[t] \in Amounts
      <4>1. /\ uio_resid[t] \in 0 .. MaxAmount /\ MaxAmount \in Nat
            /\ uio_resid[t] > 0
        BY <1>inv, <2>7, Constant DEF ReadOn, Exact, TypeOK, Works, Work
      <4> QED
        BY <4>1 DEF Amounts
    <3>2. PICK k \in Amounts : k = uio_resid[t]
      BY <3>1
    <3>3. /\ pc[t] \in {"idle", "woken"} /\ Usable(t) /\ TakeLoop(t, k)
          /\ UNCHANGED <<semfs_dents, vn_refcount, locks, open>> /\ panic' = panic
      BY <2>7, <3>2 DEF ReadOn
    <3> QED
      BY <1>inv, <1>2, <1>5, <3>3, TakeStep
  <2>8. CASE Reclaim(t)
    BY <1>inv, <1>2, <1>5, <2>8, ReclaimStep
  <2>9. CASE ReclaimTest(t)
    <3>1. CASE semfs_sems[open[t]].linked \/ MayDestroy(open[t])
      BY <1>inv, <1>2, <1>5, <2>9, <3>1, ReclaimTestStep DEF ReclaimTest
    <3>2. CASE ~(semfs_sems[open[t]].linked \/ MayDestroy(open[t]))
      <4>1. Same /\ panic' = "lock_destroy" /\ \E u \in Threads : t # u /\ pc[u] \in InRemove
        BY <1>inv, <2>9, <3>2, LockDestroyed
      <4>2. pc' = pc /\ pc[t] = "clearing"
        BY <2>9, <4>1 DEF Same, ReclaimTest
      <4>3. OnlyKnownPanics'
        BY <4>1, <4>2 DEF OnlyKnownPanics, InRemove
      <4> QED
        BY <1>inv, <4>1, <4>3, PanicStep DEF SemfsInv
    <3> QED
      BY <3>1, <3>2
  <2>10. ASSUME NEW n \in Names, Lookup(t, n) PROVE SemfsInv'
    BY <1>inv, <1>2, <1>5, <2>10, LookupSafe, LookupStep
  <2>11. ASSUME NEW n \in Names, CreatInsert(t, n) PROVE SemfsInv'
    BY <1>inv, <1>2, <1>5, <2>11, CreatInsertStep DEF CreatInsert
  <2>12. ASSUME NEW n \in Names, RemoveUnlink(t, n) PROVE SemfsInv'
    BY <1>inv, <1>2, <1>5, <2>12, RemoveUnlinkSafe, RemoveUnlinkStep
  <2> QED
    BY <1>5, <2>1, <2>2, <2>3, <2>4, <2>5, <2>6, <2>7, <2>8, <2>9, <2>10, <2>11, <2>12
       DEF ThreadStep
<1> QED
  BY <1>1, <1>3, <1>4, <1>5 DEF Next

LEMMA Always == Spec => []SemfsInv
<1>1. Init => SemfsInv
  BY StartExact
<1>2. SemfsInv /\ [Next]_vars => SemfsInv'
  BY SemfsStep
<1> QED
  BY <1>1, <1>2, PTL DEF Spec

\* The directory, the table of semaphores and that of vnodes agree after any
\* interleaving of creations, lookups, removals and last closes, and whichever
\* allocation fails: no semaphore is freed that has a name or a user, none is
\* kept that has neither, and sems_hasvnode and sems_linked say which.
THEOREM TableAlwaysExact == Spec => []TableExact
<1>1. SemfsInv => TableExact
  <2> SUFFICES ASSUME SemfsInv PROVE TableExact
    OBVIOUS
  <2>inv. TypeOK /\ Directory /\ Works /\ Records
    BY DEF SemfsInv, Exact
  <2>1. ASSUME NEW i \in Slots
        PROVE  /\ (semfs_sems[i] # NULL)
                    = ((\E d \in Entries : d.num = i) \/ vn_refcount[i] > 0
                       \/ (\E t \in Threads : \/ pc[t] = "clearing" /\ open[t] = i
                                              \/ pc[t] = "inserted" /\ dent.num = i))
               /\ semfs_sems[i] # NULL =>
                    /\ semfs_sems[i].hasvnode = (vn_refcount[i] > 0)
                    /\ semfs_sems[i].linked = ((\E d \in Entries : d.num = i) /\ ~Removing(i))
    <3>1. Record(i)
      BY <2>inv DEF Records
    <3>2. /\ HasName(i) <=> \E d \in Entries : d.num = i
          /\ Removing(i) <=> \E t \in Threads : Removes(t, i)
          /\ (\E t \in Threads : Keeps(t, i))
               <=> (\E t \in Threads : \/ pc[t] = "clearing" /\ open[t] = i
                                       \/ pc[t] = "inserted" /\ dent.num = i)
      BY DEF HasName, Removing, Removes, Keeps, InRemove
    <3>3. semfs_sems[i] # NULL =>
            semfs_sems[i].hasvnode \in BOOLEAN /\ semfs_sems[i].linked \in BOOLEAN
      BY <2>inv DEF TypeOK, Sems
    <3> QED
      BY <3>1, <3>2, <3>3 DEF Record
  <2> QED
    BY <2>inv, <2>1 DEF TableExact, Directory
<1> QED
  BY <1>1, Always, PTL

\* A vnode's reference count is the number of threads that have it, so that no
\* reclaim destroys one in use, though vnode_decref and semfs_reclaim decide
\* under different locks.
THEOREM VnodesAreCounted == Spec => []RefsExact
<1>1. SemfsInv => RefsExact
  BY DEF SemfsInv, Exact
<1> QED
  BY <1>1, Always, PTL

\* No other assertion of these files fails than the three known ones, and
\* lock_destroy only under a semfs_remove that is under way.
THEOREM NoOtherPanics == Spec => []OnlyKnownPanics
<1>1. SemfsInv => OnlyKnownPanics
  BY DEF SemfsInv
<1> QED
  BY <1>1, Always, PTL

-----------------------------------------------------------------------------
(* semfs implements named semaphores.                                      *)

Calls(n, i) == \E d \in Entries : d.name = n /\ d.num = i
Live(i) == HasName(i) \/ \E t \in Threads : MOpen[t] = i

\* What the directory says of names and of the semaphores that live.
Bar == /\ \A n \in Names : /\ MNamed[n] \in Slots \cup {NULL}
                           /\ \A i \in Slots : MNamed[n] = i <=> Calls(n, i)
       /\ \A i \in Slots : (\E n \in Names : MNamed[n] = i) <=> HasName(i)

LEMMA BarHolds == ASSUME SemfsInv PROVE Bar
<1>inv. TypeOK /\ Directory
  BY DEF SemfsInv, Exact
<1>1. \A d \in Entries : d.name \in Names /\ d.num \in Slots
  BY Reached DEF SemfsInv
<1>2. ASSUME NEW n \in Names
      PROVE  /\ MNamed[n] \in Slots \cup {NULL}
             /\ \A i \in Slots : MNamed[n] = i <=> Calls(n, i)
  <2>1. CASE At(n) = {}
    <3>1. MNamed[n] = NULL /\ \A i \in Slots : ~Calls(n, i)
      BY <1>inv, <2>1, Naming DEF MNamed, Calls
    <3> QED
      BY <3>1, Constant
  <2>2. CASE At(n) # {}
    <3>1. PICK d \in Entries : d.name = n /\ d.num = Named(n)
      BY <1>inv, <2>2, Naming
    <3>2. MNamed[n] = d.num /\ d.num \in Slots
      BY <1>1, <2>2, <3>1 DEF MNamed
    <3>3. \A e \in Entries : e.name = n => e = d
      BY <1>inv, <3>1, Naming
    <3> QED
      BY <3>1, <3>2, <3>3 DEF Calls
  <2> QED
    BY <2>1, <2>2
<1>3. \A i \in Slots : (\E n \in Names : MNamed[n] = i) <=> HasName(i)
  BY <1>1, <1>2 DEF Calls, HasName
<1> QED
  BY <1>2, <1>3 DEF Bar

\* The mapping, pointwise.
LEMMA MapIs ==
  /\ MNamed = [n \in Names |-> MNamed[n]] /\ MNamed' = [n \in Names |-> MNamed'[n]]
  /\ MOpen = [t \in Threads |-> MOpen[t]] /\ MOpen' = [t \in Threads |-> MOpen'[t]]
  /\ MCount = [i \in Slots |-> MCount[i]] /\ MCount' = [i \in Slots |-> MCount'[i]]
  /\ \A t \in Threads : /\ MOpen[t] = IF Closing(t) THEN NULL ELSE open[t]
                        /\ MOpen'[t] = IF Closing(t)' THEN NULL ELSE open'[t]
BY DEF MNamed, MOpen, MCount

LEMMA CountIs ==
  ASSUME Bar, Bar'
  PROVE  \A i \in Slots : /\ Live(i) <=> Abstract!Lives(i)
                          /\ Live(i)' <=> Abstract!Lives(i)'
                          /\ MCount[i] = IF Live(i) THEN semfs_sems[i].count ELSE 0
                          /\ MCount'[i] = IF Live(i)' THEN semfs_sems'[i].count ELSE 0
<1>1. ASSUME NEW i \in Slots
      PROVE  /\ Live(i) <=> Abstract!Lives(i)
             /\ MCount[i] = IF Live(i) THEN semfs_sems[i].count ELSE 0
  <2>1. (\E n \in Names : MNamed[n] = i) <=> HasName(i)
    BY DEF Bar
  <2> QED
    BY <2>1 DEF MCount, Live, Abstract!Lives
<1>2. ASSUME NEW i \in Slots
      PROVE  /\ Live(i)' <=> Abstract!Lives(i)'
             /\ MCount'[i] = IF Live(i)' THEN semfs_sems'[i].count ELSE 0
  <2>1. (\E n \in Names : MNamed'[n] = i) <=> HasName(i)'
    BY DEF Bar
  <2> QED
    BY <2>1 DEF MCount, Live, Abstract!Lives
<1> QED
  BY <1>1, <1>2

\* The names after a step.
LEMMA NamesSame ==
  ASSUME Bar, Bar', Entries' = Entries
  PROVE  MNamed' = MNamed /\ \A i : HasName(i)' <=> HasName(i)
<1>1. \A n \in Names, i \in Slots : Calls(n, i)' <=> Calls(n, i)
  BY DEF Calls
<1>2. \A n \in Names : /\ MNamed[n] \in Slots \cup {NULL} /\ MNamed'[n] \in Slots \cup {NULL}
                       /\ \A i \in Slots : MNamed'[n] = i <=> MNamed[n] = i
  BY <1>1 DEF Bar
<1>3. \A n \in Names : MNamed'[n] = MNamed[n]
  BY <1>2
<1> QED
  BY <1>3, MapIs DEF HasName

LEMMA NamesChange ==
  ASSUME Bar, Bar', NEW n \in Names, NEW x \in Slots \cup {NULL},
         \A m \in Names, i \in Slots :
           Calls(m, i)' <=> IF m = n THEN i = x ELSE Calls(m, i)
  PROVE  MNamed' = [MNamed EXCEPT ![n] = x]
<1>1. \A m \in Names : /\ MNamed[m] \in Slots \cup {NULL} /\ MNamed'[m] \in Slots \cup {NULL}
                       /\ m # n => \A i \in Slots : MNamed'[m] = i <=> MNamed[m] = i
                       /\ m = n => \A i \in Slots : MNamed'[m] = i <=> i = x
  BY DEF Bar
<1>2. \A m \in Names : MNamed'[m] = IF m = n THEN x ELSE MNamed[m]
  BY <1>1
<1> QED
  BY <1>2, MapIs

\* A step that users do not see.
LEMMA Unseen ==
  ASSUME Bar, Bar', Entries' = Entries, uio_resid' = uio_resid,
         \A t \in Threads : MOpen'[t] = MOpen[t],
         \A i \in Slots : Live(i) => semfs_sems'[i].count = semfs_sems[i].count
  PROVE  UNCHANGED Abstract!avars
<1>1. MNamed' = MNamed /\ \A i : HasName(i)' <=> HasName(i)
  BY NamesSame
<1>2. MOpen' = MOpen
  BY MapIs
<1>3. \A i \in Slots : Live(i)' <=> Live(i)
  BY <1>1, <1>2 DEF Live
<1>4. \A i \in Slots : MCount'[i] = MCount[i]
  BY <1>3, CountIs
<1>5. MCount' = MCount
  BY <1>4, MapIs
<1> QED
  BY <1>1, <1>2, <1>5 DEF Abstract!avars

LEMMA RefinesInit == ASSUME Init PROVE Abstract!AInit
<1>1. SemfsInv
  BY StartExact
<1>2. Bar
  BY <1>1, BarHolds
<1>3. Entries = {}
  BY DEF Init, Entries
<1>4. \A n \in Names : MNamed[n] = NULL
  BY <1>2, <1>3, Constant DEF Bar, Calls
<1>5. \A t \in Threads : MOpen[t] = NULL
  BY DEF Init, MOpen, Closing
<1>6. \A i \in Slots : MCount[i] = 0
  BY <1>4, <1>5, Constant DEF MCount
<1> QED
  BY <1>4, <1>5, <1>6, MapIs DEF Abstract!AInit, Init

\* semfs_lookup, or semfs_creat without O_EXCL.
LEMMA RefinesLookup ==
  ASSUME SemfsInv, Bar, Bar', NEW t \in Threads, NEW n \in Names, Lookup(t, n)
  PROVE  Abstract!AOpen(t, n)
<1>inv. Exact /\ TypeOK /\ Directory
  BY DEF SemfsInv, Exact
<1>0. panic' = panic
  BY <1>inv, LookupSafe
<1>1. PICK d \in Entries : d.name = n /\ d.num = Named(n)
  BY <1>inv, Naming DEF Lookup
<1>2. PICK i \in Slots : i = Named(n) /\ HasName(i) /\ Calls(n, i) /\ semfs_sems[i] \in Sems
  BY <1>inv, <1>1, Reached DEF HasName, Calls
<1>3. /\ pc[t] = "dir" /\ open[t] = NULL
      /\ pc' = [pc EXCEPT ![t] = "idle"] /\ open' = [open EXCEPT ![t] = i]
      /\ semfs_sems' = [semfs_sems EXCEPT ![i].hasvnode = TRUE]
      /\ semfs_dents' = semfs_dents /\ uio_resid' = uio_resid
  <2>1. ~(vn_refcount[Named(n)] = 0
          /\ (semfs_sems[Named(n)] = NULL \/ semfs_sems[Named(n)].hasvnode))
    <3>1. Record(i) /\ semfs_sems[i] # NULL /\ vn_refcount[i] \in Nat
      BY <1>inv, <1>2, Constant DEF Exact, Records, TypeOK
    <3> QED
      BY <1>2, <3>1 DEF Record
  <2> QED
    BY <1>2, <2>1 DEF Lookup, GetVnode, Go
<1>4. pc \in [Threads -> Places] /\ open \in [Threads -> Slots \cup {NULL}]
  BY <1>inv DEF TypeOK
<1>5. MOpen[t] = NULL /\ MOpen' = [MOpen EXCEPT ![t] = i]
  <2>1. \A u \in Threads : MOpen'[u] = IF u = t THEN i ELSE MOpen[u]
    BY <1>3, <1>4, MapIs DEF Closing
  <2>2. MOpen[t] = NULL
    BY <1>3, MapIs
  <2> QED
    BY <2>1, <2>2, MapIs
<1>6. MNamed[n] = i /\ i # NULL
  BY <1>2, Constant DEF Bar
<1>7. MNamed' = MNamed /\ \A j : HasName(j)' <=> HasName(j)
  <2>1. Entries' = Entries
    BY <1>3 DEF Entries
  <2> QED
    BY <2>1, NamesSame
<1>8. MCount' = MCount
  <2>1. \A j \in Slots : Live(j)' <=> Live(j)
    <3>1. \A u \in Threads : MOpen'[u] = IF u = t THEN i ELSE MOpen[u]
      BY <1>5, MapIs
    <3> QED
      BY <1>2, <1>5, <1>7, <3>1, Constant DEF Live
  <2>2. \A j \in Slots : Live(j) => semfs_sems'[j].count = semfs_sems[j].count
    <3>1. semfs_sems \in [Slots -> Sems \cup {NULL}]
      BY <1>inv DEF TypeOK
    <3>2. semfs_sems'[i] = [semfs_sems[i] EXCEPT !.hasvnode = TRUE]
      BY <1>3, <3>1
    <3>3. semfs_sems'[i].count = semfs_sems[i].count
      BY <1>2, <3>2 DEF Sems
    <3> QED
      BY <1>3, <3>1, <3>3
  <2>3. \A j \in Slots : MCount'[j] = MCount[j]
    BY <2>1, <2>2, CountIs
  <2> QED
    BY <2>3, MapIs
<1> QED
  BY <1>3, <1>5, <1>6, <1>7, <1>8 DEF Abstract!AOpen

\* The end of semfs_creat: the name and its semaphore appear together.
LEMMA RefinesCreat ==
  ASSUME SemfsInv, Bar, Bar', NEW t \in Threads, CreatFinish(t)
  PROVE  \E n \in Names, i \in Slots : Abstract!ACreate(t, n, i)
<1>inv. Exact /\ TypeOK /\ Directory /\ Works /\ Records
  BY DEF SemfsInv, Exact
<1>0. /\ pc[t] = "inserted" /\ open[t] = NULL
      /\ dent \in Entry /\ At(dent.name) = {} /\ ~HasName(dent.num)
      /\ vn_refcount[dent.num] = 0 /\ semfs_sems[dent.num].count = 0
  BY <1>inv DEF CreatFinish, Works, Work
<1>1. PICK d \in Entry : d = dent
  BY <1>0
<1>2. PICK n \in Names, i \in Slots : n = d.name /\ i = d.num
  BY EntryFields
<1>3. /\ semfs_dents' = WithEntry(d)
      /\ semfs_sems' = [semfs_sems EXCEPT ![i].hasvnode = TRUE, ![i].linked = TRUE]
      /\ open' = [open EXCEPT ![t] = i] /\ pc' = [pc EXCEPT ![t] = "idle"]
      /\ uio_resid' = uio_resid
  BY <1>1, <1>2 DEF CreatFinish, GetVnode, Go
<1>4. pc \in [Threads -> Places] /\ open \in [Threads -> Slots \cup {NULL}]
  BY <1>inv DEF TypeOK
<1>5. Entries' = Entries \cup {d}
  <2>1. \A e \in Entries : e.name # d.name /\ e.num # d.num
    BY <1>inv, <1>0, <1>1, Naming DEF HasName
  <2>2. d # NULL
    BY Constant
  <2> QED
    BY <1>inv, <1>3, <2>1, <2>2, EntryAdded
<1>6. MNamed' = [MNamed EXCEPT ![n] = i] /\ MNamed[n] = NULL
  <2>1. \A j \in Slots : ~Calls(n, j)
    BY <1>inv, <1>0, <1>1, <1>2, Naming DEF Calls
  <2>2. \A m \in Names, j \in Slots : Calls(m, j)' <=> IF m = n THEN j = i ELSE Calls(m, j)
    BY <1>2, <1>5, <2>1 DEF Calls
  <2>3. MNamed[n] = NULL
    BY <2>1 DEF Bar
  <2> QED
    BY <2>2, <2>3, NamesChange
<1>7. /\ MOpen[t] = NULL /\ MOpen' = [MOpen EXCEPT ![t] = i]
      /\ \A u \in Threads : MOpen'[u] = IF u = t THEN i ELSE MOpen[u]
  <2>1. \A u \in Threads : MOpen'[u] = IF u = t THEN i ELSE MOpen[u]
    BY <1>0, <1>3, <1>4, MapIs DEF Closing
  <2>2. MOpen[t] = NULL
    BY <1>0, MapIs
  <2> QED
    BY <2>1, <2>2, MapIs
<1>8. ~Live(i)
  <2>1. \A u \in Threads : MOpen[u] # i
    BY <1>inv, <1>0, <1>1, <1>2, Reached, MapIs, Constant DEF Closing
  <2> QED
    BY <1>0, <1>1, <1>2, <2>1 DEF Live
<1>9. MCount' = MCount
  <2>1. \A j \in Slots : j # i => (Live(j)' <=> Live(j))
    BY <1>2, <1>5, <1>7, Constant DEF Live, HasName
  <2>2. semfs_sems \in [Slots -> Sems \cup {NULL}]
    BY <1>inv DEF TypeOK
  <2>3. semfs_sems'[i].count = 0 /\ \A j \in Slots : j # i => semfs_sems'[j] = semfs_sems[j]
    <3>1. Keeps(t, i) /\ Record(i)
      BY <1>inv, <1>0, <1>1, <1>2 DEF Keeps, Records
    <3>2. semfs_sems[i] \in Sems
      BY <2>2, <3>1 DEF Record
    <3>3. semfs_sems'[i] = [[semfs_sems[i] EXCEPT !.hasvnode = TRUE] EXCEPT !.linked = TRUE]
      BY <1>3, <2>2
    <3>4. semfs_sems'[i].count = semfs_sems[i].count
      BY <3>2, <3>3 DEF Sems
    <3> QED
      BY <1>0, <1>1, <1>2, <1>3, <2>2, <3>4
  <2>4. \A j \in Slots : MCount'[j] = MCount[j]
    BY <1>8, <2>1, <2>3, CountIs
  <2> QED
    BY <2>4, MapIs
<1>10. ~Abstract!Lives(i)
  BY <1>8, CountIs
<1>11. Abstract!ACreate(t, n, i)
  BY <1>3, <1>6, <1>7, <1>9, <1>10 DEF Abstract!ACreate
<1> QED
  BY <1>11

\* semfs_remove: the name goes, and the semaphore if nobody has it open.
LEMMA RefinesRemove ==
  ASSUME SemfsInv, Bar, Bar', NEW t \in Threads, pc[t] \in InRemove,
         semfs_dents' = WithoutEntry(dent.name), pc' = [pc EXCEPT ![t] = "idle"],
         open' = open, uio_resid' = uio_resid,
         \A j \in Slots : Live(j)' => semfs_sems'[j].count = semfs_sems[j].count
  PROVE  \E n \in Names : Abstract!ARemove(n)
<1>inv. Exact /\ TypeOK /\ Directory
  BY DEF SemfsInv, Exact
<1>1. PICK d \in Entries : /\ d = dent /\ d.num \in Slots /\ HasName(d.num)
                           /\ \A j : HasName(j)' <=> HasName(j) /\ j # d.num
  BY <1>inv, RemovedEntry
<1>2. PICK n \in Names, i \in Slots : n = d.name /\ i = d.num
  BY <1>inv, Reached
<1>3. Entries' = {e \in Entries : e.name # n}
  BY <1>inv, <1>1, <1>2, EntryTaken
<1>4. MNamed' = [MNamed EXCEPT ![n] = NULL] /\ MNamed[n] = i
  <2>1. Calls(n, i)
    BY <1>2 DEF Calls
  <2>2. \A m \in Names, j \in Slots : Calls(m, j)' <=> IF m = n THEN j = NULL ELSE Calls(m, j)
    BY <1>3, Constant DEF Calls
  <2>3. NULL \in Slots \cup {NULL}
    OBVIOUS
  <2> QED
    BY <2>1, <2>2, <2>3, NamesChange DEF Bar
<1>5. \A u \in Threads : MOpen'[u] = MOpen[u]
  <2>1. pc \in [Threads -> Places]
    BY <1>inv DEF TypeOK
  <2> QED
    BY <2>1, MapIs DEF Closing, InRemove
<1>6. MOpen' = MOpen
  BY <1>5, MapIs
<1>7. MCount' = [MCount EXCEPT ![i] = IF Abstract!Lives(i)' THEN @ ELSE 0]
  <2>1. \A j \in Slots : j # i => (Live(j)' <=> Live(j))
    BY <1>1, <1>2, <1>5 DEF Live
  <2>2. Live(i)
    BY <1>1, <1>2 DEF Live
  <2>3. \A j \in Slots : MCount'[j] = IF j = i /\ ~Live(i)' THEN 0 ELSE MCount[j]
    BY <2>1, <2>2, CountIs
  <2>4. \A j \in Slots :
          MCount'[j] = IF j = i THEN (IF Abstract!Lives(i)' THEN MCount[i] ELSE 0) ELSE MCount[j]
    BY <2>3, CountIs
  <2> QED
    BY <2>4, MapIs
<1>8. Abstract!ARemove(n)
  BY <1>4, <1>6, <1>7 DEF Abstract!ARemove, Abstract!Forget
<1> QED
  BY <1>8

\* vnode_decref: the thread has let go, whatever it still does with the vnode.
LEMMA RefinesClose ==
  ASSUME SemfsInv, Bar, Bar', NEW t \in Threads, Close(t)
  PROVE  Abstract!AClose(t)
<1>inv. Exact /\ TypeOK /\ Works
  BY DEF SemfsInv, Exact
<1>0. /\ pc[t] = "idle" /\ open[t] # NULL
      /\ semfs_dents' = semfs_dents /\ semfs_sems' = semfs_sems /\ uio_resid' = uio_resid
      /\ pc \in [Threads -> Places] /\ open \in [Threads -> Slots \cup {NULL}]
      /\ \/ pc' = pc /\ open' = [open EXCEPT ![t] = NULL]
         \/ pc' = [pc EXCEPT ![t] = "reclaim"] /\ open' = open
  BY <1>inv DEF Close, Go, TypeOK
<1>1. PICK i \in Slots : i = open[t]
  BY <1>0
<1>2. /\ MOpen[t] = i
      /\ \A u \in Threads : MOpen'[u] = IF u = t THEN NULL ELSE MOpen[u]
  BY <1>0, <1>1, MapIs DEF Closing
<1>3. MOpen' = [MOpen EXCEPT ![t] = NULL]
  BY <1>2, MapIs
<1>4. uio_resid[t] = 0
  BY <1>inv, <1>0, Constant DEF Works, Work, TypeOK
<1>5. MNamed' = MNamed /\ \A j : HasName(j)' <=> HasName(j)
  <2>1. Entries' = Entries
    BY <1>0 DEF Entries
  <2> QED
    BY <2>1, NamesSame
<1>6. MCount' = [MCount EXCEPT ![i] = IF Abstract!Lives(i)' THEN @ ELSE 0]
  <2>1. \A j \in Slots : j # i => (Live(j)' <=> Live(j))
    BY <1>2, <1>5, Constant DEF Live
  <2>2. Live(i)
    BY <1>2 DEF Live
  <2>3. \A j \in Slots : MCount'[j] = IF j = i /\ ~Live(i)' THEN 0 ELSE MCount[j]
    BY <1>0, <2>1, <2>2, CountIs
  <2>4. \A j \in Slots :
          MCount'[j] = IF j = i THEN (IF Abstract!Lives(i)' THEN MCount[i] ELSE 0) ELSE MCount[j]
    BY <2>3, CountIs
  <2> QED
    BY <2>4, MapIs
<1> QED
  BY <1>0, <1>2, <1>3, <1>4, <1>5, <1>6 DEF Abstract!AClose, Abstract!Forget

\* What a semaphore operation changes, seen from outside: one count.
LEMMA RefinesOp ==
  ASSUME SemfsInv, Bar, Bar', NEW t \in Threads, NEW i \in Slots, NEW c \in Nat,
         pc[t] \in {"idle", "woken"}, open[t] = i,
         Entries' = Entries, open' = open,
         \A u \in Threads : Closing(u)' <=> Closing(u),
         semfs_sems'[i].count = c,
         \A j \in Slots : j # i => semfs_sems'[j] = semfs_sems[j]
  PROVE  /\ MOpen[t] = i /\ i # NULL
         /\ MNamed' = MNamed /\ MOpen' = MOpen
         /\ MCount[i] = semfs_sems[i].count
         /\ MCount' = [MCount EXCEPT ![i] = c]
<1>1. MOpen[t] = i /\ i # NULL
  BY MapIs, Constant DEF Closing
<1>2. MNamed' = MNamed /\ \A j : HasName(j)' <=> HasName(j)
  BY NamesSame
<1>3. MOpen' = MOpen
  <2>1. \A u \in Threads : MOpen'[u] = MOpen[u]
    BY MapIs
  <2> QED
    BY <2>1, MapIs
<1>4. \A j \in Slots : Live(j)' <=> Live(j)
  BY <1>2, <1>3 DEF Live
<1>5. Live(i)
  BY <1>1 DEF Live
<1>6. MCount[i] = semfs_sems[i].count
  BY <1>5, CountIs
<1>7. \A j \in Slots : MCount'[j] = IF j = i THEN c ELSE MCount[j]
  BY <1>4, <1>5, CountIs
<1>8. MCount' = [MCount EXCEPT ![i] = c]
  BY <1>7, MapIs
<1> QED
  BY <1>1, <1>2, <1>3, <1>6, <1>8

\* One turn of the loop of semfs_read.
LEMMA RefinesTake ==
  ASSUME SemfsInv, Bar, Bar', NEW t \in Threads, NEW k \in Amounts,
         pc[t] \in {"idle", "woken"}, uio_resid[t] \in {0, k},
         Usable(t), TakeLoop(t, k), UNCHANGED <<semfs_dents, open>>
  PROVE  Abstract!AP(t, k)
<1>inv. Exact /\ TypeOK
  BY DEF SemfsInv, Exact
<1>1. PICK i \in Slots, got \in Nat, left \in 0 .. MaxAmount :
           /\ open[t] = i /\ got = (IF k > semfs_sems[i].count THEN semfs_sems[i].count ELSE k)
           /\ left = k - got
           /\ uio_resid' = [uio_resid EXCEPT ![t] = left]
           /\ pc' = [pc EXCEPT ![t] = IF left = 0 THEN "idle" ELSE "asleep"]
           /\ semfs_sems[i] \in Sems
           /\ semfs_sems'[i].count = semfs_sems[i].count - got
           /\ \A j \in Slots : j # i => semfs_sems'[j] = semfs_sems[j]
  BY <1>inv, Taken
<1>2. /\ k \in Nat /\ k > 0
      /\ semfs_sems[i].count \in Nat
  BY <1>1, Constant DEF Sems, Counts, Amounts
<1>3. semfs_sems[i].count - got \in Nat
  BY <1>1, <1>2
<1>4. pc \in [Threads -> Places]
  BY <1>inv DEF TypeOK
<1>5. \A u \in Threads : Closing(u)' <=> Closing(u)
  BY <1>1, <1>4 DEF Closing
<1>6. Entries' = Entries
  BY DEF Entries
<1>7. /\ MOpen[t] = i /\ i # NULL
      /\ MNamed' = MNamed /\ MOpen' = MOpen
      /\ MCount[i] = semfs_sems[i].count
      /\ MCount' = [MCount EXCEPT ![i] = semfs_sems[i].count - got]
  BY <1>1, <1>3, <1>5, <1>6, RefinesOp
<1>8. got = Abstract!LessOf(k, MCount[i])
  BY <1>1, <1>2, <1>7 DEF Abstract!LessOf
<1>9. MCount' = [MCount EXCEPT ![i] = @ - Abstract!LessOf(k, MCount[i])]
  BY <1>7, <1>8, MapIs
<1>10. uio_resid' = [uio_resid EXCEPT ![t] = k - Abstract!LessOf(k, MCount[i])]
  BY <1>1, <1>8
<1> QED
  BY <1>2, <1>7, <1>9, <1>10 DEF Abstract!AP

\* semfs_write and semfs_truncate.
LEMMA RefinesCount ==
  ASSUME SemfsInv, Bar, Bar', NEW t \in Threads, NEW c \in Counts, pc[t] = "idle",
         Usable(t), SetCount(t, c), UNCHANGED <<semfs_dents, open, uio_resid>>
  PROVE  /\ Abstract!ASet(t, c)
         /\ MOpen[t] # NULL /\ MCount[MOpen[t]] = semfs_sems[open[t]].count
<1>inv. Exact /\ TypeOK /\ Works
  BY DEF SemfsInv, Exact
<1>1. PICK i \in Slots, W \in SUBSET Threads :
           /\ open[t] = i /\ \A u \in W : Sleeps(u, i)
           /\ pc' = [u \in Threads |-> IF u \in W THEN "woken" ELSE pc[u]]
           /\ semfs_sems'[i].count = c
           /\ \A j \in Slots : j # i => semfs_sems'[j] = semfs_sems[j]
  BY <1>inv, Wakened
<1>2. \A u \in Threads : Closing(u)' <=> Closing(u)
  BY <1>1 DEF Closing, Sleeps
<1>3. Entries' = Entries /\ c \in Nat
  BY Constant DEF Entries, Counts
<1>4. /\ MOpen[t] = i /\ i # NULL
      /\ MNamed' = MNamed /\ MOpen' = MOpen
      /\ MCount[i] = semfs_sems[i].count
      /\ MCount' = [MCount EXCEPT ![i] = c]
  BY <1>1, <1>2, <1>3, RefinesOp
<1>5. uio_resid[t] = 0
  <2>1. uio_resid[t] \in 0 .. MaxAmount /\ ~(uio_resid[t] > 0)
    BY <1>inv DEF Works, Work, TypeOK
  <2> QED
    BY <2>1, Constant
<1> QED
  BY <1>1, <1>4, <1>5 DEF Abstract!ASet

\* A semaphore number that is not in use takes or loses a semaphore.
LEMMA UnseenSlot ==
  ASSUME SemfsInv, Bar, Bar', NEW i \in Slots, ~Live(i),
         Entries' = Entries, uio_resid' = uio_resid,
         \A u \in Threads : MOpen'[u] = MOpen[u],
         \A j \in Slots : j # i => semfs_sems'[j] = semfs_sems[j]
  PROVE  UNCHANGED Abstract!avars
BY Unseen

\* A step that changes no count and no entry, and no reference users can use.
LEMMA UnseenRecord ==
  ASSUME SemfsInv, Bar, Bar', semfs_dents' = semfs_dents, uio_resid' = uio_resid,
         \A u \in Threads : MOpen'[u] = MOpen[u],
         \A j \in Slots : semfs_sems[j] # NULL => semfs_sems'[j].count = semfs_sems[j].count
  PROVE  UNCHANGED Abstract!avars
<1>inv. Exact
  BY DEF SemfsInv
<1>1. \A j \in Slots : Live(j) => semfs_sems[j] # NULL
  <2> SUFFICES ASSUME NEW j \in Slots, Live(j) PROVE semfs_sems[j] # NULL
    OBVIOUS
  <2>1. CASE HasName(j)
    BY <1>inv, <2>1, Reached, Constant DEF HasName
  <2>2. CASE \E u \in Threads : MOpen[u] = j
    <3>1. PICK u \in Threads : MOpen[u] = j
      BY <2>2
    <3>2. open[u] = j /\ open[u] # NULL
      BY <3>1, MapIs, Constant
    <3> QED
      BY <1>inv, <3>2, Reached, Constant
  <2> QED
    BY <2>1, <2>2 DEF Live
<1>2. Entries' = Entries
  BY DEF Entries
<1> QED
  BY <1>1, <1>2, Unseen

LEMMA UnseenPanic == ASSUME SemfsInv, Bar, Bar', Same PROVE UNCHANGED Abstract!avars
<1>1. /\ semfs_dents' = semfs_dents /\ semfs_sems' = semfs_sems /\ open' = open /\ pc' = pc
      /\ uio_resid' = uio_resid
  BY DEF Same, tables
<1>2. \A u \in Threads : MOpen'[u] = MOpen[u]
  BY <1>1, MapIs DEF Closing
<1> QED
  BY <1>1, <1>2, UnseenRecord

\* A thread goes from one place to another, of which none is at the end of a
\* close; open, the entries and the counts stay.
LEMMA UnseenMove ==
  ASSUME SemfsInv, Bar, Bar', NEW t \in Threads, NEW place, pc' = [pc EXCEPT ![t] = place],
         ~Closing(t), place \notin {"reclaim", "clearing"},
         semfs_dents' = semfs_dents, semfs_sems' = semfs_sems, open' = open,
         uio_resid' = uio_resid
  PROVE  UNCHANGED Abstract!avars
<1>0. pc \in [Threads -> Places]
  BY DEF SemfsInv, Exact, TypeOK
<1>1. \A u \in Threads : MOpen'[u] = MOpen[u]
  BY <1>0, MapIs DEF Closing
<1> QED
  BY <1>1, UnseenRecord

\* The semaphore of a creation is not in use before it has a name.
LEMMA UnseenInsert ==
  ASSUME SemfsInv, Bar, Bar', NEW t \in Threads, NEW n \in Names, CreatInsert(t, n)
  PROVE  UNCHANGED Abstract!avars
<1>inv. Exact /\ TypeOK
  BY DEF SemfsInv, Exact
<1>0. Lowest(HasRoom(semfs_sems)) \in HasRoom(semfs_sems)
  <2>1. DOMAIN semfs_sems = Slots /\ Slots \subseteq Nat
    BY <1>inv, Constant DEF TypeOK, Slots
  <2>2. HasRoom(semfs_sems) \in SUBSET Nat /\ HasRoom(semfs_sems) # {}
    BY <2>1 DEF HasRoom, CreatInsert
  <2> QED
    BY <2>2, LowestIn
<1>1. PICK i \in Slots : i = Lowest(HasRoom(semfs_sems)) /\ semfs_sems[i] = NULL
  BY <1>inv, <1>0 DEF HasRoom, TypeOK
<1>2. /\ pc[t] = "dir" /\ pc' = [pc EXCEPT ![t] = "inserted"]
      /\ \A j \in Slots : j # i => semfs_sems'[j] = semfs_sems[j]
      /\ semfs_dents' = semfs_dents /\ open' = open /\ uio_resid' = uio_resid
      /\ pc \in [Threads -> Places]
  BY <1>inv, <1>1 DEF CreatInsert, Go, TypeOK
<1>3. \A u \in Threads : MOpen'[u] = MOpen[u]
  BY <1>2, MapIs DEF Closing
<1>4. \A j \in Slots : semfs_sems[j] # NULL => semfs_sems'[j].count = semfs_sems[j].count
  BY <1>1, <1>2
<1> QED
  BY <1>2, <1>3, <1>4, UnseenRecord

LEMMA UnseenUndo ==
  ASSUME SemfsInv, Bar, Bar', NEW t \in Threads, CreatUndo(t)
  PROVE  UNCHANGED Abstract!avars
<1>inv. Exact /\ TypeOK /\ Directory /\ Works
  BY DEF SemfsInv, Exact
<1>0. /\ pc[t] = "inserted" /\ dent \in Entry /\ ~HasName(dent.num)
      /\ vn_refcount[dent.num] = 0
  BY <1>inv DEF CreatUndo, Works, Work
<1>1. PICK i \in Slots : i = dent.num
  BY <1>0, EntryFields
<1>2. /\ semfs_dents' \in {semfs_dents, WithEntry(NULL)}
      /\ semfs_sems' = [semfs_sems EXCEPT ![i] = NULL]
      /\ pc' = [pc EXCEPT ![t] = "idle"] /\ open' = open /\ uio_resid' = uio_resid
      /\ pc \in [Threads -> Places]
  BY <1>inv, <1>1 DEF CreatUndo, Go, TypeOK
<1>3. \A u \in Threads : MOpen'[u] = MOpen[u]
  BY <1>0, <1>2, MapIs DEF Closing
<1>4. Entries' = Entries
  <2>1. CASE semfs_dents' = semfs_dents
    BY <2>1 DEF Entries
  <2>2. CASE semfs_dents' = WithEntry(NULL)
    <3>1. Entries' = Entries \cup ({NULL} \ {NULL})
      BY <1>inv, <2>2, EntryAdded
    <3> QED
      BY <3>1
  <2> QED
    BY <1>2, <2>1, <2>2
<1>5. ~Live(i)
  <2>1. \A u \in Threads : MOpen[u] # i
    BY <1>inv, <1>0, <1>1, Reached, MapIs, Constant DEF Closing
  <2> QED
    BY <1>0, <1>1, <2>1 DEF Live
<1>6. \A j \in Slots : j # i => semfs_sems'[j] = semfs_sems[j]
  BY <1>inv, <1>2 DEF TypeOK
<1> QED
  BY <1>2, <1>3, <1>4, <1>5, <1>6, UnseenSlot

\* The name is not gone yet when sems_linked is cleared.
LEMMA UnseenUnlink ==
  ASSUME SemfsInv, Bar, Bar', NEW t \in Threads, NEW n \in Names, RemoveUnlink(t, n),
         panic = "no", panic' = "no"
  PROVE  UNCHANGED Abstract!avars
<1>inv. Exact /\ TypeOK /\ Directory
  BY DEF SemfsInv, Exact
<1>1. PICK d \in Entries : d.name = n /\ d.num = Named(n)
  BY <1>inv, Naming DEF RemoveUnlink
<1>2. PICK i \in Slots : i = d.num /\ semfs_sems[i] \in Sems
  BY <1>inv, Reached
<1>3. /\ pc[t] = "dir" /\ pc' = [pc EXCEPT ![t] = "unlinked"]
      /\ semfs_sems' = [semfs_sems EXCEPT ![i].holder = t, ![i].linked = FALSE]
      /\ semfs_dents' = semfs_dents /\ open' = open /\ uio_resid' = uio_resid
      /\ pc \in [Threads -> Places] /\ semfs_sems \in [Slots -> Sems \cup {NULL}]
  BY <1>inv, <1>1, <1>2 DEF RemoveUnlink, Go, Panic, TypeOK
<1>4. \A u \in Threads : MOpen'[u] = MOpen[u]
  BY <1>3, MapIs DEF Closing
<1>5. semfs_sems'[i].count = semfs_sems[i].count
  <2> DEFINE new == [[semfs_sems[i] EXCEPT !.holder = t] EXCEPT !.linked = FALSE]
  <2>1. semfs_sems' = [semfs_sems EXCEPT ![i] = new]
    BY <1>3
  <2>2. new.count = semfs_sems[i].count
    BY <1>2 DEF Sems
  <2> HIDE DEF new
  <2> QED
    BY <1>3, <2>1, <2>2
<1>6. \A j \in Slots : j # i => semfs_sems'[j] = semfs_sems[j]
  BY <1>3
<1> QED
  BY <1>3, <1>4, <1>5, <1>6, UnseenRecord

\* The test of sems_hasvnode: the name goes here if the vnode is there.
LEMMA RefinesRemoveTest ==
  ASSUME SemfsInv, Bar, Bar', NEW t \in Threads, RemoveTest(t)
  PROVE  (\E n \in Names : Abstract!ARemove(n)) \/ UNCHANGED Abstract!avars
<1>inv. Exact /\ TypeOK
  BY DEF SemfsInv, Exact
<1>0. pc[t] = "unlinked" /\ pc[t] \in InRemove
  BY DEF RemoveTest, InRemove
<1>1. PICK i \in Slots : i = dent.num /\ semfs_sems[i] \in Sems
  BY <1>inv, <1>0, RemovedEntry
<1>2. CASE semfs_sems[dent.num].hasvnode
  <2>1. /\ semfs_sems' = [semfs_sems EXCEPT ![i].holder = NULL]
        /\ semfs_dents' = WithoutEntry(dent.name)
        /\ pc' = [pc EXCEPT ![t] = "idle"] /\ open' = open /\ uio_resid' = uio_resid
        /\ semfs_sems \in [Slots -> Sems \cup {NULL}]
    BY <1>inv, <1>1, <1>2 DEF RemoveTest, RemoveEntry, Go, TypeOK
  <2>2. \A j \in Slots : semfs_sems'[j].count = semfs_sems[j].count
    <3> DEFINE new == [semfs_sems[i] EXCEPT !.holder = NULL]
    <3>1. semfs_sems' = [semfs_sems EXCEPT ![i] = new]
      BY <2>1
    <3>2. new.count = semfs_sems[i].count
      BY <1>1 DEF Sems
    <3> HIDE DEF new
    <3> QED
      BY <2>1, <3>1, <3>2
  <2> QED
    BY <1>0, <2>1, <2>2, RefinesRemove
<1>3. CASE ~semfs_sems[dent.num].hasvnode
  <2>1. /\ pc' = [pc EXCEPT ![t] = "freeing"]
        /\ semfs_dents' = semfs_dents /\ semfs_sems' = semfs_sems /\ open' = open
        /\ uio_resid' = uio_resid
    BY <1>3 DEF RemoveTest, Go
  <2> QED
    BY <1>0, <2>1, UnseenMove DEF Closing
<1> QED
  BY <1>2, <1>3

\* The end of semfs_remove when nobody has the semaphore open.
LEMMA RefinesRemoveFree ==
  ASSUME SemfsInv, Bar, Bar', NEW t \in Threads, RemoveFree(t)
  PROVE  \E n \in Names : Abstract!ARemove(n)
<1>inv. Exact /\ TypeOK /\ Works /\ Locked
  BY DEF SemfsInv, Exact
<1>0. pc[t] = "freeing" /\ pc[t] \in InRemove /\ tablelock = NULL /\ panic' = panic
  BY <1>inv, RemoveFreeStep DEF RemoveFree, InRemove
<1>1. PICK d \in Entries :
           /\ d = dent /\ d.num \in Slots /\ semfs_sems[d.num] \in Sems
           /\ Record(d.num)
           /\ semfs_dents' = WithoutEntry(d.name) => \A j : HasName(j)' <=> HasName(j) /\ j # d.num
  BY <1>inv, <1>0, RemovedEntry
<1>2. PICK i \in Slots : i = d.num
  BY <1>1
<1>3. \A u \in Threads : open[u] # i
  <2>1. vn_refcount[i] = 0
    BY <1>inv, <1>0, <1>1, <1>2 DEF Works, Work
  <2> QED
    BY <1>inv, <1>0, <2>1, Reached, Alone, Constant
<1>4. semfs_sems[i].cv = <<>>
  <2>1. semfs_sems[i].cv \in Seq(Threads) /\ semfs_sems[i] # NULL /\ Record(i)
    BY <1>1, <1>2, Constant DEF Sems
  <2>2. ASSUME semfs_sems[i].cv # <<>> PROVE FALSE
    <3>1. 1 \in DOMAIN semfs_sems[i].cv /\ semfs_sems[i].cv[1] \in Threads
      BY <2>1, <2>2
    <3>2. Sleeps(semfs_sems[i].cv[1], i)
      BY <2>1, <3>1 DEF Record
    <3> QED
      BY <1>3, <3>1, <3>2 DEF Sleeps
  <2> QED
    BY <2>2
<1>5. /\ semfs_sems' = [semfs_sems EXCEPT ![i] = NULL]
      /\ semfs_dents' = WithoutEntry(dent.name)
      /\ pc' = [pc EXCEPT ![t] = "idle"] /\ open' = open /\ uio_resid' = uio_resid
      /\ semfs_sems \in [Slots -> Sems \cup {NULL}]
  BY <1>inv, <1>1, <1>2, <1>4 DEF RemoveFree, RemoveEntry, Go, TypeOK
<1>6. ~Live(i)'
  <2>1. ~HasName(i)'
    BY <1>1, <1>2, <1>5
  <2>2. \A u \in Threads : MOpen'[u] # i
    BY <1>3, <1>5, MapIs, Constant
  <2> QED
    BY <2>1, <2>2 DEF Live
<1>7. \A j \in Slots : Live(j)' => semfs_sems'[j].count = semfs_sems[j].count
  BY <1>5, <1>6
<1> QED
  BY <1>0, <1>5, <1>7, RefinesRemove

\* semfs_reclaim: the close was over before it.
LEMMA UnseenReclaim ==
  ASSUME SemfsInv, Bar, Bar', NEW t \in Threads, Reclaim(t)
  PROVE  UNCHANGED Abstract!avars
<1>inv. Exact /\ TypeOK /\ Works
  BY DEF SemfsInv, Exact
<1>0. pc[t] = "reclaim" /\ open[t] # NULL /\ pc \in [Threads -> Places]
      /\ open \in [Threads -> Slots \cup {NULL}] /\ semfs_sems \in [Slots -> Sems \cup {NULL}]
  BY <1>inv DEF Reclaim, Works, Work, TypeOK
<1>1. PICK i \in Slots : /\ i = open[t] /\ semfs_sems[i] \in Sems /\ semfs_sems[i].hasvnode
  BY <1>inv, <1>0, Reached
<1>2. CASE vn_refcount[open[t]] > 1
  <2>1. /\ open' = [open EXCEPT ![t] = NULL] /\ pc' = [pc EXCEPT ![t] = "idle"]
        /\ semfs_dents' = semfs_dents /\ semfs_sems' = semfs_sems /\ uio_resid' = uio_resid
    BY <1>2 DEF Reclaim, Go
  <2>2. \A u \in Threads : MOpen'[u] = MOpen[u]
    BY <1>0, <2>1, MapIs DEF Closing
  <2> QED
    BY <2>1, <2>2, UnseenRecord
<1>3. CASE ~(vn_refcount[open[t]] > 1)
  <2>1. /\ semfs_sems' = [semfs_sems EXCEPT ![i].hasvnode = FALSE]
        /\ pc' = [pc EXCEPT ![t] = "clearing"] /\ open' = open
        /\ semfs_dents' = semfs_dents /\ uio_resid' = uio_resid
    BY <1>1, <1>3 DEF Reclaim, Go
  <2>2. \A u \in Threads : MOpen'[u] = MOpen[u]
    BY <1>0, <2>1, MapIs DEF Closing
  <2>3. \A j \in Slots : semfs_sems'[j].count = semfs_sems[j].count
    <3> DEFINE new == [semfs_sems[i] EXCEPT !.hasvnode = FALSE]
    <3>1. semfs_sems' = [semfs_sems EXCEPT ![i] = new]
      BY <2>1
    <3>2. new.count = semfs_sems[i].count
      BY <1>1 DEF Sems
    <3> HIDE DEF new
    <3> QED
      BY <1>0, <3>1, <3>2
  <2> QED
    BY <2>1, <2>2, <2>3, UnseenRecord
<1> QED
  BY <1>2, <1>3

\* What semfs_reclaim destroys has no name and nobody has it open.
LEMMA UnseenReclaimTest ==
  ASSUME SemfsInv, Bar, Bar', NEW t \in Threads, ReclaimTest(t)
  PROVE  UNCHANGED Abstract!avars
<1>inv. Exact /\ TypeOK /\ Works /\ Records
  BY DEF SemfsInv, Exact
<1>0. /\ pc[t] = "clearing" /\ open[t] # NULL /\ vn_refcount[open[t]] = 0
      /\ pc \in [Threads -> Places] /\ open \in [Threads -> Slots \cup {NULL}]
      /\ semfs_sems \in [Slots -> Sems \cup {NULL}]
  BY <1>inv DEF ReclaimTest, Works, Work, TypeOK
<1>1. PICK i \in Slots : /\ i = open[t] /\ semfs_sems[i] \in Sems /\ semfs_sems[i] # NULL
                         /\ Record(i)
  BY <1>inv, <1>0, Reached, Constant DEF Records
<1>2. CASE ~(semfs_sems[open[t]].linked \/ MayDestroy(open[t]))
  <2>1. Same
    BY <1>inv, <1>2, LockDestroyed
  <2> QED
    BY <2>1, UnseenPanic
<1>3. CASE semfs_sems[open[t]].linked \/ MayDestroy(open[t])
  <2>1. /\ semfs_sems' = [semfs_sems EXCEPT ![i] = IF @.linked THEN @ ELSE NULL]
        /\ open' = [open EXCEPT ![t] = NULL] /\ pc' = [pc EXCEPT ![t] = "idle"]
        /\ semfs_dents' = semfs_dents /\ uio_resid' = uio_resid
    BY <1>1, <1>3 DEF ReclaimTest, Go
  <2>2. \A u \in Threads : MOpen'[u] = MOpen[u]
    BY <1>0, <2>1, MapIs DEF Closing
  <2>3. CASE semfs_sems[i].linked
    <3>1. semfs_sems' = semfs_sems
      BY <1>0, <2>1, <2>3
    <3> QED
      BY <2>1, <2>2, <3>1, UnseenRecord
  <2>4. CASE ~semfs_sems[i].linked
    <3>1. semfs_sems[i].holder = NULL
      BY <1>1, <1>3, <2>4 DEF MayDestroy
    <3>2. \A u \in Threads : ~Removes(u, i)
      BY <1>1, <3>1, Constant DEF Record
    <3>3. ~HasName(i)
      BY <1>1, <2>4, <3>2 DEF Record
    <3>4. \A u \in Threads : MOpen[u] # i
      BY <1>inv, <1>0, <1>1, Reached, MapIs, Constant DEF Closing
    <3>5. ~Live(i) /\ Entries' = Entries
      BY <2>1, <3>3, <3>4 DEF Live, Entries
    <3>6. \A j \in Slots : j # i => semfs_sems'[j] = semfs_sems[j]
      BY <1>0, <2>1
    <3> QED
      BY <2>1, <2>2, <3>5, <3>6, UnseenSlot
  <2> QED
    BY <2>3, <2>4
<1> QED
  BY <1>2, <1>3

\* The calls of user programs.
LEMMA RefinesCall ==
  ASSUME SemfsInv, Bar, Bar', NEW t \in Threads, Call(t)
  PROVE  Abstract!ANext \/ UNCHANGED Abstract!avars
<1>inv. Exact /\ TypeOK /\ Works
  BY DEF SemfsInv, Exact
<1>0. Amounts \subseteq 0 .. Width - 1 /\ Counts = 0 .. Width - 1
  BY Constant DEF Amounts, Counts
<1>1. CASE EnterDir(t)
  <2>1. /\ pc[t] = "idle" /\ pc' = [pc EXCEPT ![t] = "dir"] /\ semfs_dents' = semfs_dents
        /\ semfs_sems' = semfs_sems /\ open' = open /\ uio_resid' = uio_resid
    BY <1>1 DEF EnterDir, Go, tables
  <2> QED
    BY <2>1, UnseenMove DEF Closing
<1>2. CASE Close(t)
  BY <1>2, RefinesClose DEF Abstract!ANext
<1>3. ASSUME NEW k \in Amounts, Read(t, k) PROVE Abstract!ANext
  <2>1. uio_resid[t] = 0
    <3>1. uio_resid[t] \in 0 .. MaxAmount /\ ~(uio_resid[t] > 0)
      BY <1>inv, <1>3 DEF Read, Works, Work, TypeOK
    <3> QED
      BY <3>1, Constant
  <2>2. Abstract!AP(t, k)
    BY <1>3, <2>1, RefinesTake DEF Read
  <2> QED
    BY <1>0, <2>2 DEF Abstract!ANext
<1>4. ASSUME NEW k \in Amounts, Write(t, k) PROVE Abstract!ANext
  <2>1. pc[t] = "idle" /\ Usable(t) /\ pc[t] # "clearing" /\ open[t] # NULL
    BY <1>4 DEF Write, Usable
  <2>2. semfs_sems[open[t]].count \in Counts
    BY <1>inv, <2>1, OwnSem
  <2>3. PICK c \in Counts : /\ c = (semfs_sems[open[t]].count + k) % Width
                            /\ c = semfs_sems[open[t]].count + k
    BY <1>4, <2>2, NewCount DEF Write
  <2>4. SetCount(t, c) /\ UNCHANGED <<semfs_dents, open, uio_resid>>
    BY <1>4, <2>3 DEF Write
  <2>5. /\ Abstract!ASet(t, c)
        /\ MOpen[t] # NULL /\ MCount[MOpen[t]] = semfs_sems[open[t]].count
    BY <2>1, <2>4, RefinesCount
  <2>6. /\ MCount[MOpen[t]] + k = c /\ c < Width
        /\ MCount' = [MCount EXCEPT ![MOpen[t]] = @ + k]
    <3>1. MCount[MOpen[t]] + k = c
      BY <2>3, <2>5
    <3>2. c < Width
      BY Constant DEF Counts
    <3>3. MCount' = [MCount EXCEPT ![MOpen[t]] = c]
      BY <2>5 DEF Abstract!ASet
    <3>4. MCount' = [MCount EXCEPT ![MOpen[t]] = MCount[MOpen[t]] + k]
      BY <3>1, <3>3
    <3> QED
      BY <3>1, <3>2, <3>4, MapIs
  <2>7. Abstract!AV(t, k)
    BY <2>5, <2>6 DEF Abstract!AV, Abstract!ASet
  <2> QED
    BY <1>0, <2>7 DEF Abstract!ANext
<1>5. ASSUME NEW c \in Counts, Truncate(t, c) PROVE Abstract!ANext
  <2>1. Abstract!ASet(t, c)
    BY <1>5, RefinesCount DEF Truncate
  <2> QED
    BY <1>0, <2>1 DEF Abstract!ANext
<1> QED
  BY <1>1, <1>2, <1>3, <1>4, <1>5 DEF Call

\* The rest of a call.
LEMMA RefinesThreadStep ==
  ASSUME SemfsInv, Bar, Bar', NEW t \in Threads, ThreadStep(t), panic = "no"
  PROVE  Abstract!ANext \/ UNCHANGED Abstract!avars
<1>inv. Exact /\ TypeOK /\ Works
  BY DEF SemfsInv, Exact
<1>1. CASE LeaveDir(t)
  <2>1. /\ pc[t] = "dir" /\ pc' = [pc EXCEPT ![t] = "idle"] /\ semfs_dents' = semfs_dents
        /\ semfs_sems' = semfs_sems /\ open' = open /\ uio_resid' = uio_resid
    BY <1>1 DEF LeaveDir, Go, tables
  <2> QED
    BY <2>1, UnseenMove DEF Closing
<1>2. CASE CreatFinish(t)
  BY <1>2, RefinesCreat DEF Abstract!ANext
<1>3. CASE CreatUndo(t)
  BY <1>3, UnseenUndo
<1>4. CASE CreatNoEntry(t)
  <2>1. Same
    BY <1>4 DEF CreatNoEntry, Panic, Same
  <2> QED
    BY <2>1, UnseenPanic
<1>5. CASE RemoveTest(t)
  BY <1>5, RefinesRemoveTest DEF Abstract!ANext
<1>6. CASE RemoveFree(t)
  BY <1>6, RefinesRemoveFree DEF Abstract!ANext
<1>7. CASE ReadOn(t)
  <2>1. uio_resid[t] \in Amounts /\ Amounts \subseteq 0 .. Width - 1
    <3>1. uio_resid[t] \in 0 .. MaxAmount /\ MaxAmount \in Nat /\ uio_resid[t] > 0
      BY <1>inv, <1>7, Constant DEF ReadOn, TypeOK, Works, Work
    <3> QED
      BY <3>1, Constant DEF Amounts
  <2>2. PICK k \in Amounts : k = uio_resid[t]
    BY <2>1
  <2>3. Abstract!AP(t, k)
    <3>1. /\ pc[t] = "woken" /\ Usable(t) /\ TakeLoop(t, k)
          /\ UNCHANGED <<semfs_dents, open>>
      BY <1>7, <2>2 DEF ReadOn
    <3> QED
      BY <2>2, <3>1, RefinesTake
  <2> QED
    BY <2>1, <2>3 DEF Abstract!ANext
<1>8. CASE Reclaim(t)
  BY <1>8, UnseenReclaim
<1>9. CASE ReclaimTest(t)
  BY <1>9, UnseenReclaimTest
<1>10. ASSUME NEW n \in Names, Lookup(t, n) PROVE Abstract!ANext
  BY <1>10, RefinesLookup DEF Abstract!ANext
<1>11. ASSUME NEW n \in Names, CreatInsert(t, n) PROVE UNCHANGED Abstract!avars
  BY <1>11, UnseenInsert
<1>12. ASSUME NEW n \in Names, RemoveUnlink(t, n) PROVE UNCHANGED Abstract!avars
  BY <1>inv, <1>12, RemoveUnlinkSafe, UnseenUnlink
<1> QED
  BY <1>1, <1>2, <1>3, <1>4, <1>5, <1>6, <1>7, <1>8, <1>9, <1>10, <1>11, <1>12 DEF ThreadStep

LEMMA RefinesNext ==
  ASSUME SemfsInv, Bar, Bar', [Next]_vars
  PROVE  [Abstract!ANext]_Abstract!avars
<1>1. CASE UNCHANGED vars
  <2>1. Same
    BY <1>1 DEF vars, Same, tables, locks
  <2> QED
    BY <2>1, UnseenPanic
<1>2. CASE Next
  <2>1. panic = "no"
    BY <1>2 DEF Next
  <2>2. CASE Getdirentry
    <3>1. Same
      BY <2>2 DEF Getdirentry, Panic, Same
    <3> QED
      BY <3>1, UnseenPanic
  <2>3. CASE \E t \in Threads : Call(t) \/ ThreadStep(t)
    BY <2>1, <2>3, RefinesCall, RefinesThreadStep
  <2> QED
    BY <1>2, <2>2, <2>3 DEF Next
<1> QED
  BY <1>1, <1>2

\* What users see of semfs, whatever its locks, tables and vnodes are at, is the
\* atomic semaphores of the manual page: a name brings the count it had left, an
\* unlinked semaphore serves those who have it open until the last one closes,
\* and no P or V is lost or counted twice.
THEOREM SemfsRefines == Spec => ImplementsSemaphores
<1>1. Init => Abstract!AInit
  BY RefinesInit
<1>2. SemfsInv => Bar
  BY BarHolds
<1>3. SemfsInv /\ Bar /\ Bar' /\ [Next]_vars => [Abstract!ANext]_Abstract!avars
  BY RefinesNext
<1> QED
  BY <1>1, <1>2, <1>3, Always, PTL DEF Spec, ImplementsSemaphores, Abstract!ASpec

=============================================================================
