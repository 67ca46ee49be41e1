----------------------- MODULE ProducerConsumer_proofs -----------------------
(***************************************************************************)
(* Proofs about ProducerConsumer, for any numbers of producers, consumers  *)
(* and items and any size of the ring: no assertion of the driver fails,   *)
(* the ring is a queue, and the simulation is quiet when main destroys the *)
(* semaphores.                                                             *)
(***************************************************************************)
EXTENDS ProducerConsumer, FiniteSetTheorems, SequenceTheorems, TLAPS

Count(S, places) == Cardinality(At(S, places))

\* mutex is one, and its owner the only thread in a critical section.
Exclusive ==
  /\ mutex \in {0, 1}
  /\ \A t \in Threads : pc[t] \in {"move", "step"} =>
       mutex = 0 /\ \A u \in Threads : pc[u] \in {"move", "step"} => u = t

\* Where producers, consumers and main can be, and what they hold there.
Routes ==
  /\ \A p \in Producers : /\ pc[p] \notin {"join", "stop"}
                          /\ pc[p] \in {"finish", "done"} => to_go[p] = 0
                          /\ pc[p] \notin {"finish", "done"} => to_go[p] \in 1..ITEMS_TO_PRODUCE
  /\ \A c \in Consumers : /\ pc[c] \notin {"join", "stop"}
                          /\ item[c] # NULL <=> pc[c] \in {"step", "post"}
  /\ pc[Main] # "finish"

\* The filled slots are those from Oldest up to End, around the ring.
End == IF At(Senders, {"step"}) # {} THEN Step(put) ELSE put
Within(i) == (Oldest <= i /\ i < Oldest + Filled) \/ i + BUFFER_SIZE < Oldest + Filled
Ring ==
  /\ Oldest + Filled = End \/ Oldest + Filled = End + BUFFER_SIZE
  /\ \A i \in Slots : item_buffer[i] # NULL <=> Within(i)

\* A filled slot is a unit of is_full, or one between the two semaphores, and
\* an empty slot one of is_empty.
Units ==
  /\ Filled = is_full + Count(Senders, {"step", "post"}) + Count(Consumers, {"lock", "move"})
  /\ BUFFER_SIZE = Filled + is_empty + Count(Senders, {"lock", "move"})
                     + Count(Consumers, {"step", "post"})

\* No assertion fails and no unit is lost: inductive for every step but main's last
\* wait, which needs Stops.
RingInv == TypeOK /\ Exclusive /\ Routes /\ Ring /\ Units

-----------------------------------------------------------------------------
(* Threads and counts.                                                     *)

LEMMA Sizes == /\ BUFFER_SIZE \in Nat /\ BUFFER_SIZE > 0 /\ ITEMS_TO_PRODUCE \in Nat
               /\ ITEMS_TO_PRODUCE > 0 /\ Slots = 0..(BUFFER_SIZE - 1)
               /\ IsFiniteSet(Slots) /\ Cardinality(Slots) = BUFFER_SIZE
<1>1. /\ BUFFER_SIZE \in Nat /\ BUFFER_SIZE > 0 /\ ITEMS_TO_PRODUCE \in Nat
      /\ ITEMS_TO_PRODUCE > 0 /\ Slots = 0..(BUFFER_SIZE - 1)
  BY SizeAssumption DEF Slots
<1> QED
  BY <1>1, FS_Interval

LEMMA Steps == ASSUME NEW i \in Slots PROVE Step(i) \in Slots
BY Sizes DEF Step

LEMMA Groups == /\ Producers \subseteq Threads /\ Producers \subseteq Senders
                /\ Senders \subseteq Threads /\ Consumers \subseteq Threads
                /\ Main \in Threads /\ Main \in Senders
                /\ Main \notin Producers /\ Main \notin Consumers
                /\ \A t \in Consumers : t \notin Senders /\ t \notin Producers
                /\ \A t \in Senders : t \notin Consumers
                /\ \A t \in Senders : t \in Producers \/ t = Main
                /\ IsFiniteSet(Producers) /\ IsFiniteSet(Consumers) /\ IsFiniteSet(Senders)
                /\ IsFiniteSet(Threads)
<1>1. IsFiniteSet(Senders)
  BY ThreadsAssumption, FS_Singleton, FS_Union DEF Senders
<1>2. IsFiniteSet(Threads)
  BY <1>1, ThreadsAssumption, FS_Union DEF Threads
<1> QED
  BY <1>1, <1>2, ThreadsAssumption DEF Senders, Threads

LEMMA GoesTo ==
  ASSUME TypeOK, NEW t \in Threads, NEW l \in Places, pc' = [pc EXCEPT ![t] = l]
  PROVE  /\ pc' \in [Threads -> Places] /\ pc'[t] = l
         /\ \A u \in Threads \ {t} : pc'[u] = pc[u]
BY DEF TypeOK

\* What the step of one thread does to a count.
LEMMA CountMoves ==
  ASSUME NEW S \in SUBSET Threads, NEW places, NEW t \in Threads,
         \A u \in Threads \ {t} : pc'[u] = pc[u]
  PROVE  /\ Count(S, places) \in Nat /\ Count(S, places)' \in Nat
         /\ t \notin S => Count(S, places)' = Count(S, places)
         /\ (pc[t] \in places <=> pc'[t] \in places) => Count(S, places)' = Count(S, places)
         /\ t \in S /\ pc[t] \notin places /\ pc'[t] \in places
              => Count(S, places)' = Count(S, places) + 1
         /\ t \in S /\ pc[t] \in places /\ pc'[t] \notin places
              => Count(S, places)' = Count(S, places) - 1 /\ Count(S, places) > 0
<1>1. IsFiniteSet(S)
  BY Groups, FS_Subset
<1>2. IsFiniteSet(At(S, places)) /\ IsFiniteSet(At(S, places)')
  BY <1>1, FS_Subset DEF At
<1>3. Count(S, places) \in Nat /\ Count(S, places)' \in Nat
  BY <1>2, FS_CardinalityType DEF Count
<1>4. ASSUME t \notin S \/ (pc[t] \in places <=> pc'[t] \in places)
      PROVE  Count(S, places)' = Count(S, places)
  <2>1. At(S, places)' = At(S, places)
    BY <1>4 DEF At
  <2> QED
    BY <2>1 DEF Count
<1>5. ASSUME t \in S, pc[t] \notin places, pc'[t] \in places
      PROVE  Count(S, places)' = Count(S, places) + 1
  <2>1. At(S, places)' = At(S, places) \cup {t} /\ t \notin At(S, places)
    BY <1>5 DEF At
  <2> QED
    BY <1>2, <2>1, FS_AddElement DEF Count
<1>6. ASSUME t \in S, pc[t] \in places, pc'[t] \notin places
      PROVE  Count(S, places)' = Count(S, places) - 1 /\ Count(S, places) > 0
  <2>1. At(S, places)' = At(S, places) \ {t} /\ t \in At(S, places)
    BY <1>6 DEF At
  <2>2. Count(S, places) # 0
    BY <1>2, <2>1, FS_EmptySet DEF Count
  <2> QED
    BY <1>2, <1>3, <2>1, <2>2, FS_RemoveElement DEF Count
<1> QED
  BY <1>3, <1>4, <1>5, <1>6

\* A thread that is there is counted.
LEMMA Counted ==
  ASSUME NEW S \in SUBSET Threads, NEW places
  PROVE  /\ Count(S, places) \in Nat
         /\ Count(S, places) = 0 <=> \A t \in S : pc[t] \notin places
         /\ Count(S, places) <= Cardinality(S)
         /\ Count(S, places) = Cardinality(S) => \A t \in S : pc[t] \in places
<1>1. IsFiniteSet(S)
  BY Groups, FS_Subset
<1>2. /\ At(S, places) \in SUBSET S /\ IsFiniteSet(At(S, places)) /\ Count(S, places) \in Nat
      /\ Count(S, places) <= Cardinality(S)
      /\ Count(S, places) = Cardinality(S) => At(S, places) = S
  <2>1. At(S, places) \in SUBSET S
    BY DEF At
  <2> QED
    BY <1>1, <2>1, FS_Subset, FS_CardinalityType DEF Count
<1>3. Count(S, places) = 0 <=> At(S, places) = {}
  BY <1>2, FS_EmptySet DEF Count
<1> QED
  BY <1>2, <1>3 DEF At

LEMMA FilledNat == /\ IsFiniteSet({i \in Slots : item_buffer[i] # NULL}) /\ Filled \in Nat
                   /\ Filled <= BUFFER_SIZE
<1>1. {i \in Slots : item_buffer[i] # NULL} \in SUBSET Slots
  OBVIOUS
<1> QED
  BY <1>1, Sizes, FS_Subset, FS_CardinalityType DEF Filled

LEMMA Ends ==
  ASSUME TypeOK
  PROVE  /\ Oldest \in Slots /\ End \in Slots
         /\ \A c \in Consumers : pc[c] = "step" => Oldest = Step(get)
         /\ (\A c \in Consumers : pc[c] # "step") => Oldest = get
         /\ \A t \in Senders : pc[t] = "step" => End = Step(put)
         /\ (\A t \in Senders : pc[t] # "step") => End = put
BY Steps DEF TypeOK, Oldest, End, At

-----------------------------------------------------------------------------
(* RingInv, step by step.                                                  *)

LEMMA ExclusiveStays ==
  ASSUME Exclusive, NEW t \in Threads, \A u \in Threads \ {t} : pc'[u] = pc[u],
         mutex' = mutex, pc'[t] \in {"move", "step"} => pc[t] \in {"move", "step"}
  PROVE  Exclusive'
BY DEF Exclusive

\* Nothing happens to the ring.
LEMMA RingStays ==
  ASSUME Ring, item_buffer' = item_buffer, Oldest' = Oldest, End' = End
  PROVE  Ring' /\ Filled' = Filled
BY DEF Ring, Within, Filled

LEMMA EndsStay ==
  ASSUME NEW t \in Threads, \A u \in Threads \ {t} : pc'[u] = pc[u],
         get' = get, put' = put, pc'[t] = "step" <=> pc[t] = "step"
  PROVE  Oldest' = Oldest /\ End' = End
<1>1. At(Senders, {"step"})' = At(Senders, {"step"}) /\ At(Consumers, {"step"})' = At(Consumers, {"step"})
  BY Groups DEF At
<1> QED
  BY <1>1 DEF Oldest, End

LEMMA SendPStep ==
  ASSUME RingInv, NEW t \in Senders, SendP(t) PROVE RingInv' /\ Filled' = Filled /\ Oldest' = Oldest
<1>inv. TypeOK /\ Exclusive /\ Routes /\ Ring /\ Units
  BY DEF RingInv
<1>1. /\ pc[t] = "send" /\ pc'[t] = "lock" /\ \A u \in Threads \ {t} : pc'[u] = pc[u]
      /\ pc' \in [Threads -> Places] /\ is_empty > 0 /\ is_empty' = is_empty - 1
      /\ UNCHANGED <<item_buffer, get, put, is_full, mutex, producer_finished,
                     consumer_finished, to_go, item, check_count, consumed>>
  BY <1>inv, Groups, GoesTo DEF SendP, Go, Places
<1>2. TypeOK'
  BY <1>inv, <1>1 DEF TypeOK
<1>3. Exclusive'
  BY <1>inv, <1>1, Groups, ExclusiveStays
<1>4. Routes'
  BY <1>inv, <1>1, Groups DEF Routes
<1>5. Ring' /\ Filled' = Filled /\ Oldest' = Oldest
  <2>1. Oldest' = Oldest /\ End' = End
    BY <1>1, Groups, EndsStay
  <2> QED
    BY <1>inv, <1>1, <2>1, RingStays
<1>6. Units'
  <2>1. Count(Senders, {"lock", "move"})' = Count(Senders, {"lock", "move"}) + 1
    BY <1>1, Groups, CountMoves
  <2>2. /\ Count(Senders, {"step", "post"})' = Count(Senders, {"step", "post"})
        /\ Count(Consumers, {"lock", "move"})' = Count(Consumers, {"lock", "move"})
        /\ Count(Consumers, {"step", "post"})' = Count(Consumers, {"step", "post"})
    BY <1>1, Groups, CountMoves
  <2>3. Count(Senders, {"lock", "move"}) \in Nat /\ Count(Consumers, {"step", "post"}) \in Nat
    BY <1>1, Groups, CountMoves
  <2>4. is_empty \in Nat /\ Filled \in Nat
    BY <1>inv, FilledNat DEF TypeOK
  <2> QED
    BY <1>inv, <1>1, <1>5, <2>1, <2>2, <2>3, <2>4, Sizes DEF Units
<1> QED
  BY <1>2, <1>3, <1>4, <1>5, <1>6 DEF RingInv

LEMMA ReceivePStep ==
  ASSUME RingInv, NEW t \in Consumers, ReceiveP(t) PROVE RingInv' /\ Filled' = Filled /\ Oldest' = Oldest
<1>inv. TypeOK /\ Exclusive /\ Routes /\ Ring /\ Units
  BY DEF RingInv
<1>1. /\ pc[t] = "send" /\ pc'[t] = "lock" /\ \A u \in Threads \ {t} : pc'[u] = pc[u]
      /\ pc' \in [Threads -> Places] /\ is_full > 0 /\ is_full' = is_full - 1
      /\ UNCHANGED <<item_buffer, get, put, is_empty, mutex, producer_finished,
                     consumer_finished, to_go, item, check_count, consumed>>
  BY <1>inv, Groups, GoesTo DEF ReceiveP, Go, Places
<1>2. TypeOK'
  BY <1>inv, <1>1 DEF TypeOK
<1>3. Exclusive'
  BY <1>inv, <1>1, Groups, ExclusiveStays
<1>4. Routes'
  BY <1>inv, <1>1, Groups DEF Routes
<1>5. Ring' /\ Filled' = Filled /\ Oldest' = Oldest
  <2>1. Oldest' = Oldest /\ End' = End
    BY <1>1, Groups, EndsStay
  <2> QED
    BY <1>inv, <1>1, <2>1, RingStays
<1>6. Units'
  <2>1. Count(Consumers, {"lock", "move"})' = Count(Consumers, {"lock", "move"}) + 1
    BY <1>1, Groups, CountMoves
  <2>2. /\ Count(Senders, {"step", "post"})' = Count(Senders, {"step", "post"})
        /\ Count(Senders, {"lock", "move"})' = Count(Senders, {"lock", "move"})
        /\ Count(Consumers, {"step", "post"})' = Count(Consumers, {"step", "post"})
    BY <1>1, Groups, CountMoves
  <2>3. /\ Count(Senders, {"step", "post"}) \in Nat /\ Count(Consumers, {"lock", "move"}) \in Nat
        /\ is_full \in Nat /\ Filled \in Nat
    BY <1>inv, Groups, Counted, FilledNat DEF TypeOK
  <2> QED
    BY <1>inv, <1>1, <1>5, <2>1, <2>2, <2>3 DEF Units
<1> QED
  BY <1>2, <1>3, <1>4, <1>5, <1>6 DEF RingInv

LEMMA LockStep ==
  ASSUME RingInv, NEW t \in Threads, Lock(t) PROVE RingInv' /\ Filled' = Filled /\ Oldest' = Oldest
<1>inv. TypeOK /\ Exclusive /\ Routes /\ Ring /\ Units
  BY DEF RingInv
<1>1. /\ pc[t] = "lock" /\ pc'[t] = "move" /\ \A u \in Threads \ {t} : pc'[u] = pc[u]
      /\ pc' \in [Threads -> Places] /\ mutex = 1 /\ mutex' = 0
      /\ UNCHANGED <<item_buffer, get, put, is_full, is_empty, producer_finished,
                     consumer_finished, to_go, item, check_count, consumed>>
  <2>1. mutex > 0 /\ mutex' = mutex - 1 /\ (mutex = 0 \/ mutex = 1)
    BY <1>inv DEF Lock, Exclusive
  <2>2. mutex = 1 /\ mutex' = 0
    BY <2>1
  <2> QED
    BY <1>inv, <2>2, GoesTo DEF Lock, Go, Places
<1>2. TypeOK'
  BY <1>inv, <1>1 DEF TypeOK
<1>3. Exclusive'
  BY <1>inv, <1>1 DEF Exclusive
<1>4. Routes'
  BY <1>inv, <1>1, Groups DEF Routes
<1>5. Ring' /\ Filled' = Filled /\ Oldest' = Oldest
  <2>1. Oldest' = Oldest /\ End' = End
    BY <1>1, EndsStay
  <2> QED
    BY <1>inv, <1>1, <2>1, RingStays
<1>6. Units'
  <2>1. /\ Count(Senders, {"step", "post"})' = Count(Senders, {"step", "post"})
        /\ Count(Senders, {"lock", "move"})' = Count(Senders, {"lock", "move"})
        /\ Count(Consumers, {"lock", "move"})' = Count(Consumers, {"lock", "move"})
        /\ Count(Consumers, {"step", "post"})' = Count(Consumers, {"step", "post"})
    BY <1>1, Groups, CountMoves
  <2> QED
    BY <1>inv, <1>1, <1>5, <2>1 DEF Units
<1> QED
  BY <1>2, <1>3, <1>4, <1>5, <1>6 DEF RingInv

\* A sender in the critical section finds an empty slot at put, and a consumer
\* a filled one at get: the semaphores have counted it for them.
LEMMA SlotEmpty ==
  ASSUME RingInv, NEW t \in Senders, pc[t] = "move"
  PROVE  /\ Filled < BUFFER_SIZE /\ End = put /\ Oldest = get /\ item_buffer[put] = NULL
         /\ put \in Slots /\ get \in Slots
         /\ \A u \in Threads \ {t} : pc[u] \notin {"move", "step"}
<1>inv. TypeOK /\ Exclusive /\ Ring /\ Units
  BY DEF RingInv
<1>1. \A u \in Threads \ {t} : pc[u] \notin {"move", "step"}
  BY <1>inv, Groups DEF Exclusive
<1>2. End = put /\ Oldest = get /\ put \in Slots /\ get \in Slots
  <2>1. \A u \in Threads : pc[u] # "step"
    BY <1>1
  <2> QED
    BY <1>inv, <2>1, Groups, Ends DEF TypeOK
<1>3. Filled < BUFFER_SIZE
  <2>1. Count(Senders, {"lock", "move"}) \in Nat /\ Count(Senders, {"lock", "move"}) # 0
    BY Groups, Counted
  <2>2. Count(Consumers, {"step", "post"}) \in Nat /\ is_empty \in Nat /\ Filled \in Nat
    BY <1>inv, Groups, Counted, FilledNat DEF TypeOK
  <2> QED
    BY <1>inv, <2>1, <2>2, Sizes DEF Units
<1>4. ~ Within(put)
  BY <1>inv, <1>2, <1>3, FilledNat, Sizes DEF Ring, Within
<1> QED
  BY <1>inv, <1>1, <1>2, <1>3, <1>4 DEF Ring

LEMMA SlotFull ==
  ASSUME RingInv, NEW t \in Consumers, pc[t] = "move"
  PROVE  /\ Filled > 0 /\ End = put /\ Oldest = get /\ item_buffer[get] # NULL
         /\ put \in Slots /\ get \in Slots
         /\ \A u \in Threads \ {t} : pc[u] \notin {"move", "step"}
<1>inv. TypeOK /\ Exclusive /\ Ring /\ Units
  BY DEF RingInv
<1>1. \A u \in Threads \ {t} : pc[u] \notin {"move", "step"}
  BY <1>inv, Groups DEF Exclusive
<1>2. End = put /\ Oldest = get /\ put \in Slots /\ get \in Slots
  <2>1. \A u \in Threads : pc[u] # "step"
    BY <1>1
  <2> QED
    BY <1>inv, <2>1, Groups, Ends DEF TypeOK
<1>3. Filled > 0
  <2>1. Count(Consumers, {"lock", "move"}) \in Nat /\ Count(Consumers, {"lock", "move"}) # 0
    BY Groups, Counted
  <2>2. Count(Senders, {"step", "post"}) \in Nat /\ is_full \in Nat /\ Filled \in Nat
    BY <1>inv, Groups, Counted, FilledNat DEF TypeOK
  <2> QED
    BY <1>inv, <2>1, <2>2 DEF Units
<1>4. Within(get)
  BY <1>inv, <1>2, <1>3, FilledNat, Sizes DEF Within
<1> QED
  BY <1>inv, <1>1, <1>2, <1>3, <1>4 DEF Ring

LEMMA WriteStep ==
  ASSUME RingInv, NEW t \in Senders, Write(t)
  PROVE  /\ RingInv' /\ Filled' = Filled + 1 /\ Oldest' = Oldest
         /\ Made(t) \in Items /\ Made(t) # NULL
<1>inv. TypeOK /\ Exclusive /\ Routes /\ Ring /\ Units
  BY DEF RingInv
<1>1. /\ pc[t] = "move" /\ pc'[t] = "step" /\ \A u \in Threads \ {t} : pc'[u] = pc[u]
      /\ pc' \in [Threads -> Places]
      /\ item_buffer' = [item_buffer EXCEPT ![put] = Made(t)]
      /\ UNCHANGED <<get, put, is_full, is_empty, mutex, producer_finished,
                     consumer_finished, to_go, item, check_count, consumed>>
  BY <1>inv, Groups, GoesTo DEF Write, Go, Places, sems
<1>2. /\ Filled < BUFFER_SIZE /\ End = put /\ Oldest = get /\ item_buffer[put] = NULL
      /\ put \in Slots /\ get \in Slots
      /\ \A u \in Threads \ {t} : pc[u] \notin {"move", "step"}
  BY <1>1, SlotEmpty
<1>3. Made(t) \in Items /\ Made(t) # NULL
  BY <1>inv, <1>1, Groups, NullAssumption DEF Made, Items, Data, Routes
<1>4. /\ item_buffer' \in [Slots -> Items \cup {NULL}] /\ item_buffer'[put] = Made(t)
      /\ \A i \in Slots \ {put} : item_buffer'[i] = item_buffer[i]
  BY <1>inv, <1>1, <1>2, <1>3 DEF TypeOK
<1>5. TypeOK'
  BY <1>inv, <1>1, <1>4 DEF TypeOK
<1>6. Exclusive'
  BY <1>inv, <1>1, Groups, ExclusiveStays
<1>7. Routes'
  BY <1>inv, <1>1, Groups DEF Routes
<1>8. Filled' = Filled + 1
  <2>1. {i \in Slots : item_buffer'[i] # NULL} = {i \in Slots : item_buffer[i] # NULL} \cup {put}
    BY <1>2, <1>3, <1>4
  <2>2. put \notin {i \in Slots : item_buffer[i] # NULL}
    BY <1>2
  <2> QED
    BY <2>1, <2>2, FilledNat, FS_AddElement DEF Filled
<1>9. End' = Step(put) /\ Oldest' = get
  <2>1. \A u \in Consumers : pc'[u] # "step"
    BY <1>1, <1>2, Groups
  <2> QED
    BY <1>1, <2>1, Groups DEF End, Oldest, At
<1>10. Ring'
  <2>1. Filled \in Nat /\ BUFFER_SIZE \in Nat /\ BUFFER_SIZE > 0 /\ Slots = 0..(BUFFER_SIZE - 1)
    BY FilledNat, Sizes
  <2>2. get + Filled = put \/ get + Filled = put + BUFFER_SIZE
    BY <1>inv, <1>2 DEF Ring
  <2>3. get + Filled' = Step(put) \/ get + Filled' = Step(put) + BUFFER_SIZE
    BY <1>2, <1>8, <2>1, <2>2 DEF Step
  <2>4. ASSUME NEW i \in Slots PROVE item_buffer'[i] # NULL <=> Within(i)'
    <3>1. Within(i)' <=> (get <= i /\ i < get + Filled + 1) \/ i + BUFFER_SIZE < get + Filled + 1
      <4>1. get + (Filled + 1) = get + Filled + 1
        BY <1>2, <2>1
      <4> QED
        BY <1>8, <1>9, <4>1 DEF Within
    <3>2. Within(i) <=> (get <= i /\ i < get + Filled) \/ i + BUFFER_SIZE < get + Filled
      BY <1>2 DEF Within
    <3>3. Within(i)' <=> Within(i) \/ i = put
      BY <1>2, <2>1, <2>2, <3>1, <3>2
    <3> QED
      BY <1>inv, <1>3, <1>4, <3>3 DEF Ring
  <2> QED
    BY <1>9, <2>3, <2>4 DEF Ring
<1>11. Units'
  <2>1. /\ Count(Senders, {"step", "post"})' = Count(Senders, {"step", "post"}) + 1
        /\ Count(Senders, {"step", "post"}) \in Nat
    BY <1>1, Groups, CountMoves
  <2>2. /\ Count(Senders, {"lock", "move"})' = Count(Senders, {"lock", "move"}) - 1
        /\ Count(Senders, {"lock", "move"}) \in Nat /\ Count(Senders, {"lock", "move"}) > 0
    BY <1>1, Groups, CountMoves
  <2>3. /\ Count(Consumers, {"lock", "move"})' = Count(Consumers, {"lock", "move"})
        /\ Count(Consumers, {"step", "post"})' = Count(Consumers, {"step", "post"})
    BY <1>1, Groups, CountMoves
  <2>4. Count(Consumers, {"lock", "move"}) \in Nat /\ Count(Consumers, {"step", "post"}) \in Nat
    BY Groups, Counted
  <2>5. is_full \in Nat /\ is_empty \in Nat /\ Filled \in Nat
    BY <1>inv, FilledNat DEF TypeOK
  <2>6. Filled' = is_full' + Count(Senders, {"step", "post"})' + Count(Consumers, {"lock", "move"})'
    <3>1. Filled = is_full + Count(Senders, {"step", "post"}) + Count(Consumers, {"lock", "move"})
      BY <1>inv DEF Units
    <3> QED
      BY <1>1, <1>8, <2>1, <2>3, <2>4, <2>5, <3>1
  <2>7. BUFFER_SIZE = Filled' + is_empty' + Count(Senders, {"lock", "move"})'
                        + Count(Consumers, {"step", "post"})'
    <3>1. BUFFER_SIZE = Filled + is_empty + Count(Senders, {"lock", "move"})
                          + Count(Consumers, {"step", "post"})
      BY <1>inv DEF Units
    <3> QED
      BY <1>1, <1>8, <2>2, <2>3, <2>4, <2>5, <3>1, Sizes
  <2> QED
    BY <2>6, <2>7 DEF Units
<1> QED
  BY <1>2, <1>3, <1>5, <1>6, <1>7, <1>8, <1>9, <1>10, <1>11 DEF RingInv

LEMMA ReadStep ==
  ASSUME RingInv, NEW t \in Consumers, Read(t)
  PROVE  /\ RingInv' /\ Filled' = Filled - 1 /\ Oldest' = Step(Oldest)
         /\ item_buffer[get] \in Items
<1>inv. TypeOK /\ Exclusive /\ Routes /\ Ring /\ Units
  BY DEF RingInv
<1>1. /\ pc[t] = "move" /\ pc'[t] = "step" /\ \A u \in Threads \ {t} : pc'[u] = pc[u]
      /\ pc' \in [Threads -> Places]
      /\ item_buffer' = [item_buffer EXCEPT ![get] = NULL]
      /\ item' = [item EXCEPT ![t] = item_buffer[get]]
      /\ UNCHANGED <<get, put, is_full, is_empty, mutex, producer_finished,
                     consumer_finished, to_go, check_count, consumed>>
  BY <1>inv, Groups, GoesTo DEF Read, Go, Places, sems
<1>2. /\ Filled > 0 /\ End = put /\ Oldest = get /\ item_buffer[get] # NULL
      /\ put \in Slots /\ get \in Slots
      /\ \A u \in Threads \ {t} : pc[u] \notin {"move", "step"}
  BY <1>1, SlotFull
<1>3. item_buffer[get] \in Items
  BY <1>inv, <1>2 DEF TypeOK
<1>4. /\ item_buffer' \in [Slots -> Items \cup {NULL}] /\ item_buffer'[get] = NULL
      /\ \A i \in Slots \ {get} : item_buffer'[i] = item_buffer[i]
      /\ item' \in [Consumers -> Items \cup {NULL}] /\ item'[t] = item_buffer[get]
      /\ \A u \in Consumers \ {t} : item'[u] = item[u]
  BY <1>inv, <1>1, <1>2, <1>3 DEF TypeOK
<1>5. TypeOK'
  BY <1>inv, <1>1, <1>4 DEF TypeOK
<1>6. Exclusive'
  BY <1>inv, <1>1, Groups, ExclusiveStays
<1>7. Routes'
  BY <1>inv, <1>1, <1>2, <1>4, Groups DEF Routes
<1>8. Filled' = Filled - 1
  <2>1. {i \in Slots : item_buffer'[i] # NULL} = {i \in Slots : item_buffer[i] # NULL} \ {get}
    BY <1>2, <1>4
  <2>2. get \in {i \in Slots : item_buffer[i] # NULL}
    BY <1>2
  <2> QED
    BY <2>1, <2>2, FilledNat, FS_RemoveElement DEF Filled
<1>9. End' = put /\ Oldest' = Step(get)
  <2>1. \A u \in Senders : pc'[u] # "step"
    BY <1>1, <1>2, Groups
  <2> QED
    BY <1>1, <2>1, Groups DEF End, Oldest, At
<1>10. Ring'
  <2>1. /\ Filled \in Nat /\ Filled <= BUFFER_SIZE /\ BUFFER_SIZE \in Nat /\ BUFFER_SIZE > 0
        /\ Slots = 0..(BUFFER_SIZE - 1)
    BY FilledNat, Sizes
  <2>2. get + Filled = put \/ get + Filled = put + BUFFER_SIZE
    BY <1>inv, <1>2 DEF Ring
  <2>3. Step(get) + Filled' = put \/ Step(get) + Filled' = put + BUFFER_SIZE
    BY <1>2, <1>8, <2>1, <2>2 DEF Step
  <2>4. ASSUME NEW i \in Slots PROVE item_buffer'[i] # NULL <=> Within(i)'
    <3>1. Within(i)' <=> \/ Step(get) <= i /\ i < Step(get) + Filled - 1
                         \/ i + BUFFER_SIZE < Step(get) + Filled - 1
      <4>1. Step(get) + (Filled - 1) = Step(get) + Filled - 1
        BY <1>2, <2>1, Steps
      <4> QED
        BY <1>8, <1>9, <4>1 DEF Within
    <3>2. Within(i) <=> (get <= i /\ i < get + Filled) \/ i + BUFFER_SIZE < get + Filled
      BY <1>2 DEF Within
    <3>3. Within(i)' <=> Within(i) /\ i # get
      BY <1>2, <2>1, <2>2, <3>1, <3>2 DEF Step
    <3> QED
      BY <1>inv, <1>4, <3>3 DEF Ring
  <2> QED
    BY <1>9, <2>3, <2>4 DEF Ring
<1>11. Units'
  <2>1. /\ Count(Consumers, {"step", "post"})' = Count(Consumers, {"step", "post"}) + 1
        /\ Count(Consumers, {"step", "post"}) \in Nat
    BY <1>1, Groups, CountMoves
  <2>2. /\ Count(Consumers, {"lock", "move"})' = Count(Consumers, {"lock", "move"}) - 1
        /\ Count(Consumers, {"lock", "move"}) \in Nat /\ Count(Consumers, {"lock", "move"}) > 0
    BY <1>1, Groups, CountMoves
  <2>3. /\ Count(Senders, {"lock", "move"})' = Count(Senders, {"lock", "move"})
        /\ Count(Senders, {"step", "post"})' = Count(Senders, {"step", "post"})
    BY <1>1, Groups, CountMoves
  <2>4. Count(Senders, {"lock", "move"}) \in Nat /\ Count(Senders, {"step", "post"}) \in Nat
    BY Groups, Counted
  <2>5. is_full \in Nat /\ is_empty \in Nat /\ Filled \in Nat
    BY <1>inv, FilledNat DEF TypeOK
  <2>6. Filled' = is_full' + Count(Senders, {"step", "post"})' + Count(Consumers, {"lock", "move"})'
    <3>1. Filled = is_full + Count(Senders, {"step", "post"}) + Count(Consumers, {"lock", "move"})
      BY <1>inv DEF Units
    <3> QED
      BY <1>1, <1>8, <2>2, <2>3, <2>4, <2>5, <3>1
  <2>7. BUFFER_SIZE = Filled' + is_empty' + Count(Senders, {"lock", "move"})'
                        + Count(Consumers, {"step", "post"})'
    <3>1. BUFFER_SIZE = Filled + is_empty + Count(Senders, {"lock", "move"})
                          + Count(Consumers, {"step", "post"})
      BY <1>inv DEF Units
    <3> QED
      BY <1>1, <1>8, <2>1, <2>3, <2>4, <2>5, <3>1, Sizes
  <2> QED
    BY <2>6, <2>7 DEF Units
<1> QED
  BY <1>2, <1>3, <1>5, <1>6, <1>7, <1>8, <1>9, <1>10, <1>11 DEF RingInv

LEMMA UnitsStay ==
  ASSUME Units, NEW t \in Threads, \A u \in Threads \ {t} : pc'[u] = pc[u],
         Filled' = Filled, is_full' = is_full, is_empty' = is_empty,
         pc[t] \in {"lock", "move"} <=> pc'[t] \in {"lock", "move"},
         pc[t] \in {"step", "post"} <=> pc'[t] \in {"step", "post"}
  PROVE  Units'
<1>1. /\ Count(Senders, {"step", "post"})' = Count(Senders, {"step", "post"})
      /\ Count(Senders, {"lock", "move"})' = Count(Senders, {"lock", "move"})
      /\ Count(Consumers, {"lock", "move"})' = Count(Consumers, {"lock", "move"})
      /\ Count(Consumers, {"step", "post"})' = Count(Consumers, {"step", "post"})
  BY Groups, CountMoves
<1> QED
  BY <1>1 DEF Units

LEMMA StepPutStep ==
  ASSUME RingInv, NEW t \in Senders, StepPut(t)
  PROVE  RingInv' /\ Filled' = Filled /\ Oldest' = Oldest
<1>inv. TypeOK /\ Exclusive /\ Routes /\ Ring /\ Units
  BY DEF RingInv
<1>1. /\ pc[t] = "step" /\ pc'[t] = "post" /\ \A u \in Threads \ {t} : pc'[u] = pc[u]
      /\ pc' \in [Threads -> Places] /\ put' = Step(put) /\ mutex' = mutex + 1
      /\ UNCHANGED <<item_buffer, get, is_full, is_empty, producer_finished,
                     consumer_finished, to_go, item, check_count, consumed>>
  BY <1>inv, Groups, GoesTo DEF StepPut, Go, Places
<1>2. mutex = 0 /\ mutex' = 1 /\ \A u \in Threads \ {t} : pc[u] \notin {"move", "step"}
  BY <1>inv, <1>1, Groups DEF Exclusive
<1>3. TypeOK'
  BY <1>inv, <1>1, <1>2, Steps DEF TypeOK
<1>4. Exclusive'
  BY <1>1, <1>2 DEF Exclusive
<1>5. Routes'
  BY <1>inv, <1>1, Groups DEF Routes
<1>6. Oldest' = Oldest /\ End' = End
  <2>1. At(Consumers, {"step"})' = At(Consumers, {"step"})
    BY <1>1, Groups DEF At
  <2>2. \A u \in Senders : pc'[u] # "step"
    BY <1>1, <1>2, Groups
  <2>3. End' = put'
    BY <2>2, Groups DEF End, At
  <2>4. End = Step(put)
    BY <1>1, <1>inv, Ends
  <2> QED
    BY <1>1, <2>1, <2>3, <2>4 DEF Oldest
<1>7. Ring' /\ Filled' = Filled
  BY <1>inv, <1>1, <1>6, RingStays
<1>8. Units'
  BY <1>inv, <1>1, <1>7, Groups, UnitsStay
<1> QED
  BY <1>3, <1>4, <1>5, <1>6, <1>7, <1>8 DEF RingInv

LEMMA StepGetStep ==
  ASSUME RingInv, NEW t \in Consumers, StepGet(t)
  PROVE  RingInv' /\ Filled' = Filled /\ Oldest' = Oldest
<1>inv. TypeOK /\ Exclusive /\ Routes /\ Ring /\ Units
  BY DEF RingInv
<1>1. /\ pc[t] = "step" /\ pc'[t] = "post" /\ \A u \in Threads \ {t} : pc'[u] = pc[u]
      /\ pc' \in [Threads -> Places] /\ get' = Step(get) /\ mutex' = mutex + 1
      /\ UNCHANGED <<item_buffer, put, is_full, is_empty, producer_finished,
                     consumer_finished, to_go, item, check_count, consumed>>
  BY <1>inv, Groups, GoesTo DEF StepGet, Go, Places
<1>2. mutex = 0 /\ mutex' = 1 /\ \A u \in Threads \ {t} : pc[u] \notin {"move", "step"}
  BY <1>inv, <1>1, Groups DEF Exclusive
<1>3. TypeOK'
  BY <1>inv, <1>1, <1>2, Steps DEF TypeOK
<1>4. Exclusive'
  BY <1>1, <1>2 DEF Exclusive
<1>5. Routes'
  BY <1>inv, <1>1, Groups DEF Routes
<1>6. Oldest' = Oldest /\ End' = End
  <2>1. At(Senders, {"step"})' = At(Senders, {"step"})
    BY <1>1, Groups DEF At
  <2>2. \A u \in Consumers : pc'[u] # "step"
    BY <1>1, <1>2, Groups
  <2>3. Oldest' = get'
    BY <2>2, Groups DEF Oldest, At
  <2>4. Oldest = Step(get)
    BY <1>1, <1>inv, Ends
  <2> QED
    BY <1>1, <2>1, <2>3, <2>4 DEF End
<1>7. Ring' /\ Filled' = Filled
  BY <1>inv, <1>1, <1>6, RingStays
<1>8. Units'
  BY <1>inv, <1>1, <1>7, Groups, UnitsStay
<1> QED
  BY <1>3, <1>4, <1>5, <1>6, <1>7, <1>8 DEF RingInv

LEMMA SentStep ==
  ASSUME RingInv, NEW t \in Senders, Sent(t)
  PROVE  RingInv' /\ Filled' = Filled /\ Oldest' = Oldest
<1>inv. TypeOK /\ Exclusive /\ Routes /\ Ring /\ Units
  BY DEF RingInv
<1>1. /\ pc[t] = "post" /\ pc'[t] \in {"send", "stop", "finish"}
      /\ \A u \in Threads \ {t} : pc'[u] = pc[u]
      /\ pc' \in [Threads -> Places] /\ is_full' = is_full + 1
      /\ UNCHANGED <<item_buffer, get, put, is_empty, mutex, producer_finished,
                     consumer_finished, item, check_count, consumed>>
  BY <1>inv, Groups, GoesTo DEF Sent, PostFull, Places
<1>2. /\ to_go' \in [Senders -> Nat] /\ \A u \in Senders \ {t} : to_go'[u] = to_go[u]
      /\ t \in Producers => /\ to_go'[t] = to_go[t] - 1
                            /\ pc'[t] = IF to_go[t] > 1 THEN "send" ELSE "finish"
      /\ t = Main => pc'[t] # "finish"
  <2>1. to_go[t] \in Nat /\ Cardinality(Consumers) \in Nat
    BY <1>inv, Groups, FS_CardinalityType DEF TypeOK
  <2>2. t \in Producers => to_go[t] \in 1..ITEMS_TO_PRODUCE /\ t # Main
    BY <1>inv, <1>1, Groups DEF Routes
  <2>3. CASE to_go[t] > 1
    BY <1>inv, <2>1, <2>2, <2>3, Groups DEF Sent, TypeOK
  <2>4. CASE ~ (to_go[t] > 1)
    BY <1>inv, <2>1, <2>2, <2>4, Groups, Sizes DEF Sent, TypeOK
  <2> QED
    BY <2>3, <2>4
<1>3. TypeOK'
  BY <1>inv, <1>1, <1>2 DEF TypeOK
<1>4. Exclusive'
  BY <1>inv, <1>1, Groups, ExclusiveStays
<1>5. Routes'
  <2>1. \A p \in Producers : /\ pc'[p] \notin {"join", "stop"}
                             /\ pc'[p] \in {"finish", "done"} => to_go'[p] = 0
                             /\ pc'[p] \notin {"finish", "done"} => to_go'[p] \in 1..ITEMS_TO_PRODUCE
    <3> SUFFICES ASSUME NEW p \in Producers
                 PROVE  /\ pc'[p] \notin {"join", "stop"}
                        /\ pc'[p] \in {"finish", "done"} => to_go'[p] = 0
                        /\ pc'[p] \notin {"finish", "done"} => to_go'[p] \in 1..ITEMS_TO_PRODUCE
      OBVIOUS
    <3>1. CASE p = t
      BY <1>inv, <1>1, <1>2, <3>1, Sizes DEF Routes
    <3>2. CASE p # t
      BY <1>inv, <1>1, <1>2, <3>2, Groups DEF Routes
    <3> QED
      BY <3>1, <3>2
  <2> QED
    BY <1>inv, <1>1, <1>2, <2>1, Groups DEF Routes
<1>6. Oldest' = Oldest /\ End' = End
  BY <1>1, Groups, EndsStay
<1>7. Ring' /\ Filled' = Filled
  BY <1>inv, <1>1, <1>6, RingStays
<1>8. Units'
  <2>1. /\ Count(Senders, {"step", "post"})' = Count(Senders, {"step", "post"}) - 1
        /\ Count(Senders, {"step", "post"}) \in Nat /\ Count(Senders, {"step", "post"}) > 0
    BY <1>1, Groups, CountMoves
  <2>2. /\ Count(Senders, {"lock", "move"})' = Count(Senders, {"lock", "move"})
        /\ Count(Consumers, {"lock", "move"})' = Count(Consumers, {"lock", "move"})
        /\ Count(Consumers, {"step", "post"})' = Count(Consumers, {"step", "post"})
    BY <1>1, Groups, CountMoves
  <2>3. Count(Consumers, {"lock", "move"}) \in Nat
    BY Groups, Counted
  <2>4. is_full \in Nat /\ Filled \in Nat
    BY <1>inv, FilledNat DEF TypeOK
  <2> QED
    BY <1>inv, <1>1, <1>7, <2>1, <2>2, <2>3, <2>4 DEF Units
<1> QED
  BY <1>3, <1>4, <1>5, <1>6, <1>7, <1>8 DEF RingInv

LEMMA ReceivedStep ==
  ASSUME RingInv, NEW t \in Consumers, Received(t)
  PROVE  RingInv' /\ Filled' = Filled /\ Oldest' = Oldest /\ item[t] \in Items
<1>inv. TypeOK /\ Exclusive /\ Routes /\ Ring /\ Units
  BY DEF RingInv
<1>0. pc[t] = "post" /\ item[t] \in Items
  BY <1>inv DEF Received, Routes, TypeOK
<1>1. /\ pc'[t] \in {"send", "finish"} /\ \A u \in Threads \ {t} : pc'[u] = pc[u]
      /\ pc' \in [Threads -> Places] /\ is_empty' = is_empty + 1
      /\ item'[t] = NULL /\ \A u \in Consumers \ {t} : item'[u] = item[u]
      /\ item' \in [Consumers -> Items \cup {NULL}]
      /\ UNCHANGED <<item_buffer, get, put, is_full, mutex, producer_finished,
                     consumer_finished, to_go>>
  <2>1. PICK l \in {"send", "finish"} : pc' = [pc EXCEPT ![t] = l]
    BY DEF Received
  <2>2. /\ pc'[t] = l /\ \A u \in Threads \ {t} : pc'[u] = pc[u]
        /\ pc' \in [Threads -> Places]
    <3>1. l \in Places
      BY <2>1 DEF Places
    <3> QED
      BY <1>inv, <2>1, <3>1, Groups, GoesTo
  <2>3. /\ item'[t] = NULL /\ \A u \in Consumers \ {t} : item'[u] = item[u]
        /\ item' \in [Consumers -> Items \cup {NULL}]
    BY <1>inv DEF Received, TypeOK
  <2>4. /\ is_empty' = is_empty + 1
        /\ UNCHANGED <<item_buffer, get, put, is_full, mutex, producer_finished,
                       consumer_finished, to_go>>
    BY DEF Received, PostEmpty
  <2> QED
    BY <2>2, <2>3, <2>4
<1>2. consumed' \in [Items -> Nat] /\ check_count' \in [Consumers -> Nat]
  BY <1>inv, <1>0 DEF Received, TypeOK
<1>3. TypeOK'
  BY <1>inv, <1>1, <1>2 DEF TypeOK
<1>4. Exclusive'
  BY <1>inv, <1>0, <1>1, Groups, ExclusiveStays
<1>5. Routes'
  BY <1>inv, <1>0, <1>1, Groups DEF Routes
<1>6. Oldest' = Oldest /\ End' = End
  BY <1>0, <1>1, Groups, EndsStay
<1>7. Ring' /\ Filled' = Filled
  BY <1>inv, <1>1, <1>6, RingStays
<1>8. Units'
  <2>1. /\ Count(Consumers, {"step", "post"})' = Count(Consumers, {"step", "post"}) - 1
        /\ Count(Consumers, {"step", "post"}) \in Nat /\ Count(Consumers, {"step", "post"}) > 0
    BY <1>0, <1>1, Groups, CountMoves
  <2>2. /\ Count(Senders, {"lock", "move"})' = Count(Senders, {"lock", "move"})
        /\ Count(Consumers, {"lock", "move"})' = Count(Consumers, {"lock", "move"})
        /\ Count(Senders, {"step", "post"})' = Count(Senders, {"step", "post"})
    BY <1>0, <1>1, Groups, CountMoves
  <2>3. Count(Senders, {"lock", "move"}) \in Nat
    BY Groups, Counted
  <2>4. is_empty \in Nat /\ Filled \in Nat
    BY <1>inv, FilledNat DEF TypeOK
  <2> QED
    BY <1>inv, <1>1, <1>7, <2>1, <2>2, <2>3, <2>4, Sizes DEF Units
<1> QED
  BY <1>0, <1>3, <1>4, <1>5, <1>6, <1>7, <1>8 DEF RingInv

\* The steps that leave the ring alone: the ends of threads, and main's waits.
LEMMA OtherStep ==
  ASSUME RingInv, NEW t \in Threads,
         \/ t \in Producers /\ ProducerFinish(t)
         \/ t \in Consumers /\ ConsumerFinish(t)
         \/ t = Main /\ (Join \/ (to_go[Main] > 0 /\ Stop))
  PROVE  RingInv' /\ Filled' = Filled /\ Oldest' = Oldest
<1>inv. TypeOK /\ Exclusive /\ Routes /\ Ring /\ Units
  BY DEF RingInv
<1>1. /\ pc[t] \in {"finish", "join", "stop"} /\ pc'[t] \in {"done", "join", "stop", "send"}
      /\ \A u \in Threads \ {t} : pc'[u] = pc[u]
      /\ pc' \in [Threads -> Places]
      /\ UNCHANGED <<item_buffer, get, put, is_full, is_empty, mutex, item, check_count, consumed>>
      /\ t # Main => pc[t] = "finish" /\ pc'[t] = "done" /\ to_go' = to_go
  <2>1. CASE t \in Producers /\ ProducerFinish(t)
    BY <1>inv, <2>1, Groups, GoesTo DEF ProducerFinish, Go, Places
  <2>2. CASE t \in Consumers /\ ConsumerFinish(t)
    BY <1>inv, <2>2, Groups, GoesTo DEF ConsumerFinish, Go, Places
  <2>3. CASE t = Main /\ Join
    BY <1>inv, <2>3, Groups, GoesTo DEF Join, Places, TypeOK
  <2>4. CASE t = Main /\ Stop
    BY <1>inv, <2>4, Groups, GoesTo DEF Stop, Places, TypeOK
  <2> QED
    BY <2>1, <2>2, <2>3, <2>4
<1>2. /\ producer_finished' \in Nat /\ consumer_finished' \in Nat
      /\ to_go' \in [Senders -> Nat] /\ \A p \in Producers : to_go'[p] = to_go[p]
  <2>1. CASE t \in Producers /\ ProducerFinish(t)
    BY <1>inv, <2>1 DEF ProducerFinish, TypeOK
  <2>2. CASE t \in Consumers /\ ConsumerFinish(t)
    BY <1>inv, <2>2 DEF ConsumerFinish, TypeOK
  <2>3. CASE t = Main /\ Join
    <3>1. Cardinality(Consumers) \in Nat /\ to_go[Main] \in Nat
      BY <1>inv, Groups, FS_CardinalityType DEF TypeOK
    <3>2. producer_finished' \in Nat /\ consumer_finished' \in Nat
      BY <1>inv, <2>3 DEF Join, TypeOK
    <3>3. to_go' \in [Senders -> Nat] /\ \A p \in Producers : to_go'[p] = to_go[p]
      <4>1. CASE to_go[Main] > 1
        BY <1>inv, <2>3, <3>1, <4>1, Groups DEF Join, TypeOK
      <4>2. CASE ~ (to_go[Main] > 1)
        BY <1>inv, <2>3, <3>1, <4>2, Groups DEF Join, TypeOK
      <4> QED
        BY <4>1, <4>2
    <3> QED
      BY <3>2, <3>3
  <2>4. CASE t = Main /\ to_go[Main] > 0 /\ Stop
    BY <1>inv, <2>4, Groups DEF Stop, TypeOK
  <2> QED
    BY <2>1, <2>2, <2>3, <2>4
<1>3. TypeOK'
  BY <1>inv, <1>1, <1>2 DEF TypeOK
<1>4. Exclusive'
  BY <1>inv, <1>1, ExclusiveStays
<1>5. Routes'
  BY <1>inv, <1>1, <1>2, Groups DEF Routes
<1>6. Oldest' = Oldest /\ End' = End
  BY <1>1, EndsStay
<1>7. Ring' /\ Filled' = Filled
  BY <1>inv, <1>1, <1>6, RingStays
<1>8. Units'
  BY <1>inv, <1>1, <1>7, UnitsStay
<1> QED
  BY <1>3, <1>4, <1>5, <1>6, <1>7, <1>8 DEF RingInv

LEMMA RingInit == ASSUME Init PROVE RingInv /\ Filled = 0 /\ \A i \in Slots : item_buffer[i] = NULL
<1>1. /\ item_buffer = [i \in Slots |-> NULL] /\ get = 0 /\ put = 0 /\ is_full = 0
      /\ is_empty = BUFFER_SIZE /\ mutex = 1 /\ producer_finished = 0 /\ consumer_finished = 0
      /\ item = [c \in Consumers |-> NULL]
  BY DEF Init
<1>2. \A t \in Threads : pc[t] = IF t = Main THEN "join" ELSE "send"
  BY DEF Init
<1>3. \A t \in Senders : to_go[t] = IF t = Main THEN Cardinality(Producers) ELSE ITEMS_TO_PRODUCE
  BY DEF Init
<1>4. Cardinality(Producers) \in Nat /\ 0 \in Slots
  BY Groups, Sizes, FS_CardinalityType
<1>5. TypeOK
  <2>1. pc \in [Threads -> Places]
    BY DEF Init, Places
  <2>2. to_go \in [Senders -> Nat]
    BY <1>4, Sizes DEF Init
  <2>3. check_count \in [Consumers -> Nat] /\ consumed \in [Items -> Nat]
    BY DEF Init
  <2> QED
    BY <1>1, <1>4, <2>1, <2>2, <2>3, Sizes DEF TypeOK
<1>6. Exclusive
  BY <1>1, <1>2 DEF Exclusive
<1>7. Routes
  BY <1>1, <1>2, <1>3, Groups, Sizes DEF Routes
<1>8. Filled = 0 /\ \A i \in Slots : item_buffer[i] = NULL
  <2>1. {i \in Slots : item_buffer[i] # NULL} = {}
    BY <1>1
  <2> QED
    BY <1>1, <2>1, FS_EmptySet DEF Filled
<1>9. Oldest = 0 /\ End = 0
  <2>1. \A t \in Threads : pc[t] # "step"
    BY <1>2
  <2> QED
    BY <1>1, <1>5, <2>1, Groups, Ends
<1>10. Ring
  <2>1. \A i \in Slots : ~ Within(i)
    BY <1>8, <1>9, Sizes DEF Within
  <2> QED
    BY <1>8, <1>9, <2>1 DEF Ring
<1>11. Units
  <2>1. \A t \in Threads : pc[t] \notin {"step", "post"} /\ pc[t] \notin {"lock", "move"}
    BY <1>2
  <2>2. /\ Count(Senders, {"step", "post"}) = 0 /\ Count(Consumers, {"lock", "move"}) = 0
        /\ Count(Senders, {"lock", "move"}) = 0 /\ Count(Consumers, {"step", "post"}) = 0
    BY <2>1, Groups, Counted
  <2> QED
    BY <1>1, <1>8, <2>2, Sizes DEF Units
<1> QED
  BY <1>5, <1>6, <1>7, <1>8, <1>10, <1>11 DEF RingInv

LEMMA RingStutters ==
  ASSUME RingInv, UNCHANGED vars PROVE RingInv' /\ Filled' = Filled /\ Oldest' = Oldest
<1>1. /\ UNCHANGED <<item_buffer, get, put, is_full, is_empty, mutex, producer_finished>>
      /\ UNCHANGED <<consumer_finished, pc, to_go, item, check_count, consumed>>
  BY DEF vars
<1>2. Filled' = Filled /\ Oldest' = Oldest
  BY <1>1 DEF Filled, Oldest, At
<1> QED
  BY <1>1, <1>2 DEF RingInv, TypeOK, Exclusive, Routes, Ring, Within, End, Units, Count, At

\* The sum of the four counts of Units: nobody is counted twice.
LEMMA UnitsAddUp == ASSUME RingInv PROVE UnitsConserved
<1>inv. TypeOK /\ Units
  BY DEF RingInv
<1> DEFINE All == {"lock", "move", "step", "post"}
           SL == At(Senders, {"lock", "move"})
           SS == At(Senders, {"step", "post"})
           CL == At(Consumers, {"lock", "move"})
           CS == At(Consumers, {"step", "post"})
<1>1. IsFiniteSet(SL) /\ IsFiniteSet(SS) /\ IsFiniteSet(CL) /\ IsFiniteSet(CS)
  BY Groups, FS_Subset DEF At
<1>2. At(Threads, All) = (SL \cup SS) \cup (CL \cup CS)
  BY Groups DEF At, Threads
<1>3. SL \cap SS = {} /\ CL \cap CS = {} /\ (SL \cup SS) \cap (CL \cup CS) = {}
  BY Groups DEF At
<1>4. Cardinality({}) = 0
  BY FS_EmptySet
<1>5. /\ IsFiniteSet(SL \cup SS)
      /\ Cardinality(SL \cup SS) = Cardinality(SL) + Cardinality(SS) - Cardinality(SL \cap SS)
  BY <1>1, FS_Union
<1>6. /\ IsFiniteSet(CL \cup CS)
      /\ Cardinality(CL \cup CS) = Cardinality(CL) + Cardinality(CS) - Cardinality(CL \cap CS)
  BY <1>1, FS_Union
<1>7. Cardinality((SL \cup SS) \cup (CL \cup CS))
        = Cardinality(SL \cup SS) + Cardinality(CL \cup CS)
          - Cardinality((SL \cup SS) \cap (CL \cup CS))
  BY <1>5, <1>6, FS_Union
<1>8. /\ Cardinality(SL) \in Nat /\ Cardinality(SS) \in Nat
      /\ Cardinality(CL) \in Nat /\ Cardinality(CS) \in Nat
  BY <1>1, FS_CardinalityType
<1> HIDE DEF SL, SS, CL, CS
<1>9. Cardinality(At(Threads, All))
        = Cardinality(SL) + Cardinality(SS) + Cardinality(CL) + Cardinality(CS)
  <2>1. /\ Cardinality(SL \cap SS) = 0 /\ Cardinality(CL \cap CS) = 0
        /\ Cardinality((SL \cup SS) \cap (CL \cup CS)) = 0
    BY <1>3, <1>4
  <2>2. Cardinality(SL \cup SS) = Cardinality(SL) + Cardinality(SS)
    BY <1>5, <1>8, <2>1
  <2>3. Cardinality(CL \cup CS) = Cardinality(CL) + Cardinality(CS)
    BY <1>6, <1>8, <2>1
  <2>4. Cardinality((SL \cup SS) \cup (CL \cup CS))
          = Cardinality(SL) + Cardinality(SS) + Cardinality(CL) + Cardinality(CS)
    BY <1>7, <1>8, <2>1, <2>2, <2>3
  <2> QED
    BY <1>2, <2>4
<1>10. /\ Filled = is_full + Cardinality(SS) + Cardinality(CL)
       /\ BUFFER_SIZE = Filled + is_empty + Cardinality(SL) + Cardinality(CS)
  BY <1>inv DEF Units, Count, SL, SS, CL, CS
<1>11. is_full \in Nat /\ is_empty \in Nat /\ Filled \in Nat /\ BUFFER_SIZE \in Nat
  BY <1>inv, FilledNat, Sizes DEF TypeOK
<1>12. BUFFER_SIZE = is_empty + is_full + Cardinality(At(Threads, All))
  BY <1>8, <1>9, <1>10, <1>11
<1> QED
  BY <1>12 DEF UnitsConserved

LEMMA NoKassertInRing == ASSUME RingInv PROVE NoKassertFails
<1>1. \A t \in Senders : pc[t] = "move" => item_buffer[put] = NULL
  BY SlotEmpty
<1>2. \A c \in Consumers : pc[c] \in {"step", "post"} => item[c] # NULL
  BY DEF RingInv, Routes
<1> QED
  BY <1>1, <1>2 DEF NoKassertFails, At

-----------------------------------------------------------------------------
(* The items and the end of the simulation.                                *)

InSlots(x) == {i \in Slots : item_buffer[i] = x}
InHands(x) == {c \in Consumers : item[c] = x}

\* Producer p has put its item k into the ring.
Produced(p, k) == k > to_go[p] \/ (k = to_go[p] /\ pc[p] \in {"step", "post"})

\* An item is in one place once it has been produced, and nowhere before.
Tally(x) == consumed[x] + Cardinality(InSlots(x)) + Cardinality(InHands(x))
Once == \A p \in Producers, k \in 1..ITEMS_TO_PRODUCE :
          Tally(<<p, k>>) = IF Produced(p, k) THEN 1 ELSE 0

\* No consumer counts more items than have been consumed.
Dealt == {x \in Data : consumed[x] # 0}
Checks == \A c \in Consumers : check_count[c] <= Cardinality(Dealt)

\* The consumers that have met a (0,0) item; those and the (0,0) items in the
\* ring are what main has sent.
Ending == {c \in Consumers : item[c] = Poison \/ pc[c] \in {"finish", "done"}}
Poisoned == Cardinality(InSlots(Poison)) + Cardinality(Ending)
Poisons ==
  /\ pc[Main] = "join" => Poisoned = 0
  /\ Consumers # {} =>
       /\ pc[Main] \in {"send", "lock", "move", "step", "post"} => to_go[Main] > 0
       /\ pc[Main] \in {"send", "lock", "move"} => Poisoned + to_go[Main] = Cardinality(Consumers)
       /\ pc[Main] \in {"step", "post"} => Poisoned + to_go[Main] = Cardinality(Consumers) + 1
       /\ pc[Main] \in {"stop", "done"} => Poisoned = Cardinality(Consumers)

\* (0,0) items come last: behind one there is no other item, and once a consumer
\* has met one no other item is left.
Rank(i) == IF i >= Oldest THEN i - Oldest ELSE i - Oldest + BUFFER_SIZE
Last ==
  /\ \A i, j \in Slots : item_buffer[i] = Poison /\ item_buffer[j] # NULL /\ Rank(i) < Rank(j)
       => item_buffer[j] = Poison
  /\ Ending # {} => \A i \in Slots : item_buffer[i] \in {NULL, Poison}

\* What main still waits for is posted or will be.
Going == {"send", "lock", "move", "step", "post", "finish", "join", "stop"}
Joins ==
  /\ pc[Main] = "join" => to_go[Main] = producer_finished + Count(Producers, Going)
  /\ pc[Main] # "join" => \A p \in Producers : pc[p] = "done"
Stops ==
  /\ pc[Main] = "stop" => to_go[Main] = consumer_finished + Count(Consumers, Going)
  /\ pc[Main] \notin {"stop", "done"}
       => Cardinality(Consumers) = consumer_finished + Count(Consumers, Going)
  /\ pc[Main] = "done" => Consumers # {} /\ \A c \in Consumers : pc[c] = "done"
  /\ Consumers = {} => consumer_finished = 0

\* Inductive, with RingInv.
EndInv == Once /\ Checks /\ Poisons /\ Last /\ Joins /\ Stops

LEMMA Tallies ==
  ASSUME TypeOK, NEW x \in Items
  PROVE  /\ consumed[x] \in Nat
         /\ IsFiniteSet(InSlots(x)) /\ Cardinality(InSlots(x)) \in Nat
         /\ IsFiniteSet(InHands(x)) /\ Cardinality(InHands(x)) \in Nat
         /\ Cardinality(InSlots(x)) = 0 <=> InSlots(x) = {}
         /\ Cardinality(InHands(x)) = 0 <=> InHands(x) = {}
         /\ Tally(x) \in Nat
<1>1. IsFiniteSet(InSlots(x)) /\ IsFiniteSet(InHands(x))
  BY Sizes, Groups, FS_Subset DEF InSlots, InHands
<1>2. consumed[x] \in Nat
  BY DEF TypeOK
<1>3. Cardinality(InSlots(x)) \in Nat /\ Cardinality(InHands(x)) \in Nat
  BY <1>1, FS_CardinalityType
<1>4. /\ Cardinality(InSlots(x)) = 0 <=> InSlots(x) = {}
      /\ Cardinality(InHands(x)) = 0 <=> InHands(x) = {}
  BY <1>1, FS_EmptySet
<1> QED
  BY <1>1, <1>2, <1>3, <1>4 DEF Tally

LEMMA EndingCounted ==
  /\ IsFiniteSet(Ending) /\ Cardinality(Ending) \in Nat
  /\ Cardinality(Ending) = 0 <=> Ending = {}
<1>1. IsFiniteSet(Ending)
  BY Groups, FS_Subset DEF Ending
<1> QED
  BY <1>1, FS_CardinalityType, FS_EmptySet

\* The items are at most as many as the code's checks allow.
LEMMA DataSize ==
  /\ IsFiniteSet(Data) /\ Cardinality(Data) \in Nat /\ Cardinality(Data) < SOMETHING_WRONG_COUNT
  /\ IsFiniteSet(Dealt) /\ Cardinality(Dealt) \in Nat /\ Cardinality(Dealt) <= Cardinality(Data)
  /\ \A x \in Data : x \notin Dealt => Cardinality(Dealt) + 1 <= Cardinality(Data)
  /\ Poison \notin Data /\ Poison # NULL /\ NULL \notin Data /\ SOMETHING_WRONG_COUNT \in Nat
<1>1. IsFiniteSet(1..ITEMS_TO_PRODUCE) /\ Cardinality(1..ITEMS_TO_PRODUCE) = ITEMS_TO_PRODUCE
  BY Sizes, FS_Interval
<1>2. IsFiniteSet(Data) /\ Cardinality(Data) = Cardinality(Producers) * ITEMS_TO_PRODUCE
  BY <1>1, Groups, FS_Product DEF Data
<1>3. Cardinality(Data) \in Nat /\ Cardinality(Data) < SOMETHING_WRONG_COUNT
  BY <1>2, WrongCountAssumption, FS_CardinalityType
<1>4. IsFiniteSet(Dealt) /\ Cardinality(Dealt) <= Cardinality(Data) /\ Cardinality(Dealt) \in Nat
  BY <1>2, FS_Subset, FS_CardinalityType DEF Dealt
<1>5. ASSUME NEW x \in Data, x \notin Dealt PROVE Cardinality(Dealt) + 1 <= Cardinality(Data)
  <2>1. Dealt \cup {x} \subseteq Data
    BY DEF Dealt
  <2>2. Cardinality(Dealt \cup {x}) = Cardinality(Dealt) + 1
    BY <1>4, <1>5, FS_AddElement
  <2> QED
    BY <1>2, <2>1, <2>2, FS_Subset
<1>6. Poison \notin Data /\ Poison # NULL /\ NULL \notin Data
  BY Groups, NullAssumption DEF Poison, Data, Items
<1> QED
  BY <1>2, <1>3, <1>4, <1>5, <1>6, WrongCountAssumption

LEMMA JoinsStay ==
  ASSUME Joins, NEW t \in Threads, \A u \in Threads \ {t} : pc'[u] = pc[u],
         pc[t] \notin {"join", "done"}, pc'[t] \notin {"join", "done"}, pc[t] \in Places,
         pc'[t] \in Places,
         producer_finished' = producer_finished, pc[Main] = "join" => to_go'[Main] = to_go[Main]
  PROVE  Joins'
<1>1. Count(Producers, Going)' = Count(Producers, Going)
  <2>1. pc[t] \in Going /\ pc'[t] \in Going
    BY DEF Places, Going
  <2> QED
    BY <2>1, Groups, CountMoves
<1> QED
  BY <1>1, Groups DEF Joins

LEMMA StopsStay ==
  ASSUME Stops, NEW t \in Threads, \A u \in Threads \ {t} : pc'[u] = pc[u],
         pc[t] \notin {"stop", "done"}, pc'[t] \notin {"stop", "done"}, pc[t] \in Places,
         pc'[t] \in Places,
         consumer_finished' = consumer_finished, pc[Main] = "stop" => to_go'[Main] = to_go[Main]
  PROVE  Stops'
<1>1. Count(Consumers, Going)' = Count(Consumers, Going)
  <2>1. pc[t] \in Going /\ pc'[t] \in Going
    BY DEF Places, Going
  <2> QED
    BY <2>1, Groups, CountMoves
<1> QED
  BY <1>1, Groups DEF Stops

\* The steps that move no item: a thread goes on inside producer_send or
\* consumer_receive.
LEMMA MoveStays ==
  ASSUME RingInv, EndInv, NEW t \in Threads,
         \/ t \in Senders /\ (SendP(t) \/ Lock(t) \/ StepPut(t))
         \/ t \in Consumers /\ (ReceiveP(t) \/ Lock(t) \/ StepGet(t))
  PROVE  RingInv' /\ EndInv' /\ Filled' = Filled /\ Oldest' = Oldest
<1>inv. TypeOK /\ Once /\ Checks /\ Poisons /\ Last /\ Joins /\ Stops
  BY DEF RingInv, EndInv
<1>1. RingInv' /\ Filled' = Filled /\ Oldest' = Oldest
  BY SendPStep, LockStep, StepPutStep, ReceivePStep, StepGetStep
<1>2. /\ \A u \in Threads \ {t} : pc'[u] = pc[u]
      /\ \/ pc[t] = "send" /\ pc'[t] = "lock"
         \/ pc[t] = "lock" /\ pc'[t] = "move"
         \/ pc[t] = "step" /\ pc'[t] = "post"
      /\ UNCHANGED <<item_buffer, to_go, item, check_count, consumed>>
      /\ UNCHANGED <<producer_finished, consumer_finished>>
  <2>1. CASE SendP(t)
    BY <1>inv, <2>1, GoesTo DEF SendP, Go, Places
  <2>2. CASE ReceiveP(t)
    BY <1>inv, <2>2, GoesTo DEF ReceiveP, Go, Places
  <2>3. CASE Lock(t)
    BY <1>inv, <2>3, GoesTo DEF Lock, Go, Places
  <2>4. CASE StepPut(t)
    BY <1>inv, <2>4, GoesTo DEF StepPut, Go, Places
  <2>5. CASE StepGet(t)
    BY <1>inv, <2>5, GoesTo DEF StepGet, Go, Places
  <2> QED
    BY <2>1, <2>2, <2>3, <2>4, <2>5
<1>3. /\ \A u \in Threads : pc'[u] \in {"step", "post"} <=> pc[u] \in {"step", "post"}
      /\ \A u \in Threads : pc'[u] \in {"finish", "done"} <=> pc[u] \in {"finish", "done"}
  BY <1>2
<1>4. \A x : InSlots(x)' = InSlots(x) /\ InHands(x)' = InHands(x)
  BY <1>2 DEF InSlots, InHands
<1>5. Once'
  <2>1. \A p \in Producers, k \in 1..ITEMS_TO_PRODUCE : Produced(p, k)' <=> Produced(p, k)
    BY <1>2, <1>3, Groups DEF Produced
  <2>2. \A x : Tally(x)' = Tally(x)
    BY <1>2, <1>4 DEF Tally
  <2> QED
    BY <1>inv, <2>1, <2>2 DEF Once
<1>6. Checks'
  BY <1>inv, <1>2 DEF Checks, Dealt
<1>7. Ending' = Ending
  BY <1>2, <1>3, Groups DEF Ending
<1>8. Poisons'
  <2>1. Poisoned' = Poisoned
    BY <1>4, <1>7 DEF Poisoned
  <2>2. pc[Main] = pc'[Main] \/ (pc[Main] \in {"send", "lock"} /\ pc'[Main] \in {"lock", "move"})
          \/ (pc[Main] = "step" /\ pc'[Main] = "post")
    BY <1>2, Groups
  <2> QED
    BY <1>inv, <1>2, <2>1, <2>2 DEF Poisons
<1>9. Last'
  BY <1>inv, <1>1, <1>2, <1>7 DEF Last, Rank
<1>10. Joins' /\ Stops'
  <2>1. /\ pc[t] \in Places /\ pc'[t] \in Places
        /\ pc[t] \notin {"join", "stop", "done"} /\ pc'[t] \notin {"join", "stop", "done"}
    BY <1>2 DEF Places
  <2> QED
    BY <1>inv, <1>2, <2>1, JoinsStay, StopsStay
<1> QED
  BY <1>1, <1>5, <1>6, <1>8, <1>9, <1>10 DEF EndInv

\* Every slot has a rank of its own; the filled ones have those below Filled.
LEMMA Ranks ==
  ASSUME RingInv, NEW i \in Slots
  PROVE  /\ Rank(i) \in Nat /\ Rank(i) < BUFFER_SIZE
         /\ item_buffer[i] # NULL <=> Rank(i) < Filled
         /\ Rank(i) = 0 <=> i = Oldest
<1>1. Oldest \in Slots /\ Filled \in Nat
  BY Ends, FilledNat DEF RingInv
<1>2. Rank(i) \in Nat /\ Rank(i) < BUFFER_SIZE /\ (Rank(i) = 0 <=> i = Oldest)
  BY <1>1, Sizes DEF Rank
<1>3. Within(i) <=> Rank(i) < Filled
  BY <1>1, Sizes, FilledNat DEF Rank, Within
<1> QED
  BY <1>2, <1>3 DEF RingInv, Ring

\* What a slot or a hand gains or loses, the tally of the item does.
LEMMA SlotGains ==
  ASSUME TypeOK, NEW s \in Slots, NEW y, NEW x, item_buffer' = [item_buffer EXCEPT ![s] = y],
         item_buffer[s] = NULL, x # NULL
  PROVE  /\ x # y => InSlots(x)' = InSlots(x)
         /\ x = y => /\ InSlots(x)' = InSlots(x) \cup {s} /\ s \notin InSlots(x)
                     /\ Cardinality(InSlots(x)') = Cardinality(InSlots(x)) + 1
<1>1. item_buffer'[s] = y /\ \A i \in Slots \ {s} : item_buffer'[i] = item_buffer[i]
  BY DEF TypeOK
<1>2. x # y => InSlots(x)' = InSlots(x)
  BY <1>1 DEF InSlots
<1>3. x = y => InSlots(x)' = InSlots(x) \cup {s} /\ s \notin InSlots(x)
  BY <1>1 DEF InSlots
<1>4. IsFiniteSet(InSlots(x))
  BY Sizes, FS_Subset DEF InSlots
<1> QED
  BY <1>2, <1>3, <1>4, FS_AddElement

LEMMA SlotLoses ==
  ASSUME TypeOK, NEW s \in Slots, NEW x, item_buffer' = [item_buffer EXCEPT ![s] = NULL],
         x # NULL
  PROVE  /\ item_buffer[s] # x => InSlots(x)' = InSlots(x)
         /\ item_buffer[s] = x => /\ InSlots(x)' = InSlots(x) \ {s} /\ s \in InSlots(x)
                                  /\ Cardinality(InSlots(x)') = Cardinality(InSlots(x)) - 1
<1>1. item_buffer'[s] = NULL /\ \A i \in Slots \ {s} : item_buffer'[i] = item_buffer[i]
  BY DEF TypeOK
<1>2. item_buffer[s] # x => InSlots(x)' = InSlots(x)
  BY <1>1 DEF InSlots
<1>3. item_buffer[s] = x => InSlots(x)' = InSlots(x) \ {s} /\ s \in InSlots(x)
  BY <1>1 DEF InSlots
<1>4. IsFiniteSet(InSlots(x))
  BY Sizes, FS_Subset DEF InSlots
<1> QED
  BY <1>2, <1>3, <1>4, FS_RemoveElement

LEMMA WriteEnd ==
  ASSUME RingInv, EndInv, NEW t \in Senders, Write(t) PROVE EndInv'
<1>inv. /\ TypeOK /\ Routes /\ Once /\ Checks /\ Poisons /\ Last /\ Joins /\ Stops
        /\ BUFFER_SIZE \in Nat
  BY Sizes DEF RingInv, EndInv
<1>1. /\ pc[t] = "move" /\ pc'[t] = "step" /\ \A u \in Threads \ {t} : pc'[u] = pc[u]
      /\ item_buffer' = [item_buffer EXCEPT ![put] = Made(t)]
      /\ UNCHANGED <<get, put, is_full, is_empty, mutex, producer_finished,
                     consumer_finished, to_go, item, check_count, consumed>>
  BY <1>inv, Groups, GoesTo DEF Write, Go, Places, sems
<1>2. /\ RingInv' /\ Filled' = Filled + 1 /\ Oldest' = Oldest
      /\ Made(t) \in Items /\ Made(t) # NULL
  BY WriteStep
<1>3. /\ item_buffer[put] = NULL /\ put \in Slots /\ get \in Slots
  BY <1>1, SlotEmpty
<1>4. /\ item_buffer'[put] = Made(t) /\ item_buffer' \in [Slots -> Items \cup {NULL}]
      /\ \A i \in Slots \ {put} : item_buffer'[i] = item_buffer[i]
  BY <1>inv, <1>1, <1>2, <1>3 DEF TypeOK
<1>5. \A x \in Items : /\ x # Made(t) => InSlots(x)' = InSlots(x)
                       /\ x = Made(t) => Cardinality(InSlots(x)') = Cardinality(InSlots(x)) + 1
  BY <1>inv, <1>1, <1>3, NullAssumption, SlotGains
<1>6. /\ \A x : InHands(x)' = InHands(x)
      /\ \A c \in Consumers : pc'[c] = pc[c]
  BY <1>1, Groups DEF InHands
<1>7. Ending' = Ending
  BY <1>1, <1>6 DEF Ending
<1>8. t \in Producers => /\ pc[Main] = "join" /\ Poisoned = 0 /\ InSlots(Poison) = {}
                         /\ Ending = {} /\ Made(t) = <<t, to_go[t]>> /\ Made(t) # Poison
                         /\ to_go[t] \in 1..ITEMS_TO_PRODUCE /\ pc'[Main] = pc[Main]
  <2> SUFFICES ASSUME t \in Producers
               PROVE  /\ pc[Main] = "join" /\ Poisoned = 0 /\ InSlots(Poison) = {}
                      /\ Ending = {} /\ Made(t) = <<t, to_go[t]>> /\ Made(t) # Poison
                      /\ to_go[t] \in 1..ITEMS_TO_PRODUCE /\ pc'[Main] = pc[Main]
    OBVIOUS
  <2>1. pc[Main] = "join" /\ Poisoned = 0 /\ pc'[Main] = pc[Main]
    BY <1>inv, <1>1, Groups DEF Joins, Poisons
  <2>2. Poison \in Items
    BY DEF Items
  <2>3. InSlots(Poison) = {} /\ Ending = {}
    BY <1>inv, <2>1, <2>2, Tallies, EndingCounted DEF Poisoned
  <2>4. Made(t) = <<t, to_go[t]>> /\ Made(t) # Poison
    BY Groups DEF Made, Poison
  <2> QED
    BY <1>inv, <1>1, <2>1, <2>3, <2>4 DEF Routes
<1>9. t = Main => Made(t) = Poison
  BY DEF Made
<1>10. Once'
  <2> SUFFICES ASSUME NEW p \in Producers, NEW k \in 1..ITEMS_TO_PRODUCE
               PROVE  (Tally(<<p, k>>) = IF Produced(p, k) THEN 1 ELSE 0)'
    BY DEF Once
  <2>1. <<p, k>> \in Items /\ <<p, k>> # Poison
    BY Groups DEF Items, Data, Poison
  <2>2. Tally(<<p, k>>) = IF Produced(p, k) THEN 1 ELSE 0
    BY <1>inv DEF Once
  <2>3. to_go[p] \in Nat /\ k \in Nat /\ p \in Senders /\ p \in Threads
    BY <1>inv, Sizes, Groups DEF TypeOK
  <2>4. CASE p = t /\ k = to_go[t]
    <3>1. <<p, k>> = Made(t)
      BY <1>8, <2>4
    <3>2. ~ Produced(p, k) /\ Produced(p, k)'
      BY <1>1, <2>3, <2>4 DEF Produced
    <3>3. Tally(<<p, k>>)' = Tally(<<p, k>>) + 1
      BY <1>inv, <1>1, <1>5, <1>6, <2>1, <3>1, Tallies DEF Tally
    <3> QED
      BY <2>2, <3>2, <3>3
  <2>5. CASE ~ (p = t /\ k = to_go[t])
    <3>1. <<p, k>> # Made(t)
      BY <1>8, <1>9, <2>1, <2>5, Groups
    <3>2. Produced(p, k)' <=> Produced(p, k)
      BY <1>1, <2>3, <2>5 DEF Produced
    <3>3. Tally(<<p, k>>)' = Tally(<<p, k>>)
      BY <1>1, <1>5, <1>6, <2>1, <3>1 DEF Tally
    <3> QED
      BY <2>2, <3>2, <3>3
  <2> QED
    BY <2>4, <2>5
<1>11. Checks'
  BY <1>inv, <1>1 DEF Checks, Dealt
<1>12. Poisons'
  <2>1. Poison \in Items
    BY DEF Items
  <2>2. CASE t \in Producers
    <3>1. Poisoned' = Poisoned
      BY <1>5, <1>7, <1>8, <2>1, <2>2 DEF Poisoned
    <3> QED
      BY <1>inv, <1>1, <1>8, <2>2, <3>1 DEF Poisons
  <2>3. CASE t = Main
    <3>1. Poisoned' = Poisoned + 1
      BY <1>inv, <1>5, <1>7, <1>9, <2>1, <2>3, Tallies, EndingCounted DEF Poisoned
    <3>2. Poisoned \in Nat /\ to_go[Main] \in Nat /\ Cardinality(Consumers) \in Nat
      BY <1>inv, <2>1, Tallies, EndingCounted, Groups, FS_CardinalityType DEF Poisoned, TypeOK
    <3>3. Consumers # {} => to_go[Main] > 0 /\ Poisoned + to_go[Main] = Cardinality(Consumers)
      BY <1>inv, <1>1, <2>3 DEF Poisons
    <3> QED
      BY <1>1, <2>3, <3>1, <3>2, <3>3 DEF Poisons
  <2> QED
    BY <2>2, <2>3, Groups
<1>13. Last'
  <2>1. \A i \in Slots : Rank(i)' = Rank(i)
    BY <1>2 DEF Rank
  <2>2. CASE t \in Producers
    <3>1. \A i \in Slots : item_buffer'[i] # Poison
      <4>1. \A i \in Slots : item_buffer[i] # Poison
        BY <1>8, <2>2 DEF InSlots
      <4> QED
        BY <1>4, <1>8, <2>2, <4>1
    <3> QED
      BY <1>7, <1>8, <2>2, <3>1 DEF Last
  <2>3. CASE t = Main
    <3>1. ASSUME NEW i \in Slots, NEW j \in Slots, item_buffer'[i] = Poison,
                 item_buffer'[j] # NULL, Rank(i) < Rank(j)
          PROVE  item_buffer'[j] = Poison
      <4>1. CASE j = put
        BY <1>4, <1>9, <2>3, <4>1
      <4>2. CASE j # put /\ i = put
        <5>1. item_buffer[j] # NULL
          BY <1>4, <3>1, <4>2
        <5>2. Rank(j) < Filled /\ ~ (Rank(put) < Filled) /\ Rank(j) \in Nat /\ Rank(put) \in Nat
          BY <1>3, <5>1, Ranks
        <5> QED
          BY <3>1, <4>2, <5>2, FilledNat
      <4>3. CASE j # put /\ i # put
        BY <1>inv, <1>4, <3>1, <4>3 DEF Last
      <4> QED
        BY <4>1, <4>2, <4>3
    <3>2. Ending # {} => \A i \in Slots : item_buffer'[i] \in {NULL, Poison}
      BY <1>inv, <1>4, <1>9, <2>3 DEF Last
    <3> QED
      BY <1>7, <2>1, <3>1, <3>2 DEF Last
  <2> QED
    BY <2>2, <2>3, Groups
<1>14. Joins' /\ Stops'
  <2>1. pc[t] \in Places /\ pc'[t] \in Places /\ t \in Threads
    BY <1>1, Groups DEF Places
  <2> QED
    BY <1>inv, <1>1, <2>1, JoinsStay, StopsStay
<1> QED
  BY <1>10, <1>11, <1>12, <1>13, <1>14 DEF EndInv

LEMMA SentEnd ==
  ASSUME RingInv, EndInv, NEW t \in Senders, Sent(t) PROVE EndInv'
<1>inv. /\ TypeOK /\ Routes /\ Once /\ Checks /\ Poisons /\ Last /\ Joins /\ Stops
        /\ ITEMS_TO_PRODUCE \in Nat
  BY Sizes DEF RingInv, EndInv
<1>1. /\ pc[t] = "post" /\ pc'[t] \in {"send", "stop", "finish"}
      /\ \A u \in Threads \ {t} : pc'[u] = pc[u]
      /\ UNCHANGED <<item_buffer, get, put, is_empty, mutex, producer_finished,
                     consumer_finished, item, check_count, consumed>>
  BY <1>inv, Groups, GoesTo DEF Sent, PostFull, Places
<1>2. Filled' = Filled /\ Oldest' = Oldest
  BY SentStep
<1>3. /\ to_go[t] \in Nat /\ Cardinality(Consumers) \in Nat /\ t \in Threads
      /\ t \in Producers => to_go[t] \in 1..ITEMS_TO_PRODUCE /\ t # Main
  BY <1>inv, <1>1, Groups, FS_CardinalityType DEF TypeOK, Routes
<1>4. /\ \A u \in Senders \ {t} : to_go'[u] = to_go[u]
      /\ to_go[t] > 1 => to_go'[t] = to_go[t] - 1 /\ pc'[t] = "send"
      /\ ~ (to_go[t] > 1) /\ t \in Producers => to_go'[t] = 0 /\ pc'[t] = "finish"
      /\ ~ (to_go[t] > 1) /\ t = Main => to_go'[t] = Cardinality(Consumers) /\ pc'[t] = "stop"
  <2>1. CASE to_go[t] > 1
    BY <1>inv, <1>3, <2>1, Groups DEF Sent, TypeOK
  <2>2. CASE ~ (to_go[t] > 1)
    BY <1>inv, <1>3, <2>2, Groups DEF Sent, TypeOK
  <2> QED
    BY <2>1, <2>2
<1>5. /\ \A x : InHands(x)' = InHands(x) /\ InSlots(x)' = InSlots(x)
      /\ \A c \in Consumers : pc'[c] = pc[c]
      /\ \A x : Tally(x)' = Tally(x)
  BY <1>1, Groups DEF InHands, InSlots, Tally
<1>6. Ending' = Ending /\ Poisoned' = Poisoned
  BY <1>1, <1>5 DEF Ending, Poisoned
<1>7. Once'
  <2>1. ASSUME NEW p \in Producers, NEW k \in 1..ITEMS_TO_PRODUCE
        PROVE  Produced(p, k)' <=> Produced(p, k)
    <3>1. to_go[p] \in Nat /\ k \in Nat /\ k >= 1 /\ p \in Senders /\ p \in Threads /\ p # Main
      BY <1>inv, Groups DEF TypeOK
    <3>2. CASE p # t
      BY <1>1, <1>4, <3>1, <3>2 DEF Produced
    <3>3. CASE p = t /\ to_go[t] > 1
      BY <1>1, <1>4, <3>1, <3>3 DEF Produced
    <3>4. CASE p = t /\ ~ (to_go[t] > 1)
      BY <1>1, <1>3, <1>4, <3>1, <3>4 DEF Produced
    <3> QED
      BY <3>2, <3>3, <3>4
  <2> QED
    BY <1>inv, <1>5, <2>1 DEF Once
<1>8. Checks'
  BY <1>inv, <1>1 DEF Checks, Dealt
<1>9. Poisons'
  <2>1. CASE t # Main
    BY <1>inv, <1>1, <1>4, <1>6, <2>1, Groups DEF Poisons
  <2>2. CASE t = Main
    <3>1. Poisoned \in Nat
      <4>1. Poison \in Items
        BY DEF Items
      <4> QED
        BY <1>inv, <4>1, Tallies, EndingCounted DEF Poisoned
    <3>2. Consumers # {} => to_go[Main] > 0 /\ Poisoned + to_go[Main] = Cardinality(Consumers) + 1
      BY <1>inv, <1>1, <2>2 DEF Poisons
    <3>3. CASE to_go[Main] > 1
      <4>1. pc'[Main] = "send" /\ to_go'[Main] = to_go[Main] - 1
        BY <1>4, <2>2, <3>3
      <4>2. Consumers # {} => to_go'[Main] > 0 /\ Poisoned + to_go'[Main] = Cardinality(Consumers)
        BY <1>3, <2>2, <3>1, <3>2, <3>3, <4>1
      <4> QED
        BY <1>6, <4>1, <4>2 DEF Poisons
    <3>4. CASE ~ (to_go[Main] > 1)
      <4>1. pc'[Main] = "stop"
        BY <1>4, <2>2, <3>4
      <4>2. Consumers # {} => Poisoned = Cardinality(Consumers)
        BY <1>3, <2>2, <3>1, <3>2, <3>4
      <4> QED
        BY <1>6, <4>1, <4>2 DEF Poisons
    <3> QED
      BY <3>3, <3>4
  <2> QED
    BY <2>1, <2>2
<1>10. Last'
  BY <1>inv, <1>1, <1>2, <1>6 DEF Last, Rank
<1>11. Joins'
  <2>1. pc[t] \in Places /\ pc'[t] \in Places /\ pc[t] \notin {"join", "done"}
        /\ pc'[t] \notin {"join", "done"}
    BY <1>1 DEF Places
  <2>2. pc[Main] = "join" => to_go'[Main] = to_go[Main]
    BY <1>1, <1>4, Groups
  <2> QED
    BY <1>inv, <1>1, <1>3, <2>1, <2>2, JoinsStay
<1>12. Stops'
  <2>1. CASE pc'[t] # "stop"
    <3>1. pc[t] \in Places /\ pc'[t] \in Places /\ pc[t] \notin {"stop", "done"}
          /\ pc'[t] \notin {"stop", "done"}
      BY <1>1, <2>1 DEF Places
    <3>2. pc[Main] = "stop" => to_go'[Main] = to_go[Main]
      BY <1>1, <1>4, Groups
    <3> QED
      BY <1>inv, <1>1, <1>3, <3>1, <3>2, StopsStay
  <2>2. CASE pc'[t] = "stop"
    <3>1. t = Main /\ to_go'[Main] = Cardinality(Consumers)
      BY <1>4, <2>2, Groups
    <3>2. Count(Consumers, Going)' = Count(Consumers, Going)
      BY <1>1, <3>1, Groups, CountMoves
    <3> QED
      BY <1>inv, <1>1, <2>2, <3>1, <3>2 DEF Stops
  <2> QED
    BY <2>1, <2>2
<1> QED
  BY <1>7, <1>8, <1>9, <1>10, <1>11, <1>12 DEF EndInv

LEMMA ReadEnd ==
  ASSUME RingInv, EndInv, NEW t \in Consumers, Read(t) PROVE EndInv'
<1>inv. /\ TypeOK /\ Routes /\ Once /\ Checks /\ Poisons /\ Last /\ Joins /\ Stops
        /\ BUFFER_SIZE \in Nat
  BY Sizes DEF RingInv, EndInv
<1> DEFINE x0 == item_buffer[get]
<1>1. /\ pc[t] = "move" /\ pc'[t] = "step" /\ \A u \in Threads \ {t} : pc'[u] = pc[u]
      /\ item_buffer' = [item_buffer EXCEPT ![get] = NULL]
      /\ item' = [item EXCEPT ![t] = item_buffer[get]]
      /\ UNCHANGED <<get, put, is_full, is_empty, mutex, producer_finished,
                     consumer_finished, to_go, check_count, consumed>>
  BY <1>inv, Groups, GoesTo DEF Read, Go, Places, sems
<1>2. /\ RingInv' /\ Filled' = Filled - 1 /\ Oldest' = Step(Oldest) /\ x0 \in Items
  BY ReadStep
<1>3. /\ x0 # NULL /\ get \in Slots /\ Oldest = get /\ item[t] = NULL /\ t \in Threads
      /\ Filled \in Nat
  BY <1>inv, <1>1, SlotFull, Groups, FilledNat DEF Routes
<1>4. /\ item_buffer'[get] = NULL /\ \A i \in Slots \ {get} : item_buffer'[i] = item_buffer[i]
      /\ item'[t] = x0 /\ \A c \in Consumers \ {t} : item'[c] = item[c]
  BY <1>inv, <1>1, <1>3 DEF TypeOK
<1>5. \A x \in Items : /\ x # x0 => InSlots(x)' = InSlots(x) /\ InHands(x)' = InHands(x)
                       /\ x = x0 => /\ Cardinality(InSlots(x)') = Cardinality(InSlots(x)) - 1
                                    /\ Cardinality(InHands(x)') = Cardinality(InHands(x)) + 1
  <2> SUFFICES ASSUME NEW x \in Items
               PROVE  /\ x # x0 => InSlots(x)' = InSlots(x) /\ InHands(x)' = InHands(x)
                      /\ x = x0 => /\ Cardinality(InSlots(x)') = Cardinality(InSlots(x)) - 1
                                   /\ Cardinality(InHands(x)') = Cardinality(InHands(x)) + 1
    OBVIOUS
  <2>1. x # NULL
    BY NullAssumption
  <2>2. /\ x # x0 => InSlots(x)' = InSlots(x)
        /\ x = x0 => Cardinality(InSlots(x)') = Cardinality(InSlots(x)) - 1
    BY <1>inv, <1>1, <1>3, <2>1, SlotLoses
  <2>3. x # x0 => InHands(x)' = InHands(x)
    BY <1>3, <1>4, <2>1 DEF InHands
  <2>4. x = x0 => InHands(x)' = InHands(x) \cup {t} /\ t \notin InHands(x)
    BY <1>3, <1>4, <2>1 DEF InHands
  <2>5. IsFiniteSet(InHands(x))
    BY <1>inv, Tallies
  <2>6. x = x0 => Cardinality(InHands(x)') = Cardinality(InHands(x)) + 1
    BY <2>4, <2>5, FS_AddElement
  <2> QED
    BY <2>2, <2>3, <2>6
<1>6. \A x \in Items : Tally(x)' = Tally(x)
  BY <1>inv, <1>1, <1>5, Tallies DEF Tally
<1>7. Once'
  <2>1. \A p \in Producers, k \in 1..ITEMS_TO_PRODUCE : Produced(p, k)' <=> Produced(p, k)
    BY <1>1, Groups DEF Produced
  <2>2. \A p \in Producers, k \in 1..ITEMS_TO_PRODUCE : <<p, k>> \in Items
    BY DEF Items, Data
  <2> QED
    BY <1>inv, <1>6, <2>1, <2>2 DEF Once
<1>8. Checks'
  BY <1>inv, <1>1 DEF Checks, Dealt
<1>9. /\ x0 # Poison => Ending' = Ending
      /\ x0 = Poison => Ending' = Ending \cup {t} /\ t \notin Ending
  BY <1>1, <1>3, <1>4, Groups, DataSize DEF Ending
<1>10. Poisoned' = Poisoned
  <2>1. Poison \in Items
    BY DEF Items
  <2>2. CASE x0 # Poison
    BY <1>5, <1>9, <2>1, <2>2 DEF Poisoned
  <2>3. CASE x0 = Poison
    <3>1. Cardinality(Ending') = Cardinality(Ending) + 1
      BY <1>9, <2>3, EndingCounted, FS_AddElement
    <3> QED
      BY <1>inv, <1>5, <2>1, <2>3, <3>1, Tallies, EndingCounted DEF Poisoned
  <2> QED
    BY <2>2, <2>3
<1>11. Poisons'
  <2>1. pc'[Main] = pc[Main] /\ to_go' = to_go
    BY <1>1, Groups
  <2> QED
    BY <1>inv, <1>10, <2>1 DEF Poisons
<1>12. Last'
  <2>1. ASSUME NEW i \in Slots, item_buffer'[i] # NULL
        PROVE  i # get /\ Rank(i) = Rank(i)' + 1 /\ Rank(i)' \in Nat
    <3>1. i # get
      BY <1>4, <2>1
    <3>2. CASE get + 1 = BUFFER_SIZE
      BY <1>2, <1>3, <3>1, <3>2, Sizes DEF Rank, Step
    <3>3. CASE get + 1 # BUFFER_SIZE
      BY <1>2, <1>3, <3>1, <3>3, Sizes DEF Rank, Step
    <3> QED
      BY <3>1, <3>2, <3>3
  <2>2. ASSUME NEW i \in Slots, NEW j \in Slots, item_buffer'[i] = Poison,
               item_buffer'[j] # NULL, Rank(i)' < Rank(j)'
        PROVE  item_buffer'[j] = Poison
    <3>1. i # get /\ j # get /\ Rank(i) < Rank(j)
      BY <2>1, <2>2, DataSize
    <3> QED
      BY <1>inv, <1>4, <2>2, <3>1 DEF Last
  <2>3. Ending' # {} => \A i \in Slots : item_buffer'[i] \in {NULL, Poison}
    <3>1. CASE Ending # {}
      BY <1>inv, <1>4, <3>1 DEF Last
    <3>2. CASE x0 = Poison
      <4> SUFFICES ASSUME NEW i \in Slots, item_buffer'[i] # NULL PROVE item_buffer'[i] = Poison
        OBVIOUS
      <4>1. Rank(get) = 0 /\ Rank(get) < Rank(i)
        BY <1>3, <2>1, Ranks
      <4> QED
        BY <1>inv, <1>3, <1>4, <2>1, <3>2, <4>1 DEF Last
    <3> QED
      BY <1>9, <3>1, <3>2
  <2> QED
    BY <2>2, <2>3 DEF Last
<1>13. Joins' /\ Stops'
  <2>1. /\ pc[t] \in Places /\ pc'[t] \in Places
        /\ pc[t] \notin {"join", "stop", "done"} /\ pc'[t] \notin {"join", "stop", "done"}
    BY <1>1 DEF Places
  <2> QED
    BY <1>inv, <1>1, <1>3, <2>1, JoinsStay, StopsStay
<1> QED
  BY <1>7, <1>8, <1>11, <1>12, <1>13 DEF EndInv

\* A consumer ends only on (0,0): the count that would end it is out of reach.
LEMMA ReceivedEnd ==
  ASSUME RingInv, EndInv, NEW t \in Consumers, Received(t) PROVE EndInv'
<1>inv. TypeOK /\ Routes /\ Once /\ Checks /\ Poisons /\ Last /\ Joins /\ Stops
  BY DEF RingInv, EndInv
<1>0. /\ pc[t] = "post" /\ item[t] \in Items /\ t \in Threads
      /\ Filled' = Filled /\ Oldest' = Oldest
  BY ReceivedStep, Groups DEF Received
<1>1. PICK x0 \in Items : x0 = item[t]
  BY <1>0
<1>2. /\ item'[t] = NULL /\ \A c \in Consumers \ {t} : item'[c] = item[c]
      /\ consumed'[x0] = consumed[x0] + 1 /\ \A x \in Items \ {x0} : consumed'[x] = consumed[x]
  BY <1>inv, <1>1 DEF Received, TypeOK
<1>3. UNCHANGED <<item_buffer, to_go, producer_finished, consumer_finished>>
  BY DEF Received
<1>4. PICK l \in {"send", "finish"} :
        /\ pc' = [pc EXCEPT ![t] = l]
        /\ l = IF x0 # Poison /\ check_count[t] + 1 < SOMETHING_WRONG_COUNT
               THEN "send" ELSE "finish"
  BY <1>1 DEF Received
<1>5. pc'[t] = l /\ \A u \in Threads \ {t} : pc'[u] = pc[u]
  <2>1. l \in Places
    BY DEF Places
  <2> QED
    BY <1>inv, <1>0, <1>4, <2>1, GoesTo
<1>6. /\ \A x : InSlots(x)' = InSlots(x)
      /\ \A x \in Items : x # x0 => InHands(x)' = InHands(x)
      /\ Cardinality(InHands(x0)') = Cardinality(InHands(x0)) - 1
      /\ InHands(x0) # {}
  <2>1. \A x : InSlots(x)' = InSlots(x)
    BY <1>3 DEF InSlots
  <2>2. \A x \in Items : x # x0 => InHands(x)' = InHands(x)
    BY <1>1, <1>2, NullAssumption DEF InHands
  <2>3. InHands(x0)' = InHands(x0) \ {t} /\ t \in InHands(x0)
    BY <1>1, <1>2, NullAssumption DEF InHands
  <2>4. IsFiniteSet(InHands(x0))
    BY <1>inv, Tallies
  <2> QED
    BY <2>1, <2>2, <2>3, <2>4, FS_RemoveElement
<1>7. \A x \in Items : Tally(x)' = Tally(x)
  <2>1. \A x \in Items : x # x0 => Tally(x)' = Tally(x)
    BY <1>2, <1>6 DEF Tally
  <2>2. Tally(x0)' = Tally(x0)
    BY <1>inv, <1>2, <1>6, Tallies DEF Tally
  <2> QED
    BY <2>1, <2>2
<1>8. Once'
  <2>1. \A p \in Producers, k \in 1..ITEMS_TO_PRODUCE : Produced(p, k)' <=> Produced(p, k)
    BY <1>3, <1>5, Groups DEF Produced
  <2>2. \A p \in Producers, k \in 1..ITEMS_TO_PRODUCE : <<p, k>> \in Items
    BY DEF Items, Data
  <2> QED
    BY <1>inv, <1>7, <2>1, <2>2 DEF Once
<1>9. /\ Cardinality(Dealt)' \in Nat /\ Cardinality(Dealt) \in Nat
      /\ Cardinality(Dealt)' >= Cardinality(Dealt)
      /\ x0 # Poison => Cardinality(Dealt)' >= Cardinality(Dealt) + 1
      /\ x0 # Poison => Cardinality(Dealt) + 1 <= Cardinality(Data)
  <2>1. IsFiniteSet(Dealt') /\ Cardinality(Dealt') \in Nat /\ Cardinality(Dealt) \in Nat
    BY DataSize, FS_Subset, FS_CardinalityType DEF Dealt
  <2>2. Dealt \subseteq Dealt'
    BY <1>inv, <1>2 DEF Dealt, TypeOK, Items
  <2>3. CASE x0 = Poison
    BY <2>1, <2>2, <2>3, FS_Subset
  <2>4. CASE x0 # Poison
    <3>1. PICK p \in Producers, k \in 1..ITEMS_TO_PRODUCE : x0 = <<p, k>>
      BY <2>4 DEF Items, Data
    <3>2. Tally(x0) <= 1
      BY <1>inv, <3>1 DEF Once
    <3>3. consumed[x0] = 0
      <4>1. /\ consumed[x0] \in Nat /\ Cardinality(InSlots(x0)) \in Nat
            /\ Cardinality(InHands(x0)) \in Nat /\ Cardinality(InHands(x0)) # 0
        BY <1>inv, <1>6, Tallies
      <4>2. consumed[x0] + Cardinality(InSlots(x0)) + Cardinality(InHands(x0)) <= 1
        BY <3>2 DEF Tally
      <4> QED
        BY <4>1, <4>2
    <3>4. x0 \in Data /\ x0 \notin Dealt /\ x0 \in Dealt'
      BY <1>2, <2>4, <3>3 DEF Dealt, Items
    <3>5. Dealt \cup {x0} \subseteq Dealt' /\ Cardinality(Dealt \cup {x0}) = Cardinality(Dealt) + 1
      BY <2>2, <3>4, DataSize, FS_AddElement
    <3>6. Cardinality(Dealt') >= Cardinality(Dealt) + 1
      BY <2>1, <3>5, FS_Subset
    <3> QED
      BY <2>1, <2>4, <3>4, <3>6, DataSize
  <2> QED
    BY <2>3, <2>4
<1>10. Checks'
  <2> SUFFICES ASSUME NEW c \in Consumers PROVE check_count'[c] <= Cardinality(Dealt')
    BY DEF Checks
  <2>1. check_count[c] \in Nat /\ check_count[c] <= Cardinality(Dealt)
    BY <1>inv DEF TypeOK, Checks
  <2>2. check_count'[c] = IF c = t /\ x0 # Poison THEN check_count[c] + 1 ELSE check_count[c]
    BY <1>inv, <1>1 DEF Received, TypeOK
  <2> QED
    BY <1>9, <2>1, <2>2
<1>11. l = IF x0 = Poison THEN "finish" ELSE "send"
  <2>1. check_count[t] \in Nat /\ check_count[t] <= Cardinality(Dealt)
    BY <1>inv DEF TypeOK, Checks
  <2>2. x0 # Poison => check_count[t] + 1 < SOMETHING_WRONG_COUNT
    BY <1>9, <2>1, DataSize
  <2> QED
    BY <1>4, <2>2
<1>12. Ending' = Ending
  <2>1. t \in Ending' <=> t \in Ending
    BY <1>0, <1>1, <1>2, <1>5, <1>11, DataSize DEF Ending
  <2>2. \A c \in Consumers \ {t} : c \in Ending' <=> c \in Ending
    BY <1>2, <1>5, Groups DEF Ending
  <2>3. Ending \subseteq Consumers /\ Ending' \subseteq Consumers
    BY DEF Ending
  <2> QED
    BY <2>1, <2>2, <2>3
<1>13. Poisons'
  <2>1. Poisoned' = Poisoned
    BY <1>6, <1>12 DEF Poisoned
  <2>2. pc'[Main] = pc[Main] /\ to_go' = to_go
    BY <1>3, <1>5, Groups
  <2> QED
    BY <1>inv, <2>1, <2>2 DEF Poisons
<1>14. Last'
  BY <1>inv, <1>0, <1>3, <1>12 DEF Last, Rank
<1>15. Joins' /\ Stops'
  <2>1. /\ pc[t] \in Places /\ pc'[t] \in Places
        /\ pc[t] \notin {"join", "stop", "done"} /\ pc'[t] \notin {"join", "stop", "done"}
    BY <1>0, <1>5 DEF Places
  <2> QED
    BY <1>inv, <1>0, <1>3, <1>5, <2>1, JoinsStay, StopsStay
<1> QED
  BY <1>8, <1>10, <1>13, <1>14, <1>15 DEF EndInv

\* The steps that leave the items alone and at which no (0,0) item is sent.
LEMMA ItemsStay ==
  ASSUME RingInv, EndInv, NEW t \in Threads, \A u \in Threads \ {t} : pc'[u] = pc[u],
         UNCHANGED <<item_buffer, item, check_count, consumed>>, Oldest' = Oldest,
         \A p \in Producers : to_go'[p] = to_go[p],
         pc[t] \notin {"step", "post"}, pc'[t] \notin {"step", "post"},
         t \in Consumers => (pc[t] \in {"finish", "done"} <=> pc'[t] \in {"finish", "done"})
  PROVE  Once' /\ Checks' /\ Last' /\ Ending' = Ending /\ Poisoned' = Poisoned
<1>inv. Once /\ Checks /\ Last
  BY DEF EndInv
<1>1. \A x : InSlots(x)' = InSlots(x) /\ InHands(x)' = InHands(x)
  BY DEF InSlots, InHands
<1>2. \A x : Tally(x)' = Tally(x)
  BY <1>1 DEF Tally
<1>3. \A p \in Producers, k \in 1..ITEMS_TO_PRODUCE : Produced(p, k)' <=> Produced(p, k)
  BY Groups DEF Produced
<1>4. Once'
  BY <1>inv, <1>2, <1>3 DEF Once
<1>5. Ending' = Ending
  BY Groups DEF Ending
<1>6. Poisoned' = Poisoned
  BY <1>1, <1>5 DEF Poisoned
<1>7. Checks'
  BY <1>inv DEF Checks, Dealt
<1>8. Last'
  BY <1>inv, <1>5 DEF Last, Rank
<1> QED
  BY <1>4, <1>5, <1>6, <1>7, <1>8

LEMMA ProducerFinishEnd ==
  ASSUME RingInv, EndInv, NEW t \in Producers, ProducerFinish(t)
  PROVE  RingInv' /\ EndInv' /\ Filled' = Filled /\ Oldest' = Oldest
<1>inv. TypeOK /\ Poisons /\ Joins /\ Stops
  BY DEF RingInv, EndInv
<1>0. t \in Threads /\ t # Main /\ t \notin Consumers
  BY Groups
<1>1. RingInv' /\ Filled' = Filled /\ Oldest' = Oldest
  BY <1>0, OtherStep
<1>2. /\ pc[t] = "finish" /\ pc'[t] = "done" /\ \A u \in Threads \ {t} : pc'[u] = pc[u]
      /\ UNCHANGED <<item_buffer, item, check_count, consumed, to_go, consumer_finished>>
      /\ producer_finished' = producer_finished + 1
  BY <1>inv, <1>0, GoesTo DEF ProducerFinish, Go, Places
<1>3. Once' /\ Checks' /\ Last' /\ Poisoned' = Poisoned
  BY <1>0, <1>1, <1>2, ItemsStay
<1>4. pc'[Main] = pc[Main] /\ \A c \in Consumers : pc'[c] = pc[c]
  BY <1>0, <1>2, Groups
<1>5. Poisons'
  BY <1>inv, <1>2, <1>3, <1>4 DEF Poisons
<1>6. Joins'
  <2>1. pc[Main] = "join"
    BY <1>inv, <1>2 DEF Joins
  <2>2. to_go[Main] = producer_finished + Count(Producers, Going)
    BY <1>inv, <2>1 DEF Joins
  <2>3. Count(Producers, Going)' = Count(Producers, Going) - 1 /\ Count(Producers, Going) \in Nat
    <3>1. pc[t] \in Going /\ pc'[t] \notin Going
      BY <1>2 DEF Going
    <3> QED
      BY <1>0, <1>2, <3>1, Groups, CountMoves
  <2>4. producer_finished \in Nat
    BY <1>inv DEF TypeOK
  <2>5. to_go'[Main] = producer_finished' + Count(Producers, Going)'
    BY <1>2, <2>2, <2>3, <2>4
  <2> QED
    BY <1>4, <2>1, <2>5 DEF Joins
<1>7. Stops'
  <2>1. Count(Consumers, Going)' = Count(Consumers, Going)
    BY <1>0, <1>2, Groups, CountMoves
  <2> QED
    BY <1>inv, <1>2, <1>4, <2>1 DEF Stops
<1> QED
  BY <1>1, <1>3, <1>5, <1>6, <1>7 DEF EndInv

LEMMA ConsumerFinishEnd ==
  ASSUME RingInv, EndInv, NEW t \in Consumers, ConsumerFinish(t)
  PROVE  RingInv' /\ EndInv' /\ Filled' = Filled /\ Oldest' = Oldest
<1>inv. TypeOK /\ Poisons /\ Joins /\ Stops
  BY DEF RingInv, EndInv
<1>0. t \in Threads /\ t # Main /\ t \notin Producers
  BY Groups
<1>1. RingInv' /\ Filled' = Filled /\ Oldest' = Oldest
  BY <1>0, OtherStep
<1>2. /\ pc[t] = "finish" /\ pc'[t] = "done" /\ \A u \in Threads \ {t} : pc'[u] = pc[u]
      /\ UNCHANGED <<item_buffer, item, check_count, consumed, to_go, producer_finished>>
      /\ consumer_finished' = consumer_finished + 1
  BY <1>inv, <1>0, GoesTo DEF ConsumerFinish, Go, Places
<1>3. Once' /\ Checks' /\ Last' /\ Poisoned' = Poisoned
  BY <1>0, <1>1, <1>2, ItemsStay
<1>4. pc'[Main] = pc[Main] /\ \A p \in Producers : pc'[p] = pc[p]
  BY <1>0, <1>2, Groups
<1>5. Poisons'
  BY <1>inv, <1>2, <1>3, <1>4 DEF Poisons
<1>6. Joins'
  <2>1. Count(Producers, Going)' = Count(Producers, Going)
    BY <1>0, <1>2, Groups, CountMoves
  <2> QED
    BY <1>inv, <1>2, <1>4, <2>1 DEF Joins
<1>7. Stops'
  <2>1. pc[Main] # "done"
    BY <1>inv, <1>2 DEF Stops
  <2>2. Count(Consumers, Going)' = Count(Consumers, Going) - 1 /\ Count(Consumers, Going) \in Nat
    <3>1. pc[t] \in Going /\ pc'[t] \notin Going
      BY <1>2 DEF Going
    <3> QED
      BY <1>0, <1>2, <3>1, Groups, CountMoves
  <2>3. consumer_finished \in Nat
    BY <1>inv DEF TypeOK
  <2>4. consumer_finished' + Count(Consumers, Going)' = consumer_finished + Count(Consumers, Going)
    BY <1>2, <2>2, <2>3
  <2> QED
    BY <1>inv, <1>2, <1>4, <2>1, <2>4 DEF Stops
<1> QED
  BY <1>1, <1>3, <1>5, <1>6, <1>7 DEF EndInv

LEMMA JoinEnd ==
  ASSUME RingInv, EndInv, Join PROVE RingInv' /\ EndInv' /\ Filled' = Filled /\ Oldest' = Oldest
<1>inv. TypeOK /\ Poisons /\ Joins /\ Stops
  BY DEF RingInv, EndInv
<1>0. Main \in Threads /\ Main \in Senders /\ Main \notin Consumers /\ Main \notin Producers
  BY Groups
<1>1. RingInv' /\ Filled' = Filled /\ Oldest' = Oldest
  BY <1>0, OtherStep
<1>2. /\ pc[Main] = "join" /\ producer_finished > 0 /\ producer_finished' = producer_finished - 1
      /\ UNCHANGED <<item_buffer, item, check_count, consumed, consumer_finished>>
  BY DEF Join
<1>3. /\ to_go[Main] \in Nat /\ Cardinality(Consumers) \in Nat /\ producer_finished \in Nat
      /\ Count(Producers, Going) \in Nat
      /\ to_go[Main] = producer_finished + Count(Producers, Going)
  BY <1>inv, <1>0, <1>2, Groups, Counted, FS_CardinalityType DEF TypeOK, Joins
<1>4. /\ \A p \in Producers : to_go'[p] = to_go[p]
      /\ \A u \in Threads \ {Main} : pc'[u] = pc[u]
      /\ to_go[Main] > 1 => pc'[Main] = "join" /\ to_go'[Main] = to_go[Main] - 1
      /\ ~ (to_go[Main] > 1) => pc'[Main] = "send" /\ to_go'[Main] = Cardinality(Consumers)
  <2>1. CASE to_go[Main] > 1
    BY <1>inv, <1>0, <1>2, <2>1, Groups DEF Join, TypeOK
  <2>2. CASE ~ (to_go[Main] > 1)
    BY <1>inv, <1>0, <2>2, Groups DEF Join, TypeOK
  <2> QED
    BY <2>1, <2>2
<1>5. Once' /\ Checks' /\ Last' /\ Poisoned' = Poisoned
  <2>1. pc'[Main] \in {"join", "send"}
    BY <1>4
  <2> QED
    BY <1>0, <1>1, <1>2, <1>4, <2>1, ItemsStay
<1>6. Count(Producers, Going)' = Count(Producers, Going) /\ Count(Consumers, Going)' = Count(Consumers, Going)
  BY <1>0, <1>4, Groups, CountMoves
<1>7. Poisoned = 0
  BY <1>inv, <1>2 DEF Poisons
<1>8. CASE to_go[Main] > 1
  <2>1. pc'[Main] = "join" /\ to_go'[Main] = producer_finished' + Count(Producers, Going)'
    BY <1>2, <1>3, <1>4, <1>6, <1>8
  <2>2. Joins'
    BY <2>1 DEF Joins
  <2>3. Poisons'
    BY <1>5, <1>7, <2>1 DEF Poisons
  <2>4. Stops'
    BY <1>inv, <1>2, <1>6, <2>1, <1>0 DEF Stops
  <2> QED
    BY <1>1, <1>5, <2>2, <2>3, <2>4 DEF EndInv
<1>9. CASE ~ (to_go[Main] > 1)
  <2>1. pc'[Main] = "send" /\ to_go'[Main] = Cardinality(Consumers)
    BY <1>4, <1>9
  <2>2. \A p \in Producers : pc[p] = "done"
    <3>1. Count(Producers, Going) = 0
      BY <1>2, <1>3, <1>9
    <3>2. \A p \in Producers : pc[p] \in Places
      BY <1>inv, Groups DEF TypeOK
    <3> QED
      BY <3>1, <3>2, Groups, Counted DEF Places, Going
  <2>3. Joins'
    BY <1>0, <1>4, <2>1, <2>2, Groups DEF Joins
  <2>4. Poisons'
    <3>1. Consumers # {} => Cardinality(Consumers) > 0
      BY <1>3, Groups, FS_EmptySet
    <3> QED
      BY <1>3, <1>5, <1>7, <2>1, <3>1 DEF Poisons
  <2>5. Stops'
    BY <1>inv, <1>2, <1>6, <2>1 DEF Stops
  <2> QED
    BY <1>1, <1>5, <2>3, <2>4, <2>5 DEF EndInv
<1> QED
  BY <1>8, <1>9

LEMMA StopEnd ==
  ASSUME RingInv, EndInv, Stop PROVE RingInv' /\ EndInv' /\ Filled' = Filled /\ Oldest' = Oldest
<1>inv. TypeOK /\ Poisons /\ Joins /\ Stops
  BY DEF RingInv, EndInv
<1>0. Main \in Threads /\ Main \in Senders /\ Main \notin Consumers /\ Main \notin Producers
  BY Groups
<1>2. /\ pc[Main] = "stop" /\ consumer_finished > 0 /\ consumer_finished' = consumer_finished - 1
      /\ UNCHANGED <<item_buffer, item, check_count, consumed, producer_finished>>
  BY DEF Stop
<1>3. /\ to_go[Main] \in Nat /\ consumer_finished \in Nat /\ Count(Consumers, Going) \in Nat
      /\ to_go[Main] = consumer_finished + Count(Consumers, Going) /\ Consumers # {}
  BY <1>inv, <1>0, <1>2, Groups, Counted DEF TypeOK, Stops
<1>1. RingInv' /\ Filled' = Filled /\ Oldest' = Oldest
  <2>1. to_go[Main] > 0
    BY <1>2, <1>3
  <2> QED
    BY <1>0, <2>1, OtherStep
<1>4. /\ \A p \in Producers : to_go'[p] = to_go[p] /\ pc'[p] = pc[p]
      /\ \A u \in Threads \ {Main} : pc'[u] = pc[u]
      /\ to_go'[Main] = to_go[Main] - 1
      /\ pc'[Main] = IF to_go[Main] > 1 THEN "stop" ELSE "done"
  BY <1>inv, <1>0, Groups DEF Stop, TypeOK
<1>5. Once' /\ Checks' /\ Last' /\ Poisoned' = Poisoned
  <2>1. pc'[Main] \in {"stop", "done"}
    BY <1>4
  <2> QED
    BY <1>0, <1>1, <1>2, <1>4, <2>1, ItemsStay
<1>6. Count(Consumers, Going)' = Count(Consumers, Going)
  BY <1>0, <1>4, Groups, CountMoves
<1>7. Poisons' /\ Joins'
  <2>1. pc'[Main] \in {"stop", "done"}
    BY <1>4
  <2> QED
    BY <1>inv, <1>2, <1>4, <1>5, <2>1 DEF Poisons, Joins
<1>8. Stops'
  <2>1. CASE to_go[Main] > 1
    <3>1. to_go'[Main] = consumer_finished' + Count(Consumers, Going)'
      BY <1>2, <1>3, <1>4, <1>6
    <3> QED
      BY <1>3, <1>4, <2>1, <3>1 DEF Stops
  <2>2. CASE ~ (to_go[Main] > 1)
    <3>1. Count(Consumers, Going) = 0
      BY <1>2, <1>3, <2>2
    <3>2. \A c \in Consumers : pc[c] \in Places /\ pc[c] \notin Going
      BY <1>inv, <3>1, Groups, Counted DEF TypeOK
    <3>3. \A c \in Consumers : pc'[c] = "done"
      BY <1>0, <1>4, <3>2, Groups DEF Places, Going
    <3> QED
      BY <1>3, <1>4, <2>2, <3>3 DEF Stops
  <2> QED
    BY <2>1, <2>2
<1> QED
  BY <1>1, <1>5, <1>7, <1>8 DEF EndInv

LEMMA EndInit == ASSUME Init PROVE EndInv
<1>1. TypeOK /\ \A i \in Slots : item_buffer[i] = NULL
  BY RingInit DEF RingInv
<1>2. /\ item = [c \in Consumers |-> NULL] /\ check_count = [c \in Consumers |-> 0]
      /\ consumed = [x \in Items |-> 0] /\ producer_finished = 0 /\ consumer_finished = 0
      /\ pc[Main] = "join" /\ \A t \in Threads \ {Main} : pc[t] = "send"
      /\ to_go[Main] = Cardinality(Producers)
      /\ \A p \in Producers : to_go[p] = ITEMS_TO_PRODUCE
  BY Groups DEF Init
<1>3. \A x \in Items : /\ Cardinality(InSlots(x)) = 0 /\ Cardinality(InHands(x)) = 0
                       /\ consumed[x] = 0
  <2> SUFFICES ASSUME NEW x \in Items
               PROVE  /\ Cardinality(InSlots(x)) = 0 /\ Cardinality(InHands(x)) = 0
                      /\ consumed[x] = 0
    OBVIOUS
  <2>1. x # NULL
    BY NullAssumption
  <2>2. InSlots(x) = {} /\ InHands(x) = {}
    BY <1>1, <1>2, <2>1 DEF InSlots, InHands
  <2> QED
    BY <1>1, <1>2, <2>2, Tallies
<1>4. Once
  <2> SUFFICES ASSUME NEW p \in Producers, NEW k \in 1..ITEMS_TO_PRODUCE
               PROVE  Tally(<<p, k>>) = IF Produced(p, k) THEN 1 ELSE 0
    BY DEF Once
  <2>1. ~ Produced(p, k)
    BY <1>2, Groups, Sizes DEF Produced
  <2>2. Tally(<<p, k>>) = 0
    BY <1>3 DEF Tally, Items, Data
  <2> QED
    BY <2>1, <2>2
<1>5. Checks
  BY <1>2, DataSize DEF Checks
<1>6. Ending = {} /\ Poisoned = 0
  <2>1. Ending = {}
    BY <1>2, Groups, DataSize DEF Ending
  <2> QED
    BY <1>3, <2>1, EndingCounted DEF Poisoned, Items
<1>7. Poisons
  BY <1>2, <1>6 DEF Poisons
<1>8. Last
  BY <1>1, <1>6, DataSize DEF Last
<1>9. Joins /\ Stops
  <2>1. /\ Count(Producers, Going) = Cardinality(Producers)
        /\ Count(Consumers, Going) = Cardinality(Consumers)
    <3>1. \A t \in Threads \ {Main} : pc[t] \in Going
      BY <1>2 DEF Going
    <3>2. At(Producers, Going) = Producers /\ At(Consumers, Going) = Consumers
      BY <3>1, Groups DEF At
    <3> QED
      BY <3>2 DEF Count
  <2>2. Cardinality(Producers) \in Nat /\ Cardinality(Consumers) \in Nat
    BY Groups, FS_CardinalityType
  <2> QED
    BY <1>2, <2>1, <2>2 DEF Joins, Stops
<1> QED
  BY <1>4, <1>5, <1>7, <1>8, <1>9 DEF EndInv

LEMMA EndStutters == ASSUME EndInv, UNCHANGED vars PROVE EndInv'
<1>1. /\ UNCHANGED <<item_buffer, get, put, is_full, is_empty, mutex, producer_finished>>
      /\ UNCHANGED <<consumer_finished, pc, to_go, item, check_count, consumed>>
  BY DEF vars
<1>2. /\ \A x : InSlots(x)' = InSlots(x) /\ InHands(x)' = InHands(x)
      /\ Ending' = Ending /\ Oldest' = Oldest
      /\ \A S, places : Count(S, places)' = Count(S, places)
  BY <1>1 DEF InSlots, InHands, Ending, Oldest, Count, At
<1>3. Once' /\ Checks'
  BY <1>1, <1>2 DEF EndInv, Once, Tally, Produced, Checks, Dealt
<1>4. Poisons' /\ Last'
  BY <1>1, <1>2 DEF EndInv, Poisons, Poisoned, Last, Rank
<1>5. Joins' /\ Stops'
  BY <1>1, <1>2 DEF EndInv, Joins, Stops
<1> QED
  BY <1>3, <1>4, <1>5 DEF EndInv

\* The inductive step, one case per action.
LEMMA Inductive == ASSUME RingInv, EndInv, [Next]_vars PROVE RingInv' /\ EndInv'
<1>1. ASSUME NEW t \in Senders, Sender(t) PROVE RingInv' /\ EndInv'
  <2>0. t \in Threads
    BY Groups
  <2>1. CASE SendP(t) \/ Lock(t) \/ StepPut(t)
    BY <2>0, <2>1, MoveStays
  <2>2. CASE Write(t)
    BY <2>2, WriteStep, WriteEnd
  <2>3. CASE Sent(t)
    BY <2>3, SentStep, SentEnd
  <2> QED
    BY <1>1, <2>1, <2>2, <2>3 DEF Sender
<1>2. ASSUME NEW t \in Consumers, Consumer(t) PROVE RingInv' /\ EndInv'
  <2>0. t \in Threads
    BY Groups
  <2>1. CASE ReceiveP(t) \/ Lock(t) \/ StepGet(t)
    BY <2>0, <2>1, MoveStays
  <2>2. CASE Read(t)
    BY <2>2, ReadStep, ReadEnd
  <2>3. CASE Received(t)
    BY <2>3, ReceivedStep, ReceivedEnd
  <2>4. CASE ConsumerFinish(t)
    BY <2>4, ConsumerFinishEnd
  <2> QED
    BY <1>2, <2>1, <2>2, <2>3, <2>4 DEF Consumer
<1>3. ASSUME NEW t \in Producers, ProducerFinish(t) PROVE RingInv' /\ EndInv'
  BY <1>3, ProducerFinishEnd
<1>4. CASE Join \/ Stop
  BY <1>4, JoinEnd, StopEnd
<1>5. CASE UNCHANGED vars
  BY <1>5, RingStutters, EndStutters
<1>6. CASE Next
  <2>1. CASE \E p \in Producers : Sender(p) \/ ProducerFinish(p)
    BY <1>1, <1>3, <2>1, Groups
  <2>2. CASE \E c \in Consumers : Consumer(c)
    BY <1>2, <2>2
  <2>3. CASE MainStep
    BY <1>1, <1>4, <2>3, Groups DEF MainStep
  <2>4. CASE Over
    BY <1>5, <2>4 DEF Over
  <2> QED
    BY <1>6, <2>1, <2>2, <2>3, <2>4 DEF Next
<1> QED
  BY <1>5, <1>6

\* What holds when main is done: see QuietAtShutdown.
LEMMA QuietEnd == ASSUME RingInv, EndInv PROVE QuietAtShutdown
<1> SUFFICES ASSUME pc[Main] = "done"
             PROVE  /\ At(Threads \ {Main}, Places \ {"done"}) = {}
                    /\ is_full = 0 /\ is_empty = BUFFER_SIZE
                    /\ \A x \in Data : consumed[x] = 1
  BY DEF QuietAtShutdown
<1>inv. /\ TypeOK /\ Routes /\ Units /\ Once /\ Poisons /\ Last /\ Joins /\ Stops
  BY DEF RingInv, EndInv
<1>1. /\ \A p \in Producers : pc[p] = "done"
      /\ \A c \in Consumers : pc[c] = "done" /\ item[c] = NULL
      /\ Consumers # {}
  BY <1>inv DEF Joins, Stops, Routes
<1>2. \A t \in Threads : pc[t] = "done"
  BY <1>1 DEF Threads, Senders
<1>7. At(Threads \ {Main}, Places \ {"done"}) = {}
  BY <1>2 DEF At
<1>3. InSlots(Poison) = {}
  <2>1. Poison \in Items
    BY DEF Items
  <2>2. Ending = Consumers
    BY <1>1 DEF Ending
  <2>3. Cardinality(InSlots(Poison)) + Cardinality(Consumers) = Cardinality(Consumers)
    BY <1>inv, <1>1, <2>2 DEF Poisons, Poisoned
  <2>4. Cardinality(InSlots(Poison)) \in Nat /\ Cardinality(Consumers) \in Nat
    BY <1>inv, <2>1, Tallies, Groups, FS_CardinalityType
  <2>5. Cardinality(InSlots(Poison)) = 0
    BY <2>3, <2>4
  <2> QED
    BY <1>inv, <2>1, <2>5, Tallies
<1>4. \A i \in Slots : item_buffer[i] = NULL
  <2>1. Ending # {}
    BY <1>1 DEF Ending
  <2> QED
    BY <1>inv, <1>3, <2>1 DEF Last, InSlots
<1>5. is_full = 0 /\ is_empty = BUFFER_SIZE
  <2>1. {i \in Slots : item_buffer[i] # NULL} = {}
    BY <1>4
  <2>2. Filled = 0
    BY <2>1, FS_EmptySet DEF Filled
  <2>4. /\ Count(Senders, {"step", "post"}) = 0 /\ Count(Consumers, {"lock", "move"}) = 0
        /\ Count(Senders, {"lock", "move"}) = 0 /\ Count(Consumers, {"step", "post"}) = 0
    BY <1>2, Groups, Counted
  <2>5. is_full \in Nat /\ is_empty \in Nat
    BY <1>inv DEF TypeOK
  <2> QED
    BY <1>inv, <2>2, <2>4, <2>5, Sizes DEF Units
<1>6. ASSUME NEW x \in Data PROVE consumed[x] = 1
  <2>1. PICK p \in Producers, k \in 1..ITEMS_TO_PRODUCE : x = <<p, k>>
    BY DEF Data
  <2>2. Tally(x) = 1
    <3>1. to_go[p] = 0
      BY <1>inv, <1>1 DEF Routes
    <3>2. Produced(p, k)
      BY <3>1, Sizes DEF Produced
    <3> QED
      BY <1>inv, <2>1, <3>2 DEF Once
  <2>3. x \in Items /\ x # NULL
    BY DataSize DEF Items
  <2>4. InSlots(x) = {} /\ InHands(x) = {}
    BY <1>1, <1>4, <2>3 DEF InSlots, InHands
  <2>5. Cardinality(InSlots(x)) = 0 /\ Cardinality(InHands(x)) = 0 /\ consumed[x] \in Nat
    BY <1>inv, <2>3, <2>4, Tallies
  <2> QED
    BY <2>2, <2>5 DEF Tally
<1> QED
  BY <1>5, <1>6, <1>7

-----------------------------------------------------------------------------
(* The theorems.                                                           *)

LEMMA Always == Spec => [](RingInv /\ EndInv)
<1>1. Init => RingInv /\ EndInv
  BY RingInit, EndInit
<1>2. RingInv /\ EndInv /\ [Next]_vars => (RingInv /\ EndInv)'
  BY Inductive
<1> QED
  BY <1>1, <1>2, PTL DEF Spec

\* The indices stay in the ring, the counts are natural numbers and every thread
\* is at a place of the code, for any numbers of threads, slots and items.
THEOREM RingTypes == Spec => []TypeOK
<1>1. RingInv => TypeOK
  BY DEF RingInv
<1> QED
  BY <1>1, Always, PTL

\* producer_send finds its slot empty and consumer_receive its slot filled, in
\* whatever order the threads counted by the semaphores enter the critical
\* sections: neither KASSERT of the driver fails.
THEOREM NoKassertEver == Spec => []NoKassertFails
<1>1. RingInv => NoKassertFails
  BY NoKassertInRing
<1> QED
  BY <1>1, Always, PTL

\* is_full, is_empty and the threads between a P and its V account for every
\* slot of the ring at every moment.
THEOREM UnitsAlwaysConserved == Spec => []UnitsConserved
<1>1. RingInv => UnitsConserved
  BY UnitsAddUp
<1> QED
  BY <1>1, Always, PTL

\* When main destroys the semaphores every other thread has ended, the ring is
\* empty and each item has been consumed exactly once.
THEOREM ShutdownIsQuiet == Spec => []QuietAtShutdown
<1>1. RingInv /\ EndInv => QuietAtShutdown
  BY QuietEnd
<1> QED
  BY <1>1, Always, PTL

-----------------------------------------------------------------------------
(* The ring implements the queue.                                          *)

\* The queue in the n slots of f from o on, and its i-th slot.
RingQueue(f, o, n) == [i \in 1..n |-> f[(o + i - 1) % BUFFER_SIZE]]
Place(o, i) == IF o + i - 1 < BUFFER_SIZE THEN o + i - 1 ELSE o + i - 1 - BUFFER_SIZE

LEMMA Modulo ==
  ASSUME NEW b \in Nat \ {0}, NEW a \in Nat, a < b + b
  PROVE  a % b = IF a < b THEN a ELSE a - b
<1>1. CASE a < b
  BY <1>1
<1>2. CASE ~ (a < b)
  BY <1>2
<1> QED
  BY <1>1, <1>2

LEMMA PlaceIs ==
  ASSUME NEW o \in Slots, NEW i \in 1..BUFFER_SIZE
  PROVE  Place(o, i) \in Slots /\ (o + i - 1) % BUFFER_SIZE = Place(o, i)
<1>1. PICK a \in Nat : a = o + i - 1 /\ a < BUFFER_SIZE + BUFFER_SIZE
  BY Sizes
<1>2. (o + i - 1) % BUFFER_SIZE = Place(o, i)
  <2>1. a % BUFFER_SIZE = IF a < BUFFER_SIZE THEN a ELSE a - BUFFER_SIZE
    BY <1>1, SizeAssumption, Modulo
  <2>2. (o + i - 1) % BUFFER_SIZE = a % BUFFER_SIZE
    BY <1>1, Zenon
  <2>3. Place(o, i) = IF a < BUFFER_SIZE THEN a ELSE a - BUFFER_SIZE
    BY <1>1, Sizes DEF Place
  <2> QED
    BY <2>1, <2>2, <2>3
<1> QED
  BY <1>2, Sizes DEF Place

LEMMA RingQueueIs ==
  ASSUME NEW f, NEW o \in Slots, NEW n \in 0..BUFFER_SIZE,
         \A i \in 1..n : f[Place(o, i)] \in Items
  PROVE  /\ RingQueue(f, o, n) \in Seq(Items) /\ Len(RingQueue(f, o, n)) = n
         /\ \A i \in 1..n : RingQueue(f, o, n)[i] = f[Place(o, i)]
<1>1. n \in Nat /\ \A i \in 1..n : i \in 1..BUFFER_SIZE
  BY Sizes
<1>2. \A i \in 1..n : RingQueue(f, o, n)[i] = f[Place(o, i)]
  BY <1>1, PlaceIs DEF RingQueue
<1>3. RingQueue(f, o, n) \in [1..n -> Items]
  BY <1>1, <1>2 DEF RingQueue
<1>4. RingQueue(f, o, n) \in Seq(Items)
  BY <1>1, <1>3, SeqDef
<1>5. Len(RingQueue(f, o, n)) = n
  BY <1>1, <1>3, <1>4, LenProperties
<1> QED
  BY <1>2, <1>4, <1>5

\* What the queue holds, oldest first: the item of rank i - 1 is its i-th.
LEMMA QueueIs ==
  ASSUME RingInv
  PROVE  /\ Queue \in Seq(Items) /\ Len(Queue) = Filled
         /\ Filled \in 0..BUFFER_SIZE /\ Oldest \in Slots
         /\ \A i \in 1..Filled : /\ Place(Oldest, i) \in Slots
                                 /\ Rank(Place(Oldest, i)) = i - 1
                                 /\ Queue[i] = item_buffer[Place(Oldest, i)]
                                 /\ item_buffer[Place(Oldest, i)] \in Items
<1>1. Filled \in 0..BUFFER_SIZE /\ Oldest \in Slots /\ TypeOK
  BY FilledNat, Sizes, Ends DEF RingInv
<1>2. ASSUME NEW i \in 1..Filled
      PROVE  /\ Place(Oldest, i) \in Slots /\ Rank(Place(Oldest, i)) = i - 1
             /\ item_buffer[Place(Oldest, i)] \in Items
  <2>1. i \in 1..BUFFER_SIZE
    BY <1>1, Sizes
  <2>2. Place(Oldest, i) \in Slots
    BY <1>1, <2>1, PlaceIs
  <2>3. Rank(Place(Oldest, i)) = i - 1
    BY <1>1, <2>1, Sizes DEF Place, Rank
  <2>4. item_buffer[Place(Oldest, i)] # NULL
    BY <1>1, <2>1, <2>2, <2>3, Ranks
  <2> QED
    BY <1>1, <2>2, <2>3, <2>4 DEF TypeOK
<1>3. Queue = RingQueue(item_buffer, Oldest, Filled)
  BY DEF Queue, RingQueue
<1> QED
  BY <1>1, <1>2, <1>3, RingQueueIs

LEMMA WriteQueues ==
  ASSUME RingInv, NEW t \in Senders, Write(t)
  PROVE  Len(Queue) < BUFFER_SIZE /\ Queue' = Append(Queue, Made(t))
<1>1. PICK x : x = Made(t)
  OBVIOUS
<1>2. /\ x \in Items /\ x # NULL /\ Filled' = Filled + 1 /\ Oldest' = Oldest
  BY <1>1, WriteStep
<1>3. /\ pc[t] = "move" /\ item_buffer' = [item_buffer EXCEPT ![put] = x]
  BY <1>1 DEF Write, Go
<1>4. /\ Filled < BUFFER_SIZE /\ End = put /\ item_buffer[put] = NULL /\ put \in Slots
  BY <1>3, SlotEmpty
<1>5. /\ item_buffer'[put] = x
      /\ \A i \in Slots \ {put} : item_buffer'[i] = item_buffer[i]
  BY <1>3, <1>4 DEF RingInv, TypeOK
<1>6. /\ Queue \in Seq(Items) /\ Len(Queue) = Filled /\ Filled \in Nat /\ BUFFER_SIZE \in Nat
      /\ Oldest \in Slots
  BY QueueIs, Sizes
<1>7. Place(Oldest, Filled + 1) = put
  <2>1. Oldest + Filled = put \/ Oldest + Filled = put + BUFFER_SIZE
    BY <1>4 DEF RingInv, Ring
  <2> QED
    BY <1>4, <1>6, <2>1, Sizes DEF Place
<1>8. ASSUME NEW i \in 1..Filled
      PROVE  /\ item_buffer'[Place(Oldest, i)] = Queue[i] /\ Queue[i] \in Items
  <2>1. Place(Oldest, i) \in Slots /\ Queue[i] = item_buffer[Place(Oldest, i)] /\ Queue[i] \in Items
    BY QueueIs
  <2>2. Place(Oldest, i) # put
    BY <1>4, <2>1, NullAssumption
  <2> QED
    BY <1>5, <2>1, <2>2
<1>9. \A i \in 1..(Filled + 1) : item_buffer'[Place(Oldest, i)] \in Items
  <2> SUFFICES ASSUME NEW i \in 1..(Filled + 1) PROVE item_buffer'[Place(Oldest, i)] \in Items
    OBVIOUS
  <2>1. i = Filled + 1 \/ i \in 1..Filled
    BY <1>6
  <2> QED
    BY <1>2, <1>5, <1>7, <1>8, <2>1
<1>10. Queue' = RingQueue(item_buffer', Oldest, Filled + 1)
  BY <1>2 DEF Queue, RingQueue
<1>11. /\ Queue' \in Seq(Items) /\ Len(Queue') = Filled + 1
       /\ \A i \in 1..(Filled + 1) : Queue'[i] = item_buffer'[Place(Oldest, i)]
  <2>1. Filled + 1 \in 0..BUFFER_SIZE
    BY <1>4, <1>6
  <2> QED
    BY <1>6, <1>9, <1>10, <2>1, RingQueueIs
<1>12. /\ Append(Queue, x) \in Seq(Items) /\ Len(Append(Queue, x)) = Filled + 1
       /\ \A i \in 1..Filled : Append(Queue, x)[i] = Queue[i]
       /\ Append(Queue, x)[Filled + 1] = x
  BY <1>2, <1>6, AppendProperties
<1>13. \A i \in 1..(Filled + 1) : Queue'[i] = Append(Queue, x)[i]
  <2> SUFFICES ASSUME NEW i \in 1..(Filled + 1) PROVE Queue'[i] = Append(Queue, x)[i]
    OBVIOUS
  <2>1. i = Filled + 1 \/ i \in 1..Filled
    BY <1>6
  <2> QED
    BY <1>5, <1>7, <1>8, <1>11, <1>12, <2>1
<1>14. Queue' = Append(Queue, x)
  BY <1>11, <1>12, <1>13, SeqEqual
<1> QED
  BY <1>1, <1>4, <1>6, <1>14

LEMMA ReadQueues ==
  ASSUME RingInv, NEW t \in Consumers, Read(t)
  PROVE  Queue # <<>> /\ Queue' = Tail(Queue) /\ Head(Queue) = item_buffer[get]
<1>1. Filled' = Filled - 1 /\ Oldest' = Step(Oldest)
  BY ReadStep
<1>2. pc[t] = "move" /\ item_buffer' = [item_buffer EXCEPT ![get] = NULL]
  BY DEF Read, Go
<1>3. Filled > 0 /\ Oldest = get /\ item_buffer[get] # NULL /\ get \in Slots
  BY <1>2, SlotFull
<1>4. /\ item_buffer'[get] = NULL
      /\ \A i \in Slots \ {get} : item_buffer'[i] = item_buffer[i]
  BY <1>2, <1>3 DEF RingInv, TypeOK
<1>5. /\ Queue \in Seq(Items) /\ Len(Queue) = Filled /\ Filled \in Nat /\ BUFFER_SIZE \in Nat
      /\ Filled <= BUFFER_SIZE /\ Oldest \in Slots
  BY QueueIs, Sizes
<1>6. Queue # <<>>
  BY <1>3, <1>5, EmptySeq
<1>7. Head(Queue) = item_buffer[get]
  <2>1. Head(Queue) = Queue[1]
    BY <1>5, <1>6
  <2>2. Place(Oldest, 1) = get
    BY <1>3, Sizes DEF Place
  <2>3. 1 \in 1..Filled
    BY <1>3, <1>5
  <2> QED
    BY <2>1, <2>2, <2>3, QueueIs
<1>8. PICK o \in Slots : o = Step(Oldest)
  BY <1>5, Steps
<1>9. ASSUME NEW i \in 1..(Filled - 1)
      PROVE  /\ Place(o, i) = Place(Oldest, i + 1) /\ i + 1 \in 1..Filled
             /\ item_buffer'[Place(o, i)] = Queue[i + 1]
             /\ item_buffer'[Place(o, i)] \in Items
  <2>1. i + 1 \in 1..Filled /\ i \in Nat /\ i >= 1
    BY <1>5
  <2>2. Place(o, i) = Place(Oldest, i + 1)
    BY <1>5, <1>8, <2>1, Sizes DEF Place, Step
  <2>3. /\ Place(Oldest, i + 1) \in Slots /\ Rank(Place(Oldest, i + 1)) = (i + 1) - 1
        /\ Queue[i + 1] = item_buffer[Place(Oldest, i + 1)]
        /\ item_buffer[Place(Oldest, i + 1)] \in Items
    BY <2>1, QueueIs
  <2>4. Place(Oldest, i + 1) # get
    <3>1. Rank(get) = 0
      BY <1>3, Ranks
    <3> QED
      BY <2>1, <2>3, <3>1
  <2> QED
    BY <1>4, <2>1, <2>2, <2>3, <2>4
<1>10. Queue' = RingQueue(item_buffer', o, Filled - 1)
  BY <1>1, <1>8 DEF Queue, RingQueue
<1>11. /\ Queue' \in Seq(Items) /\ Len(Queue') = Filled - 1
       /\ \A i \in 1..(Filled - 1) : Queue'[i] = item_buffer'[Place(o, i)]
  <2>1. Filled - 1 \in 0..BUFFER_SIZE
    BY <1>3, <1>5
  <2> QED
    BY <1>8, <1>9, <1>10, <2>1, RingQueueIs
<1>12. /\ Tail(Queue) \in Seq(Items) /\ Len(Tail(Queue)) = Filled - 1
       /\ \A i \in 1..(Filled - 1) : Tail(Queue)[i] = Queue[i + 1]
  BY <1>5, <1>6, HeadTailProperties
<1>13. Queue' = Tail(Queue)
  <2>1. \A i \in 1..(Filled - 1) : Queue'[i] = Tail(Queue)[i]
    BY <1>9, <1>11, <1>12
  <2> QED
    BY <1>11, <1>12, <2>1, SeqEqual
<1> QED
  BY <1>6, <1>7, <1>13

LEMMA RefinesInit == ASSUME Init PROVE Abstract!Init
<1>1. Queue \in Seq(Items) /\ Len(Queue) = 0
  BY RingInit, QueueIs
<1>2. Queue = <<>>
  BY <1>1, EmptySeq
<1> QED
  BY <1>2 DEF Init, Abstract!Init

\* A step that moves no item is a stutter of the queue.
LEMMA RefinesStutter ==
  ASSUME item_buffer' = item_buffer, item' = item, Filled' = Filled, Oldest' = Oldest
  PROVE  UNCHANGED Abstract!vars
<1>1. Queue' = Queue
  BY DEF Queue
<1> QED
  BY <1>1 DEF Abstract!vars

LEMMA RefinesSender ==
  ASSUME RingInv, EndInv, NEW t \in Senders, Sender(t)
  PROVE  Abstract!Next \/ UNCHANGED Abstract!vars
<1>0. t \in Threads
  BY Groups
<1>1. CASE SendP(t) \/ Lock(t) \/ StepPut(t)
  <2>1. Filled' = Filled /\ Oldest' = Oldest
    BY <1>0, <1>1, MoveStays
  <2>2. item_buffer' = item_buffer /\ item' = item
    BY <1>1 DEF SendP, Lock, StepPut
  <2> QED
    BY <2>1, <2>2, RefinesStutter
<1>2. CASE Write(t)
  <2>1. Abstract!Send(Made(t))
    BY <1>2, WriteQueues DEF Abstract!Send, Write
  <2>2. Made(t) \in Items
    BY <1>2, WriteStep
  <2> QED
    BY <2>1, <2>2 DEF Abstract!Next
<1>3. CASE Sent(t)
  <2>1. Filled' = Filled /\ Oldest' = Oldest
    BY <1>3, SentStep
  <2>2. item_buffer' = item_buffer /\ item' = item
    BY <1>3 DEF Sent
  <2> QED
    BY <2>1, <2>2, RefinesStutter
<1> QED
  BY <1>1, <1>2, <1>3 DEF Sender

LEMMA RefinesConsumer ==
  ASSUME RingInv, EndInv, NEW t \in Consumers, Consumer(t)
  PROVE  Abstract!Next \/ UNCHANGED Abstract!vars
<1>inv. TypeOK /\ Routes
  BY DEF RingInv
<1>0. t \in Threads
  BY Groups
<1>1. CASE ReceiveP(t) \/ Lock(t) \/ StepGet(t)
  <2>1. Filled' = Filled /\ Oldest' = Oldest
    BY <1>0, <1>1, MoveStays
  <2>2. item_buffer' = item_buffer /\ item' = item
    BY <1>1 DEF ReceiveP, Lock, StepGet
  <2> QED
    BY <2>1, <2>2, RefinesStutter
<1>2. CASE Read(t)
  <2>1. item[t] = NULL
    BY <1>inv, <1>2 DEF Read, Go, Routes
  <2>2. item' = [item EXCEPT ![t] = Head(Queue)]
    BY <1>2, ReadQueues DEF Read
  <2>3. Abstract!Receive(t)
    BY <1>2, <2>1, <2>2, ReadQueues DEF Abstract!Receive
  <2> QED
    BY <2>3 DEF Abstract!Next
<1>3. CASE Received(t)
  <2>1. item[t] # NULL /\ item' = [item EXCEPT ![t] = NULL] /\ item_buffer' = item_buffer
    BY <1>inv, <1>3 DEF Received, Routes
  <2>2. Queue' = Queue
    BY <1>3, <2>1, ReceivedStep DEF Queue
  <2>3. Abstract!Finish(t)
    BY <2>1, <2>2 DEF Abstract!Finish
  <2> QED
    BY <2>3 DEF Abstract!Next
<1>4. CASE ConsumerFinish(t)
  <2>1. Filled' = Filled /\ Oldest' = Oldest
    BY <1>4, ConsumerFinishEnd
  <2>2. item_buffer' = item_buffer /\ item' = item
    BY <1>4 DEF ConsumerFinish
  <2> QED
    BY <2>1, <2>2, RefinesStutter
<1> QED
  BY <1>1, <1>2, <1>3, <1>4 DEF Consumer

LEMMA RefinesNext ==
  ASSUME RingInv, EndInv, [Next]_vars PROVE [Abstract!Next]_(Abstract!vars)
<1>1. ASSUME NEW t \in Producers, ProducerFinish(t) PROVE UNCHANGED Abstract!vars
  <2>1. Filled' = Filled /\ Oldest' = Oldest
    BY <1>1, ProducerFinishEnd
  <2>2. item_buffer' = item_buffer /\ item' = item
    BY <1>1 DEF ProducerFinish
  <2> QED
    BY <2>1, <2>2, RefinesStutter
<1>2. CASE Join \/ Stop
  <2>1. Filled' = Filled /\ Oldest' = Oldest
    BY <1>2, JoinEnd, StopEnd
  <2>2. item_buffer' = item_buffer /\ item' = item
    BY <1>2 DEF Join, Stop
  <2> QED
    BY <2>1, <2>2, RefinesStutter
<1>3. CASE UNCHANGED vars
  <2>1. Filled' = Filled /\ Oldest' = Oldest
    BY <1>3, RingStutters
  <2>2. item_buffer' = item_buffer /\ item' = item
    BY <1>3 DEF vars
  <2> QED
    BY <2>1, <2>2, RefinesStutter
<1>4. CASE Next
  <2>1. CASE \E p \in Producers : Sender(p) \/ ProducerFinish(p)
    BY <1>1, <2>1, Groups, RefinesSender
  <2>2. CASE \E c \in Consumers : Consumer(c)
    BY <2>2, RefinesConsumer
  <2>3. CASE MainStep
    BY <1>2, <2>3, Groups, RefinesSender DEF MainStep
  <2>4. CASE Over
    BY <1>3, <2>4 DEF Over
  <2> QED
    BY <1>4, <2>1, <2>2, <2>3, <2>4 DEF Next
<1> QED
  BY <1>3, <1>4

\* The ring, its indices and its semaphores implement the bounded queue: an item
\* enters when its slot is written, leaves when its slot is read, oldest first,
\* goes to one consumer, and never more than BUFFER_SIZE are there.
THEOREM RingIsQueue == Spec => ImplementsQueue
<1>1. Init => Abstract!Init
  BY RefinesInit
<1>2. RingInv /\ EndInv /\ [Next]_vars => [Abstract!Next]_(Abstract!vars)
  BY RefinesNext
<1> QED
  BY <1>1, <1>2, Always, PTL DEF Spec, ImplementsQueue, Abstract!Spec

=============================================================================
