---------------------------- MODULE BoundedQueue ----------------------------
(***************************************************************************)
(* What producer_send and consumer_receive promise together: a queue of at *)
(* most Size items, first in first out, of which each item is handed to    *)
(* one consumer (asst1/producerconsumer_driver.h, "should block if ...").  *)
(***************************************************************************)
EXTENDS Naturals, Sequences

CONSTANTS Items, Consumers, Size, None

VARIABLES queue,   \* the items sent and not yet received, oldest first
          hand     \* the item a consumer has received and not yet dealt with

vars == <<queue, hand>>

Init == queue = <<>> /\ hand = [c \in Consumers |-> None]

Send(x) == /\ Len(queue) < Size
           /\ queue' = Append(queue, x)
           /\ UNCHANGED hand

Receive(c) == /\ hand[c] = None
              /\ queue # <<>>
              /\ hand' = [hand EXCEPT ![c] = Head(queue)]
              /\ queue' = Tail(queue)

Finish(c) == /\ hand[c] # None
             /\ hand' = [hand EXCEPT ![c] = None]
             /\ UNCHANGED queue

Next == \/ \E x \in Items : Send(x)
        \/ \E c \in Consumers : Receive(c) \/ Finish(c)

Spec == Init /\ [][Next]_vars
=============================================================================
