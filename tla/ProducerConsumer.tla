-------------------------- MODULE ProducerConsumer --------------------------
(***************************************************************************)
(* The bounded buffer of asst1 (kern/asst1/producerconsumer.c) and the     *)
(* simulation that uses it (producerconsumer_driver.c): producers send     *)
(* their items and finish; then the main thread sends every consumer a     *)
(* (0,0) item, which ends it, waits for all of them and shuts down.        *)
(*                                                                         *)
(* P and V are the atomic operations of AtomicSemaphore, which Semaphore   *)
(* implements; a thread blocked in P is one whose P is not enabled.  A     *)
(* thread that was not yet forked is one that has not taken a step.        *)
(***************************************************************************)
EXTENDS Naturals, Sequences, FiniteSets

CONSTANTS Producers, Consumers,
          Main,                    \* the thread that runs run_producerconsumer
          BUFFER_SIZE, ITEMS_TO_PRODUCE, SOMETHING_WRONG_COUNT,
          NULL

ASSUME SizeAssumption == BUFFER_SIZE \in Nat \ {0} /\ ITEMS_TO_PRODUCE \in Nat \ {0}
ASSUME ThreadsAssumption == /\ IsFiniteSet(Producers) /\ IsFiniteSet(Consumers)
                            /\ Producers \cap Consumers = {}
                            /\ Main \notin Producers \cup Consumers

\* SOMETHING_WRONG_COUNT is out of reach (10000 against 20 * 300 items).
ASSUME WrongCountAssumption ==
  /\ SOMETHING_WRONG_COUNT \in Nat
  /\ Cardinality(Producers) * ITEMS_TO_PRODUCE < SOMETHING_WRONG_COUNT

Senders == Producers \cup {Main}
Threads == Senders \cup Consumers
Slots == 0..(BUFFER_SIZE - 1)

\* A producer's items differ in data1; those of (0,0) are all alike.
Data == Producers \X (1..ITEMS_TO_PRODUCE)
Poison == <<Main, 0>>
Items == Data \cup {Poison}
ASSUME NullAssumption == NULL \notin Items

VARIABLES
  item_buffer, get, put,
  is_full, is_empty, mutex,               \* counts of the semaphores
  producer_finished, consumer_finished,   \* likewise
  pc,           \* where each thread is, see Places
  to_go,        \* items_to_go of a producer; the loop counters of main
  item,         \* a consumer's item, or NULL
  check_count,
  consumed      \* ghost: how often consumers have dealt with each item

vars == <<item_buffer, get, put, is_full, is_empty, mutex, producer_finished,
          consumer_finished, pc, to_go, item, check_count, consumed>>
sems == <<is_full, is_empty, mutex, producer_finished, consumer_finished>>

\* send: at the P of producer_send or consumer_receive that counts items.
\* lock: at P(mutex).  move: in the critical section.  step: the slot is
\* written or read, the index not yet stepped.  post: at the V that counts items.
\* finish: at V(producer_finished) or V(consumer_finished).  Main only: join, at
\* P(producer_finished), and stop, at P(consumer_finished).
Places == {"send", "lock", "move", "step", "post", "finish", "join", "stop", "done"}

Init == /\ item_buffer = [i \in Slots |-> NULL]
        /\ get = 0 /\ put = 0
        /\ is_full = 0 /\ is_empty = BUFFER_SIZE /\ mutex = 1
        /\ producer_finished = 0 /\ consumer_finished = 0
        /\ pc = [t \in Threads |-> IF t = Main THEN "join" ELSE "send"]
        /\ to_go = [t \in Senders |->
                      IF t = Main THEN Cardinality(Producers) ELSE ITEMS_TO_PRODUCE]
        /\ item = [c \in Consumers |-> NULL]
        /\ check_count = [c \in Consumers |-> 0]
        /\ consumed = [x \in Items |-> 0]

Go(t, from, to) == pc[t] = from /\ pc' = [pc EXCEPT ![t] = to]

\* The index after i in the ring.
Step(i) == IF i + 1 = BUFFER_SIZE THEN 0 ELSE i + 1

\* What sender t has made to send.
Made(t) == IF t = Main THEN Poison ELSE <<t, to_go[t]>>

-----------------------------------------------------------------------------
\* producer_send.
SendP(t) == /\ Go(t, "send", "lock")
            /\ is_empty > 0
            /\ is_empty' = is_empty - 1
            /\ UNCHANGED <<item_buffer, get, put, is_full, mutex, producer_finished,
                           consumer_finished, to_go, item, check_count, consumed>>

LockNone(t) ==                                  \* mutant: no P(mutex)
  /\ Go(t, "lock", "move")
  /\ UNCHANGED <<item_buffer, get, put, sems, to_go, item, check_count, consumed>>

\* P(mutex), in producer_send and consumer_receive.
Lock(t) == /\ Go(t, "lock", "move")
           /\ mutex > 0
           /\ mutex' = mutex - 1
           /\ UNCHANGED <<item_buffer, get, put, is_full, is_empty, producer_finished,
                          consumer_finished, to_go, item, check_count, consumed>>

Write(t) == /\ Go(t, "move", "step")
            /\ item_buffer' = [item_buffer EXCEPT ![put] = Made(t)]
            /\ UNCHANGED <<get, put, sems, to_go, item, check_count, consumed>>

\* ++put, wrapped, and V(mutex).
StepPut(t) == /\ Go(t, "step", "post")
              /\ put' = Step(put)
              /\ mutex' = mutex + 1
              /\ UNCHANGED <<item_buffer, get, is_full, is_empty, producer_finished,
                             consumer_finished, to_go, item, check_count, consumed>>

PostFullForgotten == is_full' = is_full         \* mutant: no V(is_full)
PostFull == is_full' = is_full + 1

\* V(is_full) and the sender's loop: a producer ends after its last item, main
\* sends one (0,0) item per consumer and then waits for the consumers.
Sent(t) == /\ pc[t] = "post"
           /\ PostFull
           /\ IF to_go[t] > 1
              THEN /\ to_go' = [to_go EXCEPT ![t] = to_go[t] - 1]
                   /\ pc' = [pc EXCEPT ![t] = "send"]
              ELSE /\ to_go' = [to_go EXCEPT ![t] = IF t = Main THEN Cardinality(Consumers)
                                                    ELSE 0]
                   /\ pc' = [pc EXCEPT ![t] = IF t = Main THEN "stop" ELSE "finish"]
           /\ UNCHANGED <<item_buffer, get, put, is_empty, mutex, producer_finished,
                          consumer_finished, item, check_count, consumed>>

ProducerFinish(p) == /\ Go(p, "finish", "done")
                     /\ producer_finished' = producer_finished + 1
                     /\ UNCHANGED <<item_buffer, get, put, is_full, is_empty, mutex,
                                    consumer_finished, to_go, item, check_count, consumed>>

-----------------------------------------------------------------------------
\* consumer_receive.
ReceiveP(c) == /\ Go(c, "send", "lock")
               /\ is_full > 0
               /\ is_full' = is_full - 1
               /\ UNCHANGED <<item_buffer, get, put, is_empty, mutex, producer_finished,
                              consumer_finished, to_go, item, check_count, consumed>>

Read(c) == /\ Go(c, "move", "step")
           /\ item' = [item EXCEPT ![c] = item_buffer[get]]
           /\ item_buffer' = [item_buffer EXCEPT ![get] = NULL]
           /\ UNCHANGED <<get, put, sems, to_go, check_count, consumed>>

StepGet(c) == /\ Go(c, "step", "post")
              /\ get' = Step(get)
              /\ mutex' = mutex + 1
              /\ UNCHANGED <<item_buffer, put, is_full, is_empty, producer_finished,
                             consumer_finished, to_go, item, check_count, consumed>>

PostEmptyForgotten == is_empty' = is_empty      \* mutant: no V(is_empty)
PostEmpty == is_empty' = is_empty + 1

\* V(is_empty), the end of consumer_receive, and consumer_thread's loop: it
\* ends on (0,0) or on the item that takes the count to SOMETHING_WRONG_COUNT.
Received(c) ==
  LET more == item[c] # Poison /\ check_count[c] + 1 < SOMETHING_WRONG_COUNT IN
  /\ pc[c] = "post"
  /\ PostEmpty
  /\ item' = [item EXCEPT ![c] = NULL]
  /\ consumed' = [consumed EXCEPT ![item[c]] = @ + 1]
  /\ check_count' = [check_count EXCEPT ![c] = IF item[c] = Poison THEN @ ELSE @ + 1]
  /\ pc' = [pc EXCEPT ![c] = IF more THEN "send" ELSE "finish"]
  /\ UNCHANGED <<item_buffer, get, put, is_full, mutex, producer_finished,
                 consumer_finished, to_go>>

ConsumerFinish(c) == /\ Go(c, "finish", "done")
                     /\ consumer_finished' = consumer_finished + 1
                     /\ UNCHANGED <<item_buffer, get, put, is_full, is_empty, mutex,
                                    producer_finished, to_go, item, check_count, consumed>>

-----------------------------------------------------------------------------
JoinOne ==                                      \* mutant: waits for one producer
  /\ pc[Main] = "join"
  /\ producer_finished > 0
  /\ producer_finished' = producer_finished - 1
  /\ to_go' = [to_go EXCEPT ![Main] = Cardinality(Consumers)]
  /\ pc' = [pc EXCEPT ![Main] = "send"]
  /\ UNCHANGED <<item_buffer, get, put, is_full, is_empty, mutex, consumer_finished,
                 item, check_count, consumed>>

\* wait_for_producer_threads.
Join == /\ pc[Main] = "join"
        /\ producer_finished > 0
        /\ producer_finished' = producer_finished - 1
        /\ IF to_go[Main] > 1
           THEN to_go' = [to_go EXCEPT ![Main] = @ - 1] /\ UNCHANGED pc
           ELSE /\ to_go' = [to_go EXCEPT ![Main] = Cardinality(Consumers)]
                /\ pc' = [pc EXCEPT ![Main] = "send"]
        /\ UNCHANGED <<item_buffer, get, put, is_full, is_empty, mutex, consumer_finished,
                       item, check_count, consumed>>

\* The rest of stop_consumer_threads; after it the semaphores are destroyed.
Stop == /\ pc[Main] = "stop"
        /\ consumer_finished > 0
        /\ consumer_finished' = consumer_finished - 1
        /\ to_go' = [to_go EXCEPT ![Main] = @ - 1]
        /\ pc' = [pc EXCEPT ![Main] = IF to_go[Main] > 1 THEN "stop" ELSE "done"]
        /\ UNCHANGED <<item_buffer, get, put, is_full, is_empty, mutex, producer_finished,
                       item, check_count, consumed>>

Sender(t) == SendP(t) \/ Lock(t) \/ Write(t) \/ StepPut(t) \/ Sent(t)
Consumer(c) == ReceiveP(c) \/ Lock(c) \/ Read(c) \/ StepGet(c) \/ Received(c) \/ ConsumerFinish(c)
MainStep == Sender(Main) \/ Join \/ Stop

\* Everybody is done: the simulation is over.
Over == (\A t \in Threads : pc[t] = "done") /\ UNCHANGED vars

Next == \/ \E p \in Producers : Sender(p) \/ ProducerFinish(p)
        \/ \E c \in Consumers : Consumer(c)
        \/ MainStep
        \/ Over

\* A thread that can take a step is run.  No P is promised to succeed while
\* others take the units: the semaphores are not fair.
Spec == /\ Init /\ [][Next]_vars
        /\ \A p \in Producers : WF_vars(Sender(p) \/ ProducerFinish(p))
        /\ \A c \in Consumers : WF_vars(Consumer(c))
        /\ WF_vars(MainStep)

-----------------------------------------------------------------------------
TypeOK == /\ item_buffer \in [Slots -> Items \cup {NULL}]
          /\ get \in Slots /\ put \in Slots
          /\ is_full \in Nat /\ is_empty \in Nat /\ mutex \in Nat
          /\ producer_finished \in Nat /\ consumer_finished \in Nat
          /\ pc \in [Threads -> Places]
          /\ to_go \in [Senders -> Nat]
          /\ item \in [Consumers -> Items \cup {NULL}]
          /\ check_count \in [Consumers -> Nat]
          /\ consumed \in [Items -> Nat]

At(S, places) == {t \in S : pc[t] \in places}

\* The KASSERTs: producer_send writes to an empty slot, consumer_receive finds
\* an item, although the semaphores count items in another order than the
\* critical sections are entered.
NoKassertFails == /\ \A t \in At(Senders, {"move"}) : item_buffer[put] = NULL
                  /\ \A c \in At(Consumers, {"step", "post"}) : item[c] # NULL

\* The two counts and the threads between them account for every slot.
UnitsConserved ==
  BUFFER_SIZE = is_empty + is_full + Cardinality(At(Threads, {"lock", "move", "step", "post"}))

\* When main destroys the semaphores, nobody is in or about to enter a P or V
\* of theirs, all items have been consumed and the buffer is empty.
QuietAtShutdown ==
  pc[Main] = "done" =>
    /\ At(Threads \ {Main}, Places \ {"done"}) = {}
    /\ is_full = 0 /\ is_empty = BUFFER_SIZE
    /\ \A x \in Data : consumed[x] = 1

\* The simulation ends, although a producer or consumer can be passed over at
\* a semaphore any number of times.
Terminates == <>(pc[Main] = "done")

\* The ring as a queue: the slots from get on, or from the next one when get's
\* has been read already.
Oldest == IF At(Consumers, {"step"}) # {} THEN Step(get) ELSE get
Filled == Cardinality({i \in Slots : item_buffer[i] # NULL})
Queue == [i \in 1..Filled |-> item_buffer[(Oldest + i - 1) % BUFFER_SIZE]]

Abstract == INSTANCE BoundedQueue WITH Size <- BUFFER_SIZE, None <- NULL,
                                       queue <- Queue, hand <- item

\* Ring, indices and semaphores implement the bounded first-in-first-out queue.
ImplementsQueue == Abstract!Spec
=============================================================================
