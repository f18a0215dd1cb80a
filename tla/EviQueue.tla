------------------------------ MODULE EviQueue ------------------------------
(***************************************************************************)
(* The EVI queue manager, include/evi_queue.h: several FIFO queues and one *)
(* LIFO free list, all threaded through one array of next indexes.         *)
(*                                                                         *)
(* Every operation runs under the queue_lock of its ring, so each one is a *)
(* single step.  The callers are modelled by the set held: a slot may be   *)
(* pushed or enqueued only by the thread that got it from a pop or a       *)
(* dequeue.  fifo and stack are history variables: the queue contents that *)
(* the sequence of operations should have produced.  No operation reads    *)
(* them; Coupled compares the index chains with them.                      *)
(***************************************************************************)
EXTENDS Integers, Sequences, Functions

CONSTANTS
  Queues,       \* queue identifiers, {} when eviq_init is called with queues = 0
  FreeElems     \* free_elems: number of elements handled

\* eviq_init writes next[free_elems - 1], and an index is an int16_t.
ASSUME FreeElemsAssumption == FreeElems \in 1 .. (2^15 - 1)

Slots == 0 .. (FreeElems - 1)

EVIQ_NONE == -1

\* Queues are numbered from 0.
ASSUME QueuesAssumption == EVIQ_NONE \notin Queues

VARIABLES
  head, tail,   \* first and last slot of every queue
  free,         \* first slot of the free list
  next,         \* the chain of every slot
  held,         \* slots owned by callers
  fifo, stack   \* history: contents of the queues and of the free list

eviq_vars == <<head, tail, free, next, held, fifo, stack>>

\* eviq_init: all elements are chained in the free list, the queues are empty.
eviq_init ==
  /\ head = [q \in Queues |-> EVIQ_NONE]
  /\ tail = [q \in Queues |-> EVIQ_NONE]
  /\ free = 0
  /\ next = [s \in Slots |-> IF s = FreeElems - 1 THEN EVIQ_NONE ELSE s + 1]
  /\ held = {}
  /\ fifo = [q \in Queues |-> <<>>]
  /\ stack = [i \in 1 .. FreeElems |-> i - 1]

eviq_free_avail == free # EVIQ_NONE

eviq_avail(q) == head[q] # EVIQ_NONE

\* eviq_free_pop.  With an empty list it returns EVIQ_NONE and changes nothing.
eviq_free_pop ==
  /\ eviq_free_avail
  /\ free' = next[free]
  /\ held' = held \cup {free}
  /\ stack' = Tail(stack)
  /\ UNCHANGED <<head, tail, next, fifo>>

eviq_free_push(s) ==
  /\ next' = [next EXCEPT ![s] = free]
  /\ free' = s
  /\ held' = held \ {s}
  /\ stack' = <<s>> \o stack
  /\ UNCHANGED <<head, tail, fifo>>

\* Deviation: eviq_enqueue that links the new element in front of the head.
EnqueueAtHead(q, s) ==
  /\ next' = [next EXCEPT ![s] = head[q]]
  /\ head' = [head EXCEPT ![q] = s]
  /\ tail' = IF eviq_avail(q) THEN tail ELSE [tail EXCEPT ![q] = s]
  /\ held' = held \ {s}
  /\ fifo' = [fifo EXCEPT ![q] = Append(@, s)]
  /\ UNCHANGED <<free, stack>>

\* eviq_enqueue: the new last element ends the chain; it is linked behind the
\* old tail, or becomes the head of an empty queue.
eviq_enqueue(q, s) ==
  /\ IF tail[q] # EVIQ_NONE
       THEN /\ next' = [next EXCEPT ![s] = EVIQ_NONE, ![tail[q]] = s]
            /\ UNCHANGED head
       ELSE /\ next' = [next EXCEPT ![s] = EVIQ_NONE]
            /\ head' = [head EXCEPT ![q] = s]
  /\ tail' = [tail EXCEPT ![q] = s]
  /\ held' = held \ {s}
  /\ fifo' = [fifo EXCEPT ![q] = Append(@, s)]
  /\ UNCHANGED <<free, stack>>

\* Deviation: eviq_dequeue that leaves the tail of an emptied queue behind.
DequeueKeepsTail(q) ==
  /\ eviq_avail(q)
  /\ head' = [head EXCEPT ![q] = next[head[q]]]
  /\ held' = held \cup {head[q]}
  /\ fifo' = [fifo EXCEPT ![q] = Tail(@)]
  /\ UNCHANGED <<tail, free, next, stack>>

\* eviq_dequeue.  With an empty queue it returns EVIQ_NONE and changes nothing.
eviq_dequeue(q) ==
  /\ eviq_avail(q)
  /\ tail' = IF next[head[q]] = EVIQ_NONE
               THEN [tail EXCEPT ![q] = EVIQ_NONE]
               ELSE tail
  /\ head' = [head EXCEPT ![q] = next[head[q]]]
  /\ held' = held \cup {head[q]}
  /\ fifo' = [fifo EXCEPT ![q] = Tail(@)]
  /\ UNCHANGED <<free, next, stack>>

EviqNext ==
  \/ eviq_free_pop
  \/ \E s \in held : eviq_free_push(s)
  \/ \E q \in Queues, s \in held : eviq_enqueue(q, s)
  \/ \E q \in Queues : eviq_dequeue(q)

EviqSpec == eviq_init /\ [][EviqNext]_eviq_vars
-----------------------------------------------------------------------------
\* Every index is EVIQ_NONE or an element: no operation can leave the arrays.
EviqTypeOK ==
  /\ head \in [Queues -> Slots \cup {EVIQ_NONE}]
  /\ tail \in [Queues -> Slots \cup {EVIQ_NONE}]
  /\ free \in Slots \cup {EVIQ_NONE}
  /\ next \in [Slots -> Slots \cup {EVIQ_NONE}]
  /\ held \in SUBSET Slots
  /\ fifo \in [Queues -> Seq(Slots)]
  /\ stack \in Seq(Slots)

\* The chain that starts at index h visits the elements of list in order and ends.
IsChain(h, list) ==
  /\ h = IF list = <<>> THEN EVIQ_NONE ELSE list[1]
  /\ \A i \in 1 .. Len(list) :
       next[list[i]] = IF i = Len(list) THEN EVIQ_NONE ELSE list[i + 1]

\* Each queue's chain is its contents, and tail[] names its last element.
QueueChains ==
  \A q \in Queues :
    /\ IsChain(head[q], fifo[q])
    /\ tail[q] = IF fifo[q] = <<>> THEN EVIQ_NONE ELSE fifo[q][Len(fifo[q])]

\* The lists by name: the queues, and EVIQ_NONE for the free list.
Lists == Queues \cup {EVIQ_NONE}

List(k) == IF k = EVIQ_NONE THEN stack ELSE fifo[k]

\* A slot occurs once, in one list, and in no list while a caller holds it.
NoSharing ==
  \A k \in Lists : \A i \in 1 .. Len(List(k)) :
    /\ List(k)[i] \notin held
    /\ \A l \in Lists : \A j \in 1 .. Len(List(l)) :
         List(k)[i] = List(l)[j] => k = l /\ i = j

\* Every slot is held by a caller or is in a list.
NoSlotLost ==
  \A s \in Slots : s \in held \/ \E k \in Lists : s \in Range(List(k))

\* The index chains of evi_queue.h hold what the operations put there: each
\* queue's chain is its FIFO contents, the free chain is the free stack, tails
\* are right, no element is in two lists although all share one next[] array,
\* and none has dropped out of all of them.
Coupled ==
  /\ IsChain(free, stack)
  /\ QueueChains
  /\ NoSharing
  /\ NoSlotLost

SQ == INSTANCE SlotQueues WITH free <- Range(stack)

\* The manager implements the abstract slot queues: what pop and dequeue return
\* is a free slot and the oldest slot of the queue.
ImplementsSlotQueues == SQ!Spec
=============================================================================
