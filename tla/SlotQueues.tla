----------------------------- MODULE SlotQueues -----------------------------
(***************************************************************************)
(* What the EVI queue manager (include/evi_queue.h) promises its callers:  *)
(* a pool of message slots, each of which is at any time either free, in   *)
(* exactly one FIFO queue, or held by the thread that took it.             *)
(*                                                                         *)
(* EviQueue implements it with index chains.  RawRx is a client of it: the *)
(* RAW receive path of the driver is shown to follow this protocol, so the *)
(* two fit together.  Which free slot a pop returns is left open (the code *)
(* keeps a LIFO chain), because no caller depends on it.                   *)
(***************************************************************************)
EXTENDS Sequences, Functions

CONSTANTS
  Slots,        \* the elements of the manager (indexes of queue_desc[])
  Queues        \* the queues it handles; empty for the RDMA and LONG TX rings

VARIABLES
  fifo,         \* fifo[q]: the slots of queue q, oldest first
  free,         \* the free slots
  held          \* slots popped or dequeued and not given back yet

vars == <<fifo, free, held>>

Init ==
  /\ fifo = [q \in Queues |-> <<>>]
  /\ free = Slots
  /\ held = {}

\* eviq_free_pop: some free slot goes to the caller.
FreePop ==
  \E s \in free :
    /\ free' = free \ {s}
    /\ held' = held \cup {s}
    /\ UNCHANGED fifo

\* eviq_free_push: only the holder of a slot may give it back.
FreePush ==
  \E s \in held :
    /\ free' = free \cup {s}
    /\ held' = held \ {s}
    /\ UNCHANGED fifo

\* eviq_enqueue: a held slot goes to the tail of a queue.
Enqueue ==
  \E q \in Queues, s \in held :
    /\ fifo' = [fifo EXCEPT ![q] = Append(@, s)]
    /\ held' = held \ {s}
    /\ UNCHANGED free

\* eviq_dequeue: the oldest slot of a queue goes to the caller.
Dequeue ==
  \E q \in Queues :
    /\ fifo[q] # <<>>
    /\ fifo' = [fifo EXCEPT ![q] = Tail(@)]
    /\ held' = held \cup {Head(fifo[q])}
    /\ UNCHANGED free

\* A flush: a whole queue is dequeued and freed under one lock section.
Drain ==
  \E q \in Queues :
    /\ free' = free \cup Range(fifo[q])
    /\ fifo' = [fifo EXCEPT ![q] = <<>>]
    /\ UNCHANGED held

Next == FreePop \/ FreePush \/ Enqueue \/ Dequeue \/ Drain

Spec == Init /\ [][Next]_vars
=============================================================================
