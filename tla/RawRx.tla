------------------------------- MODULE RawRx --------------------------------
(***************************************************************************)
(* The receive path of RAW messages in axiom_netdev_common.c: the NIC's RX *)
(* FIFO, the interrupt handler, the kthread that moves messages from the   *)
(* FIFO to the software queue of their port, the watchdog, and the threads *)
(* of user processes in axiomnet_raw_recv and axiomnet_raw_flush.          *)
(*                                                                         *)
(* A step is what one actor does between two points where another one can  *)
(* see its effects: a section under the spinlock queue_lock, a test of a   *)
(* wait condition, one register access, one wake_up.  The software queue   *)
(* is the slot queues of module SlotQueues.                                *)
(***************************************************************************)
EXTENDS Naturals, Sequences, Functions

CONSTANTS
  Ports,        \* AXIOM_PORT_NUM valid ports
  BadPort,      \* a value of the 3 bit port field beyond AXIOM_PORT_MAX
  Slots,        \* elements of the RAW software queue
  Threads,      \* threads of processes that receive
  HwLen,        \* bound: capacity of the NIC's RX FIFO, in messages
  MaxMsgs,      \* bound: messages that arrive
  None          \* no slot, no thread

ASSUME RawRxAssumption ==
  /\ BadPort \notin Ports
  /\ None \notin Slots \cup Threads
  /\ HwLen \in Nat /\ MaxMsgs \in Nat

Ids == 1 .. MaxMsgs

VARIABLES
  \* the NIC
  hwq,          \* RX FIFO
  arrived,      \* number of messages received so far; also the last id
  pending,      \* RAW_RX bit of the pending interrupt register
  irq,          \* interrupt handler: "idle", or "ack" before it acknowledges
  \* kthread_raw
  sched,        \* scheduled # old_scheduled
  kpc, kslot, kport,
  \* software queue
  fifo, free,   \* as in SlotQueues
  desc,         \* queue_desc[]: the message in a slot
  \* user threads
  tpc, tport, tslot,
  mutex,        \* mutex[p]: the thread that owns ports[p].mutex
  \* history
  fate,         \* what became of each message
  errors        \* the branches the code marks impossible that were taken

nic == <<hwq, arrived, pending>>
kthread == <<kpc, kslot, kport>>
queue == <<fifo, free, desc>>
users == <<tpc, tport, tslot, mutex>>
vars == <<hwq, arrived, pending, irq, sched, kpc, kslot, kport, fifo, free, desc,
          tpc, tport, tslot, mutex, fate, errors>>

Msgs == [id : Ids, port : Ports \cup {BadPort}]

Init ==
  /\ hwq = <<>> /\ arrived = 0 /\ pending = FALSE /\ irq = "idle"
  /\ sched = FALSE /\ kpc = "wait" /\ kslot = None /\ kport = BadPort
  /\ fifo = [p \in Ports |-> <<>>]
  /\ free = Slots
  /\ desc = [s \in Slots |-> None]
  /\ tpc = [t \in Threads |-> "idle"]
  /\ tport = [t \in Threads |-> BadPort]
  /\ tslot = [t \in Threads |-> None]
  /\ mutex = [p \in Ports |-> None]
  /\ fate = [i \in Ids |-> "none"]
  /\ errors = {}
-----------------------------------------------------------------------------
(* The NIC and its interrupt *)

\* A message arrives.  The RX interrupt is raised when the FIFO was empty.
Arrive ==
  /\ arrived < MaxMsgs /\ Len(hwq) < HwLen
  /\ \E p \in Ports \cup {BadPort} :
       hwq' = Append(hwq, [id |-> arrived + 1, port |-> p])
  /\ arrived' = arrived + 1
  /\ pending' = (pending \/ hwq = <<>>)
  /\ UNCHANGED <<irq, sched, kthread, queue, users, fate, errors>>

\* axiom_kthread_wakeup: scheduled is incremented, a sleeping kthread is woken
\* and evaluates its condition again.
axiom_kthread_wakeup ==
  /\ sched' = TRUE
  /\ kpc' = IF kpc = "sleep" THEN "wait" ELSE kpc
  /\ UNCHANGED <<kslot, kport>>

\* axiomnet_irqhandler reads the pending register and wakes the kthread ...
axiomnet_irqhandler ==
  /\ irq = "idle" /\ pending
  /\ irq' = "ack"
  /\ axiom_kthread_wakeup
  /\ UNCHANGED <<nic, queue, users, fate, errors>>

\* ... and clears the bit it read at its end.
axiom_hw_ack_irq ==
  /\ irq = "ack"
  /\ irq' = "idle"
  /\ pending' = FALSE
  /\ UNCHANGED <<hwq, arrived, sched, kthread, queue, users, fate, errors>>
-----------------------------------------------------------------------------
(* kthread_raw *)

axiomnet_raw_rx_work_todo == hwq # <<>> /\ free # {}

\* axkt_worker: wait_event_interruptible, then old_scheduled = scheduled.
axkt_worker ==
  /\ kpc = "wait"
  /\ IF sched \/ axiomnet_raw_rx_work_todo
       THEN sched' = FALSE /\ kpc' = "work"
       ELSE sched' = sched /\ kpc' = "sleep"
  /\ UNCHANGED <<nic, irq, kslot, kport, queue, users, fate, errors>>

\* The loop condition of axiom_raw_rx_dequeue.
DequeueLoop ==
  /\ kpc = "work"
  /\ kpc' = IF axiomnet_raw_rx_work_todo THEN "pop" ELSE "wait"
  /\ UNCHANGED <<nic, irq, sched, kslot, kport, queue, users, fate, errors>>

eviq_free_pop == \E s \in free : kslot' = s /\ free' = free \ {s}

\* The slot is taken, with the break when there is none ("RAW SW queue empty").
DequeuePop ==
  /\ kpc = "pop"
  /\ IF free = {}
       THEN /\ kpc' = "wait"
            /\ errors' = errors \cup {"RAW SW queue empty"}
            /\ UNCHANGED <<kslot, free>>
       ELSE /\ kpc' = "read"
            /\ eviq_free_pop
            /\ UNCHANGED errors
  /\ UNCHANGED <<nic, irq, sched, kport, fifo, desc, users, fate>>

\* axiom_hw_raw_rx copies the first message of the FIFO into the slot.
DequeueRead ==
  /\ kpc = "read"
  /\ kpc' = "put"
  /\ desc' = [desc EXCEPT ![kslot] = Head(hwq)]
  /\ kport' = Head(hwq).port
  /\ hwq' = Tail(hwq)
  /\ UNCHANGED <<arrived, pending, irq, sched, kslot, fifo, free, users, fate, errors>>

DiscardSlot == free' = free \cup {kslot}

EnqueueFirst(p, s) == fifo' = [fifo EXCEPT ![p] = <<s>> \o @]
eviq_enqueue(p, s) == fifo' = [fifo EXCEPT ![p] = Append(@, s)]

\* avail == 0, with avail read before the message is put in the queue.
WasNotEmpty(p) == fifo[p] # <<>>
WasEmpty(p) == fifo[p] = <<>>

\* A message for an invalid port is discarded and its slot freed; any other is put
\* in the queue of its port.  Readers are woken only if that queue was empty.
DequeuePut ==
  /\ kpc = "put"
  /\ kslot' = None
  /\ IF kport = BadPort
       THEN /\ kpc' = "work"
            /\ DiscardSlot
            /\ fate' = [fate EXCEPT ![desc[kslot].id] = "bad port"]
            /\ UNCHANGED <<kport, fifo>>
       ELSE /\ IF WasEmpty(kport) THEN kpc' = "wake" /\ UNCHANGED kport
                                  ELSE kpc' = "work" /\ kport' = BadPort
            /\ eviq_enqueue(kport, kslot)
            /\ UNCHANGED <<free, fate>>
  /\ UNCHANGED <<nic, irq, sched, desc, users, errors>>

\* wake_up(&rx_ring->ports[port].wait_queue): every sleeper tests its condition.
DequeueWake ==
  /\ kpc = "wake"
  /\ kpc' = "work" /\ kport' = BadPort
  /\ tpc' = [t \in Threads |->
               IF tpc[t] = "sleep" /\ tport[t] = kport THEN "event" ELSE tpc[t]]
  /\ UNCHANGED <<nic, irq, sched, kslot, queue, tport, tslot, mutex, fate, errors>>

axiom_raw_rx_dequeue ==
  DequeueLoop \/ DequeuePop \/ DequeueRead \/ DequeuePut \/ DequeueWake

WatchdogWakesNobody == axiomnet_raw_rx_work_todo /\ UNCHANGED vars

\* axiomnet_watchdog_worker, when its period is not zero.
axiomnet_watchdog_worker ==
  /\ axiomnet_raw_rx_work_todo
  /\ axiom_kthread_wakeup
  /\ UNCHANGED <<nic, irq, queue, users, fate, errors>>
-----------------------------------------------------------------------------
(* User threads *)

Goto(t, pc) == tpc' = [tpc EXCEPT ![t] = pc]

Return(t) == Goto(t, "idle") /\ tport' = [tport EXCEPT ![t] = BadPort]

\* A thread enters axiomnet_raw_recv or axiomnet_raw_flush on its bound port.
Call(t) ==
  /\ tpc[t] = "idle"
  /\ \E p \in Ports, pc \in {"lock", "flush"} :
       /\ tport' = [tport EXCEPT ![t] = p]
       /\ Goto(t, pc)
  /\ UNCHANGED <<nic, irq, sched, kthread, queue, tslot, mutex, fate, errors>>

LockShared(t) ==
  /\ tpc[t] = "lock"
  /\ mutex' = [mutex EXCEPT ![tport[t]] = t]
  /\ Goto(t, "test")
  /\ UNCHANGED <<nic, irq, sched, kthread, queue, tport, tslot, fate, errors>>

\* mutex_lock(&rx_ring->ports[port].mutex)
Lock(t) ==
  /\ tpc[t] = "lock" /\ mutex[tport[t]] = None
  /\ mutex' = [mutex EXCEPT ![tport[t]] = t]
  /\ Goto(t, "test")
  /\ UNCHANGED <<nic, irq, sched, kthread, queue, tport, tslot, fate, errors>>

\* The loop condition of axiomnet_raw_recv: with nothing to read the mutex is
\* released, and the call returns -EAGAIN if the file is O_NONBLOCK, or waits.
RecvTest(t) ==
  /\ tpc[t] = "test"
  /\ IF fifo[tport[t]] = <<>>
       THEN /\ mutex' = [mutex EXCEPT ![tport[t]] = None]
            /\ Return(t) \/ (Goto(t, "event") /\ UNCHANGED tport)
       ELSE /\ Goto(t, "dequeue")
            /\ UNCHANGED <<tport, mutex>>
  /\ UNCHANGED <<nic, irq, sched, kthread, queue, tslot, fate, errors>>

\* wait_event_interruptible tests its condition: sleep, or back to mutex_lock.
RecvWait(t) ==
  /\ tpc[t] = "event"
  /\ Goto(t, IF fifo[tport[t]] = <<>> THEN "sleep" ELSE "lock")
  /\ UNCHANGED <<nic, irq, sched, kthread, queue, tport, tslot, mutex, fate, errors>>

\* A signal ends the wait: -ERESTARTSYS, unless the condition holds by now.
Signal(t) ==
  /\ tpc[t] = "sleep"
  /\ IF fifo[tport[t]] = <<>> THEN Return(t) ELSE Goto(t, "lock") /\ UNCHANGED tport
  /\ UNCHANGED <<nic, irq, sched, kthread, queue, tslot, mutex, fate, errors>>

DequeueKeepsFirst(p) == UNCHANGED fifo
eviq_dequeue(p) == fifo' = [fifo EXCEPT ![p] = Tail(@)]

\* eviq_dequeue under queue_lock, then the mutex is released.
RecvDequeue(t) ==
  /\ tpc[t] = "dequeue"
  /\ mutex' = [mutex EXCEPT ![tport[t]] = None]
  /\ IF fifo[tport[t]] = <<>>
       THEN /\ errors' = errors \cup {"XXX: impossible!"}
            /\ Return(t)
            /\ UNCHANGED <<fifo, tslot>>
       ELSE /\ tslot' = [tslot EXCEPT ![t] = Head(fifo[tport[t]])]
            /\ eviq_dequeue(tport[t])
            /\ Goto(t, "copy")
            /\ UNCHANGED <<tport, errors>>
  /\ UNCHANGED <<nic, irq, sched, kthread, free, desc, fate>>

\* The message is copied to the user, or the buffer is too small (-EFBIG) or not
\* writable (-EFAULT): then it is dropped, and the caller told so.
RecvCopy(t) ==
  /\ tpc[t] = "copy"
  /\ \E result \in {"delivered", "error"} :
       fate' = [fate EXCEPT ![desc[tslot[t]].id] = result]
  /\ Goto(t, "free")
  /\ UNCHANGED <<nic, irq, sched, kthread, queue, tport, tslot, mutex, errors>>

\* eviq_free_push; the kthread needs a notification if there was no free slot.
RecvFree(t) ==
  /\ tpc[t] = "free"
  /\ free' = free \cup {tslot[t]}
  /\ tslot' = [tslot EXCEPT ![t] = None]
  /\ IF free = {} THEN Goto(t, "notify") /\ UNCHANGED tport ELSE Return(t)
  /\ UNCHANGED <<nic, irq, sched, kthread, fifo, desc, mutex, fate, errors>>

\* axiomnet_raw_flush: with the mutex and queue_lock held the queue is emptied into
\* the free list.
RawFlush(t) ==
  /\ tpc[t] = "flush" /\ mutex[tport[t]] = None
  /\ LET dropped == Range(fifo[tport[t]])
     IN  /\ free' = free \cup dropped
         /\ fate' = [i \in Ids |-> IF \E s \in dropped : desc[s].id = i
                                     THEN "flushed" ELSE fate[i]]
  /\ fifo' = [fifo EXCEPT ![tport[t]] = <<>>]
  /\ Goto(t, "notify")
  /\ UNCHANGED <<nic, irq, sched, kthread, desc, tport, tslot, mutex, errors>>

\* "send a notification to kthread", at the end of recv and flush.
Notify(t) ==
  /\ tpc[t] = "notify"
  /\ axiom_kthread_wakeup
  /\ Return(t)
  /\ UNCHANGED <<nic, irq, queue, tslot, mutex, fate, errors>>

axiomnet_raw_recv(t) ==
  \/ Lock(t) \/ RecvTest(t) \/ RecvWait(t) \/ RecvDequeue(t)
  \/ RecvCopy(t) \/ RecvFree(t) \/ Notify(t)

Next ==
  \/ Arrive \/ axiomnet_irqhandler \/ axiom_hw_ack_irq
  \/ axkt_worker \/ axiom_raw_rx_dequeue \/ axiomnet_watchdog_worker
  \/ \E t \in Threads : Call(t) \/ axiomnet_raw_recv(t) \/ Signal(t) \/ RawFlush(t)

Spec == Init /\ [][Next]_vars

\* The kernel runs every runnable thread and delivers pending interrupts; the
\* watchdog is enabled.  Processes need not call, nobody need send a signal.
Fairness ==
  /\ WF_vars(axiomnet_irqhandler) /\ WF_vars(axiom_hw_ack_irq)
  /\ WF_vars(axkt_worker) /\ WF_vars(axiom_raw_rx_dequeue)
  /\ WF_vars(axiomnet_watchdog_worker)
  /\ \A t \in Threads : WF_vars(axiomnet_raw_recv(t)) /\ WF_vars(RawFlush(t))

FairSpec == Spec /\ Fairness
-----------------------------------------------------------------------------
NicType ==
  /\ hwq \in Seq(Msgs) /\ Len(hwq) <= HwLen
  /\ arrived \in 0 .. MaxMsgs
  /\ irq \in {"idle", "ack"}
FlagType == pending \in BOOLEAN /\ sched \in BOOLEAN
KthreadType ==
  /\ kpc \in {"wait", "sleep", "work", "pop", "read", "put", "wake"}
  /\ kslot \in Slots \cup {None} /\ kport \in Ports \cup {BadPort}
  /\ kslot # None <=> kpc \in {"read", "put"}
  /\ kport # BadPort => kpc \in {"put", "wake"}
QueueType ==
  /\ fifo \in [Ports -> Seq(Slots)]
  /\ free \in SUBSET Slots
  /\ desc \in [Slots -> Msgs \cup {None}]
UserType ==
  /\ tpc \in [Threads -> {"idle", "lock", "test", "event", "sleep", "dequeue",
                          "copy", "free", "notify", "flush"}]
  /\ tport \in [Threads -> Ports \cup {BadPort}]
  /\ tslot \in [Threads -> Slots \cup {None}]
  /\ mutex \in [Ports -> Threads \cup {None}]
  /\ \A t \in Threads : tport[t] = BadPort <=> tpc[t] = "idle"
  /\ \A t \in Threads : tslot[t] # None <=> tpc[t] \in {"copy", "free"}
HistoryType ==
  /\ fate \in [Ids -> {"none", "delivered", "error", "flushed", "bad port"}]
  /\ errors \in SUBSET {"RAW SW queue empty", "XXX: impossible!"}

\* Every variable has its type, the kthread and a thread hold a slot exactly at the
\* steps between taking and giving it away, and a thread has a port inside a call.
TypeOK ==
  NicType /\ FlagType /\ KthreadType /\ QueueType /\ UserType /\ HistoryType

\* The slots in the hands of the kthread and of the readers.
Held == ({kslot} \cup Range(tslot)) \ {None}

\* Every slot of the RAW queue has exactly one owner: the free list, one position
\* of one port's queue, the kthread or one reader.  None leaks, none is shared.
OneOwner ==
  /\ \A s \in Slots : s \in free \cup Held \/ \E p \in Ports : s \in Range(fifo[p])
  /\ free \cap Held = {}
  /\ \A p \in Ports : \A i \in 1 .. Len(fifo[p]) :
       /\ fifo[p][i] \notin free \cup Held
       /\ \A r \in Ports : \A j \in 1 .. Len(fifo[r]) :
            fifo[p][i] = fifo[r][j] => p = r /\ i = j
  /\ \A t, u \in Threads :
       tslot[t] # None => tslot[t] # kslot /\ (tslot[t] = tslot[u] => t = u)

\* The messages the driver has taken from the FIFO and not decided on yet.
InSlots ==
  (UNION {Range(fifo[p]) : p \in Ports})
    \cup {s \in {kslot} : kpc = "put"}
    \cup {tslot[t] : t \in {u \in Threads : tpc[u] = "copy"}}

\* A message that arrived is in the FIFO or in a slot until the driver has decided
\* on it: no slot that holds one is overwritten or freed.
NoMessageLost ==
  \A i \in 1 .. arrived :
    fate[i] = "none" <=> \/ \E m \in Range(hwq) : m.id = i
                         \/ \E s \in InSlots : desc[s].id = i

\* A slot in the queue of a port holds a message for that port, and the queues and
\* the FIFO hold messages in the order in which they arrived.
ArrivalOrder ==
  /\ \A p \in Ports : \A i \in 1 .. Len(fifo[p]) :
       /\ desc[fifo[p][i]].port = p
       /\ \A j \in (i + 1) .. Len(fifo[p]) : desc[fifo[p][i]].id < desc[fifo[p][j]].id
       /\ kpc = "put" => desc[fifo[p][i]].id < desc[kslot].id
       /\ \A m \in Range(hwq) : desc[fifo[p][i]].id < m.id
  /\ \A i, j \in 1 .. Len(hwq) : i < j => hwq[i].id < hwq[j].id

\* Slots and messages stay in step: no slot leaks or is shared, no message is lost,
\* decided on twice or delivered after it was dropped or flushed, none overtakes
\* another one of its port.
MessagesKept == OneOwner /\ NoMessageLost /\ ArrivalOrder

\* The branches that the code marks impossible, the reader that finds its queue empty
\* after the wait and the kthread without a free slot, are never taken.
ImpossibleNeverHappens == errors = {}

\* A reader sleeps on a port with messages only while the kthread is about to wake
\* it, although wake_up is skipped when the queue was not empty.
NoLostWakeup ==
  \A t \in Threads :
    tpc[t] = "sleep" /\ fifo[tport[t]] # <<>> => kpc = "wake" /\ kport = tport[t]

SQ == INSTANCE SlotQueues WITH Queues <- Ports, held <- Held

\* The receive path uses the queue manager as SlotQueues allows: it gives back and
\* enqueues only slots it holds, and takes only free or first ones.
FollowsSlotProtocol == SQ!Spec

\* A message does not stay in the NIC's FIFO while there are free slots: the
\* interrupt, the notifications and the watchdog together always wake the kthread.
FifoDrains ==
  \A i \in Ids :
    (\E m \in Range(hwq) : m.id = i) ~> (free = {} \/ ~\E m \in Range(hwq) : m.id = i)

\* Thread t is inside axiomnet_raw_recv and has no message yet.
Receiving(t) == tpc[t] \in {"lock", "test", "event", "sleep", "dequeue"}

\* The first message of a port is taken as long as a reader is on the port.
ReaderServed ==
  \A p \in Ports, s \in Slots :
    (/\ fifo[p] # <<>> /\ Head(fifo[p]) = s
     /\ \E t \in Threads : Receiving(t) /\ tport[t] = p)
    ~> (\/ s \notin Range(fifo[p])
        \/ ~\E t \in Threads : Receiving(t) /\ tport[t] = p)

\* A message gets stuck neither in the NIC's FIFO nor in the queue of a port with a
\* reader, although an interrupt may be acknowledged unseen and readers are woken
\* only if their queue was empty.
NothingStuck == FifoDrains /\ ReaderServed
=============================================================================
