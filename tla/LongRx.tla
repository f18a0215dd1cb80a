------------------------------- MODULE LongRx -------------------------------
(***************************************************************************)
(* The receive path of LONG messages in axiom_netdev_common.c: the NIC     *)
(* that writes payloads into the buffers it was given, the LONG branch of  *)
(* axiom_rdma_rx_dequeue in kthread_rdma, and user threads in              *)
(* axiomnet_long_recv and axiomnet_long_flush.                             *)
(*                                                                         *)
(* A message uses two resources: a buffer of the NIC, from its arrival     *)
(* until the software writes the FREE flag, and a slot of the software     *)
(* queue, from the pop in the kthread until the push of the reader.  When  *)
(* the kthread runs is in module RdmaTx: its condition is that the FIFO is *)
(* not empty, whatever the state of the LONG queue, so that the            *)
(* notifications that the readers send it make no difference here.         *)
(***************************************************************************)
EXTENDS Naturals, Sequences, FiniteSets, Functions

CONSTANTS
  Ports,        \* AXIOM_PORT_NUM valid ports
  BadPort,      \* a value of the 3 bit port field beyond AXIOM_PORT_MAX
  Slots,        \* elements of the LONG RX queue, AXIOMNET_LONG_RXQUEUE_FREE_LEN
  Bufs,         \* LONG buffers of the NIC, AXIOMREG_LEN_LONG_BUF
  BadAddr,      \* a dst_addr outside the zone of these buffers
  Threads,      \* threads of processes that receive
  HwLen,        \* bound: capacity of the NIC's RX FIFO, in descriptors
  MaxMsgs,      \* bound: descriptors that arrive
  None          \* no slot, no buffer, no thread

Ids == 1 .. MaxMsgs
Types == {"LONG_DATA", "RDMA_WRITE", "OTHER"}
Msgs == [id : Ids, type : Types, port : Ports \cup {BadPort}, addr : Bufs \cup {BadAddr}]

ASSUME LongRxAssumption ==
  /\ BadPort \notin Ports /\ BadAddr \notin Bufs
  /\ None \notin Slots \cup Bufs \cup Threads \cup Msgs \cup Ids
  /\ IsFiniteSet(Slots) /\ IsFiniteSet(Bufs)
  /\ Cardinality(Bufs) <= Cardinality(Slots)
  /\ HwLen \in Nat /\ MaxMsgs \in Nat

VARIABLES
  \* the NIC
  hwrx,         \* RX FIFO
  arrived,      \* number of descriptors so far; also the last id
  hwfree,       \* buffers whose FREE flag is set
  payload,      \* the message whose payload is in a buffer
  \* kthread_rdma
  kpc, kmsg, kslot,
  \* software queue
  fifo, free,   \* as in SlotQueues
  desc,         \* queue_desc[]: the header in a slot
  \* user threads
  tpc, tport, tslot,
  tbuf,         \* long_buf_lut: the buffer to give back
  mutex,        \* mutex[p]: the thread that owns long_ports[p].mutex
  \* history
  fate,         \* what became of each descriptor
  wrong,        \* has an address outside the buffers arrived?
  errors        \* the branches marked impossible and the shortage of slots

nic == <<hwrx, arrived, hwfree, payload, wrong>>
kthread == <<kpc, kmsg, kslot>>
queue == <<fifo, free, desc>>
users == <<tpc, tport, tslot, tbuf, mutex>>
history == <<fate, errors>>
vars == <<nic, kthread, queue, users, history>>

Init ==
  /\ hwrx = <<>> /\ arrived = 0 /\ hwfree = Bufs /\ wrong = FALSE
  /\ payload = [b \in Bufs |-> None]
  /\ kpc = "work" /\ kmsg = None /\ kslot = None
  /\ fifo = [p \in Ports |-> <<>>]
  /\ free = Slots
  /\ desc = [s \in Slots |-> None]
  /\ tpc = [t \in Threads |-> "idle"]
  /\ tport = [t \in Threads |-> BadPort]
  /\ tslot = [t \in Threads |-> None]
  /\ tbuf = [t \in Threads |-> None]
  /\ mutex = [p \in Ports |-> None]
  /\ fate = [i \in Ids |-> "none"]
  /\ errors = {}
-----------------------------------------------------------------------------
(* The NIC *)

Push(m) == arrived' = arrived + 1 /\ hwrx' = Append(hwrx, m)

\* A LONG message arrives: the NIC takes a free buffer for its payload.  Without
\* one it refuses the message, and the sender tries again.
ArriveLong ==
  /\ arrived < MaxMsgs /\ Len(hwrx) < HwLen
  /\ \E b \in hwfree, p \in Ports \cup {BadPort} :
       /\ hwfree' = hwfree \ {b}
       /\ payload' = [payload EXCEPT ![b] = arrived + 1]
       /\ Push([id |-> arrived + 1, type |-> "LONG_DATA", port |-> p, addr |-> b])
  /\ UNCHANGED <<wrong, kthread, queue, users, history>>

\* A descriptor without a buffer: of an RDMA write, of a type that is not expected,
\* or of a LONG message with an address that is not one of a buffer.
ArriveOther ==
  /\ arrived < MaxMsgs /\ Len(hwrx) < HwLen
  /\ \E ty \in Types, p \in Ports :
       /\ Push([id |-> arrived + 1, type |-> ty, port |-> p, addr |-> BadAddr])
       /\ wrong' = (wrong \/ ty = "LONG_DATA")
  /\ UNCHANGED <<hwfree, payload, kthread, queue, users, history>>

\* The buffers of a set are marked FREE.
axiom_hw_set_long_buf(B) == hwfree' = hwfree \cup B
-----------------------------------------------------------------------------
(* kthread_rdma *)

Decide(id, what) == fate' = [fate EXCEPT ![id] = what]

\* axiom_hw_rdma_rx and the test of the type.
DequeueRead ==
  /\ kpc = "work" /\ hwrx # <<>>
  /\ hwrx' = Tail(hwrx)
  /\ IF Head(hwrx).type = "LONG_DATA"
       THEN kpc' = "pop" /\ kmsg' = Head(hwrx) /\ UNCHANGED fate
       ELSE Decide(Head(hwrx).id, "ignored") /\ UNCHANGED <<kpc, kmsg>>
  /\ UNCHANGED <<arrived, hwfree, payload, wrong, kslot, queue, users, errors>>

eviq_free_pop == \E s \in free : kslot' = s /\ free' = free \ {s}

\* The slot is taken and the header copied to it, or the message is discarded
\* ("LONG SW queue empty").
DequeuePop ==
  /\ kpc = "pop"
  /\ IF free = {}
       THEN /\ kpc' = "work" /\ kmsg' = None
            /\ Decide(kmsg.id, "discarded")
            /\ errors' = errors \cup {"LONG SW queue empty"}
            /\ UNCHANGED <<kslot, free, desc>>
       ELSE /\ kpc' = "put"
            /\ eviq_free_pop
            /\ desc' = [desc EXCEPT ![kslot'] = kmsg]
            /\ UNCHANGED <<kmsg, history>>
  /\ UNCHANGED <<nic, fifo, users>>

eviq_enqueue(p, s) == fifo' = [fifo EXCEPT ![p] = Append(@, s)]

DiscardSlot == free' = free \cup {kslot}

\* avail == 0, with avail read before the message is put in the queue.
WasNotEmpty(p) == fifo[p] # <<>>
WasEmpty(p) == fifo[p] = <<>>

\* A message for an invalid port is discarded and its slot freed; any other is put
\* in the queue of its port.  Readers are woken only if that queue was empty.
DequeuePut ==
  /\ kpc = "put"
  /\ kslot' = None
  /\ IF kmsg.port = BadPort
       THEN /\ kpc' = "work" /\ kmsg' = None
            /\ DiscardSlot
            /\ Decide(kmsg.id, "discarded")
            /\ UNCHANGED fifo
       ELSE /\ IF WasEmpty(kmsg.port) THEN kpc' = "wake" /\ UNCHANGED kmsg
                                      ELSE kpc' = "work" /\ kmsg' = None
            /\ eviq_enqueue(kmsg.port, kslot)
            /\ UNCHANGED <<free, fate>>
  /\ UNCHANGED <<nic, desc, users, errors>>

\* wake_up(&rx_ring->long_ports[port].wait_queue): every sleeper tests its condition.
DequeueWake ==
  /\ kpc = "wake"
  /\ kpc' = "work" /\ kmsg' = None
  /\ tpc' = [t \in Threads |->
               IF tpc[t] = "sleep" /\ tport[t] = kmsg.port THEN "event" ELSE tpc[t]]
  /\ UNCHANGED <<nic, kslot, queue, tport, tslot, tbuf, mutex, history>>

axiom_rdma_rx_dequeue == DequeueRead \/ DequeuePop \/ DequeuePut \/ DequeueWake
-----------------------------------------------------------------------------
(* User threads *)

Goto(t, pc) == tpc' = [tpc EXCEPT ![t] = pc]

Return(t) == Goto(t, "idle") /\ tport' = [tport EXCEPT ![t] = BadPort]

\* A thread enters axiomnet_long_recv or axiomnet_long_flush on its bound port.
Call(t) ==
  /\ tpc[t] = "idle"
  /\ \E p \in Ports, pc \in {"lock", "flush"} :
       Goto(t, pc) /\ tport' = [tport EXCEPT ![t] = p]
  /\ UNCHANGED <<nic, kthread, queue, tslot, tbuf, mutex, history>>

\* mutex_lock(&rx_ring->long_ports[port].mutex)
Lock(t) ==
  /\ tpc[t] = "lock" /\ mutex[tport[t]] = None
  /\ mutex' = [mutex EXCEPT ![tport[t]] = t]
  /\ Goto(t, "test")
  /\ UNCHANGED <<nic, kthread, queue, tport, tslot, tbuf, history>>

\* The loop condition of axiomnet_long_recv: with nothing to read the mutex is
\* released, and the call returns -EAGAIN if the file is O_NONBLOCK, or waits.
RecvTest(t) ==
  /\ tpc[t] = "test"
  /\ IF fifo[tport[t]] = <<>>
       THEN /\ mutex' = [mutex EXCEPT ![tport[t]] = None]
            /\ Return(t) \/ (Goto(t, "event") /\ UNCHANGED tport)
       ELSE /\ Goto(t, "dequeue")
            /\ UNCHANGED <<tport, mutex>>
  /\ UNCHANGED <<nic, kthread, queue, tslot, tbuf, history>>

\* wait_event_interruptible tests its condition: sleep, or back to mutex_lock.
RecvWait(t) ==
  /\ tpc[t] = "event"
  /\ Goto(t, IF fifo[tport[t]] = <<>> THEN "sleep" ELSE "lock")
  /\ UNCHANGED <<nic, kthread, queue, tport, tslot, tbuf, mutex, history>>

\* A signal ends the wait: -ERESTARTSYS, unless the condition holds by now.
Signal(t) ==
  /\ tpc[t] = "sleep"
  /\ IF fifo[tport[t]] = <<>> THEN Return(t) ELSE Goto(t, "lock") /\ UNCHANGED tport
  /\ UNCHANGED <<nic, kthread, queue, tslot, tbuf, mutex, history>>

eviq_dequeue(p) == fifo' = [fifo EXCEPT ![p] = Tail(@)]

\* eviq_dequeue under queue_lock, then the mutex is released.
RecvDequeue(t) ==
  LET q == fifo[tport[t]] IN
  /\ tpc[t] = "dequeue"
  /\ mutex' = [mutex EXCEPT ![tport[t]] = None]
  /\ IF q = <<>>
       THEN /\ errors' = errors \cup {"XXX: impossible!"}
            /\ Return(t)
            /\ UNCHANGED <<fifo, tslot>>
       ELSE /\ tslot' = [tslot EXCEPT ![t] = Head(q)]
            /\ eviq_dequeue(tport[t])
            /\ Goto(t, "copy")
            /\ UNCHANGED <<tport, errors>>
  /\ UNCHANGED <<nic, kthread, free, desc, tbuf, fate>>

\* For a mutant: every address is taken for that of the first buffer.
Rdma2bufFirst(addr) == IF addr \in Bufs THEN CHOOSE b \in Bufs : TRUE ELSE None

\* The entry of long_rxbuf_lut for an address, None for an address out of range.
axiomnet_long_rdma2buf(addr) == IF addr \in Bufs THEN addr ELSE None

\* For a mutant: the buffer is given back right here.
CopyGivesBack(t) ==
  LET m == desc[tslot[t]]
      b == axiomnet_long_rdma2buf(m.addr)
  IN  /\ tpc[t] = "copy"
      /\ axiom_hw_set_long_buf({b} \ {None})
      /\ Decide(m.id, "delivered")
      /\ Goto(t, "free")
      /\ UNCHANGED <<hwrx, arrived, payload, wrong, kthread, queue, tport, tslot, tbuf,
                     mutex, errors>>

\* The payload is copied to the user, or there is no buffer at the address, or the
\* user's memory is too small (-EFBIG) or not writable (-EFAULT): then the message
\* is dropped, and the caller told so.
RecvCopy(t) ==
  LET m == desc[tslot[t]]
      b == axiomnet_long_rdma2buf(m.addr)
  IN  /\ tpc[t] = "copy"
      /\ tbuf' = [tbuf EXCEPT ![t] = b]
      /\ \/ b # None /\ Decide(m.id, IF payload[b] = m.id THEN "delivered" ELSE "corrupt")
         \/ Decide(m.id, "error")
      /\ Goto(t, "free")
      /\ UNCHANGED <<nic, kthread, queue, tport, tslot, mutex, errors>>

\* eviq_free_push(&long_queue->evi_queue, queue_slot)
RecvFree(t) ==
  /\ tpc[t] = "free"
  /\ free' = free \cup {tslot[t]}
  /\ tslot' = [tslot EXCEPT ![t] = None]
  /\ Goto(t, "giveback")
  /\ UNCHANGED <<nic, kthread, fifo, desc, tport, tbuf, mutex, history>>

\* For a mutant: the buffer is not given back.
GiveBackForgotten(t) ==
  /\ tpc[t] = "giveback" /\ mutex[tport[t]] = None
  /\ tbuf' = [tbuf EXCEPT ![t] = None]
  /\ Return(t)
  /\ UNCHANGED <<nic, kthread, queue, tslot, mutex, history>>

\* "free the buffer for the HW", under the mutex of the port.
RecvGiveBack(t) ==
  /\ tpc[t] = "giveback" /\ mutex[tport[t]] = None
  /\ axiom_hw_set_long_buf({tbuf[t]} \ {None})
  /\ tbuf' = [tbuf EXCEPT ![t] = None]
  /\ Return(t)
  /\ UNCHANGED <<hwrx, arrived, payload, wrong, kthread, queue, tslot, mutex, history>>

\* The number of slots at the front of a queue whose address is that of a buffer.
Flushable(q) ==
  LET Good(n) == \A i \in 1 .. n : axiomnet_long_rdma2buf(desc[q[i]].addr) # None
  IN  CHOOSE n \in 0 .. Len(q) : Good(n) /\ (n = Len(q) \/ ~Good(n + 1))

\* axiomnet_long_flush: with the mutex and queue_lock held, slots and buffers are
\* freed up to the first message whose address is not that of a buffer; that one is
\* dequeued, and neither freed nor followed by the rest.
LongFlush(t) ==
  LET q == fifo[tport[t]]
      n == Flushable(q)
      dropped == {q[i] : i \in 1 .. n}
      gone == {q[i] : i \in 1 .. IF n < Len(q) THEN n + 1 ELSE n}
  IN  /\ tpc[t] = "flush" /\ mutex[tport[t]] = None
      /\ free' = free \cup dropped
      /\ axiom_hw_set_long_buf({desc[s].addr : s \in dropped})
      /\ fifo' = [fifo EXCEPT ![tport[t]] = SubSeq(q, n + 2, Len(q))]
      /\ fate' = [i \in Ids |->
                    IF \E s \in gone : desc[s].id = i THEN "flushed" ELSE fate[i]]
      /\ Return(t)
      /\ UNCHANGED <<hwrx, arrived, payload, wrong, kthread, desc, tslot, tbuf, mutex, errors>>

axiomnet_long_recv(t) ==
  \/ Lock(t) \/ RecvTest(t) \/ RecvWait(t) \/ RecvDequeue(t)
  \/ RecvCopy(t) \/ RecvFree(t) \/ RecvGiveBack(t)

Next ==
  \/ ArriveLong \/ ArriveOther \/ axiom_rdma_rx_dequeue
  \/ \E t \in Threads : Call(t) \/ axiomnet_long_recv(t) \/ Signal(t) \/ LongFlush(t)

Spec == Init /\ [][Next]_vars
-----------------------------------------------------------------------------
NicType ==
  /\ hwrx \in Seq(Msgs) /\ Len(hwrx) <= HwLen
  /\ arrived \in 0 .. MaxMsgs
  /\ hwfree \in SUBSET Bufs
  /\ payload \in [Bufs -> Ids \cup {None}]
  /\ wrong \in BOOLEAN
KthreadType ==
  /\ kpc \in {"work", "pop", "put", "wake"}
  /\ kmsg \in Msgs \cup {None} /\ kslot \in Slots \cup {None}
  /\ kmsg = None <=> kpc = "work"
  /\ kslot # None <=> kpc = "put"
QueueType ==
  /\ fifo \in [Ports -> Seq(Slots)]
  /\ free \in SUBSET Slots
  /\ desc \in [Slots -> Msgs \cup {None}]
UserType ==
  /\ tpc \in [Threads -> {"idle", "lock", "test", "event", "sleep", "dequeue", "copy",
                          "free", "giveback", "flush"}]
  /\ tport \in [Threads -> Ports \cup {BadPort}]
  /\ tslot \in [Threads -> Slots \cup {None}]
  /\ tbuf \in [Threads -> Bufs \cup {None}]
  /\ mutex \in [Ports -> Threads \cup {None}]
  /\ \A t \in Threads : tport[t] = BadPort <=> tpc[t] = "idle"
  /\ \A t \in Threads : tslot[t] # None <=> tpc[t] \in {"copy", "free"}
  /\ \A t \in Threads : tbuf[t] # None => tpc[t] \in {"free", "giveback"}
HistoryType ==
  /\ fate \in [Ids -> {"none", "ignored", "discarded", "delivered", "corrupt", "error",
                       "flushed"}]
  /\ errors \in SUBSET {"LONG SW queue empty", "XXX: impossible!"}

\* Every variable has its type; the kthread and a thread hold a slot and a buffer
\* exactly at the steps between taking and giving it away.
TypeOK == NicType /\ KthreadType /\ QueueType /\ UserType /\ HistoryType

\* The slots whose message is not decided yet, and the messages that are not.
Waiting ==
  (UNION {Range(fifo[p]) : p \in Ports})
    \cup {tslot[t] : t \in {u \in Threads : tpc[u] = "copy"}}
Undecided ==
  Range(hwrx) \cup {desc[s] : s \in Waiting}
    \cup {m \in {kmsg} : kpc \in {"pop", "put"}}

\* The payload of a message stays in its buffer until the message is delivered or
\* dropped: the NIC is not given the buffer before, and no two messages share one.
PayloadIntact ==
  /\ \A m \in Undecided : m.type = "LONG_DATA" /\ m.addr # BadAddr =>
       m.addr \notin hwfree /\ payload[m.addr] = m.id
  /\ \A i \in Ids : fate[i] # "corrupt"

\* The slots in the hands of the kthread and of the readers.
Held == ({kslot} \cup Range(tslot)) \ {None}

\* No slot is shared, and one is lost in one way only: axiomnet_long_flush met a
\* message whose address is not that of a buffer.
SlotsLostOnlyByFlush ==
  /\ \A s \in Slots :
       \/ s \in free \cup Held
       \/ \E p \in Ports : s \in Range(fifo[p])
       \/ desc[s].addr = BadAddr /\ fate[desc[s].id] = "flushed"
  /\ free \cap Held = {}
  /\ \A p \in Ports : \A i \in 1 .. Len(fifo[p]) :
       /\ fifo[p][i] \notin free \cup Held
       /\ \A r \in Ports : \A j \in 1 .. Len(fifo[r]) :
            fifo[p][i] = fifo[r][j] => p = r /\ i = j
  /\ \A t, u \in Threads :
       tslot[t] # None => tslot[t] # kslot /\ (tslot[t] = tslot[u] => t = u)

\* With as many slots as buffers no message finds the queue without a free slot, and
\* no reader finds its queue empty after the wait: a reader frees the slot before
\* the buffer.
EnoughSlots == errors # {} => wrong /\ errors = {"LONG SW queue empty"}

\* The buffer of a message that was dropped by the kthread.
Dropped(b) == payload[b] # None /\ fate[payload[b]] = "discarded"
InUse(b) == (\E m \in Undecided : m.addr = b) \/ (\E t \in Threads : tbuf[t] = b)

\* A buffer is lost to the NIC in one way only: the kthread discarded its message.
BuffersLostOnlyByDiscard == \A b \in Bufs : b \in hwfree \/ InUse(b) \/ Dropped(b)

\* Slots and buffers are given back at different places and in different orders, and
\* each kind is lost in one known way only.
LeaksKnown == SlotsLostOnlyByFlush /\ BuffersLostOnlyByDiscard

\* A reader sleeps on a port with messages only while the kthread is about to wake
\* it.  No watchdog looks after these readers.
NoLostWakeup ==
  \A t \in Threads :
    tpc[t] = "sleep" /\ fifo[tport[t]] # <<>> => kpc = "wake" /\ kmsg.port = tport[t]
-----------------------------------------------------------------------------
(* What the code does not do.  The README gives the instance that shows it.  *)

\* "When the software read this buffer, it must write 1b to signal to the HW that
\* this buffer is now free": a buffer that no message needs is given back.
BuffersReturned == \A b \in Bufs : b \in hwfree \/ InUse(b)
=============================================================================
