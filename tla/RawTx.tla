------------------------------- MODULE RawTx --------------------------------
(***************************************************************************)
(* The transmit path of RAW messages: threads in axiomnet_raw_send, the    *)
(* words that axiom_hw_raw_tx writes to the TX FIFO, the interrupt handler *)
(* and the watchdog.                                                       *)
(*                                                                         *)
(* A packet is a header of 5 bytes and a payload.  It is written in words  *)
(* of 8 bytes, and the NIC may send it once its length was written.  The   *)
(* vacancy register counts free locations of Loc bytes.                    *)
(***************************************************************************)
EXTENDS Integers, Sequences

CONSTANTS
  Threads,      \* threads that send
  Sizes,        \* payload sizes
  Depth,        \* capacity of the TX FIFO, in words
  Loc,          \* bytes per location that the vacancy register counts
  IdMod,        \* message ids: 256
  None          \* no thread

HeaderSize == 5
WordSize == 8

\* sizeof(msg->header) + payload_size
Need(size) == HeaderSize + size

ASSUME RawTxAssumption ==
  /\ Sizes \subseteq Nat
  /\ Depth \in Nat /\ IdMod \in Nat \ {0} /\ Loc \in {1, 2, 4, 8}
  /\ None \notin Threads
  /\ \A s \in Sizes : Need(s) * Loc <= Depth * WordSize

VARIABLES
  \* the NIC
  hwtx,         \* TX FIFO: the words
  lens,         \* lengths that were written and whose packet is not yet sent
  sent,         \* words of the first packet that the NIC has sent
  pending,      \* the TX bit of the pending register
  irq,          \* the interrupt handler has read it, and will acknowledge it
  \* the driver
  next_raw_id,
  mutex,        \* owner of raw_tx_ring.port.mutex
  tpc,
  tmsg          \* the call: payload size, O_NONBLOCK, msg_id, words written

nic == <<hwtx, lens, sent, pending, irq>>
users == <<tpc, tmsg>>
vars == <<nic, next_raw_id, mutex, users>>

\* One write for the header and 3 bytes, then one for every 8 bytes begun.
WordsOf(size) == 1 + (IF size > 3 THEN (size - 3 + 7) \div WordSize ELSE 0)

axiomnet_raw_tx_avail == ((Depth - Len(hwtx)) * WordSize) \div Loc

NoMsg == [size |-> 0, nonblock |-> FALSE, id |-> 0, words |-> 0]

Init ==
  /\ hwtx = <<>> /\ lens = <<>> /\ sent = 0 /\ pending = FALSE /\ irq = FALSE
  /\ next_raw_id = 0
  /\ mutex = None
  /\ tpc = [t \in Threads |-> "idle"]
  /\ tmsg = [t \in Threads |-> NoMsg]
-----------------------------------------------------------------------------
(* The NIC and the interrupt *)

\* The NIC takes a word of the first packet; the interrupt is raised if the FIFO
\* was full.
Transmit ==
  /\ lens # <<>>
  /\ hwtx' = Tail(hwtx)
  /\ IF sent + 1 = Head(lens) THEN sent' = 0 /\ lens' = Tail(lens)
                              ELSE sent' = sent + 1 /\ UNCHANGED lens
  /\ pending' = (pending \/ axiomnet_raw_tx_avail = 0)
  /\ UNCHANGED <<irq, next_raw_id, mutex, users>>

\* wake_up(&drvdata->raw_tx_ring.port.wait_queue)
PortWoken == [t \in Threads |-> IF tpc[t] = "sleep" THEN "event" ELSE tpc[t]]

\* axiomnet_irqhandler reads the pending register and wakes the senders ...
axiomnet_irqhandler ==
  /\ pending /\ ~irq
  /\ irq' = TRUE
  /\ tpc' = PortWoken
  /\ UNCHANGED <<hwtx, lens, sent, pending, next_raw_id, mutex, tmsg>>

\* ... and clears the bit at its end.
axiom_hw_ack_irq ==
  /\ irq
  /\ irq' = FALSE /\ pending' = FALSE
  /\ UNCHANGED <<hwtx, lens, sent, next_raw_id, mutex, users>>

\* For a mutant: the watchdog leaves the senders alone.
WatchdogWakesNobody == FALSE /\ UNCHANGED vars

\* axiomnet_watchdog_worker wakes the senders if there is space.
axiomnet_watchdog_worker ==
  /\ axiomnet_raw_tx_avail # 0
  /\ tpc' = PortWoken
  /\ UNCHANGED <<nic, next_raw_id, mutex, tmsg>>
-----------------------------------------------------------------------------
(* axiomnet_raw_send *)

Goto(t, pc) == tpc' = [tpc EXCEPT ![t] = pc]

Return(t) == Goto(t, "idle") /\ tmsg' = [tmsg EXCEPT ![t] = NoMsg]

\* A call with a size and a destination that the first tests accept.
Call(t) ==
  /\ tpc[t] = "idle"
  /\ \E s \in Sizes, nb \in BOOLEAN :
       tmsg' = [tmsg EXCEPT ![t] = [NoMsg EXCEPT !.size = s, !.nonblock = nb]]
  /\ Goto(t, "lock")
  /\ UNCHANGED <<nic, next_raw_id, mutex>>

\* mutex_lock(&tx_ring->port.mutex), before the test and again before the write.
Lock(t) ==
  /\ mutex = None
  /\ \/ tpc[t] = "lock" /\ Goto(t, "test")
     \/ tpc[t] = "relock" /\ Goto(t, "tx")
  /\ mutex' = t
  /\ UNCHANGED <<nic, next_raw_id, tmsg>>

\* The loop condition; the mutex is released whatever it gives.  Without space the
\* call returns -EAGAIN if the file is O_NONBLOCK, or waits.
SendTest(t) ==
  /\ tpc[t] = "test"
  /\ mutex' = None
  /\ CASE axiomnet_raw_tx_avail # 0 -> Goto(t, "copy") /\ UNCHANGED tmsg
       [] axiomnet_raw_tx_avail = 0 /\ tmsg[t].nonblock -> Return(t)
       [] OTHER -> Goto(t, "event") /\ UNCHANGED tmsg
  /\ UNCHANGED <<nic, next_raw_id>>

\* wait_event_interruptible tests its condition: sleep, or back to mutex_lock.
SendWait(t) ==
  /\ tpc[t] = "event"
  /\ Goto(t, IF axiomnet_raw_tx_avail # 0 THEN "lock" ELSE "sleep")
  /\ UNCHANGED <<nic, next_raw_id, mutex, tmsg>>

\* A signal ends the wait, unless the condition holds by now.
Signal(t) ==
  /\ tpc[t] = "sleep"
  /\ IF axiomnet_raw_tx_avail # 0 THEN Goto(t, "lock") /\ UNCHANGED tmsg ELSE Return(t)
  /\ UNCHANGED <<nic, next_raw_id, mutex>>

\* The payload is copied, or an iovec is too long (-EFBIG) or not readable (-EFAULT).
SendCopy(t) ==
  /\ tpc[t] = "copy"
  /\ (Goto(t, "relock") /\ UNCHANGED tmsg) \/ Return(t)
  /\ UNCHANGED <<nic, next_raw_id, mutex>>

\* axiom_hw_raw_tx takes the next id ...
HwTakeId(t) ==
  /\ tpc[t] = "tx"
  /\ tmsg' = [tmsg EXCEPT ![t].id = next_raw_id]
  /\ next_raw_id' = (next_raw_id + 1) % IdMod
  /\ Goto(t, "space")
  /\ UNCHANGED <<nic, mutex>>

\* For a mutant: the header is forgotten.
RoomForPayload(size) == axiomnet_raw_tx_avail >= size

HasRoom(size) == axiomnet_raw_tx_avail >= Need(size)

\* ... calls schedule() until there is space for header and payload ...
HwWaitSpace(t) ==
  /\ tpc[t] = "space" /\ HasRoom(tmsg[t].size)
  /\ Goto(t, "write")
  /\ UNCHANGED <<nic, next_raw_id, mutex, tmsg>>

\* ... writes the words ...
HwWrite(t) ==
  LET n == tmsg[t].words + 1 IN
  /\ tpc[t] = "write"
  /\ hwtx' = Append(hwtx, [id |-> tmsg[t].id, word |-> n])
  /\ tmsg' = [tmsg EXCEPT ![t].words = n]
  /\ Goto(t, IF n < WordsOf(tmsg[t].size) THEN "write" ELSE "setlen")
  /\ UNCHANGED <<lens, sent, pending, irq, next_raw_id, mutex>>

\* ... and writes the length; the caller releases the mutex and returns.
HwSetLen(t) ==
  /\ tpc[t] = "setlen"
  /\ lens' = Append(lens, tmsg[t].words)
  /\ mutex' = None
  /\ Return(t)
  /\ UNCHANGED <<hwtx, sent, pending, irq, next_raw_id>>

axiom_hw_raw_tx(t) == HwTakeId(t) \/ HwWaitSpace(t) \/ HwWrite(t) \/ HwSetLen(t)

axiomnet_raw_send(t) ==
  Lock(t) \/ SendTest(t) \/ SendWait(t) \/ SendCopy(t) \/ axiom_hw_raw_tx(t)

Next ==
  \/ Transmit \/ axiomnet_irqhandler \/ axiom_hw_ack_irq \/ axiomnet_watchdog_worker
  \/ \E t \in Threads : Call(t) \/ axiomnet_raw_send(t) \/ Signal(t)

Spec == Init /\ [][Next]_vars

\* The NIC sends what it was given, interrupts are served, the watchdog is enabled
\* and the kernel runs every runnable thread.  Nobody need call or send a signal.
Fairness ==
  /\ WF_vars(Transmit) /\ WF_vars(axiomnet_irqhandler) /\ WF_vars(axiom_hw_ack_irq)
  /\ WF_vars(axiomnet_watchdog_worker)
  /\ \A t \in Threads : WF_vars(axiomnet_raw_send(t))

FairSpec == Spec /\ Fairness
-----------------------------------------------------------------------------
MaxWords == Depth
Words == [id : 0 .. IdMod - 1, word : 1 .. MaxWords]
Calls == [size : Sizes \cup {0}, nonblock : BOOLEAN, id : 0 .. IdMod - 1,
          words : 0 .. MaxWords]
Locked == {"test", "tx", "space", "write", "setlen"}

\* Every variable has its type, and a thread owns the mutex exactly at the steps
\* between mutex_lock and mutex_unlock.
TypeOK ==
  /\ hwtx \in Seq(Words) /\ lens \in Seq(1 .. MaxWords) /\ sent \in 0 .. MaxWords
  /\ pending \in BOOLEAN /\ irq \in BOOLEAN
  /\ next_raw_id \in 0 .. IdMod - 1
  /\ mutex \in Threads \cup {None}
  /\ tpc \in [Threads -> Locked \cup {"idle", "lock", "event", "sleep", "copy", "relock"}]
  /\ tmsg \in [Threads -> Calls]
  /\ \A t \in Threads : mutex = t <=> tpc[t] \in Locked

\* The FIFO is never overrun, although the space is counted in bytes of header and
\* payload and used up in words, and although the wait for space that
\* axiomnet_raw_send does under the mutex is over before the mutex is taken again.
NoOverrun == Len(hwtx) <= Depth

Writing(t) == tpc[t] \in {"write", "setlen"}

\* The lengths that were written cut the FIFO into packets: there are places, from the
\* beginning of the packet that is being sent to the end of the last complete one, such
\* that the words between two of them are those of one packet, in order.  Behind the last
\* place are the words that the thread in axiom_hw_raw_tx has written, and nothing else.
CutByLengths ==
  \E end \in [0 .. Len(lens) -> -MaxWords .. MaxWords] :
    /\ end[0] = -sent
    /\ \A j \in 1 .. Len(lens) :
         /\ end[j] = end[j - 1] + lens[j] /\ end[j] <= Len(hwtx)
         /\ \A i \in 1 .. Len(hwtx) : end[j - 1] < i /\ i <= end[j] => hwtx[i].word = i - end[j - 1]
    /\ \A i \in 1 .. Len(hwtx) : end[Len(lens)] < i => hwtx[i].word = i - end[Len(lens)]
    /\ \A t \in Threads : Writing(t) => Len(hwtx) = end[Len(lens)] + tmsg[t].words
    /\ (\A t \in Threads : ~Writing(t)) => Len(hwtx) = end[Len(lens)]

\* Packets enter the FIFO in the order of their ids, and no id is skipped.
IdsConsecutive ==
  /\ \A i \in 1 .. Len(hwtx) - 1 :
       hwtx[i + 1].word = 1 => hwtx[i + 1].id = (hwtx[i].id + 1) % IdMod
  /\ hwtx # <<>> /\ mutex = None => next_raw_id = (hwtx[Len(hwtx)].id + 1) % IdMod

\* The NIC sees whole packets: the FIFO holds the rest of the packet that is being
\* sent, then complete packets, then at most one that is being written; the words
\* of a packet are in order, and no two packets are mixed.  It is never overrun, and
\* the packets are numbered in order.
PacketsWhole ==
  /\ NoOverrun /\ IdsConsecutive
  /\ sent > 0 => lens # <<>> /\ sent < Head(lens)
  /\ CutByLengths
  /\ \A i \in 1 .. Len(hwtx) - 1 :
       \/ hwtx[i + 1].id = hwtx[i].id /\ hwtx[i + 1].word = hwtx[i].word + 1
       \/ hwtx[i + 1].word = 1

\* A sender does not sleep for ever, although the interrupt that reports space can
\* be acknowledged unseen.
SenderWoken == \A t \in Threads : (tpc[t] = "sleep") ~> (tpc[t] # "sleep")

\* A sender that waits for room with the mutex held gets it, and releases the mutex.
MutexReleased == \A t \in Threads : (tpc[t] = "space") ~> (mutex = None)

\* Both waits for space end, the one without and the one with the mutex.
WaitsEnd == SenderWoken /\ MutexReleased
-----------------------------------------------------------------------------
(* What the code does not do.  The README gives the instance that shows it.  *)

\* "Use no blocking I/O for send/recv RAW API": a send on an O_NONBLOCK file does
\* not wait in axiom_hw_raw_tx until the NIC has made room.
NonBlocking ==
  \A t \in Threads : tmsg[t].nonblock /\ tpc[t] = "space" => HasRoom(tmsg[t].size)
=============================================================================
