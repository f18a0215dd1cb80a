------------------------------- MODULE RdmaTx -------------------------------
(***************************************************************************)
(* RDMA requests in axiom_netdev_common.c: processes in axiomnet_rdma_tx,  *)
(* axiomnet_rdma_check and axiomnet_rdma_wait, the NIC and the network,    *)
(* the interrupt handler, the kthread that handles the acknowledgements in *)
(* axiom_rdma_rx_dequeue, and the watchdog.                                *)
(*                                                                         *)
(* A slot of the RDMA queue is a message id; rdma_status holds the state   *)
(* of the request that uses it.  A step is what one actor does between two *)
(* points where another one can see its effects.  LONG messages, which the *)
(* same kthread receives, and the callback that axiomnet_long_send passes  *)
(* are left out.                                                           *)
(***************************************************************************)
EXTENDS Naturals, Sequences, Functions

CONSTANTS
  Slots,        \* message ids, AXIOMNET_RDMA_QUEUE_FREE_LEN of them
  Threads,      \* threads that send
  Nodes,        \* reachable nodes
  NullNode,     \* AXIOM_NULL_NODE
  None,         \* no slot, no token, nobody
  Kthread,      \* kthread_rdma, as the owner of a mutex
  MaxRetry,     \* AXIOMNET_MAX_RDMA_RETRY
  RetriesMod,   \* 2^8: retries is an uint8_t
  CounterMod,   \* 2^32: msg_id_counter is an uint32_t
  HwLen,        \* bound: capacity of the NIC's FIFOs, in descriptors
  MaxReqs,      \* bound: calls of axiomnet_rdma_tx
  MaxErrors     \* bound: error replies to one request

Reqs == 1 .. MaxReqs

Descs == [slot : Slots, node : Nodes, req : Reqs]
Acks == [desc : Descs, error : BOOLEAN]
Status == [msg_id_counter : 0 .. CounterMod - 1, retries : 0 .. RetriesMod - 1,
           ack_received : BOOLEAN, ack_waiting : BOOLEAN,
           dst : Nodes \cup {NullNode}, req : Reqs \cup {None}]
Tokens == [slot : Slots, value : 0 .. CounterMod - 1, status : {"PENDING", "ACKED"},
           req : Reqs]

ASSUME RdmaTxAssumption ==
  /\ NullNode \notin Nodes
  /\ None \notin Slots \cup Threads \cup Reqs \cup Acks \cup Tokens
  /\ Kthread \notin Threads \cup {None}
  /\ MaxRetry \in Nat /\ RetriesMod \in Nat \ {0} /\ CounterMod \in Nat \ {0}
  /\ HwLen \in Nat /\ MaxReqs \in Nat /\ MaxErrors \in Nat

VARIABLES
  \* NIC and network
  hwtx,         \* TX FIFO
  flight,       \* requests on their way to the remote node
  hwrx,         \* RX FIFO
  pending,      \* pending interrupt register, a subset of {"RX", "TX"}
  irq,          \* the bits the interrupt handler has read, to acknowledge
  \* kthread_rdma
  sched,        \* scheduled # old_scheduled
  kpc, kack,
  \* rdma_queue
  free,         \* free slots
  rdma_status,
  mutex,        \* owner of rdma_port.mutex
  \* threads
  tpc, tslot, treq,
  token,        \* the token of the last asynchronous request of a thread
  \* history
  nreq,         \* calls made so far; also the last request
  fate,         \* what became of each request
  resent,       \* how often each request was sent again
  errors        \* the branches marked unexpected or impossible that were taken

nic == <<hwtx, flight, hwrx, pending, irq>>
kthread == <<sched, kpc, kack>>
queue == <<free, rdma_status>>
users == <<mutex, tpc, tslot, treq, token>>
history == <<nreq, fate, resent, errors>>
vars == <<hwtx, flight, hwrx, pending, irq, sched, kpc, kack, free, rdma_status,
          mutex, tpc, tslot, treq, token, nreq, fate, resent, errors>>

Init ==
  /\ hwtx = <<>> /\ flight = {} /\ hwrx = <<>> /\ pending = {} /\ irq = {}
  /\ sched = FALSE /\ kpc = "wait" /\ kack = None
  /\ free = Slots
  /\ rdma_status = [s \in Slots |->
       [msg_id_counter |-> 0, retries |-> 0, ack_received |-> FALSE,
        ack_waiting |-> FALSE, dst |-> NullNode, req |-> None]]
  /\ mutex = None
  /\ tpc = [t \in Threads |-> "idle"]
  /\ tslot = [t \in Threads |-> None]
  /\ treq = [t \in Threads |-> None]
  /\ token = [t \in Threads |-> None]
  /\ nreq = 0
  /\ fate = [r \in Reqs |-> "none"]
  /\ resent = [r \in Reqs |-> 0]
  /\ errors = {}
-----------------------------------------------------------------------------
(* The NIC, the network and the interrupt *)

\* The NIC sends a descriptor; the TX interrupt is raised if the FIFO was full.
Transmit ==
  /\ hwtx # <<>>
  /\ flight' = flight \cup {Head(hwtx)}
  /\ hwtx' = Tail(hwtx)
  /\ pending' = IF Len(hwtx) = HwLen THEN pending \cup {"TX"} ELSE pending
  /\ UNCHANGED <<hwrx, irq, kthread, queue, users, history>>

\* The remote node answers, in any order, and sets the error bit if it could not
\* take the request.  The RX interrupt is raised if the FIFO was empty.
Reply ==
  /\ Len(hwrx) < HwLen
  /\ \E d \in flight, e \in BOOLEAN :
       /\ e => resent[d.req] < MaxErrors
       /\ flight' = flight \ {d}
       /\ hwrx' = Append(hwrx, [desc |-> d, error |-> e])
  /\ pending' = IF hwrx = <<>> THEN pending \cup {"RX"} ELSE pending
  /\ UNCHANGED <<hwtx, irq, kthread, queue, users, history>>

axiom_kthread_wakeup ==
  /\ sched' = TRUE
  /\ kpc' = IF kpc = "sleep" THEN "wait" ELSE kpc

\* axiom_hw_rdma_tx writes a descriptor once the FIFO has space for it.
axiom_hw_rdma_tx(d) == Len(hwtx) < HwLen /\ hwtx' = Append(hwtx, d)

\* wake_up(&tx_ring->rdma_port.wait_queue)
PortWoken == [t \in Threads |-> IF tpc[t] = "sleep" THEN "event" ELSE tpc[t]]

\* axiomnet_irqhandler reads the pending register and wakes those concerned ...
axiomnet_irqhandler ==
  /\ irq = {} /\ pending # {}
  /\ irq' = pending
  /\ IF "RX" \in pending THEN axiom_kthread_wakeup ELSE UNCHANGED <<sched, kpc>>
  /\ tpc' = IF "TX" \in pending THEN PortWoken ELSE tpc
  /\ UNCHANGED <<hwtx, flight, hwrx, pending, kack, queue, mutex, tslot, treq, token, history>>

\* ... and clears at its end the bits it read.
axiom_hw_ack_irq ==
  /\ irq # {}
  /\ pending' = pending \ irq
  /\ irq' = {}
  /\ UNCHANGED <<hwtx, flight, hwrx, kthread, queue, users, history>>
-----------------------------------------------------------------------------
(* kthread_rdma *)

axiomnet_rdma_rx_work_todo == hwrx # <<>>

axkt_worker ==
  /\ kpc = "wait"
  /\ IF sched \/ axiomnet_rdma_rx_work_todo
       THEN sched' = FALSE /\ kpc' = "work"
       ELSE sched' = sched /\ kpc' = "sleep"
  /\ UNCHANGED <<nic, kack, queue, users, history>>

\* Is the ack from the node that the slot's request was sent to?
ExpectedAck(a) == rdma_status[a.desc.slot].dst = a.desc.node

\* retries is compared as it is stored, modulo RetriesMod.
MayRetry(a) == a.error /\ rdma_status[a.desc.slot].retries < MaxRetry

\* The loop condition of axiom_rdma_rx_dequeue, the read of an ack and its checks.
DequeueAck ==
  /\ kpc = "work"
  /\ IF ~axiomnet_rdma_rx_work_todo
       THEN kpc' = "wait" /\ UNCHANGED <<hwrx, kack, errors>>
       ELSE /\ hwrx' = Tail(hwrx)
            /\ IF ~ExpectedAck(Head(hwrx))
                 THEN /\ errors' = errors \cup {"unexpected ACK"}
                      /\ UNCHANGED <<kpc, kack>>
                 ELSE /\ kack' = Head(hwrx)
                      /\ kpc' = IF MayRetry(Head(hwrx)) THEN "retry" ELSE "ack"
                      /\ UNCHANGED errors
  /\ UNCHANGED <<hwtx, flight, pending, irq, sched, queue, users, nreq, fate, resent>>

\* mutex_lock(&tx_ring->rdma_port.mutex), held during the delay.
RetryLock ==
  /\ kpc = "retry" /\ mutex = None
  /\ mutex' = Kthread
  /\ kpc' = "resend"
  /\ UNCHANGED <<nic, sched, kack, queue, tpc, tslot, treq, token, history>>

AddRetry(s) == [rdma_status EXCEPT ![s].retries = (@ + 1) % RetriesMod]

\* "if all is ok, continue to next packet"
FallThrough == kpc' = "received" /\ UNCHANGED kack
ContinueAfterResend == kpc' = "work" /\ kack' = None

\* For a mutant: without space in the FIFO the request is given up.
ResendGivesUp ==
  /\ kpc = "resend"
  /\ IF Len(hwtx) < HwLen
       THEN LET d == kack.desc IN
            axiom_hw_rdma_tx([slot |-> d.slot, node |-> rdma_status[d.slot].dst,
                              req |-> rdma_status[d.slot].req])
       ELSE UNCHANGED hwtx
  /\ rdma_status' = AddRetry(kack.desc.slot)
  /\ resent' = [resent EXCEPT ![rdma_status[kack.desc.slot].req] = @ + 1]
  /\ mutex' = None
  /\ ContinueAfterResend
  /\ UNCHANGED <<flight, hwrx, pending, irq, sched, free, tpc, tslot, treq, token,
                 nreq, fate, errors>>

\* The header is sent again once there is space; retries wraps at its width.
Resend ==
  /\ kpc = "resend"
  /\ LET s == kack.desc.slot
         st == rdma_status[s]
     IN  /\ axiom_hw_rdma_tx([slot |-> s, node |-> st.dst, req |-> st.req])
         /\ rdma_status' = AddRetry(s)
         /\ resent' = [resent EXCEPT ![st.req] = @ + 1]
  /\ mutex' = None
  /\ ContinueAfterResend
  /\ UNCHANGED <<flight, hwrx, pending, irq, sched, free, tpc, tslot, treq, token,
                 nreq, fate, errors>>

CountAck(s) == [rdma_status EXCEPT ![s].msg_id_counter = (@ + 1) % CounterMod]

\* msg_id_counter is incremented, and ack_waiting is read.
HandleAck ==
  /\ kpc = "ack"
  /\ LET s == kack.desc.slot
     IN  /\ rdma_status' = CountAck(s)
         /\ fate' = [fate EXCEPT ![rdma_status[s].req] =
                       IF kack.error THEN "discarded" ELSE "acked"]
         /\ kpc' = IF rdma_status[s].ack_waiting THEN "received" ELSE "free"
  /\ UNCHANGED <<nic, sched, kack, free, users, nreq, resent, errors>>

\* ack_received = true, for the sender that was waiting when the flag was read.
AckReceived ==
  /\ kpc = "received"
  /\ rdma_status' = [rdma_status EXCEPT ![kack.desc.slot].ack_received = TRUE]
  /\ kpc' = "wake"
  /\ UNCHANGED <<nic, sched, kack, free, users, history>>

PushForgotten(s) == UNCHANGED free
eviq_free_push(s) == free' = free \cup {s}

\* The test before the notification after a slot was freed here: if (avail).
NotifyPort == free # {}

\* Nobody waits: the status is reset and its slot freed.
FreeStatus ==
  /\ kpc = "free"
  /\ rdma_status' = [rdma_status EXCEPT ![kack.desc.slot].ack_received = FALSE,
                                        ![kack.desc.slot].dst = NullNode]
  /\ eviq_free_push(kack.desc.slot)
  /\ kpc' = IF NotifyPort THEN "wakeport" ELSE "wake"
  /\ UNCHANGED <<nic, sched, kack, users, history>>

WakePort ==
  /\ kpc = "wakeport"
  /\ tpc' = PortWoken
  /\ kpc' = "wake"
  /\ UNCHANGED <<nic, sched, kack, queue, mutex, tslot, treq, token, history>>

WakeSenderOnly(s) ==
  [t \in Threads |-> IF tpc[t] = "acksleep" /\ tslot[t] = s THEN "ackevent" ELSE tpc[t]]

\* wake_up(&rdma_status->wait_queue): the sender of the request, and those that
\* wait for its token.
StatusWoken(s) ==
  [t \in Threads |->
     CASE tpc[t] = "acksleep" /\ tslot[t] = s -> "ackevent"
       [] tpc[t] = "waitsleep" /\ token[t].slot = s -> "wait"
       [] OTHER -> tpc[t]]

WakeStatus ==
  /\ kpc = "wake"
  /\ tpc' = StatusWoken(kack.desc.slot)
  /\ kpc' = "work" /\ kack' = None
  /\ UNCHANGED <<nic, sched, queue, mutex, tslot, treq, token, history>>

axiom_rdma_rx_dequeue ==
  DequeueAck \/ RetryLock \/ Resend \/ HandleAck \/ AckReceived \/ FreeStatus
    \/ WakePort \/ WakeStatus

axiomnet_rdma_tx_avail == Len(hwtx) < HwLen /\ free # {}

WatchdogWakesNobody == UNCHANGED vars

\* axiomnet_watchdog_worker, when its period is not zero.
axiomnet_watchdog_worker ==
  /\ IF axiomnet_rdma_rx_work_todo THEN axiom_kthread_wakeup ELSE UNCHANGED <<sched, kpc>>
  /\ tpc' = IF axiomnet_rdma_tx_avail THEN PortWoken ELSE tpc
  /\ UNCHANGED <<nic, kack, queue, mutex, tslot, treq, token, history>>
-----------------------------------------------------------------------------
(* Threads in axiomnet_rdma_tx *)

Goto(t, pc) == tpc' = [tpc EXCEPT ![t] = pc]

Return(t) ==
  /\ Goto(t, "idle")
  /\ tslot' = [tslot EXCEPT ![t] = None]
  /\ treq' = [treq EXCEPT ![t] = None]

\* The call fails before the request is sent: -EAGAIN, -ERESTARTSYS.
Refuse(t) ==
  /\ Return(t)
  /\ fate' = [fate EXCEPT ![treq[t]] = "refused"]

\* A thread enters axiomnet_rdma_tx: the destination is reachable and the
\* addresses are aligned, or else the call returns at once.
Call(t) ==
  /\ tpc[t] = "idle" /\ nreq < MaxReqs
  /\ nreq' = nreq + 1
  /\ treq' = [treq EXCEPT ![t] = nreq + 1]
  /\ Goto(t, "lock")
  /\ UNCHANGED <<nic, kthread, queue, mutex, tslot, token, fate, resent, errors>>

\* The three places where axiomnet_rdma_tx takes rdma_port.mutex.
AfterLock == [lock |-> "test", sendlock |-> "send", acklock |-> "sent"]

Lock(t) ==
  /\ tpc[t] \in DOMAIN AfterLock /\ mutex = None
  /\ mutex' = t
  /\ Goto(t, AfterLock[tpc[t]])
  /\ UNCHANGED <<nic, kthread, queue, tslot, treq, token, history>>

\* The loop condition: without space the mutex is released, and the call returns
\* -EAGAIN if the file is O_NONBLOCK, or waits.
TestAvail(t) ==
  /\ tpc[t] = "test"
  /\ IF axiomnet_rdma_tx_avail
       THEN Goto(t, "pop") /\ UNCHANGED <<mutex, tslot, treq, fate>>
       ELSE /\ mutex' = None
            /\ Refuse(t) \/ (Goto(t, "event") /\ UNCHANGED <<tslot, treq, fate>>)
  /\ UNCHANGED <<nic, kthread, queue, token, nreq, resent, errors>>

\* wait_event_interruptible tests its condition: sleep, or back to mutex_lock.
WaitAvail(t) ==
  /\ tpc[t] = "event"
  /\ Goto(t, IF axiomnet_rdma_tx_avail THEN "lock" ELSE "sleep")
  /\ UNCHANGED <<nic, kthread, queue, mutex, tslot, treq, token, history>>

\* A signal ends that wait, unless the condition holds by now.
SignalAvail(t) ==
  /\ tpc[t] = "sleep"
  /\ IF axiomnet_rdma_tx_avail
       THEN Goto(t, "lock") /\ UNCHANGED <<tslot, treq, fate>>
       ELSE Refuse(t)
  /\ UNCHANGED <<nic, kthread, queue, mutex, token, nreq, resent, errors>>

PopKeepsFree(t) == \E s \in free : tslot' = [tslot EXCEPT ![t] = s] /\ UNCHANGED free
eviq_free_pop(t) == \E s \in free : tslot' = [tslot EXCEPT ![t] = s] /\ free' = free \ {s}

\* eviq_free_pop under queue_lock, then the mutex is released.
PopSlot(t) ==
  /\ tpc[t] = "pop"
  /\ mutex' = None
  /\ IF free = {}
       THEN /\ errors' = errors \cup {"impossible"}
            /\ Refuse(t)
            /\ UNCHANGED free
       ELSE /\ eviq_free_pop(t)
            /\ Goto(t, "setup")
            /\ UNCHANGED <<treq, fate, errors>>
  /\ UNCHANGED <<nic, kthread, rdma_status, token, nreq, resent>>

\* The status is set up, for a synchronous request or for an asynchronous one,
\* whose token is the counter's value now.
Setup(t) ==
  /\ tpc[t] = "setup"
  /\ LET s == tslot[t]
     IN  \E sync \in BOOLEAN, n \in Nodes :
           /\ rdma_status' = [rdma_status EXCEPT ![s] =
                [@ EXCEPT !.ack_received = FALSE, !.retries = 0, !.dst = n,
                          !.ack_waiting = sync, !.req = treq[t]]]
           /\ token' = IF sync THEN token
                       ELSE [token EXCEPT ![t] =
                              [slot |-> s, value |-> rdma_status[s].msg_id_counter,
                               status |-> "PENDING", req |-> treq[t]]]
  /\ Goto(t, "sendlock")
  /\ UNCHANGED <<nic, kthread, free, mutex, tslot, treq, history>>

\* axiom_hw_rdma_tx, with the mutex held, once the FIFO has space.
Send(t) ==
  /\ tpc[t] = "send"
  /\ axiom_hw_rdma_tx([slot |-> tslot[t], node |-> rdma_status[tslot[t]].dst,
                       req |-> treq[t]])
  /\ Goto(t, "sent")
  /\ UNCHANGED <<flight, hwrx, pending, irq, kthread, queue, mutex, tslot, treq, token, history>>

\* An asynchronous call returns; a synchronous one waits for the ack, and then
\* resets the status.
TestAck(t) ==
  /\ tpc[t] = "sent"
  /\ mutex' = None
  /\ LET s == tslot[t]
     IN  IF ~rdma_status[s].ack_waiting
           THEN Return(t) /\ UNCHANGED rdma_status
           ELSE /\ IF rdma_status[s].ack_received
                     THEN /\ rdma_status' = [rdma_status EXCEPT
                                               ![s].ack_received = FALSE,
                                               ![s].dst = NullNode]
                          /\ Goto(t, "free")
                     ELSE Goto(t, "ackevent") /\ UNCHANGED rdma_status
                /\ UNCHANGED <<tslot, treq>>
  /\ UNCHANGED <<nic, kthread, free, token, history>>

WaitAck(t) ==
  /\ tpc[t] = "ackevent"
  /\ Goto(t, IF rdma_status[tslot[t]].ack_received THEN "acklock" ELSE "acksleep")
  /\ UNCHANGED <<nic, kthread, queue, mutex, tslot, treq, token, history>>

\* A signal ends the wait for the ack, unless it was received by now ...
SignalAck(t) ==
  /\ tpc[t] = "acksleep"
  /\ Goto(t, IF rdma_status[tslot[t]].ack_received THEN "acklock" ELSE "leave")
  /\ UNCHANGED <<nic, kthread, queue, mutex, tslot, treq, token, history>>

\* ... and leaves it to the kthread to free the slot: ack_waiting = false.
LeaveToKthread(t) ==
  /\ tpc[t] = "leave"
  /\ rdma_status' = [rdma_status EXCEPT ![tslot[t]].ack_waiting = FALSE]
  /\ Return(t)
  /\ UNCHANGED <<nic, kthread, free, mutex, token, history>>

\* eviq_free_push; other senders are notified if there was no free slot.
FreeSlot(t) ==
  /\ tpc[t] = "free"
  /\ eviq_free_push(tslot[t])
  /\ IF free = {} THEN Goto(t, "notify") /\ UNCHANGED <<tslot, treq>> ELSE Return(t)
  /\ UNCHANGED <<nic, kthread, rdma_status, mutex, token, history>>

Notify(t) ==
  /\ tpc[t] = "notify"
  /\ tpc' = [PortWoken EXCEPT ![t] = "idle"]
  /\ tslot' = [tslot EXCEPT ![t] = None]
  /\ treq' = [treq EXCEPT ![t] = None]
  /\ UNCHANGED <<nic, kthread, queue, mutex, token, history>>

axiomnet_rdma_tx(t) ==
  \/ Lock(t) \/ TestAvail(t) \/ WaitAvail(t) \/ PopSlot(t) \/ Setup(t) \/ Send(t)
  \/ TestAck(t) \/ WaitAck(t) \/ LeaveToKthread(t) \/ FreeSlot(t) \/ Notify(t)
-----------------------------------------------------------------------------
(* Tokens *)

Pending(t) == token[t] # None /\ token[t].status = "PENDING"

\* The test that axiomnet_rdma_check and axiomnet_rdma_wait make.
TokenDone(k) == rdma_status[k.slot].msg_id_counter # k.value

TokenAcked(t) == token' = [token EXCEPT ![t].status = "ACKED"]

axiomnet_rdma_check(t) ==
  /\ tpc[t] = "idle" /\ Pending(t) /\ TokenDone(token[t])
  /\ TokenAcked(t)
  /\ UNCHANGED <<nic, kthread, queue, mutex, tpc, tslot, treq, history>>

CallWait(t) ==
  /\ tpc[t] = "idle" /\ Pending(t)
  /\ Goto(t, "wait")
  /\ UNCHANGED <<nic, kthread, queue, mutex, tslot, treq, token, history>>

axiomnet_rdma_wait(t) ==
  /\ tpc[t] = "wait"
  /\ IF TokenDone(token[t])
       THEN TokenAcked(t) /\ Goto(t, "idle")
       ELSE Goto(t, "waitsleep") /\ UNCHANGED token
  /\ UNCHANGED <<nic, kthread, queue, mutex, tslot, treq, history>>

SignalWait(t) ==
  /\ tpc[t] = "waitsleep"
  /\ Goto(t, IF TokenDone(token[t]) THEN "wait" ELSE "idle")
  /\ UNCHANGED <<nic, kthread, queue, mutex, tslot, treq, token, history>>
-----------------------------------------------------------------------------
Next ==
  \/ Transmit \/ Reply \/ axiomnet_irqhandler \/ axiom_hw_ack_irq
  \/ axkt_worker \/ axiom_rdma_rx_dequeue \/ axiomnet_watchdog_worker
  \/ \E t \in Threads :
       \/ Call(t) \/ axiomnet_rdma_tx(t) \/ SignalAvail(t) \/ SignalAck(t)
       \/ axiomnet_rdma_check(t) \/ CallWait(t) \/ axiomnet_rdma_wait(t) \/ SignalWait(t)

Spec == Init /\ [][Next]_vars

\* The NIC, the network and the kernel make progress, and the watchdog is enabled.
\* Processes need not call, and nobody need send a signal.
Fairness ==
  /\ WF_vars(Transmit) /\ WF_vars(Reply)
  /\ WF_vars(axiomnet_irqhandler) /\ WF_vars(axiom_hw_ack_irq)
  /\ WF_vars(axkt_worker) /\ WF_vars(axiom_rdma_rx_dequeue)
  /\ WF_vars(axiomnet_watchdog_worker)
  /\ \A t \in Threads : WF_vars(axiomnet_rdma_tx(t)) /\ WF_vars(axiomnet_rdma_wait(t))

FairSpec == Spec /\ Fairness
-----------------------------------------------------------------------------
Unsent == {"setup", "sendlock", "send"}
Owning == Unsent \cup {"sent", "ackevent", "acksleep", "acklock", "leave", "free", "notify"}

\* Every variable has its type, the FIFOs of the NIC are never overrun, and the
\* kthread and a thread hold an ack, a slot or a request exactly at the steps that
\* need it, and a token where they wait for it.
TypeOK ==
  /\ hwtx \in Seq(Descs) /\ Len(hwtx) <= HwLen
  /\ flight \in SUBSET Descs
  /\ hwrx \in Seq(Acks) /\ Len(hwrx) <= HwLen
  /\ pending \in SUBSET {"RX", "TX"} /\ irq \in SUBSET {"RX", "TX"}
  /\ sched \in BOOLEAN
  /\ kpc \in {"wait", "sleep", "work", "retry", "resend", "ack", "received", "free",
              "wakeport", "wake"}
  /\ kack \in Acks \cup {None}
  /\ kack = None <=> kpc \in {"wait", "sleep", "work"}
  /\ free \in SUBSET Slots
  /\ rdma_status \in [Slots -> Status]
  /\ mutex \in Threads \cup {None, Kthread}
  /\ tpc \in [Threads -> Owning \cup {"idle", "lock", "test", "event", "sleep", "pop",
                                      "wait", "waitsleep"}]
  /\ tslot \in [Threads -> Slots \cup {None}]
  /\ treq \in [Threads -> Reqs \cup {None}]
  /\ token \in [Threads -> Tokens \cup {None}]
  /\ \A t \in Threads : tslot[t] # None <=> tpc[t] \in Owning
  /\ \A t \in Threads : treq[t] = None <=> tpc[t] \in {"idle", "wait", "waitsleep"}
  /\ \A t \in Threads : tpc[t] \in {"wait", "waitsleep"} => token[t] # None
  /\ nreq \in 0 .. MaxReqs
  /\ fate \in [Reqs -> {"none", "refused", "acked", "discarded"}]
  /\ resent \in [Reqs -> Nat]
  /\ errors \in SUBSET {"unexpected ACK", "impossible"}

\* The descriptors of requests that are not decided yet, wherever they are.
KDescs == IF kpc \in {"retry", "resend", "ack"} THEN {kack.desc} ELSE {}
RxDescs == {a.desc : a \in Range(hwrx)}
Outstanding == Range(hwtx) \cup flight \cup RxDescs \cup KDescs

\* A free slot has one owner: two senders never hold the same slot, and none holds
\* a free one, except on the way out of the call.
OneOwner ==
  \A t \in Threads :
    tpc[t] \in Owning \ {"sent", "notify"} =>
      /\ tslot[t] \notin free
      /\ \A u \in Threads \ {t} : tpc[u] \in Owning \ {"sent", "notify"} => tslot[t] # tslot[u]

\* A message id is not used again before its request is answered: a descriptor in
\* the NIC, in the network or in the hands of the kthread belongs to the request
\* that its slot's status describes, and is the only one of that slot; no ack is
\* dropped as unexpected, and no sender finds the free list empty once it was told
\* that there is a slot.
IdNotReused ==
  /\ OneOwner /\ errors = {}
  /\ \A d \in Outstanding :
       /\ d.slot \notin free
       /\ rdma_status[d.slot].req = d.req /\ rdma_status[d.slot].dst = d.node
       /\ fate[d.req] = "none"
       /\ \A t \in Threads : tpc[t] \in Unsent => tslot[t] # d.slot
  /\ \A d, e \in Outstanding : d.slot = e.slot => d = e
  /\ \A i, j \in 1 .. Len(hwtx) : hwtx[i] = hwtx[j] => i = j
  /\ \A i, j \in 1 .. Len(hwrx) : hwrx[i].desc = hwrx[j].desc => i = j
  /\ Range(hwtx) \cap (flight \cup RxDescs \cup KDescs) = {}
  /\ flight \cap (RxDescs \cup KDescs) = {} /\ RxDescs \cap KDescs = {}

\* The slots that somebody will still free.
Accounted(s) ==
  \/ s \in free
  \/ \E d \in Outstanding : d.slot = s
  \/ kpc \in {"received", "free"} /\ kack.desc.slot = s
  \/ \E t \in Threads : /\ tslot[t] = s
                        /\ \/ tpc[t] \in Unsent \cup {"free"}
                           \/ /\ tpc[t] \in {"sent", "ackevent", "acksleep", "acklock"}
                              /\ rdma_status[s].ack_received /\ rdma_status[s].ack_waiting

Service(r) ==
  CASE fate[r] = "refused" -> "refused"
    [] fate[r] \in {"acked", "discarded"} -> "answered"
    [] OTHER -> IF \E d \in Outstanding : d.req = r THEN "sent" ELSE "none"

RS == INSTANCE RdmaService WITH state <- [r \in Reqs |-> Service(r)]

\* The driver implements RdmaService: a request that was sent is never lost on its
\* way through the FIFOs, the network and the kthread, retries included, is answered
\* once, and is not sent after it was refused.
ImplementsService == RS!Spec

\* A slot is lost in one way only: its sender was interrupted between the test of
\* ack_waiting in the kthread and ack_received = true.
LostOnlyBySignal ==
  \A s \in Slots :
    \/ Accounted(s)
    \/ /\ rdma_status[s].ack_received
       /\ ~rdma_status[s].ack_waiting \/ \E t \in Threads : tslot[t] = s /\ tpc[t] = "leave"

\* A token tells exactly whether its request was answered, however often its slot
\* was used since: as long as CounterMod requests do not use the slot meanwhile.
TokenExact ==
  \A t \in Threads : token[t] # None =>
    /\ TokenDone(token[t]) <=> fate[token[t].req] # "none"
    /\ token[t].status = "ACKED" => fate[token[t].req] # "none"

\* A synchronous call succeeds only after its own request was answered.
SyncAfterAck ==
  \A t \in Threads : tpc[t] \in {"acklock", "free", "notify"} => fate[treq[t]] # "none"

\* What the driver tells a caller of its request is true, by a token that is looked
\* at or by the return of a synchronous call, retries and reuse of slots included.
AnswersExact == TokenExact /\ SyncAfterAck

\* Every request that was sent is answered, retries included, and a sender that
\* waits for the answer returns.
Answered ==
  \A r \in Reqs :
    (\E d \in Outstanding : d.req = r)
      ~> (fate[r] # "none" /\ \A t \in Threads : treq[t] # r)

\* A sender sleeps only as long as there is no space to send.
SenderWoken ==
  \A t \in Threads : [](tpc[t] = "sleep" => <>(tpc[t] # "sleep" \/ ~axiomnet_rdma_tx_avail))

\* A thread in axiomnet_rdma_wait returns once its request is answered.
WaitReturns ==
  \A t \in Threads :
    (tpc[t] \in {"wait", "waitsleep"} /\ fate[token[t].req] # "none") ~> (tpc[t] = "idle")

\* Nobody waits for ever, although interrupts may be acknowledged unseen.
WaitsEnd == SenderWoken /\ WaitReturns
-----------------------------------------------------------------------------
(* What the code does not do.  The README gives the instances that show it.  *)

\* "if there is some process to wait, wakeup it, otherwise free the status": every
\* slot is freed after its ack, by the kthread or by the sender.
NoSlotLost == \A s \in Slots : Accounted(s)

\* "max number of retry to send RDMA request"
RetryLimit == \A r \in Reqs : resent[r] <= MaxRetry

\* "send a notification to other thread": a sender sleeps while it could send only
\* if a notification is on its way.
NoLostWakeup ==
  \A t \in Threads :
    tpc[t] = "sleep" /\ axiomnet_rdma_tx_avail =>
      \/ "TX" \in pending \ irq
      \/ kpc = "wakeport"
      \/ \E u \in Threads : tpc[u] = "notify"
=============================================================================
