------------------------------- MODULE LongTx -------------------------------
(***************************************************************************)
(* The transmit path of LONG messages in axiom_netdev_common.c: threads in *)
(* axiomnet_long_send, and axiomnet_long_callback in kthread_rdma.         *)
(*                                                                         *)
(* A slot of the LONG TX queue stands for a buffer that the NIC reads      *)
(* whenever it sends the message, retries included.  The slot belongs to   *)
(* the sender until axiomnet_rdma_tx has sent the request, then to the     *)
(* request, and the callback gives it back when the answer comes.  The     *)
(* requests are those of RdmaService.                                      *)
(***************************************************************************)
EXTENDS Naturals

CONSTANTS
  Slots,        \* elements of the LONG TX queue, AXIOMNET_LONG_TXQUEUE_FREE_LEN
  Threads,      \* threads that send
  MaxReqs,      \* bound: calls of axiomnet_long_send
  None          \* no slot, no request, no thread

ASSUME LongTxAssumption ==
  MaxReqs \in Nat /\ None \notin Slots \cup Threads \cup Nat

Reqs == 1 .. MaxReqs

VARIABLES
  free,         \* free slots
  payload,      \* the request whose payload is in the buffer of a slot
  mutex,        \* owner of long_port.mutex
  tpc, tslot, treq,
  state,        \* of each request, as in RdmaService
  callback,     \* cb.data: the slot that a request was sent from
  kpc, kslot,   \* axiomnet_long_callback
  nreq,         \* calls made so far; also the last request
  errors        \* the branches marked impossible that were taken

users == <<tpc, tslot, treq>>
kthread == <<kpc, kslot>>
vars == <<free, payload, mutex, users, state, callback, kthread, nreq, errors>>

RS == INSTANCE RdmaService

Init ==
  /\ free = Slots
  /\ payload = [s \in Slots |-> None]
  /\ mutex = None
  /\ tpc = [t \in Threads |-> "idle"]
  /\ tslot = [t \in Threads |-> None]
  /\ treq = [t \in Threads |-> None]
  /\ RS!Init
  /\ callback = [r \in Reqs |-> None]
  /\ kpc = "idle" /\ kslot = None
  /\ nreq = 0 /\ errors = {}
-----------------------------------------------------------------------------
(* axiomnet_long_send *)

Goto(t, pc) == tpc' = [tpc EXCEPT ![t] = pc]

Return(t) ==
  /\ Goto(t, "idle")
  /\ tslot' = [tslot EXCEPT ![t] = None]
  /\ treq' = [treq EXCEPT ![t] = None]

Call(t) ==
  /\ tpc[t] = "idle" /\ nreq < MaxReqs
  /\ nreq' = nreq + 1
  /\ treq' = [treq EXCEPT ![t] = nreq + 1]
  /\ Goto(t, "lock")
  /\ UNCHANGED <<free, payload, mutex, tslot, state, callback, kthread, errors>>

\* mutex_lock(&tx_ring->long_port.mutex)
Lock(t) ==
  /\ tpc[t] = "lock" /\ mutex = None
  /\ mutex' = t
  /\ Goto(t, "test")
  /\ UNCHANGED <<free, payload, tslot, treq, state, callback, kthread, nreq, errors>>

axiomnet_long_tx_avail == free # {}

\* The loop condition: with no free slot the mutex is released, and the call returns
\* -EAGAIN if the file is O_NONBLOCK, or waits.
SendTest(t) ==
  /\ tpc[t] = "test"
  /\ IF axiomnet_long_tx_avail
       THEN Goto(t, "pop") /\ UNCHANGED <<mutex, tslot, treq>>
       ELSE /\ mutex' = None
            /\ Return(t) \/ (Goto(t, "event") /\ UNCHANGED <<tslot, treq>>)
  /\ UNCHANGED <<free, payload, state, callback, kthread, nreq, errors>>

\* wait_event_interruptible tests its condition: sleep, or back to mutex_lock.
SendWait(t) ==
  /\ tpc[t] = "event"
  /\ Goto(t, IF axiomnet_long_tx_avail THEN "lock" ELSE "sleep")
  /\ UNCHANGED <<free, payload, mutex, tslot, treq, state, callback, kthread, nreq, errors>>

\* A signal ends the wait, unless the condition holds by now.
Signal(t) ==
  /\ tpc[t] = "sleep"
  /\ IF axiomnet_long_tx_avail THEN Goto(t, "lock") /\ UNCHANGED <<tslot, treq>>
                               ELSE Return(t)
  /\ UNCHANGED <<free, payload, mutex, state, callback, kthread, nreq, errors>>

PopKeepsFree(t) == \E s \in free : tslot' = [tslot EXCEPT ![t] = s] /\ UNCHANGED free
eviq_free_pop(t) == \E s \in free : tslot' = [tslot EXCEPT ![t] = s] /\ free' = free \ {s}

\* eviq_free_pop under queue_lock, then the mutex is released.
SendPop(t) ==
  /\ tpc[t] = "pop"
  /\ mutex' = None
  /\ IF free = {}
       THEN errors' = errors \cup {"impossible"} /\ Return(t) /\ UNCHANGED free
       ELSE eviq_free_pop(t) /\ Goto(t, "copy") /\ UNCHANGED <<treq, errors>>
  /\ UNCHANGED <<payload, state, callback, kthread, nreq>>

\* The payload is copied into the buffer, or an iovec is too long (-EFBIG) or not
\* readable (-EFAULT), perhaps after a part was copied.
SendCopy(t) ==
  /\ tpc[t] = "copy"
  /\ payload' = [payload EXCEPT ![tslot[t]] = treq[t]]
  /\ \E pc \in {"rdma", "err"} : Goto(t, pc)
  /\ UNCHANGED <<free, mutex, tslot, treq, state, callback, kthread, nreq, errors>>

\* For a mutant: the slot is given back whether the call failed or not.
SendAlwaysFrees(t) ==
  /\ tpc[t] = "rdma"
  /\ \/ /\ RS!Submit(treq[t])
        /\ callback' = [callback EXCEPT ![treq[t]] = tslot[t]]
     \/ RS!Refuse(treq[t]) /\ UNCHANGED callback
  /\ Goto(t, "err")
  /\ UNCHANGED <<free, payload, mutex, tslot, treq, kthread, nreq, errors>>

\* axiomnet_rdma_tx with the callback: the slot goes with the request, or the call
\* fails and the slot stays with the thread.
SendRdma(t) ==
  /\ tpc[t] = "rdma"
  /\ \/ /\ RS!Submit(treq[t])
        /\ callback' = [callback EXCEPT ![treq[t]] = tslot[t]]
        /\ Return(t)
     \/ /\ RS!Refuse(treq[t])
        /\ Goto(t, "err")
        /\ UNCHANGED <<callback, tslot, treq>>
  /\ UNCHANGED <<free, payload, mutex, kthread, nreq, errors>>

\* "send a notification to other thread", if there was no free slot before.
ErrNotifyWrong == free # {}
ErrNotify == free = {}

\* The error path: the slot is given back.
SendErr(t) ==
  /\ tpc[t] = "err"
  /\ free' = free \cup {tslot[t]}
  /\ IF ErrNotify
       THEN /\ Goto(t, "notify")
            /\ tslot' = [tslot EXCEPT ![t] = None]
            /\ UNCHANGED treq
       ELSE Return(t)
  /\ UNCHANGED <<payload, mutex, state, callback, kthread, nreq, errors>>

\* wake_up(&tx_ring->long_port.wait_queue)
PortWoken == [t \in Threads |-> IF tpc[t] = "sleep" THEN "event" ELSE tpc[t]]

SendNotify(t) ==
  /\ tpc[t] = "notify"
  /\ tpc' = [PortWoken EXCEPT ![t] = "idle"]
  /\ treq' = [treq EXCEPT ![t] = None]
  /\ UNCHANGED <<free, payload, mutex, tslot, state, callback, kthread, nreq, errors>>

axiomnet_long_send(t) ==
  \/ Lock(t) \/ SendTest(t) \/ SendWait(t) \/ SendPop(t) \/ SendCopy(t) \/ SendRdma(t)
  \/ SendErr(t) \/ SendNotify(t)
-----------------------------------------------------------------------------
(* kthread_rdma *)

\* The last answer to a request comes, and the kthread calls its callback ...
Answer ==
  /\ kpc = "idle"
  /\ \E r \in Reqs : RS!Answer(r) /\ kslot' = callback[r]
  /\ kpc' = "push"
  /\ UNCHANGED <<free, payload, mutex, users, callback, nreq, errors>>

\* ... which gives the slot back ...
CallbackPush ==
  /\ kpc = "push"
  /\ free' = free \cup {kslot}
  /\ kpc' = "wake" /\ kslot' = None
  /\ UNCHANGED <<payload, mutex, users, state, callback, nreq, errors>>

\* For a mutant: nobody is notified.
CallbackSilent ==
  /\ kpc = "wake"
  /\ kpc' = "idle"
  /\ UNCHANGED <<free, payload, mutex, users, kslot, state, callback, nreq, errors>>

\* ... and wakes the senders, whether there was a free slot before or not.
CallbackWake ==
  /\ kpc = "wake"
  /\ tpc' = PortWoken
  /\ kpc' = "idle"
  /\ UNCHANGED <<free, payload, mutex, tslot, treq, kslot, state, callback, nreq, errors>>

axiomnet_long_callback == CallbackPush \/ CallbackWake

\* All calls that the bound allows are made and served: any other state without a
\* step is a deadlock.
Served ==
  /\ nreq = MaxReqs /\ \A t \in Threads : tpc[t] = "idle"
  /\ kpc = "idle" /\ \A r \in Reqs : state[r] # "sent"
  /\ UNCHANGED vars

Next ==
  \/ Answer \/ axiomnet_long_callback \/ Served
  \/ \E t \in Threads : Call(t) \/ axiomnet_long_send(t) \/ Signal(t)

Spec == Init /\ [][Next]_vars

\* Every request is answered (property Answered of RdmaTx), and the kernel runs every
\* runnable thread.  Nobody need call or send a signal.
Fairness ==
  /\ WF_vars(Answer) /\ WF_vars(axiomnet_long_callback)
  /\ \A t \in Threads : WF_vars(axiomnet_long_send(t))

FairSpec == Spec /\ Fairness
-----------------------------------------------------------------------------
Owning == {"copy", "rdma", "err"}

QueueType ==
  /\ free \in SUBSET Slots
  /\ payload \in [Slots -> Reqs \cup {None}]
  /\ mutex \in Threads \cup {None}
UserType ==
  /\ tpc \in [Threads -> Owning \cup {"idle", "lock", "test", "event", "sleep", "pop",
                                      "notify"}]
  /\ tslot \in [Threads -> Slots \cup {None}]
  /\ treq \in [Threads -> Reqs \cup {None}]
  /\ \A t \in Threads : tslot[t] # None <=> tpc[t] \in Owning
  /\ \A t \in Threads : treq[t] = None <=> tpc[t] = "idle"
ServiceType ==
  /\ state \in [Reqs -> {"none", "sent", "refused", "answered"}]
  /\ callback \in [Reqs -> Slots \cup {None}]
  /\ \A r \in Reqs : callback[r] # None <=> state[r] \in {"sent", "answered"}
  /\ kpc \in {"idle", "push", "wake"} /\ kslot \in Slots \cup {None}
  /\ kslot # None <=> kpc = "push"
  /\ nreq \in 0 .. MaxReqs /\ errors \in SUBSET {"impossible"}

\* Every variable has its type; a sender and the callback hold a slot exactly at the
\* steps between taking and giving it away, and only a request that was sent has one.
TypeOK == QueueType /\ UserType /\ ServiceType

Sent == {r \in Reqs : state[r] = "sent"}

\* Every slot has exactly one owner: the free list, one sender, one request on its
\* way, or the callback.  None leaks, none is shared.
OneOwner ==
  /\ \A s \in Slots :
       s \in free \/ s = kslot \/ (\E t \in Threads : tslot[t] = s)
         \/ (\E r \in Sent : callback[r] = s)
  /\ kslot \notin free
  /\ \A t \in Threads :
       tslot[t] # None =>
         tslot[t] \notin free \cup {kslot} /\ \A u \in Threads : tslot[u] = tslot[t] => u = t
  /\ \A r \in Sent :
       /\ callback[r] \notin free \cup {kslot}
       /\ \A t \in Threads : tslot[t] # callback[r]
       /\ \A q \in Sent : callback[q] = callback[r] => q = r

\* The NIC may read the buffer of a message at any time until the answer, to send it
\* or to send it again: the buffer still holds the payload of that message.
PayloadStable == \A r \in Sent : payload[callback[r]] = r

\* The branch "impossible" of axiomnet_long_send is never taken.
ImpossibleNeverHappens == errors = {}

\* A sender sleeps while there is a free slot only if a notification is on its way:
\* no watchdog looks after the senders of LONG messages.
NoLostWakeup ==
  \A t \in Threads :
    tpc[t] = "sleep" /\ free # {} =>
      kpc = "wake" \/ \E u \in Threads : tpc[u] = "notify"

\* A sender does not sleep for ever: whoever holds the slots gives one back and
\* wakes it.
SenderWoken == \A t \in Threads : (tpc[t] = "sleep") ~> (tpc[t] # "sleep")
=============================================================================
