---------------------------- MODULE RdmaTxProofs ----------------------------
(***************************************************************************)
(* Proofs about RdmaTx.                                                    *)
(***************************************************************************)
EXTENDS RdmaTx, FiniteSetTheorems, TLAPS

(***************************************************************************)
(* The inductive invariant.  A slot is in one of five places: on the free  *)
(* list, with a thread before the request is sent or after it has the      *)
(* answer, in a descriptor, with the kthread that handles the ack, or in a *)
(* status that says ack_received.                                          *)
(***************************************************************************)

InTx(d) == \E i \in 1 .. Len(hwtx) : hwtx[i] = d
InRx(d) == \E i \in 1 .. Len(hwrx) : hwrx[i].desc = d
InK(d) == kpc \in {"retry", "resend", "ack"} /\ d = kack.desc
Out(d) == InTx(d) \/ d \in flight \/ InRx(d) \/ InK(d)

Waiting == {"ackevent", "acksleep", "acklock", "leave"}
Presend == {"lock", "test", "event", "sleep", "pop"} \cup Unsent
Keeping == Owning \ {"sent", "notify"}

\* The threads' steps with rdma_port.mutex held; a thread at "pop" was told that
\* there is a free slot, and only the holder of the mutex takes one.
MutexInv ==
  /\ \A t \in Threads : mutex = t <=> tpc[t] \in {"test", "pop", "send", "sent"}
  /\ mutex = Kthread <=> kpc = "resend"
  /\ \A t \in Threads : tpc[t] = "pop" => free # {}

\* A slot has one descriptor, in one place.
Once ==
  /\ \A i, j \in 1 .. Len(hwtx) : hwtx[i].slot = hwtx[j].slot => i = j
  /\ \A i, j \in 1 .. Len(hwrx) : hwrx[i].desc.slot = hwrx[j].desc.slot => i = j
  /\ \A d, e \in flight : d.slot = e.slot => d = e
  /\ \A i \in 1 .. Len(hwtx) : \A d \in flight : hwtx[i].slot # d.slot
  /\ \A i \in 1 .. Len(hwtx) : \A j \in 1 .. Len(hwrx) : hwtx[i].slot # hwrx[j].desc.slot
  /\ \A d \in flight : \A j \in 1 .. Len(hwrx) : d.slot # hwrx[j].desc.slot
  /\ kpc \in {"retry", "resend", "ack"} =>
       /\ \A i \in 1 .. Len(hwtx) : hwtx[i].slot # kack.desc.slot
       /\ \A d \in flight : d.slot # kack.desc.slot
       /\ \A j \in 1 .. Len(hwrx) : hwrx[j].desc.slot # kack.desc.slot

\* The places of a slot other than the free list.
Held(s) == \E t \in Threads : tslot[t] = s /\ tpc[t] \in Unsent \cup {"free"}
Busy(s) == \E d \in Descs : Out(d) /\ d.slot = s
KHas(s) == kpc \in {"received", "free"} /\ kack.desc.slot = s
Received(s) == rdma_status[s].ack_received

\* A slot is in one place ...
PlaceInv ==
  \A s \in Slots :
    /\ s \in free => ~Busy(s) /\ ~KHas(s) /\ ~Received(s)
    /\ Busy(s) => ~Held(s) /\ ~KHas(s) /\ ~Received(s)
    /\ KHas(s) => ~Held(s) /\ ~Received(s)
    /\ Received(s) => ~Held(s)

\* ... and in one at least.
Placed == \A s \in Slots : s \in free \/ Held(s) \/ Busy(s) \/ KHas(s) \/ Received(s)

\* Threads and their slots.
OwnerInv ==
  /\ \A t, u \in Threads :
       /\ t # u
       /\ tpc[t] \in Owning \ {"notify"} /\ tpc[u] \in Owning \ {"notify"}
       => tslot[t] # tslot[u]
  /\ \A t \in Threads : tpc[t] \in Keeping => tslot[t] \notin free
  /\ \A t \in Threads : tpc[t] = "sent" /\ rdma_status[tslot[t]].ack_waiting =>
       tslot[t] \notin free
  /\ \A t \in Threads : tpc[t] \in {"sendlock", "send", "sent"} \cup Waiting =>
       rdma_status[tslot[t]].req = treq[t]
  /\ \A t \in Threads : tpc[t] \in {"sendlock", "send"} => rdma_status[tslot[t]].dst \in Nodes
  /\ \A t \in Threads : tpc[t] \in Waiting => rdma_status[tslot[t]].ack_waiting
  /\ \A t \in Threads : tpc[t] = "acklock" => Received(tslot[t])
  /\ \A s \in Slots : s \notin free /\ rdma_status[s].ack_waiting =>
       \E t \in Threads : tslot[t] = s /\ tpc[t] \in Owning \ {"notify"}
  /\ kpc = "free" => ~rdma_status[kack.desc.slot].ack_waiting

\* Descriptors and the statuses of their slots.
DescInv ==
  \A d \in Descs : Out(d) =>
    /\ rdma_status[d.slot].req = d.req /\ rdma_status[d.slot].dst = d.node
    /\ fate[d.req] = "none" /\ d.req <= nreq
    /\ \A e \in Descs : Out(e) /\ e.req = d.req => e = d

\* Threads, their requests and what became of them.
ReqInv ==
  /\ \A t, u \in Threads : t # u /\ treq[t] # None => treq[t] # treq[u]
  /\ \A t \in Threads : treq[t] # None => treq[t] <= nreq
  /\ \A t \in Threads : tpc[t] \in Presend =>
       fate[treq[t]] = "none" /\ \A d \in Descs : Out(d) => d.req # treq[t]
  /\ \A t \in Threads : tpc[t] \in {"free", "notify"} => fate[treq[t]] # "none"
  /\ \A s \in Slots : Received(s) \/ KHas(s) =>
       rdma_status[s].req \in Reqs /\ fate[rdma_status[s].req] # "none"
  /\ \A r \in Reqs : r > nreq => fate[r] = "none"

\* What the driver knows of slots and requests is true.
BookInv == PlaceInv /\ Placed /\ OwnerInv /\ DescInv /\ ReqInv

IInv == TypeOK /\ errors = {} /\ MutexInv /\ Once /\ BookInv

\* A token's request is not answered yet, and on its way to the NIC or beyond.
Located(k) ==
  \/ \E d \in Descs : Out(d) /\ d.req = k.req /\ d.slot = k.slot
  \/ \E u \in Threads : /\ tpc[u] \in {"sendlock", "send"}
                        /\ treq[u] = k.req /\ tslot[u] = k.slot

TokenOK(k) ==
  /\ fate[k.req] = "none" => /\ k.status = "PENDING"
                             /\ rdma_status[k.slot].msg_id_counter = k.value
                             /\ Located(k)
  /\ fate[k.req] # "none" => rdma_status[k.slot].msg_id_counter > k.value

\* The requests that were answered.  A slot has counted some of them.
Done == {r \in Reqs : fate[r] \in {"acked", "discarded"}}

Counted == \A s \in Slots : rdma_status[s].msg_id_counter <= Cardinality(Done)

\* The second inductive invariant: the counters have not wrapped, and a token's value
\* is its slot's counter until its request is answered.
TokenInv ==
  /\ Counted
  /\ \A k \in Tokens : (\E t \in Threads : token[t] = k) => TokenOK(k)

-----------------------------------------------------------------------------
(* Constants and types *)

\* What the proofs use of RdmaTxAssumption.
LEMMA Constants ==
  /\ NullNode \notin Nodes
  /\ None \notin Slots /\ None \notin Threads /\ None \notin Reqs
  /\ None \notin Acks /\ None \notin Tokens
  /\ Kthread \notin Threads /\ Kthread # None
  /\ MaxRetry \in Nat /\ RetriesMod \in Nat \ {0} /\ CounterMod \in Nat \ {0}
  /\ HwLen \in Nat /\ MaxReqs \in Nat /\ MaxErrors \in Nat
  BY RdmaTxAssumption

\* A counter that wraps stays below its modulus.
LEMMA Wraps ==
  ASSUME NEW n \in Nat, NEW m \in Nat \ {0}
  PROVE  (n + 1) % m \in 0 .. m - 1
  OBVIOUS

USE Constants

\* The type of a status after an action set some of its fields.
LEMMA StatusTypes ==
  ASSUME TypeOK, NEW s \in Slots
  PROVE  /\ AddRetry(s) \in [Slots -> Status]
         /\ CountAck(s) \in [Slots -> Status]
         /\ [rdma_status EXCEPT ![s].ack_received = TRUE] \in [Slots -> Status]
         /\ [rdma_status EXCEPT ![s].ack_waiting = FALSE] \in [Slots -> Status]
         /\ [rdma_status EXCEPT ![s].ack_received = FALSE, ![s].dst = NullNode]
              \in [Slots -> Status]
         /\ \A b \in BOOLEAN, n \in Nodes, r \in Reqs :
              [rdma_status EXCEPT ![s] =
                [@ EXCEPT !.ack_received = FALSE, !.retries = 0, !.dst = n,
                          !.ack_waiting = b, !.req = r]] \in [Slots -> Status]
<1>1. rdma_status \in [Slots -> Status]
  BY DEF TypeOK
<1>2. rdma_status[s].retries \in Nat /\ rdma_status[s].msg_id_counter \in Nat
  BY <1>1 DEF Status
<1>3. (rdma_status[s].retries + 1) % RetriesMod \in 0 .. RetriesMod - 1
  BY <1>2, Wraps
<1>4. (rdma_status[s].msg_id_counter + 1) % CounterMod \in 0 .. CounterMod - 1
  BY <1>2, Wraps
<1>5. AddRetry(s) \in [Slots -> Status]
  BY <1>1, <1>3 DEF AddRetry, Status
<1>6. CountAck(s) \in [Slots -> Status]
  BY <1>1, <1>4 DEF CountAck, Status
<1>7. /\ [rdma_status EXCEPT ![s].ack_received = TRUE] \in [Slots -> Status]
      /\ [rdma_status EXCEPT ![s].ack_waiting = FALSE] \in [Slots -> Status]
  BY <1>1 DEF Status
<1>8. [rdma_status EXCEPT ![s].ack_received = FALSE, ![s].dst = NullNode]
        \in [Slots -> Status]
  BY <1>1 DEF Status
<1>9. ASSUME NEW b \in BOOLEAN, NEW n \in Nodes, NEW r \in Reqs
      PROVE  [rdma_status EXCEPT ![s] =
                [@ EXCEPT !.ack_received = FALSE, !.retries = 0, !.dst = n,
                          !.ack_waiting = b, !.req = r]] \in [Slots -> Status]
  <2>1. rdma_status[s] \in Status /\ 0 \in 0 .. RetriesMod - 1
    BY <1>1
  <2>2. [rdma_status[s] EXCEPT !.ack_received = FALSE, !.retries = 0, !.dst = n,
                               !.ack_waiting = b, !.req = r] \in Status
    BY <2>1 DEF Status
  <2>3. QED
    BY <1>1, <2>2
<1>10. QED
  BY <1>5, <1>6, <1>7, <1>8, <1>9

\* What a thread at each of its steps has, from the types.
LEMMA ThreadTypes ==
  ASSUME TypeOK, NEW t \in Threads
  PROVE  /\ tpc[t] \in Owning => tslot[t] \in Slots
         /\ tpc[t] \notin {"idle", "wait", "waitsleep"} => treq[t] \in Reqs
  BY DEF TypeOK

\* The kthread has an ack wherever it uses it.
LEMMA KackTypes ==
  ASSUME TypeOK, kpc \notin {"wait", "sleep", "work"}
  PROVE  kack \in Acks /\ kack.desc \in Descs /\ kack.desc.slot \in Slots
         /\ kack.desc.req \in Reqs /\ kack.desc.node \in Nodes
  BY DEF TypeOK, Acks, Descs

\* TypeOK in parts.
NicType ==
  /\ hwtx \in Seq(Descs) /\ Len(hwtx) <= HwLen
  /\ flight \in SUBSET Descs
  /\ hwrx \in Seq(Acks) /\ Len(hwrx) <= HwLen
  /\ pending \in SUBSET {"RX", "TX"} /\ irq \in SUBSET {"RX", "TX"}
KthreadType ==
  /\ sched \in BOOLEAN
  /\ kpc \in {"wait", "sleep", "work", "retry", "resend", "ack", "received", "free",
              "wakeport", "wake"}
  /\ kack \in Acks \cup {None}
  /\ kack = None <=> kpc \in {"wait", "sleep", "work"}
QueueType == free \in SUBSET Slots /\ rdma_status \in [Slots -> Status]
PCs == Owning \cup {"idle", "lock", "test", "event", "sleep", "pop", "wait", "waitsleep"}
ThreadType ==
  /\ mutex \in Threads \cup {None, Kthread}
  /\ tpc \in [Threads -> PCs]
  /\ tslot \in [Threads -> Slots \cup {None}]
  /\ treq \in [Threads -> Reqs \cup {None}]
  /\ token \in [Threads -> Tokens \cup {None}]
  /\ \A t \in Threads : tslot[t] # None <=> tpc[t] \in Owning
  /\ \A t \in Threads : treq[t] = None <=> tpc[t] \in {"idle", "wait", "waitsleep"}
  /\ \A t \in Threads : tpc[t] \in {"wait", "waitsleep"} => token[t] # None
HistoryType ==
  /\ nreq \in 0 .. MaxReqs
  /\ fate \in [Reqs -> {"none", "refused", "acked", "discarded"}]
  /\ resent \in [Reqs -> Nat]
  /\ errors \in SUBSET {"unexpected ACK", "impossible"}

LEMMA TypeParts ==
  TypeOK <=> NicType /\ KthreadType /\ QueueType /\ ThreadType /\ HistoryType
  BY DEF TypeOK, NicType, KthreadType, QueueType, ThreadType, HistoryType, PCs

LEMMA TypePartsNext ==
  TypeOK' <=> NicType' /\ KthreadType' /\ QueueType' /\ ThreadType' /\ HistoryType'
  BY TypeParts, PTL

\* The parts that a step leaves alone.
LEMMA SameNic == ASSUME NicType, UNCHANGED nic PROVE NicType'
  BY DEF NicType, nic
LEMMA SameKthread == ASSUME KthreadType, UNCHANGED kthread PROVE KthreadType'
  BY DEF KthreadType, kthread
LEMMA SameQueue == ASSUME QueueType, UNCHANGED queue PROVE QueueType'
  BY DEF QueueType, queue
LEMMA SameThreads == ASSUME ThreadType, UNCHANGED users PROVE ThreadType'
  BY DEF ThreadType, users
LEMMA SameHistory == ASSUME HistoryType, UNCHANGED history PROVE HistoryType'
  BY DEF HistoryType, history

\* A thread goes to pc, and has there the slot and the request that pc is about.
LEMMA MoveType ==
  ASSUME ThreadType, NEW t \in Threads, NEW pc \in PCs,
         tpc' = [tpc EXCEPT ![t] = pc],
         mutex' \in Threads \cup {None, Kthread},
         \/ tslot' = tslot
         \/ \E x \in Slots \cup {None} : tslot' = [tslot EXCEPT ![t] = x],
         \/ treq' = treq
         \/ \E x \in Reqs \cup {None} : treq' = [treq EXCEPT ![t] = x],
         \/ token' = token
         \/ \E x \in Tokens : token' = [token EXCEPT ![t] = x],
         tslot'[t] # None <=> pc \in Owning,
         treq'[t] = None <=> pc \in {"idle", "wait", "waitsleep"},
         pc \in {"wait", "waitsleep"} => token[t] # None
  PROVE  ThreadType'
<1>1. tpc' \in [Threads -> PCs] /\ tpc'[t] = pc /\ \A u \in Threads \ {t} : tpc'[u] = tpc[u]
  BY DEF ThreadType
<1>2. tslot' \in [Threads -> Slots \cup {None}] /\ \A u \in Threads \ {t} : tslot'[u] = tslot[u]
  BY DEF ThreadType
<1>3. treq' \in [Threads -> Reqs \cup {None}] /\ \A u \in Threads \ {t} : treq'[u] = treq[u]
  BY DEF ThreadType
<1>4. /\ token' \in [Threads -> Tokens \cup {None}]
      /\ \A u \in Threads : token[u] # None => token'[u] # None
  BY DEF ThreadType
<1>5. QED
  BY <1>1, <1>2, <1>3, <1>4 DEF ThreadType

\* Threads are woken: each stays where it was or goes to the test of its condition.
LEMMA WokenType ==
  ASSUME ThreadType, UNCHANGED <<mutex, tslot, treq, token>>,
         \/ tpc' = tpc
         \/ tpc' = PortWoken
         \/ \E s \in Slots : tpc' = StatusWoken(s)
  PROVE  ThreadType'
<1>1. ASSUME NEW a, NEW b
      PROVE  /\ {a, b} \subseteq {"sleep", "event"} \/ {a, b} \subseteq {"acksleep", "ackevent"}
                  \/ {a, b} \subseteq {"waitsleep", "wait"} =>
                /\ a \in PCs /\ b \in PCs /\ (a \in Owning <=> b \in Owning)
                /\ a \in {"idle", "wait", "waitsleep"} <=> b \in {"idle", "wait", "waitsleep"}
                /\ a \in {"wait", "waitsleep"} <=> b \in {"wait", "waitsleep"}
  BY DEF PCs, Owning, Unsent
<1>2. /\ tpc' \in [Threads -> PCs]
      /\ \A t \in Threads :
           /\ tpc'[t] \in Owning <=> tpc[t] \in Owning
           /\ tpc'[t] \in {"idle", "wait", "waitsleep"} <=> tpc[t] \in {"idle", "wait", "waitsleep"}
           /\ tpc'[t] \in {"wait", "waitsleep"} <=> tpc[t] \in {"wait", "waitsleep"}
  <2>1. CASE tpc' = tpc
    BY <2>1 DEF ThreadType
  <2>2. CASE tpc' = PortWoken
    BY <2>2, <1>1 DEF ThreadType, PortWoken
  <2>3. CASE \E s \in Slots : tpc' = StatusWoken(s)
    BY <2>3, <1>1 DEF ThreadType, StatusWoken
  <2>4. QED
    BY <2>1, <2>2, <2>3
<1>3. QED
  BY <1>2 DEF ThreadType

\* The steps that give no descriptor to the NIC keep the types.
LEMMA NicTypeStep ==
  ASSUME TypeOK, Transmit \/ Reply \/ axiomnet_irqhandler \/ axiom_hw_ack_irq
  PROVE  TypeOK'
<1> USE TypeParts, TypePartsNext
<1>1. CASE Transmit
  <2>1. Head(hwtx) \in Descs /\ Tail(hwtx) \in Seq(Descs) /\ Len(Tail(hwtx)) = Len(hwtx) - 1
    BY <1>1 DEF Transmit, NicType
  <2>2. Len(hwtx) \in Nat /\ Len(hwtx) <= HwLen
    BY DEF NicType
  <2>3. hwtx' \in Seq(Descs) /\ Len(hwtx') <= HwLen
    <3>1. hwtx' = Tail(hwtx)
      BY <1>1 DEF Transmit
    <3>2. QED
      BY <2>1, <2>2, <3>1
  <2>4. flight' \in SUBSET Descs /\ pending' \in SUBSET {"RX", "TX"}
    BY <1>1, <2>1 DEF Transmit, NicType
  <2>5. NicType'
    BY <1>1, <2>3, <2>4 DEF Transmit, NicType
  <2>6. QED
    BY <1>1, <2>5, SameKthread, SameQueue, SameThreads, SameHistory DEF Transmit
<1>2. CASE Reply
  <2>1. PICK d \in flight, e \in BOOLEAN :
          flight' = flight \ {d} /\ hwrx' = Append(hwrx, [desc |-> d, error |-> e])
    BY <1>2 DEF Reply
  <2>2. [desc |-> d, error |-> e] \in Acks
    BY <2>1 DEF NicType, Acks
  <2>3. hwrx' \in Seq(Acks) /\ Len(hwrx') = Len(hwrx) + 1
    BY <2>1, <2>2 DEF NicType
  <2>4. NicType'
    BY <1>2, <2>1, <2>3 DEF Reply, NicType
  <2>5. QED
    BY <1>2, <2>4, SameKthread, SameQueue, SameThreads, SameHistory DEF Reply
<1>3. CASE axiomnet_irqhandler
  <2>1. NicType' /\ KthreadType'
    BY <1>3 DEF axiomnet_irqhandler, NicType, KthreadType, axiom_kthread_wakeup
  <2>2. ThreadType'
    BY <1>3, WokenType DEF axiomnet_irqhandler
  <2>3. QED
    BY <1>3, <2>1, <2>2, SameQueue, SameHistory DEF axiomnet_irqhandler
<1>4. CASE axiom_hw_ack_irq
  <2>1. NicType'
    BY <1>4 DEF axiom_hw_ack_irq, NicType
  <2>2. QED
    BY <1>4, <2>1, SameKthread, SameQueue, SameThreads, SameHistory DEF axiom_hw_ack_irq
<1>5. QED
  BY <1>1, <1>2, <1>3, <1>4

LEMMA KthreadTypeStep ==
  ASSUME TypeOK, axkt_worker \/ DequeueAck \/ RetryLock \/ HandleAck \/ AckReceived
                   \/ FreeStatus \/ WakePort \/ WakeStatus \/ axiomnet_watchdog_worker
  PROVE  TypeOK'
<1> USE TypeParts, TypePartsNext
<1>1. CASE axkt_worker
  <2>1. KthreadType'
    BY <1>1 DEF axkt_worker, KthreadType
  <2>2. QED
    BY <1>1, <2>1, SameNic, SameQueue, SameThreads, SameHistory DEF axkt_worker
<1>2. CASE DequeueAck
  <2>1. hwrx # <<>> => /\ Head(hwrx) \in Acks /\ Tail(hwrx) \in Seq(Acks)
                       /\ Len(Tail(hwrx)) = Len(hwrx) - 1
    BY DEF NicType
  <2>2. NicType'
    <3>1. Len(hwrx) \in Nat /\ Len(hwrx) <= HwLen /\ hwrx \in Seq(Acks)
      BY DEF NicType
    <3>2. hwrx' = hwrx \/ (hwrx # <<>> /\ hwrx' = Tail(hwrx))
      BY <1>2 DEF DequeueAck, axiomnet_rdma_rx_work_todo
    <3>3. hwrx' \in Seq(Acks) /\ Len(hwrx') <= HwLen
      BY <2>1, <3>1, <3>2
    <3>4. QED
      BY <1>2, <3>3 DEF DequeueAck, NicType
  <2>3. KthreadType'
    BY <1>2, <2>1 DEF DequeueAck, KthreadType, axiomnet_rdma_rx_work_todo
  <2>4. HistoryType'
    BY <1>2 DEF DequeueAck, HistoryType
  <2>5. QED
    BY <1>2, <2>2, <2>3, <2>4, SameQueue, SameThreads DEF DequeueAck
<1>3. CASE RetryLock
  <2>1. KthreadType' /\ ThreadType'
    BY <1>3 DEF RetryLock, KthreadType, ThreadType
  <2>2. QED
    BY <1>3, <2>1, SameNic, SameQueue, SameHistory DEF RetryLock
<1>4. CASE HandleAck
  <2>1. kack.desc.slot \in Slots
    BY <1>4, KackTypes DEF HandleAck
  <2>2. QueueType'
    BY <1>4, <2>1, StatusTypes DEF HandleAck, QueueType
  <2>3. KthreadType' /\ HistoryType'
    BY <1>4 DEF HandleAck, KthreadType, HistoryType
  <2>4. QED
    BY <1>4, <2>2, <2>3, SameNic, SameThreads DEF HandleAck
<1>5. CASE AckReceived
  <2>1. kack.desc.slot \in Slots
    BY <1>5, KackTypes DEF AckReceived
  <2>2. QueueType'
    BY <1>5, <2>1, StatusTypes DEF AckReceived, QueueType
  <2>3. KthreadType'
    BY <1>5 DEF AckReceived, KthreadType
  <2>4. QED
    BY <1>5, <2>2, <2>3, SameNic, SameThreads, SameHistory DEF AckReceived
<1>6. CASE FreeStatus
  <2>1. kack.desc.slot \in Slots
    BY <1>6, KackTypes DEF FreeStatus
  <2>2. QueueType'
    BY <1>6, <2>1, StatusTypes DEF FreeStatus, QueueType, eviq_free_push
  <2>3. KthreadType'
    BY <1>6 DEF FreeStatus, KthreadType
  <2>4. QED
    BY <1>6, <2>2, <2>3, SameNic, SameThreads, SameHistory DEF FreeStatus
<1>7. CASE WakePort
  <2>1. KthreadType' /\ ThreadType'
    BY <1>7, WokenType DEF WakePort, KthreadType
  <2>2. QED
    BY <1>7, <2>1, SameNic, SameQueue, SameHistory DEF WakePort
<1>8. CASE WakeStatus
  <2>1. kack.desc.slot \in Slots
    BY <1>8, KackTypes DEF WakeStatus
  <2>2. ThreadType'
    BY <1>8, <2>1, WokenType DEF WakeStatus
  <2>3. KthreadType'
    BY <1>8 DEF WakeStatus, KthreadType
  <2>4. QED
    BY <1>8, <2>2, <2>3, SameNic, SameQueue, SameHistory DEF WakeStatus
<1>9. CASE axiomnet_watchdog_worker
  <2>1. KthreadType'
    BY <1>9 DEF axiomnet_watchdog_worker, KthreadType, axiom_kthread_wakeup
  <2>2. ThreadType'
    BY <1>9, WokenType DEF axiomnet_watchdog_worker
  <2>3. QED
    BY <1>9, <2>1, <2>2, SameNic, SameQueue, SameHistory DEF axiomnet_watchdog_worker
<1>10. QED
  BY <1>1, <1>2, <1>3, <1>4, <1>5, <1>6, <1>7, <1>8, <1>9

\* Where a thread goes once it has the mutex.
LEMMA AfterLockFacts ==
  /\ DOMAIN AfterLock = {"lock", "sendlock", "acklock"}
  /\ AfterLock["lock"] = "test" /\ AfterLock["sendlock"] = "send"
  /\ AfterLock["acklock"] = "sent"
  BY DEF AfterLock

LEMMA LockMove ==
  ASSUME NEW t \in Threads, Lock(t)
  PROVE  \/ tpc[t] = "lock" /\ tpc' = [tpc EXCEPT ![t] = "test"]
         \/ tpc[t] = "sendlock" /\ tpc' = [tpc EXCEPT ![t] = "send"]
         \/ tpc[t] = "acklock" /\ tpc' = [tpc EXCEPT ![t] = "sent"]
  BY AfterLockFacts DEF Lock, Goto

LEMMA CallTypeStep ==
  ASSUME TypeOK, NEW t \in Threads,
         Call(t) \/ Lock(t) \/ TestAvail(t) \/ WaitAvail(t) \/ SignalAvail(t) \/ PopSlot(t)
           \/ Setup(t)
  PROVE  TypeOK'
<1> USE TypeParts, TypePartsNext
<1>1. CASE Call(t)
  <2>1. nreq + 1 \in Reqs /\ nreq + 1 \in 0 .. MaxReqs
    <3>1. nreq \in 0 .. MaxReqs /\ nreq < MaxReqs
      BY <1>1 DEF Call, HistoryType
    <3>2. QED
      BY <3>1 DEF Reqs
  <2>2. ThreadType'
    BY <1>1, <2>1, MoveType DEF Call, Goto, ThreadType, Owning, Unsent, PCs
  <2>3. HistoryType'
    BY <1>1, <2>1 DEF Call, HistoryType
  <2>4. QED
    BY <1>1, <2>2, <2>3, SameNic, SameKthread, SameQueue DEF Call
<1>2. CASE Lock(t)
  <2>1. ThreadType'
    BY <1>2, LockMove, MoveType DEF Lock, ThreadType, Owning, Unsent, PCs
  <2>2. QED
    BY <1>2, <2>1, SameNic, SameKthread, SameQueue, SameHistory DEF Lock
<1>3. CASE TestAvail(t)
  <2>1. ThreadType'
    BY <1>3, MoveType DEF TestAvail, Goto, Refuse, Return, ThreadType, Owning, Unsent, PCs
  <2>2. HistoryType'
    BY <1>3 DEF TestAvail, Refuse, HistoryType
  <2>3. QED
    BY <1>3, <2>1, <2>2, SameNic, SameKthread, SameQueue DEF TestAvail
<1>4. CASE WaitAvail(t)
  <2>1. ThreadType'
    BY <1>4, MoveType DEF WaitAvail, Goto, ThreadType, Owning, Unsent, PCs
  <2>2. QED
    BY <1>4, <2>1, SameNic, SameKthread, SameQueue, SameHistory DEF WaitAvail
<1>5. CASE SignalAvail(t)
  <2>1. ThreadType'
    BY <1>5, MoveType DEF SignalAvail, Goto, Refuse, Return, ThreadType, Owning, Unsent, PCs
  <2>2. HistoryType'
    BY <1>5 DEF SignalAvail, Refuse, HistoryType
  <2>3. QED
    BY <1>5, <2>1, <2>2, SameNic, SameKthread, SameQueue DEF SignalAvail
<1>6. CASE PopSlot(t)
  <2>1. ThreadType'
    <3>1. CASE free = {}
      BY <1>6, <3>1, MoveType DEF PopSlot, Goto, Refuse, Return, ThreadType, Owning, Unsent, PCs
    <3>2. CASE free # {}
      <4>1. PICK s \in Slots : tslot' = [tslot EXCEPT ![t] = s]
        BY <1>6, <3>2 DEF PopSlot, eviq_free_pop, QueueType
      <4>2. QED
        BY <1>6, <3>2, <4>1, MoveType DEF PopSlot, Goto, ThreadType, Owning, Unsent, PCs
    <3>3. QED
      BY <3>1, <3>2
  <2>2. HistoryType' /\ QueueType'
    BY <1>6 DEF PopSlot, Refuse, HistoryType, QueueType, eviq_free_pop
  <2>3. QED
    BY <1>6, <2>1, <2>2, SameNic, SameKthread DEF PopSlot
<1>7. CASE Setup(t)
  <2>1. tslot[t] \in Slots /\ treq[t] \in Reqs
    BY <1>7, ThreadTypes DEF Setup, Owning, Unsent
  <2>2. PICK b \in BOOLEAN, n \in Nodes :
          rdma_status' = [rdma_status EXCEPT ![tslot[t]] =
                [@ EXCEPT !.ack_received = FALSE, !.retries = 0, !.dst = n,
                          !.ack_waiting = b, !.req = treq[t]]]
    BY <1>7 DEF Setup
  <2>3. QueueType'
    BY <1>7, <2>1, <2>2, StatusTypes DEF Setup, QueueType
  <2>4. rdma_status[tslot[t]].msg_id_counter \in 0 .. CounterMod - 1
    BY <2>1 DEF QueueType, Status
  <2>5. [slot |-> tslot[t], value |-> rdma_status[tslot[t]].msg_id_counter,
         status |-> "PENDING", req |-> treq[t]] \in Tokens
    BY <2>1, <2>4 DEF Tokens
  <2>6. token' = token \/ \E x \in Tokens : token' = [token EXCEPT ![t] = x]
    BY <1>7, <2>5 DEF Setup
  <2>7. ThreadType'
    BY <1>7, <2>6, MoveType DEF Setup, Goto, ThreadType, Owning, Unsent, PCs
  <2>8. QED
    BY <1>7, <2>3, <2>7, SameNic, SameKthread, SameHistory DEF Setup
<1>8. QED
  BY <1>1, <1>2, <1>3, <1>4, <1>5, <1>6, <1>7

LEMMA AnswerTypeStep ==
  ASSUME TypeOK, NEW t \in Threads,
         TestAck(t) \/ WaitAck(t) \/ SignalAck(t) \/ LeaveToKthread(t) \/ FreeSlot(t)
           \/ Notify(t)
  PROVE  TypeOK'
<1> USE TypeParts, TypePartsNext
<1>1. CASE TestAck(t)
  <2>1. tslot[t] \in Slots
    BY <1>1, ThreadTypes DEF TestAck, Owning, Unsent
  <2>2. QueueType'
    <3>1. \/ rdma_status' = rdma_status
          \/ rdma_status' = [rdma_status EXCEPT ![tslot[t]].ack_received = FALSE,
                                               ![tslot[t]].dst = NullNode]
      BY <1>1 DEF TestAck
    <3>2. [rdma_status EXCEPT ![tslot[t]].ack_received = FALSE, ![tslot[t]].dst = NullNode]
            \in [Slots -> Status]
      BY <2>1, StatusTypes
    <3>3. QED
      BY <1>1, <3>1, <3>2 DEF TestAck, QueueType, queue
  <2>3. ThreadType'
    BY <1>1, MoveType DEF TestAck, Goto, Return, ThreadType, Owning, Unsent, PCs
  <2>4. QED
    BY <1>1, <2>2, <2>3, SameNic, SameKthread, SameHistory DEF TestAck
<1>2. CASE WaitAck(t)
  <2>1. ThreadType'
    BY <1>2, MoveType DEF WaitAck, Goto, ThreadType, Owning, Unsent, PCs
  <2>2. QED
    BY <1>2, <2>1, SameNic, SameKthread, SameQueue, SameHistory DEF WaitAck
<1>3. CASE SignalAck(t)
  <2>1. ThreadType'
    BY <1>3, MoveType DEF SignalAck, Goto, ThreadType, Owning, Unsent, PCs
  <2>2. QED
    BY <1>3, <2>1, SameNic, SameKthread, SameQueue, SameHistory DEF SignalAck
<1>4. CASE LeaveToKthread(t)
  <2>1. tslot[t] \in Slots
    BY <1>4, ThreadTypes DEF LeaveToKthread, Owning, Unsent
  <2>2. QueueType'
    BY <1>4, <2>1, StatusTypes DEF LeaveToKthread, QueueType
  <2>3. ThreadType'
    BY <1>4, MoveType DEF LeaveToKthread, Goto, Return, ThreadType, Owning, Unsent, PCs
  <2>4. QED
    BY <1>4, <2>2, <2>3, SameNic, SameKthread, SameHistory DEF LeaveToKthread
<1>5. CASE FreeSlot(t)
  <2>1. tslot[t] \in Slots
    BY <1>5, ThreadTypes DEF FreeSlot, Owning, Unsent
  <2>2. QueueType'
    BY <1>5, <2>1 DEF FreeSlot, QueueType, eviq_free_push
  <2>3. ThreadType'
    BY <1>5, MoveType DEF FreeSlot, Goto, Return, ThreadType, Owning, Unsent, PCs
  <2>4. QED
    BY <1>5, <2>2, <2>3, SameNic, SameKthread, SameHistory DEF FreeSlot
<1>6. CASE Notify(t)
  <2>1. ASSUME NEW u \in Threads \ {t}
        PROVE  \/ tpc'[u] = tpc[u]
               \/ tpc[u] = "sleep" /\ tpc'[u] = "event"
    BY <1>6 DEF Notify, PortWoken, ThreadType
  <2>2. tpc' \in [Threads -> PCs] /\ tpc'[t] = "idle" /\ tslot'[t] = None /\ treq'[t] = None
    BY <1>6 DEF Notify, PortWoken, ThreadType, Owning, Unsent, PCs
  <2>3. /\ tslot' \in [Threads -> Slots \cup {None}] /\ treq' \in [Threads -> Reqs \cup {None}]
        /\ \A u \in Threads \ {t} : tslot'[u] = tslot[u] /\ treq'[u] = treq[u]
        /\ UNCHANGED <<mutex, token>>
    BY <1>6 DEF Notify, ThreadType
  <2>4. ASSUME NEW u \in Threads
        PROVE  /\ tslot'[u] # None <=> tpc'[u] \in Owning
               /\ treq'[u] = None <=> tpc'[u] \in {"idle", "wait", "waitsleep"}
               /\ tpc'[u] \in {"wait", "waitsleep"} => token'[u] # None
    BY <2>1, <2>2, <2>3 DEF ThreadType, Owning, Unsent, PCs
  <2>5. ThreadType'
    BY <2>2, <2>3, <2>4 DEF ThreadType
  <2>6. QED
    BY <1>6, <2>5, SameNic, SameKthread, SameQueue, SameHistory DEF Notify
<1>7. QED
  BY <1>1, <1>2, <1>3, <1>4, <1>5, <1>6

LEMMA TokenTypeStep ==
  ASSUME TypeOK, NEW t \in Threads,
         axiomnet_rdma_check(t) \/ CallWait(t) \/ axiomnet_rdma_wait(t) \/ SignalWait(t)
  PROVE  TypeOK'
<1> USE TypeParts, TypePartsNext
<1>1. token[t] \in Tokens => [token[t] EXCEPT !.status = "ACKED"] \in Tokens
  BY DEF Tokens
<1>2. CASE axiomnet_rdma_check(t)
  <2>1. token[t] \in Tokens
    BY <1>2 DEF axiomnet_rdma_check, Pending, ThreadType
  <2>2. ThreadType'
    BY <1>1, <1>2, <2>1 DEF axiomnet_rdma_check, TokenAcked, ThreadType
  <2>3. QED
    BY <1>2, <2>2, SameNic, SameKthread, SameQueue, SameHistory DEF axiomnet_rdma_check
<1>3. CASE CallWait(t)
  <2>1. ThreadType'
    BY <1>3, MoveType DEF CallWait, Pending, Goto, ThreadType, Owning, Unsent, PCs
  <2>2. QED
    BY <1>3, <2>1, SameNic, SameKthread, SameQueue, SameHistory DEF CallWait
<1>4. CASE axiomnet_rdma_wait(t)
  <2>1. token[t] \in Tokens
    BY <1>4 DEF axiomnet_rdma_wait, ThreadType
  <2>2. token' = token \/ \E x \in Tokens : token' = [token EXCEPT ![t] = x]
    BY <1>1, <1>4, <2>1 DEF axiomnet_rdma_wait, TokenAcked
  <2>3. ThreadType'
    BY <1>4, <2>1, <2>2, MoveType DEF axiomnet_rdma_wait, Goto, ThreadType, Owning, Unsent, PCs
  <2>4. QED
    BY <1>4, <2>3, SameNic, SameKthread, SameQueue, SameHistory DEF axiomnet_rdma_wait
<1>5. CASE SignalWait(t)
  <2>1. ThreadType'
    BY <1>5, MoveType DEF SignalWait, Goto, ThreadType, Owning, Unsent, PCs
  <2>2. QED
    BY <1>5, <2>1, SameNic, SameKthread, SameQueue, SameHistory DEF SignalWait
<1>6. QED
  BY <1>2, <1>3, <1>4, <1>5

-----------------------------------------------------------------------------
(* Descriptors move between the FIFOs, the network and the kthread *)

KPlaces == {"retry", "resend", "ack"}

LEMMA FifoTypes ==
  ASSUME TypeOK
  PROVE  /\ hwtx \in Seq(Descs) /\ hwrx \in Seq(Acks)
         /\ \A i \in 1 .. Len(hwtx) : hwtx[i] \in Descs
         /\ \A i \in 1 .. Len(hwrx) : hwrx[i] \in Acks /\ hwrx[i].desc \in Descs
<1>1. hwtx \in Seq(Descs) /\ hwrx \in Seq(Acks)
  BY DEF TypeOK
<1>2. \A i \in 1 .. Len(hwrx) : hwrx[i] \in Acks
  BY <1>1
<1>3. \A a \in Acks : a.desc \in Descs
  BY DEF Acks
<1>4. QED
  BY <1>1, <1>2, <1>3

LEMMA OutDescs ==
  ASSUME TypeOK, NEW d, Out(d)
  PROVE  d \in Descs
<1>1. CASE InTx(d)
  BY <1>1, FifoTypes DEF InTx
<1>2. CASE d \in flight
  BY <1>2 DEF TypeOK
<1>3. CASE InRx(d)
  BY <1>3, FifoTypes DEF InRx
<1>4. CASE InK(d)
  BY <1>4, KackTypes DEF InK
<1>5. QED
  BY <1>1, <1>2, <1>3, <1>4 DEF Out

\* A step that leaves the NIC, the network and the kthread's ack alone.
LEMMA OutStill ==
  ASSUME Once, UNCHANGED <<hwtx, flight, hwrx>>,
         kpc' \in KPlaces <=> kpc \in KPlaces, kpc \in KPlaces => kack' = kack
  PROVE  Once' /\ \A d : Out(d)' <=> Out(d)
<1>1. ASSUME NEW d PROVE Out(d)' <=> Out(d)
  BY DEF Out, InTx, InRx, InK, KPlaces
<1>2. Once'
  BY DEF Once, KPlaces
<1>3. QED
  BY <1>1, <1>2

\* A FIFO without its head.
LEMMA TailFacts ==
  ASSUME NEW S, NEW q \in Seq(S), q # <<>>
  PROVE  /\ Len(q) \in Nat /\ 1 \in 1 .. Len(q) /\ Head(q) = q[1] /\ Len(Tail(q)) = Len(q) - 1
         /\ \A i \in 1 .. Len(Tail(q)) : i + 1 \in 1 .. Len(q) /\ Tail(q)[i] = q[i + 1]
         /\ \A i \in 1 .. Len(q) : i # 1 => i - 1 \in 1 .. Len(Tail(q)) /\ Tail(q)[i - 1] = q[i]
  OBVIOUS

\* A FIFO with an element added.
LEMMA AppendFacts ==
  ASSUME NEW S, NEW q \in Seq(S), NEW x \in S
  PROVE  /\ Len(q) \in Nat /\ Len(Append(q, x)) = Len(q) + 1
         /\ \A i \in 1 .. Len(q) : i \in 1 .. Len(Append(q, x)) /\ Append(q, x)[i] = q[i]
         /\ Len(q) + 1 \in 1 .. Len(Append(q, x)) /\ Append(q, x)[Len(q) + 1] = x
         /\ \A i \in 1 .. Len(Append(q, x)) : i \in 1 .. Len(q) \/ i = Len(q) + 1
  OBVIOUS

LEMMA TransmitOut ==
  ASSUME TypeOK, Once, Transmit
  PROVE  Once' /\ \A d : Out(d)' <=> Out(d)
<1>1. /\ hwtx \in Seq(Descs) /\ hwtx # <<>> /\ hwtx' = Tail(hwtx)
      /\ flight' = flight \cup {Head(hwtx)} /\ UNCHANGED <<hwrx, kpc, kack>>
  BY DEF Transmit, TypeOK, kthread
<1>2. /\ Len(hwtx) \in Nat /\ 1 \in 1 .. Len(hwtx) /\ Head(hwtx) = hwtx[1]
      /\ \A i \in 1 .. Len(hwtx') : i + 1 \in 1 .. Len(hwtx) /\ hwtx'[i] = hwtx[i + 1] /\ i \in Int
      /\ \A i \in 1 .. Len(hwtx) : i # 1 => i - 1 \in 1 .. Len(hwtx') /\ hwtx'[i - 1] = hwtx[i]
  BY <1>1, TailFacts
<1>3. ASSUME NEW d PROVE Out(d)' <=> Out(d)
  <2>1. InTx(d)' \/ d \in flight' <=> InTx(d) \/ d \in flight
    BY <1>1, <1>2 DEF InTx
  <2>2. InRx(d)' <=> InRx(d)
    BY <1>1 DEF InRx
  <2>3. InK(d)' <=> InK(d)
    BY <1>1 DEF InK
  <2>4. QED
    BY <2>1, <2>2, <2>3 DEF Out
<1>4. ASSUME NEW i \in 1 .. Len(hwtx')
      PROVE  i + 1 \in 1 .. Len(hwtx) /\ i + 1 # 1 /\ hwtx'[i] = hwtx[i + 1]
  BY <1>2
<1>5. Once'
  <2>1. \A i, j \in 1 .. Len(hwtx') : hwtx'[i].slot = hwtx'[j].slot => i = j
    <3>1. SUFFICES ASSUME NEW i \in 1 .. Len(hwtx'), NEW j \in 1 .. Len(hwtx'),
                          hwtx'[i].slot = hwtx'[j].slot
                   PROVE  i = j
      OBVIOUS
    <3>2. i + 1 = j + 1
      BY <1>4, <3>1 DEF Once
    <3>3. QED
      BY <3>2
  <2>2. \A d, e \in flight' : d.slot = e.slot => d = e
    BY <1>1, <1>2 DEF Once
  <2>3. \A i \in 1 .. Len(hwtx') : \A d \in flight' : hwtx'[i].slot # d.slot
    BY <1>1, <1>2, <1>4 DEF Once
  <2>4. \A i \in 1 .. Len(hwtx') : \A j \in 1 .. Len(hwrx') : hwtx'[i].slot # hwrx'[j].desc.slot
    BY <1>1, <1>4 DEF Once
  <2>5. \A d \in flight' : \A j \in 1 .. Len(hwrx') : d.slot # hwrx'[j].desc.slot
    BY <1>1, <1>2 DEF Once
  <2>6. kpc' \in {"retry", "resend", "ack"} =>
          /\ \A i \in 1 .. Len(hwtx') : hwtx'[i].slot # kack'.desc.slot
          /\ \A d \in flight' : d.slot # kack'.desc.slot
          /\ \A j \in 1 .. Len(hwrx') : hwrx'[j].desc.slot # kack'.desc.slot
    BY <1>1, <1>2, <1>4 DEF Once
  <2>7. \A i, j \in 1 .. Len(hwrx') : hwrx'[i].desc.slot = hwrx'[j].desc.slot => i = j
    BY <1>1 DEF Once
  <2>8. QED
    BY <2>1, <2>2, <2>3, <2>4, <2>5, <2>6, <2>7 DEF Once
<1>6. QED
  BY <1>3, <1>5

LEMMA ReplyOut ==
  ASSUME TypeOK, Once, Reply
  PROVE  Once' /\ \A d : Out(d)' <=> Out(d)
<1>1. PICK x \in flight, b \in BOOLEAN :
        flight' = flight \ {x} /\ hwrx' = Append(hwrx, [desc |-> x, error |-> b])
  BY DEF Reply
<1>2. /\ hwrx \in Seq(Acks) /\ [desc |-> x, error |-> b] \in Acks
      /\ UNCHANGED <<hwtx, kpc, kack>>
  BY DEF Reply, TypeOK, Acks, kthread
<1>3. PICK n : n = Len(hwrx)
  OBVIOUS
<1>4. /\ n \in Nat
      /\ \A i \in 1 .. n : i \in 1 .. Len(hwrx') /\ hwrx'[i] = hwrx[i]
      /\ n + 1 \in 1 .. Len(hwrx') /\ hwrx'[n + 1].desc = x
      /\ \A i \in 1 .. Len(hwrx') : i \in 1 .. n \/ i = n + 1
  BY <1>1, <1>2, <1>3, AppendFacts
<1>5. ASSUME NEW d PROVE Out(d)' <=> Out(d)
  <2>1. InRx(d)' \/ d \in flight' <=> InRx(d) \/ d \in flight
    BY <1>1, <1>3, <1>4 DEF InRx
  <2>2. (InTx(d)' <=> InTx(d)) /\ (InK(d)' <=> InK(d))
    BY <1>2 DEF InTx, InK
  <2>3. QED
    BY <2>1, <2>2 DEF Out
<1>6. Once'
  <2>1. \A i \in 1 .. n : hwrx[i].desc.slot # x.slot
    BY <1>3 DEF Once
  <2>2. \A i, j \in 1 .. Len(hwrx') : hwrx'[i].desc.slot = hwrx'[j].desc.slot => i = j
    BY <1>3, <1>4, <2>1 DEF Once
  <2>3. \A d, e \in flight' : d.slot = e.slot => d = e
    BY <1>1 DEF Once
  <2>4. \A i \in 1 .. Len(hwtx') : \A d \in flight' : hwtx'[i].slot # d.slot
    BY <1>1, <1>2 DEF Once
  <2>5. \A i \in 1 .. Len(hwtx') : \A j \in 1 .. Len(hwrx') : hwtx'[i].slot # hwrx'[j].desc.slot
    BY <1>2, <1>3, <1>4 DEF Once
  <2>6. \A d \in flight' : \A j \in 1 .. Len(hwrx') : d.slot # hwrx'[j].desc.slot
    <3>1. \A d \in flight' : d \in flight /\ d.slot # x.slot
      BY <1>1 DEF Once
    <3>2. QED
      BY <1>3, <1>4, <3>1 DEF Once
  <2>7. kpc' \in {"retry", "resend", "ack"} =>
          /\ \A i \in 1 .. Len(hwtx') : hwtx'[i].slot # kack'.desc.slot
          /\ \A d \in flight' : d.slot # kack'.desc.slot
          /\ \A j \in 1 .. Len(hwrx') : hwrx'[j].desc.slot # kack'.desc.slot
    BY <1>1, <1>2, <1>3, <1>4 DEF Once
  <2>8. \A i, j \in 1 .. Len(hwtx') : hwtx'[i].slot = hwtx'[j].slot => i = j
    BY <1>2 DEF Once
  <2>9. QED
    BY <2>2, <2>3, <2>4, <2>5, <2>6, <2>7, <2>8 DEF Once
<1>7. QED
  BY <1>5, <1>6

\* The ack that the kthread reads is expected, and goes to one of the two branches.
LEMMA DequeueTakes ==
  ASSUME TypeOK, DescInv, DequeueAck, hwrx # <<>>
  PROVE  /\ hwrx' = Tail(hwrx) /\ kack' = Head(hwrx) /\ kpc = "work"
         /\ kpc' \in {"retry", "ack"} /\ UNCHANGED <<hwtx, flight, errors>>
<1>1. Head(hwrx) = hwrx[1] /\ 1 \in 1 .. Len(hwrx) /\ hwrx[1] \in Acks
  BY FifoTypes, TailFacts
<1>2. Out(hwrx[1].desc) /\ hwrx[1].desc \in Descs
  BY <1>1 DEF Out, InRx, Acks
<1>3. rdma_status[hwrx[1].desc.slot].dst = hwrx[1].desc.node
  BY <1>2 DEF DescInv
<1>4. ExpectedAck(Head(hwrx))
  BY <1>1, <1>3 DEF ExpectedAck
<1>5. QED
  BY <1>4 DEF DequeueAck, axiomnet_rdma_rx_work_todo

LEMMA DequeueOut ==
  ASSUME TypeOK, Once, DescInv, DequeueAck
  PROVE  Once' /\ \A d : Out(d)' <=> Out(d)
<1>1. CASE hwrx = <<>>
  <2>1. kpc = "work" /\ kpc' = "wait" /\ UNCHANGED <<hwtx, flight, hwrx, kack>>
    BY <1>1 DEF DequeueAck, axiomnet_rdma_rx_work_todo
  <2>2. QED
    BY <2>1, OutStill DEF KPlaces
<1>2. CASE hwrx # <<>>
  <2>1. /\ hwrx \in Seq(Acks) /\ hwrx' = Tail(hwrx) /\ kack' = Head(hwrx) /\ kpc = "work"
        /\ kpc' \in {"retry", "ack"} /\ UNCHANGED <<hwtx, flight>>
    BY <1>2, DequeueTakes DEF TypeOK
  <2>2. /\ 1 \in 1 .. Len(hwrx) /\ kack' = hwrx[1]
        /\ \A i \in 1 .. Len(hwrx') : i + 1 \in 1 .. Len(hwrx) /\ hwrx'[i] = hwrx[i + 1] /\ i \in Int
        /\ \A i \in 1 .. Len(hwrx) : i # 1 => i - 1 \in 1 .. Len(hwrx') /\ hwrx'[i - 1] = hwrx[i]
    BY <1>2, <2>1, TailFacts
  <2>3. ASSUME NEW d PROVE Out(d)' <=> Out(d)
    <3>1. InRx(d)' \/ InK(d)' <=> InRx(d)
      <4>1. InK(d)' <=> d = hwrx[1].desc
        BY <2>1, <2>2 DEF InK
      <4>2. InRx(d)' => InRx(d)
        BY <2>2 DEF InRx
      <4>3. InRx(d) => InRx(d)' \/ d = hwrx[1].desc
        BY <2>2 DEF InRx
      <4>4. d = hwrx[1].desc => InRx(d)
        BY <2>2 DEF InRx
      <4>5. QED
        BY <4>1, <4>2, <4>3, <4>4
    <3>2. ~InK(d) /\ (InTx(d)' <=> InTx(d)) /\ (d \in flight' <=> d \in flight)
      BY <2>1 DEF InK, InTx
    <3>3. QED
      BY <3>1, <3>2 DEF Out
  <2>4. ASSUME NEW i \in 1 .. Len(hwrx')
        PROVE  i + 1 \in 1 .. Len(hwrx) /\ i + 1 # 1 /\ hwrx'[i] = hwrx[i + 1]
    BY <2>2
  <2>5. \A i, j \in 1 .. Len(hwrx') : hwrx'[i].desc.slot = hwrx'[j].desc.slot => i = j
    <3>1. SUFFICES ASSUME NEW i \in 1 .. Len(hwrx'), NEW j \in 1 .. Len(hwrx'),
                          hwrx'[i].desc.slot = hwrx'[j].desc.slot
                   PROVE  i = j
      OBVIOUS
    <3>2. i + 1 = j + 1
      BY <2>4, <3>1 DEF Once
    <3>3. QED
      BY <3>2
  <2>6. \A i \in 1 .. Len(hwtx') : \A j \in 1 .. Len(hwrx') : hwtx'[i].slot # hwrx'[j].desc.slot
    BY <2>1, <2>4 DEF Once
  <2>7. \A d \in flight' : \A j \in 1 .. Len(hwrx') : d.slot # hwrx'[j].desc.slot
    BY <2>1, <2>4 DEF Once
  <2>8. /\ \A i \in 1 .. Len(hwtx') : hwtx'[i].slot # kack'.desc.slot
        /\ \A d \in flight' : d.slot # kack'.desc.slot
    BY <2>1, <2>2 DEF Once
  <2>9. \A j \in 1 .. Len(hwrx') : hwrx'[j].desc.slot # kack'.desc.slot
    BY <2>2, <2>4 DEF Once
  <2>10. /\ \A i, j \in 1 .. Len(hwtx') : hwtx'[i].slot = hwtx'[j].slot => i = j
         /\ \A d, e \in flight' : d.slot = e.slot => d = e
         /\ \A i \in 1 .. Len(hwtx') : \A d \in flight' : hwtx'[i].slot # d.slot
    BY <2>1 DEF Once
  <2>11. Once'
    BY <2>5, <2>6, <2>7, <2>8, <2>9, <2>10 DEF Once
  <2>12. QED
    BY <2>3, <2>11
<1>3. QED
  BY <1>1, <1>2

\* A descriptor whose slot has none elsewhere is given to the NIC.
LEMMA AppendOut ==
  ASSUME hwtx \in Seq(Descs), Once, NEW x \in Descs, hwtx' = Append(hwtx, x),
         UNCHANGED <<flight, hwrx>>,
         \A i \in 1 .. Len(hwtx) : hwtx[i].slot # x.slot,
         \A d \in flight : d.slot # x.slot,
         \A j \in 1 .. Len(hwrx) : hwrx[j].desc.slot # x.slot,
         kpc' \in KPlaces => kpc \in KPlaces /\ kack' = kack /\ kack.desc.slot # x.slot
  PROVE  /\ Once' /\ \A d : InTx(d)' <=> InTx(d) \/ d = x
         /\ \A d : InRx(d)' <=> InRx(d)
<1>1. PICK n : n = Len(hwtx)
  OBVIOUS
<1>2. /\ n \in Nat
      /\ \A i \in 1 .. n : i \in 1 .. Len(hwtx') /\ hwtx'[i] = hwtx[i]
      /\ n + 1 \in 1 .. Len(hwtx') /\ hwtx'[n + 1] = x
      /\ \A i \in 1 .. Len(hwtx') : i \in 1 .. n \/ i = n + 1
  BY <1>1, AppendFacts
<1>3. ASSUME NEW d PROVE InTx(d)' <=> InTx(d) \/ d = x
  BY <1>1, <1>2 DEF InTx
<1>4. ASSUME NEW d PROVE InRx(d)' <=> InRx(d)
  BY DEF InRx
<1>5. \A i, j \in 1 .. Len(hwtx') : hwtx'[i].slot = hwtx'[j].slot => i = j
  BY <1>1, <1>2 DEF Once
<1>6. \A i \in 1 .. Len(hwtx') : \A d \in flight' : hwtx'[i].slot # d.slot
  BY <1>1, <1>2 DEF Once
<1>7. \A i \in 1 .. Len(hwtx') : \A j \in 1 .. Len(hwrx') : hwtx'[i].slot # hwrx'[j].desc.slot
  BY <1>1, <1>2 DEF Once
<1>8. /\ \A i, j \in 1 .. Len(hwrx') : hwrx'[i].desc.slot = hwrx'[j].desc.slot => i = j
      /\ \A d, e \in flight' : d.slot = e.slot => d = e
      /\ \A d \in flight' : \A j \in 1 .. Len(hwrx') : d.slot # hwrx'[j].desc.slot
  BY DEF Once
<1>9. kpc' \in {"retry", "resend", "ack"} =>
        /\ \A i \in 1 .. Len(hwtx') : hwtx'[i].slot # kack'.desc.slot
        /\ \A d \in flight' : d.slot # kack'.desc.slot
        /\ \A j \in 1 .. Len(hwrx') : hwrx'[j].desc.slot # kack'.desc.slot
  BY <1>1, <1>2 DEF Once, KPlaces
<1>10. Once'
  BY <1>5, <1>6, <1>7, <1>8, <1>9 DEF Once
<1>11. QED
  BY <1>3, <1>4, <1>10

\* The descriptor that is sent again is the one that came back.
LEMMA ResendSame ==
  ASSUME TypeOK, DescInv, Resend
  PROVE  /\ kack.desc \in Descs /\ Out(kack.desc)
         /\ Len(hwtx) < HwLen /\ hwtx' = Append(hwtx, kack.desc)
<1>1. kack.desc \in Descs /\ kack.desc.slot \in Slots
  BY KackTypes DEF Resend
<1>2. Out(kack.desc)
  BY DEF Resend, Out, InK
<1>3. /\ rdma_status[kack.desc.slot].dst = kack.desc.node
      /\ rdma_status[kack.desc.slot].req = kack.desc.req
  BY <1>1, <1>2 DEF DescInv
<1>4. kack.desc = [slot |-> kack.desc.slot, node |-> kack.desc.node, req |-> kack.desc.req]
  BY <1>1 DEF Descs
<1>5. QED
  BY <1>1, <1>2, <1>3, <1>4 DEF Resend, axiom_hw_rdma_tx

LEMMA ResendOut ==
  ASSUME TypeOK, Once, DescInv, Resend
  PROVE  Once' /\ \A d : Out(d)' <=> Out(d)
<1>1. /\ kpc = "resend" /\ kpc' = "work" /\ hwtx \in Seq(Descs)
      /\ UNCHANGED <<flight, hwrx>>
  BY DEF Resend, ContinueAfterResend, TypeOK
<1>2. kack.desc \in Descs /\ hwtx' = Append(hwtx, kack.desc)
  BY ResendSame
<1>3. /\ \A i \in 1 .. Len(hwtx) : hwtx[i].slot # kack.desc.slot
      /\ \A d \in flight : d.slot # kack.desc.slot
      /\ \A j \in 1 .. Len(hwrx) : hwrx[j].desc.slot # kack.desc.slot
  BY <1>1 DEF Once
<1>4. kpc' \notin KPlaces
  BY <1>1 DEF KPlaces
<1>5. /\ Once' /\ \A d : InTx(d)' <=> InTx(d) \/ d = kack.desc
      /\ \A d : InRx(d)' <=> InRx(d)
  BY <1>1, <1>2, <1>3, <1>4, AppendOut
<1>6. ASSUME NEW d PROVE Out(d)' <=> Out(d)
  <2>1. ~InK(d)' /\ (InK(d) <=> d = kack.desc)
    BY <1>1 DEF InK
  <2>2. QED
    BY <1>1, <1>5, <2>1 DEF Out
<1>7. QED
  BY <1>5, <1>6

-----------------------------------------------------------------------------
(* Steps that change neither a slot's place nor a request's *)

Trying == {"lock", "test", "event", "sleep", "pop"}
Outside == {"idle", "wait", "waitsleep"}
Locked == {"test", "pop", "send", "sent"}
Mine == Owning \ {"notify"}

\* A thread goes on without a change of what it has.
Alike(t) ==
  \/ tpc'[t] = tpc[t]
  \/ tpc[t] \in Trying /\ tpc'[t] \in Trying
  \/ tpc[t] \in Outside /\ tpc'[t] \in Outside
  \/ tpc[t] = "sendlock" /\ tpc'[t] = "send"
  \/ tpc[t] = "sent" /\ tpc'[t] = "ackevent" /\ rdma_status[tslot[t]].ack_waiting
  \/ tpc[t] \in {"ackevent", "acksleep"} /\ tpc'[t] \in {"ackevent", "acksleep", "leave"}
  \/ tpc[t] \in {"ackevent", "acksleep"} /\ tpc'[t] = "acklock" /\ Received(tslot[t])
  \/ tpc[t] = "acklock" /\ tpc'[t] = "sent"

\* The fields of the statuses that the invariant reads are the same.
SameStatus ==
  \A s \in Slots :
    /\ rdma_status'[s].ack_received = rdma_status[s].ack_received
    /\ rdma_status'[s].ack_waiting = rdma_status[s].ack_waiting
    /\ rdma_status'[s].dst = rdma_status[s].dst
    /\ rdma_status'[s].req = rdma_status[s].req

\* What the kthread has of an answered request is the same.
SameHand ==
  /\ kpc' = "received" <=> kpc = "received"
  /\ kpc' = "free" <=> kpc = "free"
  /\ kpc \in {"received", "free"} => kack' = kack

LEMMA AlikeFacts ==
  ASSUME NEW t \in Threads, Alike(t)
  PROVE  /\ tpc'[t] \in Unsent \cup {"free"} <=> tpc[t] \in Unsent \cup {"free"}
         /\ tpc'[t] \in Mine <=> tpc[t] \in Mine
         /\ tpc'[t] \in Keeping =>
              tpc[t] \in Keeping \/ (tpc[t] = "sent" /\ rdma_status[tslot[t]].ack_waiting)
         /\ tpc'[t] = "sent" => tpc[t] \in {"sent", "acklock"}
         /\ tpc'[t] \in {"sendlock", "send", "sent"} \cup Waiting =>
              tpc[t] \in {"sendlock", "send", "sent"} \cup Waiting
         /\ tpc'[t] \in {"sendlock", "send"} => tpc[t] \in {"sendlock", "send"}
         /\ tpc'[t] \in Waiting => tpc[t] \in Waiting \/ rdma_status[tslot[t]].ack_waiting
         /\ tpc'[t] = "acklock" => tpc[t] = "acklock" \/ Received(tslot[t])
         /\ tpc'[t] \in Presend <=> tpc[t] \in Presend
         /\ tpc'[t] \in {"free", "notify"} <=> tpc[t] \in {"free", "notify"}
  BY DEF Alike, Trying, Outside, Mine, Keeping, Waiting, Presend, Owning, Unsent

LEMMA Quiet ==
  ASSUME TypeOK, TypeOK', BookInv, UNCHANGED <<free, tslot, treq, fate, nreq>>,
         SameStatus, SameHand, \A d : Out(d)' <=> Out(d), \A t \in Threads : Alike(t)
  PROVE  BookInv'
<1>1. ASSUME NEW s \in Slots
      PROVE  /\ Held(s)' <=> Held(s)
             /\ Busy(s)' <=> Busy(s)
             /\ KHas(s)' <=> KHas(s)
             /\ Received(s)' <=> Received(s)
             /\ s \in free' <=> s \in free
  <2>1. Held(s)' <=> Held(s)
    BY AlikeFacts DEF Held
  <2>2. Busy(s)' <=> Busy(s)
    BY DEF Busy
  <2>3. KHas(s)' <=> KHas(s)
    BY DEF KHas, SameHand
  <2>4. Received(s)' <=> Received(s)
    BY DEF Received, SameStatus
  <2>5. QED
    BY <2>1, <2>2, <2>3, <2>4
<1>2. PlaceInv'
  BY <1>1 DEF BookInv, PlaceInv
<1>3. Placed'
  BY <1>1 DEF BookInv, Placed
<1>4. \A t \in Threads : tpc[t] \in Mine => tslot[t] \in Slots
  BY ThreadTypes DEF Mine
<1>5. Waiting \subseteq Mine /\ Keeping \subseteq Mine /\ "sent" \in Mine
        /\ {"sendlock", "send", "sent"} \subseteq Mine /\ "acklock" \in Waiting
        /\ "acklock" \in Keeping
  BY DEF Waiting, Keeping, Mine, Owning, Unsent
<1>6. OwnerInv'
  <2>1. \A t, u \in Threads : t # u /\ tpc'[t] \in Mine /\ tpc'[u] \in Mine => tslot'[t] # tslot'[u]
    BY AlikeFacts DEF BookInv, OwnerInv, Mine
  <2>2. \A t \in Threads : tpc'[t] \in Keeping => tslot'[t] \notin free'
    BY AlikeFacts DEF BookInv, OwnerInv
  <2>3. ASSUME NEW t \in Threads, tpc'[t] = "sent", rdma_status'[tslot'[t]].ack_waiting
        PROVE  tslot'[t] \notin free'
    <3>1. tpc[t] \in {"sent", "acklock"} /\ tslot[t] \in Slots
      BY <2>3, <1>4, <1>5, AlikeFacts
    <3>2. rdma_status[tslot[t]].ack_waiting
      BY <2>3, <3>1 DEF SameStatus
    <3>3. QED
      BY <1>5, <3>1, <3>2 DEF BookInv, OwnerInv
  <2>4. ASSUME NEW t \in Threads, tpc'[t] \in {"sendlock", "send", "sent"} \cup Waiting
        PROVE  rdma_status'[tslot'[t]].req = treq'[t]
    <3>1. tpc[t] \in {"sendlock", "send", "sent"} \cup Waiting
      BY <2>4, AlikeFacts
    <3>2. tslot[t] \in Slots
      BY <1>4, <1>5, <3>1
    <3>3. QED
      BY <3>1, <3>2 DEF BookInv, OwnerInv, SameStatus
  <2>5. ASSUME NEW t \in Threads, tpc'[t] \in {"sendlock", "send"}
        PROVE  rdma_status'[tslot'[t]].dst \in Nodes
    <3>1. tpc[t] \in {"sendlock", "send"} /\ tslot[t] \in Slots
      BY <2>5, <1>4, <1>5, AlikeFacts
    <3>2. QED
      BY <3>1 DEF BookInv, OwnerInv, SameStatus
  <2>6. ASSUME NEW t \in Threads, tpc'[t] \in Waiting
        PROVE  rdma_status'[tslot'[t]].ack_waiting
    <3>1. (tpc[t] \in Waiting \/ rdma_status[tslot[t]].ack_waiting) /\ tpc[t] \in Mine
      BY <2>6, <1>5, AlikeFacts
    <3>2. tslot[t] \in Slots /\ rdma_status[tslot[t]].ack_waiting
      BY <1>4, <3>1 DEF BookInv, OwnerInv
    <3>3. QED
      BY <3>2 DEF SameStatus
  <2>7. ASSUME NEW t \in Threads, tpc'[t] = "acklock"
        PROVE  Received(tslot[t])'
    <3>1. (tpc[t] = "acklock" \/ Received(tslot[t])) /\ tpc[t] \in Mine
      BY <2>7, <1>5, AlikeFacts
    <3>2. tslot[t] \in Slots /\ Received(tslot[t])
      BY <1>4, <3>1 DEF BookInv, OwnerInv
    <3>3. QED
      BY <3>2 DEF SameStatus, Received
  <2>8. ASSUME NEW s \in Slots, s \notin free', rdma_status'[s].ack_waiting
        PROVE  \E t \in Threads : tslot'[t] = s /\ tpc'[t] \in Mine
    <3>1. s \notin free /\ rdma_status[s].ack_waiting
      BY <2>8 DEF SameStatus
    <3>2. PICK t \in Threads : tslot[t] = s /\ tpc[t] \in Mine
      BY <3>1 DEF BookInv, OwnerInv, Mine
    <3>3. QED
      BY <3>2, AlikeFacts
  <2>9. ASSUME kpc' = "free"
        PROVE  ~rdma_status'[kack'.desc.slot].ack_waiting
    <3>1. kpc = "free" /\ kack' = kack
      BY <2>9 DEF SameHand
    <3>2. kack.desc.slot \in Slots
      BY <3>1, KackTypes
    <3>3. QED
      BY <3>1, <3>2 DEF BookInv, OwnerInv, SameStatus
  <2>10. QED
    BY <2>1, <2>2, <2>3, <2>4, <2>5, <2>6, <2>7, <2>8, <2>9 DEF OwnerInv, Mine
<1>7. DescInv'
  <2>1. \A d \in Descs : d.slot \in Slots
    BY DEF Descs
  <2>2. QED
    BY <2>1 DEF BookInv, DescInv, SameStatus
<1>8. ReqInv'
  <2>1. \A t \in Threads : tpc'[t] \in Presend =>
          fate'[treq'[t]] = "none" /\ \A d \in Descs : Out(d)' => d.req # treq'[t]
    BY AlikeFacts DEF BookInv, ReqInv
  <2>2. \A t \in Threads : tpc'[t] \in {"free", "notify"} => fate'[treq'[t]] # "none"
    BY AlikeFacts DEF BookInv, ReqInv
  <2>3. \A s \in Slots : Received(s)' \/ KHas(s)' =>
          rdma_status'[s].req \in Reqs /\ fate'[rdma_status'[s].req] # "none"
    BY <1>1 DEF BookInv, ReqInv, SameStatus
  <2>4. QED
    BY <2>1, <2>2, <2>3 DEF BookInv, ReqInv
<1>9. QED
  BY <1>2, <1>3, <1>6, <1>7, <1>8 DEF BookInv

\* The mutex is neither taken nor released, and no slot is taken.
LEMMA MutexSame ==
  ASSUME MutexInv, mutex' = mutex, free \subseteq free', kpc' = "resend" <=> kpc = "resend",
         \A t \in Threads : /\ tpc'[t] \in Locked <=> tpc[t] \in Locked
                            /\ tpc'[t] = "pop" => tpc[t] = "pop"
  PROVE  MutexInv'
  BY DEF MutexInv, Locked

\* The thread that has the mutex releases it.
LEMMA MutexReleased ==
  ASSUME TypeOK, MutexInv, NEW t \in Threads, tpc[t] \in Locked, mutex' = None,
         kpc' = kpc, tpc'[t] \notin Locked,
         \A u \in Threads \ {t} : tpc'[u] = tpc[u]
  PROVE  MutexInv'
<1>1. mutex = t /\ t # Kthread
  BY DEF MutexInv, Locked
<1>2. kpc' # "resend"
  BY <1>1 DEF MutexInv
<1>3. \A u \in Threads : tpc'[u] \notin Locked
  BY <1>1 DEF MutexInv, Locked
<1>4. QED
  BY <1>2, <1>3 DEF MutexInv, Locked

\* Those that are woken test their condition again.
LEMMA WokenAlike ==
  ASSUME TypeOK,
         \/ tpc' = tpc
         \/ tpc' = PortWoken
         \/ \E s \in Slots : tpc' = StatusWoken(s)
  PROVE  \A t \in Threads : /\ Alike(t)
                            /\ tpc'[t] \in Locked <=> tpc[t] \in Locked
                            /\ tpc'[t] = "pop" => tpc[t] = "pop"
<1>1. SUFFICES ASSUME NEW t \in Threads
               PROVE  /\ Alike(t)
                      /\ tpc'[t] \in Locked <=> tpc[t] \in Locked
                      /\ tpc'[t] = "pop" => tpc[t] = "pop"
  OBVIOUS
<1>2. \/ tpc'[t] = tpc[t]
      \/ tpc[t] = "sleep" /\ tpc'[t] = "event"
      \/ tpc[t] = "acksleep" /\ tpc'[t] = "ackevent"
      \/ tpc[t] = "waitsleep" /\ tpc'[t] = "wait"
  <2>1. CASE tpc' = tpc
    BY <2>1
  <2>2. CASE tpc' = PortWoken
    BY <2>2 DEF PortWoken
  <2>3. CASE \E s \in Slots : tpc' = StatusWoken(s)
    BY <2>3 DEF StatusWoken
  <2>4. QED
    BY <2>1, <2>2, <2>3
<1>3. QED
  BY <1>2 DEF Alike, Trying, Outside, Locked

\* The NIC, the network, the interrupt and the watchdog.
LEMMA NicStep ==
  ASSUME IInv, Transmit \/ Reply \/ axiomnet_irqhandler \/ axiom_hw_ack_irq
                 \/ axiomnet_watchdog_worker
  PROVE  IInv'
<1> USE DEF IInv
<1>1. TypeOK'
  BY NicTypeStep, KthreadTypeStep
<1>2. /\ UNCHANGED <<free, rdma_status, mutex, tslot, treq, fate, nreq, kack, errors>>
      /\ kpc' = kpc \/ (kpc = "sleep" /\ kpc' = "wait")
  BY DEF Transmit, Reply, axiomnet_irqhandler, axiom_hw_ack_irq, axiomnet_watchdog_worker,
         axiom_kthread_wakeup, kthread, queue, users, history, nic
<1>3. tpc' = tpc \/ tpc' = PortWoken
  BY DEF Transmit, Reply, axiomnet_irqhandler, axiom_hw_ack_irq, axiomnet_watchdog_worker, users
<1>4. \A t \in Threads : /\ Alike(t)
                         /\ tpc'[t] \in Locked <=> tpc[t] \in Locked
                         /\ tpc'[t] = "pop" => tpc[t] = "pop"
  BY <1>3, WokenAlike
<1>5. Once' /\ \A d : Out(d)' <=> Out(d)
  <2>1. CASE Transmit
    BY <2>1, TransmitOut
  <2>2. CASE Reply
    BY <2>2, ReplyOut
  <2>3. CASE axiomnet_irqhandler \/ axiom_hw_ack_irq \/ axiomnet_watchdog_worker
    <3>1. UNCHANGED <<hwtx, flight, hwrx>>
      BY <2>3 DEF axiomnet_irqhandler, axiom_hw_ack_irq, axiomnet_watchdog_worker, nic
    <3>2. QED
      BY <1>2, <3>1, OutStill DEF KPlaces
  <2>4. QED
    BY <2>1, <2>2, <2>3
<1>6. SameStatus /\ SameHand
  BY <1>2 DEF SameStatus, SameHand
<1>7. BookInv'
  BY <1>1, <1>2, <1>4, <1>5, <1>6, Quiet
<1>8. MutexInv'
  BY <1>2, <1>4, MutexSame
<1>9. QED
  BY <1>1, <1>2, <1>5, <1>7, <1>8

\* The kthread up to the answer, and its notifications.
LEMMA KthreadStep ==
  ASSUME IInv, axkt_worker \/ DequeueAck \/ RetryLock \/ WakePort \/ WakeStatus
  PROVE  IInv'
<1> USE DEF IInv
<1>1. TypeOK'
  BY KthreadTypeStep
<1>2. UNCHANGED <<free, rdma_status, tslot, treq, fate, nreq>>
  BY DEF axkt_worker, DequeueAck, RetryLock, WakePort, WakeStatus, queue, users, history
<1>3. \A t \in Threads : /\ Alike(t)
                         /\ tpc'[t] \in Locked <=> tpc[t] \in Locked
                         /\ tpc'[t] = "pop" => tpc[t] = "pop"
  <2>1. \/ tpc' = tpc
        \/ tpc' = PortWoken
        \/ \E s \in Slots : tpc' = StatusWoken(s)
    BY KackTypes DEF axkt_worker, DequeueAck, RetryLock, WakePort, WakeStatus, users
  <2>2. QED
    BY <2>1, WokenAlike
<1>4. CASE DequeueAck
  <2>1. /\ kpc = "work" /\ kpc' \in {"wait", "work", "retry", "ack"} /\ mutex' = mutex
        /\ errors' = errors
    BY <1>4, DequeueTakes DEF DequeueAck, users, axiomnet_rdma_rx_work_todo, BookInv
  <2>2. SameStatus /\ SameHand
    BY <1>2, <2>1 DEF SameStatus, SameHand
  <2>3. Once' /\ \A d : Out(d)' <=> Out(d)
    BY <1>4, DequeueOut DEF BookInv
  <2>4. BookInv'
    BY <1>1, <1>2, <1>3, <2>2, <2>3, Quiet
  <2>5. MutexInv'
    BY <1>2, <1>3, <2>1, MutexSame
  <2>6. QED
    BY <1>1, <2>1, <2>3, <2>4, <2>5
<1>5. CASE RetryLock
  <2>1. /\ kpc = "retry" /\ kpc' = "resend" /\ mutex = None /\ mutex' = Kthread
        /\ UNCHANGED <<hwtx, flight, hwrx, kack, tpc, errors>>
    BY <1>5 DEF RetryLock, nic, history
  <2>2. SameStatus /\ SameHand
    BY <1>2, <2>1 DEF SameStatus, SameHand
  <2>3. Once' /\ \A d : Out(d)' <=> Out(d)
    BY <2>1, OutStill DEF KPlaces
  <2>4. BookInv'
    BY <1>1, <1>2, <1>3, <2>2, <2>3, Quiet
  <2>5. MutexInv'
    BY <1>2, <2>1 DEF MutexInv
  <2>6. QED
    BY <1>1, <2>1, <2>3, <2>4, <2>5
<1>6. CASE axkt_worker \/ WakePort \/ WakeStatus
  <2>1. /\ kpc \in {"wait", "wakeport", "wake"} /\ kpc' \in {"work", "sleep", "wake"}
        /\ UNCHANGED <<hwtx, flight, hwrx, mutex, errors>>
    BY <1>6 DEF axkt_worker, WakePort, WakeStatus, nic, users, history
  <2>2. SameStatus /\ SameHand
    BY <1>2, <2>1 DEF SameStatus, SameHand
  <2>3. Once' /\ \A d : Out(d)' <=> Out(d)
    BY <2>1, OutStill DEF KPlaces
  <2>4. BookInv'
    BY <1>1, <1>2, <1>3, <2>2, <2>3, Quiet
  <2>5. MutexInv'
    BY <1>2, <1>3, <2>1, MutexSame
  <2>6. QED
    BY <1>1, <2>1, <2>3, <2>4, <2>5
<1>7. QED
  BY <1>4, <1>5, <1>6

\* The kthread sends a request again.
LEMMA ResendStep ==
  ASSUME IInv, Resend
  PROVE  IInv'
<1> USE DEF IInv
<1>1. /\ kpc = "resend" /\ kpc' = "work" /\ kack' = None /\ mutex' = None
      /\ rdma_status' = AddRetry(kack.desc.slot)
      /\ UNCHANGED <<flight, hwrx, pending, irq, sched, free, tpc, tslot, treq, token,
                     nreq, fate, errors>>
  BY DEF Resend, ContinueAfterResend
<1>2. kack.desc \in Descs /\ Len(hwtx) < HwLen /\ hwtx' = Append(hwtx, kack.desc)
  BY ResendSame DEF BookInv
<1>3. kack.desc.slot \in Slots
  BY <1>1, KackTypes
<1>4. TypeOK'
  <2> USE TypeParts, TypePartsNext
  <2>1. hwtx' \in Seq(Descs) /\ Len(hwtx') = Len(hwtx) + 1 /\ Len(hwtx) \in Nat
    BY <1>2, FifoTypes, AppendFacts
  <2>2. NicType'
    BY <1>1, <1>2, <2>1 DEF NicType
  <2>3. KthreadType' /\ ThreadType'
    BY <1>1 DEF KthreadType, ThreadType
  <2>4. QueueType'
    BY <1>1, <1>3, StatusTypes DEF QueueType
  <2>5. resent' \in [Reqs -> Nat]
    <3>1. PICK r : resent' = [resent EXCEPT ![r] = @ + 1]
      BY DEF Resend
    <3>2. resent \in [Reqs -> Nat]
      BY DEF HistoryType
    <3>3. resent' = [x \in Reqs |-> IF x = r THEN resent[r] + 1 ELSE resent[x]]
      BY <3>1, <3>2
    <3>4. \A x \in Reqs : resent[x] \in Nat
      BY <3>2
    <3>5. QED
      BY <3>3, <3>4
  <2>6. HistoryType'
    BY <1>1, <2>5 DEF HistoryType
  <2>7. QED
    BY <2>2, <2>3, <2>4, <2>6
<1>5. SameStatus
  <2>1. rdma_status \in [Slots -> Status]
    BY DEF TypeOK
  <2>2. \A s \in Slots : rdma_status[s] \in Status
    BY <2>1
  <2>3. \A s \in Slots : s # kack.desc.slot => rdma_status'[s] = rdma_status[s]
    BY <1>1, <1>3, <2>1 DEF AddRetry
  <2>4. \E n : rdma_status'[kack.desc.slot] = [rdma_status[kack.desc.slot] EXCEPT !.retries = n]
    BY <1>1, <1>3, <2>1 DEF AddRetry
  <2>5. QED
    BY <1>3, <2>2, <2>3, <2>4 DEF SameStatus, Status
<1>6. SameHand /\ \A t \in Threads : Alike(t)
  BY <1>1 DEF SameHand, Alike
<1>7. Once' /\ \A d : Out(d)' <=> Out(d)
  BY ResendOut DEF BookInv
<1>8. BookInv'
  BY <1>1, <1>4, <1>5, <1>6, <1>7, Quiet
<1>9. MutexInv'
  BY <1>1 DEF MutexInv
<1>10. QED
  BY <1>1, <1>4, <1>7, <1>8, <1>9

-----------------------------------------------------------------------------
(* The kthread handles an answer *)

\* A slot has one descriptor.
LEMMA OneDesc ==
  ASSUME Once, NEW d, NEW e, Out(d), Out(e), d.slot = e.slot
  PROVE  d = e
<1>1. CASE InTx(d)
  BY <1>1 DEF Once, Out, InTx, InRx, InK
<1>2. CASE d \in flight
  BY <1>2 DEF Once, Out, InTx, InRx, InK
<1>3. CASE InRx(d)
  BY <1>3 DEF Once, Out, InTx, InRx, InK
<1>4. CASE InK(d)
  BY <1>4 DEF Once, Out, InTx, InRx, InK
<1>5. QED
  BY <1>1, <1>2, <1>3, <1>4 DEF Out

\* A thread's step or a wait of its own changes no field but those of one status.
LEMMA StatusAfter ==
  ASSUME TypeOK, NEW s \in Slots
  PROVE  /\ rdma_status' = CountAck(s) => SameStatus
         /\ rdma_status' = [rdma_status EXCEPT ![s].ack_received = TRUE] =>
              /\ \A x \in Slots \ {s} : rdma_status'[x] = rdma_status[x]
              /\ rdma_status'[s].ack_received = TRUE
              /\ rdma_status'[s].ack_waiting = rdma_status[s].ack_waiting
              /\ rdma_status'[s].dst = rdma_status[s].dst
              /\ rdma_status'[s].req = rdma_status[s].req
         /\ rdma_status' = [rdma_status EXCEPT ![s].ack_waiting = FALSE] =>
              /\ \A x \in Slots \ {s} : rdma_status'[x] = rdma_status[x]
              /\ rdma_status'[s].ack_received = rdma_status[s].ack_received
              /\ rdma_status'[s].ack_waiting = FALSE
              /\ rdma_status'[s].dst = rdma_status[s].dst
              /\ rdma_status'[s].req = rdma_status[s].req
         /\ rdma_status' = [rdma_status EXCEPT ![s].ack_received = FALSE, ![s].dst = NullNode] =>
              /\ \A x \in Slots \ {s} : rdma_status'[x] = rdma_status[x]
              /\ rdma_status'[s].ack_received = FALSE
              /\ rdma_status'[s].ack_waiting = rdma_status[s].ack_waiting
              /\ rdma_status'[s].dst = NullNode
              /\ rdma_status'[s].req = rdma_status[s].req
<1>1. rdma_status \in [Slots -> Status] /\ \A x \in Slots : rdma_status[x] \in Status
  BY DEF TypeOK
<1>2. ASSUME rdma_status' = CountAck(s) PROVE SameStatus
  <2>1. \A x \in Slots : x # s => rdma_status'[x] = rdma_status[x]
    BY <1>1, <1>2 DEF CountAck
  <2>2. \E n : rdma_status'[s] = [rdma_status[s] EXCEPT !.msg_id_counter = n]
    BY <1>1, <1>2 DEF CountAck
  <2>3. QED
    BY <1>1, <2>1, <2>2 DEF SameStatus, Status
<1>3. ASSUME rdma_status' = [rdma_status EXCEPT ![s].ack_received = TRUE]
      PROVE  /\ \A x \in Slots \ {s} : rdma_status'[x] = rdma_status[x]
             /\ rdma_status'[s] = [rdma_status[s] EXCEPT !.ack_received = TRUE]
  BY <1>1, <1>3
<1>4. ASSUME rdma_status' = [rdma_status EXCEPT ![s].ack_waiting = FALSE]
      PROVE  /\ \A x \in Slots \ {s} : rdma_status'[x] = rdma_status[x]
             /\ rdma_status'[s] = [rdma_status[s] EXCEPT !.ack_waiting = FALSE]
  BY <1>1, <1>4
<1>5. ASSUME rdma_status' = [rdma_status EXCEPT ![s].ack_received = FALSE, ![s].dst = NullNode]
      PROVE  /\ \A x \in Slots \ {s} : rdma_status'[x] = rdma_status[x]
             /\ rdma_status'[s] = [rdma_status[s] EXCEPT !.ack_received = FALSE, !.dst = NullNode]
  BY <1>1, <1>5
<1>6. rdma_status[s] \in Status
  BY <1>1
<1>7. QED
  BY <1>2, <1>3, <1>4, <1>5, <1>6 DEF Status

LEMMA HandleAckStep ==
  ASSUME IInv, HandleAck
  PROVE  IInv'
<1> USE DEF IInv
<1>1. TypeOK'
  BY KthreadTypeStep
<1>2. PICK x : x = kack.desc
  OBVIOUS
<1>3. /\ kpc = "ack" /\ kpc' = (IF rdma_status[x.slot].ack_waiting THEN "received" ELSE "free")
      /\ rdma_status' = CountAck(x.slot)
      /\ fate' = [fate EXCEPT ![rdma_status[x.slot].req] =
                     IF kack.error THEN "discarded" ELSE "acked"]
      /\ UNCHANGED <<hwtx, flight, hwrx, kack, free, mutex, tpc, tslot, treq, nreq, errors>>
  BY <1>2 DEF HandleAck, nic, users
<1>4. x \in Descs /\ x.slot \in Slots /\ x.req \in Reqs
  BY <1>2, <1>3, KackTypes
<1>5. Out(x)
  BY <1>2, <1>3 DEF Out, InK
<1>6. rdma_status[x.slot].req = x.req
  BY <1>4, <1>5 DEF BookInv, DescInv
<1>7. SameStatus
  BY <1>3, <1>4, StatusAfter
<1>8. fate'[x.req] # "none" /\ \A r \in Reqs \ {x.req} : fate'[r] = fate[r]
  BY <1>3, <1>4, <1>6 DEF TypeOK
<1>9. ASSUME NEW d PROVE Out(d)' <=> Out(d) /\ d # x
  <2>1. ~InK(d)' /\ (InK(d) <=> d = x)
    BY <1>2, <1>3 DEF InK
  <2>2. (InTx(d)' <=> InTx(d)) /\ (InRx(d)' <=> InRx(d)) /\ (d \in flight' <=> d \in flight)
    BY <1>3 DEF InTx, InRx
  <2>3. ~InTx(x) /\ ~InRx(x) /\ x \notin flight
    BY <1>2, <1>3 DEF Once, InTx, InRx
  <2>4. QED
    BY <2>1, <2>2, <2>3 DEF Out
<1>10. Once'
  BY <1>3 DEF Once
<1>11. MutexInv'
  BY <1>3, MutexSame
<1>12. ASSUME NEW s \in Slots
       PROVE  /\ Held(s)' <=> Held(s)
              /\ Busy(s)' <=> Busy(s) /\ s # x.slot
              /\ KHas(s)' <=> s = x.slot
              /\ ~KHas(s)
              /\ Received(s)' <=> Received(s)
  <2>1. Held(s)' <=> Held(s)
    BY <1>3 DEF Held
  <2>2. Busy(s)' <=> Busy(s) /\ s # x.slot
    BY <1>5, <1>9, OneDesc DEF Busy
  <2>3. (KHas(s)' <=> s = x.slot) /\ ~KHas(s)
    BY <1>2, <1>3 DEF KHas
  <2>4. Received(s)' <=> Received(s)
    BY <1>7 DEF Received, SameStatus
  <2>5. QED
    BY <2>1, <2>2, <2>3, <2>4
<1>13. Busy(x.slot)
  BY <1>4, <1>5 DEF Busy
<1>14. PlaceInv'
  BY <1>3, <1>12, <1>13 DEF BookInv, PlaceInv
<1>15. Placed'
  BY <1>3, <1>12 DEF BookInv, Placed
<1>16. OwnerInv'
  <2>1. \A t \in Threads : tpc[t] \in Owning => tslot[t] \in Slots
    BY ThreadTypes
  <2>2. \A t \in Threads : tpc[t] \in Owning =>
          /\ rdma_status'[tslot[t]].req = rdma_status[tslot[t]].req
          /\ rdma_status'[tslot[t]].dst = rdma_status[tslot[t]].dst
          /\ rdma_status'[tslot[t]].ack_waiting = rdma_status[tslot[t]].ack_waiting
          /\ rdma_status'[tslot[t]].ack_received = rdma_status[tslot[t]].ack_received
    BY <1>7, <2>1 DEF SameStatus
  <2>3. {"sent", "sendlock", "send"} \cup Waiting \subseteq Owning
    BY DEF Owning, Waiting, Unsent
  <2>4. kpc' = "free" => ~rdma_status'[kack'.desc.slot].ack_waiting
    BY <1>2, <1>3, <1>4, <1>7 DEF SameStatus
  <2>5. \A s \in Slots : rdma_status'[s].ack_waiting = rdma_status[s].ack_waiting
    BY <1>7 DEF SameStatus
  <2>6. "acklock" \in Waiting
    BY DEF Waiting
  <2>7. QED
    BY <1>3, <2>2, <2>3, <2>4, <2>5, <2>6 DEF BookInv, OwnerInv, Received
<1>17. DescInv'
  <2>1. \A d \in Descs : d.slot \in Slots /\ d.req \in Reqs
    BY DEF Descs
  <2>2. \A d \in Descs : Out(d)' => d.req # x.req
    BY <1>4, <1>5, <1>9 DEF BookInv, DescInv
  <2>3. QED
    BY <1>3, <1>7, <1>8, <1>9, <2>1, <2>2 DEF BookInv, DescInv, SameStatus
<1>18. ReqInv'
  <2>1. \A t \in Threads : tpc[t] \in Presend => treq[t] \in Reqs /\ treq[t] # x.req
    <3>1. \A t \in Threads : tpc[t] \in Presend => tpc[t] \notin {"idle", "wait", "waitsleep"}
      BY DEF Presend, Unsent
    <3>2. QED
      BY <1>4, <1>5, <3>1, ThreadTypes DEF BookInv, ReqInv
  <2>2. \A t \in Threads : tpc'[t] \in Presend =>
          fate'[treq'[t]] = "none" /\ \A d \in Descs : Out(d)' => d.req # treq'[t]
    BY <1>3, <1>8, <1>9, <2>1 DEF BookInv, ReqInv
  <2>3. \A t \in Threads : tpc'[t] \in {"free", "notify"} => fate'[treq'[t]] # "none"
    BY <1>3, <1>8, ThreadTypes DEF BookInv, ReqInv
  <2>4. \A s \in Slots : Received(s)' \/ KHas(s)' =>
          rdma_status'[s].req \in Reqs /\ fate'[rdma_status'[s].req] # "none"
    BY <1>4, <1>6, <1>7, <1>8, <1>12 DEF BookInv, ReqInv, SameStatus
  <2>5. x.req <= nreq /\ nreq \in Nat /\ x.req \in Nat
    BY <1>4, <1>5 DEF BookInv, DescInv, Reqs, TypeOK
  <2>6. \A r \in Reqs : r > nreq' => fate'[r] = "none"
    <3>1. \A r \in Reqs : r > nreq => r # x.req
      BY <2>5 DEF Reqs
    <3>2. QED
      BY <1>3, <1>8, <3>1 DEF BookInv, ReqInv
  <2>7. QED
    BY <1>3, <2>2, <2>3, <2>4, <2>6 DEF BookInv, ReqInv
<1>19. QED
  BY <1>1, <1>3, <1>10, <1>11, <1>14, <1>15, <1>16, <1>17, <1>18 DEF BookInv

LEMMA AckReceivedStep ==
  ASSUME IInv, AckReceived
  PROVE  IInv'
<1> USE DEF IInv
<1>1. TypeOK'
  BY KthreadTypeStep
<1>2. PICK z : z = kack.desc.slot
  OBVIOUS
<1>3. /\ kpc = "received" /\ kpc' = "wake"
      /\ rdma_status' = [rdma_status EXCEPT ![z].ack_received = TRUE]
      /\ UNCHANGED <<hwtx, flight, hwrx, kack, free, mutex, tpc, tslot, treq, nreq, fate, errors>>
  BY <1>2 DEF AckReceived, nic, users, history
<1>4. z \in Slots
  BY <1>2, <1>3, KackTypes
<1>5. /\ \A x \in Slots \ {z} : rdma_status'[x] = rdma_status[x]
      /\ rdma_status'[z].ack_received = TRUE
      /\ rdma_status'[z].ack_waiting = rdma_status[z].ack_waiting
      /\ rdma_status'[z].dst = rdma_status[z].dst
      /\ rdma_status'[z].req = rdma_status[z].req
  BY <1>3, <1>4, StatusAfter
<1>6. Once' /\ \A d : Out(d)' <=> Out(d)
  BY <1>3, OutStill DEF KPlaces
<1>7. MutexInv'
  BY <1>3, MutexSame
<1>8. ASSUME NEW s \in Slots
      PROVE  /\ Held(s)' <=> Held(s)
             /\ Busy(s)' <=> Busy(s)
             /\ ~KHas(s)' /\ (KHas(s) <=> s = z)
             /\ Received(s)' <=> Received(s) \/ s = z
  <2>1. Held(s)' <=> Held(s)
    BY <1>3 DEF Held
  <2>2. Busy(s)' <=> Busy(s)
    BY <1>6 DEF Busy
  <2>3. ~KHas(s)' /\ (KHas(s) <=> s = z)
    BY <1>2, <1>3 DEF KHas
  <2>4. Received(s)' <=> Received(s) \/ s = z
    BY <1>5 DEF Received
  <2>5. QED
    BY <2>1, <2>2, <2>3, <2>4
<1>9. PlaceInv'
  BY <1>3, <1>8 DEF BookInv, PlaceInv
<1>10. Placed'
  BY <1>3, <1>8 DEF BookInv, Placed
<1>11. OwnerInv'
  <2>1. \A t \in Threads : tpc[t] \in Owning => tslot[t] \in Slots
    BY ThreadTypes
  <2>2. \A s \in Slots :
          /\ rdma_status'[s].req = rdma_status[s].req
          /\ rdma_status'[s].dst = rdma_status[s].dst
          /\ rdma_status'[s].ack_waiting = rdma_status[s].ack_waiting
          /\ rdma_status[s].ack_received => rdma_status'[s].ack_received
    BY <1>4, <1>5
  <2>3. {"sent", "sendlock", "send"} \cup Waiting \subseteq Owning /\ "acklock" \in Waiting
    BY DEF Owning, Waiting, Unsent
  <2>4. QED
    BY <1>3, <2>1, <2>2, <2>3 DEF BookInv, OwnerInv, Received
<1>12. DescInv'
  <2>1. \A d \in Descs : d.slot \in Slots
    BY DEF Descs
  <2>2. QED
    BY <1>3, <1>5, <1>6, <2>1 DEF BookInv, DescInv
<1>13. ReqInv'
  <2>1. \A s \in Slots : Received(s)' \/ KHas(s)' =>
          rdma_status'[s].req \in Reqs /\ fate'[rdma_status'[s].req] # "none"
    BY <1>3, <1>5, <1>8 DEF BookInv, ReqInv
  <2>2. QED
    BY <1>3, <1>6, <2>1 DEF BookInv, ReqInv
<1>14. QED
  BY <1>1, <1>3, <1>6, <1>7, <1>9, <1>10, <1>11, <1>12, <1>13 DEF BookInv

LEMMA FreeStatusStep ==
  ASSUME IInv, FreeStatus
  PROVE  IInv'
<1> USE DEF IInv
<1>1. TypeOK'
  BY KthreadTypeStep
<1>2. PICK z : z = kack.desc.slot
  OBVIOUS
<1>3. /\ kpc = "free" /\ kpc' \in {"wakeport", "wake"} /\ free' = free \cup {z}
      /\ rdma_status' = [rdma_status EXCEPT ![z].ack_received = FALSE, ![z].dst = NullNode]
      /\ UNCHANGED <<hwtx, flight, hwrx, kack, mutex, tpc, tslot, treq, nreq, fate, errors>>
  BY <1>2 DEF FreeStatus, eviq_free_push, nic, users, history
<1>4. z \in Slots
  BY <1>2, <1>3, KackTypes
<1>5. /\ \A x \in Slots \ {z} : rdma_status'[x] = rdma_status[x]
      /\ rdma_status'[z].ack_received = FALSE
      /\ rdma_status'[z].ack_waiting = rdma_status[z].ack_waiting
      /\ rdma_status'[z].dst = NullNode
      /\ rdma_status'[z].req = rdma_status[z].req
  BY <1>3, <1>4, StatusAfter
<1>16. \A s \in Slots :
         /\ rdma_status'[s].req = rdma_status[s].req
         /\ rdma_status'[s].ack_waiting = rdma_status[s].ack_waiting
         /\ s # z => rdma_status'[s].dst = rdma_status[s].dst
         /\ s # z => rdma_status'[s].ack_received = rdma_status[s].ack_received
  BY <1>4, <1>5
<1>6. Once' /\ \A d : Out(d)' <=> Out(d)
  BY <1>3, OutStill DEF KPlaces
<1>7. MutexInv'
  BY <1>3, MutexSame
<1>8. KHas(z) /\ ~Held(z) /\ ~Busy(z) /\ ~Received(z) /\ ~rdma_status[z].ack_waiting
  <2>1. KHas(z)
    BY <1>2, <1>3 DEF KHas
  <2>2. QED
    BY <1>2, <1>3, <1>4, <2>1 DEF BookInv, PlaceInv, OwnerInv
<1>9. ASSUME NEW s \in Slots
      PROVE  /\ Held(s)' <=> Held(s)
             /\ Busy(s)' <=> Busy(s)
             /\ ~KHas(s)' /\ (KHas(s) <=> s = z)
             /\ Received(s)' <=> Received(s)
  <2>1. Held(s)' <=> Held(s)
    BY <1>3 DEF Held
  <2>2. Busy(s)' <=> Busy(s)
    BY <1>6 DEF Busy
  <2>3. ~KHas(s)' /\ (KHas(s) <=> s = z)
    BY <1>2, <1>3 DEF KHas
  <2>4. Received(s)' <=> Received(s)
    BY <1>5, <1>8 DEF Received
  <2>5. QED
    BY <2>1, <2>2, <2>3, <2>4
<1>10. PlaceInv'
  BY <1>3, <1>8, <1>9 DEF BookInv, PlaceInv
<1>11. Placed'
  BY <1>3, <1>9 DEF BookInv, Placed
<1>12. OwnerInv'
  <2>1. \A t \in Threads : tpc[t] \in Owning => tslot[t] \in Slots
    BY ThreadTypes
  <2>2. \A t \in Threads : tpc[t] \in Keeping => tslot[t] # z
    <3>1. Keeping = Unsent \cup {"free"} \cup Waiting
      BY DEF Keeping, Owning, Unsent, Waiting
    <3>2. QED
      BY <1>8, <3>1 DEF BookInv, OwnerInv, Held
  <2>3. {"sent", "sendlock", "send"} \cup Waiting \subseteq Owning /\ "acklock" \in Keeping \cap Owning
          /\ {"sendlock", "send"} \subseteq Keeping
    BY DEF Owning, Waiting, Unsent, Keeping
  <2>4. \A t \in Threads : tpc[t] \in Keeping => tslot[t] \notin free'
    BY <1>3, <2>2 DEF BookInv, OwnerInv
  <2>5. \A t \in Threads : tpc[t] = "sent" /\ rdma_status'[tslot[t]].ack_waiting =>
          tslot[t] \notin free'
    BY <1>3, <1>8, <1>16, <2>1, <2>3 DEF BookInv, OwnerInv
  <2>6. \A t \in Threads : tpc[t] \in {"sendlock", "send", "sent"} \cup Waiting =>
          rdma_status'[tslot[t]].req = treq[t]
    BY <1>16, <2>1, <2>3 DEF BookInv, OwnerInv
  <2>7. \A t \in Threads : tpc[t] \in {"sendlock", "send"} => rdma_status'[tslot[t]].dst \in Nodes
    BY <1>16, <2>1, <2>2, <2>3 DEF BookInv, OwnerInv
  <2>8. \A t \in Threads : tpc[t] \in Waiting => rdma_status'[tslot[t]].ack_waiting
    BY <1>16, <2>1, <2>3 DEF BookInv, OwnerInv
  <2>9. \A t \in Threads : tpc[t] = "acklock" => rdma_status'[tslot[t]].ack_received
    <3>1. \A t \in Threads : tpc[t] = "acklock" =>
            rdma_status[tslot[t]].ack_received /\ tslot[t] \in Slots /\ tslot[t] # z
      BY <2>1, <2>2, <2>3 DEF BookInv, OwnerInv, Received
    <3>2. QED
      BY <1>16, <3>1
  <2>10. \A s \in Slots : s \notin free' /\ rdma_status'[s].ack_waiting =>
           \E t \in Threads : tslot[t] = s /\ tpc[t] \in Owning \ {"notify"}
    BY <1>3, <1>16 DEF BookInv, OwnerInv
  <2>11. kpc' # "free" /\ UNCHANGED <<tpc, tslot, treq>>
    BY <1>3
  <2>12. \A t, u \in Threads :
           t # u /\ tpc[t] \in Owning \ {"notify"} /\ tpc[u] \in Owning \ {"notify"} =>
             tslot[t] # tslot[u]
    BY DEF BookInv, OwnerInv
  <2>13. QED
    BY <2>4, <2>5, <2>6, <2>7, <2>8, <2>9, <2>10, <2>11, <2>12 DEF OwnerInv, Received
<1>13. DescInv'
  <2>1. \A d \in Descs : d.slot \in Slots
    BY DEF Descs
  <2>2. \A d \in Descs : Out(d) => d.slot # z
    BY <1>8 DEF Busy
  <2>3. QED
    BY <1>3, <1>6, <1>16, <2>1, <2>2 DEF BookInv, DescInv
<1>14. ReqInv'
  <2>1. \A s \in Slots : Received(s)' \/ KHas(s)' =>
          rdma_status'[s].req \in Reqs /\ fate'[rdma_status'[s].req] # "none"
    BY <1>3, <1>9, <1>16 DEF BookInv, ReqInv
  <2>2. QED
    BY <1>3, <1>6, <2>1 DEF BookInv, ReqInv
<1>15. QED
  BY <1>1, <1>3, <1>6, <1>7, <1>10, <1>11, <1>12, <1>13, <1>14 DEF BookInv

-----------------------------------------------------------------------------
(* Threads *)

LEMMA NreqType ==
  ASSUME TypeOK
  PROVE  nreq \in Nat /\ nreq <= MaxReqs /\ \A r \in Reqs : r \in Nat /\ r <= MaxReqs
<1>1. nreq \in 0 .. MaxReqs
  BY DEF TypeOK
<1>2. QED
  BY <1>1 DEF Reqs

\* A thread goes on as before, and nothing else changes that the invariant reads.
LEMMA ThreadQuiet ==
  ASSUME IInv, TypeOK', MutexInv', NEW t \in Threads, Alike(t),
         \A u \in Threads \ {t} : tpc'[u] = tpc[u],
         UNCHANGED <<hwtx, flight, hwrx, kpc, kack, free, rdma_status, tslot, treq, fate,
                     nreq, errors>>
  PROVE  IInv'
<1>1. SameStatus /\ SameHand /\ \A u \in Threads : Alike(u)
  BY DEF SameStatus, SameHand, Alike
<1>2. Once' /\ \A d : Out(d)' <=> Out(d)
  BY OutStill DEF IInv, KPlaces
<1>3. BookInv'
  BY <1>1, <1>2, Quiet DEF IInv
<1>4. QED
  BY <1>2, <1>3 DEF IInv

LEMMA ThreadQuietStep ==
  ASSUME IInv, NEW t \in Threads,
         \/ Lock(t) \/ WaitAvail(t) \/ WaitAck(t) \/ SignalAck(t)
         \/ axiomnet_rdma_check(t) \/ CallWait(t) \/ axiomnet_rdma_wait(t) \/ SignalWait(t)
  PROVE  IInv'
<1>1. TypeOK'
  BY CallTypeStep, AnswerTypeStep, TokenTypeStep DEF IInv
<1>2. UNCHANGED <<hwtx, flight, hwrx, kpc, kack, free, rdma_status, tslot, treq, fate, nreq,
                  errors>>
  BY DEF Lock, WaitAvail, WaitAck, SignalAck, axiomnet_rdma_check, CallWait,
         axiomnet_rdma_wait, SignalWait, nic, kthread, queue, history
<1>3. tpc \in [Threads -> PCs]
  BY DEF IInv, TypeOK, PCs
<1>4. CASE Lock(t)
  <2>1. \A u \in Threads \ {t} : tpc'[u] = tpc[u]
    BY <1>4, <1>3 DEF Lock, Goto
  <2>2. /\ Alike(t) /\ tpc'[t] \in Locked
        /\ tpc'[t] = "pop" => tpc[t] = "pop"
    BY <1>4, <1>3, LockMove DEF Alike, Trying, Locked
  <2>3. mutex = None /\ mutex' = t
    BY <1>4 DEF Lock
  <2>4. MutexInv'
    BY <1>2, <2>1, <2>2, <2>3 DEF IInv, MutexInv, Locked
  <2>5. QED
    BY <1>1, <1>2, <2>1, <2>2, <2>4, ThreadQuiet
<1>5. CASE ~Lock(t)
  <2>1. /\ mutex' = mutex
        /\ tpc' = tpc \/ \E pc : tpc' = [tpc EXCEPT ![t] = pc]
    BY <1>5 DEF WaitAvail, WaitAck, SignalAck, axiomnet_rdma_check, CallWait,
         axiomnet_rdma_wait, SignalWait, Goto
  <2>2. \A u \in Threads \ {t} : tpc'[u] = tpc[u]
    BY <1>3, <2>1
  <2>3. \/ tpc[t] = "event" /\ tpc'[t] \in {"lock", "sleep"}
        \/ tpc[t] = "ackevent" /\ tpc'[t] = "acksleep"
        \/ tpc[t] = "acksleep" /\ tpc'[t] = "leave"
        \/ tpc[t] \in {"ackevent", "acksleep"} /\ tpc'[t] = "acklock" /\ Received(tslot[t])
        \/ tpc[t] \in Outside /\ tpc'[t] \in Outside
    <3>1. CASE WaitAvail(t)
      BY <3>1, <1>3 DEF WaitAvail, Goto
    <3>2. CASE WaitAck(t)
      BY <3>2, <1>3 DEF WaitAck, Goto, Received
    <3>3. CASE SignalAck(t)
      BY <3>3, <1>3 DEF SignalAck, Goto, Received
    <3>4. CASE axiomnet_rdma_check(t)
      BY <3>4 DEF axiomnet_rdma_check, Outside
    <3>5. CASE CallWait(t)
      BY <3>5, <1>3 DEF CallWait, Goto, Outside
    <3>6. CASE axiomnet_rdma_wait(t)
      BY <3>6, <1>3 DEF axiomnet_rdma_wait, Goto, Outside
    <3>7. CASE SignalWait(t)
      BY <3>7, <1>3 DEF SignalWait, Goto, Outside
    <3>8. QED
      BY <1>5, <3>1, <3>2, <3>3, <3>4, <3>5, <3>6, <3>7
  <2>4. Alike(t) /\ tpc'[t] \notin Locked /\ tpc[t] \notin Locked /\ tpc'[t] # "pop"
    BY <2>3 DEF Alike, Trying, Outside, Locked
  <2>5. MutexInv'
    BY <1>2, <2>1, <2>2, <2>4, MutexSame DEF IInv
  <2>6. QED
    BY <1>1, <1>2, <2>2, <2>4, <2>5, ThreadQuiet
<1>6. QED
  BY <1>4, <1>5

\* The threads other than t, of which some may have been woken.
Others(t) ==
  \A u \in Threads \ {t} :
    /\ tslot'[u] = tslot[u] /\ treq'[u] = treq[u]
    /\ tpc'[u] = tpc[u] \/ (tpc[u] = "sleep" /\ tpc'[u] = "event")

LEMMA OtherFacts ==
  ASSUME NEW t \in Threads, Others(t), NEW u \in Threads \ {t}
  PROVE  /\ tslot'[u] = tslot[u] /\ treq'[u] = treq[u]
         /\ tpc'[u] \in Unsent \cup {"free"} <=> tpc[u] \in Unsent \cup {"free"}
         /\ tpc'[u] \in Mine <=> tpc[u] \in Mine
         /\ tpc'[u] \in Keeping <=> tpc[u] \in Keeping
         /\ tpc'[u] = "sent" <=> tpc[u] = "sent"
         /\ tpc'[u] \in {"sendlock", "send", "sent"} \cup Waiting <=>
              tpc[u] \in {"sendlock", "send", "sent"} \cup Waiting
         /\ tpc'[u] \in {"sendlock", "send"} <=> tpc[u] \in {"sendlock", "send"}
         /\ tpc'[u] \in Waiting <=> tpc[u] \in Waiting
         /\ tpc'[u] = "acklock" <=> tpc[u] = "acklock"
         /\ tpc'[u] \in Presend <=> tpc[u] \in Presend
         /\ tpc'[u] \in {"free", "notify"} <=> tpc[u] \in {"free", "notify"}
         /\ tpc'[u] \in Locked <=> tpc[u] \in Locked
         /\ tpc'[u] = "pop" <=> tpc[u] = "pop"
  BY DEF Others, Mine, Keeping, Waiting, Presend, Owning, Unsent, Locked

\* The steps of a thread that have a slot, and that use it.
LEMMA PlaceSets ==
  /\ Keeping = Unsent \cup {"free"} \cup Waiting
  /\ Mine = Keeping \cup {"sent"}
  /\ {"sendlock", "send"} \subseteq Unsent
  /\ "acklock" \in Waiting
  /\ \A pc \in Mine : pc \in Owning
  BY DEF Keeping, Mine, Waiting, Owning, Unsent

\* A thread that owns no slot any more leaves, with its request sent or refused.
LEMMA Gone ==
  ASSUME IInv, TypeOK', NEW t \in Threads, Others(t),
         tpc'[t] = "idle", tslot'[t] = None, treq'[t] = None,
         UNCHANGED <<hwtx, flight, hwrx, kpc, kack, free, rdma_status, nreq>>,
         tpc[t] \in Trying \cup {"sent", "notify"},
         tpc[t] = "sent" => ~rdma_status[tslot[t]].ack_waiting,
         \/ fate' = fate
         \/ tpc[t] \in Trying /\ fate' = [fate EXCEPT ![treq[t]] = "refused"]
  PROVE  Once' /\ BookInv'
<1> USE DEF IInv
<1>1. Once' /\ \A d : Out(d)' <=> Out(d)
  BY OutStill DEF KPlaces
<1>2. /\ tpc[t] \notin Unsent \cup {"free"} /\ tpc'[t] \notin Unsent \cup {"free"}
      /\ tpc'[t] \notin Mine /\ tpc'[t] \notin Presend
      /\ tpc[t] \in Mine => tpc[t] = "sent"
      /\ tpc'[t] \notin {"free", "notify", "sent", "sendlock", "send", "acklock"}
      /\ tpc'[t] \notin Waiting /\ tpc'[t] \notin Keeping
  BY DEF Unsent, Mine, Owning, Presend, Trying, Waiting, Keeping
<1>3. ASSUME NEW s \in Slots
      PROVE  /\ Held(s)' <=> Held(s)
             /\ Busy(s)' <=> Busy(s)
             /\ KHas(s)' <=> KHas(s)
             /\ Received(s)' <=> Received(s)
  <2>1. Held(s)' <=> Held(s)
    BY <1>2, OtherFacts DEF Held
  <2>2. Busy(s)' <=> Busy(s)
    BY <1>1 DEF Busy
  <2>3. (KHas(s)' <=> KHas(s)) /\ (Received(s)' <=> Received(s))
    BY DEF KHas, Received
  <2>4. QED
    BY <2>1, <2>2, <2>3
<1>4. PlaceInv' /\ Placed'
  BY <1>3 DEF BookInv, PlaceInv, Placed
<1>5. OwnerInv'
  <2>1. \A u, v \in Threads : u # v /\ tpc'[u] \in Mine /\ tpc'[v] \in Mine => tslot'[u] # tslot'[v]
    BY <1>2, OtherFacts DEF BookInv, OwnerInv, Mine
  <2>2. ASSUME NEW u \in Threads
        PROVE  /\ tpc'[u] \in Keeping => tslot'[u] \notin free'
               /\ tpc'[u] = "sent" /\ rdma_status'[tslot'[u]].ack_waiting => tslot'[u] \notin free'
               /\ tpc'[u] \in {"sendlock", "send", "sent"} \cup Waiting =>
                    rdma_status'[tslot'[u]].req = treq'[u]
               /\ tpc'[u] \in {"sendlock", "send"} => rdma_status'[tslot'[u]].dst \in Nodes
               /\ tpc'[u] \in Waiting => rdma_status'[tslot'[u]].ack_waiting
               /\ tpc'[u] = "acklock" => rdma_status'[tslot'[u]].ack_received
    <3>1. CASE u = t
      BY <3>1, <1>2
    <3>2. CASE u # t
      BY <3>2, OtherFacts DEF BookInv, OwnerInv, Received
    <3>3. QED
      BY <3>1, <3>2
  <2>3. ASSUME NEW s \in Slots, s \notin free', rdma_status'[s].ack_waiting
        PROVE  \E u \in Threads : tslot'[u] = s /\ tpc'[u] \in Mine
    <3>1. PICK u \in Threads : tslot[u] = s /\ tpc[u] \in Mine
      BY <2>3 DEF BookInv, OwnerInv, Mine
    <3>2. u # t
      BY <2>3, <3>1, <1>2
    <3>3. QED
      BY <3>1, <3>2, OtherFacts
  <2>4. kpc' = "free" => ~rdma_status'[kack'.desc.slot].ack_waiting
    BY DEF BookInv, OwnerInv
  <2>5. QED
    BY <2>1, <2>2, <2>3, <2>4 DEF OwnerInv, Mine, Received
<1>6. ASSUME NEW r \in Reqs
      PROVE  /\ fate'[r] # fate[r] => tpc[t] \in Trying /\ r = treq[t] /\ fate'[r] = "refused"
             /\ fate[r] # "none" => fate'[r] # "none"
  <2>1. fate \in [Reqs -> {"none", "refused", "acked", "discarded"}]
    BY DEF TypeOK
  <2>2. CASE fate' = fate
    BY <2>2
  <2>3. CASE tpc[t] \in Trying /\ fate' = [fate EXCEPT ![treq[t]] = "refused"]
    BY <2>1, <2>3
  <2>4. QED
    BY <2>2, <2>3
<1>7. tpc[t] \in Trying => /\ fate[treq[t]] = "none" /\ treq[t] \in Reqs /\ treq[t] <= nreq
                           /\ \A d \in Descs : Out(d) => d.req # treq[t]
  BY ThreadTypes DEF BookInv, ReqInv, Trying, Presend
<1>8. DescInv'
  <2>1. \A d \in Descs : d.req \in Reqs
    BY DEF Descs
  <2>2. QED
    BY <1>1, <1>6, <1>7, <2>1 DEF BookInv, DescInv
<1>9. ReqInv'
  <2>1. \A u, v \in Threads : u # v /\ treq'[u] # None => treq'[u] # treq'[v]
    BY OtherFacts DEF BookInv, ReqInv
  <2>2. \A u \in Threads : treq'[u] # None => treq'[u] <= nreq'
    BY OtherFacts DEF BookInv, ReqInv
  <2>3. ASSUME NEW u \in Threads, tpc'[u] \in Presend
        PROVE  fate'[treq'[u]] = "none" /\ \A d \in Descs : Out(d)' => d.req # treq'[u]
    <3>1. u # t /\ tpc[u] \in Presend /\ treq'[u] = treq[u]
      BY <1>2, <2>3, OtherFacts
    <3>2. treq[u] \in Reqs
      BY <3>1, ThreadTypes DEF Presend, Unsent
    <3>3. treq[u] # treq[t]
      BY <3>1, <3>2 DEF BookInv, ReqInv
    <3>4. QED
      BY <1>1, <1>6, <3>1, <3>2, <3>3 DEF BookInv, ReqInv
  <2>4. ASSUME NEW u \in Threads, tpc'[u] \in {"free", "notify"}
        PROVE  fate'[treq'[u]] # "none"
    <3>1. u # t /\ tpc[u] \in {"free", "notify"} /\ treq'[u] = treq[u]
      BY <1>2, <2>4, OtherFacts
    <3>2. treq[u] \in Reqs
      BY <3>1, ThreadTypes
    <3>3. QED
      BY <1>6, <3>1, <3>2 DEF BookInv, ReqInv
  <2>5. \A s \in Slots : Received(s)' \/ KHas(s)' =>
          rdma_status'[s].req \in Reqs /\ fate'[rdma_status'[s].req] # "none"
    BY <1>3, <1>6 DEF BookInv, ReqInv
  <2>6. \A r \in Reqs : r > nreq' => fate'[r] = "none"
    <3>1. ASSUME NEW r \in Reqs, r > nreq, r = treq[t], tpc[t] \in Trying PROVE FALSE
      <4>1. r <= nreq
        BY <1>7, <3>1
      <4>2. QED
        BY <3>1, <4>1, NreqType
    <3>2. QED
      BY <1>6, <3>1 DEF BookInv, ReqInv
  <2>7. QED
    BY <2>1, <2>2, <2>3, <2>4, <2>5, <2>6 DEF ReqInv
<1>10. QED
  BY <1>1, <1>4, <1>5, <1>8, <1>9 DEF BookInv

\* OwnerInv, thread by thread.
Owns(u) ==
  /\ tpc[u] \in Keeping => tslot[u] \notin free
  /\ tpc[u] = "sent" /\ rdma_status[tslot[u]].ack_waiting => tslot[u] \notin free
  /\ tpc[u] \in {"sendlock", "send", "sent"} \cup Waiting => rdma_status[tslot[u]].req = treq[u]
  /\ tpc[u] \in {"sendlock", "send"} => rdma_status[tslot[u]].dst \in Nodes
  /\ tpc[u] \in Waiting => rdma_status[tslot[u]].ack_waiting
  /\ tpc[u] = "acklock" => Received(tslot[u])
Apart == \A t, u \in Threads : t # u /\ tpc[t] \in Mine /\ tpc[u] \in Mine => tslot[t] # tslot[u]
HasOwner(s) == \E t \in Threads : tslot[t] = s /\ tpc[t] \in Mine
Owned == \A s \in Slots : s \notin free /\ rdma_status[s].ack_waiting => HasOwner(s)
NobodyWaits == kpc = "free" => ~rdma_status[kack.desc.slot].ack_waiting

AllOwn == \A u \in Threads : Owns(u)

LEMMA OwnerParts ==
  OwnerInv <=> Apart /\ AllOwn /\ Owned /\ NobodyWaits
  BY DEF OwnerInv, Apart, AllOwn, Owns, Owned, HasOwner, NobodyWaits, Mine

LEMMA OwnerPartsNext ==
  OwnerInv' <=> Apart' /\ AllOwn' /\ Owned' /\ NobodyWaits'
  BY OwnerParts, PTL

\* A thread other than the one that works on slot z.
LEMMA OwnsOther ==
  ASSUME TypeOK, NEW t \in Threads, Others(t), NEW u \in Threads \ {t}, Owns(u), NEW z,
         \A x \in Slots \ {z} : rdma_status'[x] = rdma_status[x],
         \A x \in Slots \ {z} : x \in free' => x \in free,
         tpc[u] \in Mine => tslot[u] # z
  PROVE  Owns(u)'
<1>1. tslot'[u] = tslot[u] /\ treq'[u] = treq[u] /\ (tpc'[u] \in Mine <=> tpc[u] \in Mine)
  BY OtherFacts
<1>2. CASE tpc[u] \in Mine
  <2>1. tslot[u] \in Slots \ {z}
    BY <1>2, ThreadTypes, PlaceSets
  <2>2. rdma_status'[tslot'[u]] = rdma_status[tslot[u]] /\ (tslot'[u] \in free' => tslot[u] \in free)
    BY <1>1, <2>1
  <2>3. QED
    BY <1>1, <2>2, OtherFacts DEF Owns, Received
<1>3. CASE tpc[u] \notin Mine
  BY <1>1, <1>3, PlaceSets DEF Owns
<1>4. QED
  BY <1>2, <1>3

\* A thread that owns nothing.
LEMMA OwnsNothing ==
  ASSUME NEW t \in Threads, tpc'[t] \notin Mine
  PROVE  Owns(t)'
  BY PlaceSets DEF Owns

\* The places of a slot that thread t does not work on.
LEMMA HeldOther ==
  ASSUME NEW t \in Threads, Others(t), NEW s \in Slots,
         tpc[t] \in Unsent \cup {"free"} => tslot[t] # s,
         tpc'[t] \in Unsent \cup {"free"} => tslot'[t] # s
  PROVE  Held(s)' <=> Held(s)
  BY OtherFacts DEF Held

LEMMA HasOwnerOther ==
  ASSUME NEW t \in Threads, Others(t), NEW s \in Slots, HasOwner(s),
         tpc[t] \in Mine /\ tslot[t] = s => tpc'[t] \in Mine /\ tslot'[t] = s
  PROVE  HasOwner(s)'
<1>1. PICK u \in Threads : tslot[u] = s /\ tpc[u] \in Mine
  BY DEF HasOwner
<1>2. tslot'[u] = s /\ tpc'[u] \in Mine
  BY <1>1, OtherFacts
<1>3. QED
  BY <1>2 DEF HasOwner

\* A new request.
LEMMA CallStep ==
  ASSUME IInv, NEW t \in Threads, Call(t)
  PROVE  IInv'
<1> USE DEF IInv
<1>1. TypeOK'
  BY CallTypeStep
<1>2. /\ tpc[t] = "idle" /\ tpc' = [tpc EXCEPT ![t] = "lock"]
      /\ treq' = [treq EXCEPT ![t] = nreq + 1] /\ nreq' = nreq + 1
      /\ UNCHANGED <<hwtx, flight, hwrx, kpc, kack, free, rdma_status, mutex, tslot, fate, errors>>
  BY DEF Call, Goto, nic, kthread, queue
<1>3. /\ tpc'[t] = "lock" /\ treq'[t] = nreq + 1 /\ Others(t)
      /\ \A u \in Threads \ {t} : tpc'[u] = tpc[u] /\ treq'[u] = treq[u]
  BY <1>2 DEF TypeOK, Others
<1>4. Once' /\ \A d : Out(d)' <=> Out(d)
  BY <1>2, OutStill DEF KPlaces
<1>5. /\ tpc[t] \notin Unsent \cup {"free"} /\ tpc'[t] \notin Unsent \cup {"free"}
      /\ tpc'[t] \notin Mine /\ tpc[t] \notin Mine
      /\ tpc'[t] \notin Locked /\ tpc[t] \notin Locked /\ tpc'[t] # "pop"
  BY <1>2, <1>3 DEF Unsent, Mine, Owning, Locked
<1>6. MutexInv'
  BY <1>2, <1>3, <1>5, MutexSame
<1>7. ASSUME NEW s \in Slots
      PROVE  /\ Held(s)' <=> Held(s)
             /\ Busy(s)' <=> Busy(s)
             /\ KHas(s)' <=> KHas(s)
             /\ Received(s)' <=> Received(s)
  <2>1. Held(s)' <=> Held(s)
    BY <1>3, <1>5, HeldOther
  <2>2. Busy(s)' <=> Busy(s)
    BY <1>4 DEF Busy
  <2>3. (KHas(s)' <=> KHas(s)) /\ (Received(s)' <=> Received(s))
    BY <1>2 DEF KHas, Received
  <2>4. QED
    BY <2>1, <2>2, <2>3
<1>8. PlaceInv' /\ Placed'
  BY <1>2, <1>7 DEF BookInv, PlaceInv, Placed
<1>9. OwnerInv'
  <2> USE OwnerParts, OwnerPartsNext DEF BookInv, AllOwn
  <2>1. Apart'
    BY <1>2, <1>3, <1>5, OtherFacts DEF Apart
  <2>2. ASSUME NEW u \in Threads PROVE Owns(u)'
    <3>1. CASE u = t
      BY <1>5, <3>1, OwnsNothing
    <3>2. CASE u # t
      BY <1>2, <1>3, <3>2 DEF Owns, Received
    <3>3. QED
      BY <3>1, <3>2
  <2>3. Owned'
    BY <1>2, <1>3, <1>5, HasOwnerOther DEF Owned
  <2>4. NobodyWaits'
    BY <1>2 DEF NobodyWaits
  <2>5. QED
    BY <2>1, <2>2, <2>3, <2>4
<1>10. nreq \in Nat /\ nreq + 1 \in Nat /\ nreq + 1 > nreq /\ nreq + 1 # None /\ nreq + 1 \in Reqs
  <2>1. treq'[t] # None /\ treq'[t] \in Reqs
    BY <1>1, <1>3, TypePartsNext DEF ThreadType
  <2>2. QED
    BY <1>3, <2>1, NreqType
<1>11. DescInv'
  <2>1. \A d \in Descs : d.req \in Nat
    BY NreqType DEF Descs
  <2>2. \A d \in Descs : Out(d) => d.req <= nreq + 1
    BY <1>10, <2>1 DEF BookInv, DescInv
  <2>3. QED
    BY <1>2, <1>4, <2>2 DEF BookInv, DescInv
<1>12. ReqInv'
  <2>1. \A u \in Threads : treq[u] # None => treq[u] \in Nat /\ treq[u] <= nreq /\ treq[u] # nreq + 1
    <3>1. \A u \in Threads : treq[u] # None => treq[u] \in Reqs
      BY DEF TypeOK
    <3>2. \A u \in Threads : treq[u] # None => treq[u] \in Nat /\ treq[u] <= nreq
      BY <3>1, NreqType DEF BookInv, ReqInv
    <3>3. QED
      BY <1>10, <3>2
  <2>2. \A u, v \in Threads : u # v /\ treq'[u] # None => treq'[u] # treq'[v]
    BY <1>3, <1>10, <2>1 DEF BookInv, ReqInv
  <2>3. \A u \in Threads : treq'[u] # None => treq'[u] <= nreq'
    BY <1>2, <1>3, <1>10, <2>1
  <2>4. fate[nreq + 1] = "none" /\ \A d \in Descs : Out(d) => d.req # nreq + 1
    <3>1. \A d \in Descs : d.req \in Nat
      BY NreqType DEF Descs
    <3>2. QED
      BY <1>10, <3>1 DEF BookInv, ReqInv, DescInv
  <2>5. ASSUME NEW u \in Threads, tpc'[u] \in Presend
        PROVE  fate'[treq'[u]] = "none" /\ \A d \in Descs : Out(d)' => d.req # treq'[u]
    BY <1>2, <1>3, <1>4, <2>4, <2>5 DEF BookInv, ReqInv
  <2>6. \A u \in Threads : tpc'[u] \in {"free", "notify"} => fate'[treq'[u]] # "none"
    BY <1>2, <1>3 DEF BookInv, ReqInv
  <2>7. \A s \in Slots : Received(s)' \/ KHas(s)' =>
          rdma_status'[s].req \in Reqs /\ fate'[rdma_status'[s].req] # "none"
    BY <1>2, <1>7 DEF BookInv, ReqInv
  <2>8. \A r \in Reqs : r > nreq' => fate'[r] = "none"
    <3>1. \A r \in Reqs : r > nreq + 1 => r > nreq
      BY NreqType
    <3>2. QED
      BY <1>2, <3>1 DEF BookInv, ReqInv
  <2>9. QED
    BY <2>2, <2>3, <2>5, <2>6, <2>7, <2>8 DEF ReqInv
<1>13. QED
  BY <1>1, <1>2, <1>4, <1>6, <1>8, <1>9, <1>11, <1>12 DEF BookInv

\* The test for space, the wait for it and the signal that ends it.
LEMMA AvailStep ==
  ASSUME IInv, NEW t \in Threads, TestAvail(t) \/ SignalAvail(t)
  PROVE  IInv'
<1>1. TypeOK'
  BY CallTypeStep DEF IInv
<1>2. UNCHANGED <<hwtx, flight, hwrx, kpc, kack, free, rdma_status, nreq, errors>>
  BY DEF TestAvail, SignalAvail, nic, kthread, queue
<1>3. tpc \in [Threads -> PCs] /\ tslot \in [Threads -> Slots \cup {None}]
        /\ treq \in [Threads -> Reqs \cup {None}]
  BY DEF IInv, TypeOK, PCs
<1>4. tpc[t] \in {"test", "sleep"}
  BY DEF TestAvail, SignalAvail
<1>5. \A u \in Threads \ {t} : tpc'[u] = tpc[u]
  BY <1>3 DEF TestAvail, SignalAvail, Refuse, Return, Goto
<1>6. CASE tpc[t] = "test"
  <2>1. TestAvail(t)
    BY <1>6 DEF SignalAvail
  <2>2. CASE axiomnet_rdma_tx_avail
    <3>1. tpc'[t] = "pop" /\ UNCHANGED <<mutex, tslot, treq, fate>> /\ free # {}
      BY <1>3, <2>1, <2>2 DEF TestAvail, Goto, axiomnet_rdma_tx_avail
    <3>2. Alike(t)
      BY <1>6, <3>1 DEF Alike, Trying
    <3>3. MutexInv'
      BY <1>2, <1>5, <1>6, <3>1 DEF IInv, MutexInv
    <3>4. QED
      BY <1>1, <1>2, <1>5, <3>1, <3>2, <3>3, ThreadQuiet
  <2>3. CASE ~axiomnet_rdma_tx_avail
    <3>1. mutex' = None /\ (Refuse(t) \/ (tpc'[t] = "event" /\ UNCHANGED <<tslot, treq, fate>>))
      BY <1>3, <2>1, <2>3 DEF TestAvail, Goto
    <3>2. tpc'[t] \in {"idle", "event"}
      BY <1>3, <3>1 DEF Refuse, Return, Goto
    <3>3. MutexInv'
      BY <1>2, <1>5, <1>6, <3>1, <3>2, MutexReleased DEF IInv, Locked
    <3>4. CASE Refuse(t)
      <4>1. /\ tpc'[t] = "idle" /\ tslot'[t] = None /\ treq'[t] = None /\ Others(t)
            /\ fate' = [fate EXCEPT ![treq[t]] = "refused"]
        BY <1>3, <3>4 DEF Refuse, Return, Goto, Others
      <4>2. Once' /\ BookInv'
        BY <1>1, <1>2, <1>6, <4>1, Gone DEF Trying
      <4>3. QED
        BY <1>1, <1>2, <3>3, <4>2 DEF IInv
    <3>5. CASE tpc'[t] = "event" /\ UNCHANGED <<tslot, treq, fate>>
      <4>1. Alike(t)
        BY <1>6, <3>5 DEF Alike, Trying
      <4>2. QED
        BY <1>1, <1>2, <1>5, <3>3, <3>5, <4>1, ThreadQuiet
    <3>6. QED
      BY <3>1, <3>4, <3>5
  <2>4. QED
    BY <2>2, <2>3
<1>7. CASE tpc[t] = "sleep"
  <2>1. SignalAvail(t) /\ mutex' = mutex
    BY <1>7 DEF TestAvail, SignalAvail
  <2>2. Refuse(t) \/ (tpc'[t] = "lock" /\ UNCHANGED <<tslot, treq, fate>>)
    BY <1>3, <2>1 DEF SignalAvail, Goto
  <2>3. tpc'[t] \in {"idle", "lock"}
    BY <1>3, <2>2 DEF Refuse, Return, Goto
  <2>4. MutexInv'
    BY <1>2, <1>5, <1>7, <2>1, <2>3, MutexSame DEF IInv, Locked
  <2>5. CASE Refuse(t)
    <3>1. /\ tpc'[t] = "idle" /\ tslot'[t] = None /\ treq'[t] = None /\ Others(t)
          /\ fate' = [fate EXCEPT ![treq[t]] = "refused"]
      BY <1>3, <2>5 DEF Refuse, Return, Goto, Others
    <3>2. Once' /\ BookInv'
      BY <1>1, <1>2, <1>7, <3>1, Gone DEF Trying
    <3>3. QED
      BY <1>1, <1>2, <2>4, <3>2 DEF IInv
  <2>6. CASE tpc'[t] = "lock" /\ UNCHANGED <<tslot, treq, fate>>
    <3>1. Alike(t)
      BY <1>7, <2>6 DEF Alike, Trying
    <3>2. QED
      BY <1>1, <1>2, <1>5, <2>4, <2>6, <3>1, ThreadQuiet
  <2>7. QED
    BY <2>2, <2>5, <2>6
<1>8. QED
  BY <1>4, <1>6, <1>7

\* A thread takes a free slot.
LEMMA PopStep ==
  ASSUME IInv, NEW t \in Threads, PopSlot(t)
  PROVE  IInv'
<1> USE DEF IInv
<1>1. TypeOK'
  BY CallTypeStep
<1>2. tpc[t] = "pop" /\ mutex = t /\ free # {}
  BY DEF PopSlot, MutexInv
<1>3. PICK z \in free : tslot' = [tslot EXCEPT ![t] = z] /\ free' = free \ {z}
  BY <1>2 DEF PopSlot, eviq_free_pop
<1>4. /\ mutex' = None /\ tpc' = [tpc EXCEPT ![t] = "setup"]
      /\ UNCHANGED <<hwtx, flight, hwrx, kpc, kack, rdma_status, treq, nreq, fate, errors>>
  BY <1>2 DEF PopSlot, Goto, nic, kthread
<1>5. z \in Slots
  BY <1>3 DEF TypeOK
<1>6. /\ tpc'[t] = "setup" /\ tslot'[t] = z /\ treq'[t] = treq[t] /\ Others(t)
      /\ \A u \in Threads \ {t} : tpc'[u] = tpc[u]
  BY <1>3, <1>4 DEF TypeOK, Others
<1>7. Once' /\ \A d : Out(d)' <=> Out(d)
  BY <1>4, OutStill DEF KPlaces
<1>8. /\ tpc[t] \notin Unsent \cup {"free"} /\ tpc'[t] \in Unsent \cup {"free"}
      /\ tpc[t] \notin Mine /\ tpc'[t] \in Mine /\ tpc'[t] \in Keeping
      /\ tpc[t] \in Locked /\ tpc'[t] \notin Locked
      /\ tpc[t] \in Presend /\ tpc'[t] \notin {"free", "notify", "sendlock", "send", "sent"}
      /\ tpc'[t] \notin Waiting /\ tpc'[t] # "acklock"
  BY <1>2, <1>6 DEF Unsent, Mine, Owning, Keeping, Locked, Presend, Waiting
<1>9. MutexInv'
  BY <1>4, <1>6, <1>8, MutexReleased
<1>10. ASSUME NEW s \in Slots
       PROVE  /\ Held(s)' <=> Held(s) \/ s = z
              /\ Busy(s)' <=> Busy(s)
              /\ KHas(s)' <=> KHas(s)
              /\ Received(s)' <=> Received(s)
  <2>1. s # z => (Held(s)' <=> Held(s))
    BY <1>6, <1>8, HeldOther
  <2>2. Held(z)'
    BY <1>6, <1>8 DEF Held
  <2>3. Busy(s)' <=> Busy(s)
    BY <1>7 DEF Busy
  <2>4. (KHas(s)' <=> KHas(s)) /\ (Received(s)' <=> Received(s))
    BY <1>4 DEF KHas, Received
  <2>5. QED
    BY <2>1, <2>2, <2>3, <2>4
<1>11. PlaceInv' /\ Placed'
  <2>1. ~Busy(z) /\ ~KHas(z) /\ ~Received(z)
    BY <1>3, <1>5 DEF BookInv, PlaceInv
  <2>2. PlaceInv'
    BY <1>3, <1>10, <2>1 DEF BookInv, PlaceInv
  <2>3. Placed'
    BY <1>3, <1>10 DEF BookInv, Placed
  <2>4. QED
    BY <2>2, <2>3
<1>12. \A u \in Threads : tpc[u] \in Mine => tslot[u] # z
  <2>1. SUFFICES ASSUME NEW u \in Threads, tpc[u] \in Mine, tslot[u] = z
                 PROVE  FALSE
    OBVIOUS
  <2>2. tpc[u] \notin Keeping
    BY <1>3, <2>1 DEF BookInv, OwnerInv
  <2>3. tpc[u] = "sent"
    BY <2>1, <2>2, PlaceSets
  <2>4. mutex = u
    BY <2>3 DEF MutexInv
  <2>5. QED
    BY <1>2, <2>3, <2>4
<1>13. OwnerInv'
  <2> USE OwnerParts, OwnerPartsNext DEF BookInv, AllOwn
  <2>1. Apart'
    BY <1>6, <1>12, OtherFacts DEF Apart
  <2>2. Owns(t)'
    BY <1>3, <1>6, <1>8 DEF Owns
  <2>3. ASSUME NEW u \in Threads \ {t} PROVE Owns(u)'
    BY <1>3, <1>4, <1>6, <1>12, OwnsOther
  <2>4. ASSUME NEW s \in Slots, s \notin free', rdma_status'[s].ack_waiting PROVE HasOwner(s)'
    <3>1. CASE s = z
      BY <3>1, <1>6, <1>8 DEF HasOwner
    <3>2. CASE s # z
      BY <3>2, <2>4, <1>3, <1>4, <1>6, <1>8, HasOwnerOther DEF Owned
    <3>3. QED
      BY <3>1, <3>2
  <2>5. Owned'
    BY <2>4 DEF Owned
  <2>6. NobodyWaits'
    BY <1>4 DEF NobodyWaits
  <2>7. QED
    BY <2>1, <2>2, <2>3, <2>5, <2>6
<1>14. DescInv'
  BY <1>4, <1>7 DEF BookInv, DescInv
<1>15. ReqInv'
  <2>1. \A u \in Threads : tpc'[u] \in Presend => tpc[u] \in Presend
    BY <1>6, <1>8
  <2>2. \A u \in Threads : tpc'[u] \in {"free", "notify"} => tpc[u] \in {"free", "notify"}
    BY <1>6, <1>8
  <2>3. QED
    BY <1>4, <1>7, <1>10, <2>1, <2>2 DEF BookInv, ReqInv
<1>16. QED
  BY <1>1, <1>4, <1>7, <1>9, <1>11, <1>13, <1>14, <1>15 DEF BookInv

\* The status of the slot is set up for the request.
LEMMA SetupStep ==
  ASSUME IInv, NEW t \in Threads, Setup(t)
  PROVE  IInv'
<1> USE DEF IInv
<1>1. TypeOK'
  BY CallTypeStep
<1>2. PICK z : z = tslot[t]
  OBVIOUS
<1>3. PICK b \in BOOLEAN, n \in Nodes :
        rdma_status' = [rdma_status EXCEPT ![z] =
              [@ EXCEPT !.ack_received = FALSE, !.retries = 0, !.dst = n,
                        !.ack_waiting = b, !.req = treq[t]]]
  BY <1>2 DEF Setup
<1>4. /\ tpc[t] = "setup" /\ tpc' = [tpc EXCEPT ![t] = "sendlock"]
      /\ UNCHANGED <<hwtx, flight, hwrx, kpc, kack, free, mutex, tslot, treq, nreq, fate, errors>>
  BY DEF Setup, Goto, nic, kthread, history
<1>5. z \in Slots /\ treq[t] \in Reqs
  BY <1>2, <1>4, ThreadTypes DEF Owning, Unsent
<1>6. tpc'[t] = "sendlock" /\ Others(t) /\ \A u \in Threads \ {t} : tpc'[u] = tpc[u]
  BY <1>4 DEF TypeOK, Others
<1>7. /\ \A x \in Slots \ {z} : rdma_status'[x] = rdma_status[x]
      /\ rdma_status'[z].ack_received = FALSE /\ rdma_status'[z].dst = n
      /\ rdma_status'[z].req = treq[t]
  <2>1. rdma_status \in [Slots -> Status] /\ rdma_status[z] \in Status
    BY <1>5 DEF TypeOK
  <2>2. /\ \A x \in Slots \ {z} : rdma_status'[x] = rdma_status[x]
        /\ rdma_status'[z] = [rdma_status[z] EXCEPT !.ack_received = FALSE, !.retries = 0,
                                !.dst = n, !.ack_waiting = b, !.req = treq[t]]
    BY <1>3, <1>5, <2>1
  <2>3. QED
    BY <2>1, <2>2 DEF Status
<1>8. Once' /\ \A d : Out(d)' <=> Out(d)
  BY <1>4, OutStill DEF KPlaces
<1>9. /\ tpc[t] \in Unsent /\ tpc'[t] \in Unsent /\ tpc[t] \in Mine /\ tpc'[t] \in Mine
      /\ tpc[t] \in Keeping /\ tpc[t] \notin Locked /\ tpc'[t] \notin Locked
      /\ tpc[t] \in Presend /\ tpc'[t] \notin {"free", "notify", "sent"} \cup Waiting
  BY <1>4, <1>6 DEF Unsent, Mine, Owning, Keeping, Locked, Presend, Waiting
<1>10. MutexInv'
  BY <1>4, <1>6, <1>9, MutexSame
<1>11. Held(z) /\ Held(z)' /\ ~Busy(z) /\ ~KHas(z) /\ ~Received(z) /\ z \notin free
  <2>1. Held(z) /\ Held(z)'
    BY <1>2, <1>4, <1>9 DEF Held
  <2>2. z \notin free
    BY <1>2, <1>9 DEF BookInv, OwnerInv
  <2>3. QED
    BY <1>5, <2>1, <2>2 DEF BookInv, PlaceInv
<1>12. ASSUME NEW s \in Slots
       PROVE  /\ Held(s)' <=> Held(s)
              /\ Busy(s)' <=> Busy(s)
              /\ KHas(s)' <=> KHas(s)
              /\ Received(s)' <=> Received(s)
  <2>1. Held(s)' <=> Held(s)
    BY <1>2, <1>4, <1>6, <1>11, HeldOther
  <2>2. Busy(s)' <=> Busy(s)
    BY <1>8 DEF Busy
  <2>3. KHas(s)' <=> KHas(s)
    BY <1>4 DEF KHas
  <2>4. Received(s)' <=> Received(s)
    BY <1>7, <1>11 DEF Received
  <2>5. QED
    BY <2>1, <2>2, <2>3, <2>4
<1>13. PlaceInv' /\ Placed'
  BY <1>4, <1>12 DEF BookInv, PlaceInv, Placed
<1>14. OwnerInv'
  <2> USE OwnerParts, OwnerPartsNext DEF BookInv, AllOwn
  <2>1. \A u \in Threads \ {t} : tpc[u] \in Mine => tslot[u] # z
    BY <1>2, <1>9 DEF Apart
  <2>2. Apart'
    BY <1>4, <1>6, <1>9 DEF Apart
  <2>3. Owns(t)'
    BY <1>2, <1>4, <1>6, <1>7, <1>9, <1>11 DEF Owns
  <2>4. ASSUME NEW u \in Threads \ {t} PROVE Owns(u)'
    BY <1>4, <1>6, <1>7, <2>1, OwnsOther
  <2>5. ASSUME NEW s \in Slots, s \notin free', rdma_status'[s].ack_waiting PROVE HasOwner(s)'
    <3>1. CASE s = z
      BY <3>1, <1>2, <1>4, <1>9 DEF HasOwner
    <3>2. CASE s # z
      <4>1. HasOwner(s)
        BY <3>2, <2>5, <1>4, <1>7 DEF Owned
      <4>2. QED
        BY <4>1, <1>4, <1>6, <1>9, HasOwnerOther
    <3>3. QED
      BY <3>1, <3>2
  <2>6. Owned'
    BY <2>5 DEF Owned
  <2>7. NobodyWaits'
    <3>1. kpc = "free" => kack.desc.slot \in Slots \ {z}
      BY <1>11, KackTypes DEF KHas
    <3>2. QED
      BY <1>4, <1>7, <3>1 DEF NobodyWaits
  <2>8. QED
    BY <2>2, <2>3, <2>4, <2>6, <2>7
<1>15. DescInv'
  <2>1. \A d \in Descs : Out(d) => d.slot \in Slots \ {z}
    BY <1>11 DEF Busy, Descs
  <2>2. QED
    BY <1>4, <1>7, <1>8, <2>1 DEF BookInv, DescInv
<1>16. ReqInv'
  <2>1. \A u \in Threads : tpc'[u] \in Presend => tpc[u] \in Presend
    BY <1>6, <1>9
  <2>2. \A u \in Threads : tpc'[u] \in {"free", "notify"} => tpc[u] \in {"free", "notify"}
    BY <1>6, <1>9
  <2>3. \A s \in Slots : Received(s)' \/ KHas(s)' =>
          rdma_status'[s].req \in Reqs /\ fate'[rdma_status'[s].req] # "none"
    BY <1>4, <1>7, <1>11, <1>12 DEF BookInv, ReqInv
  <2>4. QED
    BY <1>4, <1>8, <2>1, <2>2, <2>3 DEF BookInv, ReqInv
<1>17. QED
  BY <1>1, <1>4, <1>8, <1>10, <1>13, <1>14, <1>15, <1>16 DEF BookInv

\* What a thread at "send" gives to the NIC.
LEMMA SendFacts ==
  ASSUME IInv, NEW t \in Threads, Send(t)
  PROVE  \E x \in Descs :
           /\ x.slot = tslot[t] /\ x.req = treq[t] /\ x.node = rdma_status[tslot[t]].dst
           /\ hwtx' = Append(hwtx, x) /\ Len(hwtx) < HwLen
           /\ Once' /\ \A d : Out(d)' <=> Out(d) \/ d = x
           /\ \A d : Out(d) => d.slot # x.slot
<1> USE DEF IInv
<1>1. /\ tpc[t] = "send"
      /\ UNCHANGED <<flight, hwrx, kpc, kack>>
  BY DEF Send, kthread
<1>2. tslot[t] \in Slots /\ treq[t] \in Reqs /\ rdma_status[tslot[t]].dst \in Nodes
  BY <1>1, ThreadTypes DEF BookInv, OwnerInv, Owning, Unsent
<1>3. PICK x : x = [slot |-> tslot[t], node |-> rdma_status[tslot[t]].dst, req |-> treq[t]]
  OBVIOUS
<1>4. /\ x \in Descs /\ x.slot = tslot[t] /\ x.req = treq[t]
      /\ x.node = rdma_status[tslot[t]].dst
  BY <1>2, <1>3 DEF Descs
<1>5. hwtx' = Append(hwtx, x) /\ Len(hwtx) < HwLen
  BY <1>3 DEF Send, axiom_hw_rdma_tx
<1>6. ~Busy(x.slot)
  <2>1. Held(x.slot)
    BY <1>1, <1>4 DEF Held, Unsent
  <2>2. QED
    BY <1>2, <1>4, <2>1 DEF BookInv, PlaceInv
<1>7. ASSUME NEW d, Out(d) PROVE d.slot # x.slot
  BY <1>6, <1>7, OutDescs DEF Busy
<1>8. /\ \A i \in 1 .. Len(hwtx) : hwtx[i].slot # x.slot
      /\ \A d \in flight : d.slot # x.slot
      /\ \A j \in 1 .. Len(hwrx) : hwrx[j].desc.slot # x.slot
      /\ kpc \in KPlaces => kack.desc.slot # x.slot
  BY <1>7 DEF Out, InTx, InRx, InK, KPlaces
<1>9. /\ Once' /\ \A d : InTx(d)' <=> InTx(d) \/ d = x
      /\ \A d : InRx(d)' <=> InRx(d)
  BY <1>1, <1>4, <1>5, <1>8, AppendOut, FifoTypes
<1>10. ASSUME NEW d PROVE Out(d)' <=> Out(d) \/ d = x
  <2>1. InK(d)' <=> InK(d)
    BY <1>1 DEF InK
  <2>2. QED
    BY <1>1, <1>9, <2>1 DEF Out
<1>11. QED
  BY <1>4, <1>5, <1>7, <1>9, <1>10

LEMMA SendStep ==
  ASSUME IInv, NEW t \in Threads, Send(t)
  PROVE  IInv'
<1> USE DEF IInv
<1>1. /\ tpc[t] = "send" /\ tpc' = [tpc EXCEPT ![t] = "sent"]
      /\ UNCHANGED <<flight, hwrx, pending, irq, sched, kpc, kack, free, rdma_status, mutex, tslot,
                     treq, token, nreq, fate, resent, errors>>
  BY DEF Send, Goto, kthread, queue, history
<1>2. PICK x \in Descs :
        /\ x.slot = tslot[t] /\ x.req = treq[t] /\ x.node = rdma_status[tslot[t]].dst
        /\ hwtx' = Append(hwtx, x) /\ Len(hwtx) < HwLen
        /\ Once' /\ \A d : Out(d)' <=> Out(d) \/ d = x
        /\ \A d : Out(d) => d.slot # x.slot
  BY SendFacts
<1>3. x.slot \in Slots /\ treq[t] \in Reqs
  BY <1>2 DEF Descs
<1>4. TypeOK'
  <2> USE TypeParts, TypePartsNext
  <2>1. hwtx' \in Seq(Descs) /\ Len(hwtx') = Len(hwtx) + 1 /\ Len(hwtx) \in Nat
    BY <1>2, FifoTypes, AppendFacts
  <2>2. NicType'
    BY <1>1, <1>2, <2>1 DEF NicType
  <2>3. ThreadType'
    BY <1>1, MoveType DEF ThreadType, Owning, Unsent, PCs
  <2>4. QED
    BY <1>1, <2>2, <2>3 DEF KthreadType, QueueType, HistoryType
<1>5. tpc'[t] = "sent" /\ Others(t) /\ \A u \in Threads \ {t} : tpc'[u] = tpc[u]
  BY <1>1 DEF TypeOK, Others
<1>6. /\ tpc[t] \in Unsent /\ tpc'[t] \notin Unsent \cup {"free"}
      /\ tpc[t] \in Mine /\ tpc'[t] \in Mine /\ tpc[t] \in Keeping /\ tpc'[t] \notin Keeping
      /\ tpc[t] \in Locked /\ tpc'[t] \in Locked
      /\ tpc[t] \in Presend /\ tpc'[t] \notin {"free", "notify", "sendlock", "send"} \cup Waiting
      /\ tpc'[t] \notin Presend
  BY <1>1, <1>5 DEF Unsent, Mine, Owning, Keeping, Locked, Presend, Waiting
<1>7. MutexInv'
  BY <1>1, <1>5, <1>6, MutexSame
<1>8. x.slot \notin free /\ ~KHas(x.slot) /\ ~Received(x.slot)
  <2>1. Held(x.slot)
    BY <1>2, <1>6 DEF Held
  <2>2. x.slot \notin free
    BY <1>2, <1>6 DEF BookInv, OwnerInv
  <2>3. QED
    BY <1>3, <2>1, <2>2 DEF BookInv, PlaceInv
<1>9. \A u \in Threads \ {t} : tpc[u] \in Mine => tslot[u] # x.slot
  BY <1>2, <1>6, OwnerParts DEF BookInv, Apart
<1>10. ASSUME NEW s \in Slots
       PROVE  /\ Held(s)' <=> Held(s) /\ s # x.slot
              /\ Busy(s)' <=> Busy(s) \/ s = x.slot
              /\ KHas(s)' <=> KHas(s)
              /\ Received(s)' <=> Received(s)
  <2>1. s # x.slot => (Held(s)' <=> Held(s))
    BY <1>1, <1>2, <1>5, HeldOther
  <2>2. ~Held(x.slot)'
    BY <1>1, <1>5, <1>6, <1>9, PlaceSets DEF Held
  <2>3. Busy(s)' <=> Busy(s) \/ s = x.slot
    BY <1>2 DEF Busy
  <2>4. (KHas(s)' <=> KHas(s)) /\ (Received(s)' <=> Received(s))
    BY <1>1 DEF KHas, Received
  <2>5. QED
    BY <2>1, <2>2, <2>3, <2>4
<1>11. PlaceInv'
  BY <1>1, <1>8, <1>10 DEF BookInv, PlaceInv
<1>12. Placed'
  BY <1>1, <1>10 DEF BookInv, Placed
<1>13. OwnerInv'
  <2> USE OwnerParts, OwnerPartsNext DEF BookInv, AllOwn
  <2>1. Apart'
    BY <1>1, <1>5, <1>6 DEF Apart
  <2>2. Owns(t)'
    <3>1. rdma_status[tslot[t]].req = treq[t]
      BY <1>1 DEF Owns
    <3>2. QED
      BY <1>1, <1>2, <1>5, <1>6, <1>8, <3>1 DEF Owns
  <2>3. ASSUME NEW u \in Threads \ {t} PROVE Owns(u)'
    BY <1>1, <1>5, <1>9, OwnsOther
  <2>4. Owned'
    BY <1>1, <1>5, <1>6, HasOwnerOther DEF Owned
  <2>5. NobodyWaits'
    BY <1>1 DEF NobodyWaits
  <2>6. QED
    BY <2>1, <2>2, <2>3, <2>4, <2>5
<1>14. fate[x.req] = "none" /\ x.req <= nreq /\ \A d \in Descs : Out(d) => d.req # x.req
  <2>1. treq[t] # None
    BY <1>3
  <2>2. QED
    BY <1>2, <1>6, <2>1 DEF BookInv, ReqInv
<1>15. DescInv'
  <2>1. rdma_status[x.slot].req = x.req /\ rdma_status[x.slot].dst = x.node
    BY <1>1, <1>2 DEF BookInv, OwnerInv
  <2>2. QED
    BY <1>1, <1>2, <1>14, <2>1 DEF BookInv, DescInv
<1>16. ReqInv'
  <2>1. ASSUME NEW u \in Threads, tpc'[u] \in Presend
        PROVE  fate'[treq'[u]] = "none" /\ \A d \in Descs : Out(d)' => d.req # treq'[u]
    <3>1. u # t /\ tpc[u] \in Presend
      BY <1>5, <1>6, <2>1
    <3>2. treq[u] # x.req
      BY <1>2, <1>3, <3>1 DEF BookInv, ReqInv
    <3>3. QED
      BY <1>1, <1>2, <3>1, <3>2 DEF BookInv, ReqInv
  <2>2. \A u \in Threads : tpc'[u] \in {"free", "notify"} => tpc[u] \in {"free", "notify"}
    BY <1>5, <1>6
  <2>3. \A s \in Slots : Received(s)' \/ KHas(s)' =>
          rdma_status'[s].req \in Reqs /\ fate'[rdma_status'[s].req] # "none"
    BY <1>1, <1>10 DEF BookInv, ReqInv
  <2>4. QED
    BY <1>1, <2>1, <2>2, <2>3 DEF BookInv, ReqInv
<1>17. QED
  BY <1>1, <1>2, <1>4, <1>7, <1>11, <1>12, <1>13, <1>15, <1>16 DEF BookInv

\* A sender that has its answer resets the status.
LEMMA TestAckStep ==
  ASSUME IInv, NEW t \in Threads, TestAck(t)
  PROVE  IInv'
<1> USE DEF IInv
<1>1. TypeOK'
  BY AnswerTypeStep
<1>2. PICK z : z = tslot[t]
  OBVIOUS
<1>3. /\ tpc[t] = "sent" /\ mutex' = None
      /\ UNCHANGED <<hwtx, flight, hwrx, kpc, kack, free, nreq, fate, errors>>
  BY DEF TestAck, nic, kthread, history
<1>4. z \in Slots /\ treq[t] \in Reqs
  BY <1>2, <1>3, ThreadTypes DEF Owning, Unsent
<1>5. tpc \in [Threads -> PCs] /\ tslot \in [Threads -> Slots \cup {None}]
        /\ treq \in [Threads -> Reqs \cup {None}]
  BY DEF TypeOK, PCs
<1>6. /\ Others(t) /\ tpc'[t] \in {"idle", "free", "ackevent"}
      /\ \A u \in Threads \ {t} : tpc'[u] = tpc[u]
  BY <1>5 DEF TestAck, Return, Goto, Others
<1>7. MutexInv'
  BY <1>3, <1>6, MutexReleased DEF Locked
<1>8. CASE ~rdma_status[z].ack_waiting
  <2>1. tpc'[t] = "idle" /\ tslot'[t] = None /\ treq'[t] = None /\ UNCHANGED rdma_status
    BY <1>2, <1>5, <1>8 DEF TestAck, Return, Goto
  <2>2. Once' /\ BookInv'
    BY <1>1, <1>2, <1>3, <1>6, <1>8, <2>1, Gone
  <2>3. QED
    BY <1>1, <1>3, <1>7, <2>2
<1>9. CASE rdma_status[z].ack_waiting /\ ~rdma_status[z].ack_received
  <2>1. tpc'[t] = "ackevent" /\ UNCHANGED <<rdma_status, tslot, treq>>
    BY <1>2, <1>5, <1>9 DEF TestAck, Goto
  <2>2. Alike(t)
    BY <1>2, <1>3, <1>9, <2>1 DEF Alike
  <2>3. QED
    BY <1>1, <1>3, <1>6, <1>7, <2>1, <2>2, ThreadQuiet
<1>10. CASE rdma_status[z].ack_waiting /\ rdma_status[z].ack_received
  <2>1. /\ tpc'[t] = "free" /\ UNCHANGED <<tslot, treq>>
        /\ rdma_status' = [rdma_status EXCEPT ![z].ack_received = FALSE, ![z].dst = NullNode]
    BY <1>2, <1>5, <1>10 DEF TestAck, Goto
  <2>2. /\ \A x \in Slots \ {z} : rdma_status'[x] = rdma_status[x]
        /\ rdma_status'[z].ack_received = FALSE
        /\ rdma_status'[z].ack_waiting = rdma_status[z].ack_waiting
    BY <1>4, <2>1, StatusAfter
  <2>3. Once' /\ \A d : Out(d)' <=> Out(d)
    BY <1>3, OutStill DEF KPlaces
  <2>4. /\ tpc[t] \notin Unsent \cup {"free"} /\ tpc'[t] \in Unsent \cup {"free"}
        /\ tpc[t] \in Mine /\ tpc'[t] \in Mine /\ tpc'[t] \notin Presend
        /\ tpc'[t] \notin {"sendlock", "send", "sent"} \cup Waiting
    BY <1>3, <2>1 DEF Unsent, Mine, Owning, Presend, Waiting
  <2>5. Received(z) /\ z \notin free /\ ~Busy(z) /\ ~KHas(z)
    <3>1. Received(z)
      BY <1>10 DEF Received
    <3>2. QED
      BY <1>4, <3>1 DEF BookInv, PlaceInv
  <2>6. ASSUME NEW s \in Slots
        PROVE  /\ Held(s)' <=> Held(s) \/ s = z
               /\ Busy(s)' <=> Busy(s)
               /\ KHas(s)' <=> KHas(s)
               /\ Received(s)' <=> Received(s) /\ s # z
    <3>1. s # z => (Held(s)' <=> Held(s))
      BY <1>2, <1>6, <2>1, HeldOther
    <3>2. Held(z)'
      BY <1>2, <2>1, <2>4 DEF Held
    <3>3. Busy(s)' <=> Busy(s)
      BY <2>3 DEF Busy
    <3>4. KHas(s)' <=> KHas(s)
      BY <1>3 DEF KHas
    <3>5. Received(s)' <=> Received(s) /\ s # z
      BY <2>2 DEF Received
    <3>6. QED
      BY <3>1, <3>2, <3>3, <3>4, <3>5
  <2>7. PlaceInv'
    BY <1>3, <2>5, <2>6 DEF BookInv, PlaceInv
  <2>8. Placed'
    BY <1>3, <2>6 DEF BookInv, Placed
  <2>9. OwnerInv'
    <3> USE OwnerParts, OwnerPartsNext DEF BookInv, AllOwn
    <3>1. \A u \in Threads \ {t} : tpc[u] \in Mine => tslot[u] # z
      BY <1>2, <2>4 DEF Apart
    <3>2. Apart'
      BY <1>6, <2>1, <2>4 DEF Apart
    <3>3. Owns(t)'
      BY <1>2, <1>3, <2>1, <2>4, <2>5 DEF Owns
    <3>4. ASSUME NEW u \in Threads \ {t} PROVE Owns(u)'
      BY <1>3, <1>6, <2>2, <3>1, OwnsOther
    <3>5. \A s \in Slots : rdma_status'[s].ack_waiting = rdma_status[s].ack_waiting
      BY <2>2
    <3>6. Owned'
      BY <1>3, <1>6, <2>1, <2>4, <3>5, HasOwnerOther DEF Owned
    <3>7. NobodyWaits'
      <4>1. kpc = "free" => kack.desc.slot \in Slots
        BY KackTypes
      <4>2. QED
        BY <1>3, <3>5, <4>1 DEF NobodyWaits
    <3>8. QED
      BY <3>2, <3>3, <3>4, <3>6, <3>7
  <2>10. DescInv'
    <3>1. \A d \in Descs : Out(d) => d.slot \in Slots \ {z}
      BY <2>5 DEF Busy, Descs
    <3>2. QED
      BY <1>3, <2>2, <2>3, <3>1 DEF BookInv, DescInv
  <2>11. ReqInv'
    <3>1. \A u \in Threads : tpc'[u] \in Presend => tpc[u] \in Presend
      BY <1>6, <2>4
    <3>2. fate[treq[t]] # "none"
      BY <1>2, <1>3, <1>4, <2>5 DEF BookInv, ReqInv, OwnerInv
    <3>3. \A u \in Threads : tpc'[u] \in {"free", "notify"} => fate'[treq'[u]] # "none"
      BY <1>3, <1>6, <2>1, <3>2 DEF BookInv, ReqInv
    <3>4. \A s \in Slots : Received(s)' \/ KHas(s)' =>
            rdma_status'[s].req \in Reqs /\ fate'[rdma_status'[s].req] # "none"
      BY <1>3, <2>2, <2>5, <2>6 DEF BookInv, ReqInv
    <3>5. QED
      BY <1>3, <2>1, <2>3, <3>1, <3>3, <3>4 DEF BookInv, ReqInv
  <2>12. QED
    BY <1>1, <1>3, <1>7, <2>3, <2>7, <2>8, <2>9, <2>10, <2>11 DEF BookInv
<1>11. QED
  BY <1>8, <1>9, <1>10

\* An interrupted sender leaves its slot to the kthread.
LEMMA LeaveStep ==
  ASSUME IInv, NEW t \in Threads, LeaveToKthread(t)
  PROVE  IInv'
<1> USE DEF IInv
<1>1. TypeOK'
  BY AnswerTypeStep
<1>2. PICK z : z = tslot[t]
  OBVIOUS
<1>3. /\ tpc[t] = "leave" /\ rdma_status' = [rdma_status EXCEPT ![z].ack_waiting = FALSE]
      /\ UNCHANGED <<hwtx, flight, hwrx, kpc, kack, free, mutex, nreq, fate, errors>>
  BY <1>2 DEF LeaveToKthread, nic, kthread, history
<1>4. z \in Slots
  BY <1>2, <1>3, ThreadTypes DEF Owning, Unsent
<1>5. tpc \in [Threads -> PCs] /\ tslot \in [Threads -> Slots \cup {None}]
        /\ treq \in [Threads -> Reqs \cup {None}]
  BY DEF TypeOK, PCs
<1>6. /\ Others(t) /\ tpc'[t] = "idle" /\ tslot'[t] = None /\ treq'[t] = None
      /\ \A u \in Threads \ {t} : tpc'[u] = tpc[u]
  BY <1>5 DEF LeaveToKthread, Return, Goto, Others
<1>7. /\ \A x \in Slots \ {z} : rdma_status'[x] = rdma_status[x]
      /\ rdma_status'[z].ack_received = rdma_status[z].ack_received
      /\ rdma_status'[z].ack_waiting = FALSE
      /\ rdma_status'[z].dst = rdma_status[z].dst
      /\ rdma_status'[z].req = rdma_status[z].req
  BY <1>3, <1>4, StatusAfter
<1>8. Once' /\ \A d : Out(d)' <=> Out(d)
  BY <1>3, OutStill DEF KPlaces
<1>9. /\ tpc[t] \notin Unsent \cup {"free"} /\ tpc'[t] \notin Unsent \cup {"free"}
      /\ tpc[t] \in Mine /\ tpc'[t] \notin Mine /\ tpc'[t] \notin Presend
      /\ tpc[t] \notin Locked /\ tpc'[t] \notin Locked
  BY <1>3, <1>6 DEF Unsent, Mine, Owning, Presend, Locked
<1>10. MutexInv'
  BY <1>3, <1>6, <1>9, MutexSame
<1>11. \A s \in Slots : /\ rdma_status'[s].ack_received = rdma_status[s].ack_received
                        /\ rdma_status'[s].dst = rdma_status[s].dst
                        /\ rdma_status'[s].req = rdma_status[s].req
  BY <1>7
<1>12. ASSUME NEW s \in Slots
       PROVE  /\ Held(s)' <=> Held(s)
              /\ Busy(s)' <=> Busy(s)
              /\ KHas(s)' <=> KHas(s)
              /\ Received(s)' <=> Received(s)
  <2>1. Held(s)' <=> Held(s)
    BY <1>6, <1>9, HeldOther
  <2>2. Busy(s)' <=> Busy(s)
    BY <1>8 DEF Busy
  <2>3. (KHas(s)' <=> KHas(s)) /\ (Received(s)' <=> Received(s))
    BY <1>3, <1>11 DEF KHas, Received
  <2>4. QED
    BY <2>1, <2>2, <2>3
<1>13. PlaceInv' /\ Placed'
  BY <1>3, <1>12 DEF BookInv, PlaceInv, Placed
<1>14. OwnerInv'
  <2> USE OwnerParts, OwnerPartsNext DEF BookInv, AllOwn
  <2>1. \A u \in Threads \ {t} : tpc[u] \in Mine => tslot[u] # z
    BY <1>2, <1>9 DEF Apart
  <2>2. Apart'
    BY <1>6, <1>9, OtherFacts DEF Apart
  <2>3. Owns(t)'
    BY <1>9, OwnsNothing
  <2>4. ASSUME NEW u \in Threads \ {t} PROVE Owns(u)'
    BY <1>3, <1>6, <1>7, <2>1, OwnsOther
  <2>5. ASSUME NEW s \in Slots, s \notin free', rdma_status'[s].ack_waiting PROVE HasOwner(s)'
    <3>1. s # z
      BY <1>7, <2>5
    <3>2. HasOwner(s)
      BY <1>3, <1>7, <2>5, <3>1 DEF Owned
    <3>3. QED
      BY <1>2, <1>6, <3>1, <3>2, HasOwnerOther
  <2>6. Owned'
    BY <2>5 DEF Owned
  <2>7. NobodyWaits'
    <3>1. kpc = "free" => kack.desc.slot \in Slots
      BY KackTypes
    <3>2. QED
      BY <1>3, <1>7, <3>1 DEF NobodyWaits
  <2>8. QED
    BY <2>2, <2>3, <2>4, <2>6, <2>7
<1>15. DescInv'
  <2>1. \A d \in Descs : d.slot \in Slots
    BY DEF Descs
  <2>2. QED
    BY <1>3, <1>8, <1>11, <2>1 DEF BookInv, DescInv
<1>16. ReqInv'
  <2>1. \A u \in Threads : /\ tpc'[u] \in Presend => u # t /\ tpc[u] \in Presend
                           /\ tpc'[u] \in {"free", "notify"} => u # t /\ tpc[u] \in {"free", "notify"}
    BY <1>6, <1>9
  <2>2. \A u \in Threads \ {t} : treq'[u] = treq[u]
    BY <1>6, OtherFacts
  <2>3. \A u, v \in Threads : u # v /\ treq'[u] # None => treq'[u] # treq'[v]
    BY <1>6, <2>2 DEF BookInv, ReqInv
  <2>4. \A s \in Slots : Received(s)' \/ KHas(s)' =>
          rdma_status'[s].req \in Reqs /\ fate'[rdma_status'[s].req] # "none"
    BY <1>3, <1>11, <1>12 DEF BookInv, ReqInv
  <2>5. QED
    BY <1>3, <1>6, <1>8, <2>1, <2>2, <2>3, <2>4 DEF BookInv, ReqInv
<1>17. QED
  BY <1>1, <1>3, <1>8, <1>10, <1>13, <1>14, <1>15, <1>16 DEF BookInv

\* A sender that has its answer frees the slot.
LEMMA FreeSlotStep ==
  ASSUME IInv, NEW t \in Threads, FreeSlot(t)
  PROVE  IInv'
<1> USE DEF IInv
<1>1. TypeOK'
  BY AnswerTypeStep
<1>2. PICK z : z = tslot[t]
  OBVIOUS
<1>3. /\ tpc[t] = "free" /\ free' = free \cup {z}
      /\ UNCHANGED <<hwtx, flight, hwrx, kpc, kack, rdma_status, mutex, nreq, fate, errors>>
  BY <1>2 DEF FreeSlot, eviq_free_push, nic, kthread, history
<1>4. z \in Slots /\ treq[t] \in Reqs
  BY <1>2, <1>3, ThreadTypes DEF Owning, Unsent
<1>5. tpc \in [Threads -> PCs] /\ tslot \in [Threads -> Slots \cup {None}]
        /\ treq \in [Threads -> Reqs \cup {None}]
  BY DEF TypeOK, PCs
<1>6. /\ Others(t) /\ tpc'[t] \in {"idle", "notify"}
      /\ treq'[t] = None \/ treq'[t] = treq[t]
      /\ tpc'[t] = "notify" => treq'[t] = treq[t]
      /\ \A u \in Threads \ {t} : tpc'[u] = tpc[u]
  BY <1>5 DEF FreeSlot, Return, Goto, Others
<1>7. Once' /\ \A d : Out(d)' <=> Out(d)
  BY <1>3, OutStill DEF KPlaces
<1>8. /\ tpc[t] \in Unsent \cup {"free"} /\ tpc'[t] \notin Unsent \cup {"free"}
      /\ tpc[t] \in Mine /\ tpc'[t] \notin Mine /\ tpc'[t] \notin Presend
      /\ tpc[t] \notin Locked /\ tpc'[t] \notin Locked /\ tpc'[t] # "pop"
  BY <1>3, <1>6 DEF Unsent, Mine, Owning, Presend, Locked
<1>9. MutexInv'
  BY <1>3, <1>6, <1>8, MutexSame
<1>10. \A u \in Threads \ {t} : tpc[u] \in Mine => tslot[u] # z
  BY <1>2, <1>8, OwnerParts DEF BookInv, Apart
<1>11. Held(z) /\ ~Busy(z) /\ ~KHas(z) /\ ~Received(z)
  <2>1. Held(z)
    BY <1>2, <1>8 DEF Held
  <2>2. QED
    BY <1>4, <2>1 DEF BookInv, PlaceInv
<1>12. ASSUME NEW s \in Slots
       PROVE  /\ Held(s)' <=> Held(s) /\ s # z
              /\ Busy(s)' <=> Busy(s)
              /\ KHas(s)' <=> KHas(s)
              /\ Received(s)' <=> Received(s)
  <2>1. s # z => (Held(s)' <=> Held(s))
    BY <1>2, <1>6, <1>8, HeldOther
  <2>2. ~Held(z)'
    BY <1>6, <1>8, <1>10, OtherFacts, PlaceSets DEF Held
  <2>3. Busy(s)' <=> Busy(s)
    BY <1>7 DEF Busy
  <2>4. (KHas(s)' <=> KHas(s)) /\ (Received(s)' <=> Received(s))
    BY <1>3 DEF KHas, Received
  <2>5. QED
    BY <2>1, <2>2, <2>3, <2>4
<1>13. PlaceInv'
  BY <1>3, <1>11, <1>12 DEF BookInv, PlaceInv
<1>14. Placed'
  BY <1>3, <1>12 DEF BookInv, Placed
<1>15. OwnerInv'
  <2> USE OwnerParts, OwnerPartsNext DEF BookInv, AllOwn
  <2>1. Apart'
    BY <1>6, <1>8, OtherFacts DEF Apart
  <2>2. Owns(t)'
    BY <1>8, OwnsNothing
  <2>3. ASSUME NEW u \in Threads \ {t} PROVE Owns(u)'
    BY <1>3, <1>6, <1>10, OwnsOther
  <2>4. ASSUME NEW s \in Slots, s \notin free', rdma_status'[s].ack_waiting PROVE HasOwner(s)'
    <3>1. s # z /\ s \notin free
      BY <1>3, <2>4
    <3>2. HasOwner(s)
      BY <1>3, <2>4, <3>1 DEF Owned
    <3>3. QED
      BY <1>2, <1>6, <3>1, <3>2, HasOwnerOther
  <2>5. Owned'
    BY <2>4 DEF Owned
  <2>6. NobodyWaits'
    BY <1>3 DEF NobodyWaits
  <2>7. QED
    BY <2>1, <2>2, <2>3, <2>5, <2>6
<1>16. DescInv'
  BY <1>3, <1>7 DEF BookInv, DescInv
<1>17. ReqInv'
  <2>1. \A u \in Threads \ {t} : treq'[u] = treq[u]
    BY <1>6, OtherFacts
  <2>2. \A u, v \in Threads : u # v /\ treq'[u] # None => treq'[u] # treq'[v]
    BY <1>4, <1>6, <2>1 DEF BookInv, ReqInv
  <2>3. \A u \in Threads : treq'[u] # None => treq'[u] <= nreq'
    BY <1>3, <1>4, <1>6, <2>1 DEF BookInv, ReqInv
  <2>4. \A u \in Threads : tpc'[u] \in Presend =>
          fate'[treq'[u]] = "none" /\ \A d \in Descs : Out(d)' => d.req # treq'[u]
    BY <1>3, <1>6, <1>7, <1>8, <2>1 DEF BookInv, ReqInv
  <2>5. \A u \in Threads : tpc'[u] \in {"free", "notify"} => fate'[treq'[u]] # "none"
    BY <1>3, <1>6, <2>1 DEF BookInv, ReqInv
  <2>6. \A s \in Slots : Received(s)' \/ KHas(s)' =>
          rdma_status'[s].req \in Reqs /\ fate'[rdma_status'[s].req] # "none"
    BY <1>3, <1>12 DEF BookInv, ReqInv
  <2>7. QED
    BY <1>3, <2>2, <2>3, <2>4, <2>5, <2>6 DEF BookInv, ReqInv
<1>18. QED
  BY <1>1, <1>3, <1>7, <1>9, <1>13, <1>14, <1>15, <1>16, <1>17 DEF BookInv

LEMMA NotifyStep ==
  ASSUME IInv, NEW t \in Threads, Notify(t)
  PROVE  IInv'
<1> USE DEF IInv
<1>1. TypeOK'
  BY AnswerTypeStep
<1>2. /\ tpc[t] = "notify"
      /\ UNCHANGED <<hwtx, flight, hwrx, kpc, kack, free, rdma_status, mutex, nreq, fate, errors>>
  BY DEF Notify, nic, kthread, queue, history
<1>3. tpc'[t] = "idle" /\ tslot'[t] = None /\ treq'[t] = None /\ Others(t)
  BY DEF Notify, PortWoken, TypeOK, Others
<1>4. Once' /\ BookInv'
  BY <1>1, <1>2, <1>3, Gone
<1>5. MutexInv'
  <2>1. tpc[t] \notin Locked /\ tpc'[t] \notin Locked /\ tpc'[t] # "pop"
    BY <1>2, <1>3 DEF Locked
  <2>2. QED
    BY <1>2, <1>3, <2>1, OtherFacts, MutexSame
<1>6. QED
  BY <1>1, <1>2, <1>4, <1>5

-----------------------------------------------------------------------------
(* The invariant holds *)

LEMMA InitInv == Init => IInv
<1>1. SUFFICES ASSUME Init PROVE IInv
  OBVIOUS
<1>2. TypeOK
  <2>1. rdma_status \in [Slots -> Status]
    BY <1>1 DEF Init, Status
  <2>2. NicType
    BY <1>1 DEF Init, NicType
  <2>3. KthreadType
    BY <1>1 DEF Init, KthreadType
  <2>4. QueueType
    BY <1>1, <2>1 DEF Init, QueueType
  <2>5. ThreadType
    BY <1>1 DEF Init, ThreadType, PCs, Owning, Unsent
  <2>6. HistoryType
    BY <1>1 DEF Init, HistoryType
  <2>7. QED
    BY <2>2, <2>3, <2>4, <2>5, <2>6, TypeParts
<1>3. \A d : ~Out(d)
  BY <1>1 DEF Init, Out, InTx, InRx, InK
<1>4. MutexInv /\ Once /\ errors = {}
  BY <1>1 DEF Init, MutexInv, Once
<1>5. \A s \in Slots : ~Received(s) /\ ~Held(s) /\ ~KHas(s) /\ ~Busy(s) /\ s \in free
  BY <1>1, <1>3 DEF Init, Received, Held, KHas, Busy
<1>6. PlaceInv /\ Placed
  BY <1>5 DEF PlaceInv, Placed
<1>7. OwnerInv
  BY <1>1 DEF Init, OwnerInv, Owning, Unsent, Keeping, Waiting
<1>8. DescInv
  BY <1>3 DEF DescInv
<1>9. ReqInv
  BY <1>1, <1>5 DEF Init, ReqInv, Presend, Unsent
<1>10. QED
  BY <1>2, <1>4, <1>6, <1>7, <1>8, <1>9 DEF IInv, BookInv

LEMMA StutterInv == ASSUME IInv, UNCHANGED vars PROVE IInv'
<1>1. TypeOK' /\ MutexInv' /\ errors' = {}
  BY DEF IInv, vars, TypeOK, MutexInv
<1>2. Once' /\ \A d : Out(d)' <=> Out(d)
  BY OutStill DEF IInv, vars
<1>3. SameStatus /\ SameHand /\ \A t \in Threads : Alike(t)
  BY DEF vars, SameStatus, SameHand, Alike
<1>4. UNCHANGED <<free, tslot, treq, fate, nreq>>
  BY DEF vars
<1>5. BookInv'
  BY <1>1, <1>2, <1>3, <1>4, Quiet DEF IInv
<1>6. QED
  BY <1>1, <1>2, <1>5 DEF IInv

LEMMA NextInv == IInv /\ [Next]_vars => IInv'
<1>1. SUFFICES ASSUME IInv, [Next]_vars PROVE IInv'
  OBVIOUS
<1>2. CASE UNCHANGED vars
  BY <1>1, <1>2, StutterInv
<1>3. CASE Transmit \/ Reply \/ axiomnet_irqhandler \/ axiom_hw_ack_irq \/ axiomnet_watchdog_worker
  BY <1>1, <1>3, NicStep
<1>4. CASE axkt_worker \/ axiom_rdma_rx_dequeue
  BY <1>1, <1>4, KthreadStep, ResendStep, HandleAckStep, AckReceivedStep, FreeStatusStep
    DEF axiom_rdma_rx_dequeue
<1>5. ASSUME NEW t \in Threads,
             \/ Call(t) \/ axiomnet_rdma_tx(t) \/ SignalAvail(t) \/ SignalAck(t)
             \/ axiomnet_rdma_check(t) \/ CallWait(t) \/ axiomnet_rdma_wait(t) \/ SignalWait(t)
      PROVE  IInv'
  <2>1. CASE axiomnet_rdma_tx(t)
    BY <1>1, <2>1, ThreadQuietStep, AvailStep, PopStep, SetupStep, SendStep, TestAckStep,
       LeaveStep, FreeSlotStep, NotifyStep DEF axiomnet_rdma_tx
  <2>2. QED
    BY <1>1, <1>5, <2>1, CallStep, AvailStep, ThreadQuietStep
<1>6. QED
  BY <1>1, <1>2, <1>3, <1>4, <1>5 DEF Next

\* In every reachable state of RdmaTx the inductive invariant holds.
THEOREM Invariance == Spec => []IInv
  BY InitInv, NextInv, PTL DEF Spec

\* The types hold, and a thread or the kthread has what each of its steps needs.
THEOREM TypeCorrect == Spec => []TypeOK
  BY Invariance, PTL DEF IInv

-----------------------------------------------------------------------------
(* Message ids *)

\* The descriptors of the invariant are those of RdmaTx.
OutIs == \A d : (d \in Outstanding <=> Out(d)) /\ (Out(d) => d \in Descs)

LEMMA OutFacts == TypeOK => OutIs
<1>1. SUFFICES ASSUME TypeOK, NEW d
               PROVE  (d \in Outstanding <=> Out(d)) /\ (Out(d) => d \in Descs)
  BY DEF OutIs
<1>2. hwtx \in Seq(Descs) /\ hwrx \in Seq(Acks) /\ flight \in SUBSET Descs
  BY <1>1 DEF TypeOK
<1>3. d \in Range(hwtx) <=> InTx(d)
  BY <1>2 DEF Range, InTx
<1>4. d \in RxDescs <=> InRx(d)
  BY <1>2 DEF RxDescs, Range, InRx
<1>5. d \in KDescs <=> InK(d)
  BY DEF KDescs, InK
<1>6. InTx(d) => d \in Descs
  BY <1>2 DEF InTx
<1>7. ASSUME InRx(d) PROVE d \in Descs
  <2>1. PICK i \in 1 .. Len(hwrx) : hwrx[i].desc = d
    BY <1>7 DEF InRx
  <2>2. hwrx[i] \in Acks
    BY <1>2, <2>1
  <2>3. QED
    BY <2>1, <2>2 DEF Acks
<1>8. InK(d) => d \in Descs
  BY <1>1, KackTypes DEF InK
<1>9. QED
  BY <1>2, <1>3, <1>4, <1>5, <1>6, <1>7, <1>8 DEF Outstanding, Out

LEMMA OutFactsNext == TypeOK' => OutIs'
  BY OutFacts, PTL

LEMMA IdInv == IInv => IdNotReused
<1>1. SUFFICES ASSUME IInv PROVE IdNotReused
  OBVIOUS
<1> USE <1>1 DEF IInv
<1>2. OneOwner /\ errors = {}
  <2>1. ASSUME NEW pc, pc \in Keeping PROVE pc \in Owning \ {"notify"}
    BY <2>1 DEF Keeping
  <2>2. QED
    BY <2>1 DEF OneOwner, BookInv, OwnerInv, Keeping
<1>3. OutIs
  BY OutFacts
<1>4. ASSUME NEW d, Out(d)
      PROVE  /\ d.slot \notin free
             /\ rdma_status[d.slot].req = d.req /\ rdma_status[d.slot].dst = d.node
             /\ fate[d.req] = "none"
             /\ \A t \in Threads : tpc[t] \in Unsent => tslot[t] # d.slot
  <2>1. d \in Descs /\ d.slot \in Slots
    BY <1>3, <1>4 DEF OutIs, Descs
  <2>2. Busy(d.slot)
    BY <1>4, <2>1 DEF Busy
  <2>3. d.slot \notin free /\ ~Held(d.slot)
    BY <2>1, <2>2 DEF BookInv, PlaceInv
  <2>4. \A t \in Threads : tpc[t] \in Unsent => tslot[t] # d.slot
    BY <2>3 DEF Held
  <2>5. QED
    BY <1>4, <2>1, <2>3, <2>4 DEF BookInv, DescInv
<1>5. \A d, e \in Outstanding : d.slot = e.slot => d = e
  BY <1>3, OneDesc DEF OutIs
<1>6. \A i, j \in 1 .. Len(hwtx) : hwtx[i] = hwtx[j] => i = j
  BY DEF Once
<1>7. \A i, j \in 1 .. Len(hwrx) : hwrx[i].desc = hwrx[j].desc => i = j
  BY DEF Once
<1>8. \A d : /\ d \in Range(hwtx) => InTx(d)
             /\ d \in RxDescs => InRx(d)
             /\ d \in KDescs => InK(d)
  BY DEF Range, RxDescs, KDescs, InTx, InRx, InK, TypeOK
<1>9. \A d : InTx(d) => d \notin flight /\ ~InRx(d) /\ ~InK(d)
  BY DEF Once, InTx, InRx, InK
<1>10. \A d : d \in flight => ~InRx(d) /\ ~InK(d)
  BY DEF Once, InRx, InK
<1>11. \A d : InRx(d) => ~InK(d)
  BY DEF Once, InRx, InK
<1>12. /\ Range(hwtx) \cap (flight \cup RxDescs \cup KDescs) = {}
       /\ flight \cap (RxDescs \cup KDescs) = {} /\ RxDescs \cap KDescs = {}
  BY <1>8, <1>9, <1>10, <1>11
<1>13. QED
  BY <1>2, <1>3, <1>4, <1>5, <1>6, <1>7, <1>12 DEF IdNotReused, OutIs

\* A message id is not used for another request before its own is answered, whatever
\* the retries, the signals and the order of the answers: the slots that
\* axiomnet_rdma_tx pops, that the kthread frees and that the senders free have one
\* owner, no ack is unexpected and no pop fails.
THEOREM IdsUnique == Spec => []IdNotReused
  BY Invariance, IdInv, PTL

-----------------------------------------------------------------------------
(* Lost slots *)

LEMMA LostInv == IInv => LostOnlyBySignal
<1>1. SUFFICES ASSUME IInv, NEW s \in Slots, ~Accounted(s)
               PROVE  /\ rdma_status[s].ack_received
                      /\ \/ ~rdma_status[s].ack_waiting
                         \/ \E t \in Threads : tslot[t] = s /\ tpc[t] = "leave"
  BY DEF LostOnlyBySignal
<1> USE <1>1 DEF IInv
<1>2. OutIs
  BY OutFacts
<1>3. s \notin free /\ ~Held(s) /\ ~Busy(s) /\ ~KHas(s)
  BY <1>2 DEF Accounted, OutIs, Held, Busy, KHas
<1>4. Received(s)
  BY <1>3 DEF BookInv, Placed
<1>5. ASSUME rdma_status[s].ack_waiting
      PROVE  \E t \in Threads : tslot[t] = s /\ tpc[t] = "leave"
  <2>1. PICK t \in Threads : tslot[t] = s /\ tpc[t] \in Owning \ {"notify"}
    BY <1>3, <1>5 DEF BookInv, OwnerInv
  <2>2. tpc[t] \notin Unsent \cup {"free"}
    BY <1>3, <2>1 DEF Held
  <2>3. tpc[t] \notin {"sent", "ackevent", "acksleep", "acklock"}
    BY <1>4, <1>5, <2>1 DEF Accounted, Received
  <2>4. tpc[t] = "leave"
    BY <2>1, <2>2, <2>3 DEF Owning
  <2>5. QED
    BY <2>1, <2>4
<1>6. QED
  BY <1>4, <1>5 DEF Received

\* A slot is lost in one way only: the sender was interrupted after the kthread had
\* read ack_waiting and before it set ack_received.
THEOREM SlotsKept == Spec => []LostOnlyBySignal
  BY Invariance, LostInv, PTL

-----------------------------------------------------------------------------
(* What a step does to the descriptors, the fates and the counters *)

SameOut == \A d : Out(d)' <=> Out(d)
SameCounters ==
  \A s \in Slots : rdma_status'[s].msg_id_counter = rdma_status[s].msg_id_counter
SendsAlike ==
  \A u \in Threads : tpc[u] \in {"sendlock", "send"} =>
    tpc'[u] \in {"sendlock", "send"} /\ UNCHANGED <<tslot[u], treq[u]>>
RefusedOne ==
  \E t \in Threads : tpc[t] \in Trying /\ fate' = [fate EXCEPT ![treq[t]] = "refused"]

\* The steps of the NIC, the interrupt and the kthread, but for HandleAck.
LEMMA KernelKind ==
  ASSUME IInv,
         \/ Transmit \/ Reply \/ axiomnet_irqhandler \/ axiom_hw_ack_irq
         \/ axkt_worker \/ axiomnet_watchdog_worker \/ DequeueAck \/ RetryLock \/ Resend
         \/ AckReceived \/ FreeStatus \/ WakePort \/ WakeStatus
  PROVE  SameOut /\ SameCounters /\ SendsAlike /\ UNCHANGED <<fate, nreq, token>>
<1> USE DEF IInv
<1>1. UNCHANGED <<fate, nreq, token, tslot, treq>>
  BY DEF Transmit, Reply, axiomnet_irqhandler, axiom_hw_ack_irq, axkt_worker, DequeueAck,
         RetryLock, Resend, AckReceived, FreeStatus, WakePort, WakeStatus,
         axiomnet_watchdog_worker, users, history
<1>2. SameOut
  <2>1. CASE Transmit
    BY <2>1, TransmitOut DEF SameOut
  <2>2. CASE Reply
    BY <2>2, ReplyOut DEF SameOut
  <2>3. CASE DequeueAck
    BY <2>3, DequeueOut DEF SameOut, BookInv
  <2>4. CASE Resend
    BY <2>4, ResendOut DEF SameOut, BookInv
  <2>5. CASE axiomnet_irqhandler \/ axiom_hw_ack_irq \/ axkt_worker \/ axiomnet_watchdog_worker
    <3>1. /\ UNCHANGED <<hwtx, flight, hwrx, kack>>
          /\ kpc' = kpc \/ {kpc, kpc'} \subseteq {"sleep", "wait", "work"}
      BY <2>5 DEF axiomnet_irqhandler, axiom_hw_ack_irq, axkt_worker, axiomnet_watchdog_worker,
                  axiom_kthread_wakeup, nic, kthread
    <3>2. QED
      BY <3>1, OutStill DEF KPlaces, SameOut
  <2>6. CASE RetryLock \/ AckReceived \/ FreeStatus \/ WakePort
    <3>1. /\ UNCHANGED <<hwtx, flight, hwrx, kack>>
          /\ \/ kpc = "retry" /\ kpc' = "resend"
             \/ {kpc, kpc'} \subseteq {"received", "free", "wakeport", "wake"}
      BY <2>6 DEF RetryLock, AckReceived, FreeStatus, WakePort, nic
    <3>2. QED
      BY <3>1, OutStill DEF KPlaces, SameOut
  <2>7. CASE WakeStatus
    <3>1. UNCHANGED <<hwtx, flight, hwrx>> /\ kpc = "wake" /\ kpc' = "work"
      BY <2>7 DEF WakeStatus, nic
    <3>2. QED
      BY <3>1, OutStill DEF KPlaces, SameOut
  <2>8. QED
    BY <2>1, <2>2, <2>3, <2>4, <2>5, <2>6, <2>7
<1>3. SameCounters
  <2>1. rdma_status \in [Slots -> Status]
    BY DEF TypeOK
  <2>2. CASE UNCHANGED rdma_status
    BY <2>2 DEF SameCounters
  <2>3. CASE Resend
    BY <2>1, <2>3 DEF SameCounters, Resend, AddRetry, Status
  <2>4. CASE AckReceived
    BY <2>1, <2>4 DEF SameCounters, AckReceived, Status
  <2>5. CASE FreeStatus
    BY <2>1, <2>5 DEF SameCounters, FreeStatus, Status
  <2>6. QED
    BY <2>2, <2>3, <2>4, <2>5
      DEF Transmit, Reply, axiomnet_irqhandler, axiom_hw_ack_irq, axkt_worker, DequeueAck,
          RetryLock, WakePort, WakeStatus, axiomnet_watchdog_worker, queue
<1>4. SendsAlike
  <2>1. \/ tpc' = tpc \/ tpc' = PortWoken \/ \E s : tpc' = StatusWoken(s)
    BY DEF Transmit, Reply, axiomnet_irqhandler, axiom_hw_ack_irq, axkt_worker, DequeueAck,
           RetryLock, Resend, AckReceived, FreeStatus, WakePort, WakeStatus,
           axiomnet_watchdog_worker, users
  <2>2. QED
    BY <1>1, <2>1 DEF SendsAlike, PortWoken, StatusWoken
<1>5. QED
  BY <1>1, <1>2, <1>3, <1>4

\* The steps of the threads, but for Setup and Send.
LEMMA ThreadKind ==
  ASSUME IInv, NEW t \in Threads,
         \/ Call(t) \/ Lock(t) \/ TestAvail(t) \/ WaitAvail(t) \/ SignalAvail(t) \/ PopSlot(t)
         \/ TestAck(t) \/ WaitAck(t) \/ SignalAck(t) \/ LeaveToKthread(t) \/ FreeSlot(t)
         \/ Notify(t) \/ axiomnet_rdma_check(t) \/ CallWait(t) \/ axiomnet_rdma_wait(t)
         \/ SignalWait(t)
  PROVE  /\ SameOut /\ SameCounters /\ SendsAlike
         /\ UNCHANGED fate \/ RefusedOne
         /\ UNCHANGED nreq \/ nreq' = nreq + 1
         /\ \/ UNCHANGED token
            \/ TokenAcked(t) /\ token[t] # None /\ TokenDone(token[t])
<1> USE DEF IInv
<1>1. UNCHANGED <<hwtx, flight, hwrx, kpc, kack>>
  BY DEF Call, Lock, TestAvail, WaitAvail, SignalAvail, PopSlot, TestAck, WaitAck, SignalAck,
         LeaveToKthread, FreeSlot, Notify, axiomnet_rdma_check, CallWait, axiomnet_rdma_wait,
         SignalWait, nic, kthread
<1>2. SameOut
  BY <1>1, OutStill DEF SameOut
<1>3. SameCounters
  <2>1. rdma_status \in [Slots -> Status]
    BY DEF TypeOK
  <2>2. CASE UNCHANGED rdma_status
    BY <2>2 DEF SameCounters
  <2>3. CASE TestAck(t)
    <3>1. \/ rdma_status' = rdma_status
          \/ rdma_status' = [rdma_status EXCEPT ![tslot[t]].ack_received = FALSE,
                                                ![tslot[t]].dst = NullNode]
      BY <2>3 DEF TestAck
    <3>2. QED
      BY <2>1, <3>1 DEF SameCounters, Status
  <2>4. CASE LeaveToKthread(t)
    BY <2>1, <2>4 DEF SameCounters, LeaveToKthread, Status
  <2>5. QED
    BY <2>2, <2>3, <2>4
      DEF Call, Lock, TestAvail, WaitAvail, SignalAvail, PopSlot, WaitAck, SignalAck,
          FreeSlot, Notify, axiomnet_rdma_check, CallWait, axiomnet_rdma_wait, SignalWait, queue
<1>4. SendsAlike
  <2>1. tpc \in [Threads -> PCs] /\ tslot \in [Threads -> Slots \cup {None}]
        /\ treq \in [Threads -> Reqs \cup {None}]
    BY DEF TypeOK, PCs
  <2>2. ASSUME NEW u \in Threads \ {t}, tpc[u] \in {"sendlock", "send"}
        PROVE  tpc'[u] = tpc[u] /\ tslot'[u] = tslot[u] /\ treq'[u] = treq[u]
    <3>1. tslot'[u] = tslot[u] /\ treq'[u] = treq[u]
      BY <2>1 DEF Call, Lock, TestAvail, WaitAvail, SignalAvail, PopSlot, TestAck, WaitAck,
         SignalAck, LeaveToKthread, FreeSlot, Notify, axiomnet_rdma_check, CallWait,
         axiomnet_rdma_wait, SignalWait, Refuse, Return, eviq_free_pop
    <3>2. CASE \E pc : tpc' = [tpc EXCEPT ![t] = pc]
      BY <2>1, <3>1, <3>2
    <3>3. CASE Notify(t)
      BY <2>1, <2>2, <3>1, <3>3 DEF Notify, PortWoken
    <3>4. CASE UNCHANGED tpc
      BY <3>1, <3>4
    <3>5. QED
      BY <3>1, <3>2, <3>3, <3>4
        DEF Call, Lock, TestAvail, WaitAvail, SignalAvail, PopSlot, TestAck, WaitAck, SignalAck,
            LeaveToKthread, FreeSlot, axiomnet_rdma_check, CallWait, axiomnet_rdma_wait,
            SignalWait, Refuse, Return, Goto
  <2>3. ASSUME tpc[t] \in {"sendlock", "send"}
        PROVE  tpc'[t] = "send" /\ UNCHANGED <<tslot, treq>>
    <3>1. Lock(t) /\ tpc[t] = "sendlock"
      BY <2>3 DEF Call, Lock, AfterLock, TestAvail, WaitAvail, SignalAvail, PopSlot, TestAck,
         WaitAck, SignalAck, LeaveToKthread, FreeSlot, Notify, axiomnet_rdma_check, CallWait,
         axiomnet_rdma_wait, SignalWait
    <3>2. QED
      BY <2>1, <3>1 DEF Lock, AfterLock, Goto
  <2>4. QED
    BY <2>2, <2>3 DEF SendsAlike
<1>5. UNCHANGED fate \/ RefusedOne
  <2>1. CASE TestAvail(t)
    BY <2>1 DEF TestAvail, Refuse, RefusedOne, Trying
  <2>2. CASE SignalAvail(t)
    BY <2>2 DEF SignalAvail, Refuse, RefusedOne, Trying
  <2>3. CASE PopSlot(t)
    BY <2>3 DEF PopSlot, Refuse, RefusedOne, Trying
  <2>4. QED
    BY <2>1, <2>2, <2>3
      DEF Call, Lock, WaitAvail, TestAck, WaitAck, SignalAck, LeaveToKthread, FreeSlot, Notify,
          axiomnet_rdma_check, CallWait, axiomnet_rdma_wait, SignalWait, history
<1>6. UNCHANGED nreq \/ nreq' = nreq + 1
  BY DEF Call, Lock, TestAvail, WaitAvail, SignalAvail, PopSlot, TestAck, WaitAck, SignalAck,
         LeaveToKthread, FreeSlot, Notify, axiomnet_rdma_check, CallWait, axiomnet_rdma_wait,
         SignalWait, history
<1>7. UNCHANGED token \/ (TokenAcked(t) /\ token[t] # None /\ TokenDone(token[t]))
  <2>1. CASE axiomnet_rdma_check(t)
    BY <2>1 DEF axiomnet_rdma_check, Pending
  <2>2. CASE axiomnet_rdma_wait(t)
    BY <2>2 DEF axiomnet_rdma_wait, TypeOK
  <2>3. QED
    BY <2>1, <2>2
      DEF Call, Lock, TestAvail, WaitAvail, SignalAvail, PopSlot, TestAck, WaitAck, SignalAck,
          LeaveToKthread, FreeSlot, Notify, CallWait, SignalWait
<1>8. QED
  BY <1>2, <1>3, <1>4, <1>5, <1>6, <1>7

LEMMA SetupKind ==
  ASSUME IInv, NEW t \in Threads, Setup(t)
  PROVE  /\ SameOut /\ SameCounters /\ SendsAlike /\ UNCHANGED <<fate, nreq>>
         /\ tslot[t] \in Slots /\ treq[t] \in Reqs /\ fate[treq[t]] = "none" /\ treq[t] <= nreq
         /\ tpc'[t] = "sendlock" /\ tslot'[t] = tslot[t] /\ treq'[t] = treq[t]
         /\ \/ token' = token
            \/ token' = [token EXCEPT ![t] =
                           [slot |-> tslot[t], value |-> rdma_status[tslot[t]].msg_id_counter,
                            status |-> "PENDING", req |-> treq[t]]]
<1> USE DEF IInv
<1>1. /\ tpc[t] = "setup" /\ tpc' = [tpc EXCEPT ![t] = "sendlock"]
      /\ UNCHANGED <<hwtx, flight, hwrx, kpc, kack, tslot, treq, fate, nreq>>
  BY DEF Setup, Goto, nic, kthread, history
<1>2. tslot[t] \in Slots /\ treq[t] \in Reqs
  BY <1>1, ThreadTypes DEF Owning, Unsent
<1>3. fate[treq[t]] = "none" /\ treq[t] <= nreq
  BY <1>1, <1>2 DEF BookInv, ReqInv, Presend, Unsent
<1>4. tpc'[t] = "sendlock" /\ \A u \in Threads \ {t} : tpc'[u] = tpc[u]
  BY <1>1 DEF TypeOK
<1>5. SendsAlike
  BY <1>1, <1>4 DEF SendsAlike
<1>6. SameOut
  BY <1>1, OutStill DEF SameOut
<1>7. PICK sync \in BOOLEAN, n \in Nodes :
        /\ rdma_status' = [rdma_status EXCEPT ![tslot[t]] =
             [@ EXCEPT !.ack_received = FALSE, !.retries = 0, !.dst = n,
                       !.ack_waiting = sync, !.req = treq[t]]]
        /\ token' = IF sync THEN token
                    ELSE [token EXCEPT ![t] =
                           [slot |-> tslot[t], value |-> rdma_status[tslot[t]].msg_id_counter,
                            status |-> "PENDING", req |-> treq[t]]]
  BY DEF Setup
<1>8. SameCounters
  <2>1. rdma_status \in [Slots -> Status]
    BY DEF TypeOK
  <2>2. \A x \in Slots \ {tslot[t]} : rdma_status'[x] = rdma_status[x]
    BY <1>7, <2>1
  <2>3. rdma_status'[tslot[t]] =
          [rdma_status[tslot[t]] EXCEPT !.ack_received = FALSE, !.retries = 0, !.dst = n,
                                        !.ack_waiting = sync, !.req = treq[t]]
    BY <1>2, <1>7, <2>1
  <2>4. rdma_status[tslot[t]] \in Status
    BY <1>2, <2>1
  <2>5. rdma_status'[tslot[t]].msg_id_counter = rdma_status[tslot[t]].msg_id_counter
    BY <2>3, <2>4 DEF Status
  <2>6. QED
    BY <2>2, <2>5 DEF SameCounters
<1>9. QED
  BY <1>1, <1>2, <1>3, <1>4, <1>5, <1>6, <1>7, <1>8

\* Send gives the NIC the descriptor of a request that has none.
LEMMA SendKind ==
  ASSUME IInv, NEW t \in Threads, Send(t)
  PROVE  /\ SameCounters /\ UNCHANGED <<fate, nreq, token>>
         /\ tpc[t] = "send" /\ treq[t] \in Reqs /\ fate[treq[t]] = "none"
         /\ \A d \in Descs : Out(d) => d.req # treq[t]
         /\ \A u \in Threads \ {t} : tpc'[u] = tpc[u] /\ tslot'[u] = tslot[u] /\ treq'[u] = treq[u]
         /\ \E x \in Descs : /\ x.slot = tslot[t] /\ x.req = treq[t]
                             /\ \A d : Out(d)' <=> Out(d) \/ d = x
<1> USE DEF IInv
<1>1. /\ tpc[t] = "send" /\ tpc' = [tpc EXCEPT ![t] = "sent"]
      /\ UNCHANGED <<rdma_status, tslot, treq, fate, nreq, token>>
  BY DEF Send, Goto, queue, history
<1>2. treq[t] \in Reqs
  BY <1>1, ThreadTypes
<1>3. fate[treq[t]] = "none" /\ \A d \in Descs : Out(d) => d.req # treq[t]
  BY <1>1 DEF BookInv, ReqInv, Presend, Unsent
<1>4. \A u \in Threads \ {t} : tpc'[u] = tpc[u] /\ tslot'[u] = tslot[u] /\ treq'[u] = treq[u]
  BY <1>1 DEF TypeOK
<1>5. \E x \in Descs : /\ x.slot = tslot[t] /\ x.req = treq[t]
                       /\ \A d : Out(d)' <=> Out(d) \/ d = x
  BY SendFacts
<1>6. SameCounters
  BY <1>1 DEF SameCounters
<1>7. QED
  BY <1>1, <1>2, <1>3, <1>4, <1>5, <1>6

\* HandleAck takes the descriptor of the answered request, and counts the answer.
LEMMA HandleAckKind ==
  ASSUME IInv, HandleAck
  PROVE  \E x \in Descs :
           /\ Out(x) /\ x.slot \in Slots /\ x.req \in Reqs
           /\ \A d : Out(d)' <=> Out(d) /\ d # x
           /\ fate[x.req] = "none"
           /\ \E f \in {"acked", "discarded"} : fate' = [fate EXCEPT ![x.req] = f]
           /\ \A s \in Slots \ {x.slot} :
                rdma_status'[s].msg_id_counter = rdma_status[s].msg_id_counter
           /\ rdma_status'[x.slot].msg_id_counter
                = (rdma_status[x.slot].msg_id_counter + 1) % CounterMod
           /\ UNCHANGED <<nreq, token, tpc, tslot, treq>>
<1> USE DEF IInv
<1>1. PICK x : x = kack.desc
  OBVIOUS
<1>2. /\ kpc = "ack" /\ kpc' \in {"received", "free"}
      /\ rdma_status' = CountAck(x.slot)
      /\ fate' = [fate EXCEPT ![rdma_status[x.slot].req] =
                     IF kack.error THEN "discarded" ELSE "acked"]
      /\ UNCHANGED <<hwtx, flight, hwrx, kack, nreq, token, tpc, tslot, treq>>
  BY <1>1 DEF HandleAck, nic, users
<1>3. x \in Descs /\ x.slot \in Slots /\ x.req \in Reqs
  BY <1>1, <1>2, KackTypes
<1>4. InK(x) /\ Out(x)
  BY <1>1, <1>2 DEF InK, Out
<1>5. rdma_status[x.slot].req = x.req /\ fate[x.req] = "none"
  BY <1>3, <1>4 DEF BookInv, DescInv
<1>6. ASSUME NEW d PROVE Out(d)' <=> Out(d) /\ d # x
  <2>1. /\ (InTx(d)' <=> InTx(d)) /\ (InRx(d)' <=> InRx(d)) /\ ~InK(d)'
        /\ InK(d) <=> d = x
    BY <1>1, <1>2 DEF InTx, InRx, InK
  <2>2. ~InTx(x) /\ x \notin flight /\ ~InRx(x)
    BY <1>1, <1>2 DEF Once, InTx, InRx
  <2>3. QED
    BY <1>2, <2>1, <2>2 DEF Out
<1>7. /\ \A s \in Slots \ {x.slot} :
           rdma_status'[s].msg_id_counter = rdma_status[s].msg_id_counter
      /\ rdma_status'[x.slot].msg_id_counter
           = (rdma_status[x.slot].msg_id_counter + 1) % CounterMod
  <2>1. rdma_status \in [Slots -> Status]
    BY DEF TypeOK
  <2>2. QED
    BY <1>2, <1>3, <2>1 DEF CountAck, Status
<1>8. \E f \in {"acked", "discarded"} : fate' = [fate EXCEPT ![x.req] = f]
  BY <1>2, <1>5
<1>9. QED
  BY <1>2, <1>3, <1>4, <1>5, <1>6, <1>7, <1>8

\* A step leaves the requests as they were, refuses one, sends one or has the answer
\* to one.
LEMMA StepKinds ==
  ASSUME IInv, [Next]_vars
  PROVE  \/ SameOut /\ UNCHANGED fate
         \/ SameOut /\ RefusedOne
         \/ \E t \in Threads : Send(t)
         \/ HandleAck
<1>1. CASE UNCHANGED vars
  <2>1. UNCHANGED <<hwtx, flight, hwrx, kpc, kack, fate>>
    BY <1>1 DEF vars
  <2>2. QED
    BY <2>1, OutStill DEF IInv, SameOut
<1>2. CASE Transmit \/ Reply \/ axiomnet_irqhandler \/ axiom_hw_ack_irq \/ axkt_worker
             \/ axiom_rdma_rx_dequeue \/ axiomnet_watchdog_worker
  BY <1>2, KernelKind DEF axiom_rdma_rx_dequeue
<1>3. ASSUME NEW t \in Threads,
             \/ Call(t) \/ axiomnet_rdma_tx(t) \/ SignalAvail(t) \/ SignalAck(t)
             \/ axiomnet_rdma_check(t) \/ CallWait(t) \/ axiomnet_rdma_wait(t) \/ SignalWait(t),
             ~Send(t)
      PROVE  SameOut /\ (UNCHANGED fate \/ RefusedOne)
  BY <1>3, ThreadKind, SetupKind DEF axiomnet_rdma_tx
<1>4. QED
  BY <1>1, <1>2, <1>3 DEF Next, axiomnet_rdma_tx

-----------------------------------------------------------------------------
(* RdmaTx implements RdmaService *)

Sent(r) == \E d : Out(d) /\ d.req = r

ServicesAre ==
  \A r : Service(r) = CASE fate[r] = "refused" -> "refused"
                        [] fate[r] \in {"acked", "discarded"} -> "answered"
                        [] OTHER -> IF Sent(r) THEN "sent" ELSE "none"

LEMMA ServiceFacts == TypeOK => ServicesAre
<1>1. SUFFICES ASSUME TypeOK, NEW r
               PROVE  Service(r) = CASE fate[r] = "refused" -> "refused"
                                     [] fate[r] \in {"acked", "discarded"} -> "answered"
                                     [] OTHER -> IF Sent(r) THEN "sent" ELSE "none"
  BY DEF ServicesAre
<1>2. (\E d \in Outstanding : d.req = r) <=> Sent(r)
  BY <1>1, OutFacts DEF OutIs, Sent
<1>3. QED
  BY <1>2 DEF Service

LEMMA ServiceFactsNext == TypeOK' => ServicesAre'
  BY ServiceFacts, PTL

\* A step that moves one request on.
LEMMA OneServed ==
  ASSUME TypeOK, TypeOK', NEW r \in Reqs,
         \A q \in Reqs \ {r} : fate'[q] = fate[q] /\ (Sent(q)' <=> Sent(q)),
         fate[r] = "none",
         \/ ~Sent(r) /\ fate'[r] = "refused"
         \/ ~Sent(r) /\ Sent(r)' /\ fate'[r] = "none"
         \/ Sent(r) /\ fate'[r] \in {"acked", "discarded"}
  PROVE  RS!Next
<1>1. ServicesAre /\ ServicesAre'
  BY ServiceFacts, ServiceFactsNext
<1>2. \A q \in Reqs \ {r} : Service(q)' = Service(q)
  BY <1>1 DEF ServicesAre
<1>3. CASE ~Sent(r) /\ fate'[r] = "refused"
  <2>1. Service(r) = "none" /\ Service(r)' = "refused"
    BY <1>1, <1>3 DEF ServicesAre
  <2>2. RS!Refuse(r)
    BY <1>2, <2>1 DEF RS!Refuse
  <2>3. QED
    BY <2>2 DEF RS!Next
<1>4. CASE ~Sent(r) /\ Sent(r)' /\ fate'[r] = "none"
  <2>1. Service(r) = "none" /\ Service(r)' = "sent"
    BY <1>1, <1>4 DEF ServicesAre
  <2>2. RS!Submit(r)
    BY <1>2, <2>1 DEF RS!Submit
  <2>3. QED
    BY <2>2 DEF RS!Next
<1>5. CASE Sent(r) /\ fate'[r] \in {"acked", "discarded"}
  <2>1. Service(r) = "sent" /\ Service(r)' = "answered"
    BY <1>1, <1>5 DEF ServicesAre
  <2>2. RS!Answer(r)
    BY <1>2, <2>1 DEF RS!Answer
  <2>3. QED
    BY <2>2 DEF RS!Next
<1>6. QED
  BY <1>3, <1>4, <1>5

LEMMA InitRefines == Init => RS!Init
<1>1. SUFFICES ASSUME Init PROVE RS!Init
  OBVIOUS
<1>2. ServicesAre
  BY <1>1, InitInv, ServiceFacts DEF IInv
<1>3. \A r \in Reqs : fate[r] = "none" /\ ~Sent(r)
  BY <1>1 DEF Init, Sent, Out, InTx, InRx, InK
<1>4. \A r \in Reqs : Service(r) = "none"
  BY <1>2, <1>3 DEF ServicesAre
<1>5. QED
  BY <1>4 DEF RS!Init

LEMMA StepRefines ==
  IInv /\ [Next]_vars => [RS!Next]_([r \in Reqs |-> Service(r)])
<1>1. SUFFICES ASSUME IInv, [Next]_vars
               PROVE  RS!Next \/ [r \in Reqs |-> Service(r)]' = [r \in Reqs |-> Service(r)]
  OBVIOUS
<1> USE <1>1 DEF IInv
<1>2. TypeOK /\ TypeOK' /\ fate \in [Reqs -> {"none", "refused", "acked", "discarded"}]
  <2>1. IInv'
    BY NextInv
  <2>2. QED
    BY <2>1 DEF TypeOK
<1>3. OutIs
  BY OutFacts
<1>4. CASE SameOut /\ UNCHANGED fate
  <2>1. \A r \in Reqs : Sent(r)' <=> Sent(r)
    BY <1>4 DEF SameOut, Sent
  <2>2. ServicesAre /\ ServicesAre'
    BY <1>2, ServiceFacts, ServiceFactsNext
  <2>3. \A r \in Reqs : Service(r)' = Service(r)
    BY <1>4, <2>1, <2>2 DEF ServicesAre
  <2>4. QED
    BY <2>3
<1>5. CASE SameOut /\ RefusedOne
  <2>1. PICK t \in Threads : tpc[t] \in Trying /\ fate' = [fate EXCEPT ![treq[t]] = "refused"]
    BY <1>5 DEF RefusedOne
  <2>2. treq[t] \in Reqs
    BY <2>1, ThreadTypes DEF Trying
  <2>3. fate[treq[t]] = "none" /\ ~Sent(treq[t])
    BY <1>3, <2>1 DEF BookInv, ReqInv, Presend, Trying, Sent, OutIs
  <2>4. \A q \in Reqs \ {treq[t]} : fate'[q] = fate[q] /\ (Sent(q)' <=> Sent(q))
    BY <1>2, <1>5, <2>1 DEF SameOut, Sent
  <2>5. fate'[treq[t]] = "refused"
    BY <1>2, <2>1, <2>2
  <2>6. QED
    BY <1>2, <2>2, <2>3, <2>4, <2>5, OneServed
<1>6. ASSUME NEW t \in Threads, Send(t) PROVE RS!Next
  <2>1. /\ UNCHANGED fate /\ treq[t] \in Reqs /\ fate[treq[t]] = "none"
        /\ \A d \in Descs : Out(d) => d.req # treq[t]
    BY <1>6, SendKind
  <2>2. PICK x \in Descs : x.req = treq[t] /\ \A d : Out(d)' <=> Out(d) \/ d = x
    BY <1>6, SendKind
  <2>3. ~Sent(treq[t]) /\ Sent(treq[t])'
    <3>1. ~Sent(treq[t])
      BY <1>3, <2>1 DEF Sent, OutIs
    <3>2. treq' = treq
      BY <1>6 DEF Send
    <3>3. QED
      BY <2>2, <3>1, <3>2 DEF Sent
  <2>4. \A q \in Reqs \ {treq[t]} : Sent(q)' <=> Sent(q)
    BY <2>2 DEF Sent
  <2>5. PICK r \in Reqs : r = treq[t] /\ r = treq'[t]
    BY <1>6, <2>1 DEF Send
  <2>6. ~Sent(r) /\ Sent(r)'
    BY <2>3, <2>5, <2>2 DEF Sent
  <2>7. QED
    BY <1>2, <2>1, <2>4, <2>5, <2>6, OneServed
<1>7. CASE HandleAck
  <2>1. PICK x \in Descs :
          /\ Out(x) /\ x.req \in Reqs
          /\ \A d : Out(d)' <=> Out(d) /\ d # x
          /\ fate[x.req] = "none"
          /\ \E f \in {"acked", "discarded"} : fate' = [fate EXCEPT ![x.req] = f]
    BY <1>7, HandleAckKind
  <2>2. Sent(x.req) /\ fate'[x.req] \in {"acked", "discarded"}
    BY <1>2, <2>1 DEF Sent
  <2>3. \A q \in Reqs \ {x.req} : fate'[q] = fate[q] /\ (Sent(q)' <=> Sent(q))
    BY <1>2, <2>1 DEF Sent
  <2>4. QED
    BY <1>2, <2>1, <2>2, <2>3, OneServed
<1>8. QED
  BY <1>4, <1>5, <1>6, <1>7, StepKinds

\* RdmaTx implements RdmaService: whatever the interleaving of senders, kthread and
\* watchdog, and however often the header is sent again, a request that was given to
\* the NIC stays on its way until the kthread counts its one answer, and a request
\* that was refused is not sent.
THEOREM Implementation == Spec => ImplementsService
  BY Invariance, InitRefines, StepRefines, PTL DEF Spec, ImplementsService, RS!Spec

-----------------------------------------------------------------------------
(* Tokens and synchronous calls *)

LEMMA SyncInv == IInv => SyncAfterAck
<1>1. SUFFICES ASSUME IInv, NEW t \in Threads, tpc[t] \in {"acklock", "free", "notify"}
               PROVE  fate[treq[t]] # "none"
  BY DEF SyncAfterAck
<1>2. CASE tpc[t] = "acklock"
  <2>1. tslot[t] \in Slots
    BY <1>1, <1>2, ThreadTypes DEF IInv, Owning
  <2>2. Received(tslot[t]) /\ rdma_status[tslot[t]].req = treq[t]
    BY <1>1, <1>2 DEF IInv, BookInv, OwnerInv, Waiting
  <2>3. QED
    BY <1>1, <2>1, <2>2 DEF IInv, BookInv, ReqInv
<1>3. CASE tpc[t] \in {"free", "notify"}
  BY <1>1, <1>3 DEF IInv, BookInv, ReqInv
<1>4. QED
  BY <1>1, <1>2, <1>3

\* A synchronous call leaves its wait and succeeds only after its own request was
\* answered, although the slot's status was used by others before.
THEOREM SyncAnswered == Spec => []SyncAfterAck
  BY Invariance, SyncInv, PTL

\* Sets of requests are finite.
LEMMA ReqCount ==
  ASSUME NEW S \in SUBSET Reqs
  PROVE  /\ Cardinality(S) \in Nat /\ Cardinality(S) <= MaxReqs
         /\ \A r \in Reqs \ S : Cardinality(S \cup {r}) = Cardinality(S) + 1
<1>1. IsFiniteSet(Reqs) /\ Cardinality(Reqs) = MaxReqs
  BY FS_Interval DEF Reqs
<1>2. IsFiniteSet(S) /\ Cardinality(S) <= Cardinality(Reqs)
  BY <1>1, FS_Subset
<1>3. \A r \in Reqs \ S : Cardinality(S \cup {r}) = Cardinality(S) + 1
  BY <1>2, FS_AddElement
<1>4. QED
  BY <1>1, <1>2, <1>3, FS_CardinalityType

\* The counter of a status and the value of a token are numbers.
LEMMA CounterType ==
  ASSUME TypeOK
  PROVE  /\ \A s \in Slots : rdma_status[s].msg_id_counter \in Nat
         /\ \A k \in Tokens : k.value \in Nat /\ k.slot \in Slots /\ k.req \in Reqs
<1>1. \A s \in Slots : rdma_status[s] \in Status
  BY DEF TypeOK
<1>2. ASSUME NEW x \in Status PROVE x.msg_id_counter \in Nat
  <2>1. x.msg_id_counter \in 0 .. CounterMod - 1
    BY DEF Status
  <2>2. QED
    BY <2>1
<1>3. ASSUME NEW k \in Tokens PROVE k.value \in Nat /\ k.slot \in Slots /\ k.req \in Reqs
  <2>1. k.value \in 0 .. CounterMod - 1 /\ k.slot \in Slots /\ k.req \in Reqs
    BY DEF Tokens
  <2>2. QED
    BY <2>1
<1>4. QED
  BY <1>1, <1>2, <1>3

\* A step that answers nothing keeps the counters and the tokens of other threads.
LEMMA TokensKept ==
  ASSUME TypeOK, TokenInv, SameCounters,
         \A r \in Reqs : fate'[r] \in {"acked", "discarded"} <=> fate[r] \in {"acked", "discarded"},
         \A k \in Tokens : Located(k) => fate'[k.req] = fate[k.req] /\ Located(k)',
         \A r \in Reqs : fate[r] # "none" => fate'[r] # "none",
         \A k \in Tokens : (\E t \in Threads : token'[t] = k) =>
           (\E t \in Threads : token[t] = k) \/ TokenOK(k)'
  PROVE  TokenInv'
<1>1. Counted'
  <2>1. Done' = Done
    BY DEF Done
  <2>2. QED
    BY <2>1 DEF TokenInv, Counted, SameCounters
<1>2. ASSUME NEW k \in Tokens, \E t \in Threads : token[t] = k PROVE TokenOK(k)'
  <2>1. k.slot \in Slots /\ k.req \in Reqs
    BY CounterType
  <2>2. TokenOK(k)
    BY <1>2 DEF TokenInv
  <2>3. rdma_status'[k.slot].msg_id_counter = rdma_status[k.slot].msg_id_counter
    BY <2>1 DEF SameCounters
  <2>4. CASE fate[k.req] = "none"
    <3>1. fate'[k.req] = "none" /\ Located(k)'
      BY <2>2, <2>4 DEF TokenOK
    <3>2. QED
      BY <2>2, <2>3, <2>4, <3>1 DEF TokenOK
  <2>5. CASE fate[k.req] # "none"
    <3>1. fate'[k.req] # "none"
      BY <2>1, <2>5
    <3>2. QED
      BY <2>2, <2>3, <2>5, <3>1 DEF TokenOK
  <2>6. QED
    BY <2>4, <2>5
<1>3. QED
  BY <1>1, <1>2 DEF TokenInv

LEMMA LocatedKept ==
  ASSUME SameOut, SendsAlike, NEW k, Located(k)
  PROVE  Located(k)'
  BY DEF SameOut, SendsAlike, Located

\* A request that is refused has no token.
LEMMA RefusedUnlocated ==
  ASSUME IInv, NEW t \in Threads, tpc[t] \in Trying, NEW k \in Tokens, Located(k)
  PROVE  k.req # treq[t]
<1> USE DEF IInv
<1>1. treq[t] \in Reqs
  BY ThreadTypes DEF Trying
<1>2. \A d \in Descs : Out(d) => d.req # treq[t]
  BY DEF BookInv, ReqInv, Presend, Trying
<1>3. \A u \in Threads : tpc[u] \in {"sendlock", "send"} => u # t
  BY DEF Trying
<1>4. \A u \in Threads : u # t => treq[u] # treq[t]
  BY <1>1 DEF BookInv, ReqInv
<1>5. QED
  BY <1>2, <1>3, <1>4 DEF Located

\* Steps that leave the requests as they were, or refuse one.
LEMMA QuietTokens ==
  ASSUME IInv, TokenInv, SameOut, SameCounters, SendsAlike, UNCHANGED fate \/ RefusedOne,
         \A k \in Tokens : (\E t \in Threads : token'[t] = k) =>
           (\E t \in Threads : token[t] = k) \/ TokenOK(k)'
  PROVE  TokenInv'
<1>1. TypeOK /\ fate \in [Reqs -> {"none", "refused", "acked", "discarded"}]
  BY DEF IInv, TypeOK
<1>2. \A k \in Tokens : Located(k) => Located(k)'
  BY LocatedKept
<1>3. CASE UNCHANGED fate
  BY <1>1, <1>2, <1>3, TokensKept
<1>4. CASE RefusedOne
  <2>1. PICK t \in Threads : tpc[t] \in Trying /\ fate' = [fate EXCEPT ![treq[t]] = "refused"]
    BY <1>4 DEF RefusedOne
  <2>2. treq[t] \in Reqs /\ fate[treq[t]] = "none"
    BY <1>1, <2>1, ThreadTypes DEF Trying, IInv, BookInv, ReqInv, Presend
  <2>3. \A r \in Reqs : fate'[r] = IF r = treq[t] THEN "refused" ELSE fate[r]
    BY <1>1, <2>1
  <2>4. \A k \in Tokens : Located(k) => fate'[k.req] = fate[k.req]
    BY <1>1, <2>1, <2>3, RefusedUnlocated, CounterType
  <2>5. \A r \in Reqs : fate[r] # "none" => fate'[r] # "none"
    BY <2>2, <2>3
  <2>6. \A r \in Reqs :
          fate'[r] \in {"acked", "discarded"} <=> fate[r] \in {"acked", "discarded"}
    BY <2>2, <2>3
  <2>7. QED
    BY <1>1, <1>2, <2>4, <2>5, <2>6, TokensKept
<1>5. QED
  BY <1>3, <1>4

\* A check or a wait reports an answer.
LEMMA AckedTokens ==
  ASSUME IInv, TokenInv, SameOut, SameCounters, SendsAlike, UNCHANGED fate \/ RefusedOne,
         NEW t \in Threads, TokenAcked(t), token[t] # None, TokenDone(token[t])
  PROVE  TokenInv'
<1>1. TypeOK /\ token \in [Threads -> Tokens \cup {None}] /\ token[t] \in Tokens
  BY DEF IInv, TypeOK
<1>2. PICK j \in Tokens : j = token[t]
  BY <1>1
<1>3. TokenOK(j) /\ fate[j.req] # "none" /\ j.slot \in Slots /\ j.req \in Reqs
  BY <1>1, <1>2, CounterType DEF TokenInv, TokenOK, TokenDone
<1>4. PICK k : k = [j EXCEPT !.status = "ACKED"]
  OBVIOUS
<1>5. k.slot = j.slot /\ k.req = j.req /\ k.value = j.value
  BY <1>4 DEF Tokens
<1>6. token'[t] = k /\ \A u \in Threads \ {t} : token'[u] = token[u]
  BY <1>1, <1>2, <1>4 DEF TokenAcked
<1>7. fate'[j.req] # "none"
  <2>1. fate \in [Reqs -> {"none", "refused", "acked", "discarded"}]
    BY <1>1 DEF TypeOK
  <2>2. CASE UNCHANGED fate
    BY <1>3, <2>2
  <2>3. CASE RefusedOne
    BY <1>3, <2>1, <2>3 DEF RefusedOne
  <2>4. QED
    BY <2>2, <2>3
<1>8. rdma_status'[j.slot].msg_id_counter > j.value
  BY <1>3 DEF TokenOK, SameCounters
<1>9. TokenOK(k)'
  BY <1>5, <1>7, <1>8 DEF TokenOK
<1>10. QED
  BY <1>6, <1>9, QuietTokens

\* Send puts the request of a token where the NIC finds it.
LEMMA SendTokens ==
  ASSUME IInv, TokenInv, NEW t \in Threads, Send(t)
  PROVE  TokenInv'
<1>1. SameCounters /\ UNCHANGED <<fate, nreq, token>>
  BY SendKind
<1>2. PICK x \in Descs : x.slot = tslot[t] /\ x.req = treq[t] /\ \A d : Out(d)' <=> Out(d) \/ d = x
  BY SendKind
<1>3. \A u \in Threads \ {t} : tpc'[u] = tpc[u] /\ tslot'[u] = tslot[u] /\ treq'[u] = treq[u]
  BY SendKind
<1>4. ASSUME NEW k \in Tokens, Located(k) PROVE Located(k)'
  BY <1>2, <1>3, <1>4 DEF Located
<1>5. QED
  BY <1>1, <1>4, TokensKept DEF IInv

\* Setup of an asynchronous request gives its caller a token.
LEMMA SetupTokens ==
  ASSUME IInv, TokenInv, NEW t \in Threads, Setup(t)
  PROVE  TokenInv'
<1>1. /\ SameOut /\ SameCounters /\ SendsAlike /\ UNCHANGED <<fate, nreq>>
      /\ tslot[t] \in Slots /\ treq[t] \in Reqs /\ fate[treq[t]] = "none"
      /\ tpc'[t] = "sendlock" /\ tslot'[t] = tslot[t] /\ treq'[t] = treq[t]
  BY SetupKind
<1>2. PICK j : j = [slot |-> tslot[t], value |-> rdma_status[tslot[t]].msg_id_counter,
                    status |-> "PENDING", req |-> treq[t]]
  OBVIOUS
<1>3. token' = token \/ token' = [token EXCEPT ![t] = j]
  BY <1>2, SetupKind
<1>4. /\ j.slot = tslot[t] /\ j.value = rdma_status[tslot[t]].msg_id_counter
      /\ j.status = "PENDING" /\ j.req = treq[t]
  BY <1>2
<1>5. TokenOK(j)'
  <2>1. Located(j)'
    BY <1>1, <1>4 DEF Located
  <2>2. rdma_status'[j.slot].msg_id_counter = j.value /\ fate'[j.req] = "none"
    BY <1>1, <1>4 DEF SameCounters
  <2>3. QED
    BY <1>4, <2>1, <2>2 DEF TokenOK
<1>6. token \in [Threads -> Tokens \cup {None}]
  BY DEF IInv, TypeOK
<1>7. \A k \in Tokens : (\E u \in Threads : token'[u] = k) =>
        (\E u \in Threads : token[u] = k) \/ TokenOK(k)'
  BY <1>3, <1>5, <1>6
<1>8. QED
  BY <1>1, <1>7, QuietTokens

\* The counter of the answered request's slot moves past the value of its token, and
\* no other token of a request that is still waited for has that slot.
LEMMA HandleAckTokens ==
  ASSUME MaxReqs < CounterMod, IInv, TokenInv, HandleAck
  PROVE  TokenInv'
<1> USE DEF IInv
<1>1. PICK x \in Descs :
        /\ Out(x) /\ x.slot \in Slots /\ x.req \in Reqs
        /\ \A d : Out(d)' <=> Out(d) /\ d # x
        /\ fate[x.req] = "none"
        /\ \E f \in {"acked", "discarded"} : fate' = [fate EXCEPT ![x.req] = f]
        /\ \A s \in Slots \ {x.slot} :
             rdma_status'[s].msg_id_counter = rdma_status[s].msg_id_counter
        /\ rdma_status'[x.slot].msg_id_counter
             = (rdma_status[x.slot].msg_id_counter + 1) % CounterMod
        /\ UNCHANGED <<nreq, token, tpc, tslot, treq>>
  BY HandleAckKind
<1>2. /\ fate \in [Reqs -> {"none", "refused", "acked", "discarded"}]
      /\ fate'[x.req] \in {"acked", "discarded"}
      /\ \A r \in Reqs \ {x.req} : fate'[r] = fate[r]
  BY <1>1 DEF TypeOK
<1>3. x.req \in Reqs \ Done /\ Done' = Done \cup {x.req}
  BY <1>1, <1>2 DEF Done
<1>4. PICK n \in Nat : n = Cardinality(Done) /\ Cardinality(Done') = n + 1 /\ n + 1 <= MaxReqs
  <2>1. Done \in SUBSET Reqs /\ Done' \in SUBSET Reqs
    BY DEF Done
  <2>2. Cardinality(Done) \in Nat /\ Cardinality(Done') <= MaxReqs
    BY <2>1, ReqCount
  <2>3. Cardinality(Done') = Cardinality(Done) + 1
    BY <1>3, <2>1, ReqCount
  <2>4. QED
    BY <2>2, <2>3
<1>5. PICK c \in Nat : c = rdma_status[x.slot].msg_id_counter /\ c <= n
  BY <1>1, <1>4, CounterType DEF TokenInv, Counted
<1>6. rdma_status'[x.slot].msg_id_counter = c + 1
  <2>1. c + 1 < CounterMod /\ c + 1 \in Nat
    BY <1>4, <1>5
  <2>2. (c + 1) % CounterMod = c + 1
    BY <2>1
  <2>3. QED
    BY <1>1, <1>5, <2>2
<1>7. Counted'
  <2>1. ASSUME NEW s \in Slots PROVE rdma_status'[s].msg_id_counter <= n + 1
    <3>1. CASE s = x.slot
      BY <1>5, <1>6, <3>1
    <3>2. CASE s # x.slot
      <4>1. rdma_status[s].msg_id_counter \in Nat /\ rdma_status[s].msg_id_counter <= n
        BY <1>4, CounterType DEF TokenInv, Counted
      <4>2. QED
        BY <1>1, <3>2, <4>1
    <3>3. QED
      BY <3>1, <3>2
  <2>2. QED
    BY <1>4, <2>1 DEF Counted
<1>8. ASSUME NEW k \in Tokens, \E t \in Threads : token[t] = k PROVE TokenOK(k)'
  <2>1. k.slot \in Slots /\ k.req \in Reqs /\ k.value \in Nat /\ TokenOK(k)
        /\ rdma_status[k.slot].msg_id_counter \in Nat
    BY <1>8, CounterType DEF TokenInv
  <2>2. CASE fate[k.req] # "none"
    <3>1. k.req # x.req /\ fate'[k.req] # "none"
      BY <1>1, <1>2, <2>1, <2>2
    <3>2. rdma_status[k.slot].msg_id_counter > k.value
      BY <2>1, <2>2 DEF TokenOK
    <3>3. rdma_status'[k.slot].msg_id_counter > k.value
      BY <1>1, <1>5, <1>6, <2>1, <3>2
    <3>4. QED
      BY <3>1, <3>3 DEF TokenOK
  <2>3. CASE fate[k.req] = "none" /\ k.req = x.req
    <3>1. Located(k) /\ rdma_status[k.slot].msg_id_counter = k.value
      BY <2>1, <2>3 DEF TokenOK
    <3>2. \A u \in Threads : tpc[u] \in {"sendlock", "send"} => treq[u] # x.req
      BY <1>1 DEF BookInv, ReqInv, Presend, Unsent
    <3>3. k.slot = x.slot
      <4>1. PICK d \in Descs : Out(d) /\ d.req = k.req /\ d.slot = k.slot
        BY <2>3, <3>1, <3>2 DEF Located
      <4>2. d = x
        BY <1>1, <2>3, <4>1 DEF BookInv, DescInv
      <4>3. QED
        BY <4>1, <4>2
    <3>4. QED
      BY <1>2, <1>5, <1>6, <2>1, <2>3, <3>1, <3>3 DEF TokenOK
  <2>4. CASE fate[k.req] = "none" /\ k.req # x.req
    <3>1. Located(k) /\ rdma_status[k.slot].msg_id_counter = k.value /\ k.status = "PENDING"
      BY <2>1, <2>4 DEF TokenOK
    <3>2. Busy(x.slot)
      BY <1>1 DEF Busy
    <3>3. \A u \in Threads : tpc[u] \in {"sendlock", "send"} => tslot[u] # x.slot
      BY <1>1, <3>2 DEF BookInv, PlaceInv, Held, Unsent
    <3>4. \A d \in Descs : Out(d) /\ d.slot = x.slot => d = x
      BY <1>1, OneDesc
    <3>5. k.slot # x.slot
      BY <2>4, <3>1, <3>3, <3>4 DEF Located
    <3>6. Located(k)'
      BY <1>1, <2>4, <3>1 DEF Located
    <3>7. rdma_status'[k.slot].msg_id_counter = k.value /\ fate'[k.req] = "none"
      BY <1>1, <1>2, <2>1, <2>4, <3>1, <3>5
    <3>8. QED
      BY <3>1, <3>6, <3>7 DEF TokenOK
  <2>5. QED
    BY <2>2, <2>3, <2>4
<1>9. QED
  BY <1>1, <1>7, <1>8 DEF TokenInv

LEMMA InitTokens == Init => TokenInv
<1>1. SUFFICES ASSUME Init PROVE TokenInv
  OBVIOUS
<1>2. \A t \in Threads : token[t] = None
  BY <1>1 DEF Init
<1>3. Cardinality(Done) \in Nat
  BY ReqCount DEF Done
<1>4. \A s \in Slots : rdma_status[s].msg_id_counter = 0
  BY <1>1 DEF Init
<1>5. QED
  BY <1>2, <1>3, <1>4 DEF TokenInv, Counted

LEMMA NextTokens ==
  ASSUME MaxReqs < CounterMod
  PROVE  IInv /\ TokenInv /\ [Next]_vars => TokenInv'
<1>1. SUFFICES ASSUME IInv, TokenInv, [Next]_vars PROVE TokenInv'
  OBVIOUS
<1>2. CASE UNCHANGED vars
  <2>1. UNCHANGED <<hwtx, flight, hwrx, kpc, kack, fate, rdma_status, tpc, tslot, treq, token>>
    BY <1>2 DEF vars
  <2>2. SameOut
    BY <1>1, <2>1, OutStill DEF IInv, SameOut
  <2>3. SameCounters /\ SendsAlike
    BY <2>1 DEF SameCounters, SendsAlike
  <2>4. QED
    BY <1>1, <2>1, <2>2, <2>3, QuietTokens
<1>3. CASE Transmit \/ Reply \/ axiomnet_irqhandler \/ axiom_hw_ack_irq \/ axkt_worker
             \/ axiom_rdma_rx_dequeue \/ axiomnet_watchdog_worker
  <2>1. CASE HandleAck
    BY <1>1, <2>1, HandleAckTokens
  <2>2. CASE ~HandleAck
    <3>1. SameOut /\ SameCounters /\ SendsAlike /\ UNCHANGED <<fate, nreq, token>>
      BY <1>1, <1>3, <2>2, KernelKind DEF axiom_rdma_rx_dequeue
    <3>2. QED
      BY <1>1, <3>1, QuietTokens
  <2>3. QED
    BY <2>1, <2>2
<1>4. ASSUME NEW t \in Threads,
             \/ Call(t) \/ axiomnet_rdma_tx(t) \/ SignalAvail(t) \/ SignalAck(t)
             \/ axiomnet_rdma_check(t) \/ CallWait(t) \/ axiomnet_rdma_wait(t) \/ SignalWait(t)
      PROVE  TokenInv'
  <2>1. CASE Setup(t)
    BY <1>1, <2>1, SetupTokens
  <2>2. CASE Send(t)
    BY <1>1, <2>2, SendTokens
  <2>3. CASE ~Setup(t) /\ ~Send(t)
    <3>1. /\ SameOut /\ SameCounters /\ SendsAlike
          /\ UNCHANGED fate \/ RefusedOne
          /\ \/ UNCHANGED token
             \/ TokenAcked(t) /\ token[t] # None /\ TokenDone(token[t])
      BY <1>1, <1>4, <2>3, ThreadKind DEF axiomnet_rdma_tx
    <3>2. QED
      BY <1>1, <3>1, QuietTokens, AckedTokens
  <2>4. QED
    BY <2>1, <2>2, <2>3
<1>5. QED
  BY <1>1, <1>2, <1>3, <1>4 DEF Next

LEMMA AnswersInv == IInv /\ TokenInv => AnswersExact
<1>1. SUFFICES ASSUME IInv, TokenInv PROVE TokenExact
  BY SyncInv DEF AnswersExact
<1>2. ASSUME NEW t \in Threads, token[t] # None
      PROVE  /\ TokenDone(token[t]) <=> fate[token[t].req] # "none"
             /\ token[t].status = "ACKED" => fate[token[t].req] # "none"
  <2>1. PICK k \in Tokens : k = token[t]
    BY <1>1, <1>2 DEF IInv, TypeOK
  <2>2. TokenOK(k) /\ k.value \in Nat /\ rdma_status[k.slot].msg_id_counter \in Nat
    BY <1>1, <2>1, CounterType DEF TokenInv, IInv
  <2>3. QED
    BY <2>1, <2>2 DEF TokenOK, TokenDone
<1>3. QED
  BY <1>2 DEF TokenExact

\* What the driver tells a caller of its request is true, as long as the counters do
\* not wrap, that is, for fewer requests than msg_id_counter has values: a token that
\* axiomnet_rdma_check or axiomnet_rdma_wait looks at is done exactly if its request
\* was answered, however often its slot was used since, and a synchronous call
\* succeeds only after its own answer.
THEOREM Answers ==
  ASSUME MaxReqs < CounterMod
  PROVE  Spec => []AnswersExact
<1>1. Spec => [](IInv /\ TokenInv)
  BY Invariance, InitTokens, NextTokens, PTL DEF Spec
<1>2. QED
  BY <1>1, AnswersInv, PTL
=============================================================================
