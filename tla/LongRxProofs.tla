---------------------------- MODULE LongRxProofs ----------------------------
(***************************************************************************)
(* Proofs about LongRx for any number of ports, slots, buffers, threads    *)
(* and messages.                                                           *)
(***************************************************************************)
EXTENDS LongRx, FiniteSetTheorems, SequenceTheorems, WellFoundedInduction, TLAPS

\* The descriptors that the kthread has read are numbered 1 .. Read.
Read == arrived - Len(hwrx)
KOpen == kpc \in {"pop", "put"}

\* The NIC numbers the descriptors in order; no two that are not decided have one id.
Numbered ==
  /\ Len(hwrx) <= arrived
  /\ \A i \in 1 .. Len(hwrx) : hwrx[i].id = Read + i
  /\ KOpen => kmsg.id = Read
  /\ \A s \in Waiting : desc[s].id <= Read /\ (KOpen => desc[s].id # Read)
  /\ \A s, r \in Waiting : desc[s].id = desc[r].id => s = r

\* The fate of a message is open until it is decided.
FateOpen ==
  /\ \A i \in Ids : i > Read => fate[i] = "none"
  /\ KOpen => fate[kmsg.id] = "none"
  /\ \A s \in Waiting : fate[desc[s].id] = "none"

\* The payload of a message is in its buffer, which the NIC does not have.
Intact(m) == m.addr \in Bufs => m.addr \notin hwfree /\ payload[m.addr] = m.id

Payloads ==
  /\ \A i \in 1 .. Len(hwrx) : Intact(hwrx[i])
  /\ \A i \in 1 .. Len(hwrx) : hwrx[i].type # "LONG_DATA" => hwrx[i].addr \notin Bufs
  /\ KOpen => Intact(kmsg)
  /\ \A s \in Waiting : Intact(desc[s])

\* The buffer that a reader is about to give back is that of a decided message.
Handed ==
  /\ \A t \in Threads : tbuf[t] # None =>
       tbuf[t] \notin hwfree /\ payload[tbuf[t]] # None /\ fate[payload[tbuf[t]]] # "none"
  /\ \A t, u \in Threads : tbuf[t] # None /\ tbuf[t] = tbuf[u] => t = u
  /\ \A t \in Threads : tpc[t] = "free" => tbuf[t] = axiomnet_long_rdma2buf(desc[tslot[t]].addr)

\* A slot that is not free has a header, that of a LONG message; in kslot, of kmsg.
Filled ==
  /\ \A s \in Slots \ free : desc[s] # None
  /\ kpc = "put" => desc[kslot] = kmsg

\* As long as no wrong address arrived, no message has one.
Straight == ~wrong =>
  /\ \A i \in 1 .. Len(hwrx) : hwrx[i].type = "LONG_DATA" => hwrx[i].addr \in Bufs
  /\ kmsg # None => kmsg.addr \in Bufs
  /\ \A s \in Slots : desc[s] # None => desc[s].addr \in Bufs

\* A reader owns the mutex between mutex_lock and mutex_unlock, and what it saw in
\* the queue is still there.
MutexHeld ==
  \A t \in Threads :
    /\ tpc[t] \in {"test", "dequeue"} => mutex[tport[t]] = t
    /\ tpc[t] = "dequeue" => fifo[tport[t]] # <<>>

NotCorrupt == \A i \in Ids : fate[i] # "corrupt"

\* Where a buffer may be: BuffersLostOnlyByDiscard in terms of places.
Placed(b) ==
  \/ b \in hwfree \/ Dropped(b)
  \/ \E i \in 1 .. Len(hwrx) : hwrx[i].addr = b
  \/ KOpen /\ kmsg.addr = b
  \/ \E s \in Waiting : desc[s].addr = b
  \/ \E t \in Threads : tbuf[t] = b
AllPlaced == \A b \in Bufs : Placed(b)

Messages == Numbered /\ FateOpen /\ Payloads /\ Handed /\ NotCorrupt /\ AllPlaced
SlotsOK == SlotsLostOnlyByFlush /\ Filled
Control == MutexHeld /\ NoLostWakeup

IInv == TypeOK /\ Messages /\ SlotsOK /\ Straight /\ Control /\ EnoughSlots
-----------------------------------------------------------------------------
\* The part of the assumptions that nearly every step needs.
LEMMA Constants ==
  /\ BadPort \notin Ports /\ BadAddr \notin Bufs /\ HwLen \in Nat /\ MaxMsgs \in Nat
  /\ None \notin Slots /\ None \notin Bufs /\ None \notin Threads
  /\ None \notin Msgs /\ None \notin Ids
  BY LongRxAssumption

USE Constants

\* The initial state satisfies the invariant.
LEMMA InitInv == Init => IInv
  <1> SUFFICES ASSUME Init PROVE IInv
    OBVIOUS
  <1>1. TypeOK
    <2>1. NicType
      <3>1. <<>> \in Seq(Msgs) /\ Len(<<>>) <= HwLen /\ 0 \in 0 .. MaxMsgs
        OBVIOUS
      <3> QED BY <3>1 DEF Init, NicType
    <2>2. KthreadType
      BY DEF Init, KthreadType
    <2>3. QueueType /\ UserType
      BY DEF Init, QueueType, UserType
    <2>4. HistoryType
      BY DEF Init, HistoryType
    <2> QED BY <2>1, <2>2, <2>3, <2>4 DEF TypeOK
  <1>2. Waiting = {} /\ Held = {} /\ ~KOpen
    BY DEF Init, Waiting, Held, KOpen, Range
  <1>3. Numbered /\ FateOpen /\ Payloads /\ Handed /\ NotCorrupt
    BY <1>2 DEF Init, Numbered, FateOpen, Payloads, Handed, NotCorrupt, Read
  <1>4. AllPlaced /\ Filled /\ Straight /\ Control /\ EnoughSlots
    BY DEF Init, AllPlaced, Placed, Filled, Straight, Control, MutexHeld, NoLostWakeup,
           EnoughSlots
  <1>5. SlotsLostOnlyByFlush
    BY <1>2 DEF Init, SlotsLostOnlyByFlush
  <1> QED BY <1>1, <1>3, <1>4, <1>5 DEF IInv, Messages, SlotsOK
-----------------------------------------------------------------------------
(* Sequences *)

\* What is known of the rest of a queue.
LEMMA TailFacts ==
  ASSUME NEW S, NEW q \in Seq(S), q # <<>>
  PROVE  /\ Head(q) = q[1] /\ q[1] \in S /\ Len(q) \in Nat \ {0}
         /\ Tail(q) \in Seq(S) /\ Len(Tail(q)) = Len(q) - 1
         /\ \A i \in 1 .. Len(q) - 1 : Tail(q)[i] = q[i + 1]
  OBVIOUS

LEMMA AppendFacts ==
  ASSUME NEW S, NEW q \in Seq(S), NEW e \in S
  PROVE  /\ Append(q, e) \in Seq(S) /\ Len(Append(q, e)) = Len(q) + 1 /\ Len(q) \in Nat
         /\ Append(q, e)[Len(q) + 1] = e
         /\ \A i \in 1 .. Len(q) : Append(q, e)[i] = q[i]
  OBVIOUS

LEMMA RangeFacts ==
  ASSUME NEW S, NEW q \in Seq(S)
  PROVE  /\ Range(q) = {q[i] : i \in 1 .. Len(q)} /\ Range(q) \subseteq S
         /\ \A x : x \in Range(q) <=> \E i \in 1 .. Len(q) : q[i] = x
  BY DEF Range
-----------------------------------------------------------------------------
(* Types *)

\* All steps of one thread.
Steps(t) ==
  \/ Call(t) \/ Lock(t) \/ RecvTest(t) \/ RecvWait(t) \/ Signal(t) \/ RecvDequeue(t)
  \/ RecvCopy(t) \/ RecvFree(t) \/ RecvGiveBack(t) \/ LongFlush(t)

LEMMA NextSplit ==
  ASSUME [Next]_vars
  PROVE  \/ UNCHANGED vars \/ ArriveLong \/ ArriveOther
         \/ DequeueRead \/ DequeuePop \/ DequeuePut \/ DequeueWake
         \/ \E t \in Threads : Steps(t)
  BY DEF Next, axiom_rdma_rx_dequeue, axiomnet_long_recv, Steps

\* The number at which axiomnet_long_flush stops.
LEMMA FlushableFacts ==
  ASSUME NEW q \in Seq(Slots)
  PROVE  LET n == Flushable(q) IN
         /\ n \in 0 .. Len(q)
         /\ \A i \in 1 .. n : axiomnet_long_rdma2buf(desc[q[i]].addr) # None
         /\ n = Len(q) \/ axiomnet_long_rdma2buf(desc[q[n + 1]].addr) = None
  <1> DEFINE Bad(i) == axiomnet_long_rdma2buf(desc[q[i]].addr) = None
             Good(n) == \A i \in 1 .. n : axiomnet_long_rdma2buf(desc[q[i]].addr) # None
             T == {i \in Nat : i \in 1 .. Len(q) /\ Bad(i)}
             R == OpToRel(<, Nat)
  <1>0. Len(q) \in Nat
    OBVIOUS
  <1>1. \E n \in 0 .. Len(q) : Good(n) /\ (n = Len(q) \/ ~Good(n + 1))
    <2>1. CASE T = {}
      <3>1. Good(Len(q)) /\ Len(q) \in 0 .. Len(q)
        BY <1>0, <2>1
      <3> QED BY <3>1
    <2>2. CASE T # {}
      <3>1. PICK x \in T : \A y \in T : <<y, x>> \notin R
        <4> HIDE DEF T, R
        <4>1. IsWellFoundedOn(R, Nat) /\ T \subseteq Nat
          BY NatLessThanWellFounded DEF R, T
        <4> QED BY <2>2, <4>1, WFMin
      <3>2. \A y \in T : ~(y < x)
        BY <3>1 DEF OpToRel
      <3>3. x \in 1 .. Len(q) /\ x - 1 \in 0 .. Len(q) /\ (x - 1) + 1 = x /\ Bad(x)
        <4>1. x \in 1 .. Len(q) /\ Bad(x)
          OBVIOUS
        <4>2. \A n \in 1 .. Len(q) : n - 1 \in 0 .. Len(q) /\ (n - 1) + 1 = n
          BY <1>0
        <4> QED BY <4>1, <4>2
      <3>4. Good(x - 1)
        BY <1>0, <3>2, <3>3
      <3>5. ~Good((x - 1) + 1)
        <4>1. ~Good(x)
          <5>1. x \in 1 .. x /\ Bad(x)
            BY <1>0, <3>3
          <5> QED BY <5>1
        <4> HIDE DEF Good
        <4> QED BY <3>3, <4>1
      <3> QED BY <3>3, <3>4, <3>5
    <2> QED BY <2>1, <2>2
  <1>2. /\ Flushable(q) \in 0 .. Len(q) /\ Good(Flushable(q))
        /\ Flushable(q) = Len(q) \/ ~Good(Flushable(q) + 1)
    BY <1>1 DEF Flushable
  <1>3. \A n \in 0 .. Len(q) : Good(n) /\ ~Good(n + 1) => Bad(n + 1)
    BY <1>0
  <1> HIDE DEF Good
  <1>4. Flushable(q) = Len(q) \/ Bad(Flushable(q) + 1)
    BY <1>2, <1>3
  <1> QED BY <1>2, <1>4 DEF Good

\* What is left of a queue whose first n and the one after them were removed.
LEMMA RestFacts ==
  ASSUME NEW q \in Seq(Slots), NEW n \in 0 .. Len(q)
  PROVE  LET r == SubSeq(q, n + 2, Len(q)) IN
         /\ r \in Seq(Slots) /\ Len(r) = IF n < Len(q) THEN Len(q) - n - 1 ELSE 0
         /\ \A i \in 1 .. Len(r) : r[i] = q[n + 1 + i]
  <1>1. Len(q) \in Nat /\ n \in Nat /\ \A i \in n + 2 .. Len(q) : q[i] \in Slots
    OBVIOUS
  <1>2. /\ SubSeq(q, n + 2, Len(q)) \in Seq(Slots)
        /\ Len(SubSeq(q, n + 2, Len(q))) = IF n + 2 <= Len(q) THEN Len(q) - (n + 2) + 1 ELSE 0
        /\ \A i \in 1 .. Len(q) - (n + 2) + 1 : SubSeq(q, n + 2, Len(q))[i] = q[n + 2 + i - 1]
    BY <1>1, SubSeqProperties
  <1> QED BY <1>1, <1>2

\* A flush of the queue q of port p up to n.
Flushed(t, p, q, n) ==
  /\ tpc[t] = "flush" /\ p = tport[t] /\ p \in Ports /\ mutex[p] = None
  /\ q = fifo[p] /\ q \in Seq(Slots) /\ n \in 0 .. Len(q)
  /\ \A i \in 1 .. n : desc[q[i]].addr \in Bufs
  /\ n < Len(q) => desc[q[n + 1]].addr \notin Bufs
  /\ fifo' = [fifo EXCEPT ![p] = SubSeq(q, n + 2, Len(q))]
  /\ free' = free \cup {q[i] : i \in 1 .. n}
  /\ hwfree' = hwfree \cup {desc[q[i]].addr : i \in 1 .. n}
  /\ fate' = [i \in Ids |-> IF \E j \in 1 .. Len(q) : j <= n + 1 /\ desc[q[j]].id = i
                             THEN "flushed" ELSE fate[i]]
  /\ tpc' = [tpc EXCEPT ![t] = "idle"] /\ tport' = [tport EXCEPT ![t] = BadPort]
  /\ UNCHANGED <<hwrx, arrived, payload, wrong, kpc, kmsg, kslot, desc, tslot, tbuf, mutex, errors>>

LEMMA FlushForm ==
  ASSUME TypeOK, NEW t \in Threads, LongFlush(t)
  PROVE  \E p, q, n : Flushed(t, p, q, n)
  <1> DEFINE p == tport[t]
             q == fifo[p]
             n == Flushable(q)
  <1>1. tpc[t] = "flush" /\ mutex[p] = None
    BY DEF LongFlush
  <1>2. p \in Ports
    BY <1>1 DEF TypeOK, UserType
  <1>3. q \in Seq(Slots) /\ Len(q) \in Nat
    BY <1>2 DEF TypeOK, QueueType
  <1>4. /\ n \in 0 .. Len(q)
        /\ \A i \in 1 .. n : axiomnet_long_rdma2buf(desc[q[i]].addr) # None
        /\ n = Len(q) \/ axiomnet_long_rdma2buf(desc[q[n + 1]].addr) = None
    <2> HIDE DEF q
    <2> QED BY <1>3, FlushableFacts
  <1>5. /\ \A i \in 1 .. n : desc[q[i]].addr \in Bufs
        /\ n < Len(q) => desc[q[n + 1]].addr \notin Bufs
    BY <1>3, <1>4 DEF axiomnet_long_rdma2buf
  <1>6. /\ fifo' = [fifo EXCEPT ![p] = SubSeq(q, n + 2, Len(q))]
        /\ free' = free \cup {q[i] : i \in 1 .. n}
        /\ tpc' = [tpc EXCEPT ![t] = "idle"] /\ tport' = [tport EXCEPT ![t] = BadPort]
        /\ UNCHANGED <<hwrx, arrived, payload, wrong, kpc, kmsg, kslot, desc, tslot, tbuf, mutex, errors>>
    BY DEF LongFlush, Return, Goto, kthread
  <1>7. hwfree' = hwfree \cup {desc[q[i]].addr : i \in 1 .. n}
    <2>1. hwfree' = hwfree \cup {desc[s].addr : s \in {q[i] : i \in 1 .. n}}
      BY DEF LongFlush, axiom_hw_set_long_buf
    <2> HIDE DEF n, q
    <2> QED BY <2>1
  <1>8. fate' = [i \in Ids |-> IF \E j \in 1 .. Len(q) : j <= n + 1 /\ desc[q[j]].id = i
                             THEN "flushed" ELSE fate[i]]
    <2> DEFINE gone == {q[i] : i \in 1 .. IF n < Len(q) THEN n + 1 ELSE n}
    <2>1. fate' = [i \in Ids |-> IF \E s \in gone : desc[s].id = i THEN "flushed" ELSE fate[i]]
      BY DEF LongFlush
    <2> HIDE DEF n, q
    <2>2. \A j : j \in 1 .. (IF n < Len(q) THEN n + 1 ELSE n) <=> j \in 1 .. Len(q) /\ j <= n + 1
      BY <1>3, <1>4
    <2>3. \A i \in Ids : (\E s \in gone : desc[s].id = i)
                        <=> \E j \in 1 .. Len(q) : j <= n + 1 /\ desc[q[j]].id = i
      BY <2>2
    <2> HIDE DEF gone
    <2> QED BY <2>1, <2>3
  <1>9. Flushed(t, p, q, n)
    <2> HIDE DEF n
    <2> QED BY <1>1, <1>2, <1>3, <1>4, <1>5, <1>6, <1>7, <1>8 DEF Flushed
  <1> QED BY <1>9

\* A step preserves TypeOK.
LEMMA TypesStep == TypeOK /\ [Next]_vars => TypeOK'
  <1> SUFFICES ASSUME TypeOK, [Next]_vars PROVE TypeOK'
    OBVIOUS
  <1>0. NicType /\ KthreadType /\ QueueType /\ UserType /\ HistoryType
    BY DEF TypeOK
  <1>n. ASSUME UNCHANGED nic PROVE NicType'
    BY <1>0, <1>n DEF NicType, nic
  <1>k. ASSUME UNCHANGED kthread PROVE KthreadType'
    BY <1>0, <1>k DEF KthreadType, kthread
  <1>q. ASSUME UNCHANGED queue PROVE QueueType'
    BY <1>0, <1>q DEF QueueType, queue
  <1>u. ASSUME UNCHANGED users PROVE UserType'
    BY <1>0, <1>u DEF UserType, users
  <1>h. ASSUME UNCHANGED history PROVE HistoryType'
    BY <1>0, <1>h DEF HistoryType, history
  <1>1. CASE UNCHANGED vars
    BY <1>1, <1>n, <1>k, <1>q, <1>u, <1>h DEF vars, TypeOK
  <1>2. CASE ArriveLong
    <2>1. PICK b \in hwfree, p \in Ports \cup {BadPort} :
            /\ hwfree' = hwfree \ {b} /\ payload' = [payload EXCEPT ![b] = arrived + 1]
            /\ hwrx' = Append(hwrx, [id |-> arrived + 1, type |-> "LONG_DATA", port |-> p, addr |-> b])
      BY <1>2 DEF ArriveLong, Push
    <2>2. arrived + 1 \in Ids /\ arrived' = arrived + 1 /\ arrived' \in 0 .. MaxMsgs
          /\ Len(hwrx) < HwLen /\ wrong' = wrong
      BY <1>0, <1>2 DEF ArriveLong, Push, NicType, Ids
    <2>3. [id |-> arrived + 1, type |-> "LONG_DATA", port |-> p, addr |-> b] \in Msgs
      BY <1>0, <2>2 DEF Msgs, Types, NicType
    <2>4. hwrx' \in Seq(Msgs) /\ Len(hwrx') <= HwLen
      <3>1. hwrx' \in Seq(Msgs) /\ Len(hwrx') = Len(hwrx) + 1 /\ Len(hwrx) \in Nat
        BY <1>0, <2>1, <2>3, AppendFacts DEF NicType
      <3> QED BY <2>2, <3>1
    <2>5. NicType'
      BY <1>0, <2>1, <2>2, <2>4 DEF NicType
    <2> QED BY <1>2, <1>k, <1>q, <1>u, <1>h, <2>5 DEF ArriveLong, TypeOK
  <1>3. CASE ArriveOther
    <2>1. PICK ty \in Types, p \in Ports :
            /\ hwrx' = Append(hwrx, [id |-> arrived + 1, type |-> ty, port |-> p, addr |-> BadAddr])
            /\ wrong' = (wrong \/ ty = "LONG_DATA")
      BY <1>3 DEF ArriveOther, Push
    <2>2. arrived + 1 \in Ids /\ arrived' = arrived + 1 /\ arrived' \in 0 .. MaxMsgs
          /\ Len(hwrx) < HwLen /\ UNCHANGED <<hwfree, payload>>
      BY <1>0, <1>3 DEF ArriveOther, Push, NicType, Ids
    <2>3. [id |-> arrived + 1, type |-> ty, port |-> p, addr |-> BadAddr] \in Msgs
      BY <1>0, <2>2 DEF Msgs
    <2>4. hwrx' \in Seq(Msgs) /\ Len(hwrx') <= HwLen
      <3>1. hwrx' \in Seq(Msgs) /\ Len(hwrx') = Len(hwrx) + 1 /\ Len(hwrx) \in Nat
        BY <1>0, <2>1, <2>3, AppendFacts DEF NicType
      <3> QED BY <2>2, <3>1
    <2>5. NicType'
      BY <1>0, <2>1, <2>2, <2>4 DEF NicType
    <2> QED BY <1>3, <1>k, <1>q, <1>u, <1>h, <2>5 DEF ArriveOther, TypeOK
  <1>4. CASE DequeueRead
    <2>1. hwrx \in Seq(Msgs) /\ hwrx # <<>> /\ Len(hwrx) <= HwLen /\ hwrx' = Tail(hwrx)
      BY <1>0, <1>4 DEF DequeueRead, NicType
    <2>2. Head(hwrx) \in Msgs /\ hwrx' \in Seq(Msgs) /\ Len(hwrx') = Len(hwrx) - 1 /\ Len(hwrx) \in Nat
      BY <2>1, TailFacts
    <2>3. NicType'
      BY <1>0, <1>4, <2>1, <2>2 DEF DequeueRead, NicType
    <2>5. KthreadType'
      BY <1>0, <1>4, <2>2 DEF DequeueRead, KthreadType
    <2>6. HistoryType'
      BY <1>0, <1>4, <2>2 DEF DequeueRead, Decide, HistoryType
    <2> QED BY <1>4, <1>q, <1>u, <2>3, <2>5, <2>6 DEF DequeueRead, TypeOK
  <1>5. CASE DequeuePop
    <2>1. kmsg \in Msgs /\ kmsg.id \in Ids /\ kpc = "pop" /\ kslot = None
      BY <1>0, <1>5 DEF DequeuePop, KthreadType, Msgs
    <2>2. KthreadType'
      <3>1. CASE free = {}
        BY <1>5, <2>1, <3>1 DEF DequeuePop, KthreadType
      <3>2. CASE free # {}
        <4>1. kpc' = "put" /\ kmsg' = kmsg /\ kslot' \in free
          BY <1>5, <3>2 DEF DequeuePop, eviq_free_pop
        <4>2. kslot' \in Slots
          BY <1>0, <4>1 DEF QueueType
        <4> QED BY <2>1, <4>1, <4>2 DEF KthreadType
      <3> QED BY <3>1, <3>2
    <2>3. QueueType'
      BY <1>0, <1>5, <2>1 DEF DequeuePop, eviq_free_pop, QueueType
    <2>4. HistoryType'
      BY <1>0, <1>5, <2>1 DEF DequeuePop, Decide, history, HistoryType
    <2> QED BY <1>5, <1>n, <1>u, <2>2, <2>3, <2>4 DEF DequeuePop, TypeOK
  <1>6. CASE DequeuePut
    <2>1. kmsg \in Msgs /\ kmsg.id \in Ids /\ kpc = "put" /\ kslot \in Slots
      BY <1>0, <1>6 DEF DequeuePut, KthreadType, Msgs
    <2>2. KthreadType'
      BY <1>0, <1>6, <2>1 DEF DequeuePut, KthreadType
    <2>3. QueueType'
      <3>1. CASE kmsg.port = BadPort
        BY <1>0, <1>6, <2>1, <3>1 DEF DequeuePut, DiscardSlot, QueueType
      <3>2. CASE kmsg.port # BadPort
        <4>1. kmsg.port \in Ports
          BY <2>1, <3>2 DEF Msgs
        <4>2. Append(fifo[kmsg.port], kslot) \in Seq(Slots)
          BY <1>0, <2>1, <4>1, AppendFacts DEF QueueType
        <4> QED BY <1>0, <1>6, <3>2, <4>1, <4>2 DEF DequeuePut, eviq_enqueue, QueueType
      <3> QED BY <3>1, <3>2
    <2>4. HistoryType'
      BY <1>0, <1>6, <2>1 DEF DequeuePut, Decide, HistoryType
    <2> QED BY <1>6, <1>n, <1>u, <2>2, <2>3, <2>4 DEF DequeuePut, TypeOK
  <1>7. CASE DequeueWake
    <2>1. KthreadType'
      BY <1>0, <1>7 DEF DequeueWake, KthreadType
    <2>2. UserType'
      BY <1>0, <1>7 DEF DequeueWake, UserType
    <2> QED BY <1>7, <1>n, <1>q, <1>h, <2>1, <2>2 DEF DequeueWake, TypeOK
  <1>8. ASSUME NEW t \in Threads, Call(t) \/ Lock(t) \/ RecvTest(t) \/ RecvWait(t) \/ Signal(t)
        PROVE  TypeOK'
    <2>1. CASE Call(t)
      <3>1. UserType'
        BY <1>0, <2>1 DEF Call, Goto, UserType
      <3> QED BY <2>1, <1>n, <1>k, <1>q, <1>h, <3>1 DEF Call, TypeOK
    <2>2. CASE Lock(t)
      <3>1. UserType'
        BY <1>0, <2>2 DEF Lock, Goto, UserType
      <3> QED BY <2>2, <1>n, <1>k, <1>q, <1>h, <3>1 DEF Lock, TypeOK
    <2>3. CASE RecvTest(t)
      <3>1. UserType'
        BY <1>0, <2>3 DEF RecvTest, Return, Goto, UserType
      <3> QED BY <2>3, <1>n, <1>k, <1>q, <1>h, <3>1 DEF RecvTest, TypeOK
    <2>4. CASE RecvWait(t)
      <3>1. UserType'
        BY <1>0, <2>4 DEF RecvWait, Goto, UserType
      <3> QED BY <2>4, <1>n, <1>k, <1>q, <1>h, <3>1 DEF RecvWait, TypeOK
    <2>5. CASE Signal(t)
      <3>1. UserType'
        BY <1>0, <2>5 DEF Signal, Return, Goto, UserType
      <3> QED BY <2>5, <1>n, <1>k, <1>q, <1>h, <3>1 DEF Signal, TypeOK
    <2> QED BY <1>8, <2>1, <2>2, <2>3, <2>4, <2>5
  <1>9. ASSUME NEW t \in Threads, RecvDequeue(t) PROVE TypeOK'
    <2>1. tport[t] \in Ports /\ fifo[tport[t]] \in Seq(Slots)
      BY <1>0, <1>9 DEF RecvDequeue, UserType, QueueType
    <2>2. fifo[tport[t]] # <<>> => Head(fifo[tport[t]]) \in Slots /\ Tail(fifo[tport[t]]) \in Seq(Slots)
      BY <2>1, TailFacts
    <2>3. QueueType'
      BY <1>0, <1>9, <2>1, <2>2 DEF RecvDequeue, eviq_dequeue, QueueType
    <2>4. UserType'
      <3>1. CASE fifo[tport[t]] = <<>>
        BY <1>0, <1>9, <2>1, <3>1 DEF RecvDequeue, Return, Goto, UserType
      <3>2. CASE fifo[tport[t]] # <<>>
        <4> DEFINE h == Head(fifo[tport[t]])
        <4>1. h \in Slots
          BY <2>2, <3>2
        <4>2. /\ tpc[t] = "dequeue" /\ tpc' = [tpc EXCEPT ![t] = "copy"]
              /\ tslot' = [tslot EXCEPT ![t] = h] /\ UNCHANGED <<tport, tbuf>>
              /\ mutex' = [mutex EXCEPT ![tport[t]] = None]
          BY <1>9, <3>2 DEF RecvDequeue, Goto
        <4> HIDE DEF h
        <4> QED BY <1>0, <2>1, <4>1, <4>2 DEF UserType
      <3> QED BY <3>1, <3>2
    <2>5. HistoryType'
      BY <1>0, <1>9 DEF RecvDequeue, HistoryType
    <2> QED BY <1>9, <1>n, <1>k, <2>3, <2>4, <2>5 DEF RecvDequeue, TypeOK
  <1>10. ASSUME NEW t \in Threads, RecvCopy(t) PROVE TypeOK'
    <2>1. UserType'
      BY <1>0, <1>10 DEF RecvCopy, Goto, UserType, axiomnet_long_rdma2buf
    <2>2. HistoryType'
      BY <1>0, <1>10 DEF RecvCopy, Decide, HistoryType
    <2> QED BY <1>10, <1>n, <1>k, <1>q, <2>1, <2>2 DEF RecvCopy, TypeOK
  <1>11. ASSUME NEW t \in Threads, RecvFree(t) PROVE TypeOK'
    <2>1. UserType'
      BY <1>0, <1>11 DEF RecvFree, Goto, UserType
    <2>2. QueueType'
      BY <1>0, <1>11 DEF RecvFree, QueueType, UserType
    <2> QED BY <1>11, <1>n, <1>k, <1>h, <2>1, <2>2 DEF RecvFree, TypeOK
  <1>12. ASSUME NEW t \in Threads, RecvGiveBack(t) PROVE TypeOK'
    <2>1. UserType'
      BY <1>0, <1>12 DEF RecvGiveBack, Return, Goto, UserType
    <2>2. NicType'
      BY <1>0, <1>12 DEF RecvGiveBack, axiom_hw_set_long_buf, NicType, UserType
    <2> QED BY <1>12, <1>k, <1>q, <1>h, <2>1, <2>2 DEF RecvGiveBack, TypeOK
  <1>13. ASSUME NEW t \in Threads, LongFlush(t) PROVE TypeOK'
    <2>1. PICK p, q, n : Flushed(t, p, q, n)
      BY <1>13, FlushForm
    <2>2. UserType'
      BY <1>0, <2>1 DEF Flushed, UserType
    <2>3. NicType'
      BY <1>0, <2>1 DEF Flushed, NicType
    <2>4. KthreadType'
      BY <1>k, <2>1 DEF Flushed, kthread
    <2>5. HistoryType'
      BY <1>0, <2>1 DEF Flushed, HistoryType
    <2>6. QueueType'
      <3>1. SubSeq(q, n + 2, Len(q)) \in Seq(Slots) /\ \A i \in 1 .. n : q[i] \in Slots
        BY <2>1, RestFacts DEF Flushed
      <3> QED BY <1>0, <2>1, <3>1 DEF Flushed, QueueType
    <2> QED BY <2>2, <2>3, <2>4, <2>5, <2>6 DEF TypeOK
  <1> QED BY <1>1, <1>2, <1>3, <1>4, <1>5, <1>6, <1>7, <1>8, <1>9, <1>10, <1>11, <1>12, <1>13,
             NextSplit DEF Steps
-----------------------------------------------------------------------------
(* The mutex and the wait queue *)

\* A step preserves the mutual exclusion of the readers of a port and loses no wakeup.
LEMMA ControlStep == TypeOK /\ Control /\ [Next]_vars => Control'
  <1> SUFFICES ASSUME TypeOK, Control, [Next]_vars PROVE Control'
    OBVIOUS
  <1>0. NicType /\ KthreadType /\ QueueType /\ UserType /\ MutexHeld /\ NoLostWakeup
    BY DEF TypeOK, Control
  <1>s. ASSUME UNCHANGED <<tpc, tport, mutex, fifo, kpc, kmsg>> PROVE Control'
    BY <1>0, <1>s DEF Control, MutexHeld, NoLostWakeup
  <1>1. CASE UNCHANGED vars
    BY <1>1, <1>s DEF vars, users, queue, kthread
  <1>2. CASE ArriveLong \/ ArriveOther
    BY <1>2, <1>s DEF ArriveLong, ArriveOther, users, queue, kthread
  <1>3. CASE DequeueRead \/ DequeuePop
    <2>1. UNCHANGED <<tpc, tport, mutex, fifo>> /\ kpc # "wake"
      BY <1>3 DEF DequeueRead, DequeuePop, users, queue
    <2> QED BY <1>0, <2>1 DEF Control, MutexHeld, NoLostWakeup
  <1>4. CASE DequeuePut
    <2>1. UNCHANGED <<tpc, tport, mutex>> /\ kpc # "wake" /\ kmsg \in Msgs
      BY <1>0, <1>4 DEF DequeuePut, users, KthreadType
    <2>2. CASE kmsg.port = BadPort
      BY <1>0, <1>4, <2>1, <2>2 DEF DequeuePut, Control, MutexHeld, NoLostWakeup
    <2>3. CASE kmsg.port # BadPort
      <3>1. kmsg.port \in Ports /\ kslot \in Slots /\ fifo[kmsg.port] \in Seq(Slots)
        BY <1>0, <1>4, <2>1, <2>3 DEF DequeuePut, Msgs, KthreadType, QueueType
      <3>2. Append(fifo[kmsg.port], kslot) # <<>>
        BY <3>1
      <3>3. /\ fifo' = [fifo EXCEPT ![kmsg.port] = Append(fifo[kmsg.port], kslot)]
            /\ fifo[kmsg.port] = <<>> => kpc' = "wake" /\ kmsg' = kmsg
        BY <1>4, <2>3 DEF DequeuePut, eviq_enqueue, WasEmpty
      <3>4. \A p \in Ports : fifo[p] # <<>> => fifo'[p] # <<>>
        BY <1>0, <3>2, <3>3 DEF QueueType
      <3>5. \A p \in Ports : fifo[p] = <<>> /\ fifo'[p] # <<>> => p = kmsg.port
        BY <1>0, <3>3 DEF QueueType
      <3>6. \A t \in Threads : tpc[t] \in {"dequeue", "sleep"} => tport[t] \in Ports
        BY <1>0 DEF UserType
      <3>7. MutexHeld'
        BY <1>0, <2>1, <3>4, <3>6 DEF MutexHeld
      <3>8. NoLostWakeup'
        <4> SUFFICES ASSUME NEW t \in Threads, tpc[t] = "sleep", fifo'[tport[t]] # <<>>
                     PROVE  kpc' = "wake" /\ kmsg'.port = tport[t]
          BY <2>1 DEF NoLostWakeup
        <4>1. fifo[tport[t]] = <<>>
          BY <1>0, <2>1 DEF NoLostWakeup
        <4> QED BY <3>3, <3>5, <3>6, <4>1
      <3> QED BY <3>7, <3>8 DEF Control
    <2> QED BY <2>2, <2>3
  <1>5. CASE DequeueWake
    <2>1. /\ UNCHANGED <<tport, mutex, fifo>> /\ kpc = "wake"
          /\ tpc' = [t \in Threads |-> IF tpc[t] = "sleep" /\ tport[t] = kmsg.port THEN "event" ELSE tpc[t]]
      BY <1>5 DEF DequeueWake, queue
    <2>2. MutexHeld'
      BY <1>0, <2>1 DEF MutexHeld
    <2>3. NoLostWakeup'
      BY <1>0, <2>1 DEF NoLostWakeup
    <2> QED BY <2>2, <2>3 DEF Control
  <1>6. ASSUME NEW t \in Threads, Steps(t) PROVE Control'
    <2>1. CASE Call(t)
      <3>1. PICK p \in Ports, pc \in {"lock", "flush"} :
              tpc' = [tpc EXCEPT ![t] = pc] /\ tport' = [tport EXCEPT ![t] = p]
        BY <2>1 DEF Call, Goto
      <3>2. UNCHANGED <<mutex, fifo, kpc, kmsg>>
        BY <2>1 DEF Call, queue, kthread
      <3> QED BY <1>0, <3>1, <3>2 DEF Control, MutexHeld, NoLostWakeup, UserType
    <2>2. CASE Lock(t)
      <3>1. /\ tpc[t] = "lock" /\ mutex[tport[t]] = None /\ mutex' = [mutex EXCEPT ![tport[t]] = t]
            /\ tpc' = [tpc EXCEPT ![t] = "test"] /\ UNCHANGED <<tport, fifo, kpc, kmsg>>
        BY <2>2 DEF Lock, Goto, queue, kthread
      <3>2. tport[t] \in Ports
        BY <1>0, <3>1 DEF UserType
      <3> QED BY <1>0, <3>1, <3>2 DEF Control, MutexHeld, NoLostWakeup, UserType
    <2>3. CASE RecvTest(t)
      <3>1. tpc[t] = "test" /\ mutex[tport[t]] = t /\ tport[t] \in Ports
        BY <1>0, <2>3 DEF RecvTest, MutexHeld, UserType
      <3>2. UNCHANGED <<fifo, kpc, kmsg>>
        BY <2>3 DEF RecvTest, queue, kthread
      <3>3. CASE fifo[tport[t]] = <<>>
        <4>1. /\ mutex' = [mutex EXCEPT ![tport[t]] = None]
              /\ \/ /\ tpc' = [tpc EXCEPT ![t] = "idle"]
                    /\ tport' = [tport EXCEPT ![t] = BadPort]
                 \/ tpc' = [tpc EXCEPT ![t] = "event"] /\ tport' = tport
          BY <2>3, <3>3 DEF RecvTest, Return, Goto
        <4> QED BY <1>0, <3>1, <3>2, <4>1 DEF Control, MutexHeld, NoLostWakeup, UserType
      <3>4. CASE fifo[tport[t]] # <<>>
        <4>1. tpc' = [tpc EXCEPT ![t] = "dequeue"] /\ UNCHANGED <<tport, mutex>>
          BY <2>3, <3>4 DEF RecvTest, Goto
        <4> QED BY <1>0, <3>1, <3>2, <3>4, <4>1 DEF Control, MutexHeld, NoLostWakeup, UserType
      <3> QED BY <3>3, <3>4
    <2>4. CASE RecvWait(t)
      <3>1. /\ tpc[t] = "event" /\ UNCHANGED <<tport, mutex, fifo, kpc, kmsg>>
            /\ tpc' = [tpc EXCEPT ![t] = IF fifo[tport[t]] = <<>> THEN "sleep" ELSE "lock"]
        BY <2>4 DEF RecvWait, Goto, queue, kthread
      <3> QED BY <1>0, <3>1 DEF Control, MutexHeld, NoLostWakeup, UserType
    <2>5. CASE Signal(t)
      <3>1. /\ tpc[t] = "sleep" /\ UNCHANGED <<mutex, fifo, kpc, kmsg>>
            /\ \/ /\ tpc' = [tpc EXCEPT ![t] = "idle"]
                  /\ tport' = [tport EXCEPT ![t] = BadPort]
               \/ tpc' = [tpc EXCEPT ![t] = "lock"] /\ tport' = tport
        BY <2>5 DEF Signal, Return, Goto, queue, kthread
      <3> QED BY <1>0, <3>1 DEF Control, MutexHeld, NoLostWakeup, UserType
    <2>6. CASE RecvDequeue(t)
      <3>1. /\ tpc[t] = "dequeue" /\ mutex[tport[t]] = t /\ tport[t] \in Ports
            /\ fifo[tport[t]] # <<>> /\ fifo[tport[t]] \in Seq(Slots)
        BY <1>0, <2>6 DEF RecvDequeue, MutexHeld, UserType, QueueType
      <3>2. /\ mutex' = [mutex EXCEPT ![tport[t]] = None]
            /\ fifo' = [fifo EXCEPT ![tport[t]] = Tail(fifo[tport[t]])]
            /\ tpc' = [tpc EXCEPT ![t] = "copy"] /\ UNCHANGED <<tport, kpc, kmsg>>
        BY <2>6, <3>1 DEF RecvDequeue, eviq_dequeue, Goto, kthread
      <3>3. \A p \in Ports : p # tport[t] => fifo'[p] = fifo[p] /\ mutex'[p] = mutex[p]
        BY <1>0, <3>2 DEF QueueType, UserType
      <3>4. \A u \in Threads : tpc[u] \in {"test", "dequeue"} /\ u # t => tport[u] # tport[t]
        BY <1>0, <3>1 DEF MutexHeld
      <3>5. \A u \in Threads : tpc'[u] = IF u = t THEN "copy" ELSE tpc[u]
        BY <1>0, <3>2 DEF UserType
      <3>6. \A u \in Threads : tpc[u] \in {"test", "dequeue", "sleep"} => tport[u] \in Ports
        BY <1>0 DEF UserType
      <3>7. MutexHeld'
        BY <1>0, <3>2, <3>3, <3>4, <3>5, <3>6 DEF MutexHeld
      <3>8. NoLostWakeup'
        <4>1. \A p \in Ports : fifo'[p] # <<>> => fifo[p] # <<>>
          BY <3>1, <3>3
        <4> QED BY <1>0, <3>2, <3>5, <3>6, <4>1 DEF NoLostWakeup
      <3> QED BY <3>7, <3>8 DEF Control
    <2>7. CASE RecvCopy(t) \/ RecvFree(t)
      <3>1. \E pc \in {"free", "giveback"} : tpc' = [tpc EXCEPT ![t] = pc]
        BY <2>7 DEF RecvCopy, RecvFree, Goto
      <3>2. UNCHANGED <<tport, mutex, fifo, kpc, kmsg>>
        BY <2>7 DEF RecvCopy, RecvFree, queue, kthread
      <3> QED BY <1>0, <3>1, <3>2 DEF Control, MutexHeld, NoLostWakeup, UserType
    <2>8. CASE RecvGiveBack(t)
      <3>1. /\ tpc' = [tpc EXCEPT ![t] = "idle"] /\ tport' = [tport EXCEPT ![t] = BadPort]
            /\ UNCHANGED <<mutex, fifo, kpc, kmsg>>
        BY <2>8 DEF RecvGiveBack, Return, Goto, queue, kthread
      <3> QED BY <1>0, <3>1 DEF Control, MutexHeld, NoLostWakeup, UserType
    <2>9. CASE LongFlush(t)
      <3>1. PICK p, q, n : Flushed(t, p, q, n)
        BY <2>9, FlushForm
      <3>2. /\ p \in Ports /\ mutex[p] = None /\ q = fifo[p] /\ q \in Seq(Slots) /\ n \in 0 .. Len(q)
            /\ fifo' = [fifo EXCEPT ![p] = SubSeq(q, n + 2, Len(q))]
            /\ tpc' = [tpc EXCEPT ![t] = "idle"] /\ tport' = [tport EXCEPT ![t] = BadPort]
            /\ UNCHANGED <<mutex, kpc, kmsg>>
        BY <3>1 DEF Flushed
      <3>3. \A r \in Ports : fifo'[r] # fifo[r] => r = p
        BY <1>0, <3>2 DEF QueueType
      <3>4. q = <<>> => SubSeq(q, n + 2, Len(q)) = <<>>
        BY <3>2, RestFacts
      <3>5. \A r \in Ports : fifo'[r] # <<>> => fifo[r] # <<>>
        BY <1>0, <3>2, <3>4 DEF QueueType
      <3>6. \A u \in Threads : tpc[u] \in {"test", "dequeue", "sleep"} =>
              tport[u] \in Ports /\ (tpc[u] # "sleep" => tport[u] # p)
        BY <1>0, <3>2 DEF UserType, MutexHeld
      <3>7. \A u \in Threads : tpc'[u] = (IF u = t THEN "idle" ELSE tpc[u]) /\ (u # t => tport'[u] = tport[u])
        BY <1>0, <3>2 DEF UserType
      <3>8. MutexHeld'
        BY <1>0, <3>2, <3>3, <3>6, <3>7 DEF MutexHeld
      <3>9. NoLostWakeup'
        BY <1>0, <3>2, <3>5, <3>6, <3>7 DEF NoLostWakeup
      <3> QED BY <3>8, <3>9 DEF Control
    <2> QED BY <1>6, <2>1, <2>2, <2>3, <2>4, <2>5, <2>6, <2>7, <2>8, <2>9 DEF Steps
  <1> QED BY <1>1, <1>2, <1>3, <1>4, <1>5, <1>6, NextSplit
-----------------------------------------------------------------------------
(* The slots whose message is not decided *)

InFifo(s) == \E p \in Ports : \E i \in 1 .. Len(fifo[p]) : fifo[p][i] = s
InCopy(s) == \E t \in Threads : tpc[t] = "copy" /\ tslot[t] = s

WaitingForm ==
  /\ Waiting \subseteq Slots
  /\ \A s : s \in Waiting <=> InFifo(s) \/ InCopy(s)

LEMMA WaitingFacts == TypeOK => WaitingForm
  <1> SUFFICES ASSUME TypeOK PROVE WaitingForm
    OBVIOUS
  <1>0. fifo \in [Ports -> Seq(Slots)]
    BY DEF TypeOK, QueueType
  <1>1. \A p \in Ports : \A s : s \in Range(fifo[p]) <=> \E i \in 1 .. Len(fifo[p]) : fifo[p][i] = s
    BY <1>0, RangeFacts
  <1>2. \A p \in Ports : Range(fifo[p]) \subseteq Slots
    BY <1>0, RangeFacts
  <1>3. \A s : (\E p \in Ports : s \in Range(fifo[p])) <=> InFifo(s)
    BY <1>1 DEF InFifo
  <1>4. \A s : s \in Waiting <=> (\E p \in Ports : s \in Range(fifo[p])) \/ InCopy(s)
    <2> SUFFICES ASSUME NEW s
                 PROVE  s \in Waiting <=> (\E p \in Ports : s \in Range(fifo[p])) \/ InCopy(s)
      OBVIOUS
    <2>1. s \in UNION {Range(fifo[p]) : p \in Ports} <=> \E p \in Ports : s \in Range(fifo[p])
      OBVIOUS
    <2>2. s \in {tslot[t] : t \in {u \in Threads : tpc[u] = "copy"}} <=> InCopy(s)
      BY DEF InCopy
    <2> QED BY <2>1, <2>2 DEF Waiting
  <1>5. \A t \in Threads : tpc[t] = "copy" => tslot[t] \in Slots
    BY DEF TypeOK, UserType
  <1> QED BY <1>2, <1>3, <1>4, <1>5 DEF InCopy, WaitingForm

LEMMA WaitingNext == TypeOK' => WaitingForm'
  BY WaitingFacts, PTL

\* The slots that wait are the same when no queue and no reader that copies changes.
LEMMA WaitingSame ==
  ASSUME UNCHANGED <<fifo, tslot>>, \A t \in Threads : tpc'[t] = "copy" <=> tpc[t] = "copy"
  PROVE  Waiting' = Waiting
  BY DEF Waiting

\* DequeuePut adds the slot of the kthread.
LEMMA WaitingPut ==
  ASSUME TypeOK, TypeOK', DequeuePut, kmsg.port # BadPort
  PROVE  Waiting' = Waiting \cup {kslot} /\ kslot \in Slots
  <1>1. kmsg.port \in Ports /\ kslot \in Slots /\ fifo \in [Ports -> Seq(Slots)]
    BY DEF TypeOK, DequeuePut, KthreadType, QueueType, Msgs
  <1>2. UNCHANGED <<tpc, tslot>> /\ fifo' = [fifo EXCEPT ![kmsg.port] = Append(fifo[kmsg.port], kslot)]
    BY DEF DequeuePut, eviq_enqueue, users
  <1>3. PICK q : q = fifo[kmsg.port]
    OBVIOUS
  <1>4. q \in Seq(Slots) /\ \A p \in Ports : fifo'[p] = IF p = kmsg.port THEN Append(q, kslot) ELSE fifo[p]
    BY <1>1, <1>2, <1>3
  <1>5. /\ Len(Append(q, kslot)) = Len(q) + 1 /\ Append(q, kslot)[Len(q) + 1] = kslot /\ Len(q) \in Nat
        /\ \A i \in 1 .. Len(q) : Append(q, kslot)[i] = q[i]
    BY <1>1, <1>4, AppendFacts
  <1>6. ASSUME NEW s PROVE InFifo(s)' <=> InFifo(s) \/ s = kslot
    <2>1. CASE s = kslot
      <3>1. fifo'[kmsg.port] = Append(q, kslot)
        BY <1>1, <1>4
      <3>2. Len(q) + 1 \in 1 .. Len(q) + 1
        BY <1>5
      <3> QED BY <1>1, <1>5, <2>1, <3>1, <3>2 DEF InFifo
    <2>2. CASE s # kslot
      <3>1. \A i \in 1 .. Len(q) + 1 : i \in 1 .. Len(q) \/ i = Len(q) + 1
        BY <1>5
      <3>2. \A i \in 1 .. Len(q) : i \in 1 .. Len(q) + 1
        BY <1>5
      <3>3. (\E i \in 1 .. Len(Append(q, kslot)) : Append(q, kslot)[i] = s) <=> \E i \in 1 .. Len(q) : q[i] = s
        BY <1>5, <2>2, <3>1, <3>2
      <3>4. \A p \in Ports : (\E i \in 1 .. Len(fifo'[p]) : fifo'[p][i] = s) <=> \E i \in 1 .. Len(fifo[p]) : fifo[p][i] = s
        BY <1>3, <1>4, <3>3
      <3> QED BY <2>2, <3>4 DEF InFifo
    <2> QED BY <2>1, <2>2
  <1>7. \A s : InCopy(s)' <=> InCopy(s)
    BY <1>2 DEF InCopy
  <1> QED BY <1>1, <1>6, <1>7, WaitingFacts, WaitingNext DEF WaitingForm

\* RecvDequeue moves one slot from a queue to a reader.
LEMMA WaitingDequeue ==
  ASSUME TypeOK, TypeOK', Control, NEW t \in Threads, RecvDequeue(t)
  PROVE  /\ Waiting' = Waiting
         /\ tport[t] \in Ports /\ fifo[tport[t]] \in Seq(Slots) /\ fifo[tport[t]] # <<>>
         /\ tpc[t] = "dequeue" /\ tpc' = [tpc EXCEPT ![t] = "copy"]
         /\ tslot' = [tslot EXCEPT ![t] = Head(fifo[tport[t]])]
         /\ fifo' = [fifo EXCEPT ![tport[t]] = Tail(fifo[tport[t]])]
         /\ UNCHANGED <<tport, errors>>
  <1>1. tport[t] \in Ports /\ fifo \in [Ports -> Seq(Slots)] /\ fifo[tport[t]] # <<>> /\ tpc[t] = "dequeue"
    <2>1. tpc[t] = "dequeue"
      BY DEF RecvDequeue
    <2> QED BY <2>1 DEF TypeOK, Control, MutexHeld, UserType, QueueType
  <1>2. /\ tpc' = [tpc EXCEPT ![t] = "copy"]
        /\ tslot' = [tslot EXCEPT ![t] = Head(fifo[tport[t]])]
        /\ fifo' = [fifo EXCEPT ![tport[t]] = Tail(fifo[tport[t]])]
        /\ UNCHANGED <<tport, errors>>
    BY <1>1 DEF RecvDequeue, eviq_dequeue, Goto
  <1>3. PICK q : q = fifo[tport[t]]
    OBVIOUS
  <1>4. q \in Seq(Slots) /\ q # <<>>
    BY <1>1, <1>3
  <1>5. /\ Head(q) = q[1] /\ Len(q) \in Nat \ {0} /\ Len(Tail(q)) = Len(q) - 1
        /\ \A i \in 1 .. Len(q) - 1 : Tail(q)[i] = q[i + 1]
    BY <1>4, TailFacts
  <1>6. \A p \in Ports : fifo'[p] = IF p = tport[t] THEN Tail(q) ELSE fifo[p]
    BY <1>1, <1>2, <1>3
  <1>7. \A u \in Threads : /\ tpc'[u] = IF u = t THEN "copy" ELSE tpc[u]
                           /\ tslot'[u] = IF u = t THEN Head(q) ELSE tslot[u]
    BY <1>2, <1>3 DEF TypeOK, UserType
  <1>8. ASSUME NEW s PROVE InFifo(s) <=> InFifo(s)' \/ s = Head(q)
    <2>1. CASE s = Head(q)
      <3>1. 1 \in 1 .. Len(fifo[tport[t]]) /\ fifo[tport[t]][1] = s
        BY <1>3, <1>5, <2>1
      <3> QED BY <1>1, <2>1, <3>1 DEF InFifo
    <2>2. CASE s # Head(q)
      <3>1. \A i \in 1 .. Len(q) : i = 1 \/ (i - 1 \in 1 .. Len(q) - 1 /\ (i - 1) + 1 = i)
        BY <1>5
      <3>2. \A i \in 1 .. Len(q) - 1 : i + 1 \in 1 .. Len(q)
        BY <1>5
      <3>3. (\E i \in 1 .. Len(q) - 1 : Tail(q)[i] = s) <=> \E i \in 1 .. Len(q) : q[i] = s
        BY <1>5, <2>2, <3>1, <3>2
      <3>4. \A p \in Ports : (\E i \in 1 .. Len(fifo'[p]) : fifo'[p][i] = s) <=> \E i \in 1 .. Len(fifo[p]) : fifo[p][i] = s
        BY <1>3, <1>5, <1>6, <3>3
      <3> QED BY <2>2, <3>4 DEF InFifo
    <2> QED BY <2>1, <2>2
  <1>9. \A s : InCopy(s)' <=> InCopy(s) \/ s = Head(q)
    BY <1>1, <1>7 DEF InCopy
  <1>10. Waiting' = Waiting
    BY <1>8, <1>9, WaitingFacts, WaitingNext DEF WaitingForm
  <1> QED BY <1>1, <1>2, <1>10

\* RecvCopy removes the slot of the reader: no other place has it.
LEMMA WaitingCopy ==
  ASSUME TypeOK, TypeOK', SlotsLostOnlyByFlush, NEW t \in Threads, RecvCopy(t)
  PROVE  /\ tslot[t] \in Waiting /\ Waiting' = Waiting \ {tslot[t]}
         /\ tpc[t] = "copy" /\ tpc' = [tpc EXCEPT ![t] = "free"]
         /\ UNCHANGED <<nic, kthread, queue, tport, tslot, mutex, errors>>
  <1>1. /\ tpc[t] = "copy" /\ tpc' = [tpc EXCEPT ![t] = "free"]
        /\ UNCHANGED <<nic, kthread, queue, tport, tslot, mutex, errors>>
    BY DEF RecvCopy, Goto
  <1>2. tslot[t] # None /\ tslot[t] \in Held
    BY <1>1 DEF TypeOK, UserType, Held, Range
  <1>3. \A u \in Threads : tpc'[u] = "copy" <=> tpc[u] = "copy" /\ u # t
    BY <1>1 DEF TypeOK, UserType
  <1>4. ~InFifo(tslot[t])
    BY <1>2 DEF SlotsLostOnlyByFlush, InFifo
  <1>5. \A u \in Threads : tslot[t] = tslot[u] => t = u
    BY <1>2 DEF SlotsLostOnlyByFlush
  <1>6. \A s : InFifo(s)' <=> InFifo(s)
    BY <1>1 DEF InFifo, queue
  <1>7. \A s : InCopy(s)' <=> InCopy(s) /\ s # tslot[t]
    BY <1>1, <1>3, <1>5 DEF InCopy
  <1>8. InCopy(tslot[t])
    BY <1>1 DEF InCopy
  <1>9. tslot[t] \in Waiting /\ Waiting' = Waiting \ {tslot[t]}
    BY <1>4, <1>6, <1>7, <1>8, WaitingFacts, WaitingNext DEF WaitingForm
  <1> QED BY <1>1, <1>9

\* LongFlush removes the slots up to the one that it stops at.
LEMMA WaitingFlush ==
  ASSUME TypeOK, TypeOK', SlotsLostOnlyByFlush, NEW t \in Threads, NEW p, NEW q, NEW n,
         Flushed(t, p, q, n)
  PROVE  /\ \A s : s \in Waiting' <=> s \in Waiting /\ ~\E j \in 1 .. Len(q) : j <= n + 1 /\ q[j] = s
         /\ \A j \in 1 .. Len(q) : q[j] \in Waiting
  <1>1. /\ p \in Ports /\ q = fifo[p] /\ q \in Seq(Slots) /\ n \in 0 .. Len(q) /\ Len(q) \in Nat
        /\ fifo' = [fifo EXCEPT ![p] = SubSeq(q, n + 2, Len(q))] /\ tslot' = tslot
        /\ tpc[t] = "flush" /\ tpc' = [tpc EXCEPT ![t] = "idle"]
    BY DEF Flushed
  <1>2. PICK r : r = SubSeq(q, n + 2, Len(q))
    OBVIOUS
  <1>3. /\ Len(r) = IF n < Len(q) THEN Len(q) - n - 1 ELSE 0
        /\ \A i \in 1 .. Len(r) : r[i] = q[n + 1 + i]
    BY <1>1, <1>2, RestFacts
  <1>4. \A o \in Ports : fifo'[o] = IF o = p THEN r ELSE fifo[o]
    BY <1>1, <1>2 DEF TypeOK, QueueType
  <1>5. \A s : InCopy(s)' <=> InCopy(s)
    BY <1>1 DEF InCopy, TypeOK, UserType
  <1>6. ASSUME NEW j \in 1 .. Len(q) PROVE InFifo(q[j]) /\ ~InCopy(q[j])
    <2>1. InFifo(q[j])
      BY <1>1 DEF InFifo
    <2>2. q[j] \notin Held /\ q[j] # None
      BY <1>1 DEF SlotsLostOnlyByFlush
    <2>3. ~InCopy(q[j])
      BY <2>2 DEF InCopy, Held, Range, TypeOK, UserType
    <2> QED BY <2>1, <2>3
  <1>7. ASSUME NEW s PROVE InFifo(s)' <=> InFifo(s) /\ ~\E j \in 1 .. Len(q) : j <= n + 1 /\ q[j] = s
    <2>1. ASSUME InFifo(s)' PROVE InFifo(s) /\ ~\E j \in 1 .. Len(q) : j <= n + 1 /\ q[j] = s
      <3>0. PICK o \in Ports : \E i \in 1 .. Len(fifo'[o]) : fifo'[o][i] = s
        BY <2>1 DEF InFifo
      <3>1. PICK i \in 1 .. Len(fifo'[o]) : fifo'[o][i] = s
        BY <3>0
      <3>2. CASE o = p
        <4>1. i \in 1 .. Len(r) /\ n < Len(q) /\ n + 1 + i \in 1 .. Len(q) /\ q[n + 1 + i] = s
          BY <1>1, <1>3, <1>4, <3>1, <3>2
        <4>2. \A j \in 1 .. Len(q) : q[j] = q[n + 1 + i] => j = n + 1 + i
          BY <1>1, <4>1 DEF SlotsLostOnlyByFlush
        <4>3. ~(n + 1 + i <= n + 1)
          BY <1>1, <4>1
        <4> QED BY <1>1, <4>1, <4>2, <4>3 DEF InFifo
      <3>3. CASE o # p
        <4>1. i \in 1 .. Len(fifo[o]) /\ fifo[o][i] = s
          BY <1>4, <3>1, <3>3
        <4>2. \A j \in 1 .. Len(q) : q[j] # s
          BY <1>1, <3>3, <4>1 DEF SlotsLostOnlyByFlush
        <4> QED BY <4>1, <4>2 DEF InFifo
      <3> QED BY <3>2, <3>3
    <2>2. ASSUME InFifo(s), ~\E j \in 1 .. Len(q) : j <= n + 1 /\ q[j] = s PROVE InFifo(s)'
      <3>0. PICK o \in Ports : \E i \in 1 .. Len(fifo[o]) : fifo[o][i] = s
        BY <2>2 DEF InFifo
      <3>1. PICK i \in 1 .. Len(fifo[o]) : fifo[o][i] = s
        BY <3>0
      <3>2. CASE o = p
        <4>1. i \in 1 .. Len(q) /\ q[i] = s /\ ~(i <= n + 1)
          BY <1>1, <2>2, <3>1, <3>2
        <4>2. i - (n + 1) \in 1 .. Len(r) /\ n + 1 + (i - (n + 1)) = i
          BY <1>1, <1>3, <4>1
        <4>3. r[i - (n + 1)] = s
          BY <1>3, <4>1, <4>2
        <4>4. fifo'[p] = r
          BY <1>1, <1>4
        <4> QED BY <1>1, <4>2, <4>3, <4>4 DEF InFifo
      <3>3. CASE o # p
        BY <1>4, <3>1, <3>3 DEF InFifo
      <3> QED BY <3>2, <3>3
    <2> QED BY <2>1, <2>2
  <1> QED BY <1>5, <1>6, <1>7, WaitingFacts, WaitingNext DEF WaitingForm
-----------------------------------------------------------------------------
(* Messages *)

\* Steps that move no message: what is known of the messages stays.
LEMMA MessagesKeptQuiet ==
  ASSUME TypeOK, Messages,
         UNCHANGED <<hwrx, arrived, hwfree, payload, tbuf, fate>>,
         Waiting' = Waiting, KOpen' <=> KOpen, KOpen => kmsg' = kmsg,
         \A s \in Waiting : desc'[s] = desc[s],
         \A t \in Threads : tpc'[t] = "free" =>
           tpc[t] = "free" /\ tslot'[t] = tslot[t] /\ desc'[tslot[t]] = desc[tslot[t]]
  PROVE  Messages'
  <1>0. Numbered /\ FateOpen /\ Payloads /\ Handed /\ NotCorrupt /\ AllPlaced
    BY DEF Messages
  <1>1. Numbered'
    BY <1>0 DEF Numbered, Read
  <1>2. FateOpen'
    BY <1>0 DEF FateOpen, Read
  <1>3. Payloads'
    BY <1>0 DEF Payloads, Intact
  <1>4. Handed'
    BY <1>0 DEF Handed, axiomnet_long_rdma2buf
  <1>5. NotCorrupt'
    BY <1>0 DEF NotCorrupt
  <1>6. AllPlaced'
    BY <1>0 DEF AllPlaced, Placed, Dropped
  <1> QED BY <1>1, <1>2, <1>3, <1>4, <1>5, <1>6 DEF Messages

\* What is known of the messages that are not decided.
LEMMA OpenFacts ==
  ASSUME TypeOK, Messages, SlotsOK
  PROVE  /\ Len(hwrx) \in Nat /\ arrived \in Nat /\ Read \in Nat /\ arrived = Read + Len(hwrx)
         /\ \A i \in 1 .. Len(hwrx) :
              hwrx[i] \in Msgs /\ hwrx[i].id \in Ids /\ hwrx[i].id > Read /\ fate[hwrx[i].id] = "none"
         /\ KOpen => kmsg \in Msgs /\ kmsg.id \in Ids /\ kmsg.id = Read
         /\ \A s \in Waiting : s \in Slots /\ s \notin free /\ desc[s] \in Msgs /\ desc[s].id \in Ids
  <1>0. NicType /\ KthreadType /\ QueueType /\ UserType /\ Numbered /\ FateOpen
    BY DEF TypeOK, Messages
  <1>1. Len(hwrx) \in Nat /\ arrived \in Nat /\ Len(hwrx) <= arrived /\ Read = arrived - Len(hwrx)
    BY <1>0 DEF NicType, Numbered, Read
  <1>2. Read \in Nat /\ arrived = Read + Len(hwrx)
    BY <1>1
  <1>3. ASSUME NEW i \in 1 .. Len(hwrx)
        PROVE  hwrx[i] \in Msgs /\ hwrx[i].id \in Ids /\ hwrx[i].id > Read /\ fate[hwrx[i].id] = "none"
    <2>0. hwrx[i] \in Msgs
      BY <1>0 DEF NicType
    <2>1. hwrx[i] \in Msgs /\ hwrx[i].id \in Ids
      BY <2>0 DEF Msgs
    <2>2. hwrx[i].id = Read + i
      BY <1>0 DEF Numbered
    <2>3. hwrx[i].id > Read
      BY <1>1, <1>2, <2>2
    <2> QED BY <1>0, <2>1, <2>3 DEF FateOpen
  <1>4. KOpen => kmsg \in Msgs /\ kmsg.id \in Ids /\ kmsg.id = Read
    BY <1>0 DEF KOpen, KthreadType, Msgs, Numbered
  <1>5. ASSUME NEW s \in Waiting PROVE s \in Slots /\ s \notin free /\ desc[s] \in Msgs /\ desc[s].id \in Ids
    <2>1. s \in Slots /\ (InFifo(s) \/ InCopy(s))
      BY WaitingFacts DEF WaitingForm
    <2>2. InFifo(s) => s \notin free
      BY DEF InFifo, SlotsOK, SlotsLostOnlyByFlush
    <2>3. InCopy(s) => s \notin free
      BY <1>0, <2>1 DEF InCopy, SlotsOK, SlotsLostOnlyByFlush, Held, Range, UserType
    <2>4. desc[s] \in Msgs
      BY <1>0, <2>1, <2>2, <2>3 DEF SlotsOK, Filled, QueueType
    <2> QED BY <2>1, <2>2, <2>3, <2>4 DEF Msgs
  <1> QED BY <1>1, <1>2, <1>3, <1>4, <1>5

\* A descriptor arrives, with its payload in a buffer that was free or without one.
LEMMA MessagesArrive ==
  ASSUME TypeOK, Messages, SlotsOK, NEW m \in Msgs,
         hwrx' = Append(hwrx, m), arrived' = arrived + 1, m.id = arrived + 1, arrived + 1 \in Ids,
         m.type # "LONG_DATA" => m.addr \notin Bufs,
         \/ /\ m.addr \in hwfree /\ hwfree' = hwfree \ {m.addr}
            /\ payload' = [payload EXCEPT ![m.addr] = arrived + 1]
         \/ m.addr \notin Bufs /\ UNCHANGED <<hwfree, payload>>,
         UNCHANGED <<kthread, queue, users, fate>>
  PROVE  Messages'
  <1>0. Numbered /\ FateOpen /\ Payloads /\ Handed /\ NotCorrupt /\ AllPlaced
    BY DEF Messages
  <1>u. UNCHANGED <<kpc, kmsg, fifo, desc, tpc, tslot, tbuf, fate>>
    BY DEF kthread, queue, users
  <1>w. Waiting' = Waiting /\ (KOpen' <=> KOpen)
    BY <1>u, WaitingSame DEF KOpen
  <1>1. /\ Len(hwrx) \in Nat /\ Len(hwrx') = Len(hwrx) + 1 /\ hwrx'[Len(hwrx) + 1] = m
        /\ \A i \in 1 .. Len(hwrx) : hwrx'[i] = hwrx[i]
    BY AppendFacts DEF TypeOK, NicType
  <1>2. /\ arrived \in Nat /\ Read \in Nat /\ arrived = Read + Len(hwrx)
    BY OpenFacts
  <1>3. Read' = Read
    BY <1>1, <1>2 DEF Read
  <1>4. \A i \in 1 .. Len(hwrx) + 1 : i \in 1 .. Len(hwrx) \/ i = Len(hwrx) + 1
    BY <1>1
  <1>5. hwfree' \subseteq hwfree /\ \A b \in Bufs : b \notin hwfree => payload'[b] = payload[b]
    BY DEF TypeOK, NicType
  <1>6. m.addr \in Bufs => m.addr \notin hwfree' /\ payload'[m.addr] = m.id
    BY DEF TypeOK, NicType
  <1>7. Numbered'
    <2>1. Len(hwrx') <= arrived'
      BY <1>0, <1>1, <1>2 DEF Numbered
    <2>2. \A i \in 1 .. Len(hwrx') : hwrx'[i].id = Read + i
      <3>1. m.id = Read + (Len(hwrx) + 1)
        BY <1>1, <1>2
      <3> QED BY <1>0, <1>1, <1>4, <3>1 DEF Numbered
    <2> QED BY <1>0, <1>u, <1>w, <1>3, <2>1, <2>2 DEF Numbered
  <1>8. FateOpen'
    BY <1>0, <1>u, <1>w, <1>3 DEF FateOpen
  <1>9. Payloads'
    <2> DEFINE Whole(x) == x.addr \in Bufs => x.addr \notin hwfree' /\ payload'[x.addr] = x.id
    <2>1. \A i \in 1 .. Len(hwrx) : Whole(hwrx[i])
      BY <1>0, <1>5 DEF Payloads, Intact
    <2>2. \A i \in 1 .. Len(hwrx') : Whole(hwrx'[i])
      BY <1>1, <1>4, <1>6, <2>1
    <2>3. \A i \in 1 .. Len(hwrx') : hwrx'[i].type # "LONG_DATA" => hwrx'[i].addr \notin Bufs
      BY <1>0, <1>1, <1>4 DEF Payloads
    <2>4. (KOpen => Whole(kmsg)) /\ \A s \in Waiting : Whole(desc[s])
      BY <1>0, <1>5 DEF Payloads, Intact
    <2> QED BY <1>u, <1>w, <2>2, <2>3, <2>4 DEF Payloads, Intact
  <1>10. Handed'
    <2>1. \A t \in Threads : tbuf[t] # None => tbuf[t] \in Bufs
      BY DEF TypeOK, UserType
    <2> QED BY <1>0, <1>u, <1>5, <2>1 DEF Handed, axiomnet_long_rdma2buf
  <1>11. NotCorrupt'
    BY <1>0, <1>u DEF NotCorrupt
  <1>12. AllPlaced'
    <2> SUFFICES ASSUME NEW b \in Bufs PROVE Placed(b)'
      BY DEF AllPlaced
    <2>1. CASE b = m.addr
      <3>1. Len(hwrx) + 1 \in 1 .. Len(hwrx')
        BY <1>1
      <3> QED BY <1>1, <2>1, <3>1 DEF Placed
    <2>2. CASE b # m.addr
      <3>1. (b \in hwfree' <=> b \in hwfree) /\ payload'[b] = payload[b]
        BY <2>2 DEF TypeOK, NicType
      <3>2. Placed(b)
        BY <1>0 DEF AllPlaced
      <3>3. \A i \in 1 .. Len(hwrx) : i \in 1 .. Len(hwrx')
        BY <1>1
      <3> QED BY <1>u, <1>w, <1>1, <3>1, <3>2, <3>3 DEF Placed, Dropped
    <2> QED BY <2>1, <2>2
  <1> QED BY <1>7, <1>8, <1>9, <1>10, <1>11, <1>12 DEF Messages

\* The kthread reads a descriptor: it keeps one of a LONG message and ignores others.
LEMMA MessagesRead ==
  ASSUME TypeOK, Messages, SlotsOK, DequeueRead
  PROVE  Messages'
  <1>0. Numbered /\ FateOpen /\ Payloads /\ Handed /\ NotCorrupt /\ AllPlaced
    BY DEF Messages
  <1>u. UNCHANGED <<arrived, hwfree, payload, fifo, desc, tpc, tslot, tbuf>>
    BY DEF DequeueRead, queue, users
  <1>k. ~KOpen
    BY DEF DequeueRead, KOpen
  <1>w. Waiting' = Waiting
    BY <1>u, WaitingSame
  <1>1. hwrx \in Seq(Msgs) /\ hwrx # <<>> /\ hwrx' = Tail(hwrx)
    BY DEF DequeueRead, TypeOK, NicType
  <1>2. PICK h : h = hwrx[1]
    OBVIOUS
  <1>3. /\ Head(hwrx) = h /\ Len(hwrx) \in Nat \ {0} /\ Len(hwrx') = Len(hwrx) - 1
        /\ \A i \in 1 .. Len(hwrx) - 1 : hwrx'[i] = hwrx[i + 1]
    BY <1>1, <1>2, TailFacts
  <1>4. arrived \in Nat /\ Read \in Nat /\ arrived = Read + Len(hwrx)
    BY OpenFacts
  <1>5. Read' = Read + 1
    BY <1>u, <1>3, <1>4 DEF Read
  <1>6. 1 \in 1 .. Len(hwrx) /\ \A i \in 1 .. Len(hwrx') : i + 1 \in 1 .. Len(hwrx) /\ hwrx'[i] = hwrx[i + 1]
    BY <1>3
  <1>7. h \in Msgs /\ h.id \in Ids /\ h.id = Read + 1 /\ fate[h.id] = "none" /\ Intact(h)
    <2>1. h \in Msgs /\ h.id \in Ids /\ fate[h.id] = "none"
      BY <1>2, <1>6, OpenFacts
    <2>2. h.id = Read + 1 /\ Intact(h)
      BY <1>0, <1>2, <1>6 DEF Numbered, Payloads
    <2> QED BY <2>1, <2>2
  <1>8. \/ h.type = "LONG_DATA" /\ KOpen' /\ kmsg' = h /\ fate' = fate
        \/ h.type # "LONG_DATA" /\ ~KOpen' /\ fate' = [fate EXCEPT ![h.id] = "ignored"]
    BY <1>3, <1>k DEF DequeueRead, Decide, KOpen
  <1>9. \A i \in Ids : /\ i # h.id => fate'[i] = fate[i]
                       /\ fate[i] # "none" => fate'[i] = fate[i]
                       /\ fate'[i] # "corrupt"
    BY <1>0, <1>7, <1>8 DEF NotCorrupt, TypeOK, HistoryType
  <1>10. Numbered'
    <2>1. Len(hwrx') <= arrived'
      BY <1>u, <1>3, <1>4
    <2>2. \A i \in 1 .. Len(hwrx') : hwrx'[i].id = Read' + i
      <3> SUFFICES ASSUME NEW i \in 1 .. Len(hwrx') PROVE hwrx'[i].id = Read' + i
        OBVIOUS
      <3>1. hwrx'[i].id = Read + (i + 1)
        BY <1>0, <1>6 DEF Numbered
      <3> QED BY <1>3, <1>4, <1>5, <3>1
    <2>3. KOpen' => kmsg'.id = Read'
      BY <1>5, <1>7, <1>8
    <2>4. \A s \in Waiting : desc[s].id <= Read' /\ desc[s].id # Read'
      <3> SUFFICES ASSUME NEW s \in Waiting PROVE desc[s].id <= Read' /\ desc[s].id # Read'
        OBVIOUS
      <3>1. desc[s].id <= Read /\ desc[s].id \in Ids
        BY <1>0, OpenFacts DEF Numbered
      <3> QED BY <1>4, <1>5, <3>1 DEF Ids
    <2>5. \A s, r \in Waiting : desc[s].id = desc[r].id => s = r
      BY <1>0 DEF Numbered
    <2> QED BY <1>u, <1>w, <2>1, <2>2, <2>3, <2>4, <2>5 DEF Numbered
  <1>11. FateOpen'
    <2>1. \A i \in Ids : i > Read' => i > Read /\ i # h.id
      BY <1>4, <1>5, <1>7 DEF Ids
    <2>2. \A i \in Ids : i > Read' => fate'[i] = "none"
      BY <1>0, <1>9, <2>1 DEF FateOpen
    <2>3. KOpen' => fate'[kmsg'.id] = "none"
      BY <1>7, <1>8
    <2>4. \A s \in Waiting : fate'[desc[s].id] = "none"
      <3> SUFFICES ASSUME NEW s \in Waiting PROVE fate'[desc[s].id] = "none"
        OBVIOUS
      <3>1. desc[s].id <= Read /\ desc[s].id \in Ids /\ fate[desc[s].id] = "none"
        BY <1>0, OpenFacts DEF Numbered, FateOpen
      <3>2. desc[s].id # h.id
        BY <1>4, <1>7, <3>1 DEF Ids
      <3> QED BY <1>9, <3>1, <3>2
    <2> QED BY <1>u, <1>w, <2>2, <2>3, <2>4 DEF FateOpen
  <1>12. Payloads'
    <2>1. /\ \A i \in 1 .. Len(hwrx') : hwrx'[i].type # "LONG_DATA" => hwrx'[i].addr \notin Bufs
          /\ \A i \in 1 .. Len(hwrx') : Intact(hwrx'[i])
      BY <1>0, <1>6 DEF Payloads
    <2>2. KOpen' => Intact(kmsg')
      BY <1>7, <1>8
    <2>3. \A s \in Waiting : Intact(desc[s])
      BY <1>0 DEF Payloads
    <2> QED BY <1>u, <1>w, <2>1, <2>2, <2>3 DEF Payloads, Intact
  <1>13. Handed'
    <2>1. \A t \in Threads : tbuf[t] # None => payload[tbuf[t]] \in Ids
      BY <1>0 DEF Handed, TypeOK, NicType, UserType
    <2> QED BY <1>0, <1>u, <1>9, <2>1 DEF Handed, axiomnet_long_rdma2buf
  <1>14. NotCorrupt'
    BY <1>9 DEF NotCorrupt
  <1>15. AllPlaced'
    <2> SUFFICES ASSUME NEW b \in Bufs PROVE Placed(b)'
      BY DEF AllPlaced
    <2>1. Placed(b) /\ payload[b] \in Ids \cup {None}
      BY <1>0 DEF AllPlaced, TypeOK, NicType
    <2>2. CASE \E i \in 1 .. Len(hwrx) : hwrx[i].addr = b
      <3>1. PICK i \in 1 .. Len(hwrx) : hwrx[i].addr = b
        BY <2>2
      <3>2. CASE i = 1
        <4>1. h.type = "LONG_DATA"
          BY <1>0, <1>2, <3>1, <3>2 DEF Payloads
        <4> QED BY <1>2, <1>8, <3>1, <3>2, <4>1 DEF Placed
      <3>3. CASE i # 1
        <4>1. i - 1 \in 1 .. Len(hwrx') /\ (i - 1) + 1 = i
          BY <1>3, <3>3
        <4>2. hwrx'[i - 1].addr = b
          BY <1>6, <3>1, <4>1
        <4> QED BY <4>1, <4>2 DEF Placed
      <3> QED BY <3>2, <3>3
    <2>3. CASE Dropped(b)
      BY <1>u, <1>9, <2>1, <2>3 DEF Placed, Dropped
    <2>4. CASE b \in hwfree \/ (\E s \in Waiting : desc[s].addr = b) \/ \E t \in Threads : tbuf[t] = b
      BY <1>u, <1>w, <2>4 DEF Placed
    <2> QED BY <1>k, <2>1, <2>2, <2>3, <2>4 DEF Placed
  <1> QED BY <1>10, <1>11, <1>12, <1>13, <1>14, <1>15 DEF Messages

\* The kthread discards the message that it has read.
LEMMA MessagesDiscard ==
  ASSUME TypeOK, Messages, SlotsOK, KOpen, ~KOpen',
         fate' = [fate EXCEPT ![kmsg.id] = "discarded"],
         UNCHANGED <<hwrx, arrived, hwfree, payload, fifo, desc, tpc, tslot, tbuf>>
  PROVE  Messages'
  <1>0. Numbered /\ FateOpen /\ Payloads /\ Handed /\ NotCorrupt /\ AllPlaced
    BY DEF Messages
  <1>w. Waiting' = Waiting /\ Read' = Read
    BY WaitingSame DEF Read
  <1>1. kmsg \in Msgs /\ kmsg.id \in Ids /\ kmsg.id = Read /\ fate[kmsg.id] = "none" /\ Read \in Nat
    BY <1>0, OpenFacts DEF FateOpen
  <1>2. \A i \in Ids : /\ i # kmsg.id => fate'[i] = fate[i]
                       /\ fate[i] # "none" => fate'[i] = fate[i]
                       /\ fate'[i] # "corrupt"
    BY <1>0, <1>1 DEF NotCorrupt, TypeOK, HistoryType
  <1>3. fate'[kmsg.id] = "discarded"
    BY <1>1 DEF TypeOK, HistoryType
  <1>4. Numbered'
    BY <1>0, <1>w DEF Numbered
  <1>5. FateOpen'
    <2>1. \A i \in Ids : i > Read => i # kmsg.id
      BY <1>1 DEF Ids
    <2>2. \A s \in Waiting : desc[s].id \in Ids /\ desc[s].id # kmsg.id
      BY <1>0, <1>1, OpenFacts DEF Numbered
    <2> QED BY <1>0, <1>w, <1>2, <2>1, <2>2 DEF FateOpen
  <1>6. Payloads'
    BY <1>0, <1>w DEF Payloads, Intact
  <1>7. Handed'
    <2>1. \A t \in Threads : tbuf[t] # None => payload[tbuf[t]] \in Ids
      BY <1>0 DEF Handed, TypeOK, NicType, UserType
    <2> QED BY <1>0, <1>2, <2>1 DEF Handed, axiomnet_long_rdma2buf
  <1>8. NotCorrupt'
    BY <1>2 DEF NotCorrupt
  <1>9. AllPlaced'
    <2> SUFFICES ASSUME NEW b \in Bufs PROVE Placed(b)'
      BY DEF AllPlaced
    <2>1. Placed(b) /\ payload[b] \in Ids \cup {None}
      BY <1>0 DEF AllPlaced, TypeOK, NicType
    <2>2. CASE kmsg.addr = b
      <3>1. payload[b] = kmsg.id /\ kmsg.id # None
        BY <1>0, <1>1, <2>2 DEF Payloads, Intact
      <3> QED BY <1>3, <3>1 DEF Placed, Dropped
    <2>3. CASE Dropped(b)
      BY <1>2, <2>1, <2>3 DEF Placed, Dropped
    <2>4. CASE kmsg.addr # b /\ ~Dropped(b)
      BY <1>w, <2>1, <2>4 DEF Placed
    <2> QED BY <2>2, <2>3, <2>4
  <1> QED BY <1>4, <1>5, <1>6, <1>7, <1>8, <1>9 DEF Messages

\* The kthread puts the message that it has read in the queue of its port.
LEMMA MessagesPut ==
  ASSUME TypeOK, TypeOK', Messages, SlotsOK, DequeuePut, kmsg.port # BadPort
  PROVE  Messages'
  <1>0. Numbered /\ FateOpen /\ Payloads /\ Handed /\ NotCorrupt /\ AllPlaced
    BY DEF Messages
  <1>1. Waiting' = Waiting \cup {kslot}
    BY WaitingPut
  <1>2. KOpen /\ ~KOpen' /\ kpc = "put"
    BY DEF DequeuePut, KOpen
  <1>3. UNCHANGED <<hwrx, arrived, hwfree, payload, desc, tpc, tslot, tbuf, fate>>
    BY DEF DequeuePut, nic, users
  <1>4. desc[kslot] = kmsg /\ Read' = Read /\ kmsg.id = Read /\ Read \in Nat
    BY <1>2, <1>3, OpenFacts DEF SlotsOK, Filled, Read
  <1>5. Numbered'
    <2>1. \A s \in Waiting' : desc[s].id <= Read
      BY <1>0, <1>1, <1>4 DEF Numbered
    <2>2. \A s, r \in Waiting' : desc[s].id = desc[r].id => s = r
      BY <1>0, <1>1, <1>2, <1>4 DEF Numbered
    <2> QED BY <1>0, <1>2, <1>3, <1>4, <2>1, <2>2 DEF Numbered
  <1>6. FateOpen'
    BY <1>0, <1>1, <1>2, <1>3, <1>4 DEF FateOpen
  <1>7. Payloads'
    BY <1>0, <1>1, <1>2, <1>3, <1>4 DEF Payloads, Intact
  <1>8. Handed'
    BY <1>0, <1>3 DEF Handed, axiomnet_long_rdma2buf
  <1>9. NotCorrupt'
    BY <1>0, <1>3 DEF NotCorrupt
  <1>10. AllPlaced'
    BY <1>0, <1>1, <1>2, <1>3, <1>4 DEF AllPlaced, Placed, Dropped
  <1> QED BY <1>5, <1>6, <1>7, <1>8, <1>9, <1>10 DEF Messages

\* A reader copies the payload, or fails to, and keeps the buffer to give it back.
LEMMA MessagesCopy ==
  ASSUME TypeOK, TypeOK', Messages, SlotsOK, NEW t \in Threads, RecvCopy(t)
  PROVE  Messages'
  <1>0. Numbered /\ FateOpen /\ Payloads /\ Handed /\ NotCorrupt /\ AllPlaced
    BY DEF Messages
  <1>1. /\ tslot[t] \in Waiting /\ Waiting' = Waiting \ {tslot[t]}
        /\ tpc[t] = "copy" /\ tpc' = [tpc EXCEPT ![t] = "free"]
        /\ UNCHANGED <<hwrx, arrived, hwfree, payload, kpc, kmsg, desc, tslot>>
    BY WaitingCopy DEF SlotsOK, nic, kthread, queue
  <1>2. PICK m : m = desc[tslot[t]]
    OBVIOUS
  <1>3. m \in Msgs /\ m.id \in Ids /\ fate[m.id] = "none" /\ Intact(m)
    BY <1>0, <1>1, <1>2, OpenFacts DEF FateOpen, Payloads
  <1>4. PICK b : b = axiomnet_long_rdma2buf(m.addr)
    OBVIOUS
  <1>5. /\ m.addr \in Bufs => b = m.addr /\ b # None /\ b \notin hwfree /\ payload[b] = m.id
        /\ m.addr \notin Bufs => b = None
    BY <1>3, <1>4 DEF axiomnet_long_rdma2buf, Intact
  <1>6. tbuf' = [tbuf EXCEPT ![t] = b]
    BY <1>2, <1>4 DEF RecvCopy
  <1>7. \E w \in {"delivered", "error"} : fate' = [fate EXCEPT ![m.id] = w]
    BY <1>2, <1>4, <1>5 DEF RecvCopy, Decide
  <1>8. \A i \in Ids : /\ i # m.id => fate'[i] = fate[i]
                       /\ fate[i] # "none" => fate'[i] = fate[i]
                       /\ fate'[i] # "corrupt"
    BY <1>0, <1>3, <1>7 DEF NotCorrupt, TypeOK, HistoryType
  <1>9. fate'[m.id] # "none"
    BY <1>3, <1>7 DEF TypeOK, HistoryType
  <1>10. Read' = Read /\ (KOpen' <=> KOpen) /\ Read \in Nat
    BY <1>1, OpenFacts DEF Read, KOpen
  <1>11. Numbered'
    BY <1>0, <1>1, <1>10 DEF Numbered
  <1>12. FateOpen'
    <2>1. m.id <= Read /\ (KOpen => m.id # Read)
      BY <1>0, <1>1, <1>2 DEF Numbered
    <2>2. \A i \in Ids : i > Read => i # m.id
      BY <1>3, <1>10, <2>1 DEF Ids
    <2>3. KOpen => kmsg.id \in Ids /\ kmsg.id # m.id
      BY <2>1, OpenFacts
    <2>4. \A s \in Waiting : desc[s].id \in Ids /\ (s # tslot[t] => desc[s].id # m.id)
      BY <1>0, <1>1, <1>2, OpenFacts DEF Numbered
    <2> QED BY <1>0, <1>1, <1>8, <1>10, <2>2, <2>3, <2>4 DEF FateOpen
  <1>13. Payloads'
    BY <1>0, <1>1, <1>10 DEF Payloads, Intact
  <1>14. Handed'
    <2>1. \A u \in Threads : tbuf'[u] = (IF u = t THEN b ELSE tbuf[u]) /\ tpc'[u] = IF u = t THEN "free" ELSE tpc[u]
      BY <1>1, <1>6 DEF TypeOK, UserType
    <2>2. \A u \in Threads : tbuf[u] # None => payload[tbuf[u]] \in Ids
      BY <1>0 DEF Handed, TypeOK, NicType, UserType
    <2>3. \A u \in Threads : tbuf[u] # None => tbuf[u] # b
      BY <1>0, <1>3, <1>5 DEF Handed
    <2>4. ASSUME NEW u \in Threads, tbuf'[u] # None
          PROVE  tbuf'[u] \notin hwfree /\ payload[tbuf'[u]] # None /\ fate'[payload[tbuf'[u]]] # "none"
      <3>1. CASE u = t
        BY <1>3, <1>5, <1>9, <2>1, <2>4, <3>1
      <3>2. CASE u # t
        BY <1>0, <1>8, <2>1, <2>2, <2>4, <3>2 DEF Handed
      <3> QED BY <3>1, <3>2
    <2>5. \A u, v \in Threads : tbuf'[u] # None /\ tbuf'[u] = tbuf'[v] => u = v
      BY <1>0, <2>1, <2>3 DEF Handed
    <2>6. \A u \in Threads : tpc'[u] = "free" => tbuf'[u] = axiomnet_long_rdma2buf(desc[tslot[u]].addr)
      BY <1>0, <1>2, <1>4, <2>1 DEF Handed
    <2> QED BY <1>1, <2>4, <2>5, <2>6 DEF Handed, axiomnet_long_rdma2buf
  <1>15. NotCorrupt'
    BY <1>8 DEF NotCorrupt
  <1>16. AllPlaced'
    <2> SUFFICES ASSUME NEW c \in Bufs PROVE Placed(c)'
      BY DEF AllPlaced
    <2>1. Placed(c) /\ payload[c] \in Ids \cup {None}
      BY <1>0 DEF AllPlaced, TypeOK, NicType
    <2>2. CASE c = m.addr
      <3>1. tbuf'[t] = c
        BY <1>5, <1>6, <2>2 DEF TypeOK, UserType
      <3> QED BY <3>1 DEF Placed
    <2>3. CASE Dropped(c)
      BY <1>1, <1>8, <2>1, <2>3 DEF Placed, Dropped
    <2>4. CASE \E u \in Threads : tbuf[u] = c
      <3>1. PICK u \in Threads : tbuf[u] = c
        BY <2>4
      <3>2. u # t
        BY <1>1, <3>1 DEF TypeOK, UserType
      <3>3. tbuf'[u] = c
        BY <1>6, <3>1, <3>2 DEF TypeOK, UserType
      <3> QED BY <3>3 DEF Placed
    <2>5. CASE c # m.addr /\ ~Dropped(c) /\ ~\E u \in Threads : tbuf[u] = c
      BY <1>1, <1>2, <1>10, <2>1, <2>5 DEF Placed
    <2> QED BY <2>2, <2>3, <2>4, <2>5
  <1> QED BY <1>11, <1>12, <1>13, <1>14, <1>15, <1>16 DEF Messages

\* A reader gives its buffer back: the message of that buffer was decided.
LEMMA MessagesGiveBack ==
  ASSUME TypeOK, Messages, SlotsOK, NEW t \in Threads, RecvGiveBack(t)
  PROVE  Messages'
  <1>0. Numbered /\ FateOpen /\ Payloads /\ Handed /\ NotCorrupt /\ AllPlaced
    BY DEF Messages
  <1>1. /\ tpc[t] = "giveback" /\ tpc' = [tpc EXCEPT ![t] = "idle"]
        /\ tbuf' = [tbuf EXCEPT ![t] = None] /\ hwfree' = hwfree \cup ({tbuf[t]} \ {None})
        /\ UNCHANGED <<hwrx, arrived, payload, kpc, kmsg, fifo, desc, tslot, fate>>
    BY DEF RecvGiveBack, Return, Goto, axiom_hw_set_long_buf, kthread, queue, history
  <1>2. \A u \in Threads : tpc'[u] = (IF u = t THEN "idle" ELSE tpc[u]) /\ tbuf'[u] = IF u = t THEN None ELSE tbuf[u]
    BY <1>1 DEF TypeOK, UserType
  <1>3. Waiting' = Waiting /\ Read' = Read /\ (KOpen' <=> KOpen)
    <2>1. \A u \in Threads : tpc'[u] = "copy" <=> tpc[u] = "copy"
      BY <1>1, <1>2
    <2> QED BY <1>1, <2>1, WaitingSame DEF Read, KOpen
  <1>4. Numbered'
    BY <1>0, <1>1, <1>3 DEF Numbered
  <1>5. FateOpen'
    BY <1>0, <1>1, <1>3 DEF FateOpen
  <1>6. Payloads'
    <2>1. ASSUME NEW m, Intact(m), fate[m.id] = "none", m.addr \in Bufs
          PROVE  m.addr \notin hwfree'
      BY <1>0, <1>1, <2>1 DEF Intact, Handed
    <2>2. \A i \in 1 .. Len(hwrx) : hwrx[i].addr \in Bufs => hwrx[i].addr \notin hwfree'
      BY <1>0, <2>1, OpenFacts DEF Payloads
    <2>3. KOpen /\ kmsg.addr \in Bufs => kmsg.addr \notin hwfree'
      BY <1>0, <2>1 DEF Payloads, FateOpen
    <2>4. \A s \in Waiting : desc[s].addr \in Bufs => desc[s].addr \notin hwfree'
      BY <1>0, <2>1 DEF Payloads, FateOpen
    <2> QED BY <1>0, <1>1, <1>3, <2>2, <2>3, <2>4 DEF Payloads, Intact
  <1>7. Handed'
    <2>1. \A u \in Threads : tbuf'[u] # None => u # t /\ tbuf'[u] = tbuf[u] /\ tbuf[u] # tbuf[t]
      BY <1>0, <1>2 DEF Handed
    <2>2. \A u \in Threads : tpc'[u] = "free" => u # t /\ tpc[u] = "free" /\ tbuf'[u] = tbuf[u]
      BY <1>2
    <2> QED BY <1>0, <1>1, <2>1, <2>2 DEF Handed, axiomnet_long_rdma2buf
  <1>8. NotCorrupt'
    BY <1>0, <1>1 DEF NotCorrupt
  <1>9. AllPlaced'
    <2> SUFFICES ASSUME NEW c \in Bufs PROVE Placed(c)'
      BY DEF AllPlaced
    <2>1. Placed(c)
      BY <1>0 DEF AllPlaced
    <2>2. CASE \E u \in Threads : tbuf[u] = c
      <3>1. PICK u \in Threads : tbuf[u] = c
        BY <2>2
      <3>2. CASE u = t
        BY <1>1, <3>1, <3>2 DEF Placed
      <3>3. CASE u # t
        BY <1>2, <3>1, <3>3 DEF Placed
      <3> QED BY <3>2, <3>3
    <2>3. CASE ~\E u \in Threads : tbuf[u] = c
      BY <1>1, <1>3, <2>1, <2>3 DEF Placed, Dropped
    <2> QED BY <2>2, <2>3
  <1> QED BY <1>4, <1>5, <1>6, <1>7, <1>8, <1>9 DEF Messages

\* A flush decides the messages of a queue and gives their buffers back.
LEMMA MessagesFlush ==
  ASSUME TypeOK, TypeOK', Messages, SlotsOK, NEW t \in Threads, LongFlush(t)
  PROVE  Messages'
  <1>0. Numbered /\ FateOpen /\ Payloads /\ Handed /\ NotCorrupt /\ AllPlaced
    BY DEF Messages
  <1>1. PICK p, q, n : Flushed(t, p, q, n)
    BY FlushForm
  <1>2. /\ tpc[t] = "flush" /\ tpc' = [tpc EXCEPT ![t] = "idle"]
        /\ UNCHANGED <<hwrx, arrived, payload, kpc, kmsg, desc, tslot, tbuf>>
        /\ n \in 0 .. Len(q) /\ Len(q) \in Nat
        /\ \A i \in 1 .. n : desc[q[i]].addr \in Bufs
        /\ n < Len(q) => desc[q[n + 1]].addr \notin Bufs
        /\ hwfree' = hwfree \cup {desc[q[i]].addr : i \in 1 .. n}
        /\ fate' = [i \in Ids |-> IF \E j \in 1 .. Len(q) : j <= n + 1 /\ desc[q[j]].id = i
                                   THEN "flushed" ELSE fate[i]]
    BY <1>1 DEF Flushed
  <1>3. PICK G : G = {s \in Waiting : \E j \in 1 .. Len(q) : j <= n + 1 /\ q[j] = s}
    OBVIOUS
  <1>4. Waiting' = Waiting \ G /\ \A j \in 1 .. Len(q) : q[j] \in Waiting
    <2>1. /\ \A s : s \in Waiting' <=> s \in Waiting /\ ~\E j \in 1 .. Len(q) : j <= n + 1 /\ q[j] = s
          /\ \A j \in 1 .. Len(q) : q[j] \in Waiting
      BY <1>1, WaitingFlush DEF SlotsOK
    <2> QED BY <1>3, <2>1
  <1>5. \A i \in Ids : fate'[i] = IF \E s \in G : desc[s].id = i THEN "flushed" ELSE fate[i]
    BY <1>2, <1>3, <1>4
  <1>6. \A s \in G : s \in Waiting /\ desc[s].id \in Ids /\ fate[desc[s].id] = "none"
    BY <1>0, <1>3, OpenFacts DEF FateOpen
  <1>7. \A i \in Ids : fate[i] # "none" => fate'[i] = fate[i]
    BY <1>5, <1>6
  <1>8. Read' = Read /\ (KOpen' <=> KOpen) /\ Read \in Nat
    BY <1>2, OpenFacts DEF Read, KOpen
  <1>9. \A u \in Threads : tpc'[u] = IF u = t THEN "idle" ELSE tpc[u]
    BY <1>2 DEF TypeOK, UserType
  <1>10. \A c \in Bufs : c \in hwfree' <=> c \in hwfree \/ \E s \in G : desc[s].addr = c
    <2>1. \A c : c \in hwfree' <=> c \in hwfree \/ \E i \in 1 .. n : desc[q[i]].addr = c
      BY <1>2
    <2>2. \A i \in 1 .. n : i \in 1 .. Len(q) /\ i <= n + 1
      BY <1>2
    <2>3. \A i \in 1 .. n : q[i] \in G
      BY <1>3, <1>4, <2>2
    <2>4. \A j \in 1 .. Len(q) : j <= n + 1 => j \in 1 .. n \/ (j = n + 1 /\ n < Len(q))
      BY <1>2
    <2>5. \A s \in G : desc[s].addr \in Bufs => \E i \in 1 .. n : q[i] = s
      BY <1>2, <1>3, <2>4
    <2> QED BY <2>1, <2>3, <2>5
  <1>11. \A i \in Ids : i > Read => ~\E s \in G : desc[s].id = i
    <2>1. \A s \in G : desc[s].id <= Read /\ desc[s].id \in Ids
      BY <1>0, <1>6 DEF Numbered
    <2> QED BY <1>8, <2>1 DEF Ids
  <1>12. KOpen => ~\E s \in G : desc[s].id = kmsg.id
    BY <1>0, <1>6, OpenFacts DEF Numbered
  <1>13. \A r \in Waiting' : ~\E s \in G : desc[s].id = desc[r].id
    BY <1>0, <1>4, <1>6 DEF Numbered
  <1>14. Numbered'
    BY <1>0, <1>2, <1>4, <1>8 DEF Numbered
  <1>15. FateOpen'
    <2>1. \A i \in Ids : i > Read => fate'[i] = "none"
      BY <1>0, <1>5, <1>11 DEF FateOpen
    <2>2. KOpen => fate'[kmsg.id] = "none"
      BY <1>0, <1>5, <1>12, OpenFacts DEF FateOpen
    <2>3. \A s \in Waiting' : fate'[desc[s].id] = "none"
      BY <1>0, <1>4, <1>5, <1>13, OpenFacts DEF FateOpen
    <2> QED BY <1>2, <1>8, <2>1, <2>2, <2>3 DEF FateOpen
  <1>16. Payloads'
    <2>1. ASSUME NEW m, Intact(m), m.addr \in Bufs, ~\E s \in G : desc[s].id = m.id
          PROVE  m.addr \notin hwfree'
      <3>1. \A s \in G : desc[s].addr = m.addr => payload[m.addr] = desc[s].id
        BY <1>0, <1>6, <2>1 DEF Payloads, Intact
      <3>2. ~\E s \in G : desc[s].addr = m.addr
        BY <2>1, <3>1 DEF Intact
      <3> QED BY <1>10, <2>1, <3>2 DEF Intact
    <2>2. \A i \in 1 .. Len(hwrx) : hwrx[i].addr \in Bufs => hwrx[i].addr \notin hwfree'
      <3> SUFFICES ASSUME NEW i \in 1 .. Len(hwrx), hwrx[i].addr \in Bufs
                   PROVE  hwrx[i].addr \notin hwfree'
        OBVIOUS
      <3>1. hwrx[i].id \in Ids /\ hwrx[i].id > Read
        BY OpenFacts
      <3>2. Intact(hwrx[i]) /\ ~\E s \in G : desc[s].id = hwrx[i].id
        BY <1>0, <1>11, <3>1 DEF Payloads
      <3> QED BY <2>1, <3>2
    <2>3. KOpen /\ kmsg.addr \in Bufs => kmsg.addr \notin hwfree'
      BY <1>0, <1>12, <2>1 DEF Payloads
    <2>4. \A s \in Waiting' : desc[s].addr \in Bufs => desc[s].addr \notin hwfree'
      BY <1>0, <1>4, <1>13, <2>1 DEF Payloads
    <2> QED BY <1>0, <1>2, <1>4, <1>8, <2>2, <2>3, <2>4 DEF Payloads, Intact
  <1>17. Handed'
    <2>1. \A u \in Threads : tbuf[u] # None => tbuf[u] \in Bufs /\ payload[tbuf[u]] \in Ids
      BY <1>0 DEF Handed, TypeOK, NicType, UserType
    <2>2. \A s \in G : desc[s].addr \in Bufs => fate[payload[desc[s].addr]] = "none"
      BY <1>0, <1>6 DEF Payloads, Intact
    <2>3. \A u \in Threads : tbuf[u] # None => tbuf[u] \notin hwfree'
      BY <1>0, <1>10, <2>1, <2>2 DEF Handed
    <2>4. \A u \in Threads : tpc'[u] = "free" => tpc[u] = "free"
      BY <1>9
    <2> QED BY <1>0, <1>2, <1>7, <2>1, <2>3, <2>4 DEF Handed, axiomnet_long_rdma2buf
  <1>18. NotCorrupt'
    BY <1>0, <1>5 DEF NotCorrupt
  <1>19. AllPlaced'
    <2> SUFFICES ASSUME NEW c \in Bufs PROVE Placed(c)'
      BY DEF AllPlaced
    <2>1. Placed(c) /\ payload[c] \in Ids \cup {None}
      BY <1>0 DEF AllPlaced, TypeOK, NicType
    <2>2. CASE \E s \in Waiting : desc[s].addr = c
      <3>1. PICK s \in Waiting : desc[s].addr = c
        BY <2>2
      <3>2. CASE s \in G
        BY <1>10, <3>1, <3>2 DEF Placed
      <3>3. CASE s \notin G
        BY <1>2, <1>4, <3>1, <3>3 DEF Placed
      <3> QED BY <3>2, <3>3
    <2>3. CASE Dropped(c)
      BY <1>2, <1>7, <2>1, <2>3 DEF Placed, Dropped
    <2>4. CASE ~Dropped(c) /\ ~\E s \in Waiting : desc[s].addr = c
      BY <1>2, <1>8, <1>10, <2>1, <2>4 DEF Placed
    <2> QED BY <2>2, <2>3, <2>4
  <1> QED BY <1>14, <1>15, <1>16, <1>17, <1>18, <1>19 DEF Messages

\* A step preserves what is known of the messages.
LEMMA MessagesStep == IInv /\ TypeOK' /\ [Next]_vars => Messages'
  <1> SUFFICES ASSUME IInv, TypeOK', [Next]_vars PROVE Messages'
    OBVIOUS
  <1>0. TypeOK /\ Messages /\ SlotsOK /\ Control
    BY DEF IInv
  <1>1. CASE UNCHANGED vars
    <2>1. UNCHANGED <<hwrx, arrived, hwfree, payload, tbuf, fate, kpc, kmsg, fifo, tslot, tpc, desc>>
      BY <1>1 DEF vars, nic, kthread, queue, users, history
    <2>2. Waiting' = Waiting
      BY <2>1, WaitingSame
    <2> QED BY <1>0, <2>1, <2>2, MessagesKeptQuiet DEF KOpen
  <1>2. CASE ArriveLong
    <2>1. PICK b \in hwfree, p \in Ports \cup {BadPort} :
            /\ hwfree' = hwfree \ {b} /\ payload' = [payload EXCEPT ![b] = arrived + 1]
            /\ hwrx' = Append(hwrx, [id |-> arrived + 1, type |-> "LONG_DATA", port |-> p, addr |-> b])
      BY <1>2 DEF ArriveLong, Push
    <2>2. arrived + 1 \in Ids /\ arrived' = arrived + 1 /\ UNCHANGED <<kthread, queue, users, fate>>
      BY <1>0, <1>2 DEF ArriveLong, Push, TypeOK, NicType, Ids, history
    <2>3. PICK m : m = [id |-> arrived + 1, type |-> "LONG_DATA", port |-> p, addr |-> b]
      OBVIOUS
    <2>4. m \in Msgs /\ m.id = arrived + 1 /\ m.type = "LONG_DATA" /\ m.addr = b
      BY <1>0, <2>2, <2>3 DEF TypeOK, Msgs, Types, NicType
    <2> QED BY <1>0, <2>1, <2>2, <2>3, <2>4, MessagesArrive
  <1>3. CASE ArriveOther
    <2>1. PICK ty \in Types, p \in Ports :
            hwrx' = Append(hwrx, [id |-> arrived + 1, type |-> ty, port |-> p, addr |-> BadAddr])
      BY <1>3 DEF ArriveOther, Push
    <2>2. /\ arrived + 1 \in Ids /\ arrived' = arrived + 1
          /\ UNCHANGED <<hwfree, payload, kthread, queue, users, fate>>
      BY <1>0, <1>3 DEF ArriveOther, Push, TypeOK, NicType, Ids, history
    <2>3. PICK m : m = [id |-> arrived + 1, type |-> ty, port |-> p, addr |-> BadAddr]
      OBVIOUS
    <2>4. m \in Msgs /\ m.id = arrived + 1 /\ m.addr \notin Bufs
      BY <1>0, <2>2, <2>3 DEF Msgs
    <2> QED BY <1>0, <2>1, <2>2, <2>3, <2>4, MessagesArrive
  <1>4. CASE DequeueRead
    BY <1>0, <1>4, MessagesRead
  <1>5. CASE DequeuePop
    <2>1. KOpen /\ UNCHANGED <<hwrx, arrived, hwfree, payload, fifo, tpc, tslot, tbuf>>
      BY <1>5 DEF DequeuePop, KOpen, nic, users
    <2>2. CASE free = {}
      <3>1. ~KOpen' /\ fate' = [fate EXCEPT ![kmsg.id] = "discarded"] /\ desc' = desc
        BY <1>5, <2>2 DEF DequeuePop, Decide, KOpen
      <3> QED BY <1>0, <2>1, <3>1, MessagesDiscard
    <2>3. CASE free # {}
      <3>1. /\ KOpen' /\ kmsg' = kmsg /\ fate' = fate
            /\ kslot' \in free /\ desc' = [desc EXCEPT ![kslot'] = kmsg]
        BY <1>5, <2>3 DEF DequeuePop, eviq_free_pop, history, KOpen
      <3>2. \A s \in Slots : s \notin free => desc'[s] = desc[s]
        BY <1>0, <3>1 DEF TypeOK, QueueType
      <3>3. \A s \in Waiting : desc'[s] = desc[s]
        BY <1>0, <3>2, OpenFacts
      <3>4. \A t \in Threads : tpc[t] = "free" => tslot[t] \in Slots /\ tslot[t] \notin free
        BY <1>0 DEF TypeOK, UserType, SlotsOK, SlotsLostOnlyByFlush, Held, Range
      <3>5. Waiting' = Waiting
        BY <2>1, WaitingSame
      <3> QED BY <1>0, <2>1, <3>1, <3>2, <3>3, <3>4, <3>5, MessagesKeptQuiet
    <2> QED BY <2>2, <2>3
  <1>6. CASE DequeuePut
    <2>1. CASE kmsg.port = BadPort
      <3>1. /\ KOpen /\ ~KOpen' /\ fate' = [fate EXCEPT ![kmsg.id] = "discarded"]
            /\ UNCHANGED <<hwrx, arrived, hwfree, payload, fifo, desc, tpc, tslot, tbuf>>
        BY <1>6, <2>1 DEF DequeuePut, Decide, KOpen, nic, users
      <3> QED BY <1>0, <3>1, MessagesDiscard
    <2>2. CASE kmsg.port # BadPort
      BY <1>0, <1>6, <2>2, MessagesPut
    <2> QED BY <2>1, <2>2
  <1>7. CASE DequeueWake
    <2>1. /\ UNCHANGED <<hwrx, arrived, hwfree, payload, tbuf, fate, fifo, tslot, desc>>
          /\ ~KOpen /\ ~KOpen'
          /\ tpc' = [t \in Threads |-> IF tpc[t] = "sleep" /\ tport[t] = kmsg.port THEN "event" ELSE tpc[t]]
      BY <1>7 DEF DequeueWake, nic, queue, history, KOpen
    <2>2. \A t \in Threads : (tpc'[t] = "copy" <=> tpc[t] = "copy") /\ (tpc'[t] = "free" <=> tpc[t] = "free")
      BY <2>1
    <2>3. Waiting' = Waiting
      BY <2>1, <2>2, WaitingSame
    <2> QED BY <1>0, <2>1, <2>2, <2>3, MessagesKeptQuiet
  <1>8. ASSUME NEW t \in Threads, Call(t) \/ Lock(t) \/ RecvTest(t) \/ RecvWait(t) \/ Signal(t)
        PROVE  Messages'
    <2>1. /\ UNCHANGED <<hwrx, arrived, hwfree, payload, tbuf, fate, kpc, kmsg, fifo, tslot, desc>>
          /\ tpc[t] \notin {"copy", "free"}
          /\ \E pc \in {"lock", "flush", "test", "idle", "event", "dequeue", "sleep"} : tpc' = [tpc EXCEPT ![t] = pc]
      BY <1>8 DEF Call, Lock, RecvTest, RecvWait, Signal, Goto, Return, nic, kthread, queue, history
    <2>2. \A u \in Threads : (tpc'[u] = "copy" <=> tpc[u] = "copy") /\ (tpc'[u] = "free" <=> tpc[u] = "free")
      BY <1>0, <2>1 DEF TypeOK, UserType
    <2>3. Waiting' = Waiting
      BY <2>1, <2>2, WaitingSame
    <2>4. KOpen' <=> KOpen
      BY <2>1 DEF KOpen
    <2> QED BY <1>0, <2>1, <2>2, <2>3, <2>4, MessagesKeptQuiet
  <1>9. ASSUME NEW t \in Threads, RecvDequeue(t) PROVE Messages'
    <2>1. UNCHANGED <<hwrx, arrived, hwfree, payload, tbuf, fate, kpc, kmsg, desc>>
      BY <1>9 DEF RecvDequeue, nic, kthread
    <2>2. /\ Waiting' = Waiting /\ tpc' = [tpc EXCEPT ![t] = "copy"]
          /\ tslot' = [tslot EXCEPT ![t] = Head(fifo[tport[t]])]
      BY <1>0, <1>9, WaitingDequeue
    <2>3. \A u \in Threads : tpc'[u] = "free" => tpc[u] = "free" /\ tslot'[u] = tslot[u]
      BY <1>0, <2>2 DEF TypeOK, UserType
    <2>4. KOpen' <=> KOpen
      BY <2>1 DEF KOpen
    <2> QED BY <1>0, <2>1, <2>2, <2>3, <2>4, MessagesKeptQuiet
  <1>10. ASSUME NEW t \in Threads, RecvFree(t) PROVE Messages'
    <2>1. /\ UNCHANGED <<hwrx, arrived, hwfree, payload, tbuf, fate, kpc, kmsg, fifo, desc>>
          /\ tpc[t] = "free" /\ tpc' = [tpc EXCEPT ![t] = "giveback"]
          /\ tslot' = [tslot EXCEPT ![t] = None]
      BY <1>10 DEF RecvFree, Goto, nic, kthread, history
    <2>2. \A u \in Threads : IF u = t THEN tpc'[u] = "giveback"
                                        ELSE tpc'[u] = tpc[u] /\ tslot'[u] = tslot[u]
      BY <1>0, <2>1 DEF TypeOK, UserType
    <2>3. Waiting' = Waiting
      <3>1. \A s : InCopy(s)' <=> InCopy(s)
        BY <2>1, <2>2 DEF InCopy
      <3>2. \A s : InFifo(s)' <=> InFifo(s)
        BY <2>1 DEF InFifo
      <3> QED BY <1>0, <3>1, <3>2, WaitingFacts, WaitingNext DEF WaitingForm
    <2>4. KOpen' <=> KOpen
      BY <2>1 DEF KOpen
    <2> QED BY <1>0, <2>1, <2>2, <2>3, <2>4, MessagesKeptQuiet
  <1>11. ASSUME NEW t \in Threads, RecvCopy(t) \/ RecvGiveBack(t) \/ LongFlush(t) PROVE Messages'
    BY <1>0, <1>11, MessagesCopy, MessagesGiveBack, MessagesFlush
  <1> QED BY <1>1, <1>2, <1>3, <1>4, <1>5, <1>6, <1>7, <1>8, <1>9, <1>10, <1>11, NextSplit DEF Steps

\* What was decided of a message stays decided.
LEMMA FateKept ==
  ASSUME IInv, [Next]_vars
  PROVE  \A i \in Ids : fate[i] # "none" => fate'[i] = fate[i]
  <1>0. TypeOK /\ Messages /\ SlotsOK /\ fate \in [Ids -> {"none", "ignored", "discarded", "delivered", "corrupt", "error",
                       "flushed"}]
    BY DEF IInv, TypeOK, HistoryType
  <1>1. ASSUME NEW d \in Ids, fate[d] = "none", \E w : fate' = [fate EXCEPT ![d] = w]
        PROVE  \A i \in Ids : fate[i] # "none" => fate'[i] = fate[i]
    BY <1>0, <1>1
  <1>2. CASE UNCHANGED fate
    BY <1>2
  <1>3. CASE DequeueRead
    <2>1. hwrx # <<>> /\ (fate' = fate \/ fate' = [fate EXCEPT ![Head(hwrx).id] = "ignored"])
      BY <1>3 DEF DequeueRead, Decide
    <2>2. Head(hwrx) = hwrx[1] /\ 1 \in 1 .. Len(hwrx)
      BY <1>0, <2>1, TailFacts DEF TypeOK, NicType
    <2>3. Head(hwrx).id \in Ids /\ fate[Head(hwrx).id] = "none"
      BY <1>0, <2>2, OpenFacts
    <2> QED BY <1>1, <2>1, <2>3
  <1>4. CASE DequeuePop \/ DequeuePut
    <2>1. KOpen /\ (fate' = fate \/ fate' = [fate EXCEPT ![kmsg.id] = "discarded"])
      BY <1>4 DEF DequeuePop, DequeuePut, Decide, history, KOpen
    <2>2. kmsg.id \in Ids /\ fate[kmsg.id] = "none"
      BY <1>0, <2>1, OpenFacts DEF Messages, FateOpen
    <2> QED BY <1>1, <2>1, <2>2
  <1>5. ASSUME NEW t \in Threads, RecvCopy(t)
        PROVE  \A i \in Ids : fate[i] # "none" => fate'[i] = fate[i]
    <2>1. tpc[t] = "copy" /\ \E w : fate' = [fate EXCEPT ![desc[tslot[t]].id] = w]
      BY <1>5 DEF RecvCopy, Decide
    <2>2. tslot[t] \in Waiting
      BY <1>0, <2>1, WaitingFacts DEF WaitingForm, InCopy
    <2>3. desc[tslot[t]].id \in Ids /\ fate[desc[tslot[t]].id] = "none"
      BY <1>0, <2>2, OpenFacts DEF Messages, FateOpen
    <2> QED BY <1>1, <2>1, <2>3
  <1>6. ASSUME NEW t \in Threads, LongFlush(t)
        PROVE  \A i \in Ids : fate[i] # "none" => fate'[i] = fate[i]
    <2>1. PICK p, q, n : Flushed(t, p, q, n)
      BY <1>0, <1>6, FlushForm
    <2>2. \A i \in Ids : fate'[i] = IF \E j \in 1 .. Len(q) : j <= n + 1 /\ desc[q[j]].id = i
                                     THEN "flushed" ELSE fate[i]
      BY <2>1 DEF Flushed
    <2>3. \A j \in 1 .. Len(q) : q[j] \in Waiting
      BY <1>0, <2>1, WaitingFacts DEF Flushed, WaitingForm, InFifo
    <2>4. \A j \in 1 .. Len(q) : fate[desc[q[j]].id] = "none"
      BY <1>0, <2>3 DEF Messages, FateOpen
    <2> QED BY <2>2, <2>4
  <1>7. ASSUME NEW t \in Threads, Steps(t)
        PROVE  fate' = fate \/ RecvCopy(t) \/ LongFlush(t)
    BY <1>7 DEF Steps, Call, Lock, RecvTest, RecvWait, Signal, RecvDequeue, RecvFree, RecvGiveBack, history
  <1>8. UNCHANGED vars \/ ArriveLong \/ ArriveOther \/ DequeueWake => fate' = fate
    BY DEF vars, ArriveLong, ArriveOther, DequeueWake, history
  <1> QED BY <1>2, <1>3, <1>4, <1>5, <1>6, <1>7, <1>8, NextSplit

-----------------------------------------------------------------------------
(* Slots *)

Lost(s) == desc[s].addr = BadAddr /\ fate[desc[s].id] = "flushed"
InHand(s) == s = kslot \/ \E t \in Threads : tslot[t] = s

\* SlotsLostOnlyByFlush, slot by slot.
SlotForm ==
  /\ \A s \in Slots : s \in free \/ InHand(s) \/ InFifo(s) \/ Lost(s)
  /\ \A s \in free : ~InHand(s)
  /\ \A p \in Ports : \A i \in 1 .. Len(fifo[p]) :
       /\ fifo[p][i] \notin free /\ ~InHand(fifo[p][i])
       /\ \A r \in Ports : \A j \in 1 .. Len(fifo[r]) :
            fifo[p][i] = fifo[r][j] => p = r /\ i = j
  /\ \A t, u \in Threads :
       tslot[t] # None => tslot[t] # kslot /\ (tslot[t] = tslot[u] => t = u)

LEMMA SlotFormFacts == TypeOK => (SlotsLostOnlyByFlush <=> SlotForm)
  <1> SUFFICES ASSUME TypeOK PROVE SlotsLostOnlyByFlush <=> SlotForm
    OBVIOUS
  <1>0. free \subseteq Slots /\ fifo \in [Ports -> Seq(Slots)]
    BY DEF TypeOK, QueueType
  <1>1. \A s \in Slots : s \in Held <=> InHand(s)
    BY DEF TypeOK, UserType, Held, InHand, Range
  <1>2. \A p \in Ports : \A i \in 1 .. Len(fifo[p]) : fifo[p][i] \in Slots
    BY <1>0
  <1>3. \A s : (\E p \in Ports : s \in Range(fifo[p])) <=> InFifo(s)
    BY <1>0, RangeFacts DEF InFifo
  <1>4. free \cap Held = {} <=> \A s \in free : ~InHand(s)
    BY <1>0, <1>1
  <1>5. \A p \in Ports : \A i \in 1 .. Len(fifo[p]) :
          fifo[p][i] \notin free \cup Held <=> fifo[p][i] \notin free /\ ~InHand(fifo[p][i])
    BY <1>1, <1>2
  <1>6. \A s \in Slots : (\/ s \in free \cup Held
                          \/ \E p \in Ports : s \in Range(fifo[p])
                          \/ desc[s].addr = BadAddr /\ fate[desc[s].id] = "flushed")
                         <=> s \in free \/ InHand(s) \/ InFifo(s) \/ Lost(s)
    BY <1>1, <1>3 DEF Lost
  <1> QED BY <1>4, <1>5, <1>6 DEF SlotsLostOnlyByFlush, SlotForm

LEMMA SlotFormNext == TypeOK' => (SlotsLostOnlyByFlush' <=> SlotForm')
  BY SlotFormFacts, PTL

\* A slot that is lost stays lost: its header is not written, its message is decided.
LEMMA LostKept ==
  ASSUME IInv, [Next]_vars
  PROVE  /\ \A s \in Slots : s \notin free => desc'[s] = desc[s] /\ desc[s] \in Msgs
         /\ \A s \in Slots : s \notin free /\ Lost(s) => Lost(s)'
  <1>0. TypeOK /\ SlotsOK
    BY DEF IInv
  <1>1. \A s \in Slots : s \notin free => desc[s] \in Msgs /\ desc[s].id \in Ids
    BY <1>0 DEF TypeOK, QueueType, SlotsOK, Filled, Msgs
  <1>2. \A s \in Slots : s \notin free => desc'[s] = desc[s]
    <2>1. CASE DequeuePop
      <3>1. desc' = desc \/ (kslot' \in free /\ desc' = [desc EXCEPT ![kslot'] = kmsg])
        BY <2>1 DEF DequeuePop, eviq_free_pop
      <3> QED BY <1>0, <3>1 DEF TypeOK, QueueType
    <2>2. ASSUME NEW t \in Threads, Steps(t) PROVE desc' = desc
      BY <2>2 DEF Steps, Call, Lock, RecvTest, RecvWait, Signal, RecvDequeue, RecvCopy, RecvFree,
                  RecvGiveBack, LongFlush, queue
    <2>3. ASSUME UNCHANGED vars \/ ArriveLong \/ ArriveOther \/ DequeueRead \/ DequeuePut \/ DequeueWake
          PROVE  desc' = desc
      BY <2>3 DEF vars, ArriveLong, ArriveOther, DequeueRead, DequeuePut, DequeueWake, queue
    <2> QED BY <2>1, <2>2, <2>3, NextSplit
  <1> QED BY <1>1, <1>2, FateKept DEF Lost

\* Steps that move no slot.
LEMMA SlotsQuiet ==
  ASSUME IInv, TypeOK', [Next]_vars, UNCHANGED <<fifo, free, kslot, tslot>>,
         kpc' = "put" => kpc = "put" /\ kmsg' = kmsg
  PROVE  SlotsOK'
  <1>0. TypeOK /\ SlotForm /\ Filled
    BY SlotFormFacts DEF IInv, SlotsOK
  <1>1. \A s : (InHand(s)' <=> InHand(s)) /\ (InFifo(s)' <=> InFifo(s))
    BY DEF InHand, InFifo
  <1>2. \A s \in Slots : s \in free' \/ InHand(s)' \/ InFifo(s)' \/ Lost(s)'
    BY <1>0, <1>1, LostKept DEF SlotForm
  <1>3. SlotForm'
    BY <1>0, <1>1, <1>2 DEF SlotForm, InHand
  <1>4. Filled'
    <2>1. \A s \in Slots \ free : desc'[s] # None
      BY LostKept
    <2>2. kpc = "put" => kslot \in Slots /\ kslot \notin free
      BY <1>0 DEF TypeOK, KthreadType, SlotForm, InHand
    <2> QED BY <1>0, <2>1, <2>2, LostKept DEF Filled
  <1> QED BY <1>3, <1>4, SlotFormNext DEF SlotsOK

\* The kthread takes a free slot and copies the header to it.
LEMMA SlotsPop ==
  ASSUME IInv, TypeOK', [Next]_vars, DequeuePop, free # {}
  PROVE  SlotsOK'
  <1>0. TypeOK /\ SlotForm /\ Filled
    BY SlotFormFacts DEF IInv, SlotsOK
  <1>1. PICK s0 \in free : kslot' = s0 /\ free' = free \ {s0} /\ desc' = [desc EXCEPT ![s0] = kmsg]
    BY DEF DequeuePop, eviq_free_pop
  <1>2. UNCHANGED <<fifo, tslot>> /\ kslot = None /\ kpc' = "put" /\ kmsg' = kmsg /\ s0 \in Slots /\ kmsg \in Msgs
    BY <1>0, <1>1 DEF DequeuePop, users, TypeOK, KthreadType, QueueType
  <1>3. \A s \in Slots : InHand(s)' <=> InHand(s) \/ s = s0
    BY <1>1, <1>2 DEF InHand
  <1>4. \A s : InFifo(s)' <=> InFifo(s)
    BY <1>2 DEF InFifo
  <1>5. \A p \in Ports : \A i \in 1 .. Len(fifo[p]) : fifo[p][i] \in Slots
    BY <1>0 DEF TypeOK, QueueType
  <1>6. \A s \in Slots : s \in free' \/ InHand(s)' \/ InFifo(s)' \/ Lost(s)'
    BY <1>0, <1>1, <1>3, <1>4, LostKept DEF SlotForm
  <1>7. \A s \in free' : ~InHand(s)'
    <2>1. \A s \in free' : s \in free /\ s # s0 /\ s \in Slots
      BY <1>0, <1>1 DEF TypeOK, QueueType
    <2> QED BY <1>0, <1>3, <2>1 DEF SlotForm
  <1>8. \A p \in Ports : \A i \in 1 .. Len(fifo[p]) : fifo[p][i] \notin free' /\ ~InHand(fifo[p][i])'
    BY <1>0, <1>1, <1>2, <1>3, <1>5 DEF SlotForm
  <1>9. \A t \in Threads : tslot[t] # s0
    BY <1>0 DEF SlotForm, InHand
  <1>10. SlotForm'
    BY <1>0, <1>1, <1>2, <1>6, <1>7, <1>8, <1>9 DEF SlotForm
  <1>11. Filled'
    BY <1>0, <1>1, <1>2 DEF Filled, TypeOK, QueueType
  <1> QED BY <1>10, <1>11, SlotFormNext DEF SlotsOK

\* The kthread discards a message: its slot is free again.
LEMMA SlotsDiscard ==
  ASSUME IInv, TypeOK', [Next]_vars, DequeuePut, kmsg.port = BadPort
  PROVE  SlotsOK'
  <1>0. TypeOK /\ SlotForm /\ Filled
    BY SlotFormFacts DEF IInv, SlotsOK
  <1>1. /\ kslot' = None /\ free' = free \cup {kslot} /\ UNCHANGED <<fifo, tslot, desc>> /\ kpc' = "work"
        /\ kslot \in Slots /\ kslot # None
    BY <1>0 DEF DequeuePut, DiscardSlot, users, TypeOK, KthreadType
  <1>2. \A s \in Slots : InHand(s)' <=> InHand(s) /\ s # kslot
    <2>1. \A t \in Threads : tslot[t] # kslot
      BY <1>0, <1>1 DEF SlotForm
    <2> QED BY <1>1, <2>1 DEF InHand
  <1>3. \A s : InFifo(s)' <=> InFifo(s)
    BY <1>1 DEF InFifo
  <1>4. \A p \in Ports : \A i \in 1 .. Len(fifo[p]) : fifo[p][i] \in Slots
    BY <1>0 DEF TypeOK, QueueType
  <1>5. \A s \in Slots : s \in free' \/ InHand(s)' \/ InFifo(s)' \/ Lost(s)'
    BY <1>0, <1>1, <1>2, <1>3, LostKept DEF SlotForm
  <1>6. \A s \in free' : ~InHand(s)'
    <2>1. \A s \in free' : s \in Slots /\ (s \in free \/ s = kslot)
      BY <1>0, <1>1 DEF TypeOK, QueueType
    <2> QED BY <1>0, <1>2, <2>1 DEF SlotForm
  <1>7. \A p \in Ports : \A i \in 1 .. Len(fifo[p]) : fifo[p][i] \notin free' /\ ~InHand(fifo[p][i])'
    <2>1. \A p \in Ports : \A i \in 1 .. Len(fifo[p]) : fifo[p][i] # kslot
      BY <1>0 DEF SlotForm, InHand
    <2> QED BY <1>0, <1>1, <1>2, <1>4, <2>1 DEF SlotForm
  <1>8. SlotForm'
    BY <1>0, <1>1, <1>5, <1>6, <1>7 DEF SlotForm
  <1>9. Filled'
    BY <1>0, <1>1 DEF Filled
  <1> QED BY <1>8, <1>9, SlotFormNext DEF SlotsOK

\* The kthread puts its slot at the end of a queue.
LEMMA SlotsPut ==
  ASSUME IInv, TypeOK', [Next]_vars, DequeuePut, kmsg.port # BadPort
  PROVE  SlotsOK'
  <1>0. TypeOK /\ SlotForm /\ Filled
    BY SlotFormFacts DEF IInv, SlotsOK
  <1>1. /\ kslot' = None /\ UNCHANGED <<free, tslot, desc>> /\ kpc' # "put"
        /\ fifo' = [fifo EXCEPT ![kmsg.port] = Append(fifo[kmsg.port], kslot)]
        /\ kslot \in Slots /\ kslot # None /\ kmsg.port \in Ports
    BY <1>0 DEF DequeuePut, eviq_enqueue, users, TypeOK, KthreadType, Msgs
  <1>2. PICK q, k : q = fifo[kmsg.port] /\ k = kslot
    OBVIOUS
  <1>3. q \in Seq(Slots) /\ \A p \in Ports : fifo'[p] = IF p = kmsg.port THEN Append(q, k) ELSE fifo[p]
    BY <1>0, <1>1, <1>2 DEF TypeOK, QueueType
  <1>4. /\ Len(Append(q, k)) = Len(q) + 1 /\ Append(q, k)[Len(q) + 1] = k /\ Len(q) \in Nat
        /\ \A i \in 1 .. Len(q) : Append(q, k)[i] = q[i]
    BY <1>1, <1>2, <1>3, AppendFacts
  <1>5. \A i \in 1 .. Len(q) + 1 : i \in 1 .. Len(q) \/ i = Len(q) + 1
    BY <1>4
  <1>6. ASSUME NEW p \in Ports, NEW i \in 1 .. Len(fifo'[p])
        PROVE  \/ i \in 1 .. Len(fifo[p]) /\ fifo'[p][i] = fifo[p][i]
               \/ p = kmsg.port /\ i = Len(q) + 1 /\ fifo'[p][i] = k
    <2>1. CASE p = kmsg.port
      <3>1. i \in 1 .. Len(q) + 1 /\ fifo'[p] = Append(q, k) /\ fifo[p] = q
        BY <1>2, <1>3, <1>4, <2>1
      <3> QED BY <1>4, <1>5, <2>1, <3>1
    <2>2. CASE p # kmsg.port
      BY <1>3, <2>2
    <2> QED BY <2>1, <2>2
  <1>8. \A s \in Slots : InHand(s)' <=> InHand(s) /\ s # k
    <2>1. \A t \in Threads : tslot[t] # kslot
      BY <1>0, <1>1 DEF SlotForm
    <2> QED BY <1>1, <1>2, <2>1 DEF InHand
  <1>9. InFifo(k)' /\ \A s : InFifo(s) => InFifo(s)'
    <2>1. \A p \in Ports : \A j \in 1 .. Len(fifo[p]) : j \in 1 .. Len(fifo'[p]) /\ fifo'[p][j] = fifo[p][j]
      <3>1. \A j \in 1 .. Len(q) : j \in 1 .. Len(q) + 1
        BY <1>4
      <3> QED BY <1>2, <1>3, <1>4, <3>1
    <2>2. Len(q) + 1 \in 1 .. Len(Append(q, k)) /\ Append(q, k)[Len(q) + 1] = k
      BY <1>4
    <2>3. fifo'[kmsg.port] = Append(q, k)
      BY <1>1, <1>3
    <2>4. InFifo(k)'
      BY <1>1, <2>2, <2>3 DEF InFifo
    <2> QED BY <2>1, <2>4 DEF InFifo
  <1>10. \A s \in Slots : s \in free' \/ InHand(s)' \/ InFifo(s)' \/ Lost(s)'
    BY <1>0, <1>1, <1>8, <1>9, LostKept DEF SlotForm
  <1>11. \A s \in free' : ~InHand(s)'
    BY <1>0, <1>1, <1>8 DEF SlotForm, TypeOK, QueueType
  <1>12. k \in Slots /\ k \notin free /\ ~InFifo(k)
    BY <1>0, <1>1, <1>2 DEF SlotForm, InHand, InFifo
  <1>13. ASSUME NEW p \in Ports, NEW i \in 1 .. Len(fifo'[p])
         PROVE  fifo'[p][i] \notin free /\ fifo'[p][i] # None /\ \A t \in Threads : tslot[t] # fifo'[p][i]
    <2>1. CASE i \in 1 .. Len(fifo[p]) /\ fifo'[p][i] = fifo[p][i]
      <3>1. fifo[p][i] \in Slots /\ fifo[p][i] \notin free /\ ~InHand(fifo[p][i])
        BY <1>0, <2>1 DEF SlotForm, TypeOK, QueueType
      <3> QED BY <2>1, <3>1 DEF InHand
    <2>2. CASE fifo'[p][i] = k
      BY <1>0, <1>1, <1>2, <1>12, <2>2 DEF SlotForm
    <2> QED BY <1>6, <2>1, <2>2
  <1>14. ASSUME NEW p \in Ports, NEW i \in 1 .. Len(fifo'[p]), NEW r \in Ports, NEW j \in 1 .. Len(fifo'[r]),
                fifo'[p][i] = fifo'[r][j]
         PROVE  p = r /\ i = j
    <2>1. CASE fifo'[p][i] = k
      <3>1. \A o \in Ports : \A l \in 1 .. Len(fifo[o]) : fifo[o][l] # k
        BY <1>12 DEF InFifo
      <3>2. p = kmsg.port /\ i = Len(q) + 1
        BY <1>6, <2>1, <3>1
      <3>3. r = kmsg.port /\ j = Len(q) + 1
        BY <1>6, <1>14, <2>1, <3>1
      <3> QED BY <3>2, <3>3
    <2>2. CASE fifo'[p][i] # k
      <3>1. /\ i \in 1 .. Len(fifo[p]) /\ fifo'[p][i] = fifo[p][i]
            /\ j \in 1 .. Len(fifo[r]) /\ fifo'[r][j] = fifo[r][j]
        BY <1>6, <1>14, <2>2
      <3>2. fifo[p][i] = fifo[r][j]
        BY <1>14, <3>1
      <3>3. \A o, l \in Ports : \A x \in 1 .. Len(fifo[o]), y \in 1 .. Len(fifo[l]) :
              fifo[o][x] = fifo[l][y] => o = l /\ x = y
        BY <1>0 DEF SlotForm
      <3> QED BY <3>1, <3>2, <3>3
    <2> QED BY <2>1, <2>2
  <1>15. SlotForm'
    <2>1. \A p \in Ports : \A i \in 1 .. Len(fifo'[p]) : ~InHand(fifo[p][i])'
      BY <1>1, <1>13 DEF InHand
    <2> QED BY <1>0, <1>1, <1>10, <1>11, <1>13, <1>14, <2>1 DEF SlotForm
  <1>16. Filled'
    BY <1>0, <1>1 DEF Filled
  <1> QED BY <1>15, <1>16, SlotFormNext DEF SlotsOK

\* A reader takes the first slot of a queue.
LEMMA SlotsDequeue ==
  ASSUME IInv, TypeOK', [Next]_vars, NEW t \in Threads, RecvDequeue(t)
  PROVE  SlotsOK'
  <1>0. TypeOK /\ SlotForm /\ Filled /\ Control
    BY SlotFormFacts DEF IInv, SlotsOK
  <1>1. PICK p, q, h : p = tport[t] /\ q = fifo[p] /\ h = Head(q)
    OBVIOUS
  <1>2. /\ p \in Ports /\ q \in Seq(Slots) /\ q # <<>> /\ tpc[t] = "dequeue"
        /\ tslot' = [tslot EXCEPT ![t] = h] /\ fifo' = [fifo EXCEPT ![p] = Tail(q)]
    BY <1>0, <1>1, WaitingDequeue
  <1>3. UNCHANGED <<free, kslot, kpc, kmsg, desc>>
    BY DEF RecvDequeue, kthread
  <1>4. /\ h = q[1] /\ Len(q) \in Nat \ {0} /\ Len(Tail(q)) = Len(q) - 1
        /\ \A i \in 1 .. Len(q) - 1 : Tail(q)[i] = q[i + 1]
    BY <1>1, <1>2, TailFacts
  <1>5. \A o \in Ports : fifo'[o] = IF o = p THEN Tail(q) ELSE fifo[o]
    BY <1>0, <1>2 DEF TypeOK, QueueType
  <1>6. tslot[t] = None /\ \A u \in Threads : tslot'[u] = IF u = t THEN h ELSE tslot[u]
    BY <1>0, <1>2 DEF TypeOK, UserType
  <1>7. 1 \in 1 .. Len(q) /\ h \in Slots /\ h \notin free /\ ~InHand(h)
    BY <1>0, <1>1, <1>2, <1>4 DEF SlotForm
  <1>8. ASSUME NEW o \in Ports, NEW i \in 1 .. Len(fifo'[o])
        PROVE  \E x \in 1 .. Len(fifo[o]) : /\ x = (IF o = p THEN i + 1 ELSE i)
                                            /\ fifo'[o][i] = fifo[o][x] /\ fifo[o][x] # h
    <2>1. CASE o = p
      <3>1. i \in 1 .. Len(q) - 1 /\ fifo'[o][i] = q[i + 1]
        BY <1>4, <1>5, <2>1
      <3>2. i + 1 \in 1 .. Len(q) /\ i + 1 # 1
        BY <1>4, <3>1
      <3>3. q[i + 1] # q[1]
        BY <1>0, <1>1, <1>2, <1>7, <3>2 DEF SlotForm
      <3> QED BY <1>1, <1>4, <2>1, <3>1, <3>2, <3>3
    <2>2. CASE o # p
      <3>1. i \in 1 .. Len(fifo[o]) /\ fifo'[o][i] = fifo[o][i]
        BY <1>5, <2>2
      <3>2. fifo[o][i] # fifo[p][1]
        BY <1>0, <1>1, <1>2, <1>7, <2>2, <3>1 DEF SlotForm
      <3> QED BY <1>1, <1>4, <2>2, <3>1, <3>2
    <2> QED BY <2>1, <2>2
  <1>9. \A s : InFifo(s) => InFifo(s)' \/ s = h
    <2> SUFFICES ASSUME NEW s, InFifo(s), s # h PROVE InFifo(s)'
      OBVIOUS
    <2>1. PICK o \in Ports : \E i \in 1 .. Len(fifo[o]) : fifo[o][i] = s
      BY DEF InFifo
    <2>2. PICK i \in 1 .. Len(fifo[o]) : fifo[o][i] = s
      BY <2>1
    <2>3. CASE o = p
      <3>1. i \in 1 .. Len(q) /\ i # 1 /\ q[i] = s
        BY <1>1, <1>4, <2>2, <2>3
      <3>2. i - 1 \in 1 .. Len(q) - 1 /\ (i - 1) + 1 = i
        BY <1>4, <3>1
      <3>3. Tail(q)[i - 1] = s /\ i - 1 \in 1 .. Len(Tail(q)) /\ fifo'[p] = Tail(q)
        BY <1>2, <1>4, <1>5, <3>1, <3>2
      <3> QED BY <1>2, <3>3 DEF InFifo
    <2>4. CASE o # p
      BY <1>5, <2>2, <2>4 DEF InFifo
    <2> QED BY <2>3, <2>4
  <1>10. \A s \in Slots : InHand(s)' <=> InHand(s) \/ s = h
    BY <1>3, <1>6 DEF InHand
  <1>11. \A s \in Slots : s \in free' \/ InHand(s)' \/ InFifo(s)' \/ Lost(s)'
    BY <1>0, <1>3, <1>9, <1>10, LostKept DEF SlotForm
  <1>12. \A s \in free' : ~InHand(s)'
    BY <1>0, <1>3, <1>7, <1>10 DEF SlotForm, TypeOK, QueueType
  <1>13. ASSUME NEW o \in Ports, NEW i \in 1 .. Len(fifo'[o])
         PROVE  fifo'[o][i] \notin free' /\ ~InHand(fifo[o][i])'
    <2>1. PICK x \in 1 .. Len(fifo[o]) : fifo'[o][i] = fifo[o][x] /\ fifo[o][x] # h
      BY <1>8
    <2>2. fifo[o][x] \in Slots /\ fifo[o][x] \notin free /\ ~InHand(fifo[o][x])
      BY <1>0 DEF SlotForm, TypeOK, QueueType
    <2> QED BY <1>3, <1>6, <2>1, <2>2 DEF InHand
  <1>14. ASSUME NEW o \in Ports, NEW i \in 1 .. Len(fifo'[o]), NEW r \in Ports, NEW j \in 1 .. Len(fifo'[r]),
                fifo'[o][i] = fifo'[r][j]
         PROVE  o = r /\ i = j
    <2>1. PICK x \in 1 .. Len(fifo[o]) : x = (IF o = p THEN i + 1 ELSE i) /\ fifo'[o][i] = fifo[o][x]
      BY <1>8
    <2>2. PICK y \in 1 .. Len(fifo[r]) : y = (IF r = p THEN j + 1 ELSE j) /\ fifo'[r][j] = fifo[r][y]
      BY <1>8
    <2>3. o = r /\ x = y
      <3>1. \A a, b \in Ports : \A c \in 1 .. Len(fifo[a]), d \in 1 .. Len(fifo[b]) :
              fifo[a][c] = fifo[b][d] => a = b /\ c = d
        BY <1>0 DEF SlotForm
      <3>2. fifo[o][x] = fifo[r][y]
        BY <1>14, <2>1, <2>2
      <3> QED BY <3>1, <3>2
    <2>4. i \in Int /\ j \in Int
      OBVIOUS
    <2> QED BY <2>1, <2>2, <2>3, <2>4
  <1>15. \A u, v \in Threads : tslot'[u] # None => tslot'[u] # kslot' /\ (tslot'[u] = tslot'[v] => u = v)
    BY <1>0, <1>3, <1>6, <1>7 DEF SlotForm, InHand
  <1>16. SlotForm'
    BY <1>11, <1>12, <1>13, <1>14, <1>15 DEF SlotForm
  <1>17. Filled'
    BY <1>0, <1>3 DEF Filled
  <1> QED BY <1>16, <1>17, SlotFormNext DEF SlotsOK

\* A reader frees the slot whose message it has copied.
LEMMA SlotsFree ==
  ASSUME IInv, TypeOK', [Next]_vars, NEW t \in Threads, RecvFree(t)
  PROVE  SlotsOK'
  <1>0. TypeOK /\ SlotForm /\ Filled
    BY SlotFormFacts DEF IInv, SlotsOK
  <1>1. PICK h : h = tslot[t]
    OBVIOUS
  <1>2. /\ free' = free \cup {h} /\ tslot' = [tslot EXCEPT ![t] = None]
        /\ UNCHANGED <<fifo, desc, kpc, kmsg, kslot>> /\ h \in Slots /\ h # None
    BY <1>0, <1>1 DEF RecvFree, kthread, TypeOK, UserType
  <1>3. \A u \in Threads : tslot'[u] = IF u = t THEN None ELSE tslot[u]
    BY <1>0, <1>2 DEF TypeOK, UserType
  <1>4. h # kslot /\ \A u \in Threads : tslot[u] = h => u = t
    BY <1>0, <1>1, <1>2 DEF SlotForm
  <1>5. \A s \in Slots : InHand(s)' <=> InHand(s) /\ s # h
    BY <1>1, <1>2, <1>3, <1>4 DEF InHand
  <1>6. \A s : InFifo(s)' <=> InFifo(s)
    BY <1>2 DEF InFifo
  <1>7. \A s \in Slots : s \in free' \/ InHand(s)' \/ InFifo(s)' \/ Lost(s)'
    BY <1>0, <1>2, <1>5, <1>6, LostKept DEF SlotForm
  <1>8. \A s \in free' : ~InHand(s)'
    <2>1. \A s \in free' : s \in Slots /\ (s \in free \/ s = h)
      BY <1>0, <1>2 DEF TypeOK, QueueType
    <2> QED BY <1>0, <1>5, <2>1 DEF SlotForm
  <1>9. ASSUME NEW p \in Ports, NEW i \in 1 .. Len(fifo[p])
        PROVE  fifo[p][i] \notin free' /\ ~InHand(fifo[p][i])'
    <2>1. fifo[p][i] \in Slots /\ fifo[p][i] \notin free /\ ~InHand(fifo[p][i])
      BY <1>0 DEF SlotForm, TypeOK, QueueType
    <2>2. fifo[p][i] # h
      BY <1>1, <2>1 DEF InHand
    <2> QED BY <1>2, <1>5, <2>1, <2>2
  <1>10. \A u, v \in Threads : tslot'[u] # None => tslot'[u] # kslot' /\ (tslot'[u] = tslot'[v] => u = v)
    BY <1>0, <1>2, <1>3 DEF SlotForm
  <1>11. SlotForm'
    BY <1>0, <1>2, <1>7, <1>8, <1>9, <1>10 DEF SlotForm
  <1>12. Filled'
    BY <1>0, <1>2 DEF Filled
  <1> QED BY <1>11, <1>12, SlotFormNext DEF SlotsOK

\* A flush frees the slots of a queue, and loses the one at which it stops.
LEMMA SlotsFlush ==
  ASSUME IInv, TypeOK', [Next]_vars, NEW t \in Threads, LongFlush(t)
  PROVE  SlotsOK'
  <1>0. TypeOK /\ SlotForm /\ Filled
    BY SlotFormFacts DEF IInv, SlotsOK
  <1>1. PICK p, q, n : Flushed(t, p, q, n)
    BY <1>0, FlushForm
  <1>2. /\ p \in Ports /\ q = fifo[p] /\ q \in Seq(Slots) /\ n \in 0 .. Len(q) /\ Len(q) \in Nat
        /\ n < Len(q) => desc[q[n + 1]].addr \notin Bufs
        /\ fifo' = [fifo EXCEPT ![p] = SubSeq(q, n + 2, Len(q))]
        /\ free' = free \cup {q[i] : i \in 1 .. n}
        /\ UNCHANGED <<kpc, kmsg, kslot, desc, tslot>>
    BY <1>1 DEF Flushed
  <1>3. \A i \in Ids : (\E j \in 1 .. Len(q) : j <= n + 1 /\ desc[q[j]].id = i) => fate'[i] = "flushed"
    BY <1>1 DEF Flushed
  <1>4. PICK z : z = SubSeq(q, n + 2, Len(q))
    OBVIOUS
  <1>5. /\ Len(z) = IF n < Len(q) THEN Len(q) - n - 1 ELSE 0
        /\ \A i \in 1 .. Len(z) : z[i] = q[n + 1 + i]
    BY <1>2, <1>4, RestFacts
  <1>6. \A o \in Ports : fifo'[o] = IF o = p THEN z ELSE fifo[o]
    BY <1>0, <1>2, <1>4 DEF TypeOK, QueueType
  <1>7. \A s : InHand(s)' <=> InHand(s)
    BY <1>2 DEF InHand
  <1>8. \A a, b \in Ports : \A c \in 1 .. Len(fifo[a]), d \in 1 .. Len(fifo[b]) :
          fifo[a][c] = fifo[b][d] => a = b /\ c = d
    BY <1>0 DEF SlotForm
  <1>9. \A i \in 1 .. n : i \in 1 .. Len(fifo[p]) /\ q[i] \in Slots
    BY <1>2
  <1>10. ASSUME NEW o \in Ports, NEW i \in 1 .. Len(fifo'[o])
         PROVE  \E x \in 1 .. Len(fifo[o]) : /\ x = (IF o = p THEN n + 1 + i ELSE i)
                                             /\ fifo'[o][i] = fifo[o][x] /\ fifo[o][x] \notin free'
    <2>1. CASE o = p
      <3>1. i \in 1 .. Len(z) /\ fifo'[o][i] = q[n + 1 + i]
        BY <1>5, <1>6, <2>1
      <3>0. n < Len(q) /\ Len(z) = Len(q) - n - 1 /\ i \in Nat /\ 1 <= i /\ i <= Len(z)
        BY <1>2, <1>5, <3>1
      <3>2. n + 1 + i \in 1 .. Len(q) /\ ~(n + 1 + i <= n)
        BY <1>2, <3>0
      <3>3. \A j \in 1 .. n : q[j] # q[n + 1 + i]
        <4>1. \A j \in 1 .. n : j # n + 1 + i
          BY <1>2, <3>2
        <4> QED BY <1>2, <1>8, <1>9, <3>2, <4>1
      <3>4. q[n + 1 + i] \notin free
        BY <1>0, <1>2, <3>2 DEF SlotForm
      <3> QED BY <1>2, <2>1, <3>1, <3>2, <3>3, <3>4
    <2>2. CASE o # p
      <3>1. i \in 1 .. Len(fifo[o]) /\ fifo'[o][i] = fifo[o][i]
        BY <1>6, <2>2
      <3>2. \A j \in 1 .. n : q[j] # fifo[o][i]
        BY <1>2, <1>8, <1>9, <2>2, <3>1
      <3>3. fifo[o][i] \notin free
        BY <1>0, <3>1 DEF SlotForm
      <3> QED BY <1>2, <2>2, <3>1, <3>2, <3>3
    <2> QED BY <2>1, <2>2
  <1>11. ASSUME NEW s \in Slots, InFifo(s) PROVE s \in free' \/ InFifo(s)' \/ Lost(s)'
    <2>1. PICK o \in Ports : \E i \in 1 .. Len(fifo[o]) : fifo[o][i] = s
      BY <1>11 DEF InFifo
    <2>2. PICK i \in 1 .. Len(fifo[o]) : fifo[o][i] = s
      BY <2>1
    <2>3. CASE o # p
      BY <1>6, <2>2, <2>3 DEF InFifo
    <2>4. CASE o = p /\ i <= n
      <3>1. i \in 1 .. n /\ q[i] = s
        BY <1>2, <2>2, <2>4
      <3> QED BY <1>2, <3>1
    <2>5. CASE o = p /\ i = n + 1
      <3>1. i \in 1 .. Len(q) /\ q[i] = s /\ n < Len(q) /\ s \notin free
        BY <1>0, <1>2, <2>2, <2>5 DEF SlotForm
      <3>2. desc[s] \in Msgs /\ desc[s].addr \notin Bufs
        BY <1>2, <2>5, <3>1, LostKept
      <3>3. desc[s].addr = BadAddr /\ desc[s].id \in Ids
        BY <3>2 DEF Msgs
      <3>4. fate'[desc[s].id] = "flushed"
        <4>1. i <= n + 1
          BY <1>2, <2>5
        <4> QED BY <1>3, <3>1, <3>3, <4>1
      <3> QED BY <1>2, <3>3, <3>4 DEF Lost
    <2>6. CASE o = p /\ i > n + 1
      <3>1. i - (n + 1) \in 1 .. Len(z) /\ n + 1 + (i - (n + 1)) = i
        BY <1>2, <1>5, <2>2, <2>6
      <3>2. z[i - (n + 1)] = s /\ fifo'[p] = z
        BY <1>2, <1>5, <1>6, <2>2, <2>6, <3>1
      <3> QED BY <1>2, <3>1, <3>2 DEF InFifo
    <2>7. i <= n \/ i = n + 1 \/ i > n + 1
      BY <1>2
    <2> QED BY <2>3, <2>4, <2>5, <2>6, <2>7
  <1>12. \A s \in Slots : s \in free' \/ InHand(s)' \/ InFifo(s)' \/ Lost(s)'
    BY <1>0, <1>2, <1>7, <1>11, LostKept DEF SlotForm
  <1>13. \A s \in free' : ~InHand(s)'
    <2>1. \A i \in 1 .. n : ~InHand(q[i])
      BY <1>0, <1>2, <1>9 DEF SlotForm
    <2> QED BY <1>0, <1>2, <1>7, <2>1 DEF SlotForm
  <1>14. ASSUME NEW o \in Ports, NEW i \in 1 .. Len(fifo'[o])
         PROVE  fifo'[o][i] \notin free' /\ ~InHand(fifo[o][i])'
    <2>1. PICK x \in 1 .. Len(fifo[o]) : fifo'[o][i] = fifo[o][x] /\ fifo[o][x] \notin free'
      BY <1>10
    <2>2. ~InHand(fifo[o][x])
      BY <1>0 DEF SlotForm
    <2> QED BY <1>2, <2>1, <2>2 DEF InHand
  <1>15. ASSUME NEW o \in Ports, NEW i \in 1 .. Len(fifo'[o]), NEW r \in Ports, NEW j \in 1 .. Len(fifo'[r]),
                fifo'[o][i] = fifo'[r][j]
         PROVE  o = r /\ i = j
    <2>1. PICK x \in 1 .. Len(fifo[o]) : x = (IF o = p THEN n + 1 + i ELSE i) /\ fifo'[o][i] = fifo[o][x]
      BY <1>10
    <2>2. PICK y \in 1 .. Len(fifo[r]) : y = (IF r = p THEN n + 1 + j ELSE j) /\ fifo'[r][j] = fifo[r][y]
      BY <1>10
    <2>3. fifo[o][x] = fifo[r][y]
      BY <1>15, <2>1, <2>2
    <2>4. o = r /\ x = y
      BY <1>8, <2>3
    <2>5. i \in Int /\ j \in Int /\ n \in Int
      BY <1>2
    <2> QED BY <2>1, <2>2, <2>4, <2>5
  <1>16. \A u, v \in Threads : tslot'[u] # None => tslot'[u] # kslot' /\ (tslot'[u] = tslot'[v] => u = v)
    BY <1>0, <1>2 DEF SlotForm
  <1>17. SlotForm'
    BY <1>12, <1>13, <1>14, <1>15, <1>16 DEF SlotForm
  <1>18. Filled'
    BY <1>0, <1>2 DEF Filled
  <1> QED BY <1>17, <1>18, SlotFormNext DEF SlotsOK

\* A step preserves what is known of the slots.
LEMMA SlotsStep == IInv /\ TypeOK' /\ [Next]_vars => SlotsOK'
  <1> SUFFICES ASSUME IInv, TypeOK', [Next]_vars PROVE SlotsOK'
    OBVIOUS
  <1>1. CASE UNCHANGED vars \/ ArriveLong \/ ArriveOther
    <2>1. UNCHANGED <<fifo, free, kslot, tslot, kpc, kmsg>>
      BY <1>1 DEF vars, ArriveLong, ArriveOther, kthread, queue, users
    <2> QED BY <2>1, SlotsQuiet
  <1>2. CASE DequeueRead \/ DequeueWake
    <2>1. UNCHANGED <<fifo, free, kslot, tslot>> /\ kpc' # "put"
      BY <1>2 DEF DequeueRead, DequeueWake, queue, users
    <2> QED BY <2>1, SlotsQuiet
  <1>3. CASE DequeuePop
    <2>1. CASE free = {}
      <3>1. UNCHANGED <<fifo, free, kslot, tslot>> /\ kpc' # "put"
        BY <1>3, <2>1 DEF DequeuePop, users
      <3> QED BY <3>1, SlotsQuiet
    <2> QED BY <1>3, <2>1, SlotsPop
  <1>4. CASE DequeuePut
    BY <1>4, SlotsDiscard, SlotsPut
  <1>5. ASSUME NEW t \in Threads, Steps(t) PROVE SlotsOK'
    <2>1. CASE RecvDequeue(t) \/ RecvFree(t) \/ LongFlush(t)
      BY <2>1, SlotsDequeue, SlotsFree, SlotsFlush
    <2>2. CASE Call(t) \/ Lock(t) \/ RecvTest(t) \/ RecvWait(t) \/ Signal(t) \/ RecvCopy(t) \/ RecvGiveBack(t)
      <3>1. UNCHANGED <<fifo, free, kslot, tslot, kpc, kmsg>>
        BY <2>2 DEF Call, Lock, RecvTest, RecvWait, Signal, RecvCopy, RecvGiveBack, queue, kthread
      <3> QED BY <3>1, SlotsQuiet
    <2> QED BY <1>5, <2>1, <2>2 DEF Steps
  <1> QED BY <1>1, <1>2, <1>3, <1>4, <1>5, NextSplit

-----------------------------------------------------------------------------
(* Counting *)

\* A step preserves Straight.
LEMMA StraightStep == IInv /\ TypeOK' /\ [Next]_vars => Straight'
  <1> SUFFICES ASSUME IInv, TypeOK', [Next]_vars, ~wrong'
               PROVE  /\ \A i \in 1 .. Len(hwrx') : hwrx'[i].type = "LONG_DATA" => hwrx'[i].addr \in Bufs
                      /\ kmsg' # None => kmsg'.addr \in Bufs
                      /\ \A s \in Slots : desc'[s] # None => desc'[s].addr \in Bufs
    BY DEF Straight
  <1>0. TypeOK /\ (wrong => wrong')
    <2>1. TypeOK
      BY DEF IInv
    <2>2. ASSUME NEW t \in Threads, Steps(t) PROVE wrong' = wrong
      BY <2>2 DEF Steps, Call, Lock, RecvTest, RecvWait, Signal, RecvDequeue, RecvCopy, RecvFree,
                  RecvGiveBack, LongFlush, nic
    <2>3. ASSUME UNCHANGED vars \/ ArriveLong \/ DequeueRead \/ DequeuePop \/ DequeuePut \/ DequeueWake
          PROVE  wrong' = wrong
      BY <2>3 DEF vars, ArriveLong, DequeueRead, DequeuePop, DequeuePut, DequeueWake, nic
    <2>4. ArriveOther => (wrong => wrong')
      BY DEF ArriveOther
    <2> QED BY <2>1, <2>2, <2>3, <2>4, NextSplit
  <1>1. /\ \A i \in 1 .. Len(hwrx) : hwrx[i].type = "LONG_DATA" => hwrx[i].addr \in Bufs
        /\ kmsg # None => kmsg.addr \in Bufs
        /\ \A s \in Slots : desc[s] # None => desc[s].addr \in Bufs
    BY <1>0 DEF IInv, Straight
  <1>2. ASSUME UNCHANGED <<hwrx, desc>>, kmsg' = kmsg \/ kmsg' = None
        PROVE  /\ \A i \in 1 .. Len(hwrx') : hwrx'[i].type = "LONG_DATA" => hwrx'[i].addr \in Bufs
               /\ kmsg' # None => kmsg'.addr \in Bufs
               /\ \A s \in Slots : desc'[s] # None => desc'[s].addr \in Bufs
    BY <1>1, <1>2
  <1>3. ASSUME ArriveLong \/ ArriveOther
        PROVE  /\ UNCHANGED <<desc, kmsg>>
               /\ \A i \in 1 .. Len(hwrx') : hwrx'[i].type = "LONG_DATA" => hwrx'[i].addr \in Bufs
    <2>1. UNCHANGED <<desc, kmsg>>
      BY <1>3 DEF ArriveLong, ArriveOther, queue, kthread
    <2>2. PICK m : hwrx' = Append(hwrx, m) /\ m \in Msgs /\ (m.type = "LONG_DATA" => m.addr \in Bufs)
      <3>1. CASE ArriveLong
        <4>1. PICK b \in hwfree, p \in Ports \cup {BadPort} :
                hwrx' = Append(hwrx, [id |-> arrived + 1, type |-> "LONG_DATA", port |-> p, addr |-> b])
          BY <3>1 DEF ArriveLong, Push
        <4>2. arrived + 1 \in Ids /\ b \in Bufs
          BY <1>0, <3>1 DEF ArriveLong, TypeOK, NicType, Ids
        <4>3. [id |-> arrived + 1, type |-> "LONG_DATA", port |-> p, addr |-> b] \in Msgs
          BY <4>2 DEF Msgs, Types
        <4> QED BY <4>1, <4>2, <4>3
      <3>2. CASE ArriveOther
        <4>1. PICK ty \in Types, p \in Ports :
                /\ hwrx' = Append(hwrx, [id |-> arrived + 1, type |-> ty, port |-> p, addr |-> BadAddr])
                /\ wrong' = (wrong \/ ty = "LONG_DATA")
          BY <3>2 DEF ArriveOther, Push
        <4>2. arrived + 1 \in Ids
          BY <1>0, <3>2 DEF ArriveOther, TypeOK, NicType, Ids
        <4>0. ty # "LONG_DATA"
          BY <4>1
        <4>3. [id |-> arrived + 1, type |-> ty, port |-> p, addr |-> BadAddr] \in Msgs
          BY <4>2 DEF Msgs
        <4> QED BY <4>0, <4>1, <4>3
      <3> QED BY <1>3, <3>1, <3>2
    <2>3. /\ Len(hwrx') = Len(hwrx) + 1 /\ hwrx'[Len(hwrx) + 1] = m /\ Len(hwrx) \in Nat
          /\ \A i \in 1 .. Len(hwrx) : hwrx'[i] = hwrx[i]
      BY <1>0, <2>2, AppendFacts DEF TypeOK, NicType
    <2>4. \A i \in 1 .. Len(hwrx') : i \in 1 .. Len(hwrx) \/ i = Len(hwrx) + 1
      BY <2>3
    <2> QED BY <1>1, <2>1, <2>2, <2>3, <2>4
  <1>4. CASE DequeueRead
    <2>1. hwrx \in Seq(Msgs) /\ hwrx # <<>> /\ hwrx' = Tail(hwrx) /\ desc' = desc
      BY <1>0, <1>4 DEF DequeueRead, TypeOK, NicType, queue
    <2>2. /\ Head(hwrx) = hwrx[1] /\ Len(hwrx) \in Nat \ {0} /\ Len(hwrx') = Len(hwrx) - 1
          /\ \A i \in 1 .. Len(hwrx) - 1 : hwrx'[i] = hwrx[i + 1]
      BY <2>1, TailFacts
    <2>3. kmsg' = kmsg \/ (kmsg' = hwrx[1] /\ hwrx[1].type = "LONG_DATA")
      BY <1>4, <2>2 DEF DequeueRead
    <2>4. 1 \in 1 .. Len(hwrx) /\ \A i \in 1 .. Len(hwrx') : i + 1 \in 1 .. Len(hwrx) /\ hwrx'[i] = hwrx[i + 1]
      BY <2>2
    <2> QED BY <1>1, <2>1, <2>3, <2>4
  <1>5. CASE DequeuePop
    <2>1. hwrx' = hwrx /\ (kmsg' = kmsg \/ kmsg' = None) /\ kmsg # None
      BY <1>0, <1>5 DEF DequeuePop, nic, TypeOK, KthreadType
    <2>2. desc' = desc \/ desc' = [desc EXCEPT ![kslot'] = kmsg]
      BY <1>5 DEF DequeuePop
    <2> QED BY <1>0, <1>1, <2>1, <2>2 DEF TypeOK, QueueType
  <1>6. ASSUME UNCHANGED vars \/ DequeuePut \/ DequeueWake
        PROVE  UNCHANGED <<hwrx, desc>> /\ (kmsg' = kmsg \/ kmsg' = None)
    BY <1>6 DEF vars, DequeuePut, DequeueWake, nic, kthread, queue
  <1>7. ASSUME NEW t \in Threads, Steps(t) PROVE UNCHANGED <<hwrx, desc, kmsg>>
    BY <1>7 DEF Steps, Call, Lock, RecvTest, RecvWait, Signal, RecvDequeue, RecvCopy, RecvFree,
                RecvGiveBack, LongFlush, nic, kthread, queue
  <1>8. CASE UNCHANGED vars \/ DequeuePut \/ DequeueWake \/ \E t \in Threads : Steps(t)
    BY <1>2, <1>6, <1>7, <1>8
  <1>9. CASE ArriveLong \/ ArriveOther
    BY <1>1, <1>3, <1>9
  <1> QED BY <1>4, <1>5, <1>8, <1>9, NextSplit

\* When the kthread needs a slot there is one, unless a wrong address arrived: every
\* slot in use stands for a buffer, and so does the message that needs the slot.
LEMMA SlotLeft ==
  ASSUME IInv, kpc = "pop", ~wrong
  PROVE  free # {}
  <1> SUFFICES ASSUME free = {} PROVE FALSE
    OBVIOUS
  <1>0. TypeOK /\ Messages /\ SlotsOK /\ SlotForm /\ Filled
    BY SlotFormFacts DEF IInv, SlotsOK
  <1>1. KOpen /\ kmsg # None /\ kslot = None
    BY <1>0 DEF KOpen, TypeOK, KthreadType
  <1>2. kmsg.addr \in Bufs /\ \A s \in Slots : desc[s].addr \in Bufs
    BY <1>0, <1>1 DEF IInv, Straight, Filled
  <1>3. payload[kmsg.addr] = kmsg.id /\ fate[kmsg.id] = "none" /\ kmsg.id = Read
    BY <1>0, <1>1, <1>2, OpenFacts DEF Messages, Payloads, Intact, FateOpen
  <1>4. ASSUME NEW s \in Slots
        PROVE  s \in Waiting \/ \E t \in Threads : tslot[t] = s /\ tbuf[t] = desc[s].addr
    <2>1. ~Lost(s) /\ s \notin free /\ s # kslot
      BY <1>1, <1>2 DEF Lost
    <2>2. InFifo(s) => s \in Waiting
      BY <1>0, WaitingFacts DEF WaitingForm
    <2>3. ASSUME NEW t \in Threads, tslot[t] = s PROVE s \in Waiting \/ tbuf[t] = desc[s].addr
      <3>1. tpc[t] \in {"copy", "free"}
        BY <1>0, <2>3 DEF TypeOK, UserType
      <3>2. tpc[t] = "copy" => s \in Waiting
        BY <1>0, <2>3, WaitingFacts DEF WaitingForm, InCopy
      <3>3. tpc[t] = "free" => tbuf[t] = desc[s].addr
        BY <1>0, <1>2, <2>3 DEF Messages, Handed, axiomnet_long_rdma2buf
      <3> QED BY <3>1, <3>2, <3>3
    <2> QED BY <1>0, <2>1, <2>2, <2>3 DEF SlotForm, InHand
  <1>5. \A s \in Waiting : /\ payload[desc[s].addr] = desc[s].id /\ fate[desc[s].id] = "none"
                           /\ desc[s].id # Read
    BY <1>0, <1>1, <1>2, OpenFacts DEF Messages, Payloads, Intact, FateOpen, Numbered
  <1>6. \A t \in Threads : tbuf[t] # None => fate[payload[tbuf[t]]] # "none"
    BY <1>0 DEF Messages, Handed
  <1>7. \A s \in Slots : desc[s].addr # kmsg.addr
    BY <1>2, <1>3, <1>4, <1>5, <1>6
  <1>8. ASSUME NEW s \in Slots, NEW r \in Slots, desc[s].addr = desc[r].addr PROVE s = r
    <2>1. CASE s \in Waiting /\ r \in Waiting
      BY <1>0, <1>5, <1>8, <2>1 DEF Messages, Numbered
    <2>2. CASE s \notin Waiting /\ r \notin Waiting
      <3>1. PICK t \in Threads : tslot[t] = s /\ tbuf[t] = desc[s].addr
        BY <1>4, <2>2
      <3>2. PICK u \in Threads : tslot[u] = r /\ tbuf[u] = desc[r].addr
        BY <1>4, <2>2
      <3>3. tbuf[t] # None /\ tbuf[t] = tbuf[u]
        BY <1>2, <1>8, <3>1, <3>2
      <3>4. t = u
        BY <1>0, <3>3 DEF Messages, Handed
      <3> QED BY <3>1, <3>2, <3>4
    <2>3. CASE s \in Waiting /\ r \notin Waiting
      BY <1>2, <1>4, <1>5, <1>6, <1>8, <2>3
    <2>4. CASE s \notin Waiting /\ r \in Waiting
      BY <1>2, <1>4, <1>5, <1>6, <1>8, <2>4
    <2> QED BY <2>1, <2>2, <2>3, <2>4
  <1>9. PICK B : B = Bufs \ {kmsg.addr}
    OBVIOUS
  <1>10. IsFiniteSet(Slots) /\ IsFiniteSet(Bufs) /\ Cardinality(Bufs) <= Cardinality(Slots)
    BY LongRxAssumption
  <1>11. IsFiniteSet(B) /\ Cardinality(B) = Cardinality(Bufs) - 1
    BY <1>2, <1>9, <1>10, FS_RemoveElement
  <1>12. Cardinality(B) < Cardinality(Slots)
    <2>1. Cardinality(Bufs) \in Nat /\ Cardinality(Slots) \in Nat
      BY <1>10, FS_CardinalityType
    <2> QED BY <1>10, <1>11, <2>1
  <1>13. PICK f : f = [s \in Slots |-> desc[s].addr]
    OBVIOUS
  <1>14. f \in [Slots -> B]
    BY <1>2, <1>7, <1>9, <1>13
  <1>15. \E x, y \in Slots : x # y /\ f[x] = f[y]
    BY <1>10, <1>11, <1>12, <1>14, FS_PigeonHole
  <1> QED BY <1>8, <1>13, <1>15

\* A step preserves EnoughSlots.
LEMMA EnoughStep == IInv /\ TypeOK' /\ [Next]_vars => EnoughSlots'
  <1> SUFFICES ASSUME IInv, TypeOK', [Next]_vars PROVE EnoughSlots'
    OBVIOUS
  <1>0. TypeOK /\ Control /\ EnoughSlots
    BY DEF IInv
  <1>1. ASSUME NEW t \in Threads, Steps(t) PROVE UNCHANGED <<errors, wrong>>
    <2>1. CASE RecvDequeue(t)
      <3>1. errors' = errors
        BY <1>0, <2>1, WaitingDequeue
      <3> QED BY <2>1, <3>1 DEF RecvDequeue, nic
    <2> QED BY <1>1, <2>1 DEF Steps, Call, Lock, RecvTest, RecvWait, Signal, RecvCopy, RecvFree,
                  RecvGiveBack, LongFlush, nic, history
  <1>2. ASSUME UNCHANGED vars \/ ArriveLong \/ DequeueRead \/ DequeuePut \/ DequeueWake
        PROVE  UNCHANGED <<errors, wrong>>
    BY <1>2 DEF vars, ArriveLong, DequeueRead, DequeuePut, DequeueWake, nic, history
  <1>3. CASE UNCHANGED <<errors, wrong>>
    BY <1>0, <1>3 DEF EnoughSlots
  <1>4. CASE ArriveOther
    <2>1. errors' = errors /\ (wrong => wrong')
      BY <1>4 DEF ArriveOther, history
    <2> QED BY <1>0, <2>1 DEF EnoughSlots
  <1>5. CASE DequeuePop
    <2>1. wrong' = wrong /\ kpc = "pop"
      BY <1>5 DEF DequeuePop, nic
    <2>2. CASE free # {}
      BY <1>3, <1>5, <2>1, <2>2 DEF DequeuePop, history
    <2>3. CASE free = {}
      <3>1. wrong
        BY <2>1, <2>3, SlotLeft
      <3>2. errors' = errors \cup {"LONG SW queue empty"}
        BY <1>5, <2>3 DEF DequeuePop
      <3>3. errors = {} \/ errors = {"LONG SW queue empty"}
        BY <1>0 DEF EnoughSlots
      <3> QED BY <2>1, <3>1, <3>2, <3>3 DEF EnoughSlots
    <2> QED BY <2>2, <2>3
  <1> QED BY <1>1, <1>2, <1>3, <1>4, <1>5, NextSplit
-----------------------------------------------------------------------------
(* The theorems *)

\* IInv is inductive.
THEOREM Invariance == Spec => []IInv
  <1>1. IInv /\ [Next]_vars => IInv'
    <2> SUFFICES ASSUME IInv, [Next]_vars PROVE IInv'
      OBVIOUS
    <2>1. TypeOK'
      BY TypesStep DEF IInv
    <2>2. Control'
      BY ControlStep DEF IInv
    <2> QED BY <2>1, <2>2, MessagesStep, SlotsStep, StraightStep, EnoughStep DEF IInv
  <1> QED BY InitInv, <1>1, PTL DEF Spec

\* Every variable keeps its type: the kthread and the readers hold a slot and a buffer
\* exactly at the steps between taking and giving it away.
THEOREM TypeCorrect == Spec => []TypeOK
  <1>1. IInv => TypeOK
    BY DEF IInv
  <1> QED BY <1>1, Invariance, PTL

\* The places of a message that is not decided.
LEMMA UndecidedFacts ==
  ASSUME TypeOK
  PROVE  \A m : m \in Undecided <=> \/ \E i \in 1 .. Len(hwrx) : hwrx[i] = m
                                    \/ \E s \in Waiting : desc[s] = m
                                    \/ KOpen /\ m = kmsg
  <1>1. \A m : m \in Range(hwrx) <=> \E i \in 1 .. Len(hwrx) : hwrx[i] = m
    BY RangeFacts DEF TypeOK, NicType
  <1> QED BY <1>1 DEF Undecided, KOpen

\* In every queue, with any number of readers, flushes and messages, the payload of a
\* message stays in its buffer until the message is delivered or dropped.
THEOREM PayloadsIntact == Spec => []PayloadIntact
  <1>1. IInv => PayloadIntact
    <2> SUFFICES ASSUME IInv PROVE PayloadIntact
      OBVIOUS
    <2>0. TypeOK /\ Messages /\ SlotsOK /\ Payloads /\ NotCorrupt
      BY DEF IInv, Messages
    <2>1. \A m \in Undecided : Intact(m) /\ m \in Msgs
      BY <2>0, UndecidedFacts, OpenFacts DEF Payloads
    <2>2. \A m \in Undecided : m.addr # BadAddr => m.addr \notin hwfree /\ payload[m.addr] = m.id
      <3> SUFFICES ASSUME NEW m \in Undecided, m.addr # BadAddr
                   PROVE  m.addr \notin hwfree /\ payload[m.addr] = m.id
        OBVIOUS
      <3>1. m.addr \in Bufs
        BY <2>1 DEF Msgs
      <3> QED BY <2>1, <3>1 DEF Intact
    <2> QED BY <2>0, <2>2 DEF PayloadIntact, NotCorrupt
  <1> QED BY <1>1, Invariance, PTL

\* Slots are lost only by a flush that meets a wrong address, buffers only by a
\* message that the kthread discards.
THEOREM LeaksAreKnown == Spec => []LeaksKnown
  <1>1. IInv => LeaksKnown
    <2> SUFFICES ASSUME IInv PROVE LeaksKnown
      OBVIOUS
    <2>0. TypeOK /\ AllPlaced /\ SlotsLostOnlyByFlush
      BY DEF IInv, Messages, SlotsOK
    <2>1. BuffersLostOnlyByDiscard
      <3> SUFFICES ASSUME NEW b \in Bufs PROVE b \in hwfree \/ InUse(b) \/ Dropped(b)
        BY DEF BuffersLostOnlyByDiscard
      <3>1. Placed(b)
        BY <2>0 DEF AllPlaced
      <3>2. \A i \in 1 .. Len(hwrx) : hwrx[i] \in Undecided
        BY <2>0, UndecidedFacts
      <3>3. \A s \in Waiting : desc[s] \in Undecided
        BY <2>0, UndecidedFacts
      <3>4. KOpen => kmsg \in Undecided
        BY <2>0, UndecidedFacts
      <3> QED BY <3>1, <3>2, <3>3, <3>4 DEF Placed, InUse
    <2> QED BY <2>0, <2>1 DEF LeaksKnown
  <1> QED BY <1>1, Invariance, PTL

\* With as many slots as buffers the kthread always finds a slot for a message whose
\* address is right, and a reader always finds the message it waited for.
THEOREM SlotsSuffice == Spec => []EnoughSlots
  <1>1. IInv => EnoughSlots
    BY DEF IInv
  <1> QED BY <1>1, Invariance, PTL

\* No reader sleeps on a port with messages unless the kthread is about to wake it.
THEOREM WakeupsKept == Spec => []NoLostWakeup
  <1>1. IInv => NoLostWakeup
    BY DEF IInv, Control
  <1> QED BY <1>1, Invariance, PTL
=============================================================================
