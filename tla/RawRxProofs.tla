----------------------------- MODULE RawRxProofs ----------------------------
(***************************************************************************)
(* Proofs about RawRx for any number of ports, slots, threads and messages *)
(* and any capacity of the NIC's FIFO.                                     *)
(***************************************************************************)
EXTENDS RawRx, SequenceTheorems, TLAPS

\* A thread owns the mutex of its port exactly between mutex_lock and mutex_unlock.
MutexHeld ==
  /\ \A t \in Threads : tpc[t] \in {"test", "dequeue"} => mutex[tport[t]] = t
  /\ \A p \in Ports : mutex[p] # None =>
       tpc[mutex[p]] \in {"test", "dequeue"} /\ tport[mutex[p]] = p

\* What a thread or the kthread has tested still holds when it acts on it.
TestsStillHold ==
  /\ \A t \in Threads : tpc[t] = "dequeue" => fifo[tport[t]] # <<>>
  /\ kpc = "pop" => free # {}
  /\ kpc \in {"pop", "read"} => hwq # <<>>

\* A wake_up is always on the queue of a valid port.
WakeHasPort == kpc = "wake" => kport \in Ports

Control ==
  MutexHeld /\ TestsStillHold /\ WakeHasPort /\ ImpossibleNeverHappens /\ NoLostWakeup

IInv == TypeOK /\ Control
-----------------------------------------------------------------------------
USE RawRxAssumption

\* The initial state satisfies the invariant.
LEMMA InitInv == Init => IInv
  <1> SUFFICES ASSUME Init PROVE IInv
    OBVIOUS
  <1>1. NicType
    <2>1. hwq \in Seq(Msgs) /\ Len(hwq) = 0
      BY DEF Init
    <2> QED BY <2>1 DEF Init, NicType
  <1>2. FlagType
    BY DEF Init, FlagType
  <1>3. KthreadType
    BY DEF Init, KthreadType
  <1>4. QueueType
    BY DEF Init, QueueType
  <1>5. UserType
    BY DEF Init, UserType
  <1>6. HistoryType
    BY DEF Init, HistoryType
  <1>7. Control
    BY DEF Init, Control, MutexHeld, TestsStillHold, WakeHasPort,
       ImpossibleNeverHappens, NoLostWakeup
  <1> QED BY <1>1, <1>2, <1>3, <1>4, <1>5, <1>6, <1>7 DEF IInv, TypeOK

\* Taking the first element of a sequence keeps it a sequence over the same set.
LEMMA FirstOfSeq ==
  ASSUME NEW S, NEW q \in Seq(S), q # <<>>
  PROVE  Head(q) \in S /\ Tail(q) \in Seq(S) /\ Len(Tail(q)) = Len(q) - 1 /\ Len(q) \in Nat
  OBVIOUS

\* A step preserves the types.
LEMMA TypeStep == IInv /\ [Next]_vars => TypeOK'
  <1> SUFFICES ASSUME IInv, [Next]_vars PROVE TypeOK'
    OBVIOUS
  <1> USE DEF IInv, TypeOK, Control
  <1>1. CASE Arrive
    <2>1. NicType'
      <3>1. PICK p \in Ports \cup {BadPort} :
               hwq' = Append(hwq, [id |-> arrived + 1, port |-> p])
        BY <1>1 DEF Arrive
      <3>2. arrived + 1 \in Ids /\ arrived + 1 \in 0 .. MaxMsgs
        BY <1>1 DEF Arrive, NicType, Ids
      <3>3. [id |-> arrived + 1, port |-> p] \in Msgs
        BY <3>2 DEF Msgs
      <3> DEFINE m == [id |-> arrived + 1, port |-> p]
      <3> HIDE DEF m
      <3>4. hwq' \in Seq(Msgs) /\ Len(hwq') = Len(hwq) + 1
        BY <3>1, <3>3 DEF NicType, m
      <3> QED BY <1>1, <3>2, <3>4 DEF Arrive, NicType
    <2>2. FlagType'
      BY <1>1 DEF Arrive, FlagType
    <2>3. KthreadType' /\ QueueType' /\ UserType' /\ HistoryType'
      BY <1>1 DEF Arrive, KthreadType, QueueType, UserType, HistoryType, kthread,
         queue, users
    <2> QED BY <2>1, <2>2, <2>3 DEF TypeOK
  <1>2. CASE axiomnet_irqhandler
    <2>1. NicType'
      BY <1>2 DEF axiomnet_irqhandler, NicType, nic
    <2>2. FlagType'
      BY <1>2 DEF axiomnet_irqhandler, axiom_kthread_wakeup, FlagType, nic
    <2>3. KthreadType'
      BY <1>2 DEF axiomnet_irqhandler, axiom_kthread_wakeup, KthreadType
    <2>4. QueueType' /\ UserType' /\ HistoryType'
      BY <1>2 DEF axiomnet_irqhandler, QueueType, UserType, HistoryType, queue, users
    <2> QED BY <2>1, <2>2, <2>3, <2>4 DEF TypeOK
  <1>3. CASE axiom_hw_ack_irq
    <2>1. NicType'
      BY <1>3 DEF axiom_hw_ack_irq, NicType
    <2>2. FlagType'
      BY <1>3 DEF axiom_hw_ack_irq, FlagType
    <2>3. KthreadType' /\ QueueType' /\ UserType' /\ HistoryType'
      BY <1>3 DEF axiom_hw_ack_irq, KthreadType, QueueType, UserType, HistoryType,
         kthread, queue, users
    <2> QED BY <2>1, <2>2, <2>3 DEF TypeOK
  <1>4. CASE axkt_worker
    <2>1. FlagType'
      BY <1>4 DEF axkt_worker, FlagType, nic
    <2>2. KthreadType'
      BY <1>4 DEF axkt_worker, KthreadType
    <2>3. NicType' /\ QueueType' /\ UserType' /\ HistoryType'
      BY <1>4 DEF axkt_worker, NicType, QueueType, UserType, HistoryType, nic, queue,
         users
    <2> QED BY <2>1, <2>2, <2>3 DEF TypeOK
  <1>5. CASE DequeueLoop
    <2>1. KthreadType'
      BY <1>5 DEF DequeueLoop, KthreadType
    <2>2. NicType' /\ FlagType' /\ QueueType' /\ UserType' /\ HistoryType'
      BY <1>5 DEF DequeueLoop, NicType, FlagType, QueueType, UserType, HistoryType,
         nic, queue, users
    <2> QED BY <2>1, <2>2 DEF TypeOK
  <1>6. CASE DequeuePop
    <2>1. KthreadType'
      BY <1>6 DEF DequeuePop, eviq_free_pop, KthreadType, QueueType
    <2>2. QueueType'
      BY <1>6 DEF DequeuePop, eviq_free_pop, QueueType
    <2>3. HistoryType'
      BY <1>6 DEF DequeuePop, HistoryType
    <2>4. NicType' /\ FlagType' /\ UserType'
      BY <1>6 DEF DequeuePop, NicType, FlagType, UserType, nic, users
    <2> QED BY <2>1, <2>2, <2>3, <2>4 DEF TypeOK
  <1>7. CASE DequeueRead
    <2> Head(hwq) \in Msgs /\ Tail(hwq) \in Seq(Msgs) /\ Len(Tail(hwq)) = Len(hwq) - 1
        /\ Len(hwq) \in Nat
      BY <1>7, FirstOfSeq DEF DequeueRead, TestsStillHold, NicType
    <2>1. NicType'
      BY <1>7 DEF DequeueRead, NicType
    <2>2. KthreadType'
      BY <1>7 DEF DequeueRead, KthreadType, Msgs
    <2>3. QueueType'
      BY <1>7 DEF DequeueRead, QueueType
    <2>4. FlagType' /\ UserType' /\ HistoryType'
      BY <1>7 DEF DequeueRead, FlagType, UserType, HistoryType, users
    <2> QED BY <2>1, <2>2, <2>3, <2>4 DEF TypeOK
  <1>8. CASE DequeuePut
    <2>1. KthreadType'
      BY <1>8 DEF DequeuePut, KthreadType
    <2>2. QueueType'
      <3> kslot \in Slots
        BY <1>8 DEF DequeuePut, KthreadType
      <3>1. CASE kport = BadPort
        BY <1>8, <3>1 DEF DequeuePut, DiscardSlot, QueueType
      <3>2. CASE kport # BadPort
        <4>1. kport \in Ports /\ fifo[kport] \in Seq(Slots)
          BY <3>2 DEF KthreadType, QueueType
        <4>2. Append(fifo[kport], kslot) \in Seq(Slots)
          BY <4>1
        <4> QED BY <1>8, <3>2, <4>1, <4>2 DEF DequeuePut, eviq_enqueue, QueueType
      <3> QED BY <3>1, <3>2
    <2>3. HistoryType'
      BY <1>8 DEF DequeuePut, HistoryType
    <2>4. NicType' /\ FlagType' /\ UserType'
      BY <1>8 DEF DequeuePut, NicType, FlagType, UserType, nic, users
    <2> QED BY <2>1, <2>2, <2>3, <2>4 DEF TypeOK
  <1>9. CASE DequeueWake
    <2>1. KthreadType'
      BY <1>9 DEF DequeueWake, KthreadType
    <2>2. UserType'
      BY <1>9 DEF DequeueWake, UserType
    <2>3. NicType' /\ FlagType' /\ QueueType' /\ HistoryType'
      BY <1>9 DEF DequeueWake, NicType, FlagType, QueueType, HistoryType, nic, queue
    <2> QED BY <2>1, <2>2, <2>3 DEF TypeOK
  <1>10. CASE axiomnet_watchdog_worker
    <2>1. FlagType'
      BY <1>10 DEF axiomnet_watchdog_worker, axiom_kthread_wakeup, FlagType, nic
    <2>2. KthreadType'
      BY <1>10 DEF axiomnet_watchdog_worker, axiom_kthread_wakeup, KthreadType
    <2>3. NicType' /\ QueueType' /\ UserType' /\ HistoryType'
      BY <1>10 DEF axiomnet_watchdog_worker, NicType, QueueType, UserType, HistoryType,
         nic, queue, users
    <2> QED BY <2>1, <2>2, <2>3 DEF TypeOK
  <1>11. ASSUME NEW t \in Threads, Call(t) PROVE TypeOK'
    <2>1. UserType'
      BY <1>11 DEF Call, Goto, UserType
    <2>2. NicType' /\ FlagType' /\ KthreadType' /\ QueueType' /\ HistoryType'
      BY <1>11 DEF Call, NicType, FlagType, KthreadType, QueueType, HistoryType, nic,
         kthread, queue
    <2> QED BY <2>1, <2>2 DEF TypeOK
  <1>12. ASSUME NEW t \in Threads, Lock(t) PROVE TypeOK'
    <2>1. UserType'
      BY <1>12 DEF Lock, Goto, UserType
    <2>2. NicType' /\ FlagType' /\ KthreadType' /\ QueueType' /\ HistoryType'
      BY <1>12 DEF Lock, NicType, FlagType, KthreadType, QueueType, HistoryType, nic,
         kthread, queue
    <2> QED BY <2>1, <2>2 DEF TypeOK
  <1>13. ASSUME NEW t \in Threads, RecvTest(t) PROVE TypeOK'
    <2>1. UserType'
      BY <1>13 DEF RecvTest, Goto, Return, UserType
    <2>2. NicType' /\ FlagType' /\ KthreadType' /\ QueueType' /\ HistoryType'
      BY <1>13 DEF RecvTest, NicType, FlagType, KthreadType, QueueType, HistoryType,
         nic, kthread, queue
    <2> QED BY <2>1, <2>2 DEF TypeOK
  <1>14. ASSUME NEW t \in Threads, RecvWait(t) PROVE TypeOK'
    <2>1. UserType'
      BY <1>14 DEF RecvWait, Goto, UserType
    <2>2. NicType' /\ FlagType' /\ KthreadType' /\ QueueType' /\ HistoryType'
      BY <1>14 DEF RecvWait, NicType, FlagType, KthreadType, QueueType, HistoryType,
         nic, kthread, queue
    <2> QED BY <2>1, <2>2 DEF TypeOK
  <1>15. ASSUME NEW t \in Threads, Signal(t) PROVE TypeOK'
    <2>1. UserType'
      BY <1>15 DEF Signal, Goto, Return, UserType
    <2>2. NicType' /\ FlagType' /\ KthreadType' /\ QueueType' /\ HistoryType'
      BY <1>15 DEF Signal, NicType, FlagType, KthreadType, QueueType, HistoryType, nic,
         kthread, queue
    <2> QED BY <2>1, <2>2 DEF TypeOK
  <1>16. ASSUME NEW t \in Threads, RecvDequeue(t) PROVE TypeOK'
    <2> tport[t] \in Ports /\ fifo[tport[t]] \in Seq(Slots) /\ fifo[tport[t]] # <<>>
      BY <1>16 DEF RecvDequeue, UserType, QueueType, TestsStillHold
    <2> Head(fifo[tport[t]]) \in Slots /\ Tail(fifo[tport[t]]) \in Seq(Slots)
      BY FirstOfSeq
    <2>1. QueueType'
      BY <1>16 DEF RecvDequeue, eviq_dequeue, QueueType
    <2>2. UserType'
      BY <1>16 DEF RecvDequeue, Goto, UserType
    <2>3. HistoryType'
      BY <1>16 DEF RecvDequeue, HistoryType
    <2>4. NicType' /\ FlagType' /\ KthreadType'
      BY <1>16 DEF RecvDequeue, NicType, FlagType, KthreadType, nic, kthread
    <2> QED BY <2>1, <2>2, <2>3, <2>4 DEF TypeOK
  <1>17. ASSUME NEW t \in Threads, RecvCopy(t) PROVE TypeOK'
    <2>1. UserType'
      BY <1>17 DEF RecvCopy, Goto, UserType
    <2>2. HistoryType'
      BY <1>17 DEF RecvCopy, HistoryType
    <2>3. NicType' /\ FlagType' /\ KthreadType' /\ QueueType'
      BY <1>17 DEF RecvCopy, NicType, FlagType, KthreadType, QueueType, nic, kthread,
         queue
    <2> QED BY <2>1, <2>2, <2>3 DEF TypeOK
  <1>18. ASSUME NEW t \in Threads, RecvFree(t) PROVE TypeOK'
    <2>1. QueueType'
      BY <1>18 DEF RecvFree, UserType, QueueType
    <2>2. UserType'
      BY <1>18 DEF RecvFree, Goto, Return, UserType
    <2>3. NicType' /\ FlagType' /\ KthreadType' /\ HistoryType'
      BY <1>18 DEF RecvFree, NicType, FlagType, KthreadType, HistoryType, nic, kthread
    <2> QED BY <2>1, <2>2, <2>3 DEF TypeOK
  <1>19. ASSUME NEW t \in Threads, RawFlush(t) PROVE TypeOK'
    <2> tport[t] \in Ports /\ fifo[tport[t]] \in Seq(Slots)
      BY <1>19 DEF RawFlush, UserType, QueueType
    <2>1. QueueType'
      BY <1>19, RangeOfSeq DEF RawFlush, QueueType
    <2>2. UserType'
      BY <1>19 DEF RawFlush, Goto, UserType
    <2>3. HistoryType'
      BY <1>19 DEF RawFlush, HistoryType
    <2>4. NicType' /\ FlagType' /\ KthreadType'
      BY <1>19 DEF RawFlush, NicType, FlagType, KthreadType, nic, kthread
    <2> QED BY <2>1, <2>2, <2>3, <2>4 DEF TypeOK
  <1>20. ASSUME NEW t \in Threads, Notify(t) PROVE TypeOK'
    <2>1. FlagType'
      BY <1>20 DEF Notify, axiom_kthread_wakeup, FlagType, nic
    <2>2. KthreadType'
      BY <1>20 DEF Notify, axiom_kthread_wakeup, KthreadType
    <2>3. UserType'
      BY <1>20 DEF Notify, Goto, Return, UserType
    <2>4. NicType' /\ QueueType' /\ HistoryType'
      BY <1>20 DEF Notify, NicType, QueueType, HistoryType, nic, queue
    <2> QED BY <2>1, <2>2, <2>3, <2>4 DEF TypeOK
  <1>21. CASE UNCHANGED vars
    BY <1>21 DEF vars, TypeOK, NicType, FlagType, KthreadType, QueueType, UserType,
       HistoryType
  <1> QED BY <1>1, <1>2, <1>3, <1>4, <1>5, <1>6, <1>7, <1>8, <1>9, <1>10, <1>11, <1>12,
             <1>13, <1>14, <1>15, <1>16, <1>17, <1>18, <1>19, <1>20, <1>21 DEF Next,
             axiom_raw_rx_dequeue, axiomnet_raw_recv

\* A step preserves the facts about the control state.
LEMMA ControlStep == IInv /\ [Next]_vars => Control'
  <1> SUFFICES ASSUME IInv, [Next]_vars PROVE Control'
    OBVIOUS
  <1> USE DEF IInv, TypeOK, Control
  <1>1. CASE Arrive
    <2>1. MutexHeld'
      BY <1>1 DEF Arrive, MutexHeld, users
    <2>2. TestsStillHold'
      <3>1. hwq' # <<>>
        BY <1>1, AppendProperties DEF Arrive, NicType
      <3> QED BY <1>1, <3>1 DEF Arrive, TestsStillHold, kthread, queue, users
    <2>3. ImpossibleNeverHappens'
      BY <1>1 DEF Arrive, ImpossibleNeverHappens
    <2>4. NoLostWakeup'
      BY <1>1 DEF Arrive, NoLostWakeup, kthread, queue, users
    <2>5. WakeHasPort'
      BY <1>1 DEF Arrive, WakeHasPort, kthread
    <2> QED BY <2>1, <2>2, <2>3, <2>4, <2>5 DEF Control
  <1>2. CASE axiomnet_irqhandler
    <2>1. MutexHeld'
      BY <1>2 DEF axiomnet_irqhandler, MutexHeld, users
    <2>2. TestsStillHold'
      BY <1>2 DEF axiomnet_irqhandler, axiom_kthread_wakeup, TestsStillHold, nic,
         queue, users
    <2>3. ImpossibleNeverHappens'
      BY <1>2 DEF axiomnet_irqhandler, ImpossibleNeverHappens
    <2>4. NoLostWakeup'
      BY <1>2 DEF axiomnet_irqhandler, axiom_kthread_wakeup, NoLostWakeup, queue, users
    <2>5. WakeHasPort'
      BY <1>2 DEF axiomnet_irqhandler, axiom_kthread_wakeup, WakeHasPort
    <2> QED BY <2>1, <2>2, <2>3, <2>4, <2>5 DEF Control
  <1>3. CASE axiom_hw_ack_irq
    <2>1. MutexHeld'
      BY <1>3 DEF axiom_hw_ack_irq, MutexHeld, users
    <2>2. TestsStillHold'
      BY <1>3 DEF axiom_hw_ack_irq, TestsStillHold, kthread, queue, users
    <2>3. ImpossibleNeverHappens'
      BY <1>3 DEF axiom_hw_ack_irq, ImpossibleNeverHappens
    <2>4. NoLostWakeup'
      BY <1>3 DEF axiom_hw_ack_irq, NoLostWakeup, kthread, queue, users
    <2>5. WakeHasPort'
      BY <1>3 DEF axiom_hw_ack_irq, WakeHasPort, kthread
    <2> QED BY <2>1, <2>2, <2>3, <2>4, <2>5 DEF Control
  <1>4. CASE axkt_worker
    <2>1. MutexHeld'
      BY <1>4 DEF axkt_worker, MutexHeld, users
    <2>2. TestsStillHold'
      BY <1>4 DEF axkt_worker, TestsStillHold, queue, users
    <2>3. ImpossibleNeverHappens'
      BY <1>4 DEF axkt_worker, ImpossibleNeverHappens
    <2>4. NoLostWakeup'
      BY <1>4 DEF axkt_worker, NoLostWakeup, queue, users
    <2>5. WakeHasPort'
      BY <1>4 DEF axkt_worker, WakeHasPort
    <2> QED BY <2>1, <2>2, <2>3, <2>4, <2>5 DEF Control
  <1>5. CASE DequeueLoop
    <2>1. MutexHeld'
      BY <1>5 DEF DequeueLoop, MutexHeld, users
    <2>2. TestsStillHold'
      BY <1>5 DEF DequeueLoop, axiomnet_raw_rx_work_todo, TestsStillHold, nic, queue,
         users
    <2>3. ImpossibleNeverHappens'
      BY <1>5 DEF DequeueLoop, ImpossibleNeverHappens
    <2>4. NoLostWakeup'
      BY <1>5 DEF DequeueLoop, NoLostWakeup, queue, users
    <2>5. WakeHasPort'
      BY <1>5 DEF DequeueLoop, WakeHasPort
    <2> QED BY <2>1, <2>2, <2>3, <2>4, <2>5 DEF Control
  <1>6. CASE DequeuePop
    <2>1. MutexHeld'
      BY <1>6 DEF DequeuePop, MutexHeld, users
    <2>2. TestsStillHold'
      BY <1>6 DEF DequeuePop, TestsStillHold, nic, users
    <2>3. ImpossibleNeverHappens'
      BY <1>6 DEF DequeuePop, ImpossibleNeverHappens, TestsStillHold
    <2>4. NoLostWakeup'
      BY <1>6 DEF DequeuePop, NoLostWakeup, users
    <2>5. WakeHasPort'
      BY <1>6 DEF DequeuePop, WakeHasPort
    <2> QED BY <2>1, <2>2, <2>3, <2>4, <2>5 DEF Control
  <1>7. CASE DequeueRead
    <2>1. MutexHeld'
      BY <1>7 DEF DequeueRead, MutexHeld, users
    <2>2. TestsStillHold'
      BY <1>7 DEF DequeueRead, TestsStillHold, users
    <2>3. ImpossibleNeverHappens'
      BY <1>7 DEF DequeueRead, ImpossibleNeverHappens
    <2>4. NoLostWakeup'
      BY <1>7 DEF DequeueRead, NoLostWakeup, users
    <2>5. WakeHasPort'
      BY <1>7 DEF DequeueRead, WakeHasPort
    <2> QED BY <2>1, <2>2, <2>3, <2>4, <2>5 DEF Control
  <1>8. CASE DequeuePut
    <2>1. MutexHeld'
      BY <1>8 DEF DequeuePut, MutexHeld, users
    <2>2. TestsStillHold'
      <3> SUFFICES ASSUME NEW t \in Threads, tpc[t] = "dequeue" PROVE fifo'[tport[t]] # <<>>
        BY <1>8 DEF DequeuePut, TestsStillHold, users
      <3>1. tport[t] \in Ports /\ fifo[tport[t]] # <<>> /\ fifo[tport[t]] \in Seq(Slots)
        BY DEF TestsStillHold, UserType, QueueType
      <3>2. CASE kport = BadPort
        BY <1>8, <3>1, <3>2 DEF DequeuePut
      <3>3. CASE kport # BadPort
        <4>0. kslot \in Slots
          BY <1>8 DEF DequeuePut, KthreadType
        <4>1. Append(fifo[tport[t]], kslot) # <<>>
          BY <3>1, <4>0, AppendProperties
        <4>2. fifo' = [fifo EXCEPT ![kport] = Append(@, kslot)]
          BY <1>8, <3>3 DEF DequeuePut, eviq_enqueue
        <4> QED BY <3>1, <4>1, <4>2 DEF QueueType
      <3> QED BY <3>2, <3>3
    <2>3. ImpossibleNeverHappens'
      BY <1>8 DEF DequeuePut, ImpossibleNeverHappens
    <2>4. NoLostWakeup'
      BY <1>8 DEF DequeuePut, eviq_enqueue, WasEmpty, NoLostWakeup, QueueType,
         UserType, users
    <2>5. WakeHasPort'
      BY <1>8 DEF DequeuePut, WakeHasPort, KthreadType
    <2> QED BY <2>1, <2>2, <2>3, <2>4, <2>5 DEF Control
  <1>9. CASE DequeueWake
    <2>1. MutexHeld'
      BY <1>9 DEF DequeueWake, MutexHeld, UserType
    <2>2. TestsStillHold'
      BY <1>9 DEF DequeueWake, TestsStillHold, queue
    <2>3. ImpossibleNeverHappens'
      BY <1>9 DEF DequeueWake, ImpossibleNeverHappens
    <2>4. NoLostWakeup'
      BY <1>9 DEF DequeueWake, NoLostWakeup, queue
    <2>5. WakeHasPort'
      BY <1>9 DEF DequeueWake, WakeHasPort
    <2> QED BY <2>1, <2>2, <2>3, <2>4, <2>5 DEF Control
  <1>10. CASE axiomnet_watchdog_worker
    <2>1. MutexHeld'
      BY <1>10 DEF axiomnet_watchdog_worker, MutexHeld, users
    <2>2. TestsStillHold'
      BY <1>10 DEF axiomnet_watchdog_worker, axiom_kthread_wakeup, TestsStillHold, nic,
         queue, users
    <2>3. ImpossibleNeverHappens'
      BY <1>10 DEF axiomnet_watchdog_worker, ImpossibleNeverHappens
    <2>4. NoLostWakeup'
      BY <1>10 DEF axiomnet_watchdog_worker, axiom_kthread_wakeup, NoLostWakeup, queue,
         users
    <2>5. WakeHasPort'
      BY <1>10 DEF axiomnet_watchdog_worker, axiom_kthread_wakeup, WakeHasPort
    <2> QED BY <2>1, <2>2, <2>3, <2>4, <2>5 DEF Control
  <1>11. ASSUME NEW t \in Threads, Call(t) PROVE Control'
    <2>1. MutexHeld'
      BY <1>11 DEF Call, Goto, MutexHeld
    <2>2. TestsStillHold'
      BY <1>11 DEF Call, Goto, TestsStillHold, nic, kthread, queue
    <2>3. ImpossibleNeverHappens'
      BY <1>11 DEF Call, ImpossibleNeverHappens
    <2>4. NoLostWakeup'
      BY <1>11 DEF Call, Goto, NoLostWakeup, kthread, queue
    <2>5. WakeHasPort'
      BY <1>11 DEF Call, WakeHasPort, kthread
    <2> QED BY <2>1, <2>2, <2>3, <2>4, <2>5 DEF Control
  <1>12. ASSUME NEW t \in Threads, Lock(t) PROVE Control'
    <2>1. MutexHeld'
      BY <1>12 DEF Lock, Goto, MutexHeld, UserType
    <2>2. TestsStillHold'
      BY <1>12 DEF Lock, Goto, TestsStillHold, nic, kthread, queue
    <2>3. ImpossibleNeverHappens'
      BY <1>12 DEF Lock, ImpossibleNeverHappens
    <2>4. NoLostWakeup'
      BY <1>12 DEF Lock, Goto, NoLostWakeup, kthread, queue
    <2>5. WakeHasPort'
      BY <1>12 DEF Lock, WakeHasPort, kthread
    <2> QED BY <2>1, <2>2, <2>3, <2>4, <2>5 DEF Control
  <1>13. ASSUME NEW t \in Threads, RecvTest(t) PROVE Control'
    <2>1. MutexHeld'
      <3>1. CASE Goto(t, "idle")
        BY <1>13, <3>1 DEF RecvTest, Goto, Return, MutexHeld, UserType
      <3>2. CASE ~Goto(t, "idle")
        BY <1>13, <3>2 DEF RecvTest, Goto, Return, MutexHeld, UserType
      <3> QED BY <3>1, <3>2
    <2>2. TestsStillHold'
      <3>1. CASE Goto(t, "idle")
        BY <1>13, <3>1 DEF RecvTest, Goto, Return, TestsStillHold, UserType, queue,
           kthread, nic
      <3>2. CASE ~Goto(t, "idle")
        BY <1>13, <3>2 DEF RecvTest, Goto, Return, TestsStillHold, UserType, queue,
           kthread, nic
      <3> QED BY <3>1, <3>2
    <2>3. ImpossibleNeverHappens'
      BY <1>13 DEF RecvTest, ImpossibleNeverHappens
    <2>4. NoLostWakeup'
      BY <1>13 DEF RecvTest, Goto, Return, NoLostWakeup, UserType, kthread, queue
    <2>5. WakeHasPort'
      BY <1>13 DEF RecvTest, WakeHasPort, kthread
    <2> QED BY <2>1, <2>2, <2>3, <2>4, <2>5 DEF Control
  <1>14. ASSUME NEW t \in Threads, RecvWait(t) PROVE Control'
    <2>1. MutexHeld'
      BY <1>14 DEF RecvWait, Goto, MutexHeld
    <2>2. TestsStillHold'
      BY <1>14 DEF RecvWait, Goto, TestsStillHold, nic, kthread, queue
    <2>3. ImpossibleNeverHappens'
      BY <1>14 DEF RecvWait, ImpossibleNeverHappens
    <2>4. NoLostWakeup'
      BY <1>14 DEF RecvWait, Goto, NoLostWakeup, kthread, queue
    <2>5. WakeHasPort'
      BY <1>14 DEF RecvWait, WakeHasPort, kthread
    <2> QED BY <2>1, <2>2, <2>3, <2>4, <2>5 DEF Control
  <1>15. ASSUME NEW t \in Threads, Signal(t) PROVE Control'
    <2>1. MutexHeld'
      <3>1. CASE Goto(t, "idle")
        BY <1>15, <3>1 DEF Signal, Goto, Return, MutexHeld, UserType
      <3>2. CASE ~Goto(t, "idle")
        BY <1>15, <3>2 DEF Signal, Goto, Return, MutexHeld, UserType
      <3> QED BY <3>1, <3>2
    <2>2. TestsStillHold'
      <3>1. CASE Goto(t, "idle")
        BY <1>15, <3>1 DEF Signal, Goto, Return, TestsStillHold, UserType, queue,
           kthread, nic
      <3>2. CASE ~Goto(t, "idle")
        BY <1>15, <3>2 DEF Signal, Goto, Return, TestsStillHold, UserType, queue,
           kthread, nic
      <3> QED BY <3>1, <3>2
    <2>3. ImpossibleNeverHappens'
      BY <1>15 DEF Signal, ImpossibleNeverHappens
    <2>4. NoLostWakeup'
      BY <1>15 DEF Signal, Goto, Return, NoLostWakeup, UserType, kthread, queue
    <2>5. WakeHasPort'
      BY <1>15 DEF Signal, WakeHasPort, kthread
    <2> QED BY <2>1, <2>2, <2>3, <2>4, <2>5 DEF Control
  <1>16. ASSUME NEW t \in Threads, RecvDequeue(t) PROVE Control'
    <2>1. /\ fifo[tport[t]] # <<>> /\ tport[t] \in Ports
          /\ fifo' = [fifo EXCEPT ![tport[t]] = Tail(@)]
          /\ Goto(t, "copy") /\ UNCHANGED tport
      BY <1>16 DEF RecvDequeue, eviq_dequeue, TestsStillHold, UserType
    <2>2. MutexHeld'
      BY <1>16, <2>1 DEF RecvDequeue, Goto, MutexHeld, UserType
    <2>3. TestsStillHold'
      <3> SUFFICES ASSUME NEW u \in Threads, tpc'[u] = "dequeue" PROVE fifo'[tport'[u]] # <<>>
        BY <1>16 DEF RecvDequeue, TestsStillHold, kthread, nic
      <3>1. u # t /\ tpc[u] = "dequeue" /\ tport'[u] = tport[u]
        BY <1>16, <2>1 DEF RecvDequeue, Goto, UserType
      <3>2. tport[u] # tport[t]
        <4>1. tpc[t] = "dequeue"
          BY <1>16 DEF RecvDequeue
        <4>2. mutex[tport[u]] = u /\ mutex[tport[t]] = t
          BY <3>1, <4>1 DEF MutexHeld
        <4> QED BY <3>1, <4>2
      <3> QED BY <2>1, <3>1, <3>2 DEF TestsStillHold, UserType, QueueType
    <2>4. ImpossibleNeverHappens'
      BY <1>16 DEF RecvDequeue, ImpossibleNeverHappens, TestsStillHold
    <2>5. NoLostWakeup'
      BY <1>16, <2>1 DEF RecvDequeue, Goto, NoLostWakeup, kthread
    <2>6. WakeHasPort'
      BY <1>16 DEF RecvDequeue, WakeHasPort, kthread
    <2> QED BY <2>2, <2>3, <2>4, <2>5, <2>6 DEF Control
  <1>17. ASSUME NEW t \in Threads, RecvCopy(t) PROVE Control'
    <2>1. MutexHeld'
      BY <1>17 DEF RecvCopy, Goto, MutexHeld
    <2>2. TestsStillHold'
      BY <1>17 DEF RecvCopy, Goto, TestsStillHold, nic, kthread, queue
    <2>3. ImpossibleNeverHappens'
      BY <1>17 DEF RecvCopy, ImpossibleNeverHappens
    <2>4. NoLostWakeup'
      BY <1>17 DEF RecvCopy, Goto, NoLostWakeup, kthread, queue
    <2>5. WakeHasPort'
      BY <1>17 DEF RecvCopy, WakeHasPort, kthread
    <2> QED BY <2>1, <2>2, <2>3, <2>4, <2>5 DEF Control
  <1>18. ASSUME NEW t \in Threads, RecvFree(t) PROVE Control'
    <2>1. MutexHeld'
      <3>1. CASE free = {}
        BY <1>18, <3>1 DEF RecvFree, Goto, MutexHeld, UserType
      <3>2. CASE free # {}
        BY <1>18, <3>2 DEF RecvFree, Goto, Return, MutexHeld, UserType
      <3> QED BY <3>1, <3>2
    <2>2. TestsStillHold'
      BY <1>18 DEF RecvFree, Goto, Return, TestsStillHold, UserType, nic, kthread
    <2>3. ImpossibleNeverHappens'
      BY <1>18 DEF RecvFree, ImpossibleNeverHappens
    <2>4. NoLostWakeup'
      BY <1>18 DEF RecvFree, Goto, Return, NoLostWakeup, UserType, kthread
    <2>5. WakeHasPort'
      BY <1>18 DEF RecvFree, WakeHasPort, kthread
    <2> QED BY <2>1, <2>2, <2>3, <2>4, <2>5 DEF Control
  <1>19. ASSUME NEW t \in Threads, RawFlush(t) PROVE Control'
    <2>1. MutexHeld'
      BY <1>19 DEF RawFlush, Goto, MutexHeld
    <2>2. TestsStillHold'
      BY <1>19 DEF RawFlush, Goto, TestsStillHold, MutexHeld, nic, kthread
    <2>3. ImpossibleNeverHappens'
      BY <1>19 DEF RawFlush, ImpossibleNeverHappens
    <2>4. NoLostWakeup'
      BY <1>19 DEF RawFlush, Goto, NoLostWakeup, kthread
    <2>5. WakeHasPort'
      BY <1>19 DEF RawFlush, WakeHasPort, kthread
    <2> QED BY <2>1, <2>2, <2>3, <2>4, <2>5 DEF Control
  <1>20. ASSUME NEW t \in Threads, Notify(t) PROVE Control'
    <2>1. MutexHeld'
      BY <1>20 DEF Notify, Goto, Return, MutexHeld
    <2>2. TestsStillHold'
      BY <1>20 DEF Notify, axiom_kthread_wakeup, Goto, Return, TestsStillHold, nic,
         queue
    <2>3. ImpossibleNeverHappens'
      BY <1>20 DEF Notify, ImpossibleNeverHappens
    <2>4. NoLostWakeup'
      BY <1>20 DEF Notify, axiom_kthread_wakeup, Goto, Return, NoLostWakeup, queue
    <2>5. WakeHasPort'
      BY <1>20 DEF Notify, axiom_kthread_wakeup, WakeHasPort
    <2> QED BY <2>1, <2>2, <2>3, <2>4, <2>5 DEF Control
  <1>21. CASE UNCHANGED vars
    BY <1>21 DEF vars, Control, MutexHeld, TestsStillHold, ImpossibleNeverHappens,
       NoLostWakeup, WakeHasPort
  <1> QED BY <1>1, <1>2, <1>3, <1>4, <1>5, <1>6, <1>7, <1>8, <1>9, <1>10, <1>11, <1>12,
             <1>13, <1>14, <1>15, <1>16, <1>17, <1>18, <1>19, <1>20, <1>21 DEF Next,
             axiom_raw_rx_dequeue, axiomnet_raw_recv

\* The invariant is inductive.
LEMMA Inductive == Spec => []IInv
  <1>1. IInv /\ [Next]_vars => IInv'
    BY TypeStep, ControlStep DEF IInv
  <1> QED BY InitInv, <1>1, PTL DEF Spec
-----------------------------------------------------------------------------
\* Every variable of the receive path keeps its type, and a slot is held exactly at
\* the steps between taking it and giving it away, in every instance.
THEOREM TypeCorrect == Spec => []TypeOK
  <1>1. IInv => TypeOK
    BY DEF IInv
  <1> QED BY Inductive, <1>1, PTL

\* The -EFAULT branch marked "XXX: impossible!" in axiomnet_raw_recv, and the break
\* for want of a free slot in axiom_raw_rx_dequeue, are never taken: the mutex of the
\* port and the single kthread keep what was tested true until it is used.
THEOREM ImpossibleBranches == Spec => []ImpossibleNeverHappens
  <1>1. IInv => ImpossibleNeverHappens
    BY DEF IInv, Control
  <1> QED BY Inductive, <1>1, PTL

\* No reader sleeps on a port that has messages unless the kthread is about to wake
\* it, although axiom_raw_rx_dequeue calls wake_up only for a queue that was empty.
THEOREM WakeupsSuffice == Spec => []NoLostWakeup
  <1>1. IInv => NoLostWakeup
    BY DEF IInv, Control
  <1> QED BY Inductive, <1>1, PTL
-----------------------------------------------------------------------------
(***************************************************************************)
(* Slots and messages.  Two more inductive invariants on top of IInv: every*)
(* slot has one owner, and the messages in the slots and in the FIFO are   *)
(* the undecided ones, in the order of their arrival.                      *)
(***************************************************************************)

Queued(s) == \E p \in Ports : \E i \in 1 .. Len(fifo[p]) : fifo[p][i] = s
Carried(s) == \E t \in Threads : tslot[t] = s

Owners ==
  /\ \A s \in Slots : s \in free \/ s = kslot \/ Carried(s) \/ Queued(s)
  /\ \A s \in free : s # kslot /\ ~Carried(s) /\ ~Queued(s)
  /\ \A s \in Slots : Queued(s) => s # kslot /\ ~Carried(s)
  /\ \A p, r \in Ports : \A i \in 1 .. Len(fifo[p]), j \in 1 .. Len(fifo[r]) :
       fifo[p][i] = fifo[r][j] => p = r /\ i = j
  /\ \A t, u \in Threads :
       tslot[t] # None => tslot[t] # kslot /\ (tslot[t] = tslot[u] => t = u)

\* A slot that holds a message the driver has not decided on yet.
In(s) ==
  \/ Queued(s)
  \/ kpc = "put" /\ s = kslot
  \/ \E t \in Threads : tpc[t] = "copy" /\ tslot[t] = s

Undecided ==
  \A s \in Slots : In(s) =>
    /\ desc[s] \in Msgs /\ desc[s].id <= arrived /\ fate[desc[s].id] = "none"
    /\ \A i \in 1 .. Len(hwq) : desc[s].id < hwq[i].id
    /\ \A r \in Slots : In(r) /\ desc[r].id = desc[s].id => r = s

InFifo ==
  /\ \A i \in 1 .. Len(hwq) : hwq[i].id <= arrived /\ fate[hwq[i].id] = "none"
  /\ \A i, j \in 1 .. Len(hwq) : i < j => hwq[i].id < hwq[j].id

Somewhere ==
  \A i \in Ids :
    /\ i > arrived => fate[i] = "none"
    /\ i <= arrived /\ fate[i] = "none" =>
         \/ \E j \in 1 .. Len(hwq) : hwq[j].id = i
         \/ \E s \in Slots : In(s) /\ desc[s].id = i

\* The message in the hands of the kthread is the latest one.
Latest ==
  kpc = "put" =>
    /\ kport = desc[kslot].port
    /\ \A s \in Slots : In(s) /\ s # kslot => desc[s].id < desc[kslot].id

InOrder ==
  \A p \in Ports : \A i \in 1 .. Len(fifo[p]) :
    /\ desc[fifo[p][i]].port = p
    /\ \A j \in 1 .. Len(fifo[p]) : i < j => desc[fifo[p][i]].id < desc[fifo[p][j]].id

Messages == Undecided /\ InFifo /\ Somewhere /\ Latest /\ InOrder
-----------------------------------------------------------------------------
(* The queues after an operation of the queue manager *)

\* A slot in a queue is a slot.
LEMMA QueueTypes ==
  ASSUME QueueType
  PROVE  /\ \A p \in Ports : fifo[p] \in Seq(Slots) /\ Len(fifo[p]) \in Nat
         /\ \A p \in Ports : \A i \in 1 .. Len(fifo[p]) : fifo[p][i] \in Slots
         /\ \A s : Queued(s) => s \in Slots
  <1>1. \A p \in Ports : fifo[p] \in Seq(Slots)
    BY DEF QueueType
  <1>2. \A p \in Ports : Len(fifo[p]) \in Nat /\ \A i \in 1 .. Len(fifo[p]) : fifo[p][i] \in Slots
    BY <1>1
  <1> QED BY <1>1, <1>2 DEF Queued

\* eviq_enqueue: one more element, at the end of one queue.
LEMMA EnqueueFacts ==
  ASSUME QueueType, NEW p \in Ports, NEW x \in Slots, eviq_enqueue(p, x)
  PROVE  /\ \A r \in Ports \ {p} : fifo'[r] = fifo[r]
         /\ \E n \in Nat :
              /\ n = Len(fifo[p]) /\ Len(fifo'[p]) = n + 1
              /\ \A i \in 1 .. n : fifo'[p][i] = fifo[p][i]
              /\ fifo'[p][n + 1] = x
         /\ \A s : Queued(s)' <=> Queued(s) \/ s = x
  <1>1. /\ \A r \in Ports \ {p} : fifo'[r] = fifo[r]
        /\ fifo'[p] = Append(fifo[p], x) /\ fifo[p] \in Seq(Slots)
    BY DEF eviq_enqueue, QueueType
  <1>2. PICK n \in Nat : n = Len(fifo[p])
    BY <1>1
  <1>3. /\ Len(fifo'[p]) = n + 1 /\ \A i \in 1 .. n : fifo'[p][i] = fifo[p][i]
        /\ fifo'[p][n + 1] = x
    BY <1>1, <1>2
  <1>4. ASSUME NEW s PROVE Queued(s)' <=> Queued(s) \/ s = x
    <2>1. (\E i \in 1 .. Len(fifo'[p]) : fifo'[p][i] = s)
            <=> (\E i \in 1 .. Len(fifo[p]) : fifo[p][i] = s) \/ s = x
      <3>1. \A i \in 1 .. n + 1 : i \in 1 .. n \/ i = n + 1
        BY <1>2
      <3>2. 1 .. n \subseteq 1 .. n + 1 /\ n + 1 \in 1 .. n + 1
        BY <1>2
      <3> QED BY <1>2, <1>3, <3>1, <3>2
    <2> QED BY <1>1, <2>1 DEF Queued
  <1> QED BY <1>1, <1>2, <1>3, <1>4

\* eviq_dequeue: the first element leaves its queue.
LEMMA DequeueFacts ==
  ASSUME QueueType, NEW p \in Ports, fifo[p] # <<>>, eviq_dequeue(p),
         \A i, j \in 1 .. Len(fifo[p]) : fifo[p][i] = fifo[p][j] => i = j,
         \A r \in Ports \ {p} : \A i \in 1 .. Len(fifo[r]) : fifo[r][i] # fifo[p][1]
  PROVE  /\ \A r \in Ports \ {p} : fifo'[r] = fifo[r]
         /\ \A i \in 1 .. Len(fifo'[p]) :
              i \in Nat /\ i + 1 \in 1 .. Len(fifo[p]) /\ fifo'[p][i] = fifo[p][i + 1]
         /\ 1 \in 1 .. Len(fifo[p]) /\ Head(fifo[p]) = fifo[p][1] /\ Head(fifo[p]) \in Slots
         /\ Queued(Head(fifo[p]))
         /\ \A s : Queued(s)' <=> Queued(s) /\ s # Head(fifo[p])
  <1>1. /\ \A r \in Ports \ {p} : fifo'[r] = fifo[r]
        /\ fifo'[p] = Tail(fifo[p]) /\ fifo[p] \in Seq(Slots)
    BY DEF eviq_dequeue, QueueType
  <1>2. PICK n \in Nat : n = Len(fifo[p]) /\ n > 0
    BY <1>1
  <1>3. /\ Len(fifo'[p]) = n - 1 /\ \A i \in 1 .. n - 1 : fifo'[p][i] = fifo[p][i + 1]
        /\ Head(fifo[p]) = fifo[p][1] /\ fifo[p][1] \in Slots
    BY <1>1, <1>2
  <1>4. /\ 1 \in 1 .. n /\ \A i \in 1 .. n - 1 : i \in Nat /\ i + 1 \in 1 .. n /\ i + 1 # 1
        /\ \A i \in 1 .. n : i = 1 \/ (i - 1 \in 1 .. n - 1 /\ (i - 1) + 1 = i)
    BY <1>2
  <1>5. ASSUME NEW s PROVE Queued(s)' <=> Queued(s) /\ s # Head(fifo[p])
    <2>1. (\E i \in 1 .. Len(fifo'[p]) : fifo'[p][i] = s)
            <=> (\E i \in 1 .. Len(fifo[p]) : fifo[p][i] = s) /\ s # fifo[p][1]
      <3>1. ASSUME NEW i \in 1 .. n - 1, fifo'[p][i] = s
            PROVE  (\E j \in 1 .. n : fifo[p][j] = s) /\ s # fifo[p][1]
        BY <1>2, <1>3, <1>4, <3>1
      <3>2. ASSUME NEW i \in 1 .. n, fifo[p][i] = s, s # fifo[p][1]
            PROVE  \E j \in 1 .. n - 1 : fifo'[p][j] = s
        <4>1. PICK j \in 1 .. n - 1 : j = i - 1 /\ j + 1 = i
          BY <1>4, <3>2
        <4> QED BY <1>3, <3>2, <4>1
      <3> QED BY <1>2, <1>3, <3>1, <3>2
    <2>2. \A r \in Ports \ {p} : \A i \in 1 .. Len(fifo[r]) : fifo[r][i] # Head(fifo[p])
      BY <1>3
    <2>3. ASSUME Queued(s)' PROVE Queued(s) /\ s # Head(fifo[p])
      <3>1. PICK r \in Ports : \E i \in 1 .. Len(fifo'[r]) : fifo'[r][i] = s
        BY <2>3 DEF Queued
      <3>2. CASE r = p
        BY <1>3, <2>1, <3>1, <3>2 DEF Queued
      <3>3. CASE r # p
        BY <1>1, <2>2, <3>1, <3>3 DEF Queued
      <3> QED BY <3>2, <3>3
    <2>4. ASSUME Queued(s), s # Head(fifo[p]) PROVE Queued(s)'
      <3>1. PICK r \in Ports : \E i \in 1 .. Len(fifo[r]) : fifo[r][i] = s
        BY <2>4 DEF Queued
      <3>2. CASE r = p
        BY <1>3, <2>1, <2>4, <3>1, <3>2 DEF Queued
      <3>3. CASE r # p
        BY <1>1, <3>1, <3>3 DEF Queued
      <3> QED BY <3>2, <3>3
    <2> QED BY <2>3, <2>4
  <1>6. Queued(Head(fifo[p]))
    BY <1>2, <1>3, <1>4 DEF Queued
  <1> QED BY <1>1, <1>2, <1>3, <1>4, <1>5, <1>6

\* A flush: one queue is empty.
LEMMA FlushFacts ==
  ASSUME QueueType, NEW p \in Ports, fifo' = [fifo EXCEPT ![p] = <<>>]
  PROVE  /\ \A r \in Ports \ {p} : fifo'[r] = fifo[r]
         /\ 1 .. Len(fifo'[p]) = {}
         /\ \A s : s \in Range(fifo[p]) <=> \E i \in 1 .. Len(fifo[p]) : fifo[p][i] = s
  BY DEF QueueType, Range

-----------------------------------------------------------------------------
(* Every slot has one owner *)

LEMMA OwnersQuiet ==
  ASSUME Owners, UNCHANGED <<free, kslot, tslot, fifo>>
  PROVE  Owners'
  BY DEF Owners, Carried, Queued

LEMMA OwnersPop == ASSUME IInv, Owners, DequeuePop PROVE Owners'
  <1>1. free # {} /\ kslot = None
    BY DEF DequeuePop, IInv, Control, TestsStillHold, TypeOK, KthreadType
  <1>2. PICK x \in free : kslot' = x /\ free' = free \ {x}
    BY <1>1 DEF DequeuePop, eviq_free_pop
  <1>3. UNCHANGED <<fifo, tslot>> /\ free \subseteq Slots
    BY DEF DequeuePop, users, IInv, TypeOK, QueueType
  <1>4. \A s : (Carried(s)' <=> Carried(s)) /\ (Queued(s)' <=> Queued(s))
    BY <1>3 DEF Carried, Queued
  <1>5. \A t \in Threads : tslot'[t] # x
    BY <1>2, <1>3 DEF Owners, Carried
  <1> QED BY <1>1, <1>2, <1>3, <1>4, <1>5 DEF Owners

LEMMA OwnersPut == ASSUME IInv, Owners, DequeuePut PROVE Owners'
  <1> USE DEF IInv, TypeOK
  <1>1. kslot \in Slots /\ kslot' = None /\ UNCHANGED tslot /\ free \subseteq Slots
    BY DEF DequeuePut, KthreadType, QueueType, users
  <1>2. \A s : Carried(s)' <=> Carried(s)
    BY <1>1 DEF Carried
  <1>3. ~Carried(kslot) /\ ~Queued(kslot) /\ kslot \notin free
    BY <1>1 DEF Owners, Carried
  <1>4. CASE kport = BadPort
    <2>1. UNCHANGED fifo /\ free' = free \cup {kslot}
      BY <1>4 DEF DequeuePut, DiscardSlot
    <2>2. \A s : Queued(s)' <=> Queued(s)
      BY <2>1 DEF Queued
    <2> QED BY <1>1, <1>2, <1>3, <2>1, <2>2 DEF Owners
  <1>5. CASE kport # BadPort
    <2>1. kport \in Ports /\ eviq_enqueue(kport, kslot) /\ UNCHANGED free
      BY <1>5 DEF DequeuePut, KthreadType
    <2>2. PICK n \in Nat :
            /\ n = Len(fifo[kport]) /\ Len(fifo'[kport]) = n + 1
            /\ \A i \in 1 .. n : fifo'[kport][i] = fifo[kport][i]
            /\ fifo'[kport][n + 1] = kslot
      BY <1>1, <2>1, EnqueueFacts
    <2>3. /\ \A r \in Ports \ {kport} : fifo'[r] = fifo[r]
          /\ \A s : Queued(s)' <=> Queued(s) \/ s = kslot
      BY <1>1, <2>1, EnqueueFacts
    <2>4. ASSUME NEW p \in Ports, NEW i \in 1 .. Len(fifo'[p])
          PROVE  \/ i \in 1 .. Len(fifo[p]) /\ fifo'[p][i] = fifo[p][i] /\ fifo[p][i] # kslot
                 \/ p = kport /\ i = n + 1 /\ fifo'[p][i] = kslot
      <3>1. i \in 1 .. Len(fifo[p]) => fifo[p][i] # kslot
        BY <1>3 DEF Queued
      <3>2. CASE p # kport
        BY <2>3, <3>1, <3>2
      <3>3. CASE p = kport
        <4>1. i \in 1 .. n \/ i = n + 1
          BY <2>2, <3>3
        <4> QED BY <2>2, <3>1, <3>3, <4>1
      <3> QED BY <3>2, <3>3
    <2>5. \A p, r \in Ports : \A i \in 1 .. Len(fifo'[p]), j \in 1 .. Len(fifo'[r]) :
            fifo'[p][i] = fifo'[r][j] => p = r /\ i = j
      BY <2>4 DEF Owners
    <2>6. /\ \A s \in Slots : s \in free' \/ s = kslot' \/ Carried(s)' \/ Queued(s)'
          /\ \A s \in free' : s # kslot' /\ ~Carried(s)' /\ ~Queued(s)'
          /\ \A s \in Slots : Queued(s)' => s # kslot' /\ ~Carried(s)'
      BY <1>1, <1>2, <1>3, <2>1, <2>3 DEF Owners
    <2>7. \A t, u \in Threads :
            tslot'[t] # None => tslot'[t] # kslot' /\ (tslot'[t] = tslot'[u] => t = u)
      BY <1>1 DEF Owners
    <2> QED BY <2>5, <2>6, <2>7 DEF Owners
  <1> QED BY <1>4, <1>5

\* The element that a reader dequeues, and what the queues are after that.
LEMMA RecvFacts ==
  ASSUME IInv, Owners, NEW t \in Threads, RecvDequeue(t)
  PROVE  /\ tport[t] \in Ports /\ fifo[tport[t]] # <<>> /\ eviq_dequeue(tport[t])
         /\ tpc[t] = "dequeue" /\ tpc' = [tpc EXCEPT ![t] = "copy"] /\ tslot[t] = None
         /\ \A i, j \in 1 .. Len(fifo[tport[t]]) : fifo[tport[t]][i] = fifo[tport[t]][j] => i = j
         /\ \A r \in Ports \ {tport[t]} : \A i \in 1 .. Len(fifo[r]) :
              fifo[r][i] # fifo[tport[t]][1]
         /\ tslot' = [tslot EXCEPT ![t] = Head(fifo[tport[t]])]
         /\ UNCHANGED <<hwq, arrived, kpc, kslot, kport, free, desc, fate, tport>>
  <1> USE DEF IInv, TypeOK
  <1>1. tpc[t] = "dequeue"
    BY DEF RecvDequeue
  <1>2. tport[t] \in Ports /\ fifo[tport[t]] # <<>> /\ fifo[tport[t]] \in Seq(Slots)
    BY <1>1 DEF Control, TestsStillHold, UserType, QueueType
  <1>3. 1 \in 1 .. Len(fifo[tport[t]])
    BY <1>2
  <1>4. /\ \A i, j \in 1 .. Len(fifo[tport[t]]) : fifo[tport[t]][i] = fifo[tport[t]][j] => i = j
        /\ \A r \in Ports \ {tport[t]} : \A i \in 1 .. Len(fifo[r]) :
             fifo[r][i] # fifo[tport[t]][1]
    BY <1>2, <1>3 DEF Owners
  <1>5. tslot[t] = None
    BY <1>1 DEF UserType
  <1> QED BY <1>1, <1>2, <1>4, <1>5 DEF RecvDequeue, Goto, nic, kthread

LEMMA OwnersRecv == ASSUME IInv, Owners, NEW t \in Threads, RecvDequeue(t) PROVE Owners'
  <1> USE DEF IInv, TypeOK
  <1>1. PICK p \in Ports : p = tport[t]
    BY RecvFacts
  <1>2. PICK x : x = Head(fifo[p])
    OBVIOUS
  <1>3. /\ \A r \in Ports \ {p} : fifo'[r] = fifo[r]
        /\ \A i \in 1 .. Len(fifo'[p]) :
             i \in Nat /\ i + 1 \in 1 .. Len(fifo[p]) /\ fifo'[p][i] = fifo[p][i + 1]
        /\ x \in Slots /\ Queued(x)
        /\ \A s : Queued(s)' <=> Queued(s) /\ s # x
    BY <1>1, <1>2, RecvFacts, DequeueFacts
  <1>4. UNCHANGED <<free, kslot>> /\ free \subseteq Slots /\ tslot[t] = None
    BY RecvFacts DEF QueueType
  <1>5. tslot'[t] = x /\ \A u \in Threads \ {t} : tslot'[u] = tslot[u]
    BY <1>1, <1>2, RecvFacts DEF UserType
  <1>6. \A s \in Slots : Carried(s)' <=> Carried(s) \/ s = x
    BY <1>4, <1>5 DEF Carried
  <1>7. x # kslot /\ ~Carried(x) /\ x \notin free
    BY <1>3 DEF Owners
  <1>8. /\ \A s \in Slots : s \in free' \/ s = kslot' \/ Carried(s)' \/ Queued(s)'
        /\ \A s \in free' : s # kslot' /\ ~Carried(s)' /\ ~Queued(s)'
        /\ \A s \in Slots : Queued(s)' => s # kslot' /\ ~Carried(s)'
    BY <1>3, <1>4, <1>6, <1>7 DEF Owners
  <1>9. ASSUME NEW q \in Ports, NEW r \in Ports,
               NEW i \in 1 .. Len(fifo'[q]), NEW j \in 1 .. Len(fifo'[r]),
               fifo'[q][i] = fifo'[r][j]
        PROVE  q = r /\ i = j
    <2>1. CASE q # p /\ r # p
      BY <1>3, <1>9, <2>1 DEF Owners
    <2>2. CASE q = p /\ r # p
      BY <1>3, <1>9, <2>2 DEF Owners
    <2>3. CASE q # p /\ r = p
      BY <1>3, <1>9, <2>3 DEF Owners
    <2>4. CASE q = p /\ r = p
      <3>1. i + 1 = j + 1 /\ i \in Nat /\ j \in Nat
        BY <1>3, <1>9, <2>4 DEF Owners
      <3> QED BY <2>4, <3>1
    <2> QED BY <2>1, <2>2, <2>3, <2>4
  <1>10. \A v, u \in Threads :
           tslot'[v] # None => tslot'[v] # kslot' /\ (tslot'[v] = tslot'[u] => v = u)
    BY <1>4, <1>5, <1>7 DEF Owners, Carried
  <1> QED BY <1>8, <1>9, <1>10 DEF Owners

LEMMA OwnersFree == ASSUME IInv, Owners, NEW t \in Threads, RecvFree(t) PROVE Owners'
  <1> USE DEF IInv, TypeOK
  <1>1. PICK x : x = tslot[t]
    OBVIOUS
  <1>2. /\ x \in Slots /\ free' = free \cup {x} /\ UNCHANGED <<fifo, kslot>>
        /\ free \subseteq Slots
        /\ tslot'[t] = None /\ \A u \in Threads \ {t} : tslot'[u] = tslot[u]
    BY <1>1 DEF RecvFree, UserType, QueueType, kthread
  <1>3. \A u \in Threads \ {t} : tslot[u] # x
    BY <1>1, <1>2 DEF Owners
  <1>4. x # kslot /\ ~Queued(x)
    BY <1>1, <1>2 DEF Owners, Carried
  <1>5. \A s \in Slots : (Carried(s)' <=> Carried(s) /\ s # x) /\ (Queued(s)' <=> Queued(s))
    BY <1>1, <1>2, <1>3 DEF Carried, Queued
  <1>6. /\ \A s \in Slots : s \in free' \/ s = kslot' \/ Carried(s)' \/ Queued(s)'
        /\ \A s \in free' : s # kslot' /\ ~Carried(s)' /\ ~Queued(s)'
        /\ \A s \in Slots : Queued(s)' => s # kslot' /\ ~Carried(s)'
    BY <1>2, <1>4, <1>5 DEF Owners
  <1>7. \A v, u \in Threads :
          tslot'[v] # None => tslot'[v] # kslot' /\ (tslot'[v] = tslot'[u] => v = u)
    BY <1>2 DEF Owners
  <1> QED BY <1>2, <1>6, <1>7 DEF Owners

LEMMA OwnersFlush == ASSUME IInv, Owners, NEW t \in Threads, RawFlush(t) PROVE Owners'
  <1> USE DEF IInv, TypeOK
  <1>1. PICK p \in Ports : p = tport[t]
    BY DEF RawFlush, UserType
  <1>2. /\ fifo' = [fifo EXCEPT ![p] = <<>>] /\ free' = free \cup Range(fifo[p])
        /\ UNCHANGED <<kslot, tslot>> /\ free \subseteq Slots
    BY <1>1 DEF RawFlush, kthread, QueueType
  <1>3. /\ \A r \in Ports \ {p} : fifo'[r] = fifo[r]
        /\ 1 .. Len(fifo'[p]) = {}
        /\ \A s : s \in Range(fifo[p]) <=> \E i \in 1 .. Len(fifo[p]) : fifo[p][i] = s
    BY <1>2, FlushFacts
  <1>4. \A s : s \in Range(fifo[p]) => Queued(s) /\ s \in Slots
    BY <1>3, QueueTypes DEF Queued
  <1>5. \A s \in Slots : Queued(s)' <=> Queued(s) /\ s \notin Range(fifo[p])
    <2>1. ASSUME NEW s \in Slots, Queued(s)' PROVE Queued(s) /\ s \notin Range(fifo[p])
      <3>1. PICK r \in Ports : \E i \in 1 .. Len(fifo'[r]) : fifo'[r][i] = s
        BY <2>1 DEF Queued
      <3>2. r # p /\ \E i \in 1 .. Len(fifo[r]) : fifo[r][i] = s
        BY <1>3, <3>1
      <3>3. Queued(s)
        BY <3>2 DEF Queued
      <3> QED BY <1>3, <3>2, <3>3 DEF Owners
    <2>2. ASSUME NEW s \in Slots, Queued(s), s \notin Range(fifo[p]) PROVE Queued(s)'
      BY <1>3, <2>2 DEF Queued
    <2> QED BY <2>1, <2>2
  <1>6. \A s : Carried(s)' <=> Carried(s)
    BY <1>2 DEF Carried
  <1>7. /\ \A s \in Slots : s \in free' \/ s = kslot' \/ Carried(s)' \/ Queued(s)'
        /\ \A s \in free' : s # kslot' /\ ~Carried(s)' /\ ~Queued(s)'
        /\ \A s \in Slots : Queued(s)' => s # kslot' /\ ~Carried(s)'
    BY <1>2, <1>4, <1>5, <1>6 DEF Owners
  <1>8. \A q, r \in Ports : \A i \in 1 .. Len(fifo'[q]), j \in 1 .. Len(fifo'[r]) :
          fifo'[q][i] = fifo'[r][j] => q = r /\ i = j
    BY <1>3 DEF Owners
  <1> QED BY <1>2, <1>7, <1>8 DEF Owners

LEMMA InitOwners == Init => Owners
  BY DEF Init, Owners, Queued, Carried

LEMMA OwnersStep == IInv /\ Owners /\ [Next]_vars => Owners'
  <1> SUFFICES ASSUME IInv, Owners, [Next]_vars PROVE Owners'
    OBVIOUS
  <1>1. CASE Arrive \/ axiomnet_irqhandler \/ axiom_hw_ack_irq \/ axkt_worker \/ DequeueLoop
               \/ DequeueRead \/ DequeueWake \/ axiomnet_watchdog_worker \/ UNCHANGED vars
    <2>1. UNCHANGED <<free, kslot, tslot, fifo>>
      BY <1>1 DEF Arrive, axiomnet_irqhandler, axiom_hw_ack_irq, axkt_worker, DequeueLoop,
         DequeueRead, DequeueWake, axiomnet_watchdog_worker, axiom_kthread_wakeup, vars,
         kthread, queue, users
    <2> QED BY <2>1, OwnersQuiet
  <1>2. ASSUME NEW t \in Threads,
               \/ Call(t) \/ Lock(t) \/ RecvTest(t) \/ RecvWait(t) \/ Signal(t) \/ RecvCopy(t)
               \/ Notify(t)
        PROVE  Owners'
    <2>1. UNCHANGED <<free, kslot, tslot, fifo>>
      BY <1>2 DEF Call, Lock, RecvTest, RecvWait, Signal, RecvCopy, Notify,
         axiom_kthread_wakeup, kthread, queue
    <2> QED BY <2>1, OwnersQuiet
  <1> QED BY <1>1, <1>2, OwnersPop, OwnersPut, OwnersRecv, OwnersFree, OwnersFlush
          DEF Next, axiom_raw_rx_dequeue, axiomnet_raw_recv

LEMMA OwnersInductive == Spec => [](IInv /\ Owners)
  BY Inductive, InitOwners, OwnersStep, PTL DEF Spec

-----------------------------------------------------------------------------
(* RawRx uses the queue manager as SlotQueues allows *)

HeldIs == \A s : s \in Held <=> s # None /\ (s = kslot \/ Carried(s))

LEMMA HeldFacts == UserType => HeldIs
  BY DEF UserType, HeldIs, Held, Range, Carried

LEMMA HeldFactsNext == UserType' => HeldIs'
  BY HeldFacts, PTL

LEMMA InitProtocol == Init => SQ!Init
  <1> SUFFICES ASSUME Init PROVE SQ!Init
    OBVIOUS
  <1>1. HeldIs
    BY InitInv, HeldFacts DEF IInv, TypeOK
  <1>2. Held = {}
    BY <1>1 DEF HeldIs, Init, Carried
  <1> QED BY <1>2 DEF Init, SQ!Init

LEMMA StepProtocol == IInv /\ IInv' /\ Owners /\ [Next]_vars => [SQ!Next]_(SQ!vars)
  <1> SUFFICES ASSUME IInv, IInv', Owners, [Next]_vars PROVE SQ!Next \/ UNCHANGED SQ!vars
    OBVIOUS
  <1> USE DEF IInv, TypeOK
  <1>1. HeldIs /\ HeldIs'
    BY HeldFacts, HeldFactsNext
  <1>2. CASE UNCHANGED <<free, kslot, tslot, fifo>>
    <2>1. Held' = Held
      BY <1>2 DEF Held
    <2> QED BY <1>2, <2>1 DEF SQ!vars
  <1>3. CASE DequeuePop
    <2>1. free # {} /\ kslot = None
      BY <1>3 DEF DequeuePop, Control, TestsStillHold, KthreadType
    <2>2. PICK x \in free : kslot' = x /\ free' = free \ {x} /\ UNCHANGED <<fifo, tslot>>
      BY <1>3, <2>1 DEF DequeuePop, eviq_free_pop, users
    <2>3. Held' = Held \cup {x}
      <3>1. x # None
        BY <2>2 DEF QueueType
      <3> QED BY <1>1, <2>1, <2>2, <3>1 DEF HeldIs, Carried
    <2>4. SQ!FreePop
      BY <2>2, <2>3 DEF SQ!FreePop
    <2> QED BY <2>4 DEF SQ!Next
  <1>4. CASE DequeuePut
    <2>1. kslot \in Slots /\ kslot' = None /\ UNCHANGED tslot
      BY <1>4 DEF DequeuePut, KthreadType, users
    <2>2. ~Carried(kslot)
      BY <2>1 DEF Owners, Carried
    <2>3. kslot \in Held /\ Held' = Held \ {kslot}
      BY <1>1, <2>1, <2>2 DEF HeldIs, Carried
    <2>4. CASE kport = BadPort
      <3>1. SQ!FreePush
        BY <1>4, <2>3, <2>4 DEF DequeuePut, DiscardSlot, SQ!FreePush
      <3> QED BY <3>1 DEF SQ!Next
    <2>5. CASE kport # BadPort
      <3>1. kport \in Ports
        BY <2>5 DEF KthreadType
      <3>2. SQ!Enqueue
        BY <1>4, <2>3, <2>5, <3>1 DEF DequeuePut, eviq_enqueue, SQ!Enqueue
      <3> QED BY <3>2 DEF SQ!Next
    <2> QED BY <2>4, <2>5
  <1>5. ASSUME NEW t \in Threads, RecvDequeue(t) PROVE SQ!Next
    <2>1. PICK p \in Ports : p = tport[t]
      BY <1>5, RecvFacts
    <2>2. /\ fifo[p] # <<>> /\ eviq_dequeue(p) /\ tslot[t] = None
          /\ tslot' = [tslot EXCEPT ![t] = Head(fifo[p])] /\ UNCHANGED <<kslot, free>>
      BY <1>5, <2>1, RecvFacts
    <2>3. PICK x \in Slots : x = Head(fifo[p])
      BY <2>2, FirstOfSeq DEF QueueType
    <2>4. tslot'[t] = x /\ \A u \in Threads \ {t} : tslot'[u] = tslot[u]
      BY <2>2, <2>3 DEF UserType
    <2>5. Held' = Held \cup {x}
      BY <1>1, <2>2, <2>3, <2>4 DEF HeldIs, Carried
    <2>6. SQ!Dequeue
      BY <2>2, <2>3, <2>5 DEF SQ!Dequeue, eviq_dequeue
    <2> QED BY <2>6 DEF SQ!Next
  <1>6. ASSUME NEW t \in Threads, RecvFree(t) PROVE SQ!Next
    <2>1. PICK x \in Slots : x = tslot[t]
      BY <1>6 DEF RecvFree, UserType
    <2>2. /\ free' = free \cup {x} /\ UNCHANGED <<fifo, kslot>>
          /\ tslot'[t] = None /\ \A u \in Threads \ {t} : tslot'[u] = tslot[u]
      BY <1>6, <2>1 DEF RecvFree, UserType, kthread
    <2>3. x # kslot /\ \A u \in Threads \ {t} : tslot[u] # x
      BY <2>1 DEF Owners
    <2>4. x \in Held /\ Held' = Held \ {x}
      BY <1>1, <2>1, <2>2, <2>3 DEF HeldIs, Carried
    <2>5. SQ!FreePush
      BY <2>2, <2>4 DEF SQ!FreePush
    <2> QED BY <2>5 DEF SQ!Next
  <1>7. ASSUME NEW t \in Threads, RawFlush(t) PROVE SQ!Next
    <2>1. PICK p \in Ports : p = tport[t]
      BY <1>7 DEF RawFlush, UserType
    <2>2. /\ fifo' = [fifo EXCEPT ![p] = <<>>] /\ free' = free \cup Range(fifo[p])
          /\ UNCHANGED <<kslot, tslot>>
      BY <1>7, <2>1 DEF RawFlush, kthread
    <2>3. Held' = Held
      BY <2>2 DEF Held
    <2>4. SQ!Drain
      BY <2>2, <2>3 DEF SQ!Drain, SQ!Range, Range
    <2> QED BY <2>4 DEF SQ!Next
  <1>8. CASE Arrive \/ axiomnet_irqhandler \/ axiom_hw_ack_irq \/ axkt_worker \/ DequeueLoop
               \/ DequeueRead \/ DequeueWake \/ axiomnet_watchdog_worker \/ UNCHANGED vars
    BY <1>2, <1>8 DEF Arrive, axiomnet_irqhandler, axiom_hw_ack_irq, axkt_worker, DequeueLoop,
       DequeueRead, DequeueWake, axiomnet_watchdog_worker, axiom_kthread_wakeup, vars,
       kthread, queue, users
  <1>9. ASSUME NEW t \in Threads,
               \/ Call(t) \/ Lock(t) \/ RecvTest(t) \/ RecvWait(t) \/ Signal(t) \/ RecvCopy(t)
               \/ Notify(t)
        PROVE  UNCHANGED SQ!vars
    <2>1. UNCHANGED <<free, kslot, tslot, fifo>>
      BY <1>9 DEF Call, Lock, RecvTest, RecvWait, Signal, RecvCopy, Notify,
         axiom_kthread_wakeup, kthread, queue
    <2>2. Held' = Held
      BY <2>1 DEF Held
    <2> QED BY <2>1, <2>2 DEF SQ!vars
  <1> QED BY <1>3, <1>4, <1>5, <1>6, <1>7, <1>8, <1>9
          DEF Next, axiom_raw_rx_dequeue, axiomnet_raw_recv

\* The receive path uses the queue manager as SlotQueues allows, in every
\* interleaving of the kthread, the readers and the flushes: it frees and enqueues
\* only slots that somebody holds, and takes only free slots and first ones.
THEOREM SlotProtocol == Spec => FollowsSlotProtocol
  <1>1. Spec => [](IInv /\ Owners)
    BY OwnersInductive
  <1> QED BY <1>1, InitProtocol, StepProtocol, PTL DEF Spec, FollowsSlotProtocol, SQ!Spec

-----------------------------------------------------------------------------
(* Messages *)

\* What the types say of a slot that holds a message, and of the FIFO.
LEMMA MessageTypes ==
  ASSUME IInv
  PROVE  /\ \A s : In(s) => s \in Slots
         /\ \A m \in Msgs : m.id \in Ids /\ m.id \in Nat
         /\ \A i \in 1 .. Len(hwq) : hwq[i] \in Msgs
         /\ arrived \in Nat /\ MaxMsgs \in Nat
  <1> USE DEF IInv, TypeOK
  <1>1. \A s : In(s) => s \in Slots
    BY QueueTypes DEF In, KthreadType, UserType
  <1>2. \A m \in Msgs : m.id \in Ids /\ m.id \in Nat
    BY DEF Msgs, Ids
  <1>3. \A i \in 1 .. Len(hwq) : hwq[i] \in Msgs
    BY DEF NicType
  <1> QED BY <1>1, <1>2, <1>3 DEF NicType

\* A step that moves no message.
LEMMA MessagesQuiet ==
  ASSUME Messages, UNCHANGED <<hwq, arrived, fifo, desc, fate>>,
         \A s : In(s)' <=> In(s),
         kpc' = "put" => kpc = "put" /\ UNCHANGED <<kslot, kport>>
  PROVE  Messages'
  <1>1. Undecided'
    BY DEF Messages, Undecided
  <1>2. InFifo' /\ InOrder'
    BY DEF Messages, InFifo, InOrder
  <1>3. Somewhere'
    BY DEF Messages, Somewhere
  <1>4. Latest'
    BY DEF Messages, Latest
  <1> QED BY <1>1, <1>2, <1>3, <1>4 DEF Messages

\* Arrive: the new message is the last one of the FIFO.
LEMMA MessagesArrive == ASSUME IInv, Messages, Arrive PROVE Messages'
  <1> USE DEF IInv, TypeOK
  <1>1. PICK p \in Ports \cup {BadPort} : hwq' = Append(hwq, [id |-> arrived + 1, port |-> p])
    BY DEF Arrive
  <1>2. /\ arrived' = arrived + 1 /\ arrived \in Nat /\ arrived + 1 \in Ids
        /\ UNCHANGED <<kpc, kslot, kport, fifo, desc, tpc, tslot, fate>>
    BY DEF Arrive, NicType, Ids, kthread, queue, users
  <1>3. PICK m : m = [id |-> arrived + 1, port |-> p] /\ m.id = arrived + 1
    <2>1. [id |-> arrived + 1, port |-> p].id = arrived + 1
      OBVIOUS
    <2> QED BY <2>1
  <1>4. PICK n \in Nat : n = Len(hwq)
    BY DEF NicType
  <1>5. /\ Len(hwq') = n + 1 /\ hwq'[n + 1] = m /\ \A i \in 1 .. n : hwq'[i] = hwq[i]
    BY <1>1, <1>3, <1>4 DEF NicType
  <1>6. /\ 1 .. n \subseteq 1 .. n + 1 /\ n + 1 \in 1 .. n + 1
        /\ \A i \in 1 .. n + 1 : i \in 1 .. n \/ i = n + 1
    BY <1>4
  <1>7. \A s : In(s)' <=> In(s)
    BY <1>2 DEF In, Queued
  <1>8. Undecided'
    <2>1. ASSUME NEW s \in Slots, In(s)
          PROVE  /\ desc[s].id <= arrived + 1
                 /\ \A i \in 1 .. n + 1 : desc[s].id < hwq'[i].id
      <3>1. desc[s].id \in Nat /\ desc[s].id <= arrived
        BY <2>1, MessageTypes DEF Messages, Undecided
      <3>2. \A i \in 1 .. n : desc[s].id < hwq[i].id
        BY <1>4, <2>1 DEF Messages, Undecided
      <3>3. desc[s].id < m.id
        BY <1>2, <1>3, <3>1
      <3> QED BY <1>2, <1>5, <1>6, <3>1, <3>2, <3>3
    <2> QED BY <1>2, <1>5, <1>7, <2>1 DEF Messages, Undecided
  <1>9. InFifo'
    <2>1. \A i \in 1 .. n : hwq[i].id \in Nat /\ hwq[i].id <= arrived /\ fate[hwq[i].id] = "none"
      BY <1>4, MessageTypes DEF Messages, InFifo
    <2>2. fate[m.id] = "none"
      BY <1>2, <1>3 DEF Messages, Somewhere
    <2>3. \A i \in 1 .. n + 1 : hwq'[i].id <= arrived' /\ fate[hwq'[i].id] = "none"
      BY <1>2, <1>3, <1>5, <1>6, <2>1, <2>2
    <2>4. ASSUME NEW i \in 1 .. n + 1, NEW j \in 1 .. n + 1, i < j PROVE hwq'[i].id < hwq'[j].id
      <3>1. i \in 1 .. n
        BY <1>4, <2>4
      <3>2. CASE j \in 1 .. n
        BY <1>4, <1>5, <2>4, <3>1, <3>2 DEF Messages, InFifo
      <3>3. CASE j = n + 1
        BY <1>2, <1>3, <1>5, <2>1, <3>1, <3>3
      <3> QED BY <1>6, <3>2, <3>3
    <2> QED BY <1>2, <1>5, <2>3, <2>4 DEF InFifo
  <1>10. Somewhere'
    <2>1. ASSUME NEW i \in Ids
          PROVE  /\ i > arrived' => fate'[i] = "none"
                 /\ i <= arrived' /\ fate'[i] = "none" =>
                      \/ \E j \in 1 .. Len(hwq') : hwq'[j].id = i
                      \/ \E s \in Slots : In(s)' /\ desc'[s].id = i
      <3>1. i \in Nat
        BY DEF Ids
      <3>2. CASE i > arrived'
        BY <1>2, <3>1, <3>2 DEF Messages, Somewhere
      <3>3. CASE i = arrived'
        BY <1>2, <1>3, <1>5, <1>6, <3>3
      <3>4. CASE i <= arrived
        <4>1. fate[i] = "none" => \/ \E j \in 1 .. n : hwq[j].id = i
                                  \/ \E s \in Slots : In(s) /\ desc[s].id = i
          BY <1>4, <3>4 DEF Messages, Somewhere
        <4>2. (\E j \in 1 .. n : hwq[j].id = i) => \E j \in 1 .. n + 1 : hwq'[j].id = i
          BY <1>5, <1>6
        <4> QED BY <1>2, <1>5, <1>7, <3>1, <3>4, <4>1, <4>2
      <3> QED BY <1>2, <3>1, <3>2, <3>3, <3>4
    <2> QED BY <2>1 DEF Somewhere
  <1>11. Latest' /\ InOrder'
    BY <1>2, <1>7 DEF Messages, Latest, InOrder
  <1> QED BY <1>8, <1>9, <1>10, <1>11 DEF Messages

\* DequeueRead: the first message of the FIFO goes to the slot of the kthread, which
\* held none.
LEMMA MessagesRead == ASSUME IInv, Owners, Messages, DequeueRead PROVE Messages'
  <1> USE DEF IInv, TypeOK
  <1>1. /\ kpc = "read" /\ kpc' = "put" /\ hwq' = Tail(hwq) /\ kport' = Head(hwq).port
        /\ desc' = [desc EXCEPT ![kslot] = Head(hwq)] /\ kslot \in Slots
        /\ UNCHANGED <<arrived, kslot, fifo, tpc, tslot, fate>>
    BY DEF DequeueRead, KthreadType, users
  <1>2. hwq # <<>> /\ hwq \in Seq(Msgs)
    BY <1>1 DEF Control, TestsStillHold, NicType
  <1>3. PICK n \in Nat : n = Len(hwq) /\ n > 0
    BY <1>2
  <1>4. PICK m \in Msgs : m = Head(hwq) /\ m = hwq[1]
    BY <1>2
  <1>5. Len(hwq') = n - 1 /\ \A i \in 1 .. n - 1 : hwq'[i] = hwq[i + 1]
    BY <1>1, <1>2, <1>3
  <1>6. /\ 1 \in 1 .. n /\ \A i \in 1 .. n - 1 : i \in Nat /\ i + 1 \in 1 .. n /\ 1 < i + 1
        /\ \A i \in 1 .. n : i = 1 \/ (i - 1 \in 1 .. n - 1 /\ (i - 1) + 1 = i)
    BY <1>3
  <1>7. desc'[kslot] = m /\ \A s \in Slots \ {kslot} : desc'[s] = desc[s]
    BY <1>1, <1>4 DEF QueueType
  <1>8. \A s : In(s) => s \in Slots /\ s # kslot
    BY <1>1, MessageTypes DEF In, Owners, Carried
  <1>9. \A s : In(s)' <=> In(s) \/ s = kslot
    BY <1>1 DEF In, Queued
  <1>10. \A i \in 1 .. n - 1 : m.id < hwq'[i].id
    BY <1>3, <1>4, <1>5, <1>6 DEF Messages, InFifo
  <1>11. \A s \in Slots : In(s) => desc[s].id < m.id /\ desc[s].id \in Nat /\ m.id \in Nat
    BY <1>3, <1>4, <1>6, MessageTypes DEF Messages, Undecided
  <1>12. m.id <= arrived /\ fate[m.id] = "none"
    BY <1>3, <1>4, <1>6 DEF Messages, InFifo
  <1>13. Undecided'
    <2>1. ASSUME NEW s \in Slots, In(s)
          PROVE  /\ desc'[s] \in Msgs /\ desc'[s].id <= arrived' /\ fate'[desc'[s].id] = "none"
                 /\ \A i \in 1 .. n - 1 : desc'[s].id < hwq'[i].id
                 /\ \A r \in Slots : In(r)' /\ desc'[r].id = desc'[s].id => r = s
      <3>1. s # kslot /\ desc'[s] = desc[s]
        BY <1>7, <1>8, <2>1
      <3>2. desc[s] \in Msgs /\ desc[s].id <= arrived /\ fate[desc[s].id] = "none"
        BY <2>1 DEF Messages, Undecided
      <3>3. \A i \in 1 .. n - 1 : desc[s].id < hwq'[i].id
        BY <1>3, <1>5, <1>6, <2>1 DEF Messages, Undecided
      <3>4. ASSUME NEW r \in Slots, In(r)', desc'[r].id = desc'[s].id PROVE r = s
        <4>1. CASE r = kslot
          BY <1>7, <1>11, <2>1, <3>1, <3>4, <4>1
        <4>2. CASE r # kslot
          BY <1>7, <1>9, <2>1, <3>1, <3>4, <4>2 DEF Messages, Undecided
        <4> QED BY <4>1, <4>2
      <3> QED BY <1>1, <3>1, <3>2, <3>3, <3>4
    <2>2. /\ desc'[kslot] \in Msgs /\ desc'[kslot].id <= arrived'
          /\ fate'[desc'[kslot].id] = "none"
          /\ \A i \in 1 .. n - 1 : desc'[kslot].id < hwq'[i].id
      BY <1>1, <1>7, <1>10, <1>12
    <2>3. ASSUME NEW r \in Slots, In(r)', desc'[r].id = desc'[kslot].id PROVE r = kslot
      BY <1>7, <1>9, <1>11, <2>3
    <2> QED BY <1>1, <1>5, <1>9, <2>1, <2>2, <2>3 DEF Undecided
  <1>14. InFifo'
    <2>1. \A i \in 1 .. n - 1 : hwq'[i].id <= arrived' /\ fate'[hwq'[i].id] = "none"
      BY <1>1, <1>3, <1>5, <1>6 DEF Messages, InFifo
    <2>2. ASSUME NEW i \in 1 .. n - 1, NEW j \in 1 .. n - 1, i < j PROVE hwq'[i].id < hwq'[j].id
      <3>1. i + 1 < j + 1
        BY <1>6, <2>2
      <3> QED BY <1>3, <1>5, <1>6, <3>1 DEF Messages, InFifo
    <2> QED BY <1>5, <2>1, <2>2 DEF InFifo
  <1>15. Somewhere'
    <2>1. ASSUME NEW i \in Ids, i <= arrived, fate[i] = "none"
          PROVE  \/ \E j \in 1 .. n - 1 : hwq'[j].id = i
                 \/ \E s \in Slots : In(s)' /\ desc'[s].id = i
      <3>1. CASE \E j \in 1 .. n : hwq[j].id = i
        <4>1. PICK j \in 1 .. n : hwq[j].id = i
          BY <3>1
        <4>2. CASE j = 1
          BY <1>1, <1>4, <1>7, <1>9, <4>1, <4>2
        <4>3. CASE j # 1
          <5>1. PICK k \in 1 .. n - 1 : k + 1 = j
            BY <1>6, <4>3
          <5> QED BY <1>5, <4>1, <5>1
        <4> QED BY <4>2, <4>3
      <3>2. CASE \E s \in Slots : In(s) /\ desc[s].id = i
        BY <1>7, <1>8, <1>9, <3>2
      <3> QED BY <1>3, <2>1, <3>1, <3>2 DEF Messages, Somewhere
    <2> QED BY <1>1, <1>5, <2>1 DEF Messages, Somewhere
  <1>16. Latest'
    BY <1>1, <1>4, <1>7, <1>8, <1>9, <1>11 DEF Latest
  <1>17. InOrder'
    <2>1. \A p \in Ports : \A i \in 1 .. Len(fifo[p]) : desc'[fifo[p][i]] = desc[fifo[p][i]]
      <3>1. \A p \in Ports : \A i \in 1 .. Len(fifo[p]) : In(fifo[p][i])
        BY DEF In, Queued
      <3> QED BY <1>7, <1>8, <3>1
    <2> QED BY <1>1, <2>1 DEF Messages, InOrder
  <1> QED BY <1>13, <1>14, <1>15, <1>16, <1>17 DEF Messages

\* A step that decides on the messages of the slots in D and takes them out of In.
LEMMA MessagesDecide ==
  ASSUME IInv, Messages, NEW D \in SUBSET Slots,
         \A s \in D : In(s),
         \A s : In(s)' <=> In(s) /\ s \notin D,
         UNCHANGED <<hwq, arrived, desc>>,
         \A i \in Ids : fate'[i] = "none" <=> fate[i] = "none" /\ ~\E s \in D : desc[s].id = i,
         kpc' = "put" => kpc = "put" /\ UNCHANGED <<kslot, kport>>,
         \A p \in Ports : fifo'[p] = fifo[p] \/ 1 .. Len(fifo'[p]) = {}
  PROVE  Messages'
  <1>1. Undecided'
    <2>1. ASSUME NEW s \in Slots, In(s), s \notin D PROVE fate'[desc[s].id] = "none"
      <3>1. desc[s].id \in Ids /\ fate[desc[s].id] = "none"
        BY <2>1, MessageTypes DEF Messages, Undecided
      <3>2. ~\E r \in D : desc[r].id = desc[s].id
        BY <2>1 DEF Messages, Undecided
      <3> QED BY <3>1, <3>2
    <2> QED BY <2>1 DEF Messages, Undecided
  <1>2. InFifo'
    <2>1. ASSUME NEW i \in 1 .. Len(hwq) PROVE fate'[hwq[i].id] = "none"
      <3>1. hwq[i].id \in Ids /\ hwq[i].id \in Nat /\ fate[hwq[i].id] = "none"
        BY MessageTypes DEF Messages, InFifo
      <3>2. ASSUME NEW r \in D PROVE desc[r].id # hwq[i].id
        <4>1. desc[r].id \in Nat /\ desc[r].id < hwq[i].id
          BY MessageTypes DEF Messages, Undecided
        <4> QED BY <3>1, <4>1
      <3> QED BY <3>1, <3>2
    <2> QED BY <2>1 DEF Messages, InFifo
  <1>3. Somewhere'
    <2>1. ASSUME NEW i \in Ids, i > arrived PROVE fate'[i] = "none"
      <3>1. fate[i] = "none" /\ i \in Nat /\ arrived \in Nat
        BY <2>1, MessageTypes DEF Messages, Somewhere, Ids
      <3>2. ASSUME NEW r \in D PROVE desc[r].id # i
        <4>1. desc[r].id \in Nat /\ desc[r].id <= arrived
          BY MessageTypes DEF Messages, Undecided
        <4> QED BY <2>1, <3>1, <4>1
      <3> QED BY <3>1, <3>2
    <2>2. ASSUME NEW i \in Ids, i <= arrived, fate'[i] = "none"
          PROVE  \/ \E j \in 1 .. Len(hwq) : hwq[j].id = i
                 \/ \E s \in Slots : In(s)' /\ desc[s].id = i
      BY <2>2 DEF Messages, Somewhere
    <2> QED BY <2>1, <2>2 DEF Somewhere
  <1>4. Latest'
    BY DEF Messages, Latest
  <1>5. InOrder'
    BY DEF Messages, InOrder
  <1> QED BY <1>1, <1>2, <1>3, <1>4, <1>5 DEF Messages

\* DequeuePut: a message for an invalid port is decided on, any other is the latest
\* one of its queue.
LEMMA MessagesPut == ASSUME IInv, Owners, Messages, DequeuePut PROVE Messages'
  <1> USE DEF IInv, TypeOK
  <1>1. /\ kpc = "put" /\ kpc' # "put" /\ kslot \in Slots
        /\ UNCHANGED <<hwq, arrived, desc, tpc, tslot>>
    BY DEF DequeuePut, KthreadType, nic, users
  <1>2. In(kslot) /\ ~Queued(kslot) /\ \A t \in Threads : tslot[t] # kslot
    BY <1>1 DEF In, Owners, Carried
  <1>3. CASE kport = BadPort
    <2>1. UNCHANGED fifo /\ fate' = [fate EXCEPT ![desc[kslot].id] = "bad port"]
      BY <1>3 DEF DequeuePut
    <2>2. \A s : In(s)' <=> In(s) /\ s \notin {kslot}
      BY <1>1, <1>2, <2>1 DEF In, Queued
    <2>3. \A i \in Ids :
            fate'[i] = "none" <=> fate[i] = "none" /\ ~\E s \in {kslot} : desc[s].id = i
      BY <2>1 DEF HistoryType
    <2>4. {kslot} \in SUBSET Slots /\ \A s \in {kslot} : In(s)
      BY <1>1, <1>2
    <2>5. \A p \in Ports : fifo'[p] = fifo[p]
      BY <2>1
    <2> QED BY <1>1, <2>2, <2>3, <2>4, <2>5, MessagesDecide
  <1>4. CASE kport # BadPort
    <2>1. PICK p \in Ports : p = kport
      BY <1>4 DEF KthreadType
    <2>2. eviq_enqueue(p, kslot) /\ UNCHANGED fate
      BY <1>4, <2>1 DEF DequeuePut
    <2>3. PICK n \in Nat :
            /\ n = Len(fifo[p]) /\ Len(fifo'[p]) = n + 1
            /\ \A i \in 1 .. n : fifo'[p][i] = fifo[p][i]
            /\ fifo'[p][n + 1] = kslot
      BY <1>1, <2>2, EnqueueFacts
    <2>4. /\ \A r \in Ports \ {p} : fifo'[r] = fifo[r]
          /\ \A s : Queued(s)' <=> Queued(s) \/ s = kslot
      BY <1>1, <2>2, EnqueueFacts
    <2>5. \A s : In(s)' <=> In(s)
      BY <1>1, <2>4 DEF In
    <2>6. Undecided'
      BY <1>1, <2>2, <2>5 DEF Messages, Undecided
    <2>7. InFifo'
      BY <1>1, <2>2 DEF Messages, InFifo
    <2>8. Somewhere'
      BY <1>1, <2>2, <2>5 DEF Messages, Somewhere
    <2>9. Latest'
      BY <1>1 DEF Latest
    <2>10. InOrder'
      <3>1. ASSUME NEW i \in 1 .. n + 1
            PROVE  desc[fifo'[p][i]].port = p
        <4>1. CASE i \in 1 .. n
          BY <2>3, <4>1 DEF Messages, InOrder
        <4>2. CASE i = n + 1
          BY <1>1, <2>1, <2>3, <4>2 DEF Messages, Latest
        <4> QED BY <2>3, <4>1, <4>2
      <3>2. ASSUME NEW i \in 1 .. n + 1, NEW j \in 1 .. n + 1, i < j
            PROVE  desc[fifo'[p][i]].id < desc[fifo'[p][j]].id
        <4>1. i \in 1 .. n
          BY <2>3, <3>2
        <4>2. CASE j \in 1 .. n
          BY <2>3, <3>2, <4>1, <4>2 DEF Messages, InOrder
        <4>3. CASE j = n + 1
          <5>1. Queued(fifo[p][i]) /\ fifo[p][i] # kslot /\ fifo[p][i] \in Slots
            BY <1>2, <2>3, <4>1, QueueTypes DEF Queued
          <5>2. desc[fifo[p][i]].id < desc[kslot].id
            BY <1>1, <5>1 DEF Messages, Latest, In
          <5> QED BY <2>3, <4>1, <4>3, <5>2
        <4> QED BY <2>3, <4>2, <4>3
      <3>3. ASSUME NEW r \in Ports, NEW i \in 1 .. Len(fifo'[r])
            PROVE  /\ desc'[fifo'[r][i]].port = r
                   /\ \A j \in 1 .. Len(fifo'[r]) :
                        i < j => desc'[fifo'[r][i]].id < desc'[fifo'[r][j]].id
        <4>1. CASE r = p
          BY <1>1, <2>3, <3>1, <3>2, <4>1
        <4>2. CASE r # p
          BY <1>1, <2>4, <4>2 DEF Messages, InOrder
        <4> QED BY <4>1, <4>2
      <3> QED BY <3>3 DEF InOrder
    <2> QED BY <2>6, <2>7, <2>8, <2>9, <2>10 DEF Messages
  <1> QED BY <1>3, <1>4

\* RecvDequeue: the first message of a queue goes to a reader.
LEMMA MessagesRecv ==
  ASSUME IInv, Owners, Messages, NEW t \in Threads, RecvDequeue(t)
  PROVE  Messages'
  <1> USE DEF IInv, TypeOK
  <1>1. PICK p \in Ports : p = tport[t]
    BY RecvFacts
  <1>2. PICK x : x = Head(fifo[p])
    OBVIOUS
  <1>3. /\ \A r \in Ports \ {p} : fifo'[r] = fifo[r]
        /\ \A i \in 1 .. Len(fifo'[p]) :
             i \in Nat /\ i + 1 \in 1 .. Len(fifo[p]) /\ fifo'[p][i] = fifo[p][i + 1]
        /\ x \in Slots /\ Queued(x)
        /\ \A s : Queued(s)' <=> Queued(s) /\ s # x
    BY <1>1, <1>2, RecvFacts, DequeueFacts
  <1>4. UNCHANGED <<hwq, arrived, kpc, kslot, kport, desc, fate>> /\ tpc[t] = "dequeue"
    BY RecvFacts
  <1>5. /\ tslot'[t] = x /\ tpc'[t] = "copy"
        /\ \A u \in Threads \ {t} : tslot'[u] = tslot[u] /\ tpc'[u] = tpc[u]
    BY <1>1, <1>2, RecvFacts DEF UserType
  <1>6. \A s : In(s)' <=> In(s)
    BY <1>3, <1>4, <1>5 DEF In
  <1>7. Undecided'
    BY <1>4, <1>6 DEF Messages, Undecided
  <1>8. InFifo'
    BY <1>4 DEF Messages, InFifo
  <1>9. Somewhere'
    BY <1>4, <1>6 DEF Messages, Somewhere
  <1>10. Latest'
    BY <1>4, <1>6 DEF Messages, Latest
  <1>11. InOrder'
    <2>1. ASSUME NEW r \in Ports, NEW i \in 1 .. Len(fifo'[r])
          PROVE  /\ desc'[fifo'[r][i]].port = r
                 /\ \A j \in 1 .. Len(fifo'[r]) :
                      i < j => desc'[fifo'[r][i]].id < desc'[fifo'[r][j]].id
      <3>1. CASE r # p
        BY <1>3, <1>4, <3>1 DEF Messages, InOrder
      <3>2. CASE r = p
        <4>1. desc[fifo'[p][i]].port = p
          BY <1>3, <3>2 DEF Messages, InOrder
        <4>2. ASSUME NEW j \in 1 .. Len(fifo'[p]), i < j
              PROVE  desc[fifo'[p][i]].id < desc[fifo'[p][j]].id
          <5>1. /\ i + 1 < j + 1
                /\ i + 1 \in 1 .. Len(fifo[p]) /\ j + 1 \in 1 .. Len(fifo[p])
                /\ fifo'[p][i] = fifo[p][i + 1] /\ fifo'[p][j] = fifo[p][j + 1]
            BY <1>3, <3>2, <4>2
          <5>2. desc[fifo[p][i + 1]].id < desc[fifo[p][j + 1]].id
            BY <5>1 DEF Messages, InOrder
          <5> QED BY <5>1, <5>2
        <4> QED BY <1>4, <3>2, <4>1, <4>2
      <3> QED BY <3>1, <3>2
    <2> QED BY <2>1 DEF InOrder
  <1> QED BY <1>7, <1>8, <1>9, <1>10, <1>11 DEF Messages

\* RecvCopy: the message is delivered or dropped.
LEMMA MessagesCopy ==
  ASSUME IInv, Owners, Messages, NEW t \in Threads, RecvCopy(t)
  PROVE  Messages'
  <1> USE DEF IInv, TypeOK
  <1>1. PICK x : x = tslot[t]
    OBVIOUS
  <1>2. /\ tpc[t] = "copy" /\ x \in Slots
        /\ UNCHANGED <<hwq, arrived, kpc, kslot, kport, fifo, desc, tslot>>
    BY <1>1 DEF RecvCopy, UserType, nic, kthread, queue
  <1>3. tpc'[t] = "free" /\ \A u \in Threads \ {t} : tpc'[u] = tpc[u]
    BY DEF RecvCopy, Goto, UserType
  <1>4. In(x)
    BY <1>1, <1>2 DEF In
  <1>5. x # kslot /\ ~Queued(x) /\ \A u \in Threads \ {t} : tslot[u] # x
    BY <1>1, <1>2 DEF Owners, Carried
  <1>6. \A s : In(s)' <=> In(s) /\ s \notin {x}
    BY <1>1, <1>2, <1>3, <1>5 DEF In, Queued
  <1>7. \A i \in Ids : fate'[i] = "none" <=> fate[i] = "none" /\ ~\E s \in {x} : desc[s].id = i
    <2>1. PICK result \in {"delivered", "error"} :
            fate' = [fate EXCEPT ![desc[x].id] = result]
      BY <1>1 DEF RecvCopy
    <2>2. fate \in [Ids -> {"none", "delivered", "error", "flushed", "bad port"}]
      BY DEF HistoryType
    <2> QED BY <2>1, <2>2
  <1> QED BY <1>2, <1>4, <1>6, <1>7, MessagesDecide

\* RawFlush: all messages of a queue are decided on.
LEMMA MessagesFlush ==
  ASSUME IInv, Owners, Messages, NEW t \in Threads, RawFlush(t)
  PROVE  Messages'
  <1> USE DEF IInv, TypeOK
  <1>1. PICK p \in Ports : p = tport[t]
    BY DEF RawFlush, UserType
  <1>2. PICK D : D = Range(fifo[p])
    OBVIOUS
  <1>3. /\ fifo' = [fifo EXCEPT ![p] = <<>>]
        /\ fate' = [i \in Ids |-> IF \E s \in D : desc[s].id = i THEN "flushed" ELSE fate[i]]
        /\ tpc[t] = "flush" /\ tpc' = [tpc EXCEPT ![t] = "notify"]
        /\ UNCHANGED <<hwq, arrived, kpc, kslot, kport, desc, tslot>>
    BY <1>1, <1>2 DEF RawFlush, Goto, nic, kthread
  <1>4. /\ \A r \in Ports \ {p} : fifo'[r] = fifo[r]
        /\ 1 .. Len(fifo'[p]) = {}
        /\ \A s : s \in D <=> \E i \in 1 .. Len(fifo[p]) : fifo[p][i] = s
    BY <1>2, <1>3, FlushFacts
  <1>5. \A s \in D : s \in Slots /\ Queued(s)
    BY <1>4, QueueTypes DEF Queued
  <1>6. \A s \in D : s # kslot /\ \A u \in Threads : tslot[u] # s
    BY <1>5 DEF Owners, Carried
  <1>7. \A r \in Ports \ {p} : \A i \in 1 .. Len(fifo[r]) : fifo[r][i] \notin D
    BY <1>4 DEF Owners
  <1>8. \A s : Queued(s)' <=> Queued(s) /\ s \notin D
    BY <1>4, <1>7 DEF Queued
  <1>9. \A u \in Threads : tpc'[u] = "copy" <=> tpc[u] = "copy"
    BY <1>3 DEF UserType
  <1>10. \A s : In(s)' <=> In(s) /\ s \notin D
    BY <1>3, <1>6, <1>8, <1>9 DEF In
  <1>11. D \in SUBSET Slots /\ \A s \in D : In(s)
    BY <1>5 DEF In
  <1>12. \A i \in Ids : fate'[i] = "none" <=> fate[i] = "none" /\ ~\E s \in D : desc[s].id = i
    BY <1>3 DEF HistoryType
  <1> QED BY <1>3, <1>4, <1>10, <1>11, <1>12, MessagesDecide

LEMMA InitMessages == Init => Messages
  <1> SUFFICES ASSUME Init PROVE Messages
    OBVIOUS
  <1>1. 1 .. Len(hwq) = {} /\ \A p \in Ports : 1 .. Len(fifo[p]) = {}
    BY DEF Init
  <1>2. \A s : ~In(s)
    BY <1>1 DEF Init, In, Queued
  <1>3. \A i \in Ids : fate[i] = "none" /\ ~(i <= arrived)
    BY DEF Init, Ids
  <1> QED BY <1>1, <1>2, <1>3
          DEF Init, Messages, Undecided, InFifo, Somewhere, Latest, InOrder

LEMMA MessagesStep == IInv /\ Owners /\ Messages /\ [Next]_vars => Messages'
  <1> SUFFICES ASSUME IInv, Owners, Messages, [Next]_vars PROVE Messages'
    OBVIOUS
  <1>1. CASE axiomnet_irqhandler \/ axiom_hw_ack_irq \/ axkt_worker \/ DequeueLoop \/ DequeuePop
               \/ DequeueWake \/ axiomnet_watchdog_worker \/ UNCHANGED vars
    <2>1. UNCHANGED <<hwq, arrived, fifo, desc, fate, tslot>>
      BY <1>1 DEF axiomnet_irqhandler, axiom_hw_ack_irq, axkt_worker, DequeueLoop, DequeuePop,
         DequeueWake, axiomnet_watchdog_worker, vars, nic, queue, users
    <2>2. kpc' = "put" \/ kpc = "put" => UNCHANGED <<kpc, kslot, kport>>
      BY <1>1 DEF axiomnet_irqhandler, axiom_hw_ack_irq, axkt_worker, DequeueLoop, DequeuePop,
         DequeueWake, axiomnet_watchdog_worker, axiom_kthread_wakeup, vars, kthread
    <2>3. \A t \in Threads : tpc'[t] = "copy" <=> tpc[t] = "copy"
      BY <1>1 DEF axiomnet_irqhandler, axiom_hw_ack_irq, axkt_worker, DequeueLoop, DequeuePop,
         DequeueWake, axiomnet_watchdog_worker, vars, users
    <2>4. \A s : In(s)' <=> In(s)
      BY <2>1, <2>2, <2>3 DEF In, Queued
    <2> QED BY <2>1, <2>2, <2>4, MessagesQuiet
  <1>2. ASSUME NEW t \in Threads,
               \/ Call(t) \/ Lock(t) \/ RecvTest(t) \/ RecvWait(t) \/ Signal(t) \/ RecvFree(t)
               \/ Notify(t)
        PROVE  Messages'
    <2>1. UNCHANGED <<hwq, arrived, fifo, desc, fate>>
      BY <1>2 DEF Call, Lock, RecvTest, RecvWait, Signal, RecvFree, Notify, nic, queue
    <2>2. kpc' = "put" \/ kpc = "put" => UNCHANGED <<kpc, kslot, kport>>
      BY <1>2 DEF Call, Lock, RecvTest, RecvWait, Signal, RecvFree, Notify,
         axiom_kthread_wakeup, kthread
    <2>3. tpc[t] # "copy" /\ tpc'[t] # "copy" /\ \A u \in Threads \ {t} : tpc'[u] = tpc[u]
      <3>1. tpc \in [Threads -> {"idle", "lock", "test", "event", "sleep", "dequeue",
                                 "copy", "free", "notify", "flush"}]
        BY DEF IInv, TypeOK, UserType
      <3>2. tpc[t] # "copy"
        BY <1>2 DEF Call, Lock, RecvTest, RecvWait, Signal, RecvFree, Notify
      <3>3. \E pc \in {"idle", "lock", "flush", "test", "event", "sleep", "dequeue", "notify"} :
              tpc' = [tpc EXCEPT ![t] = pc]
        BY <1>2 DEF Call, Lock, RecvTest, RecvWait, Signal, RecvFree, Notify, Goto, Return
      <3> QED BY <3>1, <3>2, <3>3
    <2>4. \A u \in Threads \ {t} : tslot'[u] = tslot[u]
      BY <1>2 DEF Call, Lock, RecvTest, RecvWait, Signal, RecvFree, Notify, IInv, TypeOK,
         UserType
    <2>5. \A s : In(s)' <=> In(s)
      BY <2>1, <2>2, <2>3, <2>4 DEF In, Queued
    <2> QED BY <2>1, <2>2, <2>5, MessagesQuiet
  <1> QED BY <1>1, <1>2, MessagesArrive, MessagesRead, MessagesPut, MessagesRecv,
             MessagesCopy, MessagesFlush
          DEF Next, axiom_raw_rx_dequeue, axiomnet_raw_recv

LEMMA MessagesInductive == Spec => [](IInv /\ Owners /\ Messages)
  BY OwnersInductive, InitMessages, MessagesStep, PTL DEF Spec

\* The invariants say what MessagesKept says.
LEMMA Kept == IInv /\ Owners /\ Messages => MessagesKept
  <1> SUFFICES ASSUME IInv, Owners, Messages PROVE MessagesKept
    OBVIOUS
  <1> USE DEF IInv, TypeOK
  <1>1. HeldIs
    BY HeldFacts
  <1>2. \A p \in Ports : \A s : s \in Range(fifo[p]) <=> \E i \in 1 .. Len(fifo[p]) : fifo[p][i] = s
    BY DEF QueueType, Range
  <1>3. OneOwner
    <2>1. \A s \in Slots : s \in free \cup Held \/ \E p \in Ports : s \in Range(fifo[p])
      BY <1>1, <1>2 DEF Owners, HeldIs, Queued
    <2>2. free \cap Held = {}
      BY <1>1 DEF Owners, HeldIs
    <2>3. ASSUME NEW p \in Ports, NEW i \in 1 .. Len(fifo[p])
          PROVE  fifo[p][i] \notin free \cup Held
      <3>1. Queued(fifo[p][i]) /\ fifo[p][i] \in Slots
        BY QueueTypes DEF Queued
      <3> QED BY <1>1, <3>1 DEF Owners, HeldIs
    <2>4. /\ \A p, r \in Ports : \A i \in 1 .. Len(fifo[p]), j \in 1 .. Len(fifo[r]) :
               fifo[p][i] = fifo[r][j] => p = r /\ i = j
          /\ \A t, u \in Threads :
               tslot[t] # None => tslot[t] # kslot /\ (tslot[t] = tslot[u] => t = u)
      BY DEF Owners
    <2> QED BY <2>1, <2>2, <2>3, <2>4 DEF OneOwner
  <1>4. ASSUME NEW s PROVE s \in InSlots <=> In(s)
    <2>1. s \in (UNION {Range(fifo[p]) : p \in Ports}) <=> Queued(s)
      <3>1. s \in (UNION {Range(fifo[p]) : p \in Ports}) <=> \E p \in Ports : s \in Range(fifo[p])
        OBVIOUS
      <3> QED BY <1>2, <3>1 DEF Queued
    <2>2. s \in {r \in {kslot} : kpc = "put"} <=> kpc = "put" /\ s = kslot
      OBVIOUS
    <2>3. s \in {tslot[t] : t \in {u \in Threads : tpc[u] = "copy"}}
            <=> \E t \in Threads : tpc[t] = "copy" /\ tslot[t] = s
      OBVIOUS
    <2> QED BY <2>1, <2>2, <2>3 DEF InSlots, In
  <1>5. \A m : m \in Range(hwq) <=> \E i \in 1 .. Len(hwq) : hwq[i] = m
    BY DEF NicType, Range
  <1>6. NoMessageLost
    <2>1. ASSUME NEW i \in 1 .. arrived
          PROVE  fate[i] = "none" <=> \/ \E m \in Range(hwq) : m.id = i
                                      \/ \E s \in InSlots : desc[s].id = i
      <3>1. i \in Ids /\ i <= arrived
        BY DEF NicType, Ids
      <3>2. ASSUME fate[i] = "none" PROVE \/ \E j \in 1 .. Len(hwq) : hwq[j].id = i
                                          \/ \E s \in Slots : In(s) /\ desc[s].id = i
        BY <3>1, <3>2 DEF Messages, Somewhere
      <3>3. ASSUME NEW j \in 1 .. Len(hwq), hwq[j].id = i PROVE fate[i] = "none"
        BY <3>3 DEF Messages, InFifo
      <3>4. ASSUME NEW s, In(s), desc[s].id = i PROVE fate[i] = "none"
        BY <3>4, MessageTypes DEF Messages, Undecided
      <3> QED BY <1>4, <1>5, <3>2, <3>3, <3>4
    <2> QED BY <2>1 DEF NoMessageLost
  <1>7. ArrivalOrder
    <2>1. ASSUME NEW p \in Ports, NEW i \in 1 .. Len(fifo[p])
          PROVE  /\ desc[fifo[p][i]].port = p
                 /\ \A j \in (i + 1) .. Len(fifo[p]) : desc[fifo[p][i]].id < desc[fifo[p][j]].id
                 /\ kpc = "put" => desc[fifo[p][i]].id < desc[kslot].id
                 /\ \A m \in Range(hwq) : desc[fifo[p][i]].id < m.id
      <3>1. In(fifo[p][i]) /\ Queued(fifo[p][i]) /\ fifo[p][i] \in Slots
        BY QueueTypes DEF In, Queued
      <3>2. fifo[p][i] # kslot
        BY <3>1 DEF Owners
      <3>3. \A j \in (i + 1) .. Len(fifo[p]) : j \in 1 .. Len(fifo[p]) /\ i < j
        BY QueueTypes
      <3>4. \A m \in Range(hwq) : desc[fifo[p][i]].id < m.id
        BY <1>5, <3>1 DEF Messages, Undecided
      <3>5. kpc = "put" => desc[fifo[p][i]].id < desc[kslot].id
        BY <3>1, <3>2 DEF Messages, Latest
      <3> QED BY <3>3, <3>4, <3>5 DEF Messages, InOrder
    <2> QED BY <2>1 DEF ArrivalOrder, Messages, InFifo
  <1> QED BY <1>3, <1>6, <1>7 DEF MessagesKept

\* From the NIC's FIFO to the reader no message is lost, none is decided on twice and
\* none overtakes another one of its port, and no slot leaks or is shared, whatever
\* the interleaving of kthread, readers and flushes and whatever the number of ports,
\* slots and threads.
THEOREM NothingLost == Spec => []MessagesKept
  BY MessagesInductive, Kept, PTL
=============================================================================
