---------------------------- MODULE LongTxProofs ----------------------------
(***************************************************************************)
(* Proofs about LongTx for any number of slots, threads and requests.      *)
(***************************************************************************)
EXTENDS LongTx, TLAPS

\* A thread owns the mutex exactly between mutex_lock and mutex_unlock.
MutexHeld == \A t \in Threads : tpc[t] \in {"test", "pop"} <=> mutex = t

\* The slot that a sender saw free is still there when it takes it.
TestsStillHold == \A t \in Threads : tpc[t] = "pop" => free # {}

\* Until it is sent, a message stays in the buffer that it was copied to.
Prepared == \A t \in Threads : tpc[t] = "rdma" => payload[tslot[t]] = treq[t]

Control == MutexHeld /\ TestsStillHold /\ ImpossibleNeverHappens /\ NoLostWakeup
Payloads == PayloadStable /\ Prepared

IInv == TypeOK /\ OneOwner /\ Payloads /\ Control
-----------------------------------------------------------------------------
USE LongTxAssumption

\* The initial state satisfies the invariant.
LEMMA InitInv == Init => IInv
  BY DEF Init, RS!Init, IInv, TypeOK, QueueType, UserType, ServiceType, Owning, 
     OneOwner, Sent, Payloads, PayloadStable, Prepared, Control, MutexHeld,
     TestsStillHold, ImpossibleNeverHappens, NoLostWakeup

\* A step preserves TypeOK.
LEMMA TypesStep == IInv /\ [Next]_vars => TypeOK'
  <1> SUFFICES ASSUME IInv, [Next]_vars PROVE TypeOK'
    OBVIOUS
  <1> USE DEF IInv, TypeOK, Control, Payloads
  <1>1. CASE Answer
    <2>1. QueueType'
      BY <1>1 DEF Answer, QueueType
    <2>2. UserType'
      BY <1>1 DEF Answer, users, UserType
    <2>3. ServiceType'
      BY <1>1 DEF Answer, RS!Answer, ServiceType
    <2> QED BY <2>1, <2>2, <2>3 DEF TypeOK
  <1>2. CASE CallbackPush
    <2>1. QueueType'
      BY <1>2 DEF CallbackPush, QueueType, ServiceType
    <2>2. UserType'
      BY <1>2 DEF CallbackPush, users, UserType
    <2>3. ServiceType'
      BY <1>2 DEF CallbackPush, ServiceType
    <2> QED BY <2>1, <2>2, <2>3 DEF TypeOK
  <1>3. CASE CallbackWake
    <2>1. QueueType'
      BY <1>3 DEF CallbackWake, PortWoken, QueueType
    <2>2. UserType'
      BY <1>3 DEF CallbackWake, PortWoken, UserType, Owning
    <2>3. ServiceType'
      BY <1>3 DEF CallbackWake, PortWoken, ServiceType
    <2> QED BY <2>1, <2>2, <2>3 DEF TypeOK
  <1>4. CASE Served
    <2>1. QueueType'
      BY <1>4 DEF Served, vars, QueueType
    <2>2. UserType'
      BY <1>4 DEF Served, vars, users, UserType
    <2>3. ServiceType'
      BY <1>4 DEF Served, vars, kthread, ServiceType
    <2> QED BY <2>1, <2>2, <2>3 DEF TypeOK
  <1>5. ASSUME NEW t \in Threads, Call(t) PROVE TypeOK'
    <2>1. QueueType'
      BY <1>5 DEF Call, QueueType
    <2>2. UserType'
      BY <1>5 DEF Call, Goto, UserType, Reqs, Owning, ServiceType
    <2>3. ServiceType'
      BY <1>5 DEF Call, kthread, ServiceType
    <2> QED BY <2>1, <2>2, <2>3 DEF TypeOK
  <1>6. ASSUME NEW t \in Threads, Lock(t) PROVE TypeOK'
    <2>1. QueueType'
      BY <1>6 DEF Lock, QueueType
    <2>2. UserType'
      BY <1>6 DEF Lock, Goto, UserType, Owning
    <2>3. ServiceType'
      BY <1>6 DEF Lock, kthread, ServiceType
    <2> QED BY <2>1, <2>2, <2>3 DEF TypeOK
  <1>7. ASSUME NEW t \in Threads, SendTest(t) PROVE TypeOK'
    <2>1. QueueType'
      BY <1>7 DEF SendTest, QueueType
    <2>2. UserType'
      BY <1>7 DEF SendTest, Goto, UserType, Owning, Return
    <2>3. ServiceType'
      BY <1>7 DEF SendTest, kthread, ServiceType
    <2> QED BY <2>1, <2>2, <2>3 DEF TypeOK
  <1>8. ASSUME NEW t \in Threads, SendWait(t) PROVE TypeOK'
    <2>1. QueueType'
      BY <1>8 DEF SendWait, QueueType
    <2>2. UserType'
      BY <1>8 DEF SendWait, Goto, UserType, Owning
    <2>3. ServiceType'
      BY <1>8 DEF SendWait, kthread, ServiceType
    <2> QED BY <2>1, <2>2, <2>3 DEF TypeOK
  <1>9. ASSUME NEW t \in Threads, SendPop(t) PROVE TypeOK'
    <2>1. QueueType'
      BY <1>9 DEF SendPop, eviq_free_pop, QueueType
    <2>2. UserType'
      BY <1>9 DEF SendPop, Goto, eviq_free_pop, UserType, Owning, QueueType, Return
    <2>3. ServiceType'
      BY <1>9 DEF SendPop, kthread, ServiceType
    <2> QED BY <2>1, <2>2, <2>3 DEF TypeOK
  <1>10. ASSUME NEW t \in Threads, SendCopy(t) PROVE TypeOK'
    <2>1. QueueType'
      BY <1>10 DEF SendCopy, QueueType, UserType
    <2>2. UserType'
      BY <1>10 DEF SendCopy, Goto, UserType, Owning
    <2>3. ServiceType'
      BY <1>10 DEF SendCopy, kthread, ServiceType
    <2> QED BY <2>1, <2>2, <2>3 DEF TypeOK
  <1>11. ASSUME NEW t \in Threads, SendRdma(t) PROVE TypeOK'
    <2>1. QueueType'
      BY <1>11 DEF SendRdma, QueueType
    <2>2. UserType'
      BY <1>11 DEF SendRdma, Goto, UserType, Owning, Return
    <2>3. ServiceType'
      <3>1. treq[t] \in Reqs /\ tslot[t] \in Slots
        BY <1>11 DEF SendRdma, UserType
      <3>2. CASE RS!Submit(treq[t]) /\ callback' = [callback EXCEPT ![treq[t]] = tslot[t]]
        BY <1>11, <3>1, <3>2 DEF SendRdma, RS!Submit, kthread, ServiceType
      <3>3. CASE RS!Refuse(treq[t]) /\ UNCHANGED callback
        BY <1>11, <3>1, <3>3 DEF SendRdma, RS!Refuse, kthread, ServiceType
      <3> QED BY <1>11, <3>2, <3>3 DEF SendRdma
    <2> QED BY <2>1, <2>2, <2>3 DEF TypeOK
  <1>12. ASSUME NEW t \in Threads, SendErr(t) PROVE TypeOK'
    <2>1. QueueType'
      BY <1>12 DEF SendErr, QueueType, UserType
    <2>2. UserType'
      BY <1>12 DEF SendErr, Goto, UserType, Owning, Return
    <2>3. ServiceType'
      BY <1>12 DEF SendErr, kthread, ServiceType
    <2> QED BY <2>1, <2>2, <2>3 DEF TypeOK
  <1>13. ASSUME NEW t \in Threads, SendNotify(t) PROVE TypeOK'
    <2>1. QueueType'
      BY <1>13 DEF SendNotify, PortWoken, QueueType
    <2>2. UserType'
      BY <1>13 DEF SendNotify, PortWoken, UserType, Owning
    <2>3. ServiceType'
      BY <1>13 DEF SendNotify, PortWoken, kthread, ServiceType
    <2> QED BY <2>1, <2>2, <2>3 DEF TypeOK
  <1>14. ASSUME NEW t \in Threads, Signal(t) PROVE TypeOK'
    <2>1. QueueType'
      BY <1>14 DEF Signal, QueueType
    <2>2. UserType'
      BY <1>14 DEF Signal, Goto, UserType, Owning, Return
    <2>3. ServiceType'
      BY <1>14 DEF Signal, kthread, ServiceType
    <2> QED BY <2>1, <2>2, <2>3 DEF TypeOK
  <1>15. CASE UNCHANGED vars
    BY <1>15 DEF vars, users, kthread, QueueType, UserType, ServiceType
  <1> QED BY <1>1, <1>2, <1>3, <1>4, <1>5, <1>6, <1>7, <1>8, <1>9, <1>10, <1>11, <1>12,
             <1>13, <1>14, <1>15 DEF Next, axiomnet_long_send, axiomnet_long_callback

\* A step preserves OneOwner.
LEMMA OneOwnerStep == IInv /\ [Next]_vars => OneOwner'
  <1> SUFFICES ASSUME IInv, [Next]_vars PROVE OneOwner'
    OBVIOUS
  <1> USE DEF IInv, TypeOK, Control, Payloads
  <1>1. CASE Answer
    <2>1. OneOwner'
      BY <1>1 DEF Answer, RS!Answer, users, OneOwner, Sent, ServiceType
    <2> QED BY <2>1 DEF OneOwner
  <1>2. CASE CallbackPush
    <2>1. OneOwner'
      BY <1>2 DEF CallbackPush, users, OneOwner, Sent, QueueType, ServiceType
    <2> QED BY <2>1 DEF OneOwner
  <1>3. CASE CallbackWake
    <2>1. OneOwner'
      BY <1>3 DEF CallbackWake, PortWoken, OneOwner, Sent
    <2> QED BY <2>1 DEF OneOwner
  <1>4. CASE Served
    <2>1. OneOwner'
      BY <1>4 DEF Served, vars, users, kthread, OneOwner, Sent
    <2> QED BY <2>1 DEF OneOwner
  <1>5. ASSUME NEW t \in Threads, Call(t) PROVE OneOwner'
    <2>1. OneOwner'
      BY <1>5 DEF Call, kthread, OneOwner, Sent
    <2> QED BY <2>1 DEF OneOwner
  <1>6. ASSUME NEW t \in Threads, Lock(t) PROVE OneOwner'
    <2>1. OneOwner'
      BY <1>6 DEF Lock, kthread, OneOwner, Sent
    <2> QED BY <2>1 DEF OneOwner
  <1>7. ASSUME NEW t \in Threads, SendTest(t) PROVE OneOwner'
    <2>1. OneOwner'
      BY <1>7 DEF SendTest, kthread, OneOwner, Sent, UserType, Owning, Return
    <2> QED BY <2>1 DEF OneOwner
  <1>8. ASSUME NEW t \in Threads, SendWait(t) PROVE OneOwner'
    <2>1. OneOwner'
      BY <1>8 DEF SendWait, kthread, OneOwner, Sent
    <2> QED BY <2>1 DEF OneOwner
  <1>9. ASSUME NEW t \in Threads, SendPop(t) PROVE OneOwner'
    <2>1. OneOwner'
      BY <1>9 DEF SendPop, eviq_free_pop, kthread, OneOwner, Sent, UserType, Owning,
         Return
    <2> QED BY <2>1 DEF OneOwner
  <1>10. ASSUME NEW t \in Threads, SendCopy(t) PROVE OneOwner'
    <2>1. OneOwner'
      BY <1>10 DEF SendCopy, kthread, OneOwner, Sent
    <2> QED BY <2>1 DEF OneOwner
  <1>11. ASSUME NEW t \in Threads, SendRdma(t) PROVE OneOwner'
    <2>1. OneOwner'
      BY <1>11 DEF SendRdma, RS!Submit, RS!Refuse, kthread, OneOwner, Sent, UserType,
         ServiceType, Return
    <2> QED BY <2>1 DEF OneOwner
  <1>12. ASSUME NEW t \in Threads, SendErr(t) PROVE OneOwner'
    <2>1. OneOwner'
      BY <1>12 DEF SendErr, kthread, OneOwner, Sent, UserType, ServiceType, Return
    <2> QED BY <2>1 DEF OneOwner
  <1>13. ASSUME NEW t \in Threads, SendNotify(t) PROVE OneOwner'
    <2>1. OneOwner'
      BY <1>13 DEF SendNotify, PortWoken, kthread, OneOwner, Sent
    <2> QED BY <2>1 DEF OneOwner
  <1>14. ASSUME NEW t \in Threads, Signal(t) PROVE OneOwner'
    <2>1. OneOwner'
      BY <1>14 DEF Signal, kthread, OneOwner, Sent, UserType, Owning, Return
    <2> QED BY <2>1 DEF OneOwner
  <1>15. CASE UNCHANGED vars
    BY <1>15 DEF vars, users, kthread, OneOwner, Sent
  <1> QED BY <1>1, <1>2, <1>3, <1>4, <1>5, <1>6, <1>7, <1>8, <1>9, <1>10, <1>11, <1>12,
             <1>13, <1>14, <1>15 DEF Next, axiomnet_long_send, axiomnet_long_callback

\* A step preserves Payloads.
LEMMA PayloadStableStep == IInv /\ [Next]_vars => Payloads'
  <1> SUFFICES ASSUME IInv, [Next]_vars PROVE Payloads'
    OBVIOUS
  <1> USE DEF IInv, TypeOK, Control, Payloads
  <1>1. CASE Answer
    <2>1. PayloadStable'
      BY <1>1 DEF Answer, RS!Answer, PayloadStable, Sent
    <2>2. Prepared'
      BY <1>1 DEF Answer, users, Prepared
    <2> QED BY <2>1, <2>2 DEF Payloads
  <1>2. CASE CallbackPush
    <2>1. PayloadStable'
      BY <1>2 DEF CallbackPush, PayloadStable, Sent
    <2>2. Prepared'
      BY <1>2 DEF CallbackPush, users, Prepared
    <2> QED BY <2>1, <2>2 DEF Payloads
  <1>3. CASE CallbackWake
    <2>1. PayloadStable'
      BY <1>3 DEF CallbackWake, PortWoken, PayloadStable, Sent
    <2>2. Prepared'
      BY <1>3 DEF CallbackWake, PortWoken, Prepared
    <2> QED BY <2>1, <2>2 DEF Payloads
  <1>4. CASE Served
    <2>1. PayloadStable'
      BY <1>4 DEF Served, vars, PayloadStable, Sent
    <2>2. Prepared'
      BY <1>4 DEF Served, vars, users, Prepared
    <2> QED BY <2>1, <2>2 DEF Payloads
  <1>5. ASSUME NEW t \in Threads, Call(t) PROVE Payloads'
    <2>1. PayloadStable'
      BY <1>5 DEF Call, PayloadStable, Sent
    <2>2. Prepared'
      BY <1>5 DEF Call, Goto, Prepared
    <2> QED BY <2>1, <2>2 DEF Payloads
  <1>6. ASSUME NEW t \in Threads, Lock(t) PROVE Payloads'
    <2>1. PayloadStable'
      BY <1>6 DEF Lock, PayloadStable, Sent
    <2>2. Prepared'
      BY <1>6 DEF Lock, Goto, Prepared
    <2> QED BY <2>1, <2>2 DEF Payloads
  <1>7. ASSUME NEW t \in Threads, SendTest(t) PROVE Payloads'
    <2>1. PayloadStable'
      BY <1>7 DEF SendTest, PayloadStable, Sent
    <2>2. Prepared'
      BY <1>7 DEF SendTest, Goto, Prepared, UserType, Return
    <2> QED BY <2>1, <2>2 DEF Payloads
  <1>8. ASSUME NEW t \in Threads, SendWait(t) PROVE Payloads'
    <2>1. PayloadStable'
      BY <1>8 DEF SendWait, PayloadStable, Sent
    <2>2. Prepared'
      BY <1>8 DEF SendWait, Goto, Prepared
    <2> QED BY <2>1, <2>2 DEF Payloads
  <1>9. ASSUME NEW t \in Threads, SendPop(t) PROVE Payloads'
    <2>1. PayloadStable'
      BY <1>9 DEF SendPop, PayloadStable, Sent
    <2>2. Prepared'
      BY <1>9 DEF SendPop, Goto, eviq_free_pop, Prepared, UserType, Return
    <2> QED BY <2>1, <2>2 DEF Payloads
  <1>10. ASSUME NEW t \in Threads, SendCopy(t) PROVE Payloads'
    <2>1. PayloadStable'
      BY <1>10 DEF SendCopy, PayloadStable, OneOwner, Sent
    <2>2. Prepared'
      BY <1>10 DEF SendCopy, Goto, Prepared, OneOwner, QueueType, UserType
    <2> QED BY <2>1, <2>2 DEF Payloads
  <1>11. ASSUME NEW t \in Threads, SendRdma(t) PROVE Payloads'
    <2>1. PayloadStable'
      BY <1>11 DEF SendRdma, RS!Submit, RS!Refuse, PayloadStable, Prepared, Sent,
         ServiceType
    <2>2. Prepared'
      BY <1>11 DEF SendRdma, Goto, Prepared, UserType, Return
    <2> QED BY <2>1, <2>2 DEF Payloads
  <1>12. ASSUME NEW t \in Threads, SendErr(t) PROVE Payloads'
    <2>1. PayloadStable'
      BY <1>12 DEF SendErr, PayloadStable, Sent
    <2>2. Prepared'
      BY <1>12 DEF SendErr, Goto, Prepared, UserType, Return
    <2> QED BY <2>1, <2>2 DEF Payloads
  <1>13. ASSUME NEW t \in Threads, SendNotify(t) PROVE Payloads'
    <2>1. PayloadStable'
      BY <1>13 DEF SendNotify, PortWoken, PayloadStable, Sent
    <2>2. Prepared'
      BY <1>13 DEF SendNotify, PortWoken, Prepared
    <2> QED BY <2>1, <2>2 DEF Payloads
  <1>14. ASSUME NEW t \in Threads, Signal(t) PROVE Payloads'
    <2>1. PayloadStable'
      BY <1>14 DEF Signal, PayloadStable, Sent
    <2>2. Prepared'
      BY <1>14 DEF Signal, Goto, Prepared, UserType, Return
    <2> QED BY <2>1, <2>2 DEF Payloads
  <1>15. CASE UNCHANGED vars
    BY <1>15 DEF vars, users, PayloadStable, Prepared, Sent
  <1> QED BY <1>1, <1>2, <1>3, <1>4, <1>5, <1>6, <1>7, <1>8, <1>9, <1>10, <1>11, <1>12,
             <1>13, <1>14, <1>15 DEF Next, axiomnet_long_send, axiomnet_long_callback

\* A step preserves Control.
LEMMA ControlStep == IInv /\ [Next]_vars => Control'
  <1> SUFFICES ASSUME IInv, [Next]_vars PROVE Control'
    OBVIOUS
  <1> USE DEF IInv, TypeOK, Control, Payloads
  <1>1. CASE Answer
    <2>1. MutexHeld'
      BY <1>1 DEF Answer, users, MutexHeld
    <2>2. TestsStillHold'
      BY <1>1 DEF Answer, users, TestsStillHold
    <2>3. ImpossibleNeverHappens'
      BY <1>1 DEF Answer, ImpossibleNeverHappens
    <2>4. NoLostWakeup'
      BY <1>1 DEF Answer, users, NoLostWakeup
    <2> QED BY <2>1, <2>2, <2>3, <2>4 DEF Control
  <1>2. CASE CallbackPush
    <2>1. MutexHeld'
      BY <1>2 DEF CallbackPush, users, MutexHeld
    <2>2. TestsStillHold'
      BY <1>2 DEF CallbackPush, TestsStillHold
    <2>3. ImpossibleNeverHappens'
      BY <1>2 DEF CallbackPush, ImpossibleNeverHappens
    <2>4. NoLostWakeup'
      BY <1>2 DEF CallbackPush, NoLostWakeup
    <2> QED BY <2>1, <2>2, <2>3, <2>4 DEF Control
  <1>3. CASE CallbackWake
    <2>1. MutexHeld'
      BY <1>3 DEF CallbackWake, PortWoken, MutexHeld
    <2>2. TestsStillHold'
      BY <1>3 DEF CallbackWake, PortWoken, TestsStillHold
    <2>3. ImpossibleNeverHappens'
      BY <1>3 DEF CallbackWake, PortWoken, ImpossibleNeverHappens
    <2>4. NoLostWakeup'
      BY <1>3 DEF CallbackWake, PortWoken, NoLostWakeup
    <2> QED BY <2>1, <2>2, <2>3, <2>4 DEF Control
  <1>4. CASE Served
    <2>1. MutexHeld'
      BY <1>4 DEF Served, vars, users, MutexHeld
    <2>2. TestsStillHold'
      BY <1>4 DEF Served, vars, users, TestsStillHold
    <2>3. ImpossibleNeverHappens'
      BY <1>4 DEF Served, vars, ImpossibleNeverHappens
    <2>4. NoLostWakeup'
      BY <1>4 DEF Served, vars, users, NoLostWakeup
    <2> QED BY <2>1, <2>2, <2>3, <2>4 DEF Control
  <1>5. ASSUME NEW t \in Threads, Call(t) PROVE Control'
    <2>1. MutexHeld'
      BY <1>5 DEF Call, Goto, MutexHeld
    <2>2. TestsStillHold'
      BY <1>5 DEF Call, Goto, TestsStillHold
    <2>3. ImpossibleNeverHappens'
      BY <1>5 DEF Call, ImpossibleNeverHappens
    <2>4. NoLostWakeup'
      BY <1>5 DEF Call, Goto, kthread, NoLostWakeup
    <2> QED BY <2>1, <2>2, <2>3, <2>4 DEF Control
  <1>6. ASSUME NEW t \in Threads, Lock(t) PROVE Control'
    <2>1. MutexHeld'
      BY <1>6 DEF Lock, Goto, MutexHeld, UserType
    <2>2. TestsStillHold'
      BY <1>6 DEF Lock, Goto, TestsStillHold
    <2>3. ImpossibleNeverHappens'
      BY <1>6 DEF Lock, ImpossibleNeverHappens
    <2>4. NoLostWakeup'
      BY <1>6 DEF Lock, Goto, kthread, NoLostWakeup
    <2> QED BY <2>1, <2>2, <2>3, <2>4 DEF Control
  <1>7. ASSUME NEW t \in Threads, SendTest(t) PROVE Control'
    <2>1. MutexHeld'
      BY <1>7 DEF SendTest, Goto, MutexHeld, UserType, Return
    <2>2. TestsStillHold'
      BY <1>7 DEF SendTest, Goto, TestsStillHold, UserType, axiomnet_long_tx_avail,
         Return
    <2>3. ImpossibleNeverHappens'
      BY <1>7 DEF SendTest, ImpossibleNeverHappens
    <2>4. NoLostWakeup'
      BY <1>7 DEF SendTest, Goto, kthread, NoLostWakeup, UserType,
         axiomnet_long_tx_avail
    <2> QED BY <2>1, <2>2, <2>3, <2>4 DEF Control
  <1>8. ASSUME NEW t \in Threads, SendWait(t) PROVE Control'
    <2>1. MutexHeld'
      BY <1>8 DEF SendWait, Goto, MutexHeld
    <2>2. TestsStillHold'
      BY <1>8 DEF SendWait, Goto, TestsStillHold
    <2>3. ImpossibleNeverHappens'
      BY <1>8 DEF SendWait, ImpossibleNeverHappens
    <2>4. NoLostWakeup'
      BY <1>8 DEF SendWait, Goto, kthread, NoLostWakeup, axiomnet_long_tx_avail
    <2> QED BY <2>1, <2>2, <2>3, <2>4 DEF Control
  <1>9. ASSUME NEW t \in Threads, SendPop(t) PROVE Control'
    <2>1. MutexHeld'
      BY <1>9 DEF SendPop, Goto, MutexHeld, UserType, Return
    <2>2. TestsStillHold'
      BY <1>9 DEF SendPop, Goto, TestsStillHold, UserType, MutexHeld
    <2>3. ImpossibleNeverHappens'
      BY <1>9 DEF SendPop, ImpossibleNeverHappens, TestsStillHold
    <2>4. NoLostWakeup'
      BY <1>9 DEF SendPop, Goto, kthread, NoLostWakeup, UserType
    <2> QED BY <2>1, <2>2, <2>3, <2>4 DEF Control
  <1>10. ASSUME NEW t \in Threads, SendCopy(t) PROVE Control'
    <2>1. MutexHeld'
      BY <1>10 DEF SendCopy, Goto, MutexHeld
    <2>2. TestsStillHold'
      BY <1>10 DEF SendCopy, Goto, TestsStillHold
    <2>3. ImpossibleNeverHappens'
      BY <1>10 DEF SendCopy, ImpossibleNeverHappens
    <2>4. NoLostWakeup'
      BY <1>10 DEF SendCopy, Goto, kthread, NoLostWakeup
    <2> QED BY <2>1, <2>2, <2>3, <2>4 DEF Control
  <1>11. ASSUME NEW t \in Threads, SendRdma(t) PROVE Control'
    <2>1. MutexHeld'
      BY <1>11 DEF SendRdma, Goto, MutexHeld, UserType, Return
    <2>2. TestsStillHold'
      BY <1>11 DEF SendRdma, Goto, TestsStillHold, UserType, Return
    <2>3. ImpossibleNeverHappens'
      BY <1>11 DEF SendRdma, ImpossibleNeverHappens
    <2>4. NoLostWakeup'
      BY <1>11 DEF SendRdma, Goto, kthread, NoLostWakeup, UserType, Return
    <2> QED BY <2>1, <2>2, <2>3, <2>4 DEF Control
  <1>12. ASSUME NEW t \in Threads, SendErr(t) PROVE Control'
    <2>1. MutexHeld'
      BY <1>12 DEF SendErr, Goto, MutexHeld, UserType, Return
    <2>2. TestsStillHold'
      BY <1>12 DEF SendErr, TestsStillHold
    <2>3. ImpossibleNeverHappens'
      BY <1>12 DEF SendErr, ImpossibleNeverHappens
    <2>4. NoLostWakeup'
      BY <1>12 DEF SendErr, Goto, kthread, NoLostWakeup, UserType, ErrNotify, Return
    <2> QED BY <2>1, <2>2, <2>3, <2>4 DEF Control
  <1>13. ASSUME NEW t \in Threads, SendNotify(t) PROVE Control'
    <2>1. MutexHeld'
      BY <1>13 DEF SendNotify, PortWoken, MutexHeld
    <2>2. TestsStillHold'
      BY <1>13 DEF SendNotify, PortWoken, TestsStillHold
    <2>3. ImpossibleNeverHappens'
      BY <1>13 DEF SendNotify, PortWoken, ImpossibleNeverHappens
    <2>4. NoLostWakeup'
      BY <1>13 DEF SendNotify, PortWoken, NoLostWakeup
    <2> QED BY <2>1, <2>2, <2>3, <2>4 DEF Control
  <1>14. ASSUME NEW t \in Threads, Signal(t) PROVE Control'
    <2>1. MutexHeld'
      BY <1>14 DEF Signal, Goto, MutexHeld, UserType, Return
    <2>2. TestsStillHold'
      BY <1>14 DEF Signal, Goto, TestsStillHold, UserType, Return
    <2>3. ImpossibleNeverHappens'
      BY <1>14 DEF Signal, ImpossibleNeverHappens
    <2>4. NoLostWakeup'
      BY <1>14 DEF Signal, Goto, kthread, NoLostWakeup, UserType, axiomnet_long_tx_avail
    <2> QED BY <2>1, <2>2, <2>3, <2>4 DEF Control
  <1>15. CASE UNCHANGED vars
    BY <1>15 DEF vars, users, kthread, MutexHeld, TestsStillHold,
       ImpossibleNeverHappens, NoLostWakeup
  <1> QED BY <1>1, <1>2, <1>3, <1>4, <1>5, <1>6, <1>7, <1>8, <1>9, <1>10, <1>11, <1>12,
             <1>13, <1>14, <1>15 DEF Next, axiomnet_long_send, axiomnet_long_callback

\* The invariant is inductive.
LEMMA Inductive == Spec => []IInv
  <1>1. IInv /\ [Next]_vars => IInv'
    BY TypesStep, OneOwnerStep, PayloadStableStep, ControlStep DEF IInv
  <1> QED BY InitInv, <1>1, PTL DEF Spec
-----------------------------------------------------------------------------
\* Every variable keeps its type, and a sender and axiomnet_long_callback hold a slot
\* exactly at the steps between taking it and giving it away, in every instance.
THEOREM TypeCorrect == Spec => []TypeOK
  <1>1. IInv => TypeOK
    BY DEF IInv, Control, Payloads
  <1> QED BY Inductive, <1>1, PTL

\* Every LONG TX slot belongs to the free list, to one sender in axiomnet_long_send, to
\* one request that was sent, or to the callback: none leaks and none is shared, also
\* when axiomnet_rdma_tx fails.
THEOREM SlotsHaveOneOwner == Spec => []OneOwner
  <1>1. IInv => OneOwner
    BY DEF IInv, Control, Payloads
  <1> QED BY Inductive, <1>1, PTL

\* While axiomnet_rdma_tx may still send a message again, its buffer holds its payload.
THEOREM PayloadsStable == Spec => []PayloadStable
  <1>1. IInv => PayloadStable
    BY DEF IInv, Control, Payloads
  <1> QED BY Inductive, <1>1, PTL

\* The branch of axiomnet_long_send marked "impossible" is never taken: the mutex
\* keeps the slot that was seen free until it is taken.
THEOREM ImpossibleBranch == Spec => []ImpossibleNeverHappens
  <1>1. IInv => ImpossibleNeverHappens
    BY DEF IInv, Control, Payloads
  <1> QED BY Inductive, <1>1, PTL

\* A sender sleeps while there is a free slot only if a wake_up is on its way, from
\* the callback or from the error path that notifies only if no slot was free.
THEOREM WakeupsSuffice == Spec => []NoLostWakeup
  <1>1. IInv => NoLostWakeup
    BY DEF IInv, Control, Payloads
  <1> QED BY Inductive, <1>1, PTL
=============================================================================
