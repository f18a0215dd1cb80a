---------------------------- MODULE QueueProofs -----------------------------
(***************************************************************************)
(* Proofs about the queues of the driver and of the NIC.                   *)
(*                                                                         *)
(* EviQueue: the index chains of evi_queue.h are right for any number of   *)
(* queues and elements, and the manager implements SlotQueues.             *)
(*                                                                         *)
(* RawTx, in the second part: the TX FIFO is right for any number of       *)
(* threads, any sizes and any depth.  It uses nothing of the first part.   *)
(***************************************************************************)
EXTENDS EviQueue, RawTx, SequenceTheorems, TLAPS

USE FreeElemsAssumption, QueuesAssumption DEF Slots, EVIQ_NONE

\* eviq_init establishes the invariant TypeOK /\ Coupled.  Neither half is inductive
\* alone: a pop reads next[free], which is an index only if free starts a chain.
LEMMA InitInv == eviq_init => EviqTypeOK /\ Coupled
<1> SUFFICES ASSUME eviq_init PROVE EviqTypeOK /\ Coupled
  OBVIOUS
<1>0. stack \in Seq(Slots) /\ Len(stack) = FreeElems
  <2>1. stack \in [1 .. FreeElems -> Slots]
    BY DEF eviq_init
  <2> QED
    BY <2>1
<1>1. EviqTypeOK
  BY <1>0 DEF eviq_init, EviqTypeOK
<1>2. IsChain(free, stack)
  BY <1>0 DEF eviq_init, IsChain
<1>3. QueueChains
  BY DEF eviq_init, QueueChains, IsChain
<1>4. NoSharing
  BY <1>0 DEF eviq_init, NoSharing, Lists, List
<1>5. NoSlotLost
  <2> SUFFICES ASSUME NEW s \in Slots PROVE s \in Range(List(EVIQ_NONE))
    BY DEF NoSlotLost, Lists
  <2>1. stack[s + 1] = s /\ s + 1 \in DOMAIN stack
    BY DEF eviq_init
  <2> QED
    BY <2>1 DEF List, Range
<1> QED
  BY <1>1, <1>2, <1>3, <1>4, <1>5 DEF Coupled

\* What Tail does to a list: it shifts the positions down by one.
LEMMA TailFacts ==
  ASSUME NEW S, NEW list \in Seq(S), list # <<>>
  PROVE  /\ Tail(list) \in Seq(S)
         /\ Len(list) \in Nat \ {0}
         /\ Len(Tail(list)) = Len(list) - 1
         /\ \A i \in 1 .. Len(Tail(list)) : Tail(list)[i] = list[i + 1]
         /\ Tail(list) = <<>> <=> Len(list) = 1
         /\ list[1] \in S
         /\ Head(list) = list[1]
<1>1. Len(list) \in Nat \ {0}
  BY EmptySeq
<1>2. /\ Tail(list) \in Seq(S)
      /\ Len(Tail(list)) = Len(list) - 1
      /\ \A i \in 1 .. Len(Tail(list)) : Tail(list)[i] = list[i + 1]
  BY HeadTailProperties
<1>3. Tail(list) = <<>> <=> Len(list) = 1
  <2> DEFINE t == Tail(list)
  <2>1. t = <<>> <=> Len(t) = 0
    <3> HIDE DEF t
    <3> QED
      BY <1>2, EmptySeq DEF t
  <2> QED
    BY <1>1, <1>2, <2>1
<1>4. list[1] \in S /\ Head(list) = list[1]
  BY <1>1, ElementOfSeq
<1> QED
  BY <1>1, <1>2, <1>3, <1>4

\* What adding at the front does: the new element comes first, the rest shifts up.
LEMMA ConsFacts ==
  ASSUME NEW S, NEW list \in Seq(S), NEW e \in S
  PROVE  /\ <<e>> \o list \in Seq(S)
         /\ Len(list) \in Nat
         /\ Len(<<e>> \o list) = Len(list) + 1
         /\ (<<e>> \o list)[1] = e
         /\ \A i \in 2 .. (Len(list) + 1) : (<<e>> \o list)[i] = list[i - 1]
         /\ <<e>> \o list # <<>>
         /\ list = <<>> <=> Len(list) = 0
  BY ConcatProperties, EmptySeq

\* What Append does: the old positions keep their elements.
LEMMA AppendFacts ==
  ASSUME NEW S, NEW list \in Seq(S), NEW e \in S
  PROVE  /\ Append(list, e) \in Seq(S)
         /\ Len(list) \in Nat
         /\ Len(Append(list, e)) = Len(list) + 1
         /\ Append(list, e)[Len(list) + 1] = e
         /\ \A i \in 1 .. Len(list) : Append(list, e)[i] = list[i]
         /\ Append(list, e) # <<>>
         /\ list = <<>> <=> Len(list) = 0
  BY AppendProperties, EmptySeq

\* Range of a list as positions.
LEMMA RangeFacts ==
  ASSUME NEW S, NEW list \in Seq(S), NEW s
  PROVE  s \in Range(list) <=> \E i \in 1 .. Len(list) : list[i] = s
  BY LenProperties DEF Range

-----------------------------------------------------------------------------
\* The lists of a well-typed state are sequences of slots.
LEMMA ListTypes ==
  ASSUME EviqTypeOK, NEW k \in Lists
  PROVE  List(k) \in Seq(Slots) /\ Len(List(k)) \in Nat
<1>1. List(k) \in Seq(Slots)
  BY DEF EviqTypeOK, Lists, List
<1> QED
  BY <1>1, LenProperties

\* Following next[] once from the head of a chain leaves the chain of the rest.
LEMMA ChainTail ==
  ASSUME EviqTypeOK, NEW list \in Seq(Slots), list # <<>>, NEW h, IsChain(h, list)
  PROVE  /\ h = list[1] /\ h \in Slots
         /\ IsChain(next[h], Tail(list))
         /\ next[h] = EVIQ_NONE <=> Len(list) = 1
<1> DEFINE rest == Tail(list)
<1>1. /\ rest \in Seq(Slots)
      /\ Len(list) \in Nat \ {0}
      /\ Len(rest) = Len(list) - 1
      /\ \A i \in 1 .. Len(rest) : rest[i] = list[i + 1]
      /\ rest = <<>> <=> Len(list) = 1
      /\ h = list[1] /\ h \in Slots
  BY TailFacts DEF IsChain
<1> HIDE DEF rest
<1>2. next[h] = IF rest = <<>> THEN EVIQ_NONE ELSE rest[1]
  <2>1. next[h] = IF 1 = Len(list) THEN EVIQ_NONE ELSE list[2]
    BY <1>1 DEF IsChain
  <2>2. CASE Len(list) = 1
    BY <1>1, <2>1, <2>2
  <2>3. CASE Len(list) # 1
    BY <1>1, <2>1, <2>3
  <2> QED
    BY <2>2, <2>3
<1>3. ASSUME NEW i \in 1 .. Len(rest)
      PROVE  next[rest[i]] = IF i = Len(rest) THEN EVIQ_NONE ELSE rest[i + 1]
  <2>1. i + 1 \in 1 .. Len(list) /\ rest[i] = list[i + 1]
    BY <1>1
  <2>2. next[list[i + 1]] =
          IF i + 1 = Len(list) THEN EVIQ_NONE ELSE list[i + 1 + 1]
    BY <2>1 DEF IsChain
  <2>3. CASE i = Len(rest)
    BY <1>1, <2>1, <2>2, <2>3
  <2>4. CASE i # Len(rest)
    <3>1. i + 1 \in 1 .. Len(rest) /\ i + 1 # Len(list)
      BY <1>1, <2>4
    <3> QED
      BY <1>1, <2>1, <2>2, <2>4, <3>1
  <2> QED
    BY <2>3, <2>4
<1>4. IsChain(next[h], rest)
  BY <1>2, <1>3 DEF IsChain
<1>5. next[h] = EVIQ_NONE <=> Len(list) = 1
  <2>1. rest # <<>> => rest[1] \in Slots
    BY <1>1, ElementOfSeq
  <2> QED
    BY <1>1, <1>2, <2>1
<1> QED
  BY <1>1, <1>4, <1>5 DEF rest

\* NoSharing for one pair of positions.
LEMMA Apart ==
  ASSUME NoSharing, NEW k \in Lists, NEW l \in Lists,
         NEW i \in 1 .. Len(List(k)), NEW j \in 1 .. Len(List(l)),
         List(k)[i] = List(l)[j]
  PROVE  k = l /\ i = j
  BY DEF NoSharing

\* Taking the first element of one list (pop, dequeue) keeps the lists apart and
\* loses no slot.
LEMMA TakeFirst ==
  ASSUME EviqTypeOK, NoSharing, NoSlotLost, NEW k0 \in Lists,
         List(k0) # <<>>,
         List(k0)' = Tail(List(k0)),
         \A k \in Lists \ {k0} : List(k)' = List(k),
         held' = held \cup {List(k0)[1]}
  PROVE  NoSharing' /\ NoSlotLost'
<1>1. /\ Len(List(k0)) \in Nat \ {0}
      /\ Len(List(k0)') = Len(List(k0)) - 1
      /\ \A j \in 1 .. Len(List(k0)') : List(k0)'[j] = List(k0)[j + 1]
      /\ List(k0)' \in Seq(Slots)
  BY ListTypes, TailFacts
<1> DEFINE at(l, j) == IF l = k0 THEN j + 1 ELSE j
<1>2. ASSUME NEW l \in Lists, NEW j \in 1 .. Len(List(l)')
      PROVE  /\ at(l, j) \in 1 .. Len(List(l))
             /\ List(l)'[j] = List(l)[at(l, j)]
             /\ l = k0 => at(l, j) # 1
             /\ j \in Int
  <2>1. CASE l = k0
    <3>1. j \in 1 .. Len(List(k0)')
      BY <2>1
    <3>2. j + 1 \in 1 .. Len(List(k0)) /\ j + 1 # 1 /\ j \in Int
      BY <1>1, <3>1
    <3>3. List(k0)'[j] = List(k0)[j + 1]
      BY <1>1, <3>1
    <3> QED
      BY <2>1, <3>2, <3>3
  <2>2. CASE l # k0
    <3>1. List(l)' = List(l) /\ Len(List(l)) \in Nat
      BY <2>2, ListTypes
    <3> QED
      BY <2>2, <3>1
  <2> QED
    BY <2>1, <2>2
<1>3. ASSUME NEW k \in Lists, NEW i \in 1 .. Len(List(k)')
      PROVE  /\ List(k)'[i] \notin held'
             /\ \A l \in Lists : \A j \in 1 .. Len(List(l)') :
                  List(k)'[i] = List(l)'[j] => k = l /\ i = j
  <2>1. /\ at(k, i) \in 1 .. Len(List(k))
        /\ List(k)'[i] = List(k)[at(k, i)]
        /\ k = k0 => at(k, i) # 1
    BY <1>2
  <2>2. List(k)'[i] \notin held'
    <3> HIDE DEF at
    <3> QED
      BY <1>1, <2>1 DEF NoSharing
  <2>3. ASSUME NEW l \in Lists, NEW j \in 1 .. Len(List(l)'),
               List(k)'[i] = List(l)'[j]
        PROVE  k = l /\ i = j
    <3>1. at(l, j) \in 1 .. Len(List(l)) /\ List(l)'[j] = List(l)[at(l, j)]
      BY <1>2
    <3>2. k = l /\ at(k, i) = at(l, j)
      <4>1. List(k)[at(k, i)] = List(l)[at(l, j)]
        BY <2>1, <2>3, <3>1
      <4> HIDE DEF at
      <4> QED
        BY <2>1, <3>1, <4>1, Apart
    <3>3. i \in Int /\ j \in Int
      BY <1>2
    <3> QED
      BY <3>2, <3>3
  <2> QED
    BY <2>2, <2>3
<1>4. NoSharing'
  BY <1>3 DEF NoSharing, Lists
<1>5. NoSlotLost'
  <2> SUFFICES ASSUME NEW s \in Slots, s \notin held'
               PROVE  \E k \in Lists : s \in Range(List(k)')
    BY DEF NoSlotLost, Lists
  <2>1. PICK k \in Lists : s \in Range(List(k))
    BY DEF NoSlotLost
  <2>2. CASE k = k0
    <3>1. PICK i \in 1 .. Len(List(k0)) : List(k0)[i] = s
      BY <2>1, <2>2, RangeFacts, ListTypes
    <3>2. i - 1 \in 1 .. Len(List(k0)') /\ List(k0)'[i - 1] = s
      BY <1>1, <3>1
    <3> QED
      BY <1>1, <3>2, RangeFacts
  <2>3. CASE k # k0
    BY <2>1, <2>3
  <2> QED
    BY <2>2, <2>3
<1> QED
  BY <1>4, <1>5

\* Putting a held slot at position p of one list (push, enqueue) keeps the lists
\* apart and loses no slot.
LEMMA Give ==
  ASSUME EviqTypeOK, NoSharing, NoSlotLost, NEW k0 \in Lists, NEW s0 \in held,
         NEW p \in 1 .. (Len(List(k0)) + 1),
         List(k0)' \in Seq(Slots),
         Len(List(k0)') = Len(List(k0)) + 1,
         \A j \in 1 .. (Len(List(k0)) + 1) :
           List(k0)'[j] = IF j = p THEN s0
                          ELSE IF j < p THEN List(k0)[j] ELSE List(k0)[j - 1],
         \A k \in Lists \ {k0} : List(k)' = List(k),
         held' = held \ {s0}
  PROVE  NoSharing' /\ NoSlotLost'
<1>1. \A k \in Lists : Len(List(k)) \in Nat
  BY ListTypes
<1> DEFINE at(l, j) == IF l = k0 /\ j > p THEN j - 1 ELSE j
           new(l, j) == l = k0 /\ j = p
<1>2. ASSUME NEW l \in Lists, NEW j \in 1 .. Len(List(l)')
      PROVE  /\ new(l, j) => List(l)'[j] = s0
             /\ ~new(l, j) => /\ at(l, j) \in 1 .. Len(List(l))
                              /\ List(l)'[j] = List(l)[at(l, j)]
             /\ j \in Int
  <2>1. CASE l = k0
    BY <1>1, <2>1
  <2>2. CASE l # k0
    BY <1>1, <2>2
  <2> QED
    BY <2>1, <2>2
<1>3. ASSUME NEW k \in Lists, NEW i \in 1 .. Len(List(k)')
      PROVE  /\ List(k)'[i] \notin held'
             /\ \A l \in Lists : \A j \in 1 .. Len(List(l)') :
                  List(k)'[i] = List(l)'[j] => k = l /\ i = j
  <2>1. /\ new(k, i) => List(k)'[i] = s0
        /\ ~new(k, i) => /\ at(k, i) \in 1 .. Len(List(k))
                         /\ List(k)'[i] = List(k)[at(k, i)]
    BY <1>2
  <2>2. List(k)'[i] \notin held'
    <3> HIDE DEF at, new
    <3> QED
      BY <2>1 DEF NoSharing
  <2>3. ASSUME NEW l \in Lists, NEW j \in 1 .. Len(List(l)'),
               List(k)'[i] = List(l)'[j]
        PROVE  k = l /\ i = j
    <3>1. /\ new(l, j) => List(l)'[j] = s0
          /\ ~new(l, j) => /\ at(l, j) \in 1 .. Len(List(l))
                           /\ List(l)'[j] = List(l)[at(l, j)]
      BY <1>2
    <3>2. new(k, i) <=> new(l, j)
      <4> HIDE DEF at, new
      <4> QED
        BY <2>1, <2>3, <3>1 DEF NoSharing
    <3>3. CASE new(k, i)
      BY <3>2, <3>3
    <3>4. CASE ~new(k, i)
      <4>1. k = l /\ at(k, i) = at(l, j)
        <5> HIDE DEF at, new
        <5>1. /\ at(k, i) \in 1 .. Len(List(k)) /\ at(l, j) \in 1 .. Len(List(l))
              /\ List(k)[at(k, i)] = List(l)[at(l, j)]
          BY <2>1, <2>3, <3>1, <3>2, <3>4
        <5> QED
          BY <5>1, Apart
      <4>2. i \in Int /\ j \in Int /\ p \in Int
        BY <1>1, <1>2
      <4> QED
        BY <3>2, <3>4, <4>1, <4>2
    <3> QED
      BY <3>3, <3>4
  <2> QED
    BY <2>2, <2>3
<1>4. NoSharing'
  BY <1>3 DEF NoSharing, Lists
<1>5. NoSlotLost'
  <2> SUFFICES ASSUME NEW s \in Slots, s \notin held'
               PROVE  \E k \in Lists : s \in Range(List(k)')
    BY DEF NoSlotLost, Lists
  <2>1. CASE s = s0
    <3>1. p \in 1 .. Len(List(k0)') /\ List(k0)'[p] = s
      BY <1>1, <2>1
    <3> QED
      BY <3>1, RangeFacts
  <2>2. CASE s # s0
    <3>1. PICK k \in Lists : s \in Range(List(k))
      BY <2>2 DEF NoSlotLost
    <3>2. CASE k = k0
      <4>1. PICK i \in 1 .. Len(List(k0)) : List(k0)[i] = s
        BY <3>1, <3>2, RangeFacts, ListTypes
      <4>2. \E j \in 1 .. Len(List(k0)') : List(k0)'[j] = s
        <5>1. CASE i < p
          <6>1. i \in 1 .. (Len(List(k0)) + 1) /\ i # p
            BY <1>1, <5>1
          <6>2. List(k0)'[i] = s
            BY <4>1, <5>1, <6>1
          <6> QED
            BY <6>1, <6>2
        <5>2. CASE i >= p
          <6>1. i + 1 \in 1 .. (Len(List(k0)) + 1) /\ i + 1 # p /\ ~(i + 1 < p) /\ i + 1 - 1 = i
            BY <1>1, <5>2
          <6>2. List(k0)'[i + 1] = List(k0)[i + 1 - 1]
            BY <6>1
          <6> QED
            BY <4>1, <6>1, <6>2
        <5> QED
          BY <1>1, <5>1, <5>2
      <4> QED
        BY <4>2, RangeFacts
    <3>3. CASE k # k0
      BY <3>1, <3>3
    <3> QED
      BY <3>2, <3>3
  <2> QED
    BY <2>1, <2>2
<1> QED
  BY <1>4, <1>5
-----------------------------------------------------------------------------
\* eviq_free_pop preserves the invariant.
LEMMA PopInv ==
  ASSUME EviqTypeOK, Coupled, eviq_free_pop
  PROVE  EviqTypeOK' /\ Coupled'
<1>1. stack # <<>> /\ stack \in Seq(Slots)
  BY DEF Coupled, IsChain, eviq_free_pop, eviq_free_avail, EviqTypeOK
<1>2. free = stack[1] /\ free \in Slots /\ IsChain(next[free], Tail(stack))
  BY <1>1, ChainTail DEF Coupled
<1>3. Tail(stack) \in Seq(Slots)
  BY <1>1, TailFacts
<1>4. EviqTypeOK'
  BY <1>2, <1>3 DEF EviqTypeOK, eviq_free_pop
<1>5. IsChain(free, stack)'
  BY <1>2 DEF IsChain, eviq_free_pop
<1>6. QueueChains'
  BY DEF Coupled, QueueChains, IsChain, eviq_free_pop
<1>7. NoSharing' /\ NoSlotLost'
  <2>1. EVIQ_NONE \in Lists /\ List(EVIQ_NONE) = stack /\ List(EVIQ_NONE)' = Tail(stack)
    BY DEF Lists, List, eviq_free_pop
  <2>2. \A k \in Lists \ {EVIQ_NONE} : List(k)' = List(k)
    BY DEF Lists, List, eviq_free_pop
  <2>3. held' = held \cup {stack[1]}
    BY <1>2 DEF eviq_free_pop
  <2> QED
    BY <1>1, <2>1, <2>2, <2>3, TakeFirst DEF Coupled
<1> QED
  BY <1>4, <1>5, <1>6, <1>7 DEF Coupled

\* eviq_dequeue preserves the invariant.
LEMMA DequeueInv ==
  ASSUME EviqTypeOK, Coupled, NEW q \in Queues, eviq_dequeue(q)
  PROVE  EviqTypeOK' /\ Coupled'
<1> DEFINE list == fifo[q]
<1>1. list # <<>> /\ list \in Seq(Slots)
  BY DEF Coupled, QueueChains, IsChain, eviq_dequeue, eviq_avail, EviqTypeOK
<1>2. /\ head[q] = list[1] /\ head[q] \in Slots
      /\ IsChain(next[head[q]], Tail(list))
      /\ next[head[q]] = EVIQ_NONE <=> Len(list) = 1
  BY <1>1, ChainTail DEF Coupled, QueueChains
<1>3. /\ Tail(list) \in Seq(Slots)
      /\ Len(list) \in Nat \ {0}
      /\ Len(Tail(list)) = Len(list) - 1
      /\ \A i \in 1 .. Len(Tail(list)) : Tail(list)[i] = list[i + 1]
      /\ Tail(list) = <<>> <=> Len(list) = 1
  BY <1>1, TailFacts
<1>4. /\ fifo' = [fifo EXCEPT ![q] = Tail(list)]
      /\ head' = [head EXCEPT ![q] = next[head[q]]]
      /\ next' = next /\ stack' = stack /\ free' = free
  BY DEF eviq_dequeue
<1>5. tail' = [tail EXCEPT ![q] = IF Len(list) = 1 THEN EVIQ_NONE ELSE @]
  BY <1>2 DEF eviq_dequeue, EviqTypeOK
<1>6. EviqTypeOK'
  <2>1. fifo' \in [Queues -> Seq(Slots)]
    BY <1>3, <1>4 DEF EviqTypeOK
  <2>2. /\ head' \in [Queues -> Slots \cup {EVIQ_NONE}]
        /\ tail' \in [Queues -> Slots \cup {EVIQ_NONE}]
    BY <1>2, <1>4, <1>5 DEF EviqTypeOK
  <2>3. held' \in SUBSET Slots
    BY <1>2 DEF EviqTypeOK, eviq_dequeue
  <2> QED
    BY <1>4, <2>1, <2>2, <2>3 DEF EviqTypeOK
<1>7. IsChain(free, stack)'
  BY <1>4 DEF Coupled, IsChain
<1>8. QueueChains'
  <2> SUFFICES ASSUME NEW r \in Queues
               PROVE  /\ IsChain(head[r], fifo[r])'
                      /\ tail'[r] = IF fifo'[r] = <<>> THEN EVIQ_NONE
                                    ELSE fifo'[r][Len(fifo'[r])]
    BY DEF QueueChains
  <2>1. CASE r = q
    <3>1. fifo'[q] = Tail(list) /\ head'[q] = next[head[q]]
      BY <1>4 DEF EviqTypeOK
    <3>2. IsChain(head[q], fifo[q])'
      BY <1>2, <1>4, <3>1 DEF IsChain
    <3>3. tail'[q] = IF Len(list) = 1 THEN EVIQ_NONE ELSE list[Len(list)]
      BY <1>1, <1>5 DEF Coupled, QueueChains, EviqTypeOK
    <3>4. Len(list) # 1 => Tail(list)[Len(Tail(list))] = list[Len(list)]
      BY <1>3
    <3> QED
      BY <1>3, <2>1, <3>1, <3>2, <3>3, <3>4
  <2>2. CASE r # q
    <3>1. fifo'[r] = fifo[r] /\ head'[r] = head[r] /\ tail'[r] = tail[r]
      BY <1>4, <1>5, <2>2 DEF EviqTypeOK
    <3>2. IsChain(head[r], fifo[r]) /\ tail[r] = IF fifo[r] = <<>> THEN EVIQ_NONE
                                                 ELSE fifo[r][Len(fifo[r])]
      BY DEF Coupled, QueueChains
    <3> QED
      BY <1>4, <3>1, <3>2 DEF IsChain
  <2> QED
    BY <2>1, <2>2
<1>9. NoSharing' /\ NoSlotLost'
  <2>1. q \in Lists /\ List(q) = list /\ List(q)' = Tail(list)
    BY <1>4 DEF Lists, List, EviqTypeOK
  <2>2. \A k \in Lists \ {q} : List(k)' = List(k)
    BY <1>4 DEF Lists, List, EviqTypeOK
  <2>3. held' = held \cup {list[1]}
    BY <1>2 DEF eviq_dequeue
  <2> QED
    BY <1>1, <2>1, <2>2, <2>3, TakeFirst DEF Coupled
<1> QED
  BY <1>6, <1>7, <1>8, <1>9 DEF Coupled
\* eviq_free_push preserves the invariant.
LEMMA PushInv ==
  ASSUME EviqTypeOK, Coupled, NEW s \in held, eviq_free_push(s)
  PROVE  EviqTypeOK' /\ Coupled'
<1> DEFINE new == <<s>> \o stack
<1>1. s \in Slots
  BY DEF EviqTypeOK
<1>2. /\ new \in Seq(Slots)
      /\ Len(stack) \in Nat
      /\ Len(new) = Len(stack) + 1
      /\ new[1] = s
      /\ \A i \in 2 .. (Len(stack) + 1) : new[i] = stack[i - 1]
      /\ new # <<>>
      /\ stack = <<>> <=> Len(stack) = 0
  BY <1>1, ConsFacts DEF EviqTypeOK
<1>3. /\ stack' = new /\ free' = s /\ next' = [next EXCEPT ![s] = free]
      /\ fifo' = fifo /\ head' = head /\ tail' = tail /\ held' = held \ {s}
  BY DEF eviq_free_push
<1> HIDE DEF new
<1>4. \A k \in Lists : \A i \in 1 .. Len(List(k)) :
        /\ List(k)[i] # s
        /\ List(k)[i] \in Slots
        /\ next'[List(k)[i]] = next[List(k)[i]]
  <2>1. \A k \in Lists : \A i \in 1 .. Len(List(k)) : List(k)[i] # s /\ List(k)[i] \in Slots
    BY ListTypes, ElementOfSeq DEF Coupled, NoSharing
  <2> QED
    BY <1>3, <2>1 DEF EviqTypeOK
<1>5. List(EVIQ_NONE) = stack /\ EVIQ_NONE \in Lists /\ List(EVIQ_NONE)' = new
  BY <1>3 DEF List, Lists
<1>6. \A k \in Queues : List(k) = fifo[k] /\ List(k)' = fifo[k] /\ k \in Lists
  BY <1>3 DEF List, Lists
<1>7. EviqTypeOK'
  BY <1>1, <1>2, <1>3 DEF EviqTypeOK
<1>8. IsChain(free, stack)'
  <2>1. /\ free = IF stack = <<>> THEN EVIQ_NONE ELSE stack[1]
        /\ \A i \in 1 .. Len(stack) :
             next'[stack[i]] = IF i = Len(stack) THEN EVIQ_NONE ELSE stack[i + 1]
    BY <1>4, <1>5 DEF Coupled, IsChain
  <2>2. ASSUME NEW i \in 1 .. Len(new)
        PROVE  next'[new[i]] = IF i = Len(new) THEN EVIQ_NONE ELSE new[i + 1]
    <3>1. CASE i = 1
      <4>1. next'[s] = free
        BY <1>1, <1>3 DEF EviqTypeOK
      <4>2. CASE stack = <<>>
        BY <1>2, <2>1, <3>1, <4>1, <4>2
      <4>3. CASE stack # <<>>
        <5>1. new[2] = stack[1] /\ Len(new) # 1
          BY <1>2, <4>3
        <5> QED
          BY <1>2, <2>1, <3>1, <4>1, <4>3, <5>1
      <4> QED
        BY <4>2, <4>3
    <3>2. CASE i # 1
      <4>1. i - 1 \in 1 .. Len(stack) /\ i \in 2 .. (Len(stack) + 1)
        BY <1>2, <3>2
      <4>2. next'[stack[i - 1]] = IF i - 1 = Len(stack) THEN EVIQ_NONE ELSE stack[i - 1 + 1]
        BY <2>1, <4>1
      <4>3. new[i] = stack[i - 1] /\ i - 1 + 1 = i
        BY <1>2, <4>1
      <4>4. CASE i = Len(new)
        BY <1>2, <4>1, <4>2, <4>3, <4>4
      <4>5. CASE i # Len(new)
        <5>1. i + 1 \in 2 .. (Len(stack) + 1) /\ i + 1 - 1 = i /\ i - 1 # Len(stack)
          BY <1>2, <4>1, <4>5
        <5>2. new[i + 1] = stack[i]
          BY <1>2, <5>1
        <5> QED
          BY <4>2, <4>3, <4>5, <5>1, <5>2
      <4> QED
        BY <4>4, <4>5
    <3> QED
      BY <3>1, <3>2
  <2> QED
    BY <1>2, <1>3, <2>2 DEF IsChain
<1>9. QueueChains'
  BY <1>3, <1>4, <1>6 DEF Coupled, QueueChains, IsChain
<1>10. NoSharing' /\ NoSlotLost'
  <2>1. \A j \in 1 .. (Len(List(EVIQ_NONE)) + 1) :
          List(EVIQ_NONE)'[j] = IF j = 1 THEN s
            ELSE IF j < 1 THEN List(EVIQ_NONE)[j] ELSE List(EVIQ_NONE)[j - 1]
    BY <1>2, <1>5
  <2>2. 1 \in 1 .. (Len(List(EVIQ_NONE)) + 1)
    BY <1>2, <1>5
  <2>3. List(EVIQ_NONE)' \in Seq(Slots) /\ Len(List(EVIQ_NONE)') = Len(List(EVIQ_NONE)) + 1
    BY <1>2, <1>5
  <2>4. \A k \in Lists \ {EVIQ_NONE} : List(k)' = List(k)
    BY <1>6 DEF Lists
  <2> QED
    BY <1>3, <1>5, <2>1, <2>2, <2>3, <2>4, Give DEF Coupled
<1> QED
  BY <1>7, <1>8, <1>9, <1>10 DEF Coupled

\* eviq_enqueue preserves the invariant.
LEMMA EnqueueInv ==
  ASSUME EviqTypeOK, Coupled, NEW q \in Queues, NEW s \in held, eviq_enqueue(q, s)
  PROVE  EviqTypeOK' /\ Coupled'
<1> DEFINE old == fifo[q]
           new == Append(old, s)
<1>1. s \in Slots /\ old \in Seq(Slots)
  BY DEF EviqTypeOK
<1>2. /\ new \in Seq(Slots)
      /\ Len(old) \in Nat
      /\ Len(new) = Len(old) + 1
      /\ new[Len(old) + 1] = s
      /\ \A i \in 1 .. Len(old) : new[i] = old[i]
      /\ new # <<>>
      /\ old = <<>> <=> Len(old) = 0
  BY <1>1, AppendFacts
<1>3. /\ fifo' = [fifo EXCEPT ![q] = new] /\ held' = held \ {s}
      /\ tail' = [tail EXCEPT ![q] = s] /\ free' = free /\ stack' = stack
  BY DEF eviq_enqueue
<1>4. tail[q] = IF old = <<>> THEN EVIQ_NONE ELSE old[Len(old)]
  BY DEF Coupled, QueueChains
<1>5. old # <<>> => old[Len(old)] \in Slots
  BY <1>1, <1>2, ElementOfSeq
<1> HIDE DEF new
<1>6. \A k \in Lists : \A i \in 1 .. Len(List(k)) : List(k)[i] # s /\ List(k)[i] \in Slots
  BY ListTypes, ElementOfSeq DEF Coupled, NoSharing
<1>7. /\ q \in Lists /\ List(q) = old /\ List(q)' = new
      /\ EVIQ_NONE \in Lists /\ List(EVIQ_NONE) = stack
      /\ \A k \in Queues : k \in Lists /\ List(k) = fifo[k]
      /\ \A k \in Lists \ {q} : List(k)' = List(k)
  BY <1>3 DEF Lists, List, EviqTypeOK
<1>8. /\ next' \in [Slots -> Slots \cup {EVIQ_NONE}]
      /\ next'[s] = EVIQ_NONE
      /\ old # <<>> => next'[old[Len(old)]] = s
      /\ \A t \in Slots : t # s /\ (old # <<>> => t # old[Len(old)]) => next'[t] = next[t]
      /\ head' = IF old = <<>> THEN [head EXCEPT ![q] = s] ELSE head
  <2>1. CASE old = <<>>
    BY <1>1, <1>4, <2>1 DEF eviq_enqueue, EviqTypeOK
  <2>2. CASE old # <<>>
    <3>1. Len(old) \in 1 .. Len(old) /\ old[Len(old)] # s
      BY <1>2, <1>6, <1>7, <2>2
    <3>2. next' = [next EXCEPT ![s] = EVIQ_NONE, ![old[Len(old)]] = s] /\ head' = head
      BY <1>4, <1>5, <2>2 DEF eviq_enqueue
    <3> QED
      BY <1>1, <1>5, <2>2, <3>1, <3>2 DEF EviqTypeOK
  <2> QED
    BY <2>1, <2>2
<1>9. EviqTypeOK'
  <2>1. fifo' \in [Queues -> Seq(Slots)]
    BY <1>2, <1>3 DEF EviqTypeOK
  <2>2. /\ head' \in [Queues -> Slots \cup {EVIQ_NONE}]
        /\ tail' \in [Queues -> Slots \cup {EVIQ_NONE}]
    BY <1>1, <1>3, <1>8 DEF EviqTypeOK
  <2> QED
    BY <1>3, <1>8, <2>1, <2>2 DEF EviqTypeOK
<1>10. ASSUME NEW k \in Lists, k # q, NEW i \in 1 .. Len(List(k))
       PROVE  next'[List(k)[i]] = next[List(k)[i]]
  <2>1. old # <<>> => List(k)[i] # old[Len(old)]
    <3> SUFFICES ASSUME old # <<>> PROVE List(k)[i] # old[Len(old)]
      OBVIOUS
    <3>1. Len(old) \in 1 .. Len(List(q))
      BY <1>2, <1>7
    <3> QED
      BY <1>7, <1>10, <3>1, Apart DEF Coupled
  <2> QED
    BY <1>6, <1>8, <2>1
<1>11. IsChain(free, stack)'
  BY <1>3, <1>7, <1>10 DEF Coupled, IsChain
<1>12. QueueChains'
  <2> SUFFICES ASSUME NEW r \in Queues
               PROVE  /\ IsChain(head[r], fifo[r])'
                      /\ tail'[r] = IF fifo'[r] = <<>> THEN EVIQ_NONE
                                    ELSE fifo'[r][Len(fifo'[r])]
    BY DEF QueueChains
  <2>1. CASE r = q
    <3>1. fifo'[q] = new /\ tail'[q] = s
      BY <1>3 DEF EviqTypeOK
    <3>2. head'[q] = new[1]
      <4>1. CASE old = <<>>
        BY <1>2, <1>8, <4>1 DEF EviqTypeOK
      <4>2. CASE old # <<>>
        <5>1. head[q] = old[1]
          BY <4>2 DEF Coupled, QueueChains, IsChain
        <5>2. new[1] = old[1]
          BY <1>2, <4>2
        <5> QED
          BY <1>8, <4>2, <5>1, <5>2
      <4> QED
        BY <4>1, <4>2
    <3>3. ASSUME NEW i \in 1 .. Len(new)
          PROVE  next'[new[i]] = IF i = Len(new) THEN EVIQ_NONE ELSE new[i + 1]
      <4>1. CASE i = Len(new)
        BY <1>2, <1>8, <4>1
      <4>2. CASE i = Len(old)
        <5>1. old # <<>> /\ new[i] = old[Len(old)] /\ i # Len(new) /\ i + 1 = Len(old) + 1
          BY <1>2, <4>2
        <5> QED
          BY <1>2, <1>8, <5>1
      <4>3. CASE i # Len(new) /\ i # Len(old)
        <5>1. i \in 1 .. Len(old) /\ i + 1 \in 1 .. Len(old) /\ Len(old) \in 1 .. Len(old)
          BY <1>2, <4>3
        <5>2. old[i] # old[Len(old)] /\ old[i] # s /\ old[i] \in Slots
          BY <1>6, <1>7, <4>3, <5>1, Apart DEF Coupled
        <5>3. next[old[i]] = old[i + 1]
          BY <4>3, <5>1 DEF Coupled, QueueChains, IsChain
        <5> QED
          BY <1>2, <1>8, <4>3, <5>1, <5>2, <5>3
      <4> QED
        BY <4>1, <4>2, <4>3
    <3> QED
      BY <1>2, <2>1, <3>1, <3>2, <3>3 DEF IsChain
  <2>2. CASE r # q
    <3>1. fifo'[r] = fifo[r] /\ head'[r] = head[r] /\ tail'[r] = tail[r]
      BY <1>3, <1>8, <2>2 DEF EviqTypeOK
    <3>2. \A i \in 1 .. Len(fifo[r]) : next'[fifo[r][i]] = next[fifo[r][i]]
      BY <1>7, <1>10, <2>2
    <3> QED
      BY <3>1, <3>2 DEF Coupled, QueueChains, IsChain
  <2> QED
    BY <2>1, <2>2
<1>13. NoSharing' /\ NoSlotLost'
  <2> DEFINE p == Len(List(q)) + 1
  <2>1. p \in 1 .. (Len(List(q)) + 1)
    BY <1>2, <1>7
  <2>2. \A j \in 1 .. (Len(List(q)) + 1) :
          List(q)'[j] = IF j = p THEN s
            ELSE IF j < p THEN List(q)[j] ELSE List(q)[j - 1]
    BY <1>2, <1>7
  <2>3. List(q)' \in Seq(Slots) /\ Len(List(q)') = Len(List(q)) + 1
    BY <1>2, <1>7
  <2> HIDE DEF p
  <2> QED
    BY <1>3, <1>7, <2>1, <2>2, <2>3, Give DEF Coupled
<1> QED
  BY <1>9, <1>11, <1>12, <1>13 DEF Coupled
-----------------------------------------------------------------------------
\* One step of the manager, or none, preserves the invariant.
LEMMA StepInv == EviqTypeOK /\ Coupled /\ [EviqNext]_eviq_vars => EviqTypeOK' /\ Coupled'
<1> SUFFICES ASSUME EviqTypeOK, Coupled, [EviqNext]_eviq_vars PROVE EviqTypeOK' /\ Coupled'
  OBVIOUS
<1>1. CASE eviq_free_pop
  BY <1>1, PopInv
<1>2. ASSUME NEW s \in held, eviq_free_push(s) PROVE EviqTypeOK' /\ Coupled'
  BY <1>2, PushInv
<1>3. ASSUME NEW q \in Queues, NEW s \in held, eviq_enqueue(q, s) PROVE EviqTypeOK' /\ Coupled'
  BY <1>3, EnqueueInv
<1>4. ASSUME NEW q \in Queues, eviq_dequeue(q) PROVE EviqTypeOK' /\ Coupled'
  BY <1>4, DequeueInv
<1>5. CASE UNCHANGED eviq_vars
  BY <1>5 DEF eviq_vars, EviqTypeOK, Coupled, IsChain, QueueChains, NoSharing, NoSlotLost, Lists, List
<1> QED
  BY <1>1, <1>2, <1>3, <1>4, <1>5 DEF EviqNext

\* In every reachable state all indexes of the manager are EVIQ_NONE or elements
\* of the arrays.
THEOREM TypeCorrect == EviqSpec => []EviqTypeOK
<1>1. EviqSpec => [](EviqTypeOK /\ Coupled)
  BY InitInv, StepInv, PTL DEF EviqSpec
<1> QED
  BY <1>1, PTL

\* In every reachable state the index chains are the contents of the queues and of
\* the free list, share no element and have lost none.
THEOREM ChainsCorrect == EviqSpec => []Coupled
<1>1. EviqSpec => [](EviqTypeOK /\ Coupled)
  BY InitInv, StepInv, PTL DEF EviqSpec
<1> QED
  BY <1>1, PTL

\* The range of a list after its first element is taken.
LEMMA RangeTail ==
  ASSUME EviqTypeOK, NoSharing, stack # <<>>
  PROVE  Range(Tail(stack)) = Range(stack) \ {stack[1]} /\ stack[1] \in Range(stack)
<1>1. stack \in Seq(Slots) /\ stack = List(EVIQ_NONE) /\ EVIQ_NONE \in Lists
  BY DEF EviqTypeOK, List, Lists
<1>2. /\ Tail(stack) \in Seq(Slots)
      /\ Len(stack) \in Nat \ {0}
      /\ Len(Tail(stack)) = Len(stack) - 1
      /\ \A i \in 1 .. Len(Tail(stack)) : Tail(stack)[i] = stack[i + 1]
  BY <1>1, TailFacts
<1>3. ASSUME NEW s \in Range(Tail(stack)) PROVE s \in Range(stack) /\ s # stack[1]
  <2>1. PICK i \in 1 .. Len(Tail(stack)) : Tail(stack)[i] = s
    BY <1>2, RangeFacts
  <2>2. i + 1 \in 1 .. Len(stack) /\ 1 \in 1 .. Len(stack) /\ i + 1 # 1 /\ stack[i + 1] = s
    BY <1>2, <2>1
  <2>3. stack[i + 1] # stack[1]
    BY <1>1, <2>2, Apart
  <2> QED
    BY <1>1, <2>2, <2>3, RangeFacts
<1>4. ASSUME NEW s \in Range(stack), s # stack[1] PROVE s \in Range(Tail(stack))
  <2>1. PICK i \in 1 .. Len(stack) : stack[i] = s
    BY <1>1, RangeFacts
  <2>2. i - 1 \in 1 .. Len(Tail(stack)) /\ Tail(stack)[i - 1] = s
    BY <1>2, <1>4, <2>1
  <2> QED
    BY <1>2, <2>2, RangeFacts
<1>5. stack[1] \in Range(stack)
  BY <1>1, <1>2, RangeFacts
<1> QED
  BY <1>3, <1>4, <1>5

\* The range of a list after an element is put in front.
LEMMA RangeCons ==
  ASSUME NEW S, NEW list \in Seq(S), NEW e \in S
  PROVE  Range(<<e>> \o list) = Range(list) \cup {e}
<1> DEFINE new == <<e>> \o list
<1>1. /\ new \in Seq(S) /\ Len(list) \in Nat /\ Len(new) = Len(list) + 1
      /\ new[1] = e
      /\ \A i \in 2 .. (Len(list) + 1) : new[i] = list[i - 1]
  BY ConsFacts
<1> HIDE DEF new
<1>2. ASSUME NEW s \in Range(new) PROVE s \in Range(list) \cup {e}
  <2>1. PICK i \in 1 .. Len(new) : new[i] = s
    BY <1>1, RangeFacts
  <2>2. CASE i = 1
    BY <1>1, <2>1, <2>2
  <2>3. CASE i # 1
    <3>1. i - 1 \in 1 .. Len(list) /\ list[i - 1] = s
      BY <1>1, <2>1, <2>3
    <3> QED
      BY <3>1, RangeFacts
  <2> QED
    BY <2>2, <2>3
<1>3. ASSUME NEW s \in Range(list) PROVE s \in Range(new)
  <2>1. PICK i \in 1 .. Len(list) : list[i] = s
    BY RangeFacts
  <2>2. i + 1 \in 1 .. Len(new) /\ i + 1 \in 2 .. (Len(list) + 1) /\ i + 1 - 1 = i
    BY <1>1
  <2>3. new[i + 1] = s
    BY <1>1, <2>1, <2>2
  <2> QED
    BY <1>1, <2>2, <2>3, RangeFacts
<1>4. e \in Range(new)
  <2>1. 1 \in 1 .. Len(new)
    BY <1>1
  <2> QED
    BY <1>1, <2>1, RangeFacts
<1> QED
  BY <1>2, <1>3, <1>4 DEF new

\* The initial state of the manager is an initial state of the slot queues.
LEMMA InitRefines == eviq_init => SQ!Init
<1> SUFFICES ASSUME eviq_init PROVE SQ!Init
  OBVIOUS
<1>1. stack \in [1 .. FreeElems -> Slots] /\ DOMAIN stack = 1 .. FreeElems
  BY DEF eviq_init
<1>2. \A s \in Slots : s + 1 \in DOMAIN stack /\ stack[s + 1] = s
  BY DEF eviq_init
<1>3. Range(stack) = Slots
  BY <1>1, <1>2 DEF Range
<1> QED
  BY <1>3 DEF eviq_init, SQ!Init

\* Every step of the manager is a step of the slot queues, or none.
LEMMA StepRefines == EviqTypeOK /\ Coupled /\ [EviqNext]_eviq_vars => [SQ!Next]_SQ!vars
<1> SUFFICES ASSUME EviqTypeOK, Coupled, [EviqNext]_eviq_vars PROVE [SQ!Next]_SQ!vars
  OBVIOUS
<1>1. CASE eviq_free_pop
  <2>1. stack # <<>> /\ free = stack[1]
    BY <1>1 DEF Coupled, IsChain, eviq_free_pop, eviq_free_avail
  <2>2. Range(stack)' = Range(stack) \ {free} /\ free \in Range(stack)
    BY <1>1, <2>1, RangeTail DEF eviq_free_pop, Coupled
  <2>3. SQ!FreePop
    BY <1>1, <2>2 DEF SQ!FreePop, eviq_free_pop
  <2> QED
    BY <2>3 DEF SQ!Next
<1>2. ASSUME NEW s \in held, eviq_free_push(s) PROVE SQ!Next
  <2>1. Range(stack)' = Range(stack) \cup {s}
    <3>1. s \in Slots /\ stack \in Seq(Slots) /\ stack' = <<s>> \o stack
      BY <1>2 DEF eviq_free_push, EviqTypeOK
    <3>2. Range(<<s>> \o stack) = Range(stack) \cup {s}
      BY <3>1, RangeCons
    <3> QED
      BY <3>1, <3>2
  <2>2. SQ!FreePush
    BY <1>2, <2>1 DEF SQ!FreePush, eviq_free_push
  <2> QED
    BY <2>2 DEF SQ!Next
<1>3. ASSUME NEW q \in Queues, NEW s \in held, eviq_enqueue(q, s) PROVE SQ!Next
  <2>1. SQ!Enqueue
    BY <1>3 DEF SQ!Enqueue, eviq_enqueue
  <2> QED
    BY <2>1 DEF SQ!Next
<1>4. ASSUME NEW q \in Queues, eviq_dequeue(q) PROVE SQ!Next
  <2>1. fifo[q] # <<>> /\ head[q] = fifo[q][1] /\ fifo[q] \in Seq(Slots)
    BY <1>4 DEF Coupled, QueueChains, IsChain, eviq_dequeue, eviq_avail, EviqTypeOK
  <2>2. head[q] = Head(fifo[q])
    BY <2>1, TailFacts
  <2>3. SQ!Dequeue
    BY <1>4, <2>1, <2>2 DEF SQ!Dequeue, eviq_dequeue
  <2> QED
    BY <2>3 DEF SQ!Next
<1>5. CASE UNCHANGED eviq_vars
  BY <1>5 DEF eviq_vars, SQ!vars
<1> QED
  BY <1>1, <1>2, <1>3, <1>4, <1>5 DEF EviqNext

\* evi_queue.h implements the slot queues: a pop returns a free slot, a dequeue the
\* oldest slot of its queue, and no other slot moves.
THEOREM Implementation == EviqSpec => ImplementsSlotQueues
<1>1. EviqSpec => [](EviqTypeOK /\ Coupled)
  BY InitInv, StepInv, PTL DEF EviqSpec
<1> QED
  BY <1>1, InitRefines, StepRefines, PTL DEF EviqSpec, ImplementsSlotQueues, SQ!Spec
-----------------------------------------------------------------------------
(***************************************************************************)
(* RawTx                                                                   *)
(***************************************************************************)
HIDE QueuesAssumption
HIDE FreeElemsAssumption
HIDE DEF Slots, EVIQ_NONE
USE RawTxAssumption

\* A thread between axiom_hw_raw_tx's taking of an id and its writing of the length.
Sending(t) == tpc[t] \in {"space", "write", "setlen"}

\* What a thread in a call knows: it has the size of a message and, once it has
\* seen the space, the room for the words that are left.
Progress(t) ==
  /\ tpc[t] # "idle" => tmsg[t].size \in Sizes
  /\ ~Writing(t) => tmsg[t].words = 0
  /\ tpc[t] = "write" => /\ tmsg[t].words < WordsOf(tmsg[t].size)
                         /\ Len(hwtx) + (WordsOf(tmsg[t].size) - tmsg[t].words) <= Depth
  /\ tpc[t] = "setlen" => tmsg[t].words = WordsOf(tmsg[t].size)

\* The id of the last word in the FIFO, and the id that follows one.
LastId == hwtx[Len(hwtx)].id
Succ(id) == (id + 1) % IdMod

\* The next id follows that of the thread that sends, or of the last word; the
\* thread's id is that of the last word, or follows it.
Numbered ==
  /\ \A t \in Threads : Sending(t) =>
       /\ next_raw_id = Succ(tmsg[t].id)
       /\ tmsg[t].words = 0 /\ hwtx # <<>> => tmsg[t].id = Succ(LastId)
       /\ tmsg[t].words > 0 => hwtx # <<>> /\ LastId = tmsg[t].id
  /\ (\A t \in Threads : ~Sending(t)) /\ hwtx # <<>> => next_raw_id = Succ(LastId)

\* Two words side by side belong to one packet, or to one and the next.
Adjacent ==
  \A i \in 1 .. Len(hwtx) - 1 :
    \/ hwtx[i + 1].id = hwtx[i].id /\ hwtx[i + 1].word = hwtx[i].word + 1
    \/ hwtx[i + 1].word = 1 /\ hwtx[i + 1].id = Succ(hwtx[i].id)

\* The NIC is inside the first packet or before it.
InFirst == sent > 0 => lens # <<>> /\ sent < Head(lens)

\* CutByLengths with a witness; every complete packet has a word left.
Cut(end) ==
  /\ end[0] = -sent
  /\ \A j \in 1 .. Len(lens) :
       /\ end[j] = end[j - 1] + lens[j] /\ 1 <= end[j] /\ end[j] <= Len(hwtx)
       /\ \A i \in 1 .. Len(hwtx) : end[j - 1] < i /\ i <= end[j] => hwtx[i].word = i - end[j - 1]
  /\ \A i \in 1 .. Len(hwtx) : end[Len(lens)] < i => hwtx[i].word = i - end[Len(lens)]
  /\ \A t \in Threads : Writing(t) => Len(hwtx) = end[Len(lens)] + tmsg[t].words
  /\ (\A t \in Threads : ~Writing(t)) => Len(hwtx) = end[Len(lens)]

\* Places that can cut the FIFO.
Ends == [0 .. Len(lens) -> -MaxWords .. MaxWords]

CutInv == \E end \in Ends : Cut(end)

\* The inductive invariant.
RawInv ==
  /\ TypeOK /\ NoOverrun /\ Numbered /\ Adjacent /\ InFirst /\ CutInv
  /\ \A t \in Threads : Progress(t)
-----------------------------------------------------------------------------
(* Words and locations *)

\* The words of a packet, in bytes, are at most 7 bytes more than its header and payload.
LEMMA WordsBound ==
  ASSUME NEW s \in Nat
  PROVE  /\ WordsOf(s) \in Nat /\ 1 <= WordsOf(s)
         /\ 8 * WordsOf(s) <= Need(s) + 7
<1>1. CASE s > 3
  <2>1. WordsOf(s) = 1 + ((s + 4) \div 8)
    BY <1>1 DEF WordsOf, WordSize
  <2>2. (s + 4) \div 8 \in Nat /\ 8 * ((s + 4) \div 8) <= s + 4
    OBVIOUS
  <2> QED BY <2>1, <2>2 DEF Need, HeaderSize
<1>2. CASE ~(s > 3)
  BY <1>2 DEF WordsOf, Need, HeaderSize
<1> QED BY <1>1, <1>2

\* Every packet fits into an empty FIFO.
LEMMA WordsFit ==
  ASSUME NEW s \in Sizes
  PROVE  WordsOf(s) \in 1 .. MaxWords
<1>1. s \in Nat /\ Need(s) \in Nat /\ Depth \in Nat
  BY DEF Need, HeaderSize
<1>2. Need(s) * Loc <= Depth * 8
  BY DEF WordSize
<1>3. Need(s) <= Depth * 8
  BY <1>1, <1>2
<1> QED BY <1>1, <1>3, WordsBound DEF MaxWords

\* The number of words of a message that a call accepts.
LEMMA WordsNat ==
  ASSUME NEW s \in Sizes
  PROVE  WordsOf(s) \in Nat /\ 1 <= WordsOf(s)
<1>1. s \in Nat
  OBVIOUS
<1> QED BY <1>1, WordsBound

\* The space in bytes that axiom_hw_raw_tx tests is enough for the words that it writes.
LEMMA RoomFits ==
  ASSUME NEW s \in Sizes, NEW n \in 0 .. Depth,
         ((Depth - n) * WordSize) \div Loc >= Need(s)
  PROVE  n + WordsOf(s) <= Depth
<1>1. s \in Nat /\ Need(s) \in Nat /\ Depth \in Nat /\ Depth - n \in Nat
  BY DEF Need, HeaderSize
<1> DEFINE m == Depth - n
<1>2. (m * 8) \div Loc >= Need(s) /\ m \in Nat
  BY <1>1 DEF WordSize
<1>3. m * 8 >= Need(s)
  <2> HIDE DEF m
  <2>1. CASE Loc = 1
    BY <1>1, <1>2, <2>1
  <2>2. CASE Loc = 2
    BY <1>1, <1>2, <2>2
  <2>3. CASE Loc = 4
    BY <1>1, <1>2, <2>3
  <2>4. CASE Loc = 8
    BY <1>1, <1>2, <2>4
  <2> QED BY <2>1, <2>2, <2>3, <2>4
<1> QED BY <1>1, <1>3, WordsBound

\* Ids wrap around below IdMod.
LEMMA SuccType ==
  ASSUME NEW id \in Nat
  PROVE  Succ(id) \in 0 .. IdMod - 1
  BY DEF Succ
-----------------------------------------------------------------------------
(* Types and the mutex *)

\* A thread that is not in a call has no message.
LEMMA NoMsgType ==
  NoMsg \in Calls
  BY DEF NoMsg, Calls, MaxWords

\* The types hold initially.
LEMMA RawInitType ==
  Init => TypeOK
<1> SUFFICES ASSUME Init PROVE TypeOK
  OBVIOUS
<1>1. hwtx \in Seq(Words) /\ lens \in Seq(1 .. MaxWords) /\ sent \in 0 .. MaxWords
  BY DEF Init, MaxWords
<1>2. next_raw_id \in 0 .. IdMod - 1 /\ mutex \in Threads \cup {None}
  BY DEF Init
<1>3. tmsg \in [Threads -> Calls]
  BY NoMsgType DEF Init
<1> QED BY <1>1, <1>2, <1>3 DEF Init, TypeOK, Locked

\* Head and tail of a sequence have its type.
LEMMA HeadTail ==
  ASSUME NEW S, NEW s \in Seq(S), s # <<>>
  PROVE  /\ Head(s) \in S /\ Head(s) = s[1] /\ Tail(s) \in Seq(S)
         /\ Len(s) \in Nat /\ 1 <= Len(s) /\ Len(Tail(s)) = Len(s) - 1
         /\ \A i \in 1 .. Len(s) - 1 : Tail(s)[i] = s[i + 1]
  OBVIOUS

\* Transmit keeps the types.
LEMMA TransmitType ==
  ASSUME TypeOK, InFirst, Transmit, hwtx # <<>>
  PROVE  TypeOK'
<1>1. hwtx' \in Seq(Words)
  BY DEF TypeOK, Transmit
<1>2. Head(lens) \in 1 .. MaxWords /\ Tail(lens) \in Seq(1 .. MaxWords) /\ Depth \in Nat
  BY HeadTail DEF TypeOK, Transmit
<1>3. lens' \in Seq(1 .. MaxWords)
  BY <1>2 DEF TypeOK, Transmit
<1>4. sent' \in 0 .. MaxWords
  BY <1>2 DEF TypeOK, Transmit, InFirst, MaxWords
<1>5. pending' \in BOOLEAN
  BY DEF TypeOK, Transmit
<1> QED BY <1>1, <1>3, <1>4, <1>5 DEF TypeOK, Transmit, users

\* Waking leaves everybody on the same side of the mutex.
LEMMA WokenType ==
  ASSUME TypeOK, tpc' = PortWoken
  PROVE  /\ tpc' \in [Threads -> Locked \cup {"idle", "lock", "event", "sleep", "copy", "relock"}]
         /\ \A t \in Threads : tpc'[t] \in Locked <=> tpc[t] \in Locked
         /\ \A t \in Threads : tpc'[t] # tpc[t] => tpc[t] = "sleep" /\ tpc'[t] = "event"
  BY DEF TypeOK, PortWoken, Locked

\* So do the interrupt handler and the watchdog.
LEMMA IrqType ==
  ASSUME TypeOK,
         axiomnet_irqhandler \/ axiom_hw_ack_irq \/ axiomnet_watchdog_worker
  PROVE  TypeOK'
<1>1. CASE axiomnet_irqhandler
  BY <1>1, WokenType DEF TypeOK, axiomnet_irqhandler
<1>2. CASE axiom_hw_ack_irq
  BY <1>2 DEF TypeOK, axiom_hw_ack_irq, users
<1>3. CASE axiomnet_watchdog_worker
  BY <1>3, WokenType DEF TypeOK, axiomnet_watchdog_worker, nic
<1> QED BY <1>1, <1>2, <1>3

\* A step that moves one thread outside the mutex, or inside it.
LEMMA MoveType ==
  ASSUME TypeOK, NEW t \in Threads, NEW pc,
         UNCHANGED <<nic, next_raw_id, mutex>>,
         pc \in Locked \cup {"idle", "lock", "event", "sleep", "copy", "relock"},
         pc \in Locked <=> tpc[t] \in Locked, Goto(t, pc),
              tmsg' \in [Threads -> Calls]
  PROVE  TypeOK'
  BY DEF TypeOK, Goto, nic

\* A step that releases the mutex.
LEMMA UnlockType ==
  ASSUME TypeOK, NEW t \in Threads,
         NEW pc \in {"idle", "event", "copy"},
         UNCHANGED <<hwtx, sent, pending, irq, next_raw_id>>,
              lens' \in Seq(1 .. MaxWords),
         tpc[t] \in Locked, mutex' = None, Goto(t, pc), tmsg' \in [Threads -> Calls]
  PROVE  TypeOK'
<1>1. mutex = t
  BY DEF TypeOK
<1>2. \A u \in Threads : u # t => tpc[u] \notin Locked
  BY <1>1 DEF TypeOK
<1>3. \A u \in Threads : tpc'[u] \notin Locked
  BY <1>2 DEF TypeOK, Goto, Locked
<1>4. \A u \in Threads : mutex' # u
  OBVIOUS
<1>5. tpc' \in [Threads -> Locked \cup {"idle", "lock", "event", "sleep", "copy", "relock"}]
  BY DEF TypeOK, Goto
<1> QED BY <1>3, <1>4, <1>5 DEF TypeOK

\* Every step of a thread keeps the types.
LEMMA ThreadType ==
  ASSUME TypeOK, NEW t \in Threads, Progress(t),
         Call(t) \/ axiomnet_raw_send(t) \/ Signal(t)
  PROVE  TypeOK'
<1>r. ASSUME Return(t) PROVE tmsg' \in [Threads -> Calls] /\ Goto(t, "idle")
  BY <1>r, NoMsgType DEF TypeOK, Return
<1>u. ASSUME UNCHANGED tmsg PROVE tmsg' \in [Threads -> Calls]
  BY <1>u DEF TypeOK
<1>1. CASE Call(t)
  <2>1. PICK s \in Sizes, nb \in BOOLEAN :
          tmsg' = [tmsg EXCEPT ![t] = [NoMsg EXCEPT !.size = s, !.nonblock = nb]]
    BY <1>1 DEF Call
  <2>2. [NoMsg EXCEPT !.size = s, !.nonblock = nb] \in Calls
    BY NoMsgType DEF Calls
  <2>3. tmsg' \in [Threads -> Calls]
    BY <2>1, <2>2 DEF TypeOK
  <2> QED BY <1>1, <2>3, MoveType DEF Call, Locked
<1>2. CASE Lock(t)
  <2>1. \A u \in Threads : tpc[u] \notin Locked
    BY <1>2 DEF TypeOK, Lock
  <2>2. PICK pc \in {"test", "tx"} : Goto(t, pc)
    BY <1>2 DEF Lock
  <2> QED BY <1>2, <2>1, <2>2 DEF TypeOK, Lock, Goto, Locked, nic
<1>3. CASE SendTest(t)
  <2>1. tpc[t] \in Locked /\ mutex' = None /\ UNCHANGED <<nic, next_raw_id>>
    BY <1>3 DEF SendTest, Locked
  <2>2. PICK pc \in {"idle", "event", "copy"} : Goto(t, pc) /\ (UNCHANGED tmsg \/ Return(t))
    BY <1>3 DEF SendTest, Return
  <2>3. tmsg' \in [Threads -> Calls]
    BY <2>2, <1>r, <1>u
  <2>4. UNCHANGED <<hwtx, sent, pending, irq, next_raw_id>> /\ lens' \in Seq(1 .. MaxWords)
    BY <2>1 DEF nic, TypeOK
  <2> QED BY <2>1, <2>2, <2>3, <2>4, UnlockType
<1>4. CASE SendWait(t)
  <2>1. PICK pc \in {"lock", "sleep"} : Goto(t, pc)
    BY <1>4 DEF SendWait
  <2> QED BY <1>4, <1>u, <2>1, MoveType DEF SendWait, Locked
<1>5. CASE Signal(t)
  <2>1. PICK pc \in {"idle", "lock"} : Goto(t, pc) /\ (UNCHANGED tmsg \/ Return(t))
    BY <1>5 DEF Signal, Return
  <2>2. tmsg' \in [Threads -> Calls]
    BY <2>1, <1>r, <1>u
  <2> QED BY <1>5, <2>1, <2>2, MoveType DEF Signal, Locked
<1>6. CASE SendCopy(t)
  <2>1. PICK pc \in {"idle", "relock"} : Goto(t, pc) /\ (UNCHANGED tmsg \/ Return(t))
    BY <1>6 DEF SendCopy, Return
  <2>2. tmsg' \in [Threads -> Calls]
    BY <2>1, <1>r, <1>u
  <2> QED BY <1>6, <2>1, <2>2, MoveType DEF SendCopy, Locked
<1>7. CASE HwTakeId(t)
  <2>1. next_raw_id \in Nat /\ next_raw_id' = Succ(next_raw_id)
    BY <1>7 DEF TypeOK, HwTakeId, Succ
  <2>2. next_raw_id' \in 0 .. IdMod - 1
    BY <2>1, SuccType
  <2>3. tmsg' \in [Threads -> Calls]
    BY <1>7 DEF TypeOK, HwTakeId, Calls
  <2> QED BY <1>7, <2>2, <2>3 DEF TypeOK, HwTakeId, Goto, Locked, nic
<1>8. CASE HwWaitSpace(t)
  BY <1>8, <1>u, MoveType DEF HwWaitSpace, Locked
<1>9. CASE HwWrite(t)
  <2> DEFINE n == tmsg[t].words + 1
  <2>1. tmsg[t].size \in Sizes /\ tmsg[t].words \in Nat /\ tmsg[t].id \in 0 .. IdMod - 1
    BY <1>9 DEF HwWrite, Progress, TypeOK, Calls
  <2>2. n \in 1 .. MaxWords
    BY <1>9, <2>1, WordsFit DEF HwWrite, Progress, MaxWords
  <2>3. tmsg' \in [Threads -> Calls]
    <3>1. n \in 0 .. MaxWords
      BY <2>2
    <3>2. [tmsg[t] EXCEPT !.words = n] \in Calls
      <4>1. tmsg[t] \in Calls
        BY DEF TypeOK
      <4> HIDE DEF n
      <4> QED BY <3>1, <4>1 DEF Calls
    <3>3. tmsg' = [tmsg EXCEPT ![t] = [tmsg[t] EXCEPT !.words = n]]
      BY <1>9 DEF HwWrite, TypeOK
    <3> QED BY <3>2, <3>3 DEF TypeOK
  <2>4. [id |-> tmsg[t].id, word |-> n] \in Words
    BY <2>1, <2>2 DEF Words
  <2>5. hwtx' \in Seq(Words)
    BY <1>9, <2>4 DEF TypeOK, HwWrite
  <2>6. PICK pc \in {"write", "setlen"} : Goto(t, pc)
    BY <1>9 DEF HwWrite
  <2> QED BY <1>9, <2>3, <2>5, <2>6 DEF TypeOK, HwWrite, Goto, Locked
<1>10. CASE HwSetLen(t)
  <2>1. tmsg[t].words \in 1 .. MaxWords
    BY <1>10, WordsFit DEF HwSetLen, Progress
  <2>2. lens' \in Seq(1 .. MaxWords)
    BY <1>10, <2>1 DEF HwSetLen, TypeOK
  <2> QED BY <1>10, <1>r, <2>2, UnlockType DEF HwSetLen, Locked
<1> QED BY <1>1, <1>2, <1>3, <1>4, <1>5, <1>6, <1>7, <1>8, <1>9, <1>10
        DEF axiomnet_raw_send, axiom_hw_raw_tx
-----------------------------------------------------------------------------
(* The FIFO *)

\* The mutex lets one thread at a time send.
LEMMA OneSender ==
  ASSUME TypeOK, NEW t \in Threads, NEW u \in Threads,
         tpc[t] \in Locked, tpc[u] \in Locked
  PROVE  t = u
  BY DEF TypeOK

\* The lengths of the FIFO and of the queue of lengths are numbers.
LEMMA LenType ==
  ASSUME TypeOK
  PROVE  Len(hwtx) \in Nat /\ Len(lens) \in Nat /\ sent \in Nat /\ Depth \in Nat
  BY DEF TypeOK, MaxWords

\* A thread that sends does not move, and one that does not is not about to.
Calm(u) ==
  IF Sending(u) THEN tpc'[u] = tpc[u] /\ tmsg'[u] = tmsg[u]
  ELSE /\ tpc'[u] \notin {"space", "write", "setlen"} /\ tmsg'[u].words = 0
       /\ tpc'[u] # "idle" => tmsg'[u].size \in Sizes

\* The FIFO, the lengths and the ids are those of the threads that send.
LEMMA CalmStep ==
  ASSUME RawInv, TypeOK', UNCHANGED <<hwtx, lens, sent, next_raw_id>>,
         \A u \in Threads : Calm(u)
  PROVE  RawInv'
<1>1. \A u \in Threads : /\ Sending(u)' <=> Sending(u)
                         /\ Writing(u)' <=> Writing(u)
                         /\ Sending(u) => tmsg'[u] = tmsg[u]
                         /\ Writing(u) => tmsg'[u] = tmsg[u]
  BY DEF Calm, Sending, Writing
<1>2. NoOverrun' /\ Adjacent' /\ InFirst'
  BY DEF RawInv, NoOverrun, Adjacent, InFirst
<1>3. Numbered'
  BY <1>1 DEF RawInv, Numbered, LastId
<1>4. CutInv'
  <2>1. PICK end \in Ends : Cut(end)
    BY DEF RawInv, CutInv
  <2>2. Cut(end)'
    BY <1>1, <2>1 DEF Cut
  <2>3. Ends' = Ends
    BY DEF Ends
  <2> QED BY <2>1, <2>2, <2>3 DEF CutInv
<1>5. ASSUME NEW u \in Threads PROVE Progress(u)'
  BY DEF RawInv, Progress, Calm, Sending, Writing
<1> QED BY <1>2, <1>3, <1>4, <1>5 DEF RawInv

\* Interrupts, the watchdog and the calls up to axiom_hw_raw_tx do not touch it.
LEMMA QuietStep ==
  ASSUME RawInv, TypeOK',
         \/ axiomnet_irqhandler \/ axiom_hw_ack_irq \/ axiomnet_watchdog_worker
         \/ \E t \in Threads : \/ Call(t) \/ Lock(t) \/ SendTest(t) \/ SendWait(t)
                               \/ Signal(t) \/ SendCopy(t)
  PROVE  RawInv'
<1>i. ASSUME NEW u \in Threads
      PROVE  /\ ~Sending(u) => tmsg[u].words = 0
             /\ tpc[u] # "idle" => tmsg[u].size \in Sizes
  BY DEF RawInv, Progress, Sending, Writing
<1>s. ASSUME NEW u \in Threads, tpc'[u] = tpc[u], tmsg'[u] = tmsg[u] PROVE Calm(u)
  BY <1>i, <1>s DEF Calm, Sending
<1>n. NoMsg.words = 0
  BY DEF NoMsg
<1>1. CASE axiomnet_irqhandler \/ axiom_hw_ack_irq \/ axiomnet_watchdog_worker
  <2>1. UNCHANGED <<hwtx, lens, sent, next_raw_id, tmsg>> /\ (UNCHANGED tpc \/ tpc' = PortWoken)
    BY <1>1 DEF axiomnet_irqhandler, axiom_hw_ack_irq, axiomnet_watchdog_worker,
         nic, users
  <2>2. ASSUME NEW u \in Threads PROVE Calm(u)
    <3>1. tpc'[u] = tpc[u] \/ (tpc[u] = "sleep" /\ tpc'[u] = "event")
      BY <2>1, WokenType DEF RawInv
    <3> QED BY <1>i, <1>s, <2>1, <3>1 DEF Calm, Sending
  <2> QED BY <2>1, <2>2, CalmStep
<1>2. ASSUME NEW t \in Threads,
             Call(t) \/ Lock(t) \/ SendTest(t) \/ SendWait(t) \/ Signal(t) \/ SendCopy(t)
      PROVE  RawInv'
  <2>1. UNCHANGED <<hwtx, lens, sent, next_raw_id>>
    BY <1>2 DEF Call, Lock, SendTest, SendWait, Signal, SendCopy, nic
  <2>2. /\ tmsg \in [Threads -> Calls]
        /\ tpc \in [Threads ->
             Locked \cup {"idle", "lock", "event", "sleep", "copy", "relock"}]
    BY DEF RawInv, TypeOK
  <2>3. ~Sending(t)
    BY <1>2 DEF Call, Lock, SendTest, SendWait, Signal, SendCopy, Sending
  <2>4. PICK pc \in {"idle", "lock", "test", "tx", "copy", "event", "sleep", "relock"} :
          tpc' = [tpc EXCEPT ![t] = pc]
    BY <1>2 DEF Call, Lock, SendTest, SendWait, Signal, SendCopy, Goto,
         Return
  <2>5. \/ Call(t)
        \/ UNCHANGED tmsg /\ tpc[t] # "idle"
        \/ tmsg' = [tmsg EXCEPT ![t] = NoMsg] /\ pc = "idle"
    <3>1. Return(t) => tmsg' = [tmsg EXCEPT ![t] = NoMsg] /\ pc = "idle"
      BY <2>2, <2>4 DEF Return, Goto
    <3> QED BY <1>2, <3>1 DEF Lock, SendTest, SendWait, Signal, SendCopy
  <2>6. ASSUME NEW u \in Threads, u # t PROVE Calm(u)
    <3>1. tpc'[u] = tpc[u]
      BY <2>2, <2>4, <2>6
    <3>2. tmsg'[u] = tmsg[u]
      BY <2>2, <2>5, <2>6 DEF Call
    <3> QED BY <1>s, <3>1, <3>2
  <2>7. Calm(t)
    <3>1. tpc'[t] = pc
      BY <2>2, <2>4
    <3>2. CASE Call(t)
      <4>1. PICK s \in Sizes, nb \in BOOLEAN :
              tmsg' = [tmsg EXCEPT ![t] = [NoMsg EXCEPT !.size = s, !.nonblock = nb]]
        BY <3>2 DEF Call
      <4>2. tmsg'[t] = [NoMsg EXCEPT !.size = s, !.nonblock = nb]
        BY <2>2, <4>1
      <4>3. tmsg'[t].size \in Sizes /\ tmsg'[t].words = 0
        BY <4>2 DEF NoMsg
      <4> QED BY <2>3, <3>1, <4>3 DEF Calm
    <3>3. CASE UNCHANGED tmsg /\ tpc[t] # "idle"
      BY <1>i, <2>3, <3>1, <3>3 DEF Calm
    <3>4. CASE tmsg' = [tmsg EXCEPT ![t] = NoMsg] /\ pc = "idle"
      <4>1. tmsg'[t] = NoMsg
        BY <2>2, <3>4
      <4> QED BY <1>n, <2>3, <3>1, <3>4, <4>1 DEF Calm
    <3> QED BY <2>5, <3>2, <3>3, <3>4
  <2> QED BY <2>1, <2>6, <2>7, CalmStep
<1> QED BY <1>1, <1>2

\* Taking an id: nobody else sends, so the id is the one after the last word's.
LEMMA TakeIdStep ==
  ASSUME RawInv, TypeOK', NEW t \in Threads, HwTakeId(t)
  PROVE  RawInv'
<1>1. tpc[t] = "tx" /\ \A u \in Threads : u # t => tpc[u] \notin Locked
  BY OneSender DEF RawInv, HwTakeId, Locked
<1>2. \A u \in Threads : ~Sending(u) /\ ~Writing(u)
  BY <1>1 DEF Sending, Writing, Locked
<1>3. /\ tpc' = [tpc EXCEPT ![t] = "space"] /\ tmsg' = [tmsg EXCEPT ![t].id = next_raw_id]
      /\ next_raw_id' = Succ(next_raw_id) /\ UNCHANGED <<hwtx, lens, sent>>
  BY DEF HwTakeId, Goto, Succ, nic
<1>4. /\ tpc'[t] = "space" /\ tmsg'[t].id = next_raw_id
      /\ tmsg'[t].words = tmsg[t].words /\ tmsg'[t].size = tmsg[t].size
      /\ \A u \in Threads : u # t => tpc'[u] = tpc[u] /\ tmsg'[u] = tmsg[u]
  BY <1>3 DEF RawInv, TypeOK, Calls
<1>5. \A u \in Threads : ~Writing(u)' /\ (Sending(u)' => u = t)
  BY <1>2, <1>4 DEF Sending, Writing
<1>6. NoOverrun' /\ Adjacent' /\ InFirst'
  BY <1>3 DEF RawInv, NoOverrun, Adjacent, InFirst
<1>7. Numbered'
  <2>1. hwtx # <<>> => next_raw_id = Succ(LastId)
    BY <1>2 DEF RawInv, Numbered
  <2>2. tmsg[t].words = 0
    BY <1>2 DEF RawInv, Progress
  <2> QED BY <1>3, <1>4, <1>5, <2>1, <2>2 DEF Numbered, LastId, Sending
<1>8. CutInv'
  <2>1. PICK end \in Ends : Cut(end)
    BY DEF RawInv, CutInv
  <2>2. Cut(end)'
    BY <1>2, <1>3, <1>5, <2>1 DEF Cut
  <2>3. Ends' = Ends
    BY <1>3 DEF Ends
  <2> QED BY <2>1, <2>2, <2>3 DEF CutInv
<1>9. ASSUME NEW u \in Threads PROVE Progress(u)'
  <2>1. tpc'[u] # "idle" => tpc[u] # "idle"
    BY <1>1, <1>4
  <2>2. tmsg'[u].words = tmsg[u].words /\ tmsg'[u].size = tmsg[u].size
    BY <1>4
  <2> QED BY <1>2, <1>5, <2>1, <2>2 DEF RawInv, Progress, Writing
<1> QED BY <1>6, <1>7, <1>8, <1>9 DEF RawInv

\* The space that the thread sees is enough for its words.
LEMMA WaitSpaceStep ==
  ASSUME RawInv, TypeOK', NEW t \in Threads, HwWaitSpace(t)
  PROVE  RawInv'
<1>1. tpc[t] = "space" /\ \A u \in Threads : u # t => tpc[u] \notin Locked
  BY OneSender DEF RawInv, HwWaitSpace, Locked
<1>2. \A u \in Threads : ~Writing(u) /\ (Sending(u) <=> u = t)
  BY <1>1 DEF Sending, Writing, Locked
<1>3. tpc' = [tpc EXCEPT ![t] = "write"] /\ UNCHANGED <<hwtx, lens, sent, next_raw_id, tmsg>>
  BY DEF HwWaitSpace, Goto, nic
<1>4. tpc'[t] = "write" /\ \A u \in Threads : u # t => tpc'[u] = tpc[u]
  BY <1>3 DEF RawInv, TypeOK
<1>5. \A u \in Threads : /\ Writing(u)' <=> u = t
                         /\ Sending(u)' <=> u = t
  BY <1>2, <1>4 DEF Sending, Writing
<1>6. NoOverrun' /\ Adjacent' /\ InFirst'
  BY <1>3 DEF RawInv, NoOverrun, Adjacent, InFirst
<1>7. Numbered'
  BY <1>2, <1>3, <1>5 DEF RawInv, Numbered, LastId
<1>8. tmsg[t].words = 0 /\ tmsg[t].size \in Sizes
  BY <1>1, <1>2 DEF RawInv, Progress
<1>9. CutInv'
  <2>1. PICK end \in Ends : Cut(end)
    BY DEF RawInv, CutInv
  <2>2. end[Len(lens)] \in Int
    BY <2>1, LenType DEF RawInv, Ends
  <2>3. Cut(end)'
    <3>1. Len(hwtx) = end[Len(lens)]
      BY <1>2, <2>1 DEF Cut
    <3>2. /\ \A u \in Threads : Writing(u)' => Len(hwtx) = end[Len(lens)] + tmsg[u].words
          /\ ~(\A u \in Threads : ~Writing(u)')
      BY <1>5, <1>8, <2>2, <3>1
    <3> QED BY <1>3, <2>1, <3>2 DEF Cut
  <2>4. Ends' = Ends
    BY <1>3 DEF Ends
  <2> QED BY <2>1, <2>3, <2>4 DEF CutInv
<1>10. Progress(t)'
  <2>1. Len(hwtx) \in 0 .. Depth
    BY LenType DEF RawInv, NoOverrun
  <2>2. Len(hwtx) + WordsOf(tmsg[t].size) <= Depth
    BY <1>8, <2>1, RoomFits DEF HwWaitSpace, HasRoom, axiomnet_raw_tx_avail
  <2>3. WordsOf(tmsg[t].size) \in Nat /\ 1 <= WordsOf(tmsg[t].size)
    BY <1>8, WordsNat
  <2> QED BY <1>3, <1>4, <1>5, <1>8, <2>2, <2>3 DEF Progress
<1>11. ASSUME NEW u \in Threads, u # t PROVE Progress(u)'
  BY <1>2, <1>3, <1>4, <1>5, <1>11 DEF RawInv, Progress, Writing
<1> QED BY <1>6, <1>7, <1>9, <1>10, <1>11 DEF RawInv

\* Writing a word: it continues the thread's packet behind the complete ones.
LEMMA WriteStep ==
  ASSUME RawInv, TypeOK', NEW t \in Threads, HwWrite(t)
  PROVE  RawInv'
<1> DEFINE n == tmsg[t].words + 1
           w == [id |-> tmsg[t].id, word |-> n]
           size == tmsg[t].size
<1>1. tpc[t] = "write" /\ \A u \in Threads : u # t => tpc[u] \notin Locked
  BY OneSender DEF RawInv, HwWrite, Locked
<1>2. \A u \in Threads : /\ Writing(u) <=> u = t
                         /\ Sending(u) <=> u = t
  BY <1>1 DEF Sending, Writing, Locked
<1>3. /\ hwtx' = Append(hwtx, w) /\ tmsg' = [tmsg EXCEPT ![t].words = n]
      /\ tpc' = [tpc EXCEPT ![t] = IF n < WordsOf(size) THEN "write" ELSE "setlen"]
      /\ UNCHANGED <<lens, sent, next_raw_id>>
  BY DEF HwWrite, Goto
<1>4. /\ tmsg'[t].words = n /\ tmsg'[t].id = tmsg[t].id /\ tmsg'[t].size = size
      /\ tpc'[t] = IF n < WordsOf(size) THEN "write" ELSE "setlen"
      /\ \A u \in Threads : u # t => tpc'[u] = tpc[u] /\ tmsg'[u] = tmsg[u]
  BY <1>3 DEF RawInv, TypeOK, Calls
<1>5. \A u \in Threads : /\ Writing(u)' <=> u = t
                         /\ Sending(u)' <=> u = t
  BY <1>2, <1>4 DEF Sending, Writing
<1>6. /\ hwtx \in Seq(Words) /\ w \in Words
      /\ Len(hwtx) \in Nat /\ Depth \in Nat /\ Len(lens) \in Nat
  <2>1. hwtx' \in Seq(Words) /\ hwtx'[Len(hwtx')] \in Words
    BY <1>3 DEF TypeOK, RawInv
  <2> QED BY <1>3, <2>1, LenType DEF RawInv, TypeOK
<1>7. /\ Len(hwtx') = Len(hwtx) + 1 /\ hwtx'[Len(hwtx) + 1] = w
      /\ \A i \in 1 .. Len(hwtx) : hwtx'[i] = hwtx[i]
  BY <1>3, <1>6
<1>8. /\ tmsg[t].words \in Nat /\ WordsOf(size) \in Nat /\ size \in Sizes
      /\ tmsg[t].words < WordsOf(size) /\ Len(hwtx) + (WordsOf(size) - tmsg[t].words) <= Depth
  <2>1. size \in Sizes /\ tmsg[t].words \in Nat
    BY <1>1 DEF RawInv, Progress, TypeOK, Calls
  <2>2. WordsOf(size) \in Nat
    BY <2>1, WordsNat
  <2> QED BY <1>1, <2>1, <2>2 DEF RawInv, Progress
<1>9. NoOverrun'
  BY <1>6, <1>7, <1>8 DEF NoOverrun
<1>10. InFirst'
  BY <1>3 DEF RawInv, InFirst
<1>11. PICK end \in Ends : Cut(end)
  BY DEF RawInv, CutInv
<1>12. end[Len(lens)] \in Int /\ Len(hwtx) = end[Len(lens)] + tmsg[t].words
  BY <1>2, <1>6, <1>11 DEF Cut, Ends
<1>13. Adjacent'
  <2> SUFFICES ASSUME NEW i \in 1 .. Len(hwtx') - 1
               PROVE  \/ hwtx'[i + 1].id = hwtx'[i].id /\ hwtx'[i + 1].word = hwtx'[i].word + 1
                      \/ hwtx'[i + 1].word = 1 /\ hwtx'[i + 1].id = Succ(hwtx'[i].id)
    BY DEF Adjacent
  <2>1. CASE i < Len(hwtx)
    BY <1>6, <1>7, <2>1 DEF RawInv, Adjacent
  <2>2. CASE i = Len(hwtx)
    <3>1. hwtx'[i + 1] = w /\ hwtx'[i] = hwtx[Len(hwtx)] /\ hwtx # <<>>
      BY <1>6, <1>7, <2>2
    <3>2. CASE tmsg[t].words = 0
      BY <1>2, <3>1, <3>2 DEF RawInv, Numbered, LastId
    <3>3. CASE tmsg[t].words > 0
      <4>1. hwtx[Len(hwtx)].id = tmsg[t].id
        BY <1>2, <3>3 DEF RawInv, Numbered, LastId
      <4>2. hwtx[Len(hwtx)].word = Len(hwtx) - end[Len(lens)]
        <5>1. Len(hwtx) \in 1 .. Len(hwtx) /\ end[Len(lens)] < Len(hwtx)
          BY <1>6, <1>8, <1>12, <2>2, <3>3
        <5> QED BY <1>11, <5>1 DEF Cut
      <4> QED BY <1>8, <1>12, <3>1, <4>1, <4>2
    <3> QED BY <1>8, <3>2, <3>3
  <2> QED BY <1>6, <1>7, <2>1, <2>2
<1>14. Numbered'
  <2>1. next_raw_id = Succ(tmsg[t].id)
    BY <1>2 DEF RawInv, Numbered
  <2>2. hwtx' # <<>> /\ LastId' = tmsg[t].id
    BY <1>6, <1>7 DEF LastId
  <2> QED BY <1>3, <1>4, <1>5, <1>8, <2>1, <2>2 DEF Numbered
<1>15. Cut(end)'
  <2>1. ASSUME NEW j \in 1 .. Len(lens)
        PROVE  /\ end[j] = end[j - 1] + lens[j] /\ 1 <= end[j] /\ end[j] <= Len(hwtx')
               /\ \A i \in 1 .. Len(hwtx') :
                    end[j - 1] < i /\ i <= end[j] => hwtx'[i].word = i - end[j - 1]
    <3>1. /\ end[j] = end[j - 1] + lens[j] /\ 1 <= end[j] /\ end[j] <= Len(hwtx)
          /\ \A i \in 1 .. Len(hwtx) :
               end[j - 1] < i /\ i <= end[j] => hwtx[i].word = i - end[j - 1]
      BY <1>11 DEF Cut
    <3>2. end[j] \in Int
      BY <1>11, <1>6 DEF Ends
    <3> QED BY <1>6, <1>7, <3>1, <3>2
  <2>2. ASSUME NEW i \in 1 .. Len(hwtx'), end[Len(lens)] < i
        PROVE  hwtx'[i].word = i - end[Len(lens)]
    <3>1. CASE i <= Len(hwtx)
      BY <1>6, <1>7, <1>11, <2>2, <3>1 DEF Cut
    <3>2. CASE i = Len(hwtx) + 1
      BY <1>6, <1>7, <1>8, <1>12, <3>2
    <3> QED BY <1>6, <1>7, <3>1, <3>2
  <2>3. ASSUME NEW u \in Threads, Writing(u)'
        PROVE  Len(hwtx') = end[Len(lens)] + tmsg'[u].words
    <3>1. tmsg'[u].words = tmsg[t].words + 1
      BY <1>4, <1>5, <2>3
    <3> QED BY <1>6, <1>7, <1>8, <1>12, <3>1
  <2>4. end[0] = -sent
    BY <1>11 DEF Cut
  <2> QED BY <1>3, <1>5, <2>1, <2>2, <2>3, <2>4 DEF Cut
<1>16. CutInv'
  <2>1. Ends' = Ends
    BY <1>3 DEF Ends
  <2> QED BY <1>11, <1>15, <2>1 DEF CutInv
<1>17. Progress(t)'
  BY <1>1, <1>4, <1>5, <1>6, <1>7, <1>8 DEF Progress
<1>18. ASSUME NEW u \in Threads, u # t PROVE Progress(u)'
  BY <1>2, <1>4, <1>5, <1>18 DEF RawInv, Progress, Writing
<1> QED BY <1>9, <1>10, <1>13, <1>14, <1>16, <1>17, <1>18 DEF RawInv

\* Writing the length makes the thread's packet the last complete one.
LEMMA SetLenStep ==
  ASSUME RawInv, TypeOK', NEW t \in Threads, HwSetLen(t)
  PROVE  RawInv'
<1> DEFINE n == Len(lens)
           words == tmsg[t].words
<1>1. tpc[t] = "setlen" /\ \A u \in Threads : u # t => tpc[u] \notin Locked
  BY OneSender DEF RawInv, HwSetLen, Locked
<1>2. \A u \in Threads : /\ Writing(u) <=> u = t
                         /\ Sending(u) <=> u = t
  BY <1>1 DEF Sending, Writing, Locked
<1>3. /\ lens' = Append(lens, words) /\ UNCHANGED <<hwtx, sent, next_raw_id>>
      /\ tpc' = [tpc EXCEPT ![t] = "idle"] /\ tmsg' = [tmsg EXCEPT ![t] = NoMsg]
  BY DEF HwSetLen, Return, Goto
<1>4. /\ tpc'[t] = "idle" /\ tmsg'[t] = NoMsg
      /\ \A u \in Threads : u # t => tpc'[u] = tpc[u] /\ tmsg'[u] = tmsg[u]
  BY <1>3 DEF RawInv, TypeOK
<1>5. \A u \in Threads : ~Writing(u)' /\ ~Sending(u)'
  BY <1>2, <1>4 DEF Sending, Writing
<1>6. /\ n \in Nat /\ Len(hwtx) \in Nat /\ sent \in Nat /\ Depth \in Nat
      /\ words \in 1 .. MaxWords /\ lens \in Seq(1 .. MaxWords) /\ words \in Nat /\ 1 <= words
  <2>1. words \in 1 .. MaxWords
    BY <1>1, WordsFit DEF RawInv, Progress
  <2>2. words \in Nat /\ 1 <= words
    BY <2>1 DEF MaxWords
  <2> QED BY <2>1, <2>2, LenType DEF RawInv, TypeOK
<1>7. /\ Len(lens') = n + 1 /\ lens'[n + 1] = words
      /\ \A j \in 1 .. n : lens'[j] = lens[j]
  BY <1>3, <1>6
<1>8. NoOverrun' /\ Adjacent'
  BY <1>3 DEF RawInv, NoOverrun, Adjacent
<1>9. InFirst'
  <2>1. lens' # <<>> /\ (lens # <<>> => Head(lens') = Head(lens))
    BY <1>3, <1>6
  <2> QED BY <1>3, <2>1 DEF RawInv, InFirst
<1>10. Numbered'
  <2>1. next_raw_id = Succ(tmsg[t].id) /\ LastId = tmsg[t].id
    BY <1>2, <1>6 DEF RawInv, Numbered
  <2> QED BY <1>3, <1>5, <2>1 DEF Numbered, LastId
<1>11. PICK end \in Ends : Cut(end)
  BY DEF RawInv, CutInv
<1>12. /\ end[n] \in Int /\ Len(hwtx) = end[n] + words /\ 0 <= end[n]
  <2>1. end[n] \in Int /\ Len(hwtx) = end[n] + words
    BY <1>2, <1>6, <1>11 DEF Cut, Ends
  <2>2. CASE n = 0
    <3>1. lens = <<>>
      BY <1>6, <2>2
    <3>2. sent = 0
      BY <1>6, <3>1 DEF RawInv, InFirst
    <3> QED BY <1>11, <2>1, <2>2, <3>2 DEF Cut
  <2>3. CASE n > 0
    BY <1>6, <1>11, <2>1, <2>3 DEF Cut
  <2> QED BY <1>6, <2>1, <2>2, <2>3
<1>13. PICK new \in Ends' : new = [j \in 0 .. n + 1 |-> IF j = n + 1 THEN Len(hwtx) ELSE end[j]]
  <2> DEFINE new == [j \in 0 .. n + 1 |-> IF j = n + 1 THEN Len(hwtx) ELSE end[j]]
  <2>1. Len(hwtx) \in -MaxWords .. MaxWords
    BY <1>6 DEF RawInv, NoOverrun, MaxWords
  <2>2. \A j \in 0 .. n : end[j] \in -MaxWords .. MaxWords
    BY <1>11 DEF Ends
  <2>3. new \in Ends'
    BY <1>6, <1>7, <2>1, <2>2 DEF Ends, MaxWords
  <2> QED BY <2>3
<1>14. /\ new[n + 1] = Len(hwtx)
       /\ \A j \in 0 .. n : new[j] = end[j]
  BY <1>6, <1>13
<1>15. Cut(new)'
  <2>1. new[0] = -sent'
    BY <1>3, <1>6, <1>11, <1>14 DEF Cut
  <2>2. ASSUME NEW j \in 1 .. n + 1
        PROVE  /\ new[j] = new[j - 1] + lens'[j] /\ 1 <= new[j] /\ new[j] <= Len(hwtx)
               /\ \A i \in 1 .. Len(hwtx) :
                    new[j - 1] < i /\ i <= new[j] => hwtx[i].word = i - new[j - 1]
    <3>1. CASE j \in 1 .. n
      <4>1. new[j] = end[j] /\ new[j - 1] = end[j - 1] /\ lens'[j] = lens[j]
        BY <1>6, <1>7, <1>14, <3>1
      <4> QED BY <1>11, <3>1, <4>1 DEF Cut
    <3>2. CASE j = n + 1
      <4>1. new[j] = Len(hwtx) /\ new[j - 1] = end[n] /\ lens'[j] = words
        BY <1>6, <1>7, <1>14, <3>2
      <4>2. \A i \in 1 .. Len(hwtx) : end[n] < i => hwtx[i].word = i - end[n]
        BY <1>11 DEF Cut
      <4> QED BY <1>6, <1>12, <4>1, <4>2
    <3> QED BY <1>6, <3>1, <3>2
  <2>3. \A i \in 1 .. Len(hwtx) : ~(new[n + 1] < i)
    BY <1>6, <1>14
  <2> QED BY <1>3, <1>5, <1>7, <1>14, <2>1, <2>2, <2>3 DEF Cut
<1>16. CutInv'
  BY <1>13, <1>15 DEF CutInv
<1>17. ASSUME NEW u \in Threads PROVE Progress(u)'
  <2>1. NoMsg.words = 0
    BY DEF NoMsg
  <2> QED BY <1>2, <1>4, <1>5, <2>1 DEF RawInv, Progress, Writing
<1> QED BY <1>8, <1>9, <1>10, <1>16, <1>17 DEF RawInv

\* An element of a sequence has its type.
LEMMA ElementType ==
  ASSUME NEW S, NEW s \in Seq(S), NEW i \in 1 .. Len(s)
  PROVE  s[i] \in S
  OBVIOUS

\* Distances stay the same when a word leaves the FIFO and every place moves.
LEMMA Shifted ==
  ASSUME NEW i \in Int, NEW e \in Int, NEW f, f = e - 1
  PROVE  (i + 1) - e = i - f
<1>1. f \in Int
  OBVIOUS
<1> QED BY <1>1

\* The NIC only sends words of complete packets.
LEMMA TransmitStep ==
  ASSUME RawInv, Transmit
  PROVE  RawInv'
<1> DEFINE n == Len(lens)
<1>1. PICK end \in Ends : Cut(end)
  BY DEF RawInv, CutInv
<1>2. /\ n \in Nat /\ 1 <= n /\ Len(hwtx) \in Nat /\ sent \in Nat /\ Depth \in Nat
      /\ hwtx \in Seq(Words) /\ lens \in Seq(1 .. MaxWords) /\ lens # <<>>
  BY LenType DEF RawInv, TypeOK, Transmit
<1>3. \A j \in 1 .. n : lens[j] \in 1 .. MaxWords
  BY <1>2, ElementType
<1>4. \A j \in 0 .. n : end[j] \in -MaxWords .. MaxWords
  BY <1>1 DEF Ends
<1>5. \A j \in 1 .. n : lens[j] \in Int /\ 1 <= lens[j] /\ lens[j] <= Depth
  BY <1>2, <1>3 DEF MaxWords
<1>6. \A j \in 0 .. n : end[j] \in Int /\ -Depth <= end[j] /\ end[j] <= Depth
  BY <1>2, <1>4 DEF MaxWords
<1>7. /\ end[0] = -sent
      /\ \A j \in 1 .. n : end[j] = end[j - 1] + lens[j] /\ 1 <= end[j] /\ end[j] <= Len(hwtx)
  BY <1>1 DEF Cut
<1>8. /\ 1 <= end[n] /\ end[n] <= Len(hwtx) /\ end[n] \in Int /\ end[1] = lens[1] - sent
  BY <1>2, <1>5, <1>6, <1>7
<1>9. hwtx # <<>> /\ 1 <= Len(hwtx)
  BY <1>2, <1>8
<1>10. TypeOK'
  BY <1>9, TransmitType DEF RawInv
<1>11. /\ hwtx' = Tail(hwtx) /\ UNCHANGED <<next_raw_id, tpc, tmsg>>
  BY DEF Transmit, users
<1>12. /\ Len(hwtx') = Len(hwtx) - 1
       /\ \A i \in 1 .. Len(hwtx) - 1 : hwtx'[i] = hwtx[i + 1]
  BY <1>2, <1>9, <1>11, HeadTail
<1>13. /\ Head(lens) = lens[1] /\ Len(Tail(lens)) = n - 1
       /\ \A j \in 1 .. n - 1 : Tail(lens)[j] = lens[j + 1]
  BY <1>2, HeadTail
<1>14. sent < lens[1]
  <2>1. lens[1] \in Int /\ 1 <= lens[1]
    BY <1>2, <1>5
  <2>2. CASE sent = 0
    BY <2>1, <2>2
  <2>3. CASE sent > 0
    BY <1>13, <2>3 DEF RawInv, InFirst
  <2> QED BY <1>2, <2>2, <2>3
<1>15. NoOverrun'
  BY <1>2, <1>12 DEF RawInv, NoOverrun
<1>16. Adjacent'
  <2> SUFFICES ASSUME NEW i \in 1 .. Len(hwtx') - 1
               PROVE  \/ hwtx'[i + 1].id = hwtx'[i].id /\ hwtx'[i + 1].word = hwtx'[i].word + 1
                      \/ hwtx'[i + 1].word = 1 /\ hwtx'[i + 1].id = Succ(hwtx'[i].id)
    BY DEF Adjacent
  <2>1. i + 1 \in 1 .. Len(hwtx) - 1 /\ i \in 1 .. Len(hwtx) - 1
    BY <1>2, <1>12
  <2>2. hwtx'[i] = hwtx[i + 1] /\ hwtx'[i + 1] = hwtx[(i + 1) + 1]
    BY <1>12, <2>1
  <2> QED BY <2>1, <2>2 DEF RawInv, Adjacent
<1>17. \A u \in Threads : (Sending(u)' <=> Sending(u)) /\ (Writing(u)' <=> Writing(u))
  BY <1>11 DEF Sending, Writing
<1>18. ASSUME NEW u \in Threads PROVE tmsg[u].words \in Nat
  BY DEF RawInv, TypeOK, Calls
<1>19. hwtx' # <<>> => LastId' = LastId
  <2> SUFFICES ASSUME hwtx' # <<>> PROVE LastId' = LastId
    OBVIOUS
  <2>1. hwtx' \in Seq(Words) /\ Len(hwtx') \in Nat
    BY <1>10 DEF TypeOK
  <2>2. Len(hwtx') >= 1
    BY <2>1
  <2>3. Len(hwtx') \in 1 .. Len(hwtx) - 1
    BY <1>2, <1>12, <2>2
  <2> QED BY <1>2, <1>12, <2>3 DEF LastId
<1>20. Numbered'
  <2>1. ASSUME NEW u \in Threads, tmsg[u].words > 0, Sending(u)
        PROVE  hwtx' # <<>>
    <3>1. Writing(u)
      BY <2>1, <1>18 DEF RawInv, Progress
    <3>2. Len(hwtx) = end[n] + tmsg[u].words
      BY <1>1, <3>1 DEF Cut
    <3>3. Len(hwtx') > 0
      BY <1>2, <1>8, <1>12, <1>18, <2>1, <3>2
    <3> QED BY <3>3
  <2>2. ASSUME NEW u \in Threads, Sending(u)
        PROVE  /\ next_raw_id' = Succ(tmsg'[u].id)
               /\ tmsg'[u].words = 0 /\ hwtx' # <<>> => tmsg'[u].id = Succ(LastId')
               /\ tmsg'[u].words > 0 => hwtx' # <<>> /\ LastId' = tmsg'[u].id
    BY <1>9, <1>11, <1>19, <2>1, <2>2 DEF RawInv, Numbered
  <2>3. (\A u \in Threads : ~Sending(u)) /\ hwtx' # <<>> => next_raw_id' = Succ(LastId')
    BY <1>9, <1>11, <1>19 DEF RawInv, Numbered
  <2> QED BY <1>17, <2>2, <2>3 DEF Numbered, Succ
<1>21. ASSUME NEW u \in Threads PROVE Progress(u)'
  <2>1. tmsg[u].size \in Sizes => WordsOf(tmsg[u].size) \in Nat
    <3>1. ASSUME NEW s \in Sizes PROVE WordsOf(s) \in Nat
      BY WordsNat
    <3> QED BY <3>1
  <2> QED BY <1>2, <1>11, <1>12, <1>17, <1>18, <2>1 DEF RawInv, Progress
<1>22. \A i \in 1 .. Len(hwtx) : end[n] < i => hwtx[i].word = i - end[n]
  BY <1>1 DEF Cut
<1>23. ASSUME NEW j \in 1 .. n
       PROVE  \A i \in 1 .. Len(hwtx) :
                end[j - 1] < i /\ i <= end[j] => hwtx[i].word = i - end[j - 1]
  BY <1>1 DEF Cut
<1>24. \A u \in Threads : Writing(u) => Len(hwtx) = end[n] + tmsg[u].words
  BY <1>1 DEF Cut
<1>25. (\A u \in Threads : ~Writing(u)) => Len(hwtx) = end[n]
  BY <1>1 DEF Cut
<1>26. CASE sent + 1 = lens[1]
  <2>1. sent' = 0 /\ lens' = Tail(lens) /\ Len(lens') = n - 1
    BY <1>13, <1>26 DEF Transmit
  <2>2. InFirst'
    BY <2>1 DEF InFirst
  <2>3. \A j \in 0 .. n - 1 : end[j + 1] \in Int /\ 1 <= end[j + 1] /\ end[j + 1] <= Depth
    BY <1>2, <1>6, <1>7
  <2>4. PICK new \in Ends' : new = [j \in 0 .. n - 1 |-> end[j + 1] - 1]
    <3>1. \A j \in 0 .. n - 1 : end[j + 1] - 1 \in -MaxWords .. MaxWords
      BY <1>2, <2>3 DEF MaxWords
    <3>2. [j \in 0 .. n - 1 |-> end[j + 1] - 1] \in Ends'
      BY <1>2, <2>1, <3>1 DEF Ends, MaxWords
    <3> QED BY <3>2
  <2>5. \A j \in 0 .. n - 1 : new[j] = end[j + 1] - 1
    BY <2>4
  <2>6. new[0] = -sent'
    BY <1>2, <1>5, <1>8, <1>26, <2>1, <2>5
  <2>7. ASSUME NEW j \in 1 .. n - 1
        PROVE  /\ new[j] = new[j - 1] + lens'[j] /\ 1 <= new[j] /\ new[j] <= Len(hwtx')
               /\ \A i \in 1 .. Len(hwtx') :
                    new[j - 1] < i /\ i <= new[j] => hwtx'[i].word = i - new[j - 1]
    <3>1. j \in 0 .. n - 1 /\ j - 1 \in 0 .. n - 1 /\ j + 1 \in 1 .. n /\ j \in 1 .. n
          /\ (j - 1) + 1 = j /\ (j + 1) - 1 = j
      BY <1>2
    <3>2. /\ new[j] = end[j + 1] - 1 /\ new[j - 1] = end[j] - 1 /\ lens'[j] = lens[j + 1]
      BY <1>13, <2>1, <2>5, <3>1
    <3>3. /\ end[j + 1] = end[j] + lens[j + 1] /\ 1 <= end[j] /\ end[j + 1] <= Len(hwtx)
          /\ end[j] \in Int /\ end[j + 1] \in Int /\ lens[j + 1] \in Int /\ 1 <= lens[j + 1]
      BY <1>2, <1>5, <1>6, <1>7, <3>1
    <3>4. ASSUME NEW i \in 1 .. Len(hwtx'), new[j - 1] < i, i <= new[j]
          PROVE  hwtx'[i].word = i - new[j - 1]
      <4>1. i \in 1 .. Len(hwtx) - 1 /\ i + 1 \in 1 .. Len(hwtx)
        BY <1>2, <1>12
      <4>2. end[j] < i + 1 /\ i + 1 <= end[j + 1]
        BY <3>2, <3>3, <3>4, <4>1
      <4>3. hwtx[i + 1].word = (i + 1) - end[j]
        BY <1>23, <3>1, <4>1, <4>2
      <4>4. hwtx'[i] = hwtx[i + 1] /\ i \in Int
        BY <1>12, <4>1
      <4>5. (i + 1) - end[j] = i - new[j - 1]
        BY <3>2, <3>3, <4>4, Shifted
      <4> QED BY <4>3, <4>4, <4>5
    <3> QED BY <1>2, <1>12, <3>2, <3>3, <3>4
  <2>8. new[n - 1] = end[n] - 1
    BY <1>2, <2>5
  <2>9. ASSUME NEW i \in 1 .. Len(hwtx'), new[n - 1] < i
        PROVE  hwtx'[i].word = i - new[n - 1]
    <3>1. i \in 1 .. Len(hwtx) - 1 /\ i + 1 \in 1 .. Len(hwtx)
      BY <1>2, <1>12
    <3>2. hwtx[i + 1].word = (i + 1) - end[n]
      BY <1>8, <1>22, <2>8, <2>9, <3>1
    <3>3. hwtx'[i] = hwtx[i + 1] /\ i \in Int
      BY <1>12, <3>1
    <3>4. (i + 1) - end[n] = i - new[n - 1]
      BY <1>8, <2>8, <3>3, Shifted
    <3> QED BY <3>2, <3>3, <3>4
  <2>10. ASSUME NEW u \in Threads, Writing(u)'
         PROVE  Len(hwtx') = new[n - 1] + tmsg'[u].words
    <3>1. tmsg'[u].words = tmsg[u].words /\ tmsg[u].words \in Nat
      BY <1>11, <1>18
    <3>2. Len(hwtx) = end[n] + tmsg[u].words
      BY <1>17, <1>24, <2>10
    <3> QED BY <1>2, <1>8, <1>12, <2>8, <3>1, <3>2
  <2>11. (\A u \in Threads : ~Writing(u)') => Len(hwtx') = new[n - 1]
    BY <1>2, <1>8, <1>12, <1>17, <1>25, <2>8
  <2>12. Cut(new)'
    BY <2>1, <2>6, <2>7, <2>9, <2>10, <2>11 DEF Cut
  <2>13. CutInv'
    BY <2>4, <2>12 DEF CutInv
  <2> QED BY <1>10, <1>15, <1>16, <1>20, <1>21, <2>2, <2>13 DEF RawInv
<1>27. CASE sent + 1 # lens[1]
  <2>1. sent' = sent + 1 /\ lens' = lens
    BY <1>13, <1>27 DEF Transmit
  <2>2. InFirst'
    BY <1>2, <1>5, <1>13, <1>14, <1>27, <2>1 DEF InFirst
  <2>3. -Depth <= end[0] - 1 /\ \A j \in 1 .. n : 2 <= end[j]
    <3>1. lens[1] \in Int /\ lens[1] <= Depth /\ end[0] \in Int
      BY <1>2, <1>5, <1>6
    <3>2. -Depth <= end[0] - 1
      BY <1>2, <1>7, <1>14, <3>1
    <3>3. ASSUME NEW j \in 1 .. n PROVE 2 <= end[j]
      <4>1. CASE j = 1
        BY <1>2, <1>8, <1>14, <1>27, <3>1, <4>1
      <4>2. CASE j # 1
        <5>1. j - 1 \in 1 .. n /\ j - 1 \in 0 .. n /\ j \in 0 .. n
          BY <1>2, <4>2
        <5>2. /\ end[j] = end[j - 1] + lens[j] /\ 1 <= end[j - 1] /\ 1 <= lens[j]
              /\ end[j - 1] \in Int /\ lens[j] \in Int
          BY <1>5, <1>6, <1>7, <5>1
        <5> QED BY <5>2
      <4> QED BY <4>1, <4>2
    <3> QED BY <3>2, <3>3
  <2>4. PICK new \in Ends' : new = [j \in 0 .. n |-> end[j] - 1]
    <3>1. ASSUME NEW j \in 0 .. n PROVE end[j] - 1 \in -MaxWords .. MaxWords
      <4>1. end[j] \in Int /\ end[j] <= Depth /\ -Depth <= end[j] - 1
        <5>1. j = 0 \/ j \in 1 .. n
          BY <1>2
        <5> QED BY <1>2, <1>6, <2>3, <5>1
      <4> QED BY <1>2, <4>1 DEF MaxWords
    <3>2. [j \in 0 .. n |-> end[j] - 1] \in Ends'
      BY <1>2, <2>1, <3>1 DEF Ends, MaxWords
    <3> QED BY <3>2
  <2>5. \A j \in 0 .. n : new[j] = end[j] - 1
    BY <2>4
  <2>6. new[0] = -sent'
    BY <1>2, <1>6, <1>7, <2>1, <2>5
  <2>7. ASSUME NEW j \in 1 .. n
        PROVE  /\ new[j] = new[j - 1] + lens'[j] /\ 1 <= new[j] /\ new[j] <= Len(hwtx')
               /\ \A i \in 1 .. Len(hwtx') :
                    new[j - 1] < i /\ i <= new[j] => hwtx'[i].word = i - new[j - 1]
    <3>1. j \in 0 .. n /\ j - 1 \in 0 .. n
      BY <1>2
    <3>2. /\ new[j] = end[j] - 1 /\ new[j - 1] = end[j - 1] - 1 /\ lens'[j] = lens[j]
      BY <2>1, <2>5, <3>1
    <3>3. /\ end[j] = end[j - 1] + lens[j] /\ 2 <= end[j] /\ end[j] <= Len(hwtx)
          /\ end[j] \in Int /\ end[j - 1] \in Int /\ lens[j] \in Int
      BY <1>5, <1>6, <1>7, <2>3, <3>1
    <3>4. ASSUME NEW i \in 1 .. Len(hwtx'), new[j - 1] < i, i <= new[j]
          PROVE  hwtx'[i].word = i - new[j - 1]
      <4>1. i \in 1 .. Len(hwtx) - 1 /\ i + 1 \in 1 .. Len(hwtx)
        BY <1>2, <1>12
      <4>2. end[j - 1] < i + 1 /\ i + 1 <= end[j]
        BY <3>2, <3>3, <3>4, <4>1
      <4>3. hwtx[i + 1].word = (i + 1) - end[j - 1]
        BY <1>23, <4>1, <4>2
      <4>4. hwtx'[i] = hwtx[i + 1] /\ i \in Int
        BY <1>12, <4>1
      <4>5. (i + 1) - end[j - 1] = i - new[j - 1]
        <5>1. new[j - 1] = end[j - 1] - 1 /\ end[j - 1] \in Int
          BY <3>2, <3>3
        <5>2. i \in Int
          BY <4>4
        <5> QED BY <5>1, <5>2, Shifted
      <4> QED BY <4>3, <4>4, <4>5
    <3>5. new[j] = new[j - 1] + lens'[j] /\ 1 <= new[j] /\ new[j] <= Len(hwtx')
      BY <1>2, <1>12, <3>2, <3>3
    <3> QED BY <3>4, <3>5
  <2>8. new[n] = end[n] - 1
    BY <1>2, <2>5
  <2>9. ASSUME NEW i \in 1 .. Len(hwtx'), new[n] < i
        PROVE  hwtx'[i].word = i - new[n]
    <3>1. i \in 1 .. Len(hwtx) - 1 /\ i + 1 \in 1 .. Len(hwtx)
      BY <1>2, <1>12
    <3>2. hwtx[i + 1].word = (i + 1) - end[n]
      BY <1>8, <1>22, <2>8, <2>9, <3>1
    <3>3. hwtx'[i] = hwtx[i + 1] /\ i \in Int
      BY <1>12, <3>1
    <3>4. (i + 1) - end[n] = i - new[n]
      BY <1>8, <2>8, <3>3, Shifted
    <3> QED BY <3>2, <3>3, <3>4
  <2>10. ASSUME NEW u \in Threads, Writing(u)'
         PROVE  Len(hwtx') = new[n] + tmsg'[u].words
    <3>1. tmsg'[u].words = tmsg[u].words /\ tmsg[u].words \in Nat
      BY <1>11, <1>18
    <3>2. Len(hwtx) = end[n] + tmsg[u].words
      BY <1>17, <1>24, <2>10
    <3> QED BY <1>2, <1>8, <1>12, <2>8, <3>1, <3>2
  <2>11. (\A u \in Threads : ~Writing(u)') => Len(hwtx') = new[n]
    BY <1>2, <1>8, <1>12, <1>17, <1>25, <2>8
  <2>12. Cut(new)'
    BY <2>1, <2>6, <2>7, <2>9, <2>10, <2>11 DEF Cut
  <2>13. CutInv'
    BY <2>4, <2>12 DEF CutInv
  <2> QED BY <1>10, <1>15, <1>16, <1>20, <1>21, <2>2, <2>13 DEF RawInv
<1> QED BY <1>26, <1>27

\* Minus nothing is nothing.
LEMMA NegZero ==
  ASSUME NEW x \in Int, x <= 0, 0 <= x
  PROVE  0 = -x
OBVIOUS

\* The invariant holds initially.
LEMMA RawInit ==
  Init => RawInv
<1> SUFFICES ASSUME Init PROVE RawInv
  OBVIOUS
<1>1. hwtx = <<>> /\ lens = <<>> /\ sent = 0 /\ Depth \in Nat
  BY DEF Init
<1>2. \A t \in Threads : tpc[t] = "idle" /\ tmsg[t].words = 0 /\ ~Writing(t) /\ ~Sending(t)
  BY DEF Init, NoMsg, Writing, Sending
<1>3. NoOverrun /\ Adjacent /\ InFirst /\ Numbered
  BY <1>1, <1>2 DEF NoOverrun, Adjacent, InFirst, Numbered
<1>4. \A t \in Threads : Progress(t)
  BY <1>2 DEF Progress
<1>5. CutInv
  <2> DEFINE end == [j \in 0 .. 0 |-> 0]
  <2>1. end \in Ends
    BY <1>1 DEF Ends, MaxWords
  <2>2. Cut(end)
    <3>1. Len(lens) = 0 /\ Len(hwtx) = 0
      BY <1>1
    <3>4. end[0] = 0
      OBVIOUS
    <3>5. 0 = -sent
      <4>1. sent \in Int /\ sent <= 0 /\ 0 <= sent
        BY <1>1
      <4> QED BY <4>1, NegZero
    <3>2. end[0] = 0 /\ 0 = -sent
      BY <3>4, <3>5
    <3>3. 1 .. 0 = {}
      OBVIOUS
    <3> HIDE DEF end
    <3> QED BY <1>2, <3>1, <3>2, <3>3 DEF Cut
  <2> QED BY <2>1, <2>2 DEF CutInv
<1> QED BY <1>3, <1>4, <1>5, RawInitType DEF RawInv

\* The invariant holds.
LEMMA RawInductive == Spec => []RawInv
<1>1. RawInv /\ [Next]_vars => RawInv'
  <2> SUFFICES ASSUME RawInv, [Next]_vars PROVE RawInv'
    OBVIOUS
  <2>1. CASE Transmit
    BY <2>1, TransmitStep
  <2>2. CASE axiomnet_irqhandler \/ axiom_hw_ack_irq \/ axiomnet_watchdog_worker
    BY <2>2, IrqType, QuietStep DEF RawInv
  <2>3. ASSUME NEW t \in Threads, Call(t) \/ axiomnet_raw_send(t) \/ Signal(t)
        PROVE  RawInv'
    <3>1. TypeOK'
      BY <2>3, ThreadType DEF RawInv
    <3>2. CASE Call(t) \/ Lock(t) \/ SendTest(t) \/ SendWait(t) \/ Signal(t) \/ SendCopy(t)
      BY <3>1, <3>2, QuietStep
    <3>3. CASE axiom_hw_raw_tx(t)
      BY <3>1, <3>3, TakeIdStep, WaitSpaceStep, WriteStep, SetLenStep DEF axiom_hw_raw_tx
    <3> QED BY <2>3, <3>2, <3>3 DEF axiomnet_raw_send
  <2>4. CASE UNCHANGED vars
    <3>1. /\ UNCHANGED <<hwtx, lens, sent, next_raw_id>> /\ TypeOK'
          /\ \A u \in Threads : tpc'[u] = tpc[u] /\ tmsg'[u] = tmsg[u]
      BY <2>4 DEF vars, nic, users, RawInv, TypeOK
    <3>2. ASSUME NEW u \in Threads PROVE Calm(u)
      BY <3>1 DEF RawInv, Progress, Writing, Sending, Calm
    <3> QED BY <3>1, <3>2, CalmStep
  <2> QED BY <2>1, <2>2, <2>3, <2>4 DEF Next
<1> QED BY <1>1, RawInit, PTL DEF Spec

\* The variables of RawTx have their types, and a thread owns the mutex exactly between
\* mutex_lock and mutex_unlock.
THEOREM RawTypeCorrect == Spec => []TypeOK
<1>1. RawInv => TypeOK
  BY DEF RawInv
<1> QED BY <1>1, RawInductive, PTL

\* The FIFO holds whole packets in the order of their ids and is never overrun, for any number
\* of threads, any sizes and depth, and each size of a location: the test of the space in bytes,
\* made under the mutex that the words are written under, is enough for the words.
THEOREM PacketsAreWhole == Spec => []PacketsWhole
<1>1. ASSUME RawInv PROVE PacketsWhole
  <2>1. hwtx \in Seq(Words) /\ Len(hwtx) \in Nat
    BY <1>1 DEF RawInv, TypeOK
  <2>2. \A i \in 1 .. Len(hwtx) : hwtx[i].word \in Int /\ 1 <= hwtx[i].word
    <3>1. \A i \in 1 .. Len(hwtx) : hwtx[i] \in Words
      BY <2>1
    <3> QED BY <3>1 DEF Words, MaxWords
  <2>3. \A i \in 1 .. Len(hwtx) - 1 :
          hwtx[i + 1].word = 1 => hwtx[i + 1].id = (hwtx[i].id + 1) % IdMod
    <3>1. ASSUME NEW i \in 1 .. Len(hwtx) - 1, hwtx[i + 1].word = 1
          PROVE  hwtx[i + 1].id = Succ(hwtx[i].id)
      <4>1. hwtx[i].word \in Int /\ 1 <= hwtx[i].word
        BY <2>1, <2>2
      <4> QED BY <1>1, <3>1, <4>1 DEF RawInv, Adjacent
    <3> QED BY <3>1 DEF Succ
  <2>4. hwtx # <<>> /\ mutex = None => next_raw_id = (hwtx[Len(hwtx)].id + 1) % IdMod
    <3>1. mutex = None => \A t \in Threads : ~Sending(t)
      BY <1>1 DEF RawInv, TypeOK, Sending, Locked
    <3> QED BY <1>1, <3>1 DEF RawInv, Numbered, LastId, Succ
  <2>5. \A i \in 1 .. Len(hwtx) - 1 :
          \/ hwtx[i + 1].id = hwtx[i].id /\ hwtx[i + 1].word = hwtx[i].word + 1
          \/ hwtx[i + 1].word = 1
    BY <1>1 DEF RawInv, Adjacent
  <2>6. CutByLengths
    BY <1>1 DEF RawInv, CutInv, Cut, CutByLengths, Ends
  <2> QED BY <1>1, <2>3, <2>4, <2>5, <2>6 DEF RawInv, InFirst, PacketsWhole,
       IdsConsecutive
<1> QED BY <1>1, RawInductive, PTL
=============================================================================
