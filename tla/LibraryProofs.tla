--------------------------- MODULE LibraryProofs ----------------------------
(***************************************************************************)
(* Proofs about calls of the library and what they reach in the driver:    *)
(* Routing for any number of nodes and threads and any masks, and in the   *)
(* second part UserMsg for any number of threads, devices and messages and *)
(* any length of the queues.  The parts use nothing of each other.         *)
(***************************************************************************)
EXTENDS Routing, UserMsg, FiniteSetTheorems, TLAPS

Bits == 0 .. 7
Ops == {"none", "set_routing", "set_node_id", "get_routing", "next_hop", "get_node_id",
        "num_nodes"}
Stores == {"store_routing", "store_nodeid"}
PCs == {"idle", "set_routing", "get_routing", "set_nodeid", "get_nodeid"} \cup Stores
Calls == [op : Ops, node : Nodes, mask : SUBSET Bits, id : Nodes, num : Nat,
          ret : {"AXIOM_RET_OK", "AXIOM_RET_ERROR"}]

\* The interface that a mask is converted to.
Lowest(mask) == IF mask = {} THEN {} ELSE {Min(mask)}

\* The types, but for the range of a count.
Types ==
  /\ hwroute \in [Nodes -> Registers] /\ hwid \in Nodes
  /\ routing_table \in [Nodes -> SUBSET Bits] /\ node_id \in Nodes
  /\ tpc \in [Callers -> PCs] /\ call \in [Callers -> Calls]
  /\ known \in SUBSET Nodes /\ idknown \in BOOLEAN /\ overtaken \in SUBSET Callers
  /\ throughout \in [Callers -> SUBSET Nodes] /\ sometime \in [Callers -> SUBSET Nodes]
  /\ \A t \in Callers : tpc[t] = "set_routing" => call[t].mask \in Masks

\* The results of the calls other than a count.
Results == \A t \in Callers :
  /\ call[t].op = "next_hop" => call[t].num < AXIOM_INTERFACES_NUM
  /\ call[t].op \notin {"next_hop", "num_nodes"} => call[t].num = 0

\* What an ioctl that is not overtaken will store is what the register leads to.
Fresh == \A t \in Callers \ overtaken :
  /\ tpc[t] = "store_routing" => MaskOf(hwroute[call[t].node]) = Lowest(call[t].mask)
  /\ tpc[t] = "store_nodeid" => hwid = call[t].id

Overtaken == \A t \in overtaken : tpc[t] \in Stores

\* The nodes below n in S but the local one.
Below(S, n, id) == {m \in S : m < n /\ m # id}

\* How far a count is.
Count(t) ==
  /\ tpc[t] \in {"idle", "get_nodeid", "get_routing"} \cup Stores
  /\ tpc[t] # "idle" =>
       throughout[t] \subseteq Routed(hwroute) /\ Routed(hwroute) \subseteq sometime[t]
  /\ tpc[t] \in {"get_nodeid", "store_nodeid"} => call[t].num = 1
  /\ tpc[t] \in {"get_routing", "store_routing"} =>
       /\ call[t].node # call[t].id
       /\ call[t].num >= 1 + Cardinality(Below(throughout[t], call[t].node, call[t].id))
       /\ call[t].num <= 1 + Cardinality(Below(sometime[t], call[t].node, call[t].id))
  /\ tpc[t] = "store_routing" =>
       /\ call[t].node \in throughout[t] => Physical(call[t].mask)
       /\ Physical(call[t].mask) => call[t].node \in sometime[t]

Counts == \A t \in Callers : call[t].op = "num_nodes" => Count(t)

IInv ==
  /\ Types /\ Results
  /\ Fresh /\ Overtaken /\ CopiesCurrent
  /\ Counts /\ NumNodesBounded
-----------------------------------------------------------------------------
(* Conversions *)

USE RoutingAssumption

\* The lowest bit of a mask is one of its bits.
LEMMA LowestBit ==
  ASSUME NEW m \in SUBSET Bits, m # {} PROVE Min(m) \in m /\ Min(m) \in Bits
  <1>1. \A y \in m : y \in Int /\ (y = 0 \/ y = 1 \/ y = 2 \/ y = 3 \/ y = 4 \/ y = 5 \/ y = 6 \/ y = 7)
    BY DEF Bits
  <1>2. PICK z \in m : TRUE
    OBVIOUS
  <1>3. \E x \in m : \A y \in m : x =< y
    <2>1. CASE 0 \in m
      BY <1>1, <2>1
    <2>2. CASE 0 \notin m /\ 1 \in m
      BY <1>1, <2>2
    <2>3. CASE 0 \notin m /\ 1 \notin m /\ 2 \in m
      BY <1>1, <2>3
    <2>4. CASE 0 \notin m /\ 1 \notin m /\ 2 \notin m /\ 3 \in m
      BY <1>1, <2>4
    <2>5. CASE m \cap {0, 1, 2, 3} = {} /\ 4 \in m
      BY <1>1, <2>5
    <2>6. CASE m \cap {0, 1, 2, 3, 4} = {} /\ 5 \in m
      BY <1>1, <2>6
    <2>7. CASE m \cap {0, 1, 2, 3, 4, 5} = {} /\ 6 \in m
      BY <1>1, <2>7
    <2>8. CASE m \cap {0, 1, 2, 3, 4, 5, 6} = {}
      BY <1>1, <1>2, <2>8
    <2> QED BY <2>1, <2>2, <2>3, <2>4, <2>5, <2>6, <2>7, <2>8
  <1> QED BY <1>1, <1>3 DEF Min, Bits

\* A register has a number, and axiom_hw_set_routing writes one of them.
LEMMA RegisterType ==
  /\ Registers \subseteq Nat
  /\ \A m \in Masks : RegisterOf(m) \in Registers
  <1>1. ASSUME NEW m \in Masks, m # {} PROVE Min(m) \in Nat
    <2>1. m \in SUBSET Bits
      BY DEF Bits
    <2>2. Min(m) \in Bits
      BY <1>1, <2>1, LowestBit
    <2> QED BY <2>2 DEF Bits
  <1>2. ASSUME NEW r \in Registers PROVE r \in Nat
    <2>1. CASE r \in Found
      BY <2>1
    <2>2. CASE r = NULL_IF
      BY <2>2 DEF NULL_IF
    <2>3. CASE \E m \in Masks \ {{}} : r = Min(m)
      BY <1>1, <2>3
    <2> QED BY <2>1, <2>2, <2>3 DEF Registers
  <1> QED BY <1>2 DEF Registers, RegisterOf

\* What axiom_hw_set_routing writes for a mask leads to the lowest interface in it, and so
\* does the mask that axiom_hw_get_routing makes of any register, which has one bit or none.
LEMMA RoundTrip ==
  /\ \A m \in SUBSET Bits : MaskOf(RegisterOf(m)) = Lowest(m)
  /\ \A r \in Registers : MaskOf(r) \in SUBSET Bits /\ Lowest(MaskOf(r)) = MaskOf(r)
  <1>1. ASSUME NEW m \in SUBSET Bits PROVE MaskOf(RegisterOf(m)) = Lowest(m)
    <2>1. CASE m = {}
      BY <2>1 DEF RegisterOf, MaskOf, Lowest
    <2>2. CASE m # {}
      <3>1. Min(m) \in 0 .. 7
        BY <2>2, LowestBit DEF Bits
      <3>2. Min(m) # NULL_IF /\ Min(m) % 32 = Min(m)
        BY <3>1 DEF NULL_IF
      <3> QED BY <2>2, <3>1, <3>2 DEF RegisterOf, MaskOf, Lowest
    <2> QED BY <2>1, <2>2
  <1>2. ASSUME NEW r \in Registers
        PROVE  MaskOf(r) \in SUBSET Bits /\ Lowest(MaskOf(r)) = MaskOf(r)
    <2>1. MaskOf(r) \in SUBSET Bits /\ (MaskOf(r) = {} \/ MaskOf(r) = {r % 32})
      BY DEF MaskOf, Bits
    <2>2. CASE MaskOf(r) = {}
      BY <2>1, <2>2 DEF Lowest
    <2>3. CASE MaskOf(r) = {r % 32}
      <3>1. Min({r % 32}) \in {r % 32}
        BY <2>1, <2>3, LowestBit
      <3> QED BY <2>1, <2>3, <3>1 DEF Lowest
    <2> QED BY <2>1, <2>2, <2>3
  <1> QED BY <1>1, <1>2

\* The hop that axiom_next_hop finds is a physical or the loopback interface.
LEMMA HopRange ==
  ASSUME NEW m \in SUBSET Bits, Hops(m) # {}
  PROVE  Min(Hops(m)) \in Nat /\ Min(Hops(m)) < AXIOM_INTERFACES_NUM
  <1>1. Hops(m) \in SUBSET Bits
    BY DEF Hops, Bits
  <1>2. Min(Hops(m)) \in Hops(m)
    BY <1>1, LowestBit
  <1> QED BY <1>2 DEF Hops, AXIOM_INTERFACES_NUM
-----------------------------------------------------------------------------
(* Counting *)

\* The sets whose elements are counted are finite, and larger sets have more.
LEMMA BelowFinite ==
  ASSUME NEW S \in SUBSET Nodes, NEW T \in SUBSET S, NEW n, NEW id
  PROVE  /\ IsFiniteSet(Below(S, n, id)) /\ Cardinality(Below(S, n, id)) \in Nat
         /\ Cardinality(Below(T, n, id)) \in Nat
         /\ Cardinality(Below(T, n, id)) <= Cardinality(Below(S, n, id))
  <1>1. IsFiniteSet(Nodes)
    BY FS_Interval DEF Nodes
  <1>2. Below(S, n, id) \in SUBSET Nodes /\ Below(T, n, id) \in SUBSET Below(S, n, id)
    BY DEF Below
  <1>3. IsFiniteSet(Below(S, n, id))
    BY <1>1, <1>2, FS_Subset
  <1>4. IsFiniteSet(Below(T, n, id))
        /\ Cardinality(Below(T, n, id)) <= Cardinality(Below(S, n, id))
    BY <1>2, <1>3, FS_Subset
  <1> QED BY <1>3, <1>4, FS_CardinalityType

\* One more node: it is counted if it is in the set.
LEMMA BelowNext ==
  ASSUME NEW S \in SUBSET Nodes, NEW n \in Nodes, NEW id \in Nodes, n # id
  PROVE  Cardinality(Below(S, n + 1, id)) =
           Cardinality(Below(S, n, id)) + (IF n \in S THEN 1 ELSE 0)
  <1>0. n \in Int /\ \A m \in S : m \in Int
    BY DEF Nodes
  <1>1. IsFiniteSet(Below(S, n, id)) /\ Cardinality(Below(S, n, id)) \in Nat
    BY BelowFinite
  <1>2. CASE n \in S
    <2>1. \A m \in S : (m < n + 1 /\ m # id) <=> (m < n /\ m # id) \/ m = n
      BY <1>0
    <2>2. Below(S, n + 1, id) = Below(S, n, id) \cup {n}
      BY <1>2, <2>1 DEF Below
    <2>3. n \notin Below(S, n, id)
      BY <1>0 DEF Below
    <2> QED BY <1>1, <1>2, <2>2, <2>3, FS_AddElement
  <1>3. CASE n \notin S
    <2>1. \A m \in S : (m < n + 1 /\ m # id) <=> (m < n /\ m # id)
      BY <1>0, <1>3
    <2>2. Below(S, n + 1, id) = Below(S, n, id)
      BY <2>1 DEF Below
    <2> QED BY <1>1, <1>3, <2>2
  <1> QED BY <1>2, <1>3

\* The local node is passed over, and nothing is below 0.
LEMMA BelowSkip ==
  ASSUME NEW S \in SUBSET Nodes, NEW id \in Nodes
  PROVE  /\ Below(S, id + 1, id) = Below(S, id, id)
         /\ Below(S, 0, id) = {}
         /\ \A n \in Nat : n \notin Nodes => Below(S, n, id) = S \ {id}
  <1>1. id \in Int /\ \A m \in S : m \in Nat /\ m < AXIOM_NODES_NUM
    BY DEF Nodes
  <1>2. \A m \in S : (m < id + 1 /\ m # id) <=> (m < id /\ m # id)
    BY <1>1
  <1>3. \A m \in S : ~(m < 0)
    BY <1>1
  <1>4. ASSUME NEW n \in Nat, n \notin Nodes PROVE \A m \in S : m < n
    BY <1>1, <1>4 DEF Nodes
  <1>5. ASSUME NEW n \in Nat, n \notin Nodes PROVE Below(S, n, id) = S \ {id}
    BY <1>4, <1>5 DEF Below
  <1> QED BY <1>2, <1>3, <1>5 DEF Below
-----------------------------------------------------------------------------
\* The initial state satisfies the invariant.
LEMMA InitInv == RouteInit => IInv
  <1> SUFFICES ASSUME RouteInit PROVE IInv
    OBVIOUS
  <1>1. 0 \in Nodes
    BY DEF Nodes
  <1>2. Idle \in Calls
    BY <1>1 DEF Idle, Calls, Ops
  <1>3. Types
    BY <1>1, <1>2 DEF RouteInit, Types, PCs
  <1> QED
    BY <1>3 DEF RouteInit, IInv, Results, Idle, Fresh, Overtaken, Stores, CopiesCurrent, Counts,
      NumNodesBounded
-----------------------------------------------------------------------------
(* The actions in the form that the proofs use *)

\* A call begins.
Started(t, entry, c) ==
  LET routed == IF c.op = "num_nodes" THEN Routed(hwroute) ELSE {}
  IN  /\ tpc[t] = "idle" /\ tpc' = [tpc EXCEPT ![t] = entry]
      /\ call' = [call EXCEPT ![t] = c]
      /\ throughout' = [throughout EXCEPT ![t] = routed]
      /\ sometime' = [sometime EXCEPT ![t] = routed]
      /\ UNCHANGED <<nic, driver, known, idknown, overtaken>>
      /\ entry = "set_routing" => c.mask \in Masks
      /\ IF c.op = "num_nodes" THEN entry = "get_nodeid" /\ c.num = 1 ELSE c.num = 0

Starts(t) == axiom_set_routing(t) \/ axiom_set_node_id(t) \/ axiom_get_routing(t)
             \/ axiom_next_hop(t) \/ axiom_get_node_id(t) \/ axiom_get_num_nodes(t)

Entries == {"set_routing", "get_routing", "set_nodeid", "get_nodeid"}

\* The six calls of the library begin alike.
LEMMA StartForm ==
  ASSUME NEW t \in Callers, Starts(t)
  PROVE  \E entry \in Entries, c \in Calls : Started(t, entry, c)
  <1> USE DEF Begin, Started, Entries, Calls, Ops, Idle, Bits
  <1>0. 0 \in Nodes /\ \A m \in Masks : m \in SUBSET Bits
    BY DEF Nodes
  <1>1. CASE axiom_set_routing(t)
    <2>1. PICK n \in Nodes, m \in Masks :
            Begin(t, "set_routing", "set_routing", [Idle EXCEPT !.node = n, !.mask = m])
      BY <1>1 DEF axiom_set_routing
    <2> DEFINE c == [Idle EXCEPT !.op = "set_routing", !.node = n, !.mask = m]
    <2>2. c \in Calls /\ c.mask \in Masks /\ Started(t, "set_routing", c)
      BY <1>0, <2>1
    <2> QED BY <2>2
  <1>2. CASE axiom_set_node_id(t)
    <2>1. PICK n \in Nodes : Begin(t, "set_node_id", "set_nodeid", [Idle EXCEPT !.id = n])
      BY <1>2 DEF axiom_set_node_id
    <2> DEFINE c == [Idle EXCEPT !.op = "set_node_id", !.id = n]
    <2>2. c \in Calls /\ Started(t, "set_nodeid", c)
      BY <1>0, <2>1
    <2> QED BY <2>2
  <1>3. CASE axiom_get_routing(t)
    <2>1. PICK n \in Nodes : Begin(t, "get_routing", "get_routing", [Idle EXCEPT !.node = n])
      BY <1>3 DEF axiom_get_routing
    <2> DEFINE c == [Idle EXCEPT !.op = "get_routing", !.node = n]
    <2>2. c \in Calls /\ Started(t, "get_routing", c)
      BY <1>0, <2>1
    <2> QED BY <2>2
  <1>4. CASE axiom_next_hop(t)
    <2>1. PICK n \in Nodes : Begin(t, "next_hop", "get_routing", [Idle EXCEPT !.node = n])
      BY <1>4 DEF axiom_next_hop
    <2> DEFINE c == [Idle EXCEPT !.op = "next_hop", !.node = n]
    <2>2. c \in Calls /\ Started(t, "get_routing", c)
      BY <1>0, <2>1
    <2> QED BY <2>2
  <1>5. CASE axiom_get_node_id(t)
    <2> DEFINE c == [Idle EXCEPT !.op = "get_node_id"]
    <2>2. c \in Calls /\ Started(t, "get_nodeid", c)
      BY <1>0, <1>5 DEF axiom_get_node_id
    <2> QED BY <2>2
  <1>6. CASE axiom_get_num_nodes(t)
    <2> DEFINE c == [Idle EXCEPT !.op = "num_nodes", !.num = 1]
    <2>2. c \in Calls /\ Started(t, "get_nodeid", c)
      BY <1>0, <1>6 DEF axiom_get_num_nodes
    <2> QED BY <2>2
  <1> QED BY <1>1, <1>2, <1>3, <1>4, <1>5, <1>6 DEF Starts

\* A store ends the call, or goes on with the node n of a count that has come to num.
Stored(t, n, num, npc, c) ==
  /\ tpc' = [tpc EXCEPT ![t] = npc] /\ call' = [call EXCEPT ![t] = c]
  /\ overtaken' = overtaken \ {t}
  /\ IF call[t].op = "num_nodes"
       THEN /\ c.op = "num_nodes" /\ c.id = call[t].id /\ c.num = num
            /\ IF NextNode(t, n) \in Nodes THEN npc = "get_routing" /\ c.node = NextNode(t, n)
                                            ELSE npc = "idle"
       ELSE /\ npc = "idle"
            /\ \/ c.op = "next_hop" /\ c.num < AXIOM_INTERFACES_NUM
               \/ c.op = "none" /\ c.num = 0

\* The ends of the two stores of axiomnet_ioctl_generic.
LEMMA StoreForm ==
  ASSUME Types, NEW t \in Callers
  PROVE  /\ StoreNodeId(t) =>
              \E npc \in {"idle", "get_routing"}, c \in Calls : Stored(t, 0, 1, npc, c)
         /\ StoreRouting(t) =>
              \E npc \in {"idle", "get_routing"}, c \in Calls :
                Stored(t, call[t].node + 1,
                       call[t].num + (IF Physical(call[t].mask) THEN 1 ELSE 0), npc, c)
  <1> DEFINE o == call[t]
             back(num, nret) == [o EXCEPT !.node = 0, !.mask = {}, !.num = num, !.ret = nret]
             on(n, num) == [o EXCEPT !.node = NextNode(t, n), !.num = num, !.mask = {}]
  <1>1. o \in Calls /\ 0 \in Nodes /\ Idle \in Calls
    BY DEF Types, Calls, Idle, Ops, Nodes, Bits
  <1>2. ASSUME NEW num \in Nat, NEW nret \in {"AXIOM_RET_OK", "AXIOM_RET_ERROR"}, RouteReturn(t, num, nret)
        PROVE  /\ tpc' = [tpc EXCEPT ![t] = "idle"]
               /\ IF o.op \in {"next_hop", "num_nodes"}
                    THEN /\ back(num, nret) \in Calls /\ call' = [call EXCEPT ![t] = back(num, nret)]
                         /\ back(num, nret).num = num /\ back(num, nret).op = o.op
                         /\ back(num, nret).id = o.id
                    ELSE call' = [call EXCEPT ![t] = Idle]
    BY <1>1, <1>2 DEF RouteReturn, Calls, Bits, Types
  <1>3. ASSUME NEW n \in Nat, NEW num \in Nat, Loop(t, n, num), o.op = "num_nodes",
               overtaken' = overtaken \ {t}
        PROVE  \E npc \in {"idle", "get_routing"}, c \in Calls : Stored(t, n, num, npc, c)
    <2>1. CASE NextNode(t, n) \in Nodes
      <3>1. on(n, num) \in Calls /\ on(n, num).op = "num_nodes" /\ on(n, num).id = o.id
            /\ on(n, num).num = num /\ on(n, num).node = NextNode(t, n)
        BY <1>1, <1>3, <2>1 DEF Calls, Bits
      <3>2. call' = [call EXCEPT ![t] = on(n, num)] /\ tpc' = [tpc EXCEPT ![t] = "get_routing"]
        BY <1>1, <1>3, <2>1 DEF Loop, Types, Calls
      <3>3. Stored(t, n, num, "get_routing", on(n, num))
        BY <1>3, <2>1, <3>1, <3>2 DEF Stored
      <3> QED BY <3>1, <3>3
    <2>2. CASE NextNode(t, n) \notin Nodes
      <3>1. Stored(t, n, num, "idle", back(num, "AXIOM_RET_OK")) /\ back(num, "AXIOM_RET_OK") \in Calls
        BY <1>2, <1>3, <2>2 DEF Stored, Loop
      <3> QED BY <3>1
    <2> QED BY <2>1, <2>2
  <1>4. ASSUME NEW n, NEW k, NEW num \in Nat, NEW nret \in {"AXIOM_RET_OK", "AXIOM_RET_ERROR"},
               num < AXIOM_INTERFACES_NUM,
               RouteReturn(t, num, nret), o.op # "num_nodes", overtaken' = overtaken \ {t}
        PROVE  \E npc \in {"idle", "get_routing"}, c \in Calls : Stored(t, n, k, npc, c)
    <2>1. CASE o.op = "next_hop"
      <3>1. /\ tpc' = [tpc EXCEPT ![t] = "idle"]
            /\ back(num, nret) \in Calls /\ call' = [call EXCEPT ![t] = back(num, nret)]
            /\ back(num, nret).num = num /\ back(num, nret).op = "next_hop"
        BY <1>2, <1>4, <2>1
      <3> HIDE DEF back
      <3>2. Stored(t, n, k, "idle", back(num, nret))
        BY <1>4, <2>1, <3>1 DEF Stored
      <3> QED BY <3>1, <3>2
    <2>2. CASE o.op # "next_hop"
      <3>1. Stored(t, n, k, "idle", Idle)
        BY <1>2, <1>4, <2>2 DEF Stored, Idle
      <3> QED BY <1>1, <3>1
    <2> QED BY <2>1, <2>2
  <1>5. ASSUME StoreNodeId(t)
        PROVE  \E npc \in {"idle", "get_routing"}, c \in Calls : Stored(t, 0, 1, npc, c)
    <2>1. CASE o.op = "num_nodes"
      BY <1>3, <1>5, <2>1 DEF StoreNodeId
    <2>2. CASE o.op # "num_nodes"
      BY <1>4, <1>5, <2>2 DEF StoreNodeId, AXIOM_INTERFACES_NUM
    <2> QED BY <2>1, <2>2
  <1>6. ASSUME StoreRouting(t)
        PROVE  \E npc \in {"idle", "get_routing"}, c \in Calls :
                 Stored(t, o.node + 1, o.num + (IF Physical(o.mask) THEN 1 ELSE 0), npc, c)
    <2>0. overtaken' = overtaken \ {t}
      BY <1>6 DEF StoreRouting
    <2>1. CASE o.op = "num_nodes"
      <3>1. o.node + 1 \in Nat /\ o.num + (IF Physical(o.mask) THEN 1 ELSE 0) \in Nat
        BY <1>1 DEF Calls, Nodes
      <3>2. Loop(t, o.node + 1, o.num + (IF Physical(o.mask) THEN 1 ELSE 0))
        BY <1>6, <2>1 DEF StoreRouting
      <3> QED BY <1>3, <2>0, <2>1, <3>1, <3>2
    <2>2. CASE o.op = "next_hop" /\ Hops(o.mask) # {}
      <3>1. RouteReturn(t, Min(Hops(o.mask)), "AXIOM_RET_OK")
        BY <1>6, <2>2 DEF StoreRouting
      <3>2. Min(Hops(o.mask)) \in Nat /\ Min(Hops(o.mask)) < AXIOM_INTERFACES_NUM
        BY <1>1, <2>2, HopRange DEF Calls
      <3> QED BY <1>4, <2>0, <2>2, <3>1, <3>2
    <2>3. CASE o.op # "num_nodes" /\ ~(o.op = "next_hop" /\ Hops(o.mask) # {})
      <3>1. \E nret \in {"AXIOM_RET_OK", "AXIOM_RET_ERROR"} : RouteReturn(t, 0, nret)
        BY <1>6, <2>3 DEF StoreRouting
      <3>2. 0 < AXIOM_INTERFACES_NUM
        BY DEF AXIOM_INTERFACES_NUM
      <3> QED BY <1>4, <2>0, <2>3, <3>1, <3>2
    <2> QED BY <2>1, <2>2, <2>3
  <1> QED BY <1>5, <1>6
-----------------------------------------------------------------------------
(* Every step preserves the invariant *)

\* The disjuncts of Next as the proofs split it.
LEMMA NextSplit ==
  [RouteNext]_route_vars =>
    \/ UNCHANGED route_vars
    \/ \E t \in Callers : Starts(t) \/ SetNodeId(t) \/ GetNodeId(t) \/ StoreNodeId(t)
                          \/ SetRouting(t) \/ GetRouting(t) \/ StoreRouting(t)
  BY DEF RouteNext, Starts

\* The register of a row is written.
LEMMA SetRoutingForm ==
  ASSUME Types, NEW t \in Callers, SetRouting(t)
  PROVE  /\ call[t].node \in Nodes /\ call[t].mask \in Masks
         /\ RegisterOf(call[t].mask) \in Registers
         /\ hwroute' \in [Nodes -> Registers]
         /\ MaskOf(hwroute'[call[t].node]) = Lowest(call[t].mask)
         /\ \A n \in Nodes \ {call[t].node} : hwroute'[n] = hwroute[n]
  <1>1. call[t].node \in Nodes /\ call[t].mask \in Masks
    BY DEF Types, Calls, SetRouting
  <1>2. RegisterOf(call[t].mask) \in Registers
    BY <1>1, RegisterType
  <1>3. MaskOf(RegisterOf(call[t].mask)) = Lowest(call[t].mask)
    BY <1>1, RoundTrip DEF Types, Calls
  <1> QED BY <1>1, <1>2, <1>3 DEF SetRouting, Types

\* A step preserves the types.
LEMMA TypesStep == Types /\ Results /\ [RouteNext]_route_vars => Types' /\ Results'
  <1> SUFFICES ASSUME Types, Results, [RouteNext]_route_vars PROVE Types' /\ Results'
    OBVIOUS
  <1>1. CASE UNCHANGED route_vars
    BY <1>1 DEF route_vars, nic, driver, history, Types, Results
  <1>2. ASSUME NEW t \in Callers, Starts(t) PROVE Types' /\ Results'
    <2>1. PICK entry \in Entries, c \in Calls : Started(t, entry, c)
      BY <1>2, StartForm
    <2>2. Routed(hwroute) \in SUBSET Nodes
      BY DEF Routed
    <2>3. Types'
      BY <2>1, <2>2 DEF Types, Started, Entries, PCs, nic, driver
    <2>4. Results'
      BY <2>1 DEF Types, Started, Results, AXIOM_INTERFACES_NUM
    <2> QED BY <2>3, <2>4
  <1>3. ASSUME NEW t \in Callers, SetNodeId(t) PROVE Types' /\ Results'
    <2>1. call[t].id \in Nodes
      BY DEF Types, Calls
    <2> QED BY <1>3, <2>1 DEF SetNodeId, Types, Results, driver, PCs, Stores
  <1>4. ASSUME NEW t \in Callers, GetNodeId(t) PROVE Types' /\ Results'
    <2>0. [call[t] EXCEPT !.id = hwid] \in Calls
      BY DEF Types, Calls
    <2>1. call' \in [Callers -> Calls]
      BY <1>4, <2>0 DEF GetNodeId, Types
    <2>2. \A u \in Callers : /\ call'[u].op = call[u].op /\ call'[u].num = call[u].num
                             /\ call'[u].mask = call[u].mask
      BY <1>4 DEF GetNodeId, Types, Calls
    <2> QED BY <1>4, <2>1, <2>2 DEF GetNodeId, Types, Results, nic, driver, history, PCs, Stores
  <1>5. ASSUME NEW t \in Callers, StoreNodeId(t) PROVE Types' /\ Results'
    <2>1. PICK npc \in {"idle", "get_routing"}, c \in Calls : Stored(t, 0, 1, npc, c)
      BY <1>5, StoreForm
    <2>2. call[t].id \in Nodes
      BY DEF Types, Calls
    <2>3. Types'
      BY <1>5, <2>1, <2>2 DEF Types, Stored, StoreNodeId, nic, PCs
    <2>4. Results'
      BY <2>1 DEF Types, Stored, Results
    <2> QED BY <2>3, <2>4
  <1>6. ASSUME NEW t \in Callers, SetRouting(t) PROVE Types' /\ Results'
    <2>1. hwroute' \in [Nodes -> Registers]
      BY <1>6, SetRoutingForm
    <2>2. throughout' \in [Callers -> SUBSET Nodes] /\ sometime' \in [Callers -> SUBSET Nodes]
      BY <1>6 DEF SetRouting, Observe, Routed, Types
    <2> QED BY <1>6, <2>1, <2>2 DEF SetRouting, Types, Results, driver, PCs, Stores
  <1>7. ASSUME NEW t \in Callers, GetRouting(t) PROVE Types' /\ Results'
    <2>0. MaskOf(hwroute[call[t].node]) \in SUBSET Bits
      BY RoundTrip DEF Types, Calls
    <2>1. call' \in [Callers -> Calls]
      BY <1>7, <2>0 DEF GetRouting, Types, Calls
    <2>2. \A u \in Callers : call'[u].op = call[u].op /\ call'[u].num = call[u].num
      BY <1>7 DEF GetRouting, Types, Calls
    <2>3. \A u \in Callers \ {t} : call'[u] = call[u]
      BY <1>7 DEF GetRouting, Types
    <2> QED BY <1>7, <2>1, <2>2, <2>3 DEF GetRouting, Types, Results, nic, driver, history, PCs, Stores
  <1>8. ASSUME NEW t \in Callers, StoreRouting(t) PROVE Types' /\ Results'
    <2>1. PICK npc \in {"idle", "get_routing"}, c \in Calls :
            Stored(t, call[t].node + 1, call[t].num + (IF Physical(call[t].mask) THEN 1 ELSE 0), npc, c)
      BY <1>8, StoreForm
    <2>2. call[t].node \in Nodes /\ call[t].mask \in SUBSET Bits
      BY DEF Types, Calls
    <2>3. Types'
      BY <1>8, <2>1, <2>2 DEF Types, Stored, StoreRouting, nic, PCs
    <2>4. Results'
      BY <2>1 DEF Types, Stored, Results
    <2> QED BY <2>3, <2>4
  <1> QED BY <1>1, <1>2, <1>3, <1>4, <1>5, <1>6, <1>7, <1>8, NextSplit

\* A step preserves that the copies agree with the registers.
LEMMA CopiesStep ==
  ASSUME Types, Fresh, Overtaken, CopiesCurrent, [RouteNext]_route_vars
  PROVE  Fresh' /\ Overtaken' /\ CopiesCurrent'
  <1> USE DEF Stores
  <1> DEFINE Rows == \A n \in known : ~Busy(n) => MaskOf(hwroute[n]) = Lowest(routing_table[n])
             Id == (idknown /\ \A t \in Callers : tpc[t] # "store_nodeid") => node_id = hwid
  <1>threads. overtaken \in SUBSET Callers
    BY DEF Types
  <1>0. CopiesCurrent <=> Rows /\ Id
    BY DEF CopiesCurrent, Reachable, Lowest
  <1>00. CopiesCurrent' <=> Rows' /\ Id'
    BY DEF CopiesCurrent, Reachable, Lowest
  <1>1. CASE UNCHANGED route_vars
    BY <1>1 DEF route_vars, nic, driver, history, Fresh, Overtaken, CopiesCurrent, Busy, Reachable
  <1>2. ASSUME NEW t \in Callers, Starts(t) PROVE Fresh' /\ Overtaken' /\ CopiesCurrent'
    <2>1. PICK entry \in Entries, c \in Calls : Started(t, entry, c)
      BY <1>2, StartForm
    <2>2. /\ tpc[t] = "idle" /\ tpc'[t] \notin Stores
          /\ \A u \in Callers \ {t} : tpc'[u] = tpc[u] /\ call'[u] = call[u]
          /\ UNCHANGED <<hwroute, hwid, routing_table, node_id, known, idknown, overtaken>>
      BY <2>1 DEF Started, Entries, Types, nic, driver
    <2>3. Fresh' /\ Overtaken'
      BY <1>threads, <2>2 DEF Fresh, Overtaken
    <2>4. \A n : Busy(n)' <=> Busy(n)
      BY <2>2 DEF Busy
    <2> QED BY <1>0, <1>00, <2>2, <2>3, <2>4
  <1>3. ASSUME NEW t \in Callers, SetNodeId(t) PROVE Fresh' /\ Overtaken' /\ CopiesCurrent'
    <2>1. /\ tpc[t] = "set_nodeid" /\ tpc'[t] = "store_nodeid" /\ hwid' = call[t].id
          /\ \A u \in Callers \ {t} : tpc'[u] = tpc[u]
          /\ UNCHANGED <<hwroute, routing_table, node_id, known, idknown, call>>
          /\ overtaken' = overtaken \cup {u \in Callers : tpc[u] = "store_nodeid"}
      BY <1>3 DEF SetNodeId, Types, driver
    <2>2. Fresh' /\ Overtaken'
      BY <1>threads, <2>1 DEF Fresh, Overtaken
    <2>3. \A n : Busy(n)' <=> Busy(n)
      BY <2>1 DEF Busy
    <2> QED BY <1>0, <1>00, <2>1, <2>2, <2>3
  <1>4. ASSUME NEW t \in Callers, GetNodeId(t) PROVE Fresh' /\ Overtaken' /\ CopiesCurrent'
    <2>1. /\ tpc[t] = "get_nodeid" /\ tpc'[t] = "store_nodeid" /\ call'[t].id = hwid
          /\ \A u \in Callers \ {t} : tpc'[u] = tpc[u] /\ call'[u] = call[u]
          /\ UNCHANGED <<hwroute, hwid, routing_table, node_id, known, idknown, overtaken>>
      BY <1>4 DEF GetNodeId, Types, Calls, nic, driver, history
    <2>2. Fresh' /\ Overtaken'
      BY <1>threads, <2>1 DEF Fresh, Overtaken
    <2>3. \A n : Busy(n)' <=> Busy(n)
      BY <2>1 DEF Busy
    <2> QED BY <1>0, <1>00, <2>1, <2>2, <2>3
  <1>5. ASSUME NEW t \in Callers, StoreNodeId(t) PROVE Fresh' /\ Overtaken' /\ CopiesCurrent'
    <2>1. PICK npc \in {"idle", "get_routing"}, c \in Calls : Stored(t, 0, 1, npc, c)
      BY <1>5, StoreForm
    <2>2. /\ tpc[t] = "store_nodeid" /\ tpc'[t] \notin Stores
          /\ \A u \in Callers \ {t} : tpc'[u] = tpc[u] /\ call'[u] = call[u]
      BY <1>5, <2>1 DEF StoreNodeId, Stored, Types
    <2>3. /\ UNCHANGED <<hwroute, hwid, routing_table, known>>
          /\ node_id' = call[t].id /\ idknown' = (t \notin overtaken)
          /\ overtaken' = overtaken \ {t}
      BY <1>5 DEF StoreNodeId, nic
    <2>4. Fresh' /\ Overtaken'
      BY <1>threads, <2>2, <2>3 DEF Fresh, Overtaken
    <2>5. \A n : Busy(n)' <=> Busy(n)
      BY <2>2 DEF Busy
    <2>6. Id'
      BY <2>2, <2>3 DEF Fresh
    <2> QED BY <1>0, <1>00, <2>3, <2>4, <2>5, <2>6
  <1>6. ASSUME NEW t \in Callers, SetRouting(t) PROVE Fresh' /\ Overtaken' /\ CopiesCurrent'
    <2> DEFINE k == call[t].node
    <2>1. /\ tpc[t] = "set_routing" /\ tpc'[t] = "store_routing"
          /\ \A u \in Callers \ {t} : tpc'[u] = tpc[u]
          /\ UNCHANGED <<hwid, routing_table, node_id, known, idknown, call>>
          /\ overtaken' = overtaken \cup {u \in Callers : tpc[u] = "store_routing" /\ call[u].node = k}
      BY <1>6 DEF SetRouting, Types, driver
    <2>2. /\ MaskOf(hwroute'[k]) = Lowest(call[t].mask)
          /\ \A n \in Nodes \ {k} : hwroute'[n] = hwroute[n]
          /\ \A u \in Callers : call[u].node \in Nodes
      BY <1>6, SetRoutingForm DEF Types, Calls
    <2>3. Fresh' /\ Overtaken'
      BY <1>threads, <2>1, <2>2 DEF Fresh, Overtaken
    <2>4. Busy(k)' /\ \A n : Busy(n) => Busy(n)'
      BY <2>1 DEF Busy
    <2>5. Rows'
      BY <1>0, <2>1, <2>2, <2>4 DEF Types
    <2>6. Id'
      BY <1>0, <2>1
    <2> QED BY <1>00, <2>3, <2>5, <2>6
  <1>7. ASSUME NEW t \in Callers, GetRouting(t) PROVE Fresh' /\ Overtaken' /\ CopiesCurrent'
    <2>1. /\ tpc[t] = "get_routing" /\ tpc'[t] = "store_routing"
          /\ call'[t].node = call[t].node /\ call'[t].mask = MaskOf(hwroute[call[t].node])
          /\ \A u \in Callers \ {t} : tpc'[u] = tpc[u] /\ call'[u] = call[u]
          /\ UNCHANGED <<hwroute, hwid, routing_table, node_id, known, idknown, overtaken>>
      BY <1>7 DEF GetRouting, Types, Calls, nic, driver, history
    <2>2. Lowest(call'[t].mask) = MaskOf(hwroute[call[t].node])
      BY <2>1, RoundTrip DEF Types, Calls
    <2>3. Fresh' /\ Overtaken'
      BY <1>threads, <2>1, <2>2 DEF Fresh, Overtaken
    <2>4. \A n : Busy(n) => Busy(n)'
      BY <2>1 DEF Busy
    <2> QED BY <1>0, <1>00, <2>1, <2>3, <2>4
  <1>8. ASSUME NEW t \in Callers, StoreRouting(t) PROVE Fresh' /\ Overtaken' /\ CopiesCurrent'
    <2> DEFINE k == call[t].node
    <2>1. PICK npc \in {"idle", "get_routing"}, c \in Calls :
            Stored(t, k + 1, call[t].num + (IF Physical(call[t].mask) THEN 1 ELSE 0), npc, c)
      BY <1>8, StoreForm
    <2>2. /\ tpc[t] = "store_routing" /\ tpc'[t] \notin Stores
          /\ \A u \in Callers \ {t} : tpc'[u] = tpc[u] /\ call'[u] = call[u]
      BY <1>8, <2>1 DEF StoreRouting, Stored, Types
    <2>3. /\ UNCHANGED <<hwroute, hwid, node_id, idknown>>
          /\ routing_table'[k] = call[t].mask
          /\ \A n \in Nodes \ {k} : routing_table'[n] = routing_table[n]
          /\ known' = IF t \in overtaken THEN known \ {k} ELSE known \cup {k}
          /\ overtaken' = overtaken \ {t}
      BY <1>8 DEF StoreRouting, nic, Types, Calls
    <2>4. Fresh' /\ Overtaken'
      BY <1>threads, <2>2, <2>3 DEF Fresh, Overtaken
    <2>5. \A n : n # k /\ Busy(n) => Busy(n)'
      BY <2>2 DEF Busy
    <2>6. ASSUME NEW n \in known', ~Busy(n)' PROVE MaskOf(hwroute'[n]) = Lowest(routing_table'[n])
      <3>1. CASE n = k
        BY <2>2, <2>3, <2>6, <3>1 DEF Fresh
      <3>2. CASE n # k
        BY <1>0, <2>3, <2>5, <2>6, <3>2 DEF Types
      <3> QED BY <3>1, <3>2
    <2>7. Id'
      BY <1>0, <2>2, <2>3
    <2> QED BY <1>00, <2>4, <2>6, <2>7
  <1> QED BY <1>1, <1>2, <1>3, <1>4, <1>5, <1>6, <1>7, <1>8, NextSplit

\* The loop passes over the local node: it changes no count, and the loop ends when all
\* nodes were seen.
LEMMA CountNext ==
  ASSUME NEW S \in SUBSET Nodes, NEW n \in Nat, NEW t \in Callers, call[t].id \in Nodes
  PROVE  /\ NextNode(t, n) # call[t].id
         /\ Below(S, NextNode(t, n), call[t].id) = Below(S, n, call[t].id)
         /\ NextNode(t, n) \notin Nodes => Below(S, n, call[t].id) = S \ {call[t].id}
  <1>1. NextNode(t, n) # call[t].id /\ NextNode(t, n) \in Nat
    BY DEF NextNode, Nodes
  <1>2. Below(S, NextNode(t, n), call[t].id) = Below(S, n, call[t].id)
    <2>1. CASE n = call[t].id
      <3>1. NextNode(t, n) = n + 1
        BY <2>1 DEF NextNode
      <3>2. Below(S, n + 1, n) = Below(S, n, n)
        BY <2>1, BelowSkip
      <3> QED BY <2>1, <3>1, <3>2
    <2>2. CASE n # call[t].id
      BY <2>2 DEF NextNode
    <2> QED BY <2>1, <2>2
  <1>3. NextNode(t, n) \notin Nodes => Below(S, NextNode(t, n), call[t].id) = S \ {call[t].id}
    BY <1>1, BelowSkip
  <1> QED BY <1>1, <1>2, <1>3

\* A step preserves the bounds of every count.
LEMMA CountsStep ==
  ASSUME Types, Types', Counts, NumNodesBounded, [RouteNext]_route_vars
  PROVE  Counts' /\ NumNodesBounded'
  <1> USE DEF Stores
  <1> DEFINE Bounded(t) ==
        tpc[t] = "idle" /\ call[t].op = "num_nodes"
          => /\ call[t].num >= 1 + Cardinality(throughout[t] \ {call[t].id})
             /\ call[t].num <= 1 + Cardinality(sometime[t] \ {call[t].id})
             Good(t) == (call[t].op = "num_nodes" => Count(t)) /\ Bounded(t)
  <1>0. \A u \in Callers : Good(u)
    BY DEF Counts, NumNodesBounded
  <1> SUFFICES ASSUME NEW u \in Callers PROVE Good(u)'
    BY DEF Counts, NumNodesBounded
  <1>a. ASSUME tpc'[u] = tpc[u], call'[u] = call[u], throughout'[u] = throughout[u],
               sometime'[u] = sometime[u], hwroute' = hwroute
        PROVE  Good(u)'
    BY <1>0, <1>a DEF Count, Routed
  <1>1. CASE UNCHANGED route_vars
    BY <1>a, <1>1 DEF route_vars, nic, history
  <1>2. ASSUME NEW t \in Callers, Starts(t) PROVE Good(u)'
    <2>1. PICK entry \in Entries, c \in Calls : Started(t, entry, c)
      BY <1>2, StartForm
    <2>2. CASE u # t
      BY <1>a, <2>1, <2>2 DEF Started, Types, nic
    <2>3. CASE u = t
      <3>1. /\ tpc'[t] = entry /\ call'[t] = c /\ hwroute' = hwroute
            /\ c.op = "num_nodes" =>
                 /\ entry = "get_nodeid" /\ c.num = 1
                 /\ throughout'[t] = Routed(hwroute) /\ sometime'[t] = Routed(hwroute)
        BY <2>1 DEF Started, Types, nic
      <3> QED BY <2>3, <3>1 DEF Count, Entries, Routed
    <2> QED BY <2>2, <2>3
  <1>3. ASSUME NEW t \in Callers, SetNodeId(t) PROVE Good(u)'
    <2>1. CASE u # t
      BY <1>a, <1>3, <2>1 DEF SetNodeId, Types
    <2>2. CASE u = t
      <3>1. call[t].op # "num_nodes"
        BY <1>0, <1>3 DEF SetNodeId, Count
      <3> QED BY <1>3, <2>2, <3>1 DEF SetNodeId
    <2> QED BY <2>1, <2>2
  <1>4. ASSUME NEW t \in Callers, GetNodeId(t) PROVE Good(u)'
    <2>1. CASE u # t
      BY <1>a, <1>4, <2>1 DEF GetNodeId, Types, nic, history
    <2>2. CASE u = t
      <3>1. /\ tpc[t] = "get_nodeid" /\ tpc'[t] = "store_nodeid"
            /\ call'[t].op = call[t].op /\ call'[t].num = call[t].num
            /\ UNCHANGED <<hwroute, throughout, sometime>>
        BY <1>4 DEF GetNodeId, Types, Calls, nic, history
      <3> QED BY <1>0, <2>2, <3>1 DEF Count, Routed
    <2> QED BY <2>1, <2>2
  <1>5. ASSUME NEW t \in Callers, StoreNodeId(t) PROVE Good(u)'
    <2>1. PICK npc \in {"idle", "get_routing"}, c \in Calls : Stored(t, 0, 1, npc, c)
      BY <1>5, StoreForm
    <2>2. UNCHANGED <<hwroute, throughout, sometime>> /\ tpc[t] = "store_nodeid"
      BY <1>5 DEF StoreNodeId, nic
    <2>3. CASE u # t
      BY <1>a, <2>1, <2>2, <2>3 DEF Stored, Types
    <2>4. CASE u = t
      <3> DEFINE S == throughout[t]
                 T == sometime[t]
                 id == call[t].id
                 next == NextNode(t, 0)
      <3>1. tpc'[t] = npc /\ call'[t] = c
        BY <2>1 DEF Stored, Types
      <3>2. S \in SUBSET Nodes /\ T \in SUBSET Nodes /\ id \in Nodes
        BY DEF Types, Calls
      <3>4. Cardinality(Below(S, 0, id)) = 0 /\ Cardinality(Below(T, 0, id)) = 0
        BY <3>2, BelowSkip, FS_EmptySet
      <3>a. ASSUME NEW X \in SUBSET Nodes, Cardinality(Below(X, 0, id)) = 0
            PROVE  /\ next # id
                   /\ Cardinality(Below(X, next, id)) = 0
                   /\ next \notin Nodes => Cardinality(X \ {id}) = 0
        <4>1. 0 \in Nat
          OBVIOUS
        <4>2. /\ next # id
              /\ Below(X, next, id) = Below(X, 0, id)
              /\ next \notin Nodes => Below(X, 0, id) = X \ {id}
          BY <3>2, <4>1, CountNext, Zenon
        <4> HIDE DEF next, id
        <4> QED BY <3>a, <4>2
      <3>6. /\ next # id
            /\ 1 >= 1 + Cardinality(Below(S, next, id))
            /\ 1 <= 1 + Cardinality(Below(T, next, id))
            /\ next \notin Nodes => /\ 1 >= 1 + Cardinality(S \ {id})
                                   /\ 1 <= 1 + Cardinality(T \ {id})
        <4>1. /\ next # id
              /\ Cardinality(Below(S, next, id)) = 0 /\ Cardinality(Below(T, next, id)) = 0
              /\ next \notin Nodes => Cardinality(S \ {id}) = 0 /\ Cardinality(T \ {id}) = 0
          BY <3>2, <3>4, <3>a
        <4> HIDE DEF S, T, next, id
        <4> QED BY <4>1
      <3>7. CASE call[t].op # "num_nodes"
        BY <2>1, <2>4, <3>1, <3>7 DEF Stored
      <3>8. CASE call[t].op = "num_nodes" /\ next \in Nodes
        BY <1>0, <2>1, <2>2, <2>4, <3>1, <3>6, <3>8 DEF Stored, Count, Routed
      <3>9. CASE call[t].op = "num_nodes" /\ next \notin Nodes
        BY <2>1, <2>2, <2>4, <3>1, <3>6, <3>9 DEF Stored, Count
      <3> QED BY <3>7, <3>8, <3>9
    <2> QED BY <2>3, <2>4
  <1>6. ASSUME NEW t \in Callers, SetRouting(t) PROVE Good(u)'
    <2>1. /\ tpc[t] = "set_routing" /\ tpc'[t] = "store_routing" /\ call' = call
          /\ \A v \in Callers \ {t} : tpc'[v] = tpc[v]
      BY <1>6 DEF SetRouting, Types
    <2>2. call[t].op # "num_nodes"
      BY <1>0, <2>1 DEF Count
    <2>3. CASE call[u].op # "num_nodes"
      BY <2>1, <2>3
    <2>4. CASE call[u].op = "num_nodes" /\ tpc[u] = "idle"
      <3>1. throughout'[u] = throughout[u] /\ sometime'[u] = sometime[u] /\ tpc'[u] = tpc[u]
        BY <1>6, <2>1, <2>2, <2>4 DEF SetRouting, Observe, Counting
      <3> QED BY <1>0, <2>1, <2>4, <3>1 DEF Count
    <2>5. CASE call[u].op = "num_nodes" /\ tpc[u] # "idle"
      <3> DEFINE S == throughout[u]
                 T == sometime[u]
                 n == call[u].node
                 id == call[u].id
      <3>1. /\ throughout'[u] = S \cap Routed(hwroute') /\ sometime'[u] = T \cup Routed(hwroute')
            /\ tpc'[u] = tpc[u]
        BY <1>6, <2>1, <2>2, <2>5 DEF SetRouting, Observe, Counting
      <3>2. S \in SUBSET Nodes /\ T \in SUBSET Nodes /\ Routed(hwroute') \in SUBSET Nodes
            /\ call[u].num \in Nat
        BY DEF Types, Calls, Routed
      <3>3. /\ Cardinality(Below(S, n, id)) \in Nat /\ Cardinality(Below(throughout'[u], n, id)) \in Nat
            /\ Cardinality(Below(throughout'[u], n, id)) <= Cardinality(Below(S, n, id))
        BY <3>1, <3>2, BelowFinite
      <3>4. /\ Cardinality(Below(T, n, id)) \in Nat /\ Cardinality(Below(sometime'[u], n, id)) \in Nat
            /\ Cardinality(Below(T, n, id)) <= Cardinality(Below(sometime'[u], n, id))
        <4>1. sometime'[u] \in SUBSET Nodes /\ T \in SUBSET sometime'[u]
          BY <3>1, <3>2
        <4> QED BY <4>1, BelowFinite
      <3>5. Count(u)
        BY <1>0, <2>5
      <3>6. ASSUME tpc[u] \in {"get_routing", "store_routing"}
            PROVE  /\ call[u].num >= 1 + Cardinality(Below(throughout'[u], n, id))
                   /\ call[u].num <= 1 + Cardinality(Below(sometime'[u], n, id))
        BY <3>2, <3>3, <3>4, <3>5, <3>6 DEF Count
      <3>7. Count(u)'
        BY <2>1, <2>5, <3>1, <3>5, <3>6 DEF Count
      <3> QED BY <2>1, <2>5, <3>1, <3>7
    <2> QED BY <2>3, <2>4, <2>5
  <1>7. ASSUME NEW t \in Callers, GetRouting(t) PROVE Good(u)'
    <2>1. CASE u # t
      BY <1>a, <1>7, <2>1 DEF GetRouting, Types, nic, history
    <2>2. CASE u = t
      <3>1. /\ tpc[t] = "get_routing" /\ tpc'[t] = "store_routing"
            /\ call'[t].op = call[t].op /\ call'[t].num = call[t].num
            /\ call'[t].node = call[t].node /\ call'[t].id = call[t].id
            /\ call'[t].mask = MaskOf(hwroute[call[t].node])
            /\ UNCHANGED <<hwroute, throughout, sometime>>
        BY <1>7 DEF GetRouting, Types, Calls, nic, history
      <3>2. call[t].node \in Nodes
        BY DEF Types, Calls
      <3>3. Physical(call'[t].mask) <=> call[t].node \in Routed(hwroute)
        BY <3>1, <3>2 DEF Routed
      <3>4. CASE call[t].op = "num_nodes"
        <4>1. Count(t)
          BY <1>0, <3>4
        <4>2. throughout[t] \subseteq Routed(hwroute) /\ Routed(hwroute) \subseteq sometime[t]
          BY <3>1, <4>1 DEF Count
        <4>3. Count(t)'
          BY <3>1, <3>3, <4>1, <4>2 DEF Count, Routed
        <4> QED BY <2>2, <3>1, <4>3
      <3>5. CASE call[t].op # "num_nodes"
        BY <2>2, <3>1, <3>5
      <3> QED BY <3>4, <3>5
    <2> QED BY <2>1, <2>2
  <1>8. ASSUME NEW t \in Callers, StoreRouting(t) PROVE Good(u)'
    <2> DEFINE S == throughout[t]
               T == sometime[t]
               k == call[t].node
               id == call[t].id
               num == call[t].num + (IF Physical(call[t].mask) THEN 1 ELSE 0)
               next == NextNode(t, k + 1)
    <2>1. PICK npc \in {"idle", "get_routing"}, c \in Calls : Stored(t, k + 1, num, npc, c)
      BY <1>8, StoreForm
    <2>2. UNCHANGED <<hwroute, throughout, sometime>> /\ tpc[t] = "store_routing"
      BY <1>8 DEF StoreRouting, nic
    <2>3. CASE u # t
      BY <1>a, <2>1, <2>2, <2>3 DEF Stored, Types
    <2>4. CASE u = t
      <3>1. tpc'[t] = npc /\ call'[t] = c
        BY <2>1 DEF Stored, Types
      <3>2. S \in SUBSET Nodes /\ T \in SUBSET Nodes /\ id \in Nodes /\ k \in Nodes
            /\ call[t].num \in Nat
        BY DEF Types, Calls
      <3>3. k + 1 \in Nat
        BY <3>2 DEF Nodes
      <3>4. CASE call[t].op # "num_nodes"
        BY <2>1, <2>4, <3>1, <3>4 DEF Stored
      <3>5. CASE call[t].op = "num_nodes"
        <4>1. Count(t)
          BY <1>0, <3>5
        <4>2. /\ k # id
              /\ call[t].num >= 1 + Cardinality(Below(S, k, id))
              /\ call[t].num <= 1 + Cardinality(Below(T, k, id))
              /\ k \in S => Physical(call[t].mask)
              /\ Physical(call[t].mask) => k \in T
          BY <2>2, <4>1 DEF Count
        <4>3. /\ Cardinality(Below(S, k, id)) \in Nat /\ Cardinality(Below(T, k, id)) \in Nat
          BY <3>2, BelowFinite
        <4>4. /\ Cardinality(Below(S, k + 1, id)) = Cardinality(Below(S, k, id)) + (IF k \in S THEN 1 ELSE 0)
              /\ Cardinality(Below(T, k + 1, id)) = Cardinality(Below(T, k, id)) + (IF k \in T THEN 1 ELSE 0)
          BY <3>2, <4>2, BelowNext
        <4>5. /\ num >= 1 + Cardinality(Below(S, k + 1, id))
              /\ num <= 1 + Cardinality(Below(T, k + 1, id))
          BY <3>2, <4>2, <4>3, <4>4
        <4>6. /\ next # id
              /\ num >= 1 + Cardinality(Below(S, next, id))
              /\ num <= 1 + Cardinality(Below(T, next, id))
              /\ next \notin Nodes => /\ num >= 1 + Cardinality(S \ {id})
                                     /\ num <= 1 + Cardinality(T \ {id})
          <5>1. /\ next # id
                /\ Below(S, next, id) = Below(S, k + 1, id) /\ Below(T, next, id) = Below(T, k + 1, id)
                /\ next \notin Nodes => Below(S, k + 1, id) = S \ {id} /\ Below(T, k + 1, id) = T \ {id}
            BY <3>2, <3>3, CountNext
          <5> QED BY <4>5, <5>1
        <4>7. c.op = "num_nodes" /\ c.id = id /\ c.num = num
              /\ IF next \in Nodes THEN npc = "get_routing" /\ c.node = next ELSE npc = "idle"
          BY <2>1, <3>5 DEF Stored
        <4>8. CASE next \in Nodes
          BY <2>2, <2>4, <3>1, <4>1, <4>6, <4>7, <4>8 DEF Count, Routed
        <4>9. CASE next \notin Nodes
          BY <2>2, <2>4, <3>1, <4>6, <4>7, <4>9 DEF Count
        <4> QED BY <4>8, <4>9
      <3> QED BY <3>4, <3>5
    <2> QED BY <2>3, <2>4
  <1> QED BY <1>1, <1>2, <1>3, <1>4, <1>5, <1>6, <1>7, <1>8, NextSplit
-----------------------------------------------------------------------------
\* The invariant is inductive.
LEMMA InvStep == IInv /\ [RouteNext]_route_vars => IInv'
  BY TypesStep, CopiesStep, CountsStep DEF IInv

\* Every reachable state satisfies the invariant.
THEOREM Invariance == RouteSpec => []IInv
  BY InitInv, InvStep, PTL DEF RouteSpec

\* The count of a call never exceeds the number of nodes.
LEMMA CountRange ==
  ASSUME IInv, NEW t \in Callers, call[t].op = "num_nodes"
  PROVE  call[t].num <= AXIOM_NODES_NUM
  <1> DEFINE id == call[t].id
  <1>1. call[t] \in Calls /\ id \in Nodes /\ sometime[t] \in SUBSET Nodes /\ call[t].num \in Nat
    BY DEF IInv, Types, Calls
  <1>2. IsFiniteSet(Nodes) /\ Cardinality(Nodes) = AXIOM_NODES_NUM
    BY FS_Interval DEF Nodes
  <1>3. IsFiniteSet(Nodes \ {id}) /\ Cardinality(Nodes \ {id}) = AXIOM_NODES_NUM - 1
    BY <1>1, <1>2, FS_RemoveElement
  <1>4. ASSUME NEW S \in SUBSET (Nodes \ {id}), call[t].num <= 1 + Cardinality(S)
        PROVE  call[t].num <= AXIOM_NODES_NUM
    <2>1. IsFiniteSet(S) /\ Cardinality(S) <= AXIOM_NODES_NUM - 1
      BY <1>3, <1>4, FS_Subset
    <2>2. Cardinality(S) \in Nat
      BY <2>1, FS_CardinalityType
    <2> QED BY <1>1, <1>4, <2>1, <2>2
  <1>5. Count(t)
    BY DEF IInv, Counts
  <1>6. CASE tpc[t] = "idle"
    <2>1. call[t].num <= 1 + Cardinality(sometime[t] \ {id})
      BY <1>6 DEF IInv, NumNodesBounded
    <2> QED BY <1>1, <1>4, <2>1
  <1>7. CASE tpc[t] \in {"get_nodeid", "store_nodeid"}
    BY <1>5, <1>7 DEF Count
  <1>8. CASE tpc[t] \in {"get_routing", "store_routing"}
    <2>1. call[t].num <= 1 + Cardinality(Below(sometime[t], call[t].node, id))
      BY <1>5, <1>8 DEF Count
    <2>2. Below(sometime[t], call[t].node, id) \in SUBSET (Nodes \ {id})
      BY <1>1 DEF Below
    <2> QED BY <1>4, <2>1, <2>2
  <1> QED BY <1>5, <1>6, <1>7, <1>8 DEF Count, Stores

\* Registers, copies, calls, hops and counts of axiomnet_ioctl_generic and the library
\* calls above it stay in their ranges.
THEOREM TypeCorrect == RouteSpec => []RouteTypeOK
  <1>1. ASSUME IInv PROVE RouteTypeOK
    <2>1. ASSUME NEW t \in Callers
          PROVE  call[t].num \in 0 .. IF call[t].op = "next_hop"
                                      THEN AXIOM_INTERFACES_NUM - 1 ELSE AXIOM_NODES_NUM
      <3>1. call[t].num \in Nat
        BY <1>1 DEF IInv, Types, Calls
      <3>2. CASE call[t].op = "num_nodes"
        BY <1>1, <3>1, <3>2, CountRange
      <3>3. CASE call[t].op # "num_nodes"
        BY <1>1, <3>1, <3>3 DEF IInv, Results, AXIOM_INTERFACES_NUM
      <3> QED BY <3>2, <3>3
    <2>2. \A t \in Callers : /\ tpc[t] \in PCs /\ call[t].node \in Nodes /\ call[t].id \in Nodes
                             /\ call[t].ret \in {"AXIOM_RET_OK", "AXIOM_RET_ERROR"}
      BY <1>1 DEF IInv, Types, Calls
    <2> QED BY <1>1, <2>1, <2>2 DEF IInv, Types, RouteTypeOK, PCs, Stores, Bits
  <1> QED BY <1>1, Invariance, PTL

\* The driver's copies agree with the registers wherever the last ioctl on them was not
\* overtaken, for any number of nodes, threads and masks.
THEOREM CopiesAreCurrent == RouteSpec => []CopiesCurrent
  <1>1. IInv => CopiesCurrent
    BY DEF IInv
  <1> QED BY <1>1, Invariance, PTL

\* axiom_get_num_nodes counts every node that was routed all along and none that never
\* was, however its ioctls interleave with changes of the table and the node id.
THEOREM CountsBounded == RouteSpec => []NumNodesBounded
  <1>1. IInv => NumNodesBounded
    BY DEF IInv
  <1> QED BY <1>1, Invariance, PTL
-----------------------------------------------------------------------------
(***************************************************************************)
(* UserMsg                                                                 *)
(***************************************************************************)
HIDE RoutingAssumption
USE UserMsgAssumption

\* A call of the sender.
MsgRequests ==
  [op : {"send", "send_raw", "send_long"}, asked : Nat, kind : Kinds, size : Nat,
       st : Sending]

\* Results of a call.
Rets == {"OK", "NOTAVAIL", "INTR", "NOTREACH", "ERROR"}

\* The type of every variable.
MsgTypes ==
  /\ q \in [Kinds -> Seq(Nat)]
  /\ nonblk \in SUBSET Kinds /\ dev \in [Threads -> Devs]
  /\ flags \in [Devs -> SUBSET Kinds] /\ revents \in [Devs -> SUBSET Kinds]
  /\ pc \in [Threads -> Places] /\ op \in [Threads -> Recvs \cup {"flags"}]
  /\ kind \in [Threads -> Kinds] /\ upd \in [Threads -> SUBSET Kinds]
  /\ cap \in [Threads -> Nat] /\ psize \in [Threads -> Nat]
  /\ tmo \in [Threads -> BOOLEAN] /\ rdy \in [Threads -> SUBSET Kinds]
  /\ reg \in [Threads -> SUBSET Kinds] /\ trig \in [Threads -> BOOLEAN]
  /\ ret \in [Threads -> Rets] /\ why \in [Threads -> Errnos]
  /\ got \in [Threads -> Nat \cup {-1}] /\ nb \in [Threads -> BOOLEAN]
  /\ snd \in MsgRequests

\* What is queued fits the kind, and there is room for it.
Queued ==
  \A k \in Kinds :
    /\ Len(q[k]) <= QLen
    /\ \A i \in 1 .. Len(q[k]) : q[k][i] <= MaxSize(k)

\* A request that was accepted has a size its kind can carry.
Accepted == snd.st # "refused" => snd.size <= MaxSize(snd.kind)

\* What a thread in a call knows of its arguments.
Argument(t) ==
  /\ pc[t] # "idle" => got[t] = -1
  /\ pc[t] \in {"ioctl", "sleep"} => psize[t] = Psize(kind[t], cap[t])
  /\ pc[t] = "fcntl" => op[t] = "flags"

\* A call that began non-blocking passes poll a timeout, finds the files
\* non-blocking, and a change of flags under way makes them so again.
Unblocked(t) ==
  nb[t] =>
    /\ nonblk = Kinds
    /\ \A u \in Threads : pc[u] = "fcntl" => upd[u] \subseteq flags[dev[u]]
    /\ pc[t] # "sleep"
    /\ pc[t] \in {"poll_raw", "poll_long", "polled"} => tmo[t]

\* poll has looked at the file of kind k in this round.
Looked(t, k) == pc[t] = "polled" \/ (pc[t] = "poll_long" /\ k = "RAW")

\* A file that was looked at is readable, or empty, or its wait queue was woken.
Registered(t) ==
  \A k \in Kinds : Looked(t, k) =>
    /\ k \in reg[t]
    /\ k \in rdy[t] \/ q[k] = <<>> \/ trig[t]

\* Nobody else uses the axiom_dev_t of t.
Alone(t) == \A u \in Threads \ {t} : dev[u] # dev[t]

\* The loop over recv_fds of a thread with a device of its own finds what poll
\* reported.
Scanning(t) ==
  Alone(t) =>
    /\ pc[t] = "scan_raw" => revents[dev[t]] # {}
    /\ pc[t] = "scan_long" => "LONG" \in revents[dev[t]]

\* The inductive invariant.
MsgInv ==
  /\ MsgTypes /\ Queued /\ Accepted
  /\ \A t \in Threads : Argument(t) /\ Unblocked(t) /\ Registered(t) /\ Scanning(t)
-----------------------------------------------------------------------------
(* Types of UserMsg *)

\* The types hold initially; then one lemma for each action.
LEMMA InitTypes ==
  Init => MsgTypes
  BY DEF Init, MsgTypes, Kinds, MsgRequests, Sending, Rets, Errnos, Places,
       Recvs

\* SendCall keeps the types.
LEMMA SendCallTypes ==
  ASSUME MsgTypes, NEW o \in SendOps, NEW n \in Sizes, SendCall(o, n)
  PROVE  MsgTypes'
<1>1. axiom_send(o, n) \in MsgRequests
  BY DEF axiom_send, Width, MsgRequests, Sending, Kinds
<1>2. snd' \in MsgRequests
  BY <1>1 DEF SendCall, MsgRequests, Sending
<1> QED BY <1>2 DEF MsgTypes, SendCall, device, polling, result

\* SendDone keeps the types.
LEMMA SendDoneTypes ==
  ASSUME MsgTypes, SendDone
  PROVE  MsgTypes'
<1>1. snd' \in MsgRequests
  BY DEF MsgTypes, SendDone, MsgRequests, Sending
<1>2. snd.kind \in Kinds /\ snd.size \in Nat
  BY DEF MsgTypes, MsgRequests
<1>3. q' \in [Kinds -> Seq(Nat)]
  BY <1>2 DEF MsgTypes, SendDone
<1>4. trig' \in [Threads -> BOOLEAN]
  BY DEF MsgTypes, SendDone
<1> QED BY <1>1, <1>3, <1>4 DEF MsgTypes, SendDone, device, polling, result

\* SendFail keeps the types.
LEMMA SendFailTypes ==
  ASSUME MsgTypes, SendFail
  PROVE  MsgTypes'
<1>1. snd' \in MsgRequests
  BY DEF MsgTypes, SendFail, MsgRequests, Sending
<1> QED BY <1>1 DEF MsgTypes, SendFail, device, polling, result

\* RecvCall keeps the types.
LEMMA RecvCallTypes ==
  ASSUME MsgTypes, NEW t \in Threads, NEW c \in Caps, RecvCall(t, c)
  PROVE  MsgTypes'
  BY SMTT(30)
     DEF MsgTypes, RecvCall, Enter, TimesOut, NoBlock, device, polling,
          result, Kinds, Places, Recvs, Rets, Errnos

\* RecvKind keeps the types.
LEMMA RecvKindTypes ==
  ASSUME MsgTypes, NEW t \in Threads,
         NEW o \in {"recv_raw", "recv_long"}, NEW k \in Kinds, NEW c \in Caps,
         RecvKind(t, o, k, c)
  PROVE  MsgTypes'
  BY SMTT(30)
     DEF MsgTypes, RecvKind, Enter, NoBlock, device, polling, result, Kinds,
          Places, Recvs, Rets, Errnos

\* Flush keeps the types.
LEMMA FlushTypes ==
  ASSUME MsgTypes, NEW t \in Threads, NEW k \in Kinds, Flush(t, k)
  PROVE  MsgTypes'
  BY SMTT(30)
     DEF MsgTypes, Flush, device, polling, result, Kinds, Places, Recvs, Rets, Errnos

\* ChangeFlags keeps the types.
LEMMA ChangeFlagsTypes ==
  ASSUME MsgTypes, NEW t \in Threads, NEW ks \in SUBSET Kinds,
         NEW set \in BOOLEAN, ChangeFlags(t, ks, set)
  PROVE  MsgTypes'
<1>1. flags' \in [Devs -> SUBSET Kinds]
  BY DEF MsgTypes, ChangeFlags
<1>2. upd' \in [Threads -> SUBSET Kinds] /\ nb' \in [Threads -> BOOLEAN]
  BY DEF MsgTypes, ChangeFlags
<1>3. /\ pc' \in [Threads -> Places] /\ op' \in [Threads -> Recvs \cup {"flags"}]
      /\ cap' \in [Threads -> Nat] /\ ret' \in [Threads -> Rets] /\ why' \in [Threads -> Errnos]
      /\ got' \in [Threads -> Nat \cup {-1}]
  BY DEF MsgTypes, ChangeFlags, Enter, Places, Recvs, Rets, Errnos
<1> QED BY <1>1, <1>2, <1>3 DEF MsgTypes, ChangeFlags, device, polling, result

\* axiomnet_poll_raw keeps the types.
LEMMA PollRawTypes ==
  ASSUME MsgTypes, NEW t \in Threads, axiomnet_poll_raw(t)
  PROVE  MsgTypes'
  BY SMTT(30)
     DEF MsgTypes, axiomnet_poll_raw, PollFile, device, polling, result, Kinds,
          Places, Recvs, Rets, Errnos

\* axiomnet_poll_long keeps the types.
LEMMA PollLongTypes ==
  ASSUME MsgTypes, NEW t \in Threads, axiomnet_poll_long(t)
  PROVE  MsgTypes'
  BY SMTT(30)
     DEF MsgTypes, axiomnet_poll_long, PollFile, device, polling, result,
          Kinds, Places, Recvs, Rets, Errnos

\* PollReady keeps the types.
LEMMA PollReadyTypes ==
  ASSUME MsgTypes, NEW t \in Threads, PollReady(t)
  PROVE  MsgTypes'
  BY SMTT(30)
     DEF MsgTypes, PollReady, device, polling, result, Kinds, Places, Recvs, Rets, Errnos

\* PollTimeout keeps the types.
LEMMA PollTimeoutTypes ==
  ASSUME MsgTypes, NEW t \in Threads, PollTimeout(t)
  PROVE  MsgTypes'
  BY SMTT(30)
     DEF MsgTypes, PollTimeout, Return, device, polling, result, Kinds,
          Places, Recvs, Rets, Errnos

\* PollAgain keeps the types.
LEMMA PollAgainTypes ==
  ASSUME MsgTypes, NEW t \in Threads, PollAgain(t)
  PROVE  MsgTypes'
  BY SMTT(30)
     DEF MsgTypes, PollAgain, device, polling, result, Kinds, Places, Recvs, Rets, Errnos

\* PollInterrupted keeps the types.
LEMMA PollInterruptedTypes ==
  ASSUME MsgTypes, NEW t \in Threads, PollInterrupted(t)
  PROVE  MsgTypes'
  BY SMTT(30)
     DEF MsgTypes, PollInterrupted, Return, device, polling, result, Kinds,
          Places, Recvs, Rets, Errnos

\* ScanRaw keeps the types.
LEMMA ScanRawTypes ==
  ASSUME MsgTypes, NEW t \in Threads, ScanRaw(t)
  PROVE  MsgTypes'
<1>1. CASE "RAW" \in revents[dev[t]]
  <2>1. /\ ScanFile(t, "RAW")
        /\ UNCHANGED <<q, device, revents, op, cap, upd, got, snd>>
    BY <1>1 DEF ScanRaw
  <2>2. kind[t] \in Kinds /\ cap[t] \in Nat
    BY DEF MsgTypes
  <2> QED BY <2>1, <2>2, SMTT(30) DEF ScanFile, Psize, MaxSize,
       AXIOM_RAW_PAYLOAD_MAX_SIZE, MsgTypes, device, polling, Kinds, Places,
            Rets, Errnos
<1>2. CASE "RAW" \notin revents[dev[t]]
  <2>1. /\ pc' = [pc EXCEPT ![t] = "scan_long"]
        /\ UNCHANGED <<kind, psize, polling, trig, ret, why, nb>>
        /\ UNCHANGED <<q, device, revents, op, cap, upd, got, snd>>
    BY <1>2 DEF ScanRaw
  <2>2. kind[t] \in Kinds /\ cap[t] \in Nat
    BY DEF MsgTypes
  <2> QED BY <2>1, <2>2, SMTT(30) DEF MsgTypes, device, polling, Kinds, Places,
       Rets, Errnos
<1> QED BY <1>1, <1>2

\* ScanLong keeps the types.
LEMMA ScanLongTypes ==
  ASSUME MsgTypes, NEW t \in Threads, ScanLong(t)
  PROVE  MsgTypes'
<1>1. CASE "LONG" \in revents[dev[t]]
  <2>1. /\ ScanFile(t, "LONG")
        /\ UNCHANGED <<q, device, revents, op, cap, upd, got, snd>>
    BY <1>1 DEF ScanLong
  <2>2. kind[t] \in Kinds /\ cap[t] \in Nat
    BY DEF MsgTypes
  <2> QED BY <2>1, <2>2, SMTT(30) DEF ScanFile, Psize, MaxSize,
       AXIOM_LONG_PAYLOAD_MAX_SIZE, MsgTypes, device, polling, Kinds, Places,
            Rets, Errnos
<1>2. CASE "LONG" \notin revents[dev[t]]
  <2>1. /\ Return(t, "ERROR", "none")
        /\ UNCHANGED <<q, device, revents, op, cap, upd, got, snd>>
    BY <1>2 DEF ScanLong
  <2>2. kind[t] \in Kinds /\ cap[t] \in Nat
    BY DEF MsgTypes
  <2> QED BY <2>1, <2>2, SMTT(30) DEF Return, MsgTypes, device, polling, Kinds,
       Places, Rets, Errnos
<1> QED BY <1>1, <1>2

\* RecvTake keeps the types.
LEMMA RecvTakeTypes ==
  ASSUME MsgTypes, NEW t \in Threads, RecvTake(t)
  PROVE  MsgTypes'
<1> DEFINE n == Head(q[kind[t]])
<1>1. kind[t] \in Kinds /\ n \in Nat /\ Tail(q[kind[t]]) \in Seq(Nat)
  BY DEF MsgTypes, RecvTake
<1>2. q' \in [Kinds -> Seq(Nat)]
  BY <1>1 DEF MsgTypes, RecvTake
<1>3. got' \in [Threads -> Nat \cup {-1}]
  BY <1>1 DEF MsgTypes, RecvTake
<1>4. PICK e \in {"EFBIG", "none", "EFAULT"} : Return(t, RetOf(e), e)
  BY DEF RecvTake
<1>5. e \in Errnos /\ RetOf(e) \in Rets
  BY DEF Errnos, RetOf, Rets
<1> QED BY <1>2, <1>3, <1>4, <1>5 DEF RecvTake, Return, MsgTypes, device, Kinds,
     Places

\* RecvEmpty keeps the types.
LEMMA RecvEmptyTypes ==
  ASSUME MsgTypes, NEW t \in Threads, RecvEmpty(t)
  PROVE  MsgTypes'
<1>1. CASE kind[t] \in nonblk
  <2>1. /\ Return(t, RetOf("EAGAIN"), "EAGAIN")
        /\ UNCHANGED <<q, device, revents, op, cap, upd, got, snd>>
    BY <1>1 DEF RecvEmpty
  <2>2. kind[t] \in Kinds /\ cap[t] \in Nat
    BY DEF MsgTypes
  <2> QED BY <2>1, <2>2, SMTT(30) DEF Return, RetOf, MsgTypes, device, polling,
       Kinds, Places, Rets, Errnos
<1>2. CASE kind[t] \notin nonblk
  <2>1. /\ pc' = [pc EXCEPT ![t] = "sleep"]
        /\ UNCHANGED <<kind, psize, polling, trig, ret, why, nb>>
        /\ UNCHANGED <<q, device, revents, op, cap, upd, got, snd>>
    BY <1>2 DEF RecvEmpty
  <2>2. kind[t] \in Kinds /\ cap[t] \in Nat
    BY DEF MsgTypes
  <2> QED BY <2>1, <2>2, SMTT(30) DEF MsgTypes, device, polling, Kinds, Places,
       Rets, Errnos
<1> QED BY <1>1, <1>2

\* RecvWoken keeps the types.
LEMMA RecvWokenTypes ==
  ASSUME MsgTypes, NEW t \in Threads, RecvWoken(t)
  PROVE  MsgTypes'
  BY SMTT(30)
     DEF MsgTypes, RecvWoken, device, polling, result, Kinds, Places, Recvs, Rets, Errnos

\* RecvInterrupted keeps the types.
LEMMA RecvInterruptedTypes ==
  ASSUME MsgTypes, NEW t \in Threads, RecvInterrupted(t)
  PROVE  MsgTypes'
  BY SMTT(30)
     DEF MsgTypes, RecvInterrupted, Return, RetOf, device, polling, result,
          Kinds, Places, Recvs, Rets, Errnos

\* axiom_update_flags keeps the types.
LEMMA UpdateFlagsTypes ==
  ASSUME MsgTypes, NEW t \in Threads, axiom_update_flags(t)
  PROVE  MsgTypes'
  BY SMTT(30)
     DEF MsgTypes, axiom_update_flags, NextFile, device, polling, result,
          Kinds, Places, Recvs, Rets, Errnos

\* The rest of the invariant holds initially.
LEMMA InitRest ==
  Init =>
    /\ Queued /\ Accepted
    /\ \A t \in Threads : Argument(t) /\ Unblocked(t) /\ Registered(t) /\ Scanning(t)
  BY DEF Init, Queued, Accepted, Argument, Unblocked, Registered, Scanning, Looked,
       Kinds, MaxSize, AXIOM_RAW_PAYLOAD_MAX_SIZE

\* A call keeps its arguments until it returns.
LEMMA ArgumentStep ==
  ASSUME MsgInv, Next, NEW u \in Threads
  PROVE  Argument(u)'
<1> USE DEF MsgInv
<1>1. ASSUME NEW o \in SendOps, NEW n \in Sizes, SendCall(o, n)
      PROVE  Argument(u)'
  BY <1>1 DEF SendCall, axiom_send, axiom_send_raw_prepare,
       axiom_send_long_prepare, device, polling, result, MsgTypes, Argument
<1>2. ASSUME SendDone
      PROVE  Argument(u)'
  BY <1>2 DEF SendDone, device, polling, result, MsgTypes, Argument
<1>3. ASSUME SendFail
      PROVE  Argument(u)'
  BY <1>3 DEF SendFail, device, polling, result, MsgTypes, Argument
<1>4. ASSUME NEW t \in Threads, NEW c \in Caps, RecvCall(t, c)
      PROVE  Argument(u)'
  BY <1>4 DEF RecvCall, Enter, TimesOut, NoBlock, device, polling, result,
       MsgTypes, Argument
<1>5. ASSUME NEW t \in Threads, NEW o \in {"recv_raw", "recv_long"}, NEW k \in Kinds,
     NEW c \in Caps, RecvKind(t, o, k, c)
      PROVE  Argument(u)'
  <2>1. c \in Nat /\ Psize(k, c) = c
    BY <1>5 DEF RecvKind, Psize, MaxSize, Kinds, AXIOM_RAW_PAYLOAD_MAX_SIZE,
         AXIOM_LONG_PAYLOAD_MAX_SIZE
  <2> QED BY <1>5, <2>1 DEF RecvKind, Enter, device, MsgTypes, Argument
<1>6. ASSUME NEW t \in Threads, NEW k \in Kinds, Flush(t, k)
      PROVE  Argument(u)'
  BY <1>6 DEF Flush, device, polling, result, MsgTypes, Argument
<1>7. ASSUME NEW t \in Threads, NEW ks \in SUBSET Kinds, NEW set \in BOOLEAN,
     ChangeFlags(t, ks, set)
      PROVE  Argument(u)'
  BY <1>7 DEF ChangeFlags, Enter, device, polling, result, MsgTypes, Argument
<1>8. ASSUME NEW t \in Threads, axiomnet_poll_raw(t)
      PROVE  Argument(u)'
  BY <1>8 DEF axiomnet_poll_raw, PollFile, device, polling, result, MsgTypes,
       Argument
<1>9. ASSUME NEW t \in Threads, axiomnet_poll_long(t)
      PROVE  Argument(u)'
  BY <1>9 DEF axiomnet_poll_long, PollFile, device, polling, result, MsgTypes,
       Argument
<1>10. ASSUME NEW t \in Threads, PollReady(t)
      PROVE  Argument(u)'
  BY <1>10 DEF PollReady, device, polling, result, MsgTypes, Argument
<1>11. ASSUME NEW t \in Threads, PollTimeout(t)
      PROVE  Argument(u)'
  BY <1>11 DEF PollTimeout, Return, device, polling, result, MsgTypes, Argument
<1>12. ASSUME NEW t \in Threads, PollAgain(t)
      PROVE  Argument(u)'
  BY <1>12 DEF PollAgain, device, polling, result, MsgTypes, Argument
<1>13. ASSUME NEW t \in Threads, PollInterrupted(t)
      PROVE  Argument(u)'
  BY <1>13 DEF PollInterrupted, Return, device, polling, result, MsgTypes,
       Argument
<1>14. ASSUME NEW t \in Threads, ScanRaw(t)
      PROVE  Argument(u)'
  BY <1>14 DEF ScanRaw, ScanFile, Psize, device, polling, result, MsgTypes,
       Argument
<1>15. ASSUME NEW t \in Threads, ScanLong(t)
      PROVE  Argument(u)'
  BY <1>15 DEF ScanLong, ScanFile, Return, Psize, device, polling, result,
       MsgTypes, Argument
<1>16. ASSUME NEW t \in Threads, RecvTake(t)
      PROVE  Argument(u)'
  BY <1>16 DEF RecvTake, Return, RetOf, device, polling, result, MsgTypes,
       Argument
<1>17. ASSUME NEW t \in Threads, RecvEmpty(t)
      PROVE  Argument(u)'
  <2>1. CASE kind[t] \in nonblk
    BY <1>17, <2>1 DEF RecvEmpty, Return, device, polling, MsgTypes, Argument
  <2>2. CASE kind[t] \notin nonblk
    BY <1>17, <2>2 DEF RecvEmpty, device, polling, MsgTypes, Argument
  <2> QED BY <2>1, <2>2
<1>18. ASSUME NEW t \in Threads, RecvWoken(t)
      PROVE  Argument(u)'
  BY <1>18 DEF RecvWoken, device, polling, result, MsgTypes, Argument
<1>19. ASSUME NEW t \in Threads, RecvInterrupted(t)
      PROVE  Argument(u)'
  BY <1>19 DEF RecvInterrupted, Return, RetOf, device, polling, result,
       MsgTypes, Argument
<1>20. ASSUME NEW t \in Threads, axiom_update_flags(t)
      PROVE  Argument(u)'
  BY <1>20 DEF axiom_update_flags, NextFile, device, polling, result, MsgTypes,
       Argument
<1> QED
  BY <1>1, <1>2, <1>3, <1>4, <1>5, <1>6, <1>7, <1>8, <1>9, <1>10,
     <1>11, <1>12, <1>13, <1>14, <1>15, <1>16, <1>17, <1>18, <1>19, <1>20
  DEF Next, Sender, Call, Continue, Signal, axiom_recv_raw, axiom_recv_long,
      axiom_flush_raw, axiom_flush_long, Kinds

\* No step makes a non-blocking call wait: only unsetting a flag would, and that ends the claim.
LEMMA UnblockedStep ==
  ASSUME MsgInv, Next, NEW u \in Threads
  PROVE  Unblocked(u)'
<1> USE DEF MsgInv
<1>1. ASSUME NEW o \in SendOps, NEW n \in Sizes, SendCall(o, n)
      PROVE  Unblocked(u)'
  BY <1>1 DEF SendCall, axiom_send, axiom_send_raw_prepare,
       axiom_send_long_prepare, device, polling, result, MsgTypes, Unblocked
<1>2. ASSUME SendDone
      PROVE  Unblocked(u)'
  BY <1>2 DEF SendDone, device, polling, result, MsgTypes, Unblocked
<1>3. ASSUME SendFail
      PROVE  Unblocked(u)'
  BY <1>3 DEF SendFail, device, polling, result, MsgTypes, Unblocked
<1>4. ASSUME NEW t \in Threads, NEW c \in Caps, RecvCall(t, c)
      PROVE  Unblocked(u)'
  BY <1>4 DEF RecvCall, Enter, TimesOut, NoBlock, device, polling, result,
       MsgTypes, Unblocked
<1>5. ASSUME NEW t \in Threads, NEW o \in {"recv_raw", "recv_long"}, NEW k \in Kinds,
     NEW c \in Caps, RecvKind(t, o, k, c)
      PROVE  Unblocked(u)'
  BY <1>5 DEF RecvKind, Enter, NoBlock, device, polling, result, MsgTypes,
       Unblocked
<1>6. ASSUME NEW t \in Threads, NEW k \in Kinds, Flush(t, k)
      PROVE  Unblocked(u)'
  BY <1>6 DEF Flush, device, polling, result, MsgTypes, Unblocked
<1>7. ASSUME NEW t \in Threads, NEW ks \in SUBSET Kinds, NEW set \in BOOLEAN,
     ChangeFlags(t, ks, set)
      PROVE  Unblocked(u)'
  BY <1>7 DEF ChangeFlags, Enter, device, polling, result, MsgTypes, Unblocked
<1>8. ASSUME NEW t \in Threads, axiomnet_poll_raw(t)
      PROVE  Unblocked(u)'
  BY <1>8 DEF axiomnet_poll_raw, PollFile, device, polling, result, MsgTypes,
       Unblocked
<1>9. ASSUME NEW t \in Threads, axiomnet_poll_long(t)
      PROVE  Unblocked(u)'
  BY <1>9 DEF axiomnet_poll_long, PollFile, device, polling, result, MsgTypes,
       Unblocked
<1>10. ASSUME NEW t \in Threads, PollReady(t)
      PROVE  Unblocked(u)'
  BY <1>10 DEF PollReady, device, polling, result, MsgTypes, Unblocked
<1>11. ASSUME NEW t \in Threads, PollTimeout(t)
      PROVE  Unblocked(u)'
  BY <1>11 DEF PollTimeout, Return, device, polling, result, MsgTypes, Unblocked
<1>12. ASSUME NEW t \in Threads, PollAgain(t)
      PROVE  Unblocked(u)'
  BY <1>12 DEF PollAgain, device, polling, result, MsgTypes, Unblocked
<1>13. ASSUME NEW t \in Threads, PollInterrupted(t)
      PROVE  Unblocked(u)'
  BY <1>13 DEF PollInterrupted, Return, device, polling, result, MsgTypes,
       Unblocked
<1>14. ASSUME NEW t \in Threads, ScanRaw(t)
      PROVE  Unblocked(u)'
  <2>1. CASE "RAW" \in revents[dev[t]]
    <3>1. /\ ScanFile(t, "RAW")
          /\ UNCHANGED <<q, device, revents, op, cap, upd, got, snd>>
          /\ pc[t] = "scan_raw"
      BY <1>14, <2>1 DEF ScanRaw
    <3>2. t \in Threads
      BY <1>14
    <3> QED BY <2>1, <3>1, <3>2 DEF ScanFile, device, polling, MsgInv, MsgTypes,
         Unblocked
  <2>2. CASE "RAW" \notin revents[dev[t]]
    <3>1. /\ pc' = [pc EXCEPT ![t] = "scan_long"]
          /\ UNCHANGED <<kind, psize, polling, trig, ret, why, nb>>
          /\ UNCHANGED <<q, device, revents, op, cap, upd, got, snd>>
          /\ pc[t] = "scan_raw"
      BY <1>14, <2>2 DEF ScanRaw
    <3>2. t \in Threads
      BY <1>14
    <3> QED BY <2>2, <3>1, <3>2 DEF device, polling, MsgInv, MsgTypes, Unblocked
  <2> QED BY <2>1, <2>2
<1>15. ASSUME NEW t \in Threads, ScanLong(t)
      PROVE  Unblocked(u)'
  <2>1. CASE "LONG" \in revents[dev[t]]
    <3>1. /\ ScanFile(t, "LONG")
          /\ UNCHANGED <<q, device, revents, op, cap, upd, got, snd>>
          /\ pc[t] = "scan_long"
      BY <1>15, <2>1 DEF ScanLong
    <3>2. t \in Threads
      BY <1>15
    <3> QED BY <2>1, <3>1, <3>2 DEF ScanFile, device, polling, MsgInv, MsgTypes,
         Unblocked
  <2>2. CASE "LONG" \notin revents[dev[t]]
    <3>1. /\ Return(t, "ERROR", "none")
          /\ UNCHANGED <<q, device, revents, op, cap, upd, got, snd>>
          /\ pc[t] = "scan_long"
      BY <1>15, <2>2 DEF ScanLong
    <3>2. t \in Threads
      BY <1>15
    <3> QED BY <2>2, <3>1, <3>2 DEF Return, device, polling, MsgInv, MsgTypes,
         Unblocked
  <2> QED BY <2>1, <2>2
<1>16. ASSUME NEW t \in Threads, RecvTake(t)
      PROVE  Unblocked(u)'
  BY <1>16 DEF RecvTake, Return, RetOf, device, polling, result, MsgTypes,
       Unblocked
<1>17. ASSUME NEW t \in Threads, RecvEmpty(t)
      PROVE  Unblocked(u)'
  <2>1. CASE kind[t] \in nonblk
    <3>1. /\ Return(t, RetOf("EAGAIN"), "EAGAIN")
          /\ UNCHANGED <<q, device, revents, op, cap, upd, got, snd>>
          /\ pc[t] = "ioctl"
      BY <1>17, <2>1 DEF RecvEmpty
    <3>2. t \in Threads
      BY <1>17
    <3> QED BY <2>1, <3>1, <3>2 DEF Return, device, polling, MsgInv, MsgTypes,
         Unblocked
  <2>2. CASE kind[t] \notin nonblk
    <3>1. /\ pc' = [pc EXCEPT ![t] = "sleep"]
          /\ UNCHANGED <<kind, psize, polling, trig, ret, why, nb>>
          /\ UNCHANGED <<q, device, revents, op, cap, upd, got, snd>>
          /\ pc[t] = "ioctl"
      BY <1>17, <2>2 DEF RecvEmpty
    <3>2. t \in Threads
      BY <1>17
    <3> QED BY <2>2, <3>1, <3>2 DEF device, polling, MsgInv, MsgTypes, Unblocked
  <2> QED BY <2>1, <2>2
<1>18. ASSUME NEW t \in Threads, RecvWoken(t)
      PROVE  Unblocked(u)'
  BY <1>18 DEF RecvWoken, device, polling, result, MsgTypes, Unblocked
<1>19. ASSUME NEW t \in Threads, RecvInterrupted(t)
      PROVE  Unblocked(u)'
  BY <1>19 DEF RecvInterrupted, Return, RetOf, device, polling, result,
       MsgTypes, Unblocked
<1>20. ASSUME NEW t \in Threads, axiom_update_flags(t)
      PROVE  Unblocked(u)'
  <2> SUFFICES ASSUME nb[u] PROVE Unblocked(u)'
    BY <1>20 DEF axiom_update_flags, Unblocked
  <2>1. /\ nonblk = Kinds /\ t \in Threads
        /\ \A w \in Threads : pc[w] = "fcntl" => upd[w] \subseteq flags[dev[w]]
    BY <1>20 DEF Unblocked
  <2>5. pc[t] = "fcntl" /\ upd[t] # {} /\ upd[t] \in SUBSET Kinds
    BY <1>20 DEF axiom_update_flags, MsgTypes
  <2>6. NextFile(t) \in upd[t]
    BY <2>5 DEF NextFile, Kinds
  <2>2. NextFile(t) \in upd[t] /\ upd[t] \subseteq Kinds /\ upd[t] \subseteq flags[dev[t]]
    BY <2>1, <2>5, <2>6
  <2>3. nonblk' = Kinds
    BY <1>20, <2>1, <2>2 DEF axiom_update_flags
  <2>4. \A w \in Threads : pc'[w] = "fcntl" => upd'[w] \subseteq flags'[dev'[w]]
    BY <1>20, <2>1, <2>2 DEF axiom_update_flags, MsgTypes
  <2> QED BY <1>20, <2>3, <2>4 DEF axiom_update_flags, polling, Unblocked, MsgTypes
<1> QED
  BY <1>1, <1>2, <1>3, <1>4, <1>5, <1>6, <1>7, <1>8, <1>9, <1>10,
     <1>11, <1>12, <1>13, <1>14, <1>15, <1>16, <1>17, <1>18, <1>19, <1>20
  DEF Next, Sender, Call, Continue, Signal, axiom_recv_raw, axiom_recv_long,
      axiom_flush_raw, axiom_flush_long, Kinds

\* What poll has seen stays true, or it was woken: it registers before it reads.
LEMMA RegisteredStep ==
  ASSUME MsgInv, Next, NEW u \in Threads
  PROVE  Registered(u)'
<1> USE DEF MsgInv
<1>1. ASSUME NEW o \in SendOps, NEW n \in Sizes, SendCall(o, n)
      PROVE  Registered(u)'
  BY <1>1 DEF SendCall, axiom_send, axiom_send_raw_prepare,
       axiom_send_long_prepare, device, polling, result, MsgTypes, Registered,
       Looked
<1>2. ASSUME SendDone
      PROVE  Registered(u)'
  <2>1. snd.kind \in Kinds
    BY DEF MsgTypes, MsgRequests
  <2>2. \A k \in Kinds : k # snd.kind => q'[k] = q[k]
    BY <1>2 DEF SendDone, MsgTypes
  <2>3. trig'[u] = (trig[u] \/ (q[snd.kind] = <<>> /\ snd.kind \in reg[u]))
    BY <1>2 DEF SendDone
  <2> QED BY <1>2, <2>1, <2>2, <2>3 DEF SendDone, polling, Registered, Looked
<1>3. ASSUME SendFail
      PROVE  Registered(u)'
  BY <1>3 DEF SendFail, device, polling, result, MsgTypes, Registered, Looked
<1>4. ASSUME NEW t \in Threads, NEW c \in Caps, RecvCall(t, c)
      PROVE  Registered(u)'
  BY <1>4 DEF RecvCall, Enter, TimesOut, NoBlock, device, polling, result,
       MsgTypes, Registered, Looked
<1>5. ASSUME NEW t \in Threads, NEW o \in {"recv_raw", "recv_long"}, NEW k \in Kinds,
     NEW c \in Caps, RecvKind(t, o, k, c)
      PROVE  Registered(u)'
  BY <1>5 DEF RecvKind, Enter, NoBlock, device, polling, result, MsgTypes,
       Registered, Looked
<1>6. ASSUME NEW t \in Threads, NEW k \in Kinds, Flush(t, k)
      PROVE  Registered(u)'
  BY <1>6 DEF Flush, device, polling, result, MsgTypes, Registered, Looked
<1>7. ASSUME NEW t \in Threads, NEW ks \in SUBSET Kinds, NEW set \in BOOLEAN,
     ChangeFlags(t, ks, set)
      PROVE  Registered(u)'
  BY <1>7 DEF ChangeFlags, Enter, device, polling, result, MsgTypes, Registered,
       Looked
<1>8. ASSUME NEW t \in Threads, axiomnet_poll_raw(t)
      PROVE  Registered(u)'
  BY <1>8 DEF axiomnet_poll_raw, PollFile, device, polling, result, MsgTypes,
       Registered, Looked
<1>9. ASSUME NEW t \in Threads, axiomnet_poll_long(t)
      PROVE  Registered(u)'
  BY <1>9 DEF axiomnet_poll_long, PollFile, MsgTypes, Registered, Looked, Kinds
<1>10. ASSUME NEW t \in Threads, PollReady(t)
      PROVE  Registered(u)'
  BY <1>10 DEF PollReady, device, polling, result, MsgTypes, Registered, Looked
<1>11. ASSUME NEW t \in Threads, PollTimeout(t)
      PROVE  Registered(u)'
  BY <1>11 DEF PollTimeout, Return, device, polling, result, MsgTypes,
       Registered, Looked
<1>12. ASSUME NEW t \in Threads, PollAgain(t)
      PROVE  Registered(u)'
  BY <1>12 DEF PollAgain, device, polling, result, MsgTypes, Registered, Looked
<1>13. ASSUME NEW t \in Threads, PollInterrupted(t)
      PROVE  Registered(u)'
  BY <1>13 DEF PollInterrupted, Return, device, polling, result, MsgTypes,
       Registered, Looked
<1>14. ASSUME NEW t \in Threads, ScanRaw(t)
      PROVE  Registered(u)'
  BY <1>14 DEF ScanRaw, ScanFile, Psize, device, polling, result, MsgTypes,
       Registered, Looked
<1>15. ASSUME NEW t \in Threads, ScanLong(t)
      PROVE  Registered(u)'
  BY <1>15 DEF ScanLong, ScanFile, Return, Psize, device, polling, result,
       MsgTypes, Registered, Looked
<1>16. ASSUME NEW t \in Threads, RecvTake(t)
      PROVE  Registered(u)'
  BY <1>16 DEF RecvTake, Return, RetOf, device, polling, result, MsgTypes,
       Registered, Looked
<1>17. ASSUME NEW t \in Threads, RecvEmpty(t)
      PROVE  Registered(u)'
  <2>1. CASE kind[t] \in nonblk
    <3>1. /\ Return(t, RetOf("EAGAIN"), "EAGAIN")
          /\ UNCHANGED <<q, device, revents, op, cap, upd, got, snd>>
          /\ pc[t] = "ioctl"
      BY <1>17, <2>1 DEF RecvEmpty
    <3>2. t \in Threads
      BY <1>17
    <3> QED BY <2>1, <3>1, <3>2 DEF Return, device, polling, MsgInv, MsgTypes,
         Registered, Looked
  <2>2. CASE kind[t] \notin nonblk
    <3>1. /\ pc' = [pc EXCEPT ![t] = "sleep"]
          /\ UNCHANGED <<kind, psize, polling, trig, ret, why, nb>>
          /\ UNCHANGED <<q, device, revents, op, cap, upd, got, snd>>
          /\ pc[t] = "ioctl"
      BY <1>17, <2>2 DEF RecvEmpty
    <3>2. t \in Threads
      BY <1>17
    <3> QED BY <2>2, <3>1, <3>2 DEF device, polling, MsgInv, MsgTypes, Registered,
         Looked
  <2> QED BY <2>1, <2>2
<1>18. ASSUME NEW t \in Threads, RecvWoken(t)
      PROVE  Registered(u)'
  BY <1>18 DEF RecvWoken, device, polling, result, MsgTypes, Registered, Looked
<1>19. ASSUME NEW t \in Threads, RecvInterrupted(t)
      PROVE  Registered(u)'
  BY <1>19 DEF RecvInterrupted, Return, RetOf, device, polling, result,
       MsgTypes, Registered, Looked
<1>20. ASSUME NEW t \in Threads, axiom_update_flags(t)
      PROVE  Registered(u)'
  BY <1>20 DEF axiom_update_flags, NextFile, device, polling, result, MsgTypes,
       Registered, Looked
<1> QED
  BY <1>1, <1>2, <1>3, <1>4, <1>5, <1>6, <1>7, <1>8, <1>9, <1>10,
     <1>11, <1>12, <1>13, <1>14, <1>15, <1>16, <1>17, <1>18, <1>19, <1>20
  DEF Next, Sender, Call, Continue, Signal, axiom_recv_raw, axiom_recv_long,
      axiom_flush_raw, axiom_flush_long, Kinds

\* Nobody overwrites the poll results of a thread with a device of its own.
LEMMA ScanningStep ==
  ASSUME MsgInv, Next, NEW u \in Threads
  PROVE  Scanning(u)'
<1> USE DEF MsgInv
<1>1. ASSUME NEW o \in SendOps, NEW n \in Sizes, SendCall(o, n)
      PROVE  Scanning(u)'
  BY <1>1 DEF SendCall, axiom_send, axiom_send_raw_prepare,
       axiom_send_long_prepare, device, polling, result, MsgTypes, Scanning, Alone
<1>2. ASSUME SendDone
      PROVE  Scanning(u)'
  BY <1>2 DEF SendDone, device, polling, result, MsgTypes, Scanning, Alone
<1>3. ASSUME SendFail
      PROVE  Scanning(u)'
  BY <1>3 DEF SendFail, device, polling, result, MsgTypes, Scanning, Alone
<1>4. ASSUME NEW t \in Threads, NEW c \in Caps, RecvCall(t, c)
      PROVE  Scanning(u)'
  BY <1>4 DEF RecvCall, Enter, TimesOut, NoBlock, device, polling, result,
       MsgTypes, Scanning, Alone
<1>5. ASSUME NEW t \in Threads, NEW o \in {"recv_raw", "recv_long"}, NEW k \in Kinds,
     NEW c \in Caps, RecvKind(t, o, k, c)
      PROVE  Scanning(u)'
  BY <1>5 DEF RecvKind, Enter, NoBlock, device, polling, result, MsgTypes,
       Scanning, Alone
<1>6. ASSUME NEW t \in Threads, NEW k \in Kinds, Flush(t, k)
      PROVE  Scanning(u)'
  BY <1>6 DEF Flush, device, polling, result, MsgTypes, Scanning, Alone
<1>7. ASSUME NEW t \in Threads, NEW ks \in SUBSET Kinds, NEW set \in BOOLEAN,
     ChangeFlags(t, ks, set)
      PROVE  Scanning(u)'
  BY <1>7 DEF ChangeFlags, Enter, device, polling, result, MsgTypes, Scanning,
       Alone
<1>8. ASSUME NEW t \in Threads, axiomnet_poll_raw(t)
      PROVE  Scanning(u)'
  BY <1>8 DEF axiomnet_poll_raw, PollFile, device, polling, result, MsgTypes,
       Scanning, Alone
<1>9. ASSUME NEW t \in Threads, axiomnet_poll_long(t)
      PROVE  Scanning(u)'
  BY <1>9 DEF axiomnet_poll_long, PollFile, device, polling, result, MsgTypes,
       Scanning, Alone
<1>10. ASSUME NEW t \in Threads, PollReady(t)
      PROVE  Scanning(u)'
  BY <1>10 DEF PollReady, device, polling, result, MsgTypes, Scanning, Alone
<1>11. ASSUME NEW t \in Threads, PollTimeout(t)
      PROVE  Scanning(u)'
  BY <1>11 DEF PollTimeout, Return, device, polling, result, MsgTypes, Scanning,
       Alone
<1>12. ASSUME NEW t \in Threads, PollAgain(t)
      PROVE  Scanning(u)'
  BY <1>12 DEF PollAgain, device, polling, result, MsgTypes, Scanning, Alone
<1>13. ASSUME NEW t \in Threads, PollInterrupted(t)
      PROVE  Scanning(u)'
  BY <1>13 DEF PollInterrupted, Return, device, polling, result, MsgTypes,
       Scanning, Alone
<1>14. ASSUME NEW t \in Threads, ScanRaw(t)
      PROVE  Scanning(u)'
  <2>1. CASE "RAW" \in revents[dev[t]]
    <3>1. /\ ScanFile(t, "RAW")
          /\ UNCHANGED <<q, device, revents, op, cap, upd, got, snd>>
          /\ pc[t] = "scan_raw"
      BY <1>14, <2>1 DEF ScanRaw
    <3>2. t \in Threads
      BY <1>14
    <3> QED BY <2>1, <3>1, <3>2 DEF ScanFile, device, polling, MsgInv, MsgTypes,
         Scanning, Alone, Kinds
  <2>2. CASE "RAW" \notin revents[dev[t]]
    <3>1. /\ pc' = [pc EXCEPT ![t] = "scan_long"]
          /\ UNCHANGED <<kind, psize, polling, trig, ret, why, nb>>
          /\ UNCHANGED <<q, device, revents, op, cap, upd, got, snd>>
          /\ pc[t] = "scan_raw"
      BY <1>14, <2>2 DEF ScanRaw
    <3>2. t \in Threads
      BY <1>14
    <3>3. revents[dev[t]] \in SUBSET Kinds
      BY <3>2 DEF MsgTypes
    <3>4. revents[dev[t]] # {} => "LONG" \in revents[dev[t]]
      BY <2>2, <3>3 DEF Kinds
    <3> QED BY <3>1, <3>2, <3>4 DEF device, polling, MsgInv, MsgTypes, Scanning, Alone
  <2> QED BY <2>1, <2>2
<1>15. ASSUME NEW t \in Threads, ScanLong(t)
      PROVE  Scanning(u)'
  <2>1. CASE "LONG" \in revents[dev[t]]
    <3>1. /\ ScanFile(t, "LONG")
          /\ UNCHANGED <<q, device, revents, op, cap, upd, got, snd>>
          /\ pc[t] = "scan_long"
      BY <1>15, <2>1 DEF ScanLong
    <3>2. t \in Threads
      BY <1>15
    <3> QED BY <2>1, <3>1, <3>2 DEF ScanFile, device, polling, MsgInv, MsgTypes,
         Scanning, Alone
  <2>2. CASE "LONG" \notin revents[dev[t]]
    <3>1. /\ Return(t, "ERROR", "none")
          /\ UNCHANGED <<q, device, revents, op, cap, upd, got, snd>>
          /\ pc[t] = "scan_long"
      BY <1>15, <2>2 DEF ScanLong
    <3>2. t \in Threads
      BY <1>15
    <3> QED BY <2>2, <3>1, <3>2 DEF Return, device, polling, MsgInv, MsgTypes,
         Scanning, Alone
  <2> QED BY <2>1, <2>2
<1>16. ASSUME NEW t \in Threads, RecvTake(t)
      PROVE  Scanning(u)'
  BY <1>16 DEF RecvTake, Return, RetOf, device, polling, result, MsgTypes,
       Scanning, Alone
<1>17. ASSUME NEW t \in Threads, RecvEmpty(t)
      PROVE  Scanning(u)'
  <2>1. CASE kind[t] \in nonblk
    <3>1. /\ Return(t, RetOf("EAGAIN"), "EAGAIN")
          /\ UNCHANGED <<q, device, revents, op, cap, upd, got, snd>>
          /\ pc[t] = "ioctl"
      BY <1>17, <2>1 DEF RecvEmpty
    <3>2. t \in Threads
      BY <1>17
    <3> QED BY <2>1, <3>1, <3>2 DEF Return, device, polling, MsgInv, MsgTypes,
         Scanning, Alone
  <2>2. CASE kind[t] \notin nonblk
    <3>1. /\ pc' = [pc EXCEPT ![t] = "sleep"]
          /\ UNCHANGED <<kind, psize, polling, trig, ret, why, nb>>
          /\ UNCHANGED <<q, device, revents, op, cap, upd, got, snd>>
          /\ pc[t] = "ioctl"
      BY <1>17, <2>2 DEF RecvEmpty
    <3>2. t \in Threads
      BY <1>17
    <3> QED BY <2>2, <3>1, <3>2 DEF device, polling, MsgInv, MsgTypes, Scanning, Alone
  <2> QED BY <2>1, <2>2
<1>18. ASSUME NEW t \in Threads, RecvWoken(t)
      PROVE  Scanning(u)'
  BY <1>18 DEF RecvWoken, device, polling, result, MsgTypes, Scanning, Alone
<1>19. ASSUME NEW t \in Threads, RecvInterrupted(t)
      PROVE  Scanning(u)'
  BY <1>19 DEF RecvInterrupted, Return, RetOf, device, polling, result,
       MsgTypes, Scanning, Alone
<1>20. ASSUME NEW t \in Threads, axiom_update_flags(t)
      PROVE  Scanning(u)'
  BY <1>20 DEF axiom_update_flags, NextFile, device, polling, result, MsgTypes,
       Scanning, Alone
<1> QED
  BY <1>1, <1>2, <1>3, <1>4, <1>5, <1>6, <1>7, <1>8, <1>9, <1>10,
     <1>11, <1>12, <1>13, <1>14, <1>15, <1>16, <1>17, <1>18, <1>19, <1>20
  DEF Next, Sender, Call, Continue, Signal, axiom_recv_raw, axiom_recv_long,
      axiom_flush_raw, axiom_flush_long, Kinds

\* Only messages that were accepted enter a queue.
LEMMA QueuedStep ==
  ASSUME MsgInv, Next
  PROVE  Queued'
<1> USE DEF MsgInv
<1>1. ASSUME NEW o \in SendOps, NEW n \in Sizes, SendCall(o, n)
      PROVE  Queued'
  BY <1>1 DEF SendCall, axiom_send, axiom_send_raw_prepare,
       axiom_send_long_prepare, device, polling, result, Queued
<1>2. ASSUME SendDone
      PROVE  Queued'
  <2>1. /\ snd.kind \in Kinds /\ snd.size \in Nat /\ q[snd.kind] \in Seq(Nat)
        /\ snd.size <= MaxSize(snd.kind) /\ Len(q[snd.kind]) < QLen
    BY <1>2 DEF SendDone, Accepted, MsgTypes, MsgRequests
  <2>2. SUFFICES ASSUME NEW k \in Kinds
                 PROVE  Len(q'[k]) <= QLen /\ \A i \in 1 .. Len(q'[k]) : q'[k][i] <= MaxSize(k)
    BY DEF Queued
  <2>3. CASE k # snd.kind
    <3>1. q'[k] = q[k]
      BY <1>2, <2>3 DEF SendDone, MsgTypes
    <3> QED BY <3>1 DEF Queued
  <2>4. CASE k = snd.kind
    <3>1. q'[k] = Append(q[k], snd.size)
      BY <1>2, <2>4 DEF SendDone, MsgTypes
    <3> QED BY <2>1, <2>4, <3>1 DEF Queued
  <2> QED BY <2>3, <2>4
<1>3. ASSUME SendFail
      PROVE  Queued'
  BY <1>3 DEF SendFail, device, polling, result, Queued
<1>4. ASSUME NEW t \in Threads, NEW c \in Caps, RecvCall(t, c)
      PROVE  Queued'
  BY <1>4 DEF RecvCall, Enter, TimesOut, NoBlock, device, polling, result,
       Queued
<1>5. ASSUME NEW t \in Threads, NEW o \in {"recv_raw", "recv_long"}, NEW k \in Kinds,
     NEW c \in Caps, RecvKind(t, o, k, c)
      PROVE  Queued'
  BY <1>5 DEF RecvKind, Enter, NoBlock, device, polling, result, Queued
<1>6. ASSUME NEW t \in Threads, NEW k \in Kinds, Flush(t, k)
      PROVE  Queued'
  <2>1. SUFFICES ASSUME NEW j \in Kinds
                 PROVE  Len(q'[j]) <= QLen /\ \A i \in 1 .. Len(q'[j]) : q'[j][i] <= MaxSize(j)
    BY DEF Queued
  <2>2. q'[j] = IF j = k THEN <<>> ELSE q[j]
    BY <1>6 DEF Flush, MsgTypes
  <2> QED BY <2>2 DEF Queued
<1>7. ASSUME NEW t \in Threads, NEW ks \in SUBSET Kinds, NEW set \in BOOLEAN,
     ChangeFlags(t, ks, set)
      PROVE  Queued'
  BY <1>7 DEF ChangeFlags, Enter, device, polling, result, Queued
<1>8. ASSUME NEW t \in Threads, axiomnet_poll_raw(t)
      PROVE  Queued'
  BY <1>8 DEF axiomnet_poll_raw, PollFile, device, polling, result, Queued
<1>9. ASSUME NEW t \in Threads, axiomnet_poll_long(t)
      PROVE  Queued'
  BY <1>9 DEF axiomnet_poll_long, PollFile, device, polling, result, Queued
<1>10. ASSUME NEW t \in Threads, PollReady(t)
      PROVE  Queued'
  BY <1>10 DEF PollReady, device, polling, result, Queued
<1>11. ASSUME NEW t \in Threads, PollTimeout(t)
      PROVE  Queued'
  BY <1>11 DEF PollTimeout, Return, device, polling, result, Queued
<1>12. ASSUME NEW t \in Threads, PollAgain(t)
      PROVE  Queued'
  BY <1>12 DEF PollAgain, device, polling, result, Queued
<1>13. ASSUME NEW t \in Threads, PollInterrupted(t)
      PROVE  Queued'
  BY <1>13 DEF PollInterrupted, Return, device, polling, result, Queued
<1>14. ASSUME NEW t \in Threads, ScanRaw(t)
      PROVE  Queued'
  BY <1>14 DEF ScanRaw, ScanFile, Psize, device, polling, result, Queued
<1>15. ASSUME NEW t \in Threads, ScanLong(t)
      PROVE  Queued'
  BY <1>15 DEF ScanLong, ScanFile, Return, Psize, device, polling, result,
       Queued
<1>16. ASSUME NEW t \in Threads, RecvTake(t)
      PROVE  Queued'
  <2>1. SUFFICES ASSUME NEW k \in Kinds
                 PROVE  Len(q'[k]) <= QLen /\ \A i \in 1 .. Len(q'[k]) : q'[k][i] <= MaxSize(k)
    BY DEF Queued
  <2>2. CASE k # kind[t]
    <3>1. q'[k] = q[k]
      BY <1>16, <2>2 DEF RecvTake, MsgTypes
    <3> QED BY <3>1 DEF Queued
  <2>3. CASE k = kind[t]
    <3>1. q'[k] = Tail(q[k]) /\ q[k] # <<>> /\ q[k] \in Seq(Nat)
      BY <1>16, <2>3 DEF RecvTake, MsgTypes
    <3>2. Len(q[k]) <= QLen /\ \A i \in 1 .. Len(q[k]) : q[k][i] <= MaxSize(k)
      BY DEF Queued
    <3>3. Len(q'[k]) = Len(q[k]) - 1 /\ \A i \in 1 .. Len(q'[k]) : q'[k][i] = q[k][i + 1]
      BY <3>1
    <3>4. QLen \in Nat /\ Len(q[k]) \in Nat
      BY <3>1
    <3>5. ASSUME NEW i \in 1 .. Len(q'[k]) PROVE q'[k][i] <= MaxSize(k)
      <4>1. i + 1 \in 1 .. Len(q[k])
        BY <3>3, <3>4
      <4> QED BY <3>2, <3>3, <4>1
    <3> QED BY <3>2, <3>3, <3>4, <3>5
  <2> QED BY <2>2, <2>3
<1>17. ASSUME NEW t \in Threads, RecvEmpty(t)
      PROVE  Queued'
  BY <1>17 DEF RecvEmpty, Return, RetOf, device, polling, result, Queued
<1>18. ASSUME NEW t \in Threads, RecvWoken(t)
      PROVE  Queued'
  BY <1>18 DEF RecvWoken, device, polling, result, Queued
<1>19. ASSUME NEW t \in Threads, RecvInterrupted(t)
      PROVE  Queued'
  BY <1>19 DEF RecvInterrupted, Return, RetOf, device, polling, result, Queued
<1>20. ASSUME NEW t \in Threads, axiom_update_flags(t)
      PROVE  Queued'
  BY <1>20 DEF axiom_update_flags, NextFile, device, polling, result, Queued
<1> QED
  BY <1>1, <1>2, <1>3, <1>4, <1>5, <1>6, <1>7, <1>8, <1>9, <1>10,
     <1>11, <1>12, <1>13, <1>14, <1>15, <1>16, <1>17, <1>18, <1>19, <1>20
  DEF Next, Sender, Call, Continue, Signal, axiom_recv_raw, axiom_recv_long,
      axiom_flush_raw, axiom_flush_long, Kinds

\* The prepare functions let pass what the kind can carry.
LEMMA AcceptedStep ==
  ASSUME MsgInv, Next
  PROVE  Accepted'
<1> USE DEF MsgInv
<1>1. ASSUME NEW o \in SendOps, NEW n \in Sizes, SendCall(o, n)
      PROVE  Accepted'
  <2>1. /\ snd'.st # "refused" => snd'.kind \in Kinds
        /\ snd'.st # "refused" =>
             \/ snd'.kind = "RAW" /\ snd'.size <= AXIOM_RAW_PAYLOAD_MAX_SIZE
             \/ snd'.kind = "LONG" /\ snd'.size <= AXIOM_LONG_PAYLOAD_MAX_SIZE
    BY <1>1 DEF SendCall, axiom_send, axiom_send_raw_prepare,
         axiom_send_long_prepare, Kinds
  <2> QED BY <2>1 DEF Accepted, MaxSize
<1>2. ASSUME SendDone
      PROVE  Accepted'
  BY <1>2 DEF SendDone, MsgTypes, MsgRequests, Accepted
<1>3. ASSUME SendFail
      PROVE  Accepted'
  BY <1>3 DEF SendFail, MsgTypes, MsgRequests, Accepted
<1>4. ASSUME NEW t \in Threads, NEW c \in Caps, RecvCall(t, c)
      PROVE  Accepted'
  BY <1>4 DEF RecvCall, Enter, TimesOut, NoBlock, device, polling, result,
       Accepted
<1>5. ASSUME NEW t \in Threads, NEW o \in {"recv_raw", "recv_long"}, NEW k \in Kinds,
     NEW c \in Caps, RecvKind(t, o, k, c)
      PROVE  Accepted'
  BY <1>5 DEF RecvKind, Enter, NoBlock, device, polling, result, Accepted
<1>6. ASSUME NEW t \in Threads, NEW k \in Kinds, Flush(t, k)
      PROVE  Accepted'
  BY <1>6 DEF Flush, device, polling, result, Accepted
<1>7. ASSUME NEW t \in Threads, NEW ks \in SUBSET Kinds, NEW set \in BOOLEAN,
     ChangeFlags(t, ks, set)
      PROVE  Accepted'
  BY <1>7 DEF ChangeFlags, Enter, device, polling, result, Accepted
<1>8. ASSUME NEW t \in Threads, axiomnet_poll_raw(t)
      PROVE  Accepted'
  BY <1>8 DEF axiomnet_poll_raw, PollFile, device, polling, result, Accepted
<1>9. ASSUME NEW t \in Threads, axiomnet_poll_long(t)
      PROVE  Accepted'
  BY <1>9 DEF axiomnet_poll_long, PollFile, device, polling, result, Accepted
<1>10. ASSUME NEW t \in Threads, PollReady(t)
      PROVE  Accepted'
  BY <1>10 DEF PollReady, device, polling, result, Accepted
<1>11. ASSUME NEW t \in Threads, PollTimeout(t)
      PROVE  Accepted'
  BY <1>11 DEF PollTimeout, Return, device, polling, result, Accepted
<1>12. ASSUME NEW t \in Threads, PollAgain(t)
      PROVE  Accepted'
  BY <1>12 DEF PollAgain, device, polling, result, Accepted
<1>13. ASSUME NEW t \in Threads, PollInterrupted(t)
      PROVE  Accepted'
  BY <1>13 DEF PollInterrupted, Return, device, polling, result, Accepted
<1>14. ASSUME NEW t \in Threads, ScanRaw(t)
      PROVE  Accepted'
  BY <1>14 DEF ScanRaw, ScanFile, Psize, device, polling, result, Accepted
<1>15. ASSUME NEW t \in Threads, ScanLong(t)
      PROVE  Accepted'
  BY <1>15 DEF ScanLong, ScanFile, Return, Psize, device, polling, result,
       Accepted
<1>16. ASSUME NEW t \in Threads, RecvTake(t)
      PROVE  Accepted'
  BY <1>16 DEF RecvTake, Return, RetOf, device, polling, result, Accepted
<1>17. ASSUME NEW t \in Threads, RecvEmpty(t)
      PROVE  Accepted'
  BY <1>17 DEF RecvEmpty, Return, RetOf, device, polling, result, Accepted
<1>18. ASSUME NEW t \in Threads, RecvWoken(t)
      PROVE  Accepted'
  BY <1>18 DEF RecvWoken, device, polling, result, Accepted
<1>19. ASSUME NEW t \in Threads, RecvInterrupted(t)
      PROVE  Accepted'
  BY <1>19 DEF RecvInterrupted, Return, RetOf, device, polling, result, Accepted
<1>20. ASSUME NEW t \in Threads, axiom_update_flags(t)
      PROVE  Accepted'
  BY <1>20 DEF axiom_update_flags, NextFile, device, polling, result, Accepted
<1>21. CASE Sender
  BY <1>1, <1>2, <1>3, <1>21 DEF Sender
<1>22. ASSUME NEW t \in Threads, Call(t)
       PROVE  Accepted'
  BY <1>4, <1>5, <1>6, <1>7, <1>22
  DEF Call, axiom_recv_raw, axiom_recv_long, axiom_flush_raw, axiom_flush_long,
      Kinds
<1>23. ASSUME NEW t \in Threads, Continue(t) \/ Signal(t)
       PROVE  Accepted'
  BY <1>8, <1>9, <1>10, <1>11, <1>12, <1>13, <1>14, <1>15, <1>16, <1>17, <1>18, <1>19, <1>20,
     <1>23 DEF Continue, Signal
<1> QED BY <1>21, <1>22, <1>23 DEF Next

\* Every step keeps the types.
LEMMA MsgTypesStep ==
  ASSUME MsgTypes, Next
  PROVE  MsgTypes'
<1>1. CASE Sender
  BY <1>1, SendCallTypes, SendDoneTypes, SendFailTypes DEF Sender
<1>2. ASSUME NEW t \in Threads, Call(t)
      PROVE  MsgTypes'
  BY <1>2, RecvCallTypes, RecvKindTypes, FlushTypes, ChangeFlagsTypes
  DEF Call, axiom_recv_raw, axiom_recv_long, axiom_flush_raw, axiom_flush_long,
      Kinds
<1>3. ASSUME NEW t \in Threads, Continue(t) \/ Signal(t)
      PROVE  MsgTypes'
  BY <1>3, PollRawTypes, PollLongTypes, PollReadyTypes, PollTimeoutTypes, PollAgainTypes,
     PollInterruptedTypes, ScanRawTypes, ScanLongTypes, RecvTakeTypes, RecvEmptyTypes,
     RecvWokenTypes, RecvInterruptedTypes, UpdateFlagsTypes DEF Continue, Signal
<1> QED BY <1>1, <1>2, <1>3 DEF Next

\* The invariant holds.
LEMMA MsgInductive == Spec => []MsgInv
<1>1. Init => MsgInv
  BY InitTypes, InitRest DEF MsgInv
<1>2. MsgInv /\ [Next]_vars => MsgInv'
  <2>1. CASE Next
    BY <2>1, MsgTypesStep, QueuedStep, AcceptedStep, ArgumentStep, UnblockedStep,
         RegisteredStep,
       ScanningStep DEF MsgInv
  <2>2. CASE UNCHANGED vars
    <3>1. MsgInv => MsgTypes' /\ Queued' /\ Accepted'
      BY <2>2 DEF vars, MsgInv, MsgTypes, Queued, Accepted
    <3>2. MsgInv => \A t \in Threads : Argument(t)' /\ Unblocked(t)'
      BY <2>2 DEF vars, MsgInv, Argument, Unblocked
    <3>3. MsgInv => \A t \in Threads : Registered(t)' /\ Scanning(t)'
      BY <2>2 DEF vars, MsgInv, Registered, Looked, Scanning, Alone
    <3> QED BY <3>1, <3>2, <3>3 DEF MsgInv
  <2> QED BY <2>1, <2>2
<1> QED BY <1>1, <1>2, PTL DEF Spec

\* The library's variables have their types, and what it hands to the driver fits the kind.
THEOREM MsgTypeCorrect == Spec => []TypeOK
<1>1. MsgInv => TypeOK
  <2> SUFFICES ASSUME MsgInv PROVE TypeOK
    OBVIOUS
  <2>1. ASSUME NEW t \in Threads, pc[t] \in {"ioctl", "sleep"}
        PROVE  psize[t] <= MaxSize(kind[t])
    <3>1. psize[t] = Psize(kind[t], cap[t]) /\ kind[t] \in Kinds /\ cap[t] \in Nat
      BY <2>1 DEF MsgInv, Argument, MsgTypes
    <3> QED BY <3>1 DEF Psize, MaxSize, AXIOM_RAW_PAYLOAD_MAX_SIZE,
         AXIOM_LONG_PAYLOAD_MAX_SIZE
  <2>2. \A k \in Kinds : Len(q[k]) <= QLen
    BY DEF MsgInv, Queued
  <2>3. snd.kind \in Kinds /\ snd.st \in Sending /\ (snd.st # "refused" => snd.size <= MaxSize(snd.kind))
    BY DEF MsgInv, MsgTypes, MsgRequests, Accepted
  <2> QED BY <2>1, <2>2, <2>3 DEF MsgInv, MsgTypes, TypeOK, Rets
<1> QED BY <1>1, MsgInductive, PTL

\* A receive call that begins with both NOBLOCK flags set never waits until they are unset, and
\* a thread that poll of axiom_recv puts to sleep has missed no message, for any number of
\* threads, devices, flushers and messages.
THEOREM SleepsJustified == Spec => []SleepJustified
<1>1. MsgInv => NonBlocking
  BY DEF MsgInv, NonBlocking, Asleep, Unblocked
<1>2. MsgInv => NoMissedMessage
  BY DEF MsgInv, NoMissedMessage, Asleep, Registered, Looked, Kinds
<1>3. MsgInv => SleepJustified
  BY <1>1, <1>2 DEF SleepJustified
<1> QED BY <1>3, MsgInductive, PTL

\* Only RecvTake takes a message, and the buffer it compares with is the caller's, or as
\* large as any message of the kind.
LEMMA JudgedStep ==
  ASSUME MsgInv, Next, NEW u \in Threads, Returns(u), got'[u] >= 0
  PROVE  (ret'[u] = "OK" => got'[u] <= cap[u]) /\ (why'[u] = "EFBIG" => got'[u] > cap[u])
<1> USE DEF MsgInv, Returns
<1>1. ASSUME NEW o \in SendOps, NEW n \in Sizes, SendCall(o, n)
      PROVE  (ret'[u] = "OK" => got'[u] <= cap[u]) /\ (why'[u] = "EFBIG" => got'[u] > cap[u])
  BY <1>1 DEF SendCall, axiom_send, axiom_send_raw_prepare,
       axiom_send_long_prepare, device, polling, result, MsgTypes, Argument
<1>2. ASSUME SendDone
      PROVE  (ret'[u] = "OK" => got'[u] <= cap[u]) /\ (why'[u] = "EFBIG" => got'[u] > cap[u])
  BY <1>2 DEF SendDone, device, polling, result, MsgTypes, Argument
<1>3. ASSUME SendFail
      PROVE  (ret'[u] = "OK" => got'[u] <= cap[u]) /\ (why'[u] = "EFBIG" => got'[u] > cap[u])
  BY <1>3 DEF SendFail, device, polling, result, MsgTypes, Argument
<1>4. ASSUME NEW t \in Threads, NEW c \in Caps, RecvCall(t, c)
      PROVE  (ret'[u] = "OK" => got'[u] <= cap[u]) /\ (why'[u] = "EFBIG" => got'[u] > cap[u])
  BY <1>4 DEF RecvCall, Enter, TimesOut, NoBlock, device, polling, result,
       MsgTypes, Argument
<1>5. ASSUME NEW t \in Threads, NEW o \in {"recv_raw", "recv_long"}, NEW k \in Kinds,
     NEW c \in Caps, RecvKind(t, o, k, c)
      PROVE  (ret'[u] = "OK" => got'[u] <= cap[u]) /\ (why'[u] = "EFBIG" => got'[u] > cap[u])
  BY <1>5 DEF RecvKind, Enter, NoBlock, device, polling, result, MsgTypes,
       Argument
<1>6. ASSUME NEW t \in Threads, NEW k \in Kinds, Flush(t, k)
      PROVE  (ret'[u] = "OK" => got'[u] <= cap[u]) /\ (why'[u] = "EFBIG" => got'[u] > cap[u])
  BY <1>6 DEF Flush, device, polling, result, MsgTypes, Argument
<1>7. ASSUME NEW t \in Threads, NEW ks \in SUBSET Kinds, NEW set \in BOOLEAN,
     ChangeFlags(t, ks, set)
      PROVE  (ret'[u] = "OK" => got'[u] <= cap[u]) /\ (why'[u] = "EFBIG" => got'[u] > cap[u])
  BY <1>7 DEF ChangeFlags, Enter, device, polling, result, MsgTypes, Argument
<1>8. ASSUME NEW t \in Threads, axiomnet_poll_raw(t)
      PROVE  (ret'[u] = "OK" => got'[u] <= cap[u]) /\ (why'[u] = "EFBIG" => got'[u] > cap[u])
  BY <1>8 DEF axiomnet_poll_raw, PollFile, device, polling, result, MsgTypes,
       Argument
<1>9. ASSUME NEW t \in Threads, axiomnet_poll_long(t)
      PROVE  (ret'[u] = "OK" => got'[u] <= cap[u]) /\ (why'[u] = "EFBIG" => got'[u] > cap[u])
  BY <1>9 DEF axiomnet_poll_long, PollFile, device, polling, result, MsgTypes,
       Argument
<1>10. ASSUME NEW t \in Threads, PollReady(t)
      PROVE  (ret'[u] = "OK" => got'[u] <= cap[u]) /\ (why'[u] = "EFBIG" => got'[u] > cap[u])
  BY <1>10 DEF PollReady, device, polling, result, MsgTypes, Argument
<1>11. ASSUME NEW t \in Threads, PollTimeout(t)
      PROVE  (ret'[u] = "OK" => got'[u] <= cap[u]) /\ (why'[u] = "EFBIG" => got'[u] > cap[u])
  BY <1>11 DEF PollTimeout, Return, device, polling, result, MsgTypes, Argument
<1>12. ASSUME NEW t \in Threads, PollAgain(t)
      PROVE  (ret'[u] = "OK" => got'[u] <= cap[u]) /\ (why'[u] = "EFBIG" => got'[u] > cap[u])
  BY <1>12 DEF PollAgain, device, polling, result, MsgTypes, Argument
<1>13. ASSUME NEW t \in Threads, PollInterrupted(t)
      PROVE  (ret'[u] = "OK" => got'[u] <= cap[u]) /\ (why'[u] = "EFBIG" => got'[u] > cap[u])
  BY <1>13 DEF PollInterrupted, Return, device, polling, result, MsgTypes,
       Argument
<1>14. ASSUME NEW t \in Threads, ScanRaw(t)
      PROVE  (ret'[u] = "OK" => got'[u] <= cap[u]) /\ (why'[u] = "EFBIG" => got'[u] > cap[u])
  BY <1>14 DEF ScanRaw, ScanFile, Psize, device, polling, result, MsgTypes,
       Argument
<1>15. ASSUME NEW t \in Threads, ScanLong(t)
      PROVE  (ret'[u] = "OK" => got'[u] <= cap[u]) /\ (why'[u] = "EFBIG" => got'[u] > cap[u])
  BY <1>15 DEF ScanLong, ScanFile, Return, Psize, device, polling, result,
       MsgTypes, Argument
<1>16. ASSUME NEW t \in Threads, RecvTake(t)
      PROVE  (ret'[u] = "OK" => got'[u] <= cap[u]) /\ (why'[u] = "EFBIG" => got'[u] > cap[u])
  <2>1. t \in Threads /\ pc[t] = "ioctl" /\ q[kind[t]] # <<>>
    BY <1>16 DEF RecvTake
  <2>2. CASE u # t
    BY <1>16, <2>1, <2>2 DEF RecvTake, Return, MsgTypes
  <2>3. CASE u = t
    <3> DEFINE n == Head(q[kind[t]])
    <3>1. /\ kind[t] \in Kinds /\ cap[t] \in Nat /\ q[kind[t]] \in Seq(Nat)
          /\ psize[t] = Psize(kind[t], cap[t])
      BY <2>1 DEF MsgTypes, Argument
    <3>2. n \in Nat /\ n <= MaxSize(kind[t])
      <4>1. 1 \in 1 .. Len(q[kind[t]]) /\ n = q[kind[t]][1] /\ n \in Nat
        BY <2>1, <3>1
      <4> QED BY <3>1, <4>1 DEF Queued
    <3>3. got'[t] = n
      BY <1>16, <2>1 DEF RecvTake, MsgTypes
    <3>4. PICK e \in IF psize[t] < n THEN {"EFBIG"} ELSE {"none", "EFAULT"} : Return(t, RetOf(e), e)
      BY <1>16 DEF RecvTake
    <3>5. ret'[t] = RetOf(e) /\ why'[t] = e
      BY <2>1, <3>4 DEF Return, MsgTypes
    <3>6. psize[t] <= cap[t] /\ (psize[t] = cap[t] \/ psize[t] = MaxSize(kind[t]))
      BY <3>1 DEF Psize, MaxSize, AXIOM_RAW_PAYLOAD_MAX_SIZE,
           AXIOM_LONG_PAYLOAD_MAX_SIZE
    <3>7. psize[t] \in Nat /\ MaxSize(kind[t]) \in Nat
      BY <2>1, <3>1 DEF MsgTypes, MaxSize, AXIOM_RAW_PAYLOAD_MAX_SIZE,
           AXIOM_LONG_PAYLOAD_MAX_SIZE
    <3>8. CASE psize[t] < n
      BY <2>3, <3>1, <3>2, <3>3, <3>4, <3>5, <3>6, <3>7, <3>8 DEF RetOf
    <3>9. CASE ~(psize[t] < n)
      BY <2>3, <3>1, <3>2, <3>3, <3>4, <3>5, <3>6, <3>7, <3>9
    <3> QED BY <3>8, <3>9
  <2> QED BY <2>2, <2>3
<1>17. ASSUME NEW t \in Threads, RecvEmpty(t)
      PROVE  (ret'[u] = "OK" => got'[u] <= cap[u]) /\ (why'[u] = "EFBIG" => got'[u] > cap[u])
  BY <1>17 DEF RecvEmpty, Return, RetOf, device, polling, result, MsgTypes,
       Argument
<1>18. ASSUME NEW t \in Threads, RecvWoken(t)
      PROVE  (ret'[u] = "OK" => got'[u] <= cap[u]) /\ (why'[u] = "EFBIG" => got'[u] > cap[u])
  BY <1>18 DEF RecvWoken, device, polling, result, MsgTypes, Argument
<1>19. ASSUME NEW t \in Threads, RecvInterrupted(t)
      PROVE  (ret'[u] = "OK" => got'[u] <= cap[u]) /\ (why'[u] = "EFBIG" => got'[u] > cap[u])
  BY <1>19 DEF RecvInterrupted, Return, RetOf, device, polling, result,
       MsgTypes, Argument
<1>20. ASSUME NEW t \in Threads, axiom_update_flags(t)
      PROVE  (ret'[u] = "OK" => got'[u] <= cap[u]) /\ (why'[u] = "EFBIG" => got'[u] > cap[u])
  BY <1>20 DEF axiom_update_flags, NextFile, device, polling, result, MsgTypes,
       Argument
<1> QED
  BY <1>1, <1>2, <1>3, <1>4, <1>5, <1>6, <1>7, <1>8, <1>9, <1>10,
     <1>11, <1>12, <1>13, <1>14, <1>15, <1>16, <1>17, <1>18, <1>19, <1>20
  DEF Next, Sender, Call, Continue, Signal, axiom_recv_raw, axiom_recv_long,
      axiom_flush_raw, axiom_flush_long, Kinds

\* What was refused is more than the call's kind can carry.
MsgRefused ==
  snd.st = "refused" => snd.asked > MaxSize(IF snd.op = "send_raw" THEN "RAW" ELSE "LONG")

\* The remainder of a size is not above it, so only a size above the limit is refused.
LEMMA RefusedStep ==
  ASSUME MsgInv, MsgRefused, [Next]_vars
  PROVE  MsgRefused'
<1>1. ASSUME NEW o \in SendOps, NEW n \in Sizes, SendCall(o, n)
      PROVE  MsgRefused'
  <2> DEFINE req == axiom_send(o, n)
             ok == axiom_send_raw_prepare(req) \/ axiom_send_long_prepare(req)
  <2>1. n \in Nat /\ o \in {"send", "send_raw", "send_long"}
    BY UserMsgAssumption
  <2>2. n % 256 \in Nat /\ n % 256 <= n /\ n % 65536 \in Nat /\ n % 65536 <= n
    BY <2>1
  <2>3. /\ req.op = o /\ req.asked = n /\ req.st = "ioctl"
        /\ req.size \in Nat /\ req.size <= n
        /\ req.kind = "RAW" \/ req.kind = "LONG"
        /\ o = "send_raw" => req.kind = "RAW"
        /\ o = "send_long" => req.kind = "LONG"
        /\ o = "send" => req.kind = IF n <= 248 THEN "RAW" ELSE "LONG"
    BY <2>1, <2>2 DEF axiom_send, Width, AXIOM_RAW_PAYLOAD_MAX_SIZE
  <2>4. CASE ok
    <3>1. snd' = req
      BY <1>1, <2>4 DEF SendCall
    <3> QED BY <2>3, <3>1 DEF MsgRefused
  <2>5. CASE ~ok
    <3>1. snd' = [req EXCEPT !.st = "refused"]
      BY <1>1, <2>5 DEF SendCall
    <3>2. snd'.op = o /\ snd'.asked = n /\ snd'.st = "refused"
      BY <2>3, <3>1 DEF axiom_send
    <3>3. n > MaxSize(IF o = "send_raw" THEN "RAW" ELSE "LONG")
      BY <2>1, <2>3, <2>5 DEF axiom_send_raw_prepare, axiom_send_long_prepare,
           MaxSize, AXIOM_RAW_PAYLOAD_MAX_SIZE, AXIOM_LONG_PAYLOAD_MAX_SIZE
    <3> QED BY <3>2, <3>3 DEF MsgRefused
  <2> QED BY <2>4, <2>5
<1>2. CASE SendDone
  BY <1>2 DEF MsgInv, MsgTypes, MsgRequests, SendDone, MsgRefused
<1>3. CASE SendFail
  BY <1>3 DEF MsgInv, MsgTypes, MsgRequests, SendFail, MsgRefused
<1>4. CASE UNCHANGED snd
  BY <1>4 DEF MsgRefused
<1>5. ASSUME NEW t \in Threads, Call(t) \/ Continue(t) \/ Signal(t)
      PROVE  UNCHANGED snd
  BY <1>5 DEF Call, RecvCall, axiom_recv_raw, axiom_recv_long, RecvKind,
       axiom_flush_raw,
       axiom_flush_long, Flush, ChangeFlags, Continue, axiomnet_poll_raw,
            axiomnet_poll_long,
       PollReady, PollTimeout, PollAgain, ScanRaw, ScanLong, RecvTake,
            RecvEmpty, RecvWoken,
       axiom_update_flags, Signal, PollInterrupted, RecvInterrupted
<1>6. UNCHANGED vars => UNCHANGED snd
  BY DEF vars
<1> QED BY <1>1, <1>2, <1>3, <1>4, <1>5, <1>6 DEF Next, Sender

\* For messages and buffers of any size, also one that axiom_send cuts to 16 bits: only what no
\* message of the call's kinds can carry is refused, and a received message is judged by the
\* caller's buffer, whatever the width of the fields on the way.
THEOREM SizesDecide == Spec => SizeVerdict
<1>1. Init => MsgRefused
  BY DEF Init, MsgRefused
<1>2. MsgInv /\ MsgRefused /\ [Next]_vars => MsgRefused'
  BY RefusedStep
<1>3. MsgRefused' => RefusedTooBig
  BY DEF MsgRefused, RefusedTooBig
<1>4. MsgInv /\ Next => JudgedBySize
  BY JudgedStep DEF JudgedBySize
<1>5. MsgInv /\ MsgRefused' /\ [Next]_vars => [RefusedTooBig /\ JudgedBySize]_vars
  BY <1>3, <1>4
<1> QED BY <1>1, <1>2, <1>5, MsgInductive, PTL DEF Spec, SizeVerdict

\* The loop over recv_fds never ends without a file, so errors come from the driver.
LEMMA ErrorStep ==
  ASSUME MsgInv, Next, NEW u \in Threads, Returns(u),
         op[u] = "recv", ret'[u] = "ERROR", Alone(u)
  PROVE  why'[u] \in {"EFBIG", "EFAULT", "EINTR"}
<1> USE DEF MsgInv, Returns
<1>1. ASSUME NEW o \in SendOps, NEW n \in Sizes, SendCall(o, n)
      PROVE  why'[u] \in {"EFBIG", "EFAULT", "EINTR"}
  BY <1>1 DEF SendCall, axiom_send, axiom_send_raw_prepare,
       axiom_send_long_prepare, device, polling, result, MsgTypes, Argument
<1>2. ASSUME SendDone
      PROVE  why'[u] \in {"EFBIG", "EFAULT", "EINTR"}
  BY <1>2 DEF SendDone, device, polling, result, MsgTypes, Argument
<1>3. ASSUME SendFail
      PROVE  why'[u] \in {"EFBIG", "EFAULT", "EINTR"}
  BY <1>3 DEF SendFail, device, polling, result, MsgTypes, Argument
<1>4. ASSUME NEW t \in Threads, NEW c \in Caps, RecvCall(t, c)
      PROVE  why'[u] \in {"EFBIG", "EFAULT", "EINTR"}
  BY <1>4 DEF RecvCall, Enter, TimesOut, NoBlock, device, polling, result,
       MsgTypes, Argument
<1>5. ASSUME NEW t \in Threads, NEW o \in {"recv_raw", "recv_long"}, NEW k \in Kinds,
     NEW c \in Caps, RecvKind(t, o, k, c)
      PROVE  why'[u] \in {"EFBIG", "EFAULT", "EINTR"}
  BY <1>5 DEF RecvKind, Enter, NoBlock, device, polling, result, MsgTypes,
       Argument
<1>6. ASSUME NEW t \in Threads, NEW k \in Kinds, Flush(t, k)
      PROVE  why'[u] \in {"EFBIG", "EFAULT", "EINTR"}
  BY <1>6 DEF Flush, device, polling, result, MsgTypes, Argument
<1>7. ASSUME NEW t \in Threads, NEW ks \in SUBSET Kinds, NEW set \in BOOLEAN,
     ChangeFlags(t, ks, set)
      PROVE  why'[u] \in {"EFBIG", "EFAULT", "EINTR"}
  BY <1>7 DEF ChangeFlags, Enter, device, polling, result, MsgTypes, Argument
<1>8. ASSUME NEW t \in Threads, axiomnet_poll_raw(t)
      PROVE  why'[u] \in {"EFBIG", "EFAULT", "EINTR"}
  BY <1>8 DEF axiomnet_poll_raw, PollFile, device, polling, result, MsgTypes,
       Argument
<1>9. ASSUME NEW t \in Threads, axiomnet_poll_long(t)
      PROVE  why'[u] \in {"EFBIG", "EFAULT", "EINTR"}
  BY <1>9 DEF axiomnet_poll_long, PollFile, device, polling, result, MsgTypes,
       Argument
<1>10. ASSUME NEW t \in Threads, PollReady(t)
      PROVE  why'[u] \in {"EFBIG", "EFAULT", "EINTR"}
  BY <1>10 DEF PollReady, device, polling, result, MsgTypes, Argument
<1>11. ASSUME NEW t \in Threads, PollTimeout(t)
      PROVE  why'[u] \in {"EFBIG", "EFAULT", "EINTR"}
  BY <1>11 DEF PollTimeout, Return, device, polling, result, MsgTypes, Argument
<1>12. ASSUME NEW t \in Threads, PollAgain(t)
      PROVE  why'[u] \in {"EFBIG", "EFAULT", "EINTR"}
  BY <1>12 DEF PollAgain, device, polling, result, MsgTypes, Argument
<1>13. ASSUME NEW t \in Threads, PollInterrupted(t)
      PROVE  why'[u] \in {"EFBIG", "EFAULT", "EINTR"}
  BY <1>13 DEF PollInterrupted, Return, device, polling, result, MsgTypes,
       Argument
<1>14. ASSUME NEW t \in Threads, ScanRaw(t)
      PROVE  why'[u] \in {"EFBIG", "EFAULT", "EINTR"}
  BY <1>14 DEF ScanRaw, ScanFile, Psize, device, polling, result, MsgTypes,
       Argument
<1>15. ASSUME NEW t \in Threads, ScanLong(t)
      PROVE  why'[u] \in {"EFBIG", "EFAULT", "EINTR"}
  BY <1>15 DEF ScanLong, ScanFile, Return, MsgTypes, Scanning
<1>16. ASSUME NEW t \in Threads, RecvTake(t)
      PROVE  why'[u] \in {"EFBIG", "EFAULT", "EINTR"}
  <2>1. t \in Threads
    BY <1>16 DEF RecvTake
  <2>2. CASE u # t
    BY <1>16, <2>1, <2>2 DEF RecvTake, Return, MsgTypes
  <2>3. PICK e \in {"EFBIG", "none", "EFAULT"} : Return(t, RetOf(e), e)
    BY <1>16 DEF RecvTake
  <2>4. u = t => ret'[t] = RetOf(e) /\ why'[t] = e
    BY <2>1, <2>3 DEF Return, MsgTypes
  <2> QED BY <2>2, <2>4 DEF RetOf
<1>17. ASSUME NEW t \in Threads, RecvEmpty(t)
      PROVE  why'[u] \in {"EFBIG", "EFAULT", "EINTR"}
  BY <1>17 DEF RecvEmpty, Return, RetOf, device, polling, result, MsgTypes,
       Argument
<1>18. ASSUME NEW t \in Threads, RecvWoken(t)
      PROVE  why'[u] \in {"EFBIG", "EFAULT", "EINTR"}
  BY <1>18 DEF RecvWoken, device, polling, result, MsgTypes, Argument
<1>19. ASSUME NEW t \in Threads, RecvInterrupted(t)
      PROVE  why'[u] \in {"EFBIG", "EFAULT", "EINTR"}
  BY <1>19 DEF RecvInterrupted, Return, RetOf, device, polling, result,
       MsgTypes, Argument
<1>20. ASSUME NEW t \in Threads, axiom_update_flags(t)
      PROVE  why'[u] \in {"EFBIG", "EFAULT", "EINTR"}
  BY <1>20 DEF axiom_update_flags, NextFile, device, polling, result, MsgTypes,
       Argument
<1>21. CASE Sender
  BY <1>1, <1>2, <1>3, <1>21 DEF Sender
<1>22. ASSUME NEW t \in Threads, Call(t)
       PROVE  why'[u] \in {"EFBIG", "EFAULT", "EINTR"}
  BY <1>4, <1>5, <1>6, <1>7, <1>22
  DEF Call, axiom_recv_raw, axiom_recv_long, axiom_flush_raw, axiom_flush_long, Kinds
<1>23. ASSUME NEW t \in Threads, Continue(t) \/ Signal(t)
       PROVE  why'[u] \in {"EFBIG", "EFAULT", "EINTR"}
  BY <1>8, <1>9, <1>10, <1>11, <1>12, <1>13, <1>14, <1>15, <1>16, <1>17, <1>18, <1>19, <1>20,
     <1>23 DEF Continue, Signal
<1> QED BY <1>21, <1>22, <1>23 DEF Next

\* axiom_recv reports AXIOM_RET_ERROR to a thread with a device of its own only for a message
\* that was too big, a fault or a signal.
THEOREM ErrorsHaveReasons == Spec => ErrorHasReason
<1> DEFINE Reasoned ==
      \A t \in Threads :
        ( /\ Returns(t) /\ op[t] = "recv" /\ ret'[t] = "ERROR"
          /\ \A u \in Threads \ {t} : dev[u] # dev[t] )
        => why'[t] \in {"EFBIG", "EFAULT", "EINTR"}
<1>1. MsgInv /\ Next => Reasoned
  BY ErrorStep DEF Alone
<1>2. MsgInv /\ [Next]_vars => [Reasoned]_vars
  BY <1>1
<1> QED BY <1>2, MsgInductive, PTL DEF Spec, ErrorHasReason
=============================================================================
