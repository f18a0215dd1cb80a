------------------------------ MODULE Routing -------------------------------
(***************************************************************************)
(* The routing table and the node id: the registers of the NIC, the copies *)
(* the driver keeps, the ioctls of the generic device that access one and  *)
(* then the other without a lock, the calls of the library on top of them, *)
(* and the test for a reachable destination at the head of a send.         *)
(*                                                                         *)
(* A mask of interfaces is the set of its bits.  A routing register holds  *)
(* one interface, so the ioctls convert.                                   *)
(***************************************************************************)
EXTENDS Naturals, FiniteSets, FiniteSetsExt

CONSTANTS
  Configurers,  \* threads that call axiom_set_routing and axiom_set_node_id
  Readers,      \* threads that read the table or the id
  AXIOM_NODES_NUM,
  Masks,        \* masks that axiom_set_routing is called with
  Found         \* what the routing registers may hold when the driver is loaded

Callers == Configurers \cup Readers
Nodes == 0 .. AXIOM_NODES_NUM - 1
AXIOM_INTERFACES_NUM == 5
NULL_IF == 255    \* AXIOMREG_ROUTING_NULL_IF

ASSUME RoutingAssumption ==
  /\ AXIOM_NODES_NUM \in Nat \ {0}
  /\ Masks \subseteq SUBSET (0 .. 7)
  /\ Found \subseteq Nat

VARIABLES
  \* the NIC
  hwroute,       \* the routing registers
  hwid,          \* the node id register
  \* struct axiomnet_drvdata
  routing_table,
  node_id,
  \* the threads
  tpc,
  call,          \* the call of each thread
  \* history
  known,         \* rows of routing_table whose last ioctl was not overtaken
  idknown,       \* the same of node_id
  overtaken,     \* threads in an ioctl whose register another one has set since
  throughout,    \* nodes with a route all the time the thread has counted nodes
  sometime       \* nodes with a route at some moment of that time

nic == <<hwroute, hwid>>
driver == <<routing_table, node_id>>
history == <<known, idknown, overtaken, throughout, sometime>>
route_vars == <<nic, driver, tpc, call, history>>

Registers == {NULL_IF} \cup {Min(m) : m \in Masks \ {{}}} \cup Found

\* A call: its arguments and its result.
Idle == [op |-> "none", node |-> 0, mask |-> {}, id |-> 0, num |-> 0,
         ret |-> "AXIOM_RET_OK"]
-----------------------------------------------------------------------------
(* Conversions *)

\* axiom_hw_set_routing: the first bit of the mask, ffs(enabled_mask) - 1
RegisterOf(mask) == IF mask = {} THEN NULL_IF ELSE Min(mask)

\* axiom_hw_get_routing: the mask with the one bit, 1 << enabled_if, of which an
\* uint8_t keeps 8 bits; the processor shifts an int by the register modulo 32.
MaskOf(reg) == IF reg = NULL_IF THEN {} ELSE {reg % 32} \cap (0 .. 7)

\* axiom_next_hop looks for the first interface in the mask
Hops(mask) == {i \in 0 .. AXIOM_INTERFACES_NUM - 1 : i \in mask}

\* a node counts if a physical interface leads to it, not the loopback IF0
Physical(mask) == mask # {} /\ mask # {0}

\* The driver starts from zeros; the registers hold what an earlier load of the
\* driver, or the NIC's start, left there.  With 256 nodes every id is one of them.
RouteInit ==
  /\ hwroute \in [Nodes -> Registers] /\ hwid \in Nodes
  /\ routing_table = [n \in Nodes |-> {}] /\ node_id = 0
  /\ tpc = [t \in Callers |-> "idle"]
  /\ call = [t \in Callers |-> Idle]
  /\ known = {} /\ idknown = FALSE /\ overtaken = {}
  /\ throughout = [t \in Callers |-> {}] /\ sometime = [t \in Callers |-> {}]
-----------------------------------------------------------------------------
(* Calls of the library *)

\* nodes that lead out through the registers r
Routed(r) == {n \in Nodes : Physical(MaskOf(r[n]))}

\* A thread makes a call; the history of axiom_get_num_nodes begins with it.
Begin(t, op, entry, c) ==
  LET routed == IF op = "num_nodes" THEN Routed(hwroute) ELSE {}
  IN  /\ tpc[t] = "idle"
      /\ tpc' = [tpc EXCEPT ![t] = entry]
      /\ call' = [call EXCEPT ![t] = [c EXCEPT !.op = op]]
      /\ throughout' = [throughout EXCEPT ![t] = routed]
      /\ sometime' = [sometime EXCEPT ![t] = routed]
      /\ UNCHANGED <<nic, driver, known, idknown, overtaken>>

\* The ioctl or the call returns.  Of a hop and a count, the result is kept.
RouteReturn(t, num, ret) ==
  /\ tpc' = [tpc EXCEPT ![t] = "idle"]
  /\ call' = [call EXCEPT ![t] = IF @.op \in {"next_hop", "num_nodes"}
                 THEN [@ EXCEPT !.node = 0, !.mask = {}, !.num = num, !.ret = ret]
                 ELSE Idle]

Counting == {t \in Callers : tpc[t] # "idle" /\ call[t].op = "num_nodes"}

\* The registers change under the threads that count nodes.
Observe ==
  /\ throughout' = [t \in Callers |-> IF t \in Counting
                    THEN throughout[t] \cap Routed(hwroute') ELSE throughout[t]]
  /\ sometime' = [t \in Callers |-> IF t \in Counting
                    THEN sometime[t] \cup Routed(hwroute') ELSE sometime[t]]

axiom_set_routing(t) == t \in Configurers /\ \E n \in Nodes, m \in Masks :
  Begin(t, "set_routing", "set_routing", [Idle EXCEPT !.node = n, !.mask = m])

axiom_set_node_id(t) == t \in Configurers /\ \E n \in Nodes :
  Begin(t, "set_node_id", "set_nodeid", [Idle EXCEPT !.id = n])

axiom_get_routing(t) == t \in Readers /\ \E n \in Nodes :
  Begin(t, "get_routing", "get_routing", [Idle EXCEPT !.node = n])

axiom_next_hop(t) == t \in Readers /\ \E n \in Nodes :
  Begin(t, "next_hop", "get_routing", [Idle EXCEPT !.node = n])

axiom_get_node_id(t) ==
  t \in Readers /\ Begin(t, "get_node_id", "get_nodeid", Idle)

\* The count begins with 1 for the local node, whose id is asked for first.
axiom_get_num_nodes(t) ==
  t \in Readers /\ Begin(t, "num_nodes", "get_nodeid", [Idle EXCEPT !.num = 1])

\* The test at the head of axiomnet_raw_send and axiomnet_rdma_tx: a send to a node
\* that is not reachable is refused with -ENXIO.
Reachable(n) == routing_table[n] # {}
-----------------------------------------------------------------------------
(* axiomnet_ioctl_generic: each command is an access to the register and an  *)
(* assignment to the copy.                                                   *)

\* Mutant of SetNodeId: the copy is left as it is.
SetNodeIdOnly(t) ==
  /\ tpc[t] = "set_nodeid"
  /\ hwid' = call[t].id
  /\ RouteReturn(t, 0, "AXIOM_RET_OK")
  /\ UNCHANGED <<hwroute, driver, history>>

SetNodeId(t) ==
  /\ tpc[t] = "set_nodeid"
  /\ hwid' = call[t].id
  /\ tpc' = [tpc EXCEPT ![t] = "store_nodeid"]
  /\ overtaken' = overtaken \cup {u \in Callers : tpc[u] = "store_nodeid"}
  /\ UNCHANGED <<hwroute, driver, call, known, idknown, throughout, sometime>>

GetNodeId(t) ==
  /\ tpc[t] = "get_nodeid"
  /\ call' = [call EXCEPT ![t].id = hwid]
  /\ tpc' = [tpc EXCEPT ![t] = "store_nodeid"]
  /\ UNCHANGED <<nic, driver, history>>

\* Mutant of NextNode: the local node is not left out.
NextNodeAny(t, n) == n

\* the loop of axiom_get_num_nodes leaves out the local node
NextNode(t, n) == IF n = call[t].id THEN n + 1 ELSE n

Loop(t, n, num) ==
  IF NextNode(t, n) \in Nodes
  THEN /\ call' = [call EXCEPT ![t].node = NextNode(t, n), ![t].num = num,
                             ![t].mask = {}]
       /\ tpc' = [tpc EXCEPT ![t] = "get_routing"]
  ELSE RouteReturn(t, num, "AXIOM_RET_OK")

StoreNodeId(t) ==
  /\ tpc[t] = "store_nodeid"
  /\ node_id' = call[t].id
  /\ idknown' = (t \notin overtaken) /\ overtaken' = overtaken \ {t}
  /\ IF call[t].op = "num_nodes" THEN Loop(t, 0, 1)
                                 ELSE RouteReturn(t, 0, "AXIOM_RET_OK")
  /\ UNCHANGED <<nic, routing_table, known, throughout, sometime>>

SetRouting(t) ==
  /\ tpc[t] = "set_routing"
  /\ hwroute' = [hwroute EXCEPT ![call[t].node] = RegisterOf(call[t].mask)]
  /\ tpc' = [tpc EXCEPT ![t] = "store_routing"]
  /\ overtaken' = overtaken \cup {u \in Callers : tpc[u] = "store_routing"
                                              /\ call[u].node = call[t].node}
  /\ Observe
  /\ UNCHANGED <<hwid, driver, call, known, idknown>>

GetRouting(t) ==
  /\ tpc[t] = "get_routing"
  /\ call' = [call EXCEPT ![t].mask = MaskOf(hwroute[call[t].node])]
  /\ tpc' = [tpc EXCEPT ![t] = "store_routing"]
  /\ UNCHANGED <<nic, driver, history>>

StoreRouting(t) ==
  LET c == call[t]
  IN  /\ tpc[t] = "store_routing"
      /\ routing_table' = [routing_table EXCEPT ![c.node] = c.mask]
      /\ known' = IF t \in overtaken THEN known \ {c.node} ELSE known \cup {c.node}
      /\ overtaken' = overtaken \ {t}
      /\ CASE c.op = "num_nodes" ->
                Loop(t, c.node + 1, c.num + (IF Physical(c.mask) THEN 1 ELSE 0))
           [] c.op = "next_hop" /\ Hops(c.mask) = {} ->
                RouteReturn(t, 0, "AXIOM_RET_ERROR")
           [] c.op = "next_hop" /\ Hops(c.mask) # {} ->
                RouteReturn(t, Min(Hops(c.mask)), "AXIOM_RET_OK")
           [] OTHER -> RouteReturn(t, 0, "AXIOM_RET_OK")
      /\ UNCHANGED <<nic, node_id, idknown, throughout, sometime>>
-----------------------------------------------------------------------------
RouteNext == \E t \in Callers :
  \/ axiom_set_routing(t) \/ axiom_set_node_id(t)
  \/ axiom_get_routing(t) \/ axiom_next_hop(t) \/ axiom_get_node_id(t)
  \/ axiom_get_num_nodes(t)
  \/ SetNodeId(t) \/ GetNodeId(t) \/ StoreNodeId(t)
  \/ SetRouting(t) \/ GetRouting(t) \/ StoreRouting(t)

RouteSpec == RouteInit /\ [][RouteNext]_route_vars
-----------------------------------------------------------------------------
\* Types of the registers, the driver's copies and the calls: a register has what was
\* found in one or what axiom_hw_set_routing writes, a count or a hop is in its range.
RouteTypeOK ==
  /\ hwroute \in [Nodes -> Registers] /\ hwid \in Nodes
  /\ routing_table \in [Nodes -> SUBSET (0 .. 7)] /\ node_id \in Nodes
  /\ \A t \in Callers :
       /\ tpc[t] \in {"idle", "set_routing", "get_routing", "store_routing",
                      "set_nodeid", "get_nodeid", "store_nodeid"}
       /\ call[t].node \in Nodes /\ call[t].id \in Nodes
       /\ call[t].num \in 0 .. IF call[t].op = "next_hop"
                               THEN AXIOM_INTERFACES_NUM - 1 ELSE AXIOM_NODES_NUM
       /\ call[t].ret \in {"AXIOM_RET_OK", "AXIOM_RET_ERROR"}
  /\ known \subseteq Nodes /\ idknown \in BOOLEAN /\ overtaken \subseteq Callers

\* a thread is between the two halves of an ioctl on row n
Busy(n) == \E t \in Callers : tpc[t] = "store_routing" /\ call[t].node = n

\* The driver's copies agree with the NIC's registers, and with them what a send
\* is refused for and what sysfs shows: the register of a row leads to the lowest
\* interface of the copied mask, or to none if the row is not reachable, through the
\* conversions in both directions.  The ioctls write the copy second and without a
\* lock, so this holds of what an ioctl has accessed, while none is in the middle of
\* it, and unless the last of them wrote what another one had overtaken.
CopiesCurrent ==
  /\ \A n \in known : ~Busy(n) =>
       MaskOf(hwroute[n]) = IF Reachable(n) THEN {Min(routing_table[n])} ELSE {}
  /\ (idknown /\ \A t \in Callers : tpc[t] # "store_nodeid") => node_id = hwid

\* axiom_get_num_nodes asks for the rows one by one while other threads change
\* them and the node id: it counts the local node, every other one that had a
\* route through a physical interface all along, and none that never had one.
NumNodesBounded ==
  \A t \in Callers :
    tpc[t] = "idle" /\ call[t].op = "num_nodes"
      => /\ call[t].num >= 1 + Cardinality(throughout[t] \ {call[t].id})
         /\ call[t].num <= 1 + Cardinality(sometime[t] \ {call[t].id})
=============================================================================
