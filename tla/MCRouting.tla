----------------------------- MODULE MCRouting ------------------------------
(* A small instance of Routing for TLC. *)
EXTENDS Routing

\* a route is withdrawn, or goes through the lower of two interfaces
TwoMasks == {{}, {2, 4}}

\* The copies that CopiesCurrent speaks of.  No action reads a copy, and the store that
\* ends an ioctl writes the copy of its row and whether it is known.
Copies == [n \in Nodes |-> IF n \in known /\ ~Busy(n) THEN <<routing_table[n]>> ELSE <<>>]
IdCopy == IF idknown /\ \A t \in Callers : tpc[t] # "store_nodeid" THEN <<node_id>> ELSE <<>>

\* Left out: other copies; which of the values that lead nowhere a register has, since
\* registers are read through MaskOf; what a finished call but a count has returned, and
\* the history of a count for threads that do not count.
Live == <<[n \in Nodes |-> MaskOf(hwroute[n])], hwid, Copies, IdCopy, tpc, overtaken,
          [t \in Callers |-> IF tpc[t] = "idle" /\ call[t].op # "num_nodes" THEN <<>>
             ELSE <<call[t].op, call[t].node, call[t].mask, call[t].id, call[t].num>>],
          [t \in Callers |-> IF call[t].op = "num_nodes"
             THEN <<throughout[t], sometime[t]>> ELSE <<>>]>>
=============================================================================
