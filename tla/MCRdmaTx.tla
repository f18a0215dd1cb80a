------------------------------ MODULE MCRdmaTx ------------------------------
(* RdmaTx on small instances.  Slots and threads are interchangeable.  Of    *)
(* the status of a free slot that no thread uses, only the counter and the   *)
(* destination are read, the rest is set up again before use: the view hides *)
(* it, and how often a request was sent again that is answered by now.       *)
EXTENDS RdmaTx, TLC

Symmetry == Permutations(Slots) \cup Permutations(Threads)

View ==
  <<hwtx, flight, hwrx, pending, irq, sched, kpc, kack, free,
    [s \in Slots |-> IF s \in free \ Range(tslot)
                       THEN <<rdma_status[s].msg_id_counter, rdma_status[s].dst>>
                       ELSE rdma_status[s]],
    mutex, tpc, tslot, treq, token, nreq, fate,
    [r \in Reqs |-> IF fate[r] = "none" THEN resent[r] ELSE 0], errors>>
=============================================================================
