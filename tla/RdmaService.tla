---------------------------- MODULE RdmaService -----------------------------
(***************************************************************************)
(* What axiomnet_rdma_tx and the kthread promise those who send through    *)
(* them: a request is refused before it was sent, or it is sent and then   *)
(* answered once, however often the NIC has to send it again in between.   *)
(*                                                                         *)
(* RdmaTx implements it.  LongTx is a client: a LONG message is a request  *)
(* whose answer calls axiomnet_long_callback.                              *)
(***************************************************************************)
CONSTANT Reqs

VARIABLE state

Init == state = [r \in Reqs |-> "none"]

\* axiomnet_rdma_tx gave the request to the NIC.
Submit(r) == state[r] = "none" /\ state' = [state EXCEPT ![r] = "sent"]

\* axiomnet_rdma_tx failed: -EAGAIN, -ENXIO, -ERESTARTSYS, ...
Refuse(r) == state[r] = "none" /\ state' = [state EXCEPT ![r] = "refused"]

\* The kthread has the last answer to the request, an ack or an error after the
\* last retry.
Answer(r) == state[r] = "sent" /\ state' = [state EXCEPT ![r] = "answered"]

Next == \E r \in Reqs : Submit(r) \/ Refuse(r) \/ Answer(r)

Spec == Init /\ [][Next]_state
=============================================================================
