------------------------------ MODULE MCLongRx ------------------------------
(* LongRx on small instances.  Slots, buffers and threads are interchangeable. *)
(* What a free slot or a free buffer still holds is never read: the view hides *)
(* it.                                                                         *)
EXTENDS LongRx, TLC

Symmetry == Permutations(Slots) \cup Permutations(Bufs) \cup Permutations(Threads)

View ==
  <<hwrx, arrived, hwfree, [b \in Bufs |-> IF b \in hwfree THEN None ELSE payload[b]],
    wrong, kthread, fifo, free, [s \in Slots |-> IF s \in free THEN None ELSE desc[s]],
    users, history>>
=============================================================================
