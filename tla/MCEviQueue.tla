----------------------------- MODULE MCEviQueue -----------------------------
(* EviQueue on a small instance: every way in which FreeElems elements can   *)
(* be spread over the free list, the callers and the queues of Queues.       *)
EXTENDS EviQueue
=============================================================================
