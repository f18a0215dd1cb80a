------------------------------ MODULE MCRawRx -------------------------------
(* A small instance of RawRx.  Liveness is checked with the rest, so there is *)
(* no symmetry.                                                               *)
EXTENDS RawRx
=============================================================================
