----------------------------- MODULE MCUserRdma -----------------------------
(* Small instances of UserRdma for TLC. *)
EXTENDS UserRdma, TLC

Symmetric == Permutations(Slots)
=============================================================================
