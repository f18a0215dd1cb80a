------------------------------ MODULE MCRawTx -------------------------------
(* Small instances of RawTx for TLC. *)
EXTENDS RawTx
=============================================================================
