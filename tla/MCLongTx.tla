------------------------------ MODULE MCLongTx ------------------------------
(* A small instance of LongTx for TLC. *)
EXTENDS LongTx
=============================================================================
