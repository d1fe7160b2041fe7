------------------------------ MODULE MCTxRing ------------------------------
(* Small instances of TxRing for TLC. *)
EXTENDS TxRing
=============================================================================
