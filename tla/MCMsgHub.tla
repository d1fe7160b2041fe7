------------------------------ MODULE MCMsgHub ------------------------------
(* Small instances of MsgHub for TLC. *)
EXTENDS MsgHub
=============================================================================
