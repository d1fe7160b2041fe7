------------------------------ MODULE MCCoreCmd ------------------------------
(* Small instances of CoreCmd for TLC. *)
EXTENDS CoreCmd

K(ack, no_io, hdl) == [ack |-> ack, no_io |-> no_io, hdl |-> hdl]

(* One that needs the hardware and is waited for, and one that needs       *)
(* neither and has no handler.                                             *)
Mixed == {K(TRUE, FALSE, TRUE), K(FALSE, TRUE, FALSE)}
=============================================================================
