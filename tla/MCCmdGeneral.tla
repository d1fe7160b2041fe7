---------------------------- MODULE MCCmdGeneral ----------------------------
(* Small instances of CmdGeneral for TLC. *)
EXTENDS CmdGeneral

K(w, b) == [wait |-> w, buf |-> b]

(* A key that is set in the background, a station that is added within a    *)
(* time, a role that is started, and the USB speed that is asked for.       *)
Callers == {K("no", "heap"), K("timed", "heap"), K("forever", "heap"), K("forever", "frame")}
=============================================================================
