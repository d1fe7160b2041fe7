----------------------------- MODULE MCDisprMsg -----------------------------
(* TLC instances of DisprMsg. *)
EXTENDS DisprMsg, TLC

CONSTANTS role, opt, mandA, mandB

AllModules == <<mandA, role, opt, mandB>>
TwoModules == <<mandA, role>>
PrioOf == [m \in Mdl |-> IF m = role THEN 0 ELSE IF m = opt THEN 1 ELSE 2]

K(src, evt, o) ==
    [src |-> src, evt |-> evt, skip |-> FALSE, black |-> FALSE, list |-> {}, opt |-> o]

(* A message for all that silences its sender and waits for I/O, one that  *)
(* skips the optional modules except those of its list, and one that the   *)
(* controller sends.                                                       *)
Mixed ==
    {K(mandA, "e1", {"COMPLETE", "CLR_SNDR", "PEND_IO"}),
     [K(role, "e1", {"COMPLETE"}) EXCEPT !.skip = TRUE, !.list = {opt}],
     K(Ctrl, "e2", {"COMPLETE"})}

(* Messages of a module that leaves another one out, and of the foreground *)
(* command.                                                                *)
Plain ==
    {[K(mandA, "e1", {"COMPLETE"}) EXCEPT !.black = TRUE, !.list = {role}],
     K(Fg, "e2", {"COMPLETE", "CLR_SNDR"})}

(* Messages that silence their sender or wait for I/O, ones that do not, and *)
(* ones that nobody wants to hear of again.                                 *)
Pendable ==
    {K(mandA, "e1", {"COMPLETE", "CLR_SNDR", "PEND_IO"}), K(mandA, "e2", {"COMPLETE"}),
     K(Ctrl, "e2", {})}

Perms == Permutations(Sender)
=============================================================================
