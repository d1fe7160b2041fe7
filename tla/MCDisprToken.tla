---------------------------- MODULE MCDisprToken ----------------------------
(* TLC instances of DisprToken. *)
EXTENDS DisprToken, TLC

Perms == Permutations(Client)
=============================================================================
