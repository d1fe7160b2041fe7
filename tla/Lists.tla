-------------------------------- MODULE Lists --------------------------------
(***************************************************************************)
(* A walk over a linked list that takes some of its nodes, in their order. *)
(* It is SelectSeq, defined without recursion, so that the proofs can      *)
(* reason about it.                                                        *)
(***************************************************************************)
EXTENDS Integers, Sequences, FiniteSets

(* The number of positions of P up to p. *)
Rank(P, p) == Cardinality({x \in P : x =< p})

(* The k-th position of P. *)
Nth(P, k) == CHOOSE p \in P : Rank(P, p) = k

(* The elements of q at the positions P. *)
Sublist(q, P) == [k \in 1..Cardinality(P) |-> q[Nth(P, k)]]

(* The positions at which q has an element of S. *)
Positions(q, S) == {i \in DOMAIN q : q[i] \in S}

(* The values that the nodes of a list have, in the order of the list. *)
Values(f, q) == [k \in DOMAIN q |-> f[q[k]]]
=============================================================================
