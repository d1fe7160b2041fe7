------------------------------ MODULE FgToken ------------------------------
(***************************************************************************)
(* What the foreground command token promises to the modules that ask for  *)
(* it: one holder at a time, granted in the order of the requests, and     *)
(* every request that is over stays over.                                  *)
(***************************************************************************)
EXTENDS Integers, SequencesExt

CONSTANTS Request, Nobody

VARIABLES
    pending,   \* requests in the order in which they were made
    holder,    \* the request that has the token
    over       \* requests that failed, were freed or were aborted

tokenVars == <<pending, holder, over>>

Init == pending = <<>> /\ holder = Nobody /\ over = {}

(* A request is made. *)
Ask(r) ==
    /\ r \notin over /\ r # holder /\ r \notin ToSet(pending)
    /\ pending' = Append(pending, r)
    /\ UNCHANGED <<holder, over>>

(* The oldest request gets the token. *)
Grant ==
    /\ holder = Nobody
    /\ pending # <<>>
    /\ holder' = Head(pending)
    /\ pending' = Tail(pending)
    /\ UNCHANGED over

(* The holder gives the token back or is made to. *)
Release ==
    /\ holder # Nobody
    /\ over' = over \cup {holder}
    /\ holder' = Nobody
    /\ UNCHANGED pending

(* A waiting request is aborted. *)
Withdraw(i) ==
    /\ over' = over \cup {pending[i]}
    /\ pending' = RemoveAt(pending, i)
    /\ UNCHANGED holder

Next ==
    \/ \E r \in Request : Ask(r)
    \/ Grant
    \/ Release
    \/ \E i \in DOMAIN pending : Withdraw(i)

Spec == Init /\ [][Next]_tokenVars
=============================================================================
