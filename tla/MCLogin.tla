------------------------------- MODULE MCLogin -------------------------------
(* Small instances of Login for TLC. *)
EXTENDS LoginInv

CONSTANTS u1, u2, c1, c2

\* A command everybody is offered, the others only the first user has.
Offers ==
    [u \in User \cup {NoUser} |-> IF u = u1 THEN SetToSeq(Command) ELSE <<c1>>]
=============================================================================
