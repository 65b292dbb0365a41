---------------------------- MODULE MCAuthBroker ----------------------------
(* Small instances of AuthBroker, with its abstraction, for TLC. *)
EXTENDS AuthBrokerInv, AuthRefinement, TLC

Symmetry == Permutations(Attempt) \cup Permutations(User)
=============================================================================
