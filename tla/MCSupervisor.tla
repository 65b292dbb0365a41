---------------------------- MODULE MCSupervisor ----------------------------
(* Instances of Supervisor for TLC. *)
EXTENDS SupervisorInv, TLC

\* Sessions differ only in their order of being launched, which nothing reads.
SessionSymmetry == Permutations(Session)
=============================================================================
