--------------------------- MODULE MCSessionWrapper ---------------------------
(* Instances of SessionWrapper for TLC. *)
EXTENDS SessionWrapperInv
===============================================================================
