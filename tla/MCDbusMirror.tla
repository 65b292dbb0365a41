---------------------------- MODULE MCDbusMirror ----------------------------
(* Instances of DbusMirror for TLC. *)
EXTENDS DbusMirrorInv
=============================================================================
