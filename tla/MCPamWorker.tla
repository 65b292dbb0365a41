----------------------------- MODULE MCPamWorker -----------------------------
(* A small instance of PamWorker for TLC. *)
EXTENDS PamWorkerInv
=============================================================================
