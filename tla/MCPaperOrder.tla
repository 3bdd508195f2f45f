---------------------------- MODULE MCPaperOrder ----------------------------
(* Bounds of the TLC runs of PaperOrder. *)
EXTENDS PaperOrder
=============================================================================
