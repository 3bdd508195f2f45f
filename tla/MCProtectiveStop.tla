---- MODULE MCProtectiveStop ----
(***************************************************************************)
(* ProtectiveStop for TLC.  Stops are ordered by their creation, so that no *)
(* symmetry applies.                                                        *)
(***************************************************************************)
EXTENDS ProtectiveStopInv, TLC
====
