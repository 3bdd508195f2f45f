---- MODULE MCCarryTwoLeg ----
(***************************************************************************)
(* CarryTwoLeg instantiated for TLC.                                        *)
(***************************************************************************)
EXTENDS CarryTwoLeg
====
