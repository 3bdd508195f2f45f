---- MODULE MCCapitalFlow ----
(***************************************************************************)
(* CapitalFlow instantiated for TLC: 60 and 40 units of capital.            *)
(***************************************************************************)
EXTENDS CapitalFlowInv

MCInitialCash == [trend |-> 60, carry |-> 40]
====
