---- MODULE MCExternalOrder ----
(***************************************************************************)
(* ExternalOrder instantiated for TLC.  The processes are interchangeable.  *)
(***************************************************************************)
EXTENDS ExternalOrderInv, TLC

InstanceSymmetry == Permutations(Instance)
====
