---- MODULE MCDatedCarry ----
(***************************************************************************)
(* Instance of DatedCarry for TLC; the constants are given by the cfg.      *)
(***************************************************************************)
EXTENDS DatedCarry
====
