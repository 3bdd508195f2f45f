---- MODULE CapitalFlowInv ----
(***************************************************************************)
(* The properties of the capital shared by the engines.                     *)
(***************************************************************************)
EXTENDS CapitalFlow

(* Every variable stays in its domain: rows, deposits, units and jobs.      *)
TypeOK ==
    /\ db \in [Engine -> Row] /\ mem \in [Engine -> Row]
    /\ deposits \in [DepositId -> Deposit]
    /\ flowed \in [Engine -> Int] /\ earned \in [Engine -> Int]
    /\ unit \in [Engine -> Unit]
    /\ job \in [Jobs -> Job]
    /\ exclusive \in BOOLEAN
    /\ trades \in Nat

Accounted ==
    \A e \in Engine : db[e].cash = InitialCash[e] + earned[e] + flowed[e]

(* While one job at a time runs through its wrapper, what an engine holds   *)
(* is what it won plus the flows the journal records: no checkpoint from    *)
(* memory loses a deposit or a transfer.                                    *)
CapitalAccounted == exclusive => Accounted

(* The flows hold each applied deposit once, whatever runs at the same time *)
(* ("empêche un redémarrage ou une relance manuelle de compter deux fois"). *)
DepositsCountedOnce ==
    flowed["trend"] + flowed["carry"] = AmountOf(InStatus("APPLIED"))

(* Capital moves only while both units are stopped and both engines flat    *)
(* ("on ne redimensionne jamais une position existante").                   *)
FlowsOnlyAtRest ==
    [][ exclusive /\ flowed' # flowed =>
          \A e \in Engine : unit[e] = "stopped" /\ ~db[e].open ]_vars

(* No writer, with rows loaded however long before, clears the latch of an  *)
(* engine that waits for a human.                                           *)
LatchKept == [][\A e \in Engine : db[e].latch => db'[e].latch]_vars

(* The engines a wrapper stopped start again, also when the entry point     *)
(* fails ("les redémarre même si le rééquilibrage échoue").                 *)
EnginesComeBack == \A e \in Engine : (unit[e] = "stopped") ~> (unit[e] # "stopped")

(* -- the inductive invariant -------------------------------------------- *)

Holding == {"trend", "carry", "register", "read", "save", "restart"}

(* While nothing overlaps: the memory of an engine that runs is its row, a  *)
(* job holds the engines stopped from its stop to its restart, and the rows *)
(* it loaded are still those of the store.                                  *)
Undisturbed ==
    /\ \A e \in Engine : unit[e] = "up" => mem[e] = db[e]
    /\ \A j \in Jobs : job[j].at # "idle" =>
          j # "manual" /\ \A k \in Jobs \ {j} : job[k].at = "idle"
    /\ \A j \in Jobs : job[j].at \in Holding => \A e \in Engine : unit[e] = "stopped"
    /\ \A j \in Jobs :
          /\ job[j].at \in {"carry", "register", "read", "save"} =>
                job[j].rows["trend"] = db["trend"]
          /\ job[j].at \in {"register", "read", "save"} =>
                job[j].rows["carry"] = db["carry"]

(* The inductive invariant behind the proofs.                               *)
CapitalInv ==
    /\ TypeOK /\ DepositsCountedOnce
    /\ exclusive => Accounted /\ Undisturbed
====
