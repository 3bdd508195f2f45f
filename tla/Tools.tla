-------------------------------- MODULE Tools --------------------------------
(****************************************************************************)
(* The tools around the engines: deployment, restoration, migration of the  *)
(* store's schema, the governance of research, the collection of market evidence    *)
(* and the cutover of the carry's model.  They share no state: each has     *)
(* files of its own or finds the writers stopped, so a behaviour is about   *)
(* one of them, named by tool.                                              *)
(****************************************************************************)
EXTENDS Deployment

CONSTANTS
    Scopes, Order, Optional, RecentCount, Widths, BucketCount,
    RestoreWrite, MaxSet, MaxRestore, RestoreFault,
    Process, Migrating, Existing, Legacy, Own,
    Run, Candidate, LastFold, Score, Budgets, SearchFault,
    Operator, Dataset, Interval, Holdout, Terms, Result, Policy, Nothing, MaxCall,
    Event, Expiry, Age, DayLength, Rescan, MaxTime, MaxRow, MaxDamage,
    MaxBooking,
    MaxCrash

VARIABLES
    tool,
    live, world, running, marker, sets, job, restored, restores,
    objects, version, applied, trades, at, seen,
    budget, trial, run, selected, evaluated,
    usage, holdout, call, shown, chain, seal, freezing, calls,
    clock, published, rows, nextId, files, verified, copies, cycle, polled, ever, damages,
    checkpoint, archive, ledger, alarm, model, loop, memory, origin, expected, booked, bare,
    crashes

Recovery == INSTANCE RecoveryGate WITH MaxWrite <- RestoreWrite, MaxFault <- RestoreFault
Opening == INSTANCE Schema
Search == INSTANCE WalkForward WITH MaxFault <- SearchFault
Vault == INSTANCE Sealing WITH None <- Nothing
Evidence == INSTANCE Collector
Carry == INSTANCE Cutover

ASSUME ToolsAssumption ==
    /\ Recovery!RecoveryAssumption
    /\ Opening!SchemaAssumption
    /\ Search!WalkForwardAssumption
    /\ Vault!SealingAssumption
    /\ Evidence!CollectorAssumption
    /\ Carry!CutoverAssumption

deployment == <<links, database, proc, script, deploys>>
recovery == <<live, world, running, marker, sets, job, restored, restores>>
opening == <<objects, version, applied, trades, at, seen>>
search == <<budget, trial, run, selected, evaluated>>
vault == <<usage, holdout, call, shown, chain, seal, freezing, calls>>
evidence == <<clock, published, rows, nextId, files, verified, copies, cycle, polled, ever, damages>>
cutover == <<checkpoint, archive, ledger, alarm, model, loop, memory, origin, expected, booked, bare>>
toolVars == <<tool, deployment, recovery, opening, search, vault, evidence, cutover, faults, crashes>>

(* The one that is not used has nothing to start from but its first state. *)
ToolsInit ==
    /\ tool \in {"deployment", "recovery", "opening", "search", "vault", "evidence", "cutover"}
    /\ Init /\ Recovery!Init /\ Opening!Init /\ Search!Init /\ Vault!Init /\ Evidence!Init
    /\ Carry!Init
    /\ tool # "opening" => version = 0
    /\ tool # "cutover" => model = "synthetic" /\ checkpoint.position = "flat"
    /\ tool # "search" => \A b \in Budgets : budget <= b

Deploying ==
    /\ tool = "deployment" /\ Next
    /\ UNCHANGED <<tool, recovery, opening, search, vault, evidence, cutover, crashes>>

Recovering ==
    /\ tool = "recovery" /\ Recovery!Next
    /\ UNCHANGED <<tool, deployment, opening, search, vault, evidence, cutover, crashes>>

OpeningStore ==
    /\ tool = "opening" /\ Opening!Next
    /\ UNCHANGED <<tool, deployment, recovery, search, vault, evidence, cutover, faults>>

Searching ==
    /\ tool = "search" /\ Search!Next
    /\ UNCHANGED <<tool, deployment, recovery, opening, vault, evidence, cutover, crashes>>

Sealed ==
    /\ tool = "vault" /\ Vault!Next
    /\ UNCHANGED <<tool, deployment, recovery, opening, search, evidence, cutover, faults>>

Collecting ==
    /\ tool = "evidence" /\ Evidence!Next
    /\ UNCHANGED <<tool, deployment, recovery, opening, search, vault, cutover, faults, crashes>>

CuttingOver ==
    /\ tool = "cutover" /\ Carry!Next
    /\ UNCHANGED <<tool, deployment, recovery, opening, search, vault, evidence, faults>>

ToolsNext == Deploying \/ Recovering \/ OpeningStore \/ Searching \/ Sealed \/ Collecting \/ CuttingOver

ToolsSpec == ToolsInit /\ [][ToolsNext]_toolVars

-----------------------------------------------------------------------------

(* RecoveryGate: no writer runs on a restored database before it was         *)
(* reconciled with the world.                                                *)
FencedUntilReconciled == Recovery!FencedUntilReconciled

(* Schema: an engine at work finds the whole schema of its version, and the  *)
(* trades of older releases once.                                            *)
OpensWhole == Opening!OpensWhole

(* WalkForward: a trial is evaluated once at most, within the budget, and a   *)
(* selection misses no success known when its fold began.                   *)
SearchIsJust == Search!SearchIsJust

(* Sealing: every result of a holdout ever returned is the one it kept, and  *)
(* a policy that verified once verifies for good.                            *)
SealsHold == Vault!SealsHold

(* Collector: no recorded observation is lost by archiving, whatever cuts it. *)
EvidenceKept == Evidence!EvidenceKept

(* Cutover: the carry engine and the cutovers of its model lose nothing of   *)
(* each other's commits, and the equity stays what was booked.              *)
CutoverLosesNothing == Carry!CutoverLosesNothing

=============================================================================
