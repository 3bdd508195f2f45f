----------------------------- MODULE Deployment -----------------------------
(***************************************************************************)
(* deploy/update.sh: a release is switched, with or without a migration of *)
(* the database, while systemd owns the writers.  The script runs under    *)
(* `set -euo pipefail` with an ERR trap.  bash does not inherit that trap  *)
(* in functions: a command that fails at top level, or a function that     *)
(* returns non-zero, runs the trap; a command that fails inside a function *)
(* ends the script at once.  The trap's own calls are followed by `|| true`*)
(* or made inside an `if`, where errexit is off, so nothing they do stops  *)
(* it.                                                                     *)
(***************************************************************************)
EXTENDS Naturals, FiniteSets

CONSTANTS
    Releases,    \* the releases built under releases/
    First,       \* the release installed at the start
    SchemaOf,    \* the schema version each release implements
    Units,       \* what update.sh stops: engine, timers (and shadow), dashboard
    MaxDeploy,   \* bound: runs of update.sh
    MaxWrite,    \* bound: durable writes
    MaxFault     \* bound: failed commands, kills and reboots, together

ASSUME ReleaseAssumption == First \in Releases /\ SchemaOf \in [Releases -> Nat \ {0}]
ASSUME UnitsAssumption == Units = {"engine", "timers", "dashboard"}
ASSUME BoundAssumption == MaxDeploy \in Nat /\ MaxWrite \in Nat /\ MaxFault \in Nat

\* A release is a directory of releases/, never the state of a unit.
ASSUME ProcessAssumption == {"down", "failing"} \cap Releases = {}

VARIABLES
    current, previous,  \* the release links
    dash,               \* the dashboard-current link
    installed,          \* the release whose unit files systemd loaded
    schema,             \* metadata.schema_version of the database
    writes,             \* durable writes the database holds
    made,               \* durable writes ever made
    backup,             \* per release, the copy taken before migrating to it
    proc,               \* per unit, the release its process runs
    pc,                 \* where update.sh is
    plan,               \* its arguments and what it read at the start
    migrated,           \* MIGRATION_COMPLETED
    started,            \* TARGET_WRITES_STARTED
    verdict,            \* what the last run said
    deploys, faults     \* bounded counters

links == <<current, previous, dash, installed>>
database == <<schema, writes, made, backup>>
script == <<pc, plan, migrated, started, verdict>>
counters == <<deploys, faults>>
vars == <<links, database, proc, script, counters>>

None == "none"
Copy == [schema : Nat, writes : 0 .. MaxWrite]
NoCopy == [schema |-> 0, writes |-> 0]
NoPlan == [mode |-> None, target |-> First, old |-> First, oldPrevious |-> First,
           oldDash |-> First, engines |-> FALSE]
Plans == [mode : {None, "code", "migration", "rollback"}, target : Releases, old : Releases,
          oldPrevious : Releases, oldDash : Releases, engines : BOOLEAN]
Verdicts == {None, "active", "undone", "manual", "refused", "exit"}
Steps == {"idle", "quiesce", "install_target", "prove_quiescence", "backup", "migrate",
          "switch_current", "switch_previous", "switch_dashboard", "install",
          "timers", "dashboard", "engines", "health", "readiness", "trap"}

-----------------------------------------------------------------------------
(* systemd and the database. *)

\* Mutated form: the timers are missing from the list of units.
AllDownListed(p) == \A u \in Units \ {"timers"} : p[u] = "down"
AllDown(p) == \A u \in Units : p[u] = "down"

\* The dashboard opens the store read-only, which checks no schema.
ReadOnly == {"dashboard"}

\* A started unit runs the release its link names; a writer keeps failing when
\* StateStore refuses the schema.
Loaded(u, cur, dsh, v) ==
    LET r == IF u = "dashboard" THEN dsh ELSE cur IN
    IF u \in ReadOnly \/ SchemaOf[r] = v THEN r ELSE "failing"

Start(S, p, cur, dsh, v) ==
    [u \in Units |-> IF u \in S THEN Loaded(u, cur, dsh, v) ELSE p[u]]

\* systemctl stop ... || true: a unit may survive, as a fault.
Stopped(p, survivors) == [u \in Units |-> IF u \in survivors THEN p[u] ELSE "down"]

\* update.sh counts the dashboard among the writers; so does this.
Write(u) ==
    /\ proc[u] \in Releases
    /\ made < MaxWrite
    /\ writes' = writes + 1
    /\ made' = made + 1
    /\ UNCHANGED <<links, schema, backup, proc, script, counters>>

\* Restart=always: a process that ends comes back on what the links name now.
Restart(u) ==
    /\ proc[u] # "down"
    /\ proc' = Start({u}, proc, current, dash, schema)
    /\ proc' # proc
    /\ UNCHANGED <<links, database, script, counters>>

-----------------------------------------------------------------------------
(* How a command ends. *)

Fault == faults < MaxFault /\ faults' = faults + 1
At(s) == pc = s
Go(s) == pc' = s /\ UNCHANGED <<plan, migrated, started, verdict>>
End(v) == pc' = "idle" /\ verdict' = v /\ UNCHANGED <<plan, migrated, started>>

\* A command at top level failed: the trap in force runs, if one is.
Trapped == /\ Fault
           /\ IF plan.mode = "rollback" THEN End("exit") ELSE Go("trap")

\* A command inside a function failed: the script ends where it is.
Silent == Fault /\ End("exit")

Frame(s) == At(s) /\ UNCHANGED deploys

-----------------------------------------------------------------------------
(* The start: arguments, schema guards. *)

Admitted(mode, r) ==
    CASE mode = "code" -> schema = SchemaOf[r]
      [] mode = "migration" -> schema < SchemaOf[r]
      [] mode = "rollback" -> r = previous /\ schema <= SchemaOf[r]

Begin(mode, r, engines) ==
    /\ At("idle")
    /\ deploys < MaxDeploy
    /\ Admitted(mode, r)
    /\ mode = "rollback" => ~engines
    /\ deploys' = deploys + 1
    /\ plan' = [mode |-> mode, target |-> r, old |-> current, oldPrevious |-> previous,
                oldDash |-> dash, engines |-> engines]
    /\ pc' = IF mode = "migration" THEN "quiesce" ELSE "switch_current"
    /\ migrated' = FALSE /\ started' = FALSE /\ verdict' = None
    /\ UNCHANGED <<links, database, proc, faults>>

-----------------------------------------------------------------------------
(* The migration: quiescence, backup, schema change. *)

Quiesce ==
    /\ Frame("quiesce")
    /\ Go("install_target")
    /\ \/ proc' = Stopped(proc, {}) /\ UNCHANGED faults
       \/ Fault /\ \E u \in Units : proc' = Stopped(proc, {u})
    /\ UNCHANGED <<links, database>>

InstallTarget ==
    /\ Frame("install_target")
    /\ \/ Go("prove_quiescence") /\ installed' = plan.target /\ UNCHANGED faults
       \/ Silent /\ installed' \in {installed, plan.target}
    /\ UNCHANGED <<current, previous, dash, database, proc>>

\* migration_abort_on_error: with a backup in place the operator must recover;
\* without one the old units come back and nothing else has changed.
Abort(b) ==
    IF b[plan.target] # NoCopy
    THEN End("manual") /\ UNCHANGED installed
    ELSE End("refused") /\ installed' = plan.old

ProveQuiescence ==
    /\ Frame("prove_quiescence")
    /\ \/ AllDown(proc) /\ Go("backup") /\ UNCHANGED <<installed, faults>>
       \/ ~AllDown(proc) /\ Abort(backup) /\ UNCHANGED faults
       \/ AllDown(proc) /\ Fault /\ Abort(backup)
    /\ UNCHANGED <<current, previous, dash, database, proc>>

\* An existing copy for this release is never overwritten.
TakeBackup ==
    /\ Frame("backup")
    /\ \/ /\ backup[plan.target] = NoCopy
          /\ backup' = [backup EXCEPT ![plan.target] = [schema |-> schema, writes |-> writes]]
          /\ Go("migrate") /\ UNCHANGED <<installed, faults>>
       \/ /\ backup[plan.target] # NoCopy \/ faults < MaxFault
          /\ faults' = IF backup[plan.target] # NoCopy THEN faults ELSE faults + 1
          /\ Abort(backup) /\ UNCHANGED backup
    /\ UNCHANGED <<current, previous, dash, schema, writes, made, proc>>

\* One transaction from schema 6 on: the version changes or it does not; the check after it can
\* still fail.
Migrate ==
    /\ Frame("migrate")
    /\ \/ /\ schema' = SchemaOf[plan.target]
          /\ pc' = "switch_current" /\ migrated' = TRUE
          /\ UNCHANGED <<plan, started, verdict, installed, faults>>
       \/ /\ schema' \in {schema, SchemaOf[plan.target]}
          /\ Fault /\ Abort(backup)
    /\ UNCHANGED <<current, previous, dash, writes, made, backup, proc>>

-----------------------------------------------------------------------------
(* The switch: atomic_switch_release, the dashboard link, the units. *)

SwitchCurrent ==
    /\ Frame("switch_current")
    /\ \/ current' = plan.target /\ Go(IF current = plan.target THEN "switch_dashboard" ELSE "switch_previous")
          /\ UNCHANGED faults
       \/ UNCHANGED current /\ Trapped
    /\ UNCHANGED <<previous, dash, installed, database, proc>>

\* When the second link fails the first is put back, if that works.
SwitchPrevious ==
    /\ Frame("switch_previous")
    /\ \/ previous' = plan.old /\ Go("switch_dashboard") /\ UNCHANGED <<current, faults>>
       \/ current' \in {current, plan.old} /\ UNCHANGED previous /\ Trapped
    /\ UNCHANGED <<dash, installed, database, proc>>

SwitchDashboard ==
    /\ Frame("switch_dashboard")
    /\ \/ dash' = plan.target /\ Go("install") /\ UNCHANGED faults
       \/ UNCHANGED dash /\ (Silent \/ Trapped)
    /\ UNCHANGED <<current, previous, installed, database, proc>>

\* cp, systemd-analyze: commands of a function; the path check returns 1.
InstallUnits ==
    /\ Frame("install")
    /\ \/ /\ installed' = plan.target /\ UNCHANGED faults
          /\ Go(IF plan.mode = "migration" THEN "dashboard" ELSE "timers")
       \/ installed' \in {installed, plan.target} /\ Silent
       \/ plan.mode # "rollback" /\ installed' = plan.target /\ Trapped
    /\ UNCHANGED <<current, previous, dash, database, proc>>

-----------------------------------------------------------------------------
(* The starts. In a migration the dashboard comes first. *)

AfterTimers ==
    IF plan.mode = "migration"
    THEN IF plan.engines THEN "engines" ELSE "readiness"
    ELSE "dashboard"

\* The flag is set before the first command that may start a writer.
StartTimers ==
    /\ Frame("timers")
    /\ started' = TRUE
    /\ UNCHANGED <<plan, migrated>>
    /\ \/ /\ proc' = Start({"timers"}, proc, current, dash, schema)
          /\ pc' = AfterTimers /\ UNCHANGED <<verdict, faults>>
       \/ /\ proc' \in {proc, Start({"timers"}, proc, current, dash, schema)}
          /\ Fault /\ pc' = "idle" /\ verdict' = "exit"
    /\ UNCHANGED <<links, database>>

\* Mutated form: the frontier is only marked once the timers start.
CrossesFrontierLate == started

\* In a migration the dashboard is the first unit started: the frontier is
\* marked before it.
CrossesFrontier == started \/ plan.mode = "migration"

\* systemctl restart btcquant-dashboard, in a function when migrating.
StartDashboard ==
    /\ Frame("dashboard")
    /\ \/ /\ started' = CrossesFrontier
          /\ proc' = Start({"dashboard"}, proc, current, dash, schema)
          /\ pc' = IF plan.mode = "code" /\ plan.engines THEN "engines" ELSE "health"
          /\ UNCHANGED <<plan, migrated, verdict, faults>>
       \/ plan.mode = "migration" /\ UNCHANGED proc /\ Silent
       \/ plan.mode = "code" /\ UNCHANGED proc /\ Trapped
       \/ plan.mode = "rollback" /\ UNCHANGED proc /\ Fault /\ End("manual")
    /\ UNCHANGED <<links, database>>

\* wait_for_dashboard returns 1: the trap runs.
CheckHealth ==
    /\ Frame("health")
    /\ \/ Go(IF plan.mode = "migration" THEN "timers" ELSE "readiness") /\ UNCHANGED faults
       \/ plan.mode # "rollback" /\ Trapped
       \/ plan.mode = "rollback" /\ Fault /\ End("manual")
    /\ UNCHANGED <<links, database, proc>>

StartEngines ==
    /\ Frame("engines")
    /\ \/ /\ proc' = Start({"engine"}, proc, current, dash, schema)
          /\ Go(IF plan.mode = "migration" THEN "readiness" ELSE "health") /\ UNCHANGED faults
       \/ UNCHANGED proc /\ Silent
    /\ UNCHANGED <<links, database>>

\* is-active and wait_for_readiness, only with --engines.
CheckReadiness ==
    /\ Frame("readiness")
    /\ \/ End("active") /\ UNCHANGED faults
       \/ plan.engines /\ Trapped
    /\ UNCHANGED <<links, database, proc>>

-----------------------------------------------------------------------------
(* rollback_on_error. *)

\* Commands of the trap that fail, none of which stops it.
Failing(n) == faults + n <= MaxFault /\ faults' = faults + n
Missed(ok) == IF ok THEN 0 ELSE 1

\* Back on the old release: atomic_switch_release makes the failed target the
\* previous one, unless the switch had not happened.
LinksUndone(done) ==
    /\ IF done /\ current # plan.old
       THEN current' = plan.old /\ previous' = current
       ELSE UNCHANGED <<current, previous>>
    /\ dash' = plan.oldDash
    /\ installed' = plan.old

Restarted(p, cur, v) ==
    Start({"timers", "dashboard"} \cup (IF plan.engines THEN {"engine"} ELSE {}),
          p, cur, plan.oldDash, v)

\* Past the frontier nothing is restored: the writers are stopped.
FailClosed ==
    /\ Frame("trap")
    /\ migrated /\ started
    /\ proc' = Stopped(proc, {})
    /\ End("manual")
    /\ UNCHANGED <<links, database, faults>>

RestoreDatabase ==
    /\ schema' = backup[plan.target].schema
    /\ writes' = backup[plan.target].writes
    /\ UNCHANGED <<made, backup>>

\* Before the frontier the copy and the old code come back. The function runs
\* inside an `if`: a failed restoration does not stop it.
UndoMigration ==
    /\ Frame("trap")
    /\ migrated /\ ~started
    /\ \E ok, done \in BOOLEAN :
        /\ Failing(Missed(ok) + Missed(done))
        /\ IF ok THEN RestoreDatabase ELSE UNCHANGED database
        /\ LinksUndone(done)
    /\ proc' = Restarted(Stopped(proc, {}), current', schema')
    /\ End("undone")

UndoCode ==
    /\ Frame("trap")
    /\ ~migrated
    /\ \E done \in BOOLEAN : Failing(Missed(done)) /\ LinksUndone(done)
    /\ proc' = Restarted(Stopped(proc, {}), current', schema)
    /\ End("undone")
    /\ UNCHANGED database

-----------------------------------------------------------------------------
(* The script is killed, or the host reboots: systemd starts the enabled units. *)

Kill ==
    /\ pc # "idle"
    /\ Fault
    /\ End("exit")
    /\ UNCHANGED <<links, database, proc, deploys>>

Reboot ==
    /\ Fault
    /\ proc' = Start(Units, proc, current, dash, schema)
    /\ pc' = "idle" /\ UNCHANGED <<plan, migrated, started>>
    /\ verdict' = IF pc = "idle" THEN verdict ELSE "exit"
    /\ UNCHANGED <<links, database, deploys>>

-----------------------------------------------------------------------------

Init ==
    /\ current = First /\ previous = First /\ dash = First /\ installed = First
    /\ schema = SchemaOf[First]
    /\ writes = 0 /\ made = 0
    /\ backup = [r \in Releases |-> NoCopy]
    /\ proc = [u \in Units |-> First]
    /\ pc = "idle" /\ plan = NoPlan /\ migrated = FALSE /\ started = FALSE
    /\ verdict = None
    /\ deploys = 0 /\ faults = 0

Next ==
    \/ \E mode \in {"code", "migration", "rollback"}, r \in Releases, e \in BOOLEAN : Begin(mode, r, e)
    \/ Quiesce \/ InstallTarget \/ ProveQuiescence \/ TakeBackup \/ Migrate
    \/ SwitchCurrent \/ SwitchPrevious \/ SwitchDashboard \/ InstallUnits
    \/ StartTimers \/ StartDashboard \/ CheckHealth \/ StartEngines \/ CheckReadiness
    \/ FailClosed \/ UndoMigration \/ UndoCode
    \/ Kill \/ Reboot
    \/ \E u \in Units : Write(u) \/ Restart(u)

Spec == Init /\ [][Next]_vars

-----------------------------------------------------------------------------
(* Properties. *)

\* The types of the variables.
LinksOK == {current, previous, dash, installed} \subseteq Releases
DatabaseOK ==
    /\ schema \in Nat /\ {writes, made} \subseteq 0 .. MaxWrite
    /\ backup \in [Releases -> Copy]
UnitsOK == proc \in [Units -> Releases \cup {"down", "failing"}]
ScriptOK ==
    /\ pc \in Steps /\ plan \in Plans /\ verdict \in Verdicts
    /\ {migrated, started} \subseteq BOOLEAN
CountersOK == deploys \in 0 .. MaxDeploy /\ faults \in 0 .. MaxFault

TypeOK == LinksOK /\ DatabaseOK /\ UnitsOK /\ ScriptOK /\ CountersOK

\* A durable write is never lost to the restoration of a copy taken before it:
\* past the first start of a writer nothing is restored (update.sh:521-537,
\* migration_rollback_disposition).
NoWriteLost == writes = made

\* A process that opens the store for writing never runs on a schema its code
\* does not implement, whatever is migrated, restored, switched, killed or
\* rebooted under it. (The dashboard may: nothing checks what it reads.)
RunningCodeFits ==
    \A u \in Units \ ReadOnly : proc[u] \in Releases => SchemaOf[proc[u]] = schema

=============================================================================
