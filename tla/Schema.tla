-------------------------------- MODULE Schema --------------------------------
(****************************************************************************)
(* Opening the SQLite store: inspection of an existing database, refusal of *)
(* an implicit migration, creation or migration to the latest schema, and   *)
(* the import of the CSV journals of older releases.                        *)
(*                                                                          *)
(* The code opens one transaction for all of it, but the second             *)
(* executescript, in the evidence schema, commits the first half: an        *)
(* opening is two transactions, between which a process can die and another *)
(* process open the same database.  objects holds what the schema has, each *)
(* object named after what its version introduced.                          *)
(****************************************************************************)
EXTENDS Naturals, FiniteSets

CONSTANTS
    Process,
    Migrating,  \* processes of the migrate entry point: allow_migration
    Existing,   \* versions the database may have at first; 0: no database
    Legacy, Own,        \* trades: of the CSV journal, of the new release
    MaxCrash    \* bound: processes killed

SchemaAssumption ==
    /\ Migrating \subseteq Process
    /\ Existing \subseteq {0} \cup 4 .. 14
    /\ Legacy \cap Own = {}
    /\ MaxCrash \in Nat

VARIABLES
    objects,    \* of the schema, committed
    version,    \* metadata.schema_version; 0: no such row
    applied,    \* some application refers to an external fill
    trades,     \* how often a trade is in the table
    at,         \* of a process: where its opening is
    seen,       \* of a process: the version its first transaction read, 0 if none
    crashes

vars == <<objects, version, applied, trades, at, seen, crashes>>

SCHEMA_VERSION == 14

(* The version that introduced each object. *)
Since == [base |-> 1, reference_price |-> 2, order_safety |-> 5, funding |-> 6, evidence |-> 7,
          signed_fees |-> 8, plans |-> 9, fill_ledger |-> 10, status_event |-> 11,
          settlements |-> 12, settlement_ledger |-> 13, completeness_v2 |-> 14]
Object == DOMAIN Since
Of(v) == {x \in Object : Since[x] <= v}

Trade == Legacy \cup Own

Goto(p, step) == at' = [at EXCEPT ![p] = step]

-----------------------------------------------------------------------------
(* The schema, object by object: CREATE IF NOT EXISTS gives the latest form *)
(* to a table that is absent and leaves one that exists as it is.           *)

WithBase(s) == IF "base" \in s THEN s ELSE s \cup Of(5)
WithReferencePrice(s, v) == IF v < 2 THEN s \cup {"reference_price"} ELSE s
WithOrderSafety(s) == s \cup {"order_safety"}
WithFunding(s) == s \cup {"funding"}
WithEvidence(s) ==
    IF "evidence" \in s THEN s ELSE s \cup {"evidence", "signed_fees", "status_event"}
WithPlans(s) == s \cup {"plans"}
WithFillLedger(s) == s \cup {"fill_ledger"}
WithStatusEvent(s, v) == IF v < 11 THEN s \cup {"status_event"} ELSE s
WithSettlements(s) ==
    IF "settlements" \in s THEN s ELSE s \cup {"settlements", "completeness_v2"}
WithSettlementLedger(s) == s \cup {"settlement_ledger"}

(* The two tables SQLite cannot alter in place are rebuilt. *)
RebuiltFills(s, v) == IF v < 8 THEN s \cup {"signed_fees"} ELSE s
RebuiltSettlements(s, v) == IF v < 14 THEN s \cup {"completeness_v2"} ELSE s

(* Before the second executescript; v is the version read, or the latest of *)
(* a new schema.                                                            *)
FirstHalf(s, v) == WithFunding(WithOrderSafety(WithReferencePrice(WithBase(s), v)))

(* Mutated form: the settlements are left in the form they have. *)
SecondHalfEnsured(s, v) ==
    WithSettlementLedger(WithSettlements(WithStatusEvent(
        WithFillLedger(WithPlans(RebuiltFills(WithEvidence(s), v))), v)))

SecondHalf(s, v) ==
    RebuiltSettlements(WithSettlementLedger(WithSettlements(WithStatusEvent(
        WithFillLedger(WithPlans(RebuiltFills(WithEvidence(s), v))), v))), v)

(* A rebuild copies every row, counts them, and drops the old table.  v14    *)
(* renames the applications of the settlements with their parent; v8 does   *)
(* not, and the foreign key refuses the DROP once an application refers to a *)
(* fill.                                                                    *)
Refused(v) == v < 8 /\ applied

-----------------------------------------------------------------------------
(* One opening. *)

(* migrate.main refuses a database without a version, and has nothing to do *)
(* with one that is up to date.                                             *)
WantsMigration == version # 0 /\ version < SCHEMA_VERSION

(* _existing_schema, in a connection of its own, and the refusal of an      *)
(* implicit migration.  A refused process ends, systemd starts it again.    *)
Inspect(p) ==
    /\ at[p] = "down"
    /\ IF p \in Migrating THEN WantsMigration ELSE objects = {} \/ version = SCHEMA_VERSION
    /\ Goto(p, "first")
    /\ UNCHANGED <<objects, version, applied, trades, seen, crashes>>

Latest(v) == IF v = 0 THEN SCHEMA_VERSION ELSE v

FirstTransaction(p) ==
    /\ at[p] = "first"
    /\ objects' = FirstHalf(objects, Latest(version))
    /\ seen' = [seen EXCEPT ![p] = version]
    /\ Goto(p, "second")
    /\ UNCHANGED <<version, applied, trades, crashes>>

(* The version is inserted by who saw no row of it, and is a primary key. *)
Conflicts(p) == seen[p] = 0 /\ version # 0

SecondTransaction(p) ==
    /\ at[p] = "second" /\ ~Refused(Latest(seen[p])) /\ ~Conflicts(p)
    /\ objects' = SecondHalf(objects, Latest(seen[p]))
    /\ version' = SCHEMA_VERSION
    /\ Goto(p, IF p \in Migrating THEN "down" ELSE "open")
    /\ UNCHANGED <<applied, trades, seen, crashes>>

(* Rolled back to the end of the first transaction. *)
SecondFails(p) ==
    /\ at[p] = "second" /\ (Refused(Latest(seen[p])) \/ Conflicts(p))
    /\ Goto(p, "down")
    /\ UNCHANGED <<objects, version, applied, trades, seen, crashes>>

(* A table that is not empty is never imported again. *)
NotImported == \A t \in Trade : trades[t] = 0

(* migrate_legacy_journals: the files are read first, the table inside. *)
Import(p) ==
    /\ at[p] = "open"
    /\ trades' = [t \in Trade |-> trades[t] + IF NotImported /\ t \in Legacy THEN 1 ELSE 0]
    /\ Goto(p, "ready")
    /\ UNCHANGED <<objects, version, applied, seen, crashes>>

(* An engine at work. *)
ApplyFill(p) ==
    /\ at[p] = "ready" /\ ~applied
    /\ applied' = TRUE
    /\ UNCHANGED <<objects, version, trades, at, seen, crashes>>

RecordTrade(p) ==
    /\ at[p] = "ready"
    /\ \E t \in Own : trades[t] = 0 /\ trades' = [trades EXCEPT ![t] = 1]
    /\ UNCHANGED <<objects, version, applied, at, seen, crashes>>

(* A kill; an open transaction is rolled back. *)
Crash(p) ==
    /\ at[p] # "down"
    /\ crashes < MaxCrash /\ crashes' = crashes + 1
    /\ Goto(p, "down")
    /\ UNCHANGED <<objects, version, applied, trades, seen>>

-----------------------------------------------------------------------------

Init ==
    /\ version \in Existing
    /\ objects = Of(version)
    /\ applied \in IF version < 10 THEN {FALSE} ELSE BOOLEAN
    /\ \E imported \in IF version = 0 THEN {FALSE} ELSE BOOLEAN :
          trades = [t \in Trade |-> IF imported /\ t \in Legacy THEN 1 ELSE 0]
    /\ at = [p \in Process |-> "down"]
    /\ seen = [p \in Process |-> 0]
    /\ crashes = 0

Next ==
    \E p \in Process :
        \/ Inspect(p) \/ FirstTransaction(p) \/ SecondTransaction(p) \/ SecondFails(p)
        \/ Import(p) \/ ApplyFill(p) \/ RecordTrade(p) \/ Crash(p)

Spec == Init /\ [][Next]_vars

-----------------------------------------------------------------------------

(* _initialize: whatever openings overlap or die, a recorded version never   *)
(* names an object the schema does not have, and no process works on a       *)
(* schema that is not the latest.                                            *)
SchemaIsWhole ==
    /\ Of(version) \subseteq objects
    /\ \A p \in Process : at[p] \in {"open", "ready"} => version = SCHEMA_VERSION

(* migrate_legacy_journals: the trades of the older release are in the table *)
(* once when an engine works, and never twice, whichever engines start       *)
(* together and whatever trades they record.                                 *)
LegacyOnce ==
    \A t \in Legacy :
        /\ trades[t] <= 1
        /\ \A p \in Process : at[p] = "ready" => trades[t] = 1

(* An engine at work finds the whole schema of its version and the trades of *)
(* older releases once.                                                      *)
OpensWhole == SchemaIsWhole /\ LegacyOnce

=============================================================================
