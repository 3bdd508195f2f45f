---------------------------- MODULE Qualification ----------------------------
(***************************************************************************)
(* What stands between the paper engines and the testnet: the technical    *)
(* record of a release, the maturity campaign bound to it, the readiness   *)
(* report that ends the campaign and the gate.  Each command is a process  *)
(* of its own that opens a connection per read, so the engine, the         *)
(* watchdog, update.sh and the other commands move between any two of its  *)
(* steps.                                                                  *)
(***************************************************************************)
EXTENDS Integers, FiniteSets, SequencesExt

CONSTANTS
    Releases,       \* manifests (sha, tree, schema and configuration identity)
    First,          \* the release active at the start
    Commands,       \* processes of btcquant-readiness and of the qualification
    Freshness,      \* ticks a checkpoint keeps the engine fresh
    DayLength,      \* ticks of a calendar day
    MinTicks,       \* min_observation_days
    MinUptime,      \* min_engine_uptime and the two coverage thresholds, in %
    MinOrders,      \* min_terminal_orders
    ValidTicks,     \* qualification_valid_days
    MaxTime, MaxCalls, MaxSwitches, MaxOrders,  \* bounds
    Horizon         \* bound: the ticks CoverageIsExact tries

ASSUME ReleaseAssumption == First \in Releases
ASSUME TimeAssumption ==
    /\ Freshness \in Nat \ {0} /\ DayLength \in Nat \ {0}
    /\ MinTicks \in Nat /\ ValidTicks \in Nat /\ MinOrders \in Nat /\ MinUptime \in 0 .. 100

VARIABLES
    now,
    release, switches,      \* the manifest `current` names
    samples,                \* ticks at which the engine checkpointed its equity
    flat, latched,          \* its position, its reconciliation_required
    order, done, opened,    \* its order in flight, creation ticks of the closed ones
    records,                \* technical qualifications, in id order
    campaigns,              \* qualification_campaigns, in id order
    cmd, calls,             \* per command: where it is and what it has read
    incident,               \* a CRITICAL incident is open
    admitted                \* what the testnet gate last let through

engine == <<samples, flat, latched, order, done, opened, incident>>
ledger == <<records, campaigns>>
qualificationVars == <<now, release, switches, engine, ledger, cmd, calls, admitted>>

Never == MaxTime + 1

-----------------------------------------------------------------------------
(* The measures of a campaign. *)

Least(a, b) == IF a < b THEN a ELSE b
Most(a, b) == IF a > b THEN a ELSE b

\* Mutated form: a sample inside the current interval does not extend it.
ExtendShort(s, i) ==
    IF i.left <= s.right THEN s
    ELSE [covered |-> s.covered + (s.right - s.left), left |-> i.left, right |-> i.right]

Extend(s, i) ==
    IF i.left <= s.right THEN [s EXCEPT !.right = Most(s.right, i.right)]
    ELSE [covered |-> s.covered + (s.right - s.left), left |-> i.left, right |-> i.right]

\* The samples that can cover a tick of [start, end), and the ticks each covers.
Useful(S, start, end) == {t \in S : start - t < Freshness /\ t < end}
Interval(t, start, end) == [left |-> Most(start, t), right |-> Least(end, t + Freshness)]

\* The intervals of the useful samples in their order, merged: the ticks of those closed and
\* the last one.  Before the first it is empty, which the first takes the place of.
Merged(S, start, end) ==
    LET merge[t \in 0 .. end] ==
          LET before == IF t = 0 THEN [covered |-> 0, left |-> start, right |-> start] ELSE merge[t - 1]
          IN  IF t \in Useful(S, start, end) THEN Extend(before, Interval(t, start, end)) ELSE before
    IN  merge[end]

\* Ticks of [start, end) within Freshness of a sample.
Covered(S, start, end) == LET last == Merged(S, start, end)
                          IN  last.covered + (last.right - last.left)

Available(S, start, end) == start < end /\ 100 * Covered(S, start, end) >= MinUptime * (end - start)

DayOf(t) == t \div DayLength

CoveredDays(S, start, end) ==
    {d \in DayOf(start) .. DayOf(end) :
        Available(S, Most(start, d * DayLength), Least(end, (d + 1) * DayLength))}

\* The checkpoint age; a database without a row has none.
Age(S, t) == IF S = {} THEN Never ELSE t - (CHOOSE s \in S : \A r \in S : r <= s)

-----------------------------------------------------------------------------
(* Rows. *)

NoReport == [campaign |-> 0, generated |-> 0, pass |-> FALSE]
Campaign(protocol, rel, rec, t) ==
    [protocol |-> protocol, status |-> "RUNNING", release |-> rel, record |-> rec,
     started |-> t, ended |-> Never, report |-> NoReport]

Running == {c \in DOMAIN campaigns : campaigns[c].status = "RUNNING"}
Passed == {c \in DOMAIN campaigns : campaigns[c].status = "PASSED"}
Latest(C) == CHOOSE c \in C : \A d \in C : d <= c
LatestOrNone(C) == IF C = {} THEN 0 ELSE Latest(C)

\* An open WARNING stops the report and not the start: only CRITICAL incidents
\* are modelled.
Clean == order = Never /\ ~latched /\ ~incident

\* A v3 contract and the facts it is bound to; a v2 contract has none.
BindingHolds(c) ==
    /\ c.protocol = 3
    /\ c.release = release
    /\ c.record \in DOMAIN records /\ records[c.record] = release

AtRest == [at |-> "idle", release |-> First, record |-> 0, campaign |-> 0, report |-> NoReport]

-----------------------------------------------------------------------------
(* The engine, update.sh and the clock. *)

Tick ==
    /\ now < MaxTime
    /\ now' = now + 1
    /\ UNCHANGED <<release, switches, engine, ledger, cmd, calls, admitted>>

Checkpoint ==
    /\ now \notin samples
    /\ samples' = samples \cup {now}
    /\ UNCHANGED <<now, release, switches, flat, latched, order, done, opened, incident, ledger, cmd, calls,
                   admitted>>

OpenOrder ==
    /\ order = Never /\ ~latched /\ opened < MaxOrders
    /\ order' = now /\ opened' = opened + 1
    /\ UNCHANGED <<now, release, switches, samples, flat, latched, done, incident, ledger, cmd, calls,
                   admitted>>

\* A fill turns the position; a rejection does not.
CloseOrder ==
    /\ order # Never
    /\ order' = Never
    /\ done' = done \cup {order}
    /\ flat' \in BOOLEAN
    /\ UNCHANGED <<now, release, switches, samples, latched, opened, incident, ledger, cmd, calls,
                   admitted>>

Latch ==
    /\ ~latched
    /\ latched' = TRUE
    /\ UNCHANGED <<now, release, switches, samples, flat, order, done, opened, incident, ledger, cmd, calls,
                   admitted>>

\* record_incident and resolve_incident, by the engines and the watchdog.
RecordIncident ==
    /\ ~incident
    /\ incident' = TRUE
    /\ UNCHANGED <<now, release, switches, samples, flat, latched, order, done, opened, ledger, cmd,
                   calls, admitted>>

ResolveIncident ==
    /\ incident
    /\ incident' = FALSE
    /\ UNCHANGED <<now, release, switches, samples, flat, latched, order, done, opened, ledger, cmd,
                   calls, admitted>>

Switch ==
    /\ switches < MaxSwitches
    /\ release' \in Releases \ {release}
    /\ switches' = switches + 1
    /\ UNCHANGED <<now, engine, ledger, cmd, calls, admitted>>

-----------------------------------------------------------------------------
(* The commands. *)

World == <<now, release, switches, engine, admitted>>
Goto(p, r) == cmd' = [cmd EXCEPT ![p] = r]
Leave(p) == Goto(p, AtRest)
At(p, s) == cmd[p].at = s

Call(p) ==
    /\ At(p, "idle")
    /\ calls < MaxCalls
    /\ calls' = calls + 1

\* Collection reads the release, then the database, the services, the backups.
Collect(p, next) ==
    /\ Call(p)
    /\ Clean
    /\ Goto(p, [AtRest EXCEPT !.at = next, !.release = release])
    /\ UNCHANGED <<World, ledger>>

\* record_paper_technical_evidence: only the release is read again.
Record(p) ==
    /\ At(p, "record")
    /\ records' = IF cmd[p].release = release THEN Append(records, release) ELSE records
    /\ Leave(p)
    /\ UNCHANGED <<World, campaigns, calls>>

\* start_paper_maturity_campaign: the manifest is read again for the binding,
\* the record is compared with the evidence.
Bind(p) ==
    /\ At(p, "bind")
    /\ IF records # << >> /\ Last(records) = cmd[p].release
       THEN Goto(p, [cmd[p] EXCEPT !.at = "insert", !.release = release, !.record = Len(records)])
       ELSE Leave(p)
    /\ UNCHANGED <<World, ledger, calls>>

\* Mutated form: the transaction does not compare the record with the binding.
InsertableUnmatched(p) == Running = {} /\ Clean /\ flat /\ cmd[p].record \in DOMAIN records

\* The transaction of start_bound_paper_maturity_campaign.
Insertable(p) ==
    /\ Running = {} /\ Clean /\ flat
    /\ cmd[p].record \in DOMAIN records /\ records[cmd[p].record] = cmd[p].release

Insert(p) ==
    /\ At(p, "insert")
    /\ campaigns' = IF Insertable(p)
                    THEN Append(campaigns, Campaign(3, cmd[p].release, cmd[p].record, now))
                    ELSE campaigns
    /\ Leave(p)
    /\ UNCHANGED <<World, records, calls>>

\* start --profile testnet-p1: unbound, checks nothing but the running row.
StartUnbound(p) ==
    /\ Call(p)
    /\ Running = {}
    /\ campaigns' = Append(campaigns, Campaign(2, First, 0, now))
    /\ UNCHANGED <<World, records, cmd>>

ReadActive(p, next) ==
    /\ Call(p)
    /\ Running # {}
    /\ Goto(p, [AtRest EXCEPT !.at = next, !.campaign = Latest(Running)])
    /\ UNCHANGED <<World, ledger>>

\* finalize_campaign: the binding of the campaign it read.
CheckBinding(p) ==
    /\ At(p, "check")
    /\ LET c == campaigns[cmd[p].campaign] IN
       IF c.protocol = 3 => BindingHolds(c) THEN Goto(p, [cmd[p] EXCEPT !.at = "evaluate"]) ELSE Leave(p)
    /\ UNCHANGED <<World, ledger, calls>>

\* The checks of evaluate_readiness on a running campaign.
Ready(c) ==
    LET end == now  start == c.started IN
    /\ end - start >= MinTicks
    /\ Available(samples, start, end)
    /\ 100 * Cardinality(CoveredDays(samples, start, end)) >= MinUptime * (DayOf(end) - DayOf(start) + 1)
    /\ Cardinality({t \in done : t >= start}) >= MinOrders
    /\ order = Never \/ order < start
    /\ ~incident
    /\ Age(samples, now) <= Freshness

\* evaluate_readiness reads the active campaign again.  Without one it answers
\* with the report of the last passed campaign, marked FAIL when obsolete or old.
ReportNow ==
    LET last == LatestOrNone(Passed) IN
    IF Running # {}
    THEN [campaign |-> Latest(Running), generated |-> now, pass |-> Ready(campaigns[Latest(Running)])]
    ELSE IF last = 0 THEN NoReport
    ELSE [campaigns[last].report EXCEPT
            !.pass = @ /\ campaigns[last].protocol = 3 /\ now - campaigns[last].ended <= ValidTicks]

Evaluate(p) ==
    /\ At(p, "evaluate")
    /\ IF ReportNow.pass
       THEN Goto(p, [cmd[p] EXCEPT !.at = "finish", !.report = ReportNow])
       ELSE Leave(p)
    /\ UNCHANGED <<World, ledger, calls>>

\* Mutated form: the row is updated whatever its status.
FinishableAnyway(c) == c \in DOMAIN campaigns
Finishable(c) == c \in Running

Target(p) == cmd[p].campaign

\* UPDATE ... WHERE id = ? AND status = 'RUNNING': a passed campaign ended when its report was
\* generated, a cancelled one now.
Finish(p, status) ==
    /\ At(p, IF status = "PASSED" THEN "finish" ELSE "cancel")
    /\ campaigns' = IF Finishable(Target(p))
                    THEN [campaigns EXCEPT ![Target(p)] =
                            [@ EXCEPT !.status = status, !.report = cmd[p].report,
                                      !.ended = IF status = "PASSED" THEN cmd[p].report.generated ELSE now]]
                    ELSE campaigns
    /\ Leave(p)
    /\ UNCHANGED <<World, records, calls>>

\* require_passed_qualification: no running campaign, the last passed one.
ReadPassed(p) ==
    /\ Call(p)
    /\ Running = {} /\ Passed # {}
    /\ Goto(p, [AtRest EXCEPT !.at = "admit", !.campaign = Latest(Passed)])
    /\ UNCHANGED <<World, ledger>>

\* Its binding now, its report, its age.
Admit(p) ==
    /\ At(p, "admit")
    /\ LET c == campaigns[cmd[p].campaign] IN
       admitted' = IF BindingHolds(c) /\ c.report.pass /\ now - c.ended <= ValidTicks
                   THEN [campaign |-> cmd[p].campaign, release |-> release]
                   ELSE admitted
    /\ Leave(p)
    /\ UNCHANGED <<now, release, switches, engine, ledger, calls>>

Command(p) ==
    \/ Collect(p, "record") \/ Record(p)
    \/ Collect(p, "bind") \/ Bind(p) \/ Insert(p) \/ StartUnbound(p)
    \/ ReadActive(p, "check") \/ CheckBinding(p) \/ Evaluate(p) \/ Finish(p, "PASSED")
    \/ ReadActive(p, "cancel") \/ Finish(p, "CANCELED")
    \/ ReadPassed(p) \/ Admit(p)

-----------------------------------------------------------------------------

QualificationInit ==
    /\ now = 0 /\ release = First /\ switches = 0
    /\ samples = {} /\ flat = TRUE /\ latched = FALSE /\ incident = FALSE
    /\ order = Never /\ done = {} /\ opened = 0
    /\ records = << >> /\ campaigns = << >>
    /\ cmd = [p \in Commands |-> AtRest] /\ calls = 0
    /\ admitted = [campaign |-> 0, release |-> First]

QualificationNext ==
    \/ Tick \/ Checkpoint \/ OpenOrder \/ CloseOrder \/ Latch \/ RecordIncident \/ ResolveIncident
    \/ Switch
    \/ \E p \in Commands : Command(p)

QualificationSpec == QualificationInit /\ [][QualificationNext]_qualificationVars

-----------------------------------------------------------------------------
(* Properties. *)

\* The record a bound campaign cites qualified the release the campaign is
\* bound to, whatever release was switched while it was being started.
BoundToItsRecord ==
    \A c \in DOMAIN campaigns :
        campaigns[c].protocol = 3 =>
            /\ campaigns[c].record \in DOMAIN records
            /\ records[campaigns[c].record] = campaigns[c].release

\* What the testnet gate let through stands on a passed campaign of the
\* release that was active, and nothing later takes the campaign back.
AdmissionIsEarned ==
    admitted.campaign # 0 =>
        LET c == campaigns[admitted.campaign] IN
        c.status = "PASSED" /\ c.protocol = 3 /\ c.release = admitted.release

\* Both: what the gate admits was bound to its release from the first command
\* to the last.
AdmissionIsBound == BoundToItsRecord /\ AdmissionIsEarned

\* The merged intervals measure the ticks that have a sample within Freshness
\* before them, for every set of samples (_availability_from_timestamps).  The
\* algorithm depends on its inputs only: trying them before the first command
\* is enough.
CoverageIsExact ==
    calls = 0 => \A S \in SUBSET (0 .. Horizon), start, end \in 0 .. Horizon :
        start < end => Covered(S, start, end) =
            Cardinality({k \in start .. end - 1 : \E t \in S : t <= k /\ k < t + Freshness})

=============================================================================
