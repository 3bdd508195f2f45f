------------------------------ MODULE Monitoring ------------------------------
(****************************************************************************)
(* How a hazard of the engines reaches the operator: the watchdog a timer   *)
(* runs every two minutes, the incidents it opens, announces and resolves,  *)
(* the readiness verdict of the dashboard and the status command, which     *)
(* read the same database in several transactions.                          *)
(*                                                                          *)
(* An engine's checkpoint is fresh, too old or absent; Condition is what    *)
(* execution_health derives from its orders and its row, Warning the part   *)
(* of it that is not CRITICAL, Recorded the part the status command reads   *)
(* for itself.  The shadow engine is left out.                              *)
(****************************************************************************)
EXTENDS Naturals, Sequences, FiniteSets

CONSTANTS
    Conditions, \* sync_execution_incidents' list: a sequence
    Warning, Recorded,
    Profile,    \* the engines required at first: trend, by default
    Checks,     \* the watchdog's list of engines: a sequence
    Evidence,   \* answers of the other domains of the status command
    MaxChange,  \* bound: engines that degrade, changes of the profile
    MaxFault    \* bound: failed reads, failed writes and killed runs

Engine == {Checks[i] : i \in DOMAIN Checks}
Condition == {Conditions[i] : i \in DOMAIN Conditions}

ASSUME MonitoringAssumption ==
    /\ Warning \subseteq Condition /\ Recorded \subseteq Condition \ Warning
    /\ Profile \subseteq Engine /\ Profile # {}
    /\ MaxChange \in Nat /\ MaxFault \in Nat

(* Every engine and every condition has a fingerprint of its own.           *)
ASSUME ListAssumption ==
    /\ Checks \in Seq(Engine)
    /\ Conditions \in Seq(Condition) \ {<< >>}
    /\ {"stale", "check_failed"} \cap Condition = {}
    /\ \A i, j \in 1 .. Len(Conditions) : Conditions[i] = Conditions[j] => i = j

VARIABLES
    age,        \* of the engine's last checkpoint, against its threshold
    unsafe,     \* the conditions that hold of the engine
    required,   \* BTCQUANT_REQUIRED_ENGINES
    incident,   \* the table of incidents, by fingerprint
    told,       \* history: notices sent since the incident opened
    lost,       \* history: openings whose notice a cut run never sent
    watch,      \* the run of the watchdog
    reader,     \* the evaluation of the readiness, for the status command or not
    held,       \* history: facts that held since the evaluation began
    changes, faults

world == <<age, unsafe, required>>
bounds == <<changes, faults>>
vars == <<world, incident, told, lost, watch, reader, held, bounds>>

Age == {"fresh", "old", "absent"}
Fingerprint == Engine \X ({"stale", "check_failed"} \cup Condition)
Incident == {"absent", "open", "resolved"}

Idle == [at |-> "idle", todo |-> {}, age |-> "fresh", seen |-> {}, left |-> << >>,
         tell |-> {}]
NotAsked == [at |-> "idle", database |-> "PASS", ready |-> FALSE, exit |-> 2, evidence |-> TRUE]

(****************************************************************************)
(* What unsafe means.                                                       *)
(****************************************************************************)

Open == {f \in Fingerprint : incident[f] = "open"}

(* The rates and the slippage only warn. *)
IsCritical(f) == f[2] \notin Warning

(* Mutated form: incidents of any engine count. *)
AppliesAnyway(f) == f \in Fingerprint

(* Not an availability incident of an engine the profile does not require. *)
Applies(f) == f[1] \in required \/ f[2] \notin {"stale", "check_failed"}

Unsafe(e) == unsafe[e] \ Warning

(* What must keep a verdict from being favourable. *)
Facts ==
    (UNION {{<<e, c, "holds">> : c \in Unsafe(e)} : e \in Engine})
        \cup {<<e, "stale", "holds">> : e \in {r \in required : age[r] # "fresh"}}
        \cup {<<f[1], f[2], "incident">> : f \in {g \in Open : IsCritical(g) /\ Applies(g)}}

-----------------------------------------------------------------------------
(* The engines and the operator's profile. *)

Degrades ==
    /\ changes < MaxChange /\ changes' = changes + 1
    /\ \E e \in Engine :
          \/ /\ age[e] = "fresh" /\ age' = [age EXCEPT ![e] = "old"]
             /\ UNCHANGED unsafe
          \/ /\ age[e] # "absent"
             /\ \E c \in Condition \ unsafe[e] : unsafe' = [unsafe EXCEPT ![e] = @ \cup {c}]
             /\ UNCHANGED age
    /\ UNCHANGED <<required, incident, told, lost, watch, reader, faults>>

Improves ==
    /\ \E e \in Engine :
          \/ /\ age[e] # "fresh" /\ age' = [age EXCEPT ![e] = "fresh"]
             /\ UNCHANGED unsafe
          \/ /\ \E c \in unsafe[e] : unsafe' = [unsafe EXCEPT ![e] = @ \ {c}]
             /\ UNCHANGED age
    /\ UNCHANGED <<required, incident, told, lost, watch, reader, bounds>>

(* The .env file is read by the next run; the dashboard restarts with it. *)
ProfileChanges ==
    /\ changes < MaxChange /\ changes' = changes + 1
    /\ \E profile \in (SUBSET Engine) \ {{}} : required' = profile
    /\ reader' = NotAsked
    /\ UNCHANGED <<age, unsafe, incident, told, lost, watch, faults>>

-----------------------------------------------------------------------------
(* The incident repository. *)

(* Mutated form: only the first record of a fingerprint is new. *)
NewIfAbsent(fs) == {f \in fs : incident[f] = "absent"}

(* record_incident: is_new_or_reopened. *)
New(fs) == {f \in fs : incident[f] # "open"}

Record(f) ==
    /\ incident' = [incident EXCEPT ![f] = "open"]
    /\ UNCHANGED <<told, lost>>

Resolve(f) ==
    /\ incident' = [incident EXCEPT ![f] = IF @ = "open" THEN "resolved" ELSE @]
    /\ told' = [told EXCEPT ![f] = 0]
    /\ lost' = lost \ {f}

-----------------------------------------------------------------------------
(* The watchdog: main, one step per transaction. *)

At(step) == watch.at = step
Position == {i \in 1 .. Len(Checks) : Checks[i] \in watch.todo}
Checked == Checks[CHOOSE i \in Position : \A j \in Position : i <= j]
NextCheck ==
    [Idle EXCEPT !.at = IF watch.todo = {Checked} THEN "idle" ELSE "read",
                 !.todo = watch.todo \ {Checked}]

(* Notices to send before the run goes on. *)
Telling(fs, w) == IF fs = {} THEN w ELSE [w EXCEPT !.at = "tell", !.todo = watch.todo, !.tell = fs]

(* sync_execution_incidents: the notices are returned with the last one. *)
Synchronising == [watch EXCEPT !.at = "sync", !.age = "fresh", !.tell = {}, !.left = Conditions]

StartRun ==
    /\ At("idle")
    /\ watch' = [Idle EXCEPT !.at = "read", !.todo = required]
    /\ UNCHANGED <<world, incident, told, lost, reader, bounds>>

ReadHealth ==
    /\ At("read")
    /\ watch' = [watch EXCEPT !.at = "age", !.age = age[Checked], !.seen = unsafe[Checked]]
    /\ Resolve(<<Checked, "check_failed">>)
    /\ UNCHANGED <<world, reader, bounds>>

ReadFails ==
    /\ At("read")
    /\ faults < MaxFault /\ faults' = faults + 1
    /\ LET f == <<Checked, "check_failed">>
       IN  /\ Record(f)
           /\ watch' = Telling(New({f}), NextCheck)
    /\ UNCHANGED <<world, reader, changes>>

CheckAge ==
    /\ At("age")
    /\ LET f == <<Checked, "stale">>
       IN  IF watch.age # "fresh"
           THEN Record(f) /\ watch' = Telling(New({f}), Synchronising)
           ELSE Resolve(f) /\ watch' = Synchronising
    /\ UNCHANGED <<world, reader, bounds>>

(* Mutated form: a condition that is over is not resolved. *)
SyncConditionOpenOnly ==
    /\ At("sync")
    /\ LET f == <<Checked, Head(watch.left)>>
           holds == f[2] \in watch.seen
           tell == watch.tell \cup IF holds THEN New({f}) ELSE {}
       IN  /\ IF holds THEN Record(f) ELSE UNCHANGED <<incident, told, lost>>
           /\ watch' = IF Len(watch.left) = 1 THEN Telling(tell, NextCheck)
                       ELSE [watch EXCEPT !.left = Tail(@), !.seen = @ \ {f[2]}, !.tell = tell]
    /\ UNCHANGED <<world, reader, bounds>>

SyncCondition ==
    /\ At("sync")
    /\ LET f == <<Checked, Head(watch.left)>>
           holds == f[2] \in watch.seen
           tell == watch.tell \cup IF holds THEN New({f}) ELSE {}
       IN  /\ IF holds THEN Record(f) ELSE Resolve(f)
           /\ watch' = IF Len(watch.left) = 1 THEN Telling(tell, NextCheck)
                       ELSE [watch EXCEPT !.left = Tail(@), !.seen = @ \ {f[2]}, !.tell = tell]
    /\ UNCHANGED <<world, reader, bounds>>

Notify(f) ==
    /\ At("tell") /\ f \in watch.tell
    /\ told' = [told EXCEPT ![f] = @ + 1]
    /\ watch' = IF watch.tell # {f} THEN [watch EXCEPT !.tell = @ \ {f}]
                ELSE IF watch.left # << >> THEN Synchronising ELSE NextCheck
    /\ UNCHANGED <<world, incident, lost, reader, bounds>>

(* A kill, or a store error none of these steps catches: the timer starts   *)
(* another run, which finds the incident open and does not announce it.     *)
RunCut ==
    /\ ~At("idle")
    /\ faults < MaxFault /\ faults' = faults + 1
    /\ lost' = lost \cup watch.tell
    /\ watch' = Idle
    /\ UNCHANGED <<world, incident, told, reader, changes>>

Watchdog ==
    \/ StartRun \/ ReadHealth \/ CheckAge \/ SyncCondition
    \/ \E f \in Fingerprint : Notify(f)

-----------------------------------------------------------------------------
(* collect_status, and evaluate_service_readiness behind its probe. *)

Asked == reader.at \notin {"idle", "answered"}

(* _read_database: every critical incident counts, of any engine. *)
ReadDatabase ==
    /\ ~Asked
    /\ reader' = [NotAsked EXCEPT !.at = "incidents",
                     !.database = IF /\ \A f \in Open : ~IsCritical(f)
                                     /\ \A e \in Engine : unsafe[e] \cap Recorded = {}
                                  THEN "PASS" ELSE "FAIL"]
    /\ UNCHANGED <<world, incident, told, lost, watch, bounds>>

(* Whatever keeps the database from being read is no answer.                *)
DatabaseUnread ==
    /\ ~Asked
    /\ faults < MaxFault /\ faults' = faults + 1
    /\ reader' = [NotAsked EXCEPT !.at = "incidents", !.database = "UNKNOWN"]
    /\ UNCHANGED <<world, incident, told, lost, watch, changes>>

ReadIncidents ==
    /\ reader.at = "incidents"
    /\ reader' = [reader EXCEPT !.at = "safety", !.ready = \A f \in Open : IsCritical(f) => ~Applies(f)]
    /\ UNCHANGED <<world, incident, told, lost, watch, bounds>>

(* Mutated form: the conditions are those of the required engines. *)
SafeIfRequired ==
    /\ \A e \in required : Unsafe(e) = {}
    /\ \A f \in Open : f[2] \in Condition => ~IsCritical(f)

(* execution_safety_health: of every engine, and every execution: incident. *)
Safe ==
    /\ \A e \in Engine : Unsafe(e) = {}
    /\ \A f \in Open : f[2] \in Condition => ~IsCritical(f)

ReadSafety ==
    /\ reader.at = "safety"
    /\ reader' = [reader EXCEPT !.at = "ages", !.ready = @ /\ Safe]
    /\ UNCHANGED <<world, incident, told, lost, watch, bounds>>

Fresh == \A e \in required : age[e] = "fresh"

ReadAges ==
    /\ reader.at = "ages"
    /\ reader' = [reader EXCEPT !.at = "domains", !.ready = @ /\ Fresh]
    /\ UNCHANGED <<world, incident, told, lost, watch, bounds>>

(* The database cannot be read: not ready. *)
ReaderFails ==
    /\ reader.at \in {"incidents", "safety", "ages"}
    /\ faults < MaxFault /\ faults' = faults + 1
    /\ reader' = [reader EXCEPT !.at = "domains", !.ready = FALSE]
    /\ UNCHANGED <<world, incident, told, lost, watch, changes>>

Verdict == {"PASS", "WATCH", "FAIL", "UNKNOWN"}
Domain == {"release", "qualification", "maturity", "database", "services", "health", "backup",
           "capacity", "testnet_safety"}

ASSUME EvidenceAssumption == Evidence \subseteq [Domain -> Verdict]

(* evaluate_alerts: a failure is critical; an answer that is missing has a  *)
(* code of its own, but for the backup, which only warns, and the capacity. *)
CriticalAlerts(d) == {x \in Domain : d[x] = "FAIL"}
UnknownAlerts(d) == {x \in Domain \ {"backup", "capacity"} : d[x] = "UNKNOWN"}
WarningAlerts(d) ==
    {x \in {"backup", "capacity"} : d[x] = "WATCH"} \cup {x \in {"backup"} : d[x] = "UNKNOWN"}

AlertStatus(d) ==
    IF UnknownAlerts(d) # {} THEN "UNKNOWN"
    ELSE IF CriticalAlerts(d) # {} THEN "FAIL"
    ELSE IF WarningAlerts(d) # {} THEN "WATCH" ELSE "PASS"

(* _status_from: the worst of the states, a failure first. *)
StatusFrom(states) ==
    IF "FAIL" \in states THEN "FAIL"
    ELSE IF "UNKNOWN" \in states THEN "UNKNOWN"
    ELSE IF "WATCH" \in states THEN "WATCH" ELSE "PASS"

ExitCode(overall) == CASE overall \in {"PASS", "WATCH"} -> 0 [] overall = "FAIL" -> 1 [] OTHER -> 2

(* collect_status: the domains read, then the alerts as one more domain. *)
Collect ==
    /\ reader.at = "domains"
    /\ \E others \in Evidence :
          LET d == [others EXCEPT !["database"] = reader.database,
                                  !["health"] = IF reader.ready THEN "PASS" ELSE "FAIL"]
          IN  reader' = [NotAsked EXCEPT !.at = "answered", !.ready = reader.ready,
                            !.exit = ExitCode(StatusFrom({d[x] : x \in Domain} \cup {AlertStatus(d)})),
                            !.evidence = \A x \in Domain : d[x] \in {"PASS", "WATCH"}]
    /\ UNCHANGED <<world, incident, told, lost, watch, bounds>>

Reader == ReadDatabase \/ ReadIncidents \/ ReadSafety \/ ReadAges \/ Collect

-----------------------------------------------------------------------------

Init ==
    /\ required = Profile
    /\ age = [e \in Engine |-> IF e \in required THEN "fresh" ELSE "absent"]
    /\ unsafe = [e \in Engine |-> {}]
    /\ incident = [f \in Fingerprint |-> "absent"]
    /\ told = [f \in Fingerprint |-> 0]
    /\ lost = {}
    /\ watch = Idle /\ reader = NotAsked
    /\ held = {}
    /\ changes = 0 /\ faults = 0

(* The facts that held since the evaluation in hand began, and at its end. *)
Held == held' = IF Asked THEN held \cap Facts' ELSE IF Asked' THEN Facts' ELSE {}

Next ==
    /\ \/ Degrades \/ Improves \/ ProfileChanges
       \/ Watchdog \/ ReadFails \/ RunCut
       \/ Reader \/ DatabaseUnread \/ ReaderFails
    /\ Held

Spec == Init /\ [][Next]_vars

(* The timer runs the watchdog again for ever, the operator asks for ever. *)
FairSpec == Spec /\ WF_vars(Watchdog /\ Held) /\ WF_vars(Reader /\ Held)

-----------------------------------------------------------------------------

(* Watchdog, incident repository: an incident is announced when it opens,    *)
(* and not again while it stays open; the one exception is a run cut between *)
(* the record and the notice.                                                *)
ToldWhenOpened ==
    \A f \in Open :
        /\ told[f] <= 1
        /\ told[f] = 0 => f \in lost \cup watch.tell

(* Readiness and status: a service said to be ready, or a status command     *)
(* that exits 0, never had a fact against it that held during the whole      *)
(* evaluation, whichever transactions it was read in, nor a domain without   *)
(* evidence.                                                                 *)
VerdictIsSafe ==
    reader.at = "answered" =>
        /\ reader.ready => held = {}
        /\ reader.exit = 0 => held = {} /\ reader.evidence

(* Watchdog and repository: of an engine that is required for good, a        *)
(* condition that stays has an open incident, and one that is over none,     *)
(* whatever runs were cut and whenever it was read.                          *)
IncidentFollowsCondition ==
    \A e \in Engine, c \in Condition :
        /\ <>[](e \in required /\ c \in unsafe[e]) => <>[](<<e, c>> \in Open)
        /\ <>[](e \in required /\ c \notin unsafe[e]) => <>[](<<e, c>> \notin Open)

(* An incident of an engine the watchdog no longer checks: only the operator *)
(* can resolve it.                                                           *)
Abandoned == \E f \in Open : IsCritical(f) /\ f[1] \notin required /\ f[2] \in Condition

(* Watchdog and readiness: once every engine is safe and the required ones   *)
(* are fresh for good, the service is ready again, unless an engine left the *)
(* profile with its incident open.                                           *)
ReadinessReturns ==
    <>[](/\ \A e \in Engine : Unsafe(e) = {}
         /\ Fresh /\ ~Abandoned)
        => []<>(reader.at = "answered" /\ reader.ready)

=============================================================================
