---------------------------- MODULE RecoveryGate ----------------------------
(***************************************************************************)
(* Backup sets, restoration and the marker that fences restored databases  *)
(* (btcquant/backup.py).  A backup captures the databases one after the    *)
(* other while their writers go on; a restoration copies a verified set    *)
(* aside, writes one marker per database of the set and only then publishes *)
(* the copy; a writer starts only where its marker is absent or cleared.   *)
(* The operator's part (installing a restored copy, reconciling it with    *)
(* the venue, advancing the marker on truthful evidence) is external.      *)
(***************************************************************************)
EXTENDS Naturals, Sequences, FiniteSets, SequencesExt

CONSTANTS
    Scopes,       \* the restorable databases: trading, shadow, research
    Order,        \* the order in which sources are captured and markers written
    Optional,     \* scopes whose database may be missing
    RecentCount,  \* RetentionPolicy.recent_count
    Widths,       \* bucket widths of the daily, weekly and monthly generations
    BucketCount,  \* generations kept of each width
    MaxWrite,     \* bound: writes per database
    MaxSet,       \* bound: backup sets ever published
    MaxRestore,   \* bound: restorations started
    MaxFault      \* bound: crashes, failures and corruptions, together

RecoveryAssumption ==
    /\ Order \in Seq(Scopes) /\ Range(Order) = Scopes /\ Optional \subseteq Scopes
    /\ MaxWrite \in Nat
    /\ RecentCount \in Nat /\ BucketCount \in Nat /\ Widths \subseteq Nat \ {0}

VARIABLES
    live,      \* per scope, the version of the runtime database
    world,     \* per scope, the version the world (the venue) has reached
    running,   \* scopes whose writer process runs
    marker,    \* per directory and scope, the recovery marker's status
    sets,      \* published backup sets, oldest first
    job,       \* the holder of the backup lock
    restored,  \* the published restoration, not installed yet
    restores,  \* restorations started
    faults     \* faults so far

vars == <<live, world, running, marker, sets, job, restored, restores, faults>>

Dirs == {"runtime", "restored"}
Statuses == {"none", "RECOVERY_REQUIRED", "RECONCILIATION_VERIFIED", "RECOVERY_CLEARED"}
Fates == {"intact", "rotten", "removed"}
Absent == MaxWrite + 1
Image == [Scopes -> 0 .. Absent]

NoJob == [kind |-> "none"]
NoCopy == [image |-> [s \in Scopes |-> Absent], root |-> "restored"]

-----------------------------------------------------------------------------
(* Published sets. *)

\* Manifest, hashes, sizes and SQLite integrity still agree.
Verified(i) == sets[i].fate = "intact"
Trusted(i) == sets[i].state = "COMPLETED" /\ Verified(i)
Candidates == {i \in DOMAIN sets : Trusted(i)}
Newest == {i \in Candidates : \A j \in Candidates : j <= i}

\* The generations the retention policy keeps among the trusted sets.
Recent == {i \in Candidates : Cardinality({j \in Candidates : j > i}) < RecentCount}
Bucket(w, i) == i \div w
NewestPerBucket(w) ==
    {i \in Candidates :
        /\ \A j \in Candidates : Bucket(w, j) = Bucket(w, i) => j <= i
        /\ Cardinality({Bucket(w, j) : j \in Candidates} \cap (Bucket(w, i) + 1 .. MaxSet)) < BucketCount}
Kept == Newest \cup Recent \cup (UNION {NewestPerBucket(w) : w \in Widths})

-----------------------------------------------------------------------------
(* create_backup_set *)

Idle == job.kind = "none"

BeginBackup ==
    /\ Idle
    /\ Len(sets) < MaxSet
    /\ job' = [kind |-> "create", next |-> 1, image |-> NoCopy.image]
    /\ UNCHANGED <<live, world, running, marker, sets, restored, restores, faults>>

\* What the source yields: its version now, or nothing for a missing optional one.
Captured(s) == {live[s]} \cup (IF s \in Optional THEN {Absent} ELSE {})

CaptureSource ==
    /\ job.kind = "create"
    /\ job.next <= Len(Order)
    /\ LET s == Order[job.next] IN
        \E version \in Captured(s) : job' = [job EXCEPT !.next = @ + 1, !.image[s] = version]
    /\ UNCHANGED <<live, world, running, marker, sets, restored, restores, faults>>

SkewStates == {"COMPLETED", "DEGRADED"}

\* The capture skew decides the state; the set is verified in staging, then
\* renamed into place.
PublishBackup ==
    /\ job.kind = "create"
    /\ job.next > Len(Order)
    /\ \E state \in SkewStates :
        sets' = Append(sets, [image |-> job.image, state |-> state, fate |-> "intact"])
    /\ job' = NoJob
    /\ UNCHANGED <<live, world, running, marker, restored, restores, faults>>

-----------------------------------------------------------------------------
(* prune_backup_sets *)

BeginPrune ==
    /\ Idle
    /\ Candidates \ Kept # {}
    /\ job' = [kind |-> "prune", doomed |-> Candidates \ Kept]
    /\ UNCHANGED <<live, world, running, marker, sets, restored, restores, faults>>

\* A directory is removed file by file: from the first one on it no longer verifies.
RemoveSet ==
    /\ job.kind = "prune"
    /\ \E i \in job.doomed :
        /\ sets' = [sets EXCEPT ![i].fate = "removed"]
        /\ job' = IF job.doomed = {i} THEN NoJob ELSE [job EXCEPT !.doomed = @ \ {i}]
    /\ UNCHANGED <<live, world, running, marker, restored, restores, faults>>

-----------------------------------------------------------------------------
(* restore_to_staging *)

\* Mutated form: an optional database gets no marker.
FencedScopesRequired == Scopes \ Optional

\* The databases the manifest names, each of which gets a marker: an optional one
\* that was absent from the capture has its entry too.
FencedScopes == Scopes

BeginRestore(i, root) ==
    /\ Idle
    /\ restores < MaxRestore
    /\ restored = NoCopy
    /\ Trusted(i)
    /\ job' = [kind |-> "restore", set |-> i, root |-> root, copied |-> FALSE, next |-> 1]
    /\ restores' = restores + 1
    /\ UNCHANGED <<live, world, running, marker, sets, restored, faults>>

\* Every copied file is hashed against the manifest before any marker is written.
CopyEntries ==
    /\ job.kind = "restore"
    /\ ~job.copied
    /\ Verified(job.set)
    /\ job' = [job EXCEPT !.copied = TRUE]
    /\ UNCHANGED <<live, world, running, marker, sets, restored, restores, faults>>

MarkersDue == job.next <= Len(Order)

\* With the destination as runtime root the marker goes into the staging directory.
WriteMarker ==
    /\ job.kind = "restore"
    /\ job.copied
    /\ MarkersDue
    /\ LET s == Order[job.next] IN
        IF s \in FencedScopes
        THEN /\ marker[job.root][s] = "none"
             /\ marker' = [marker EXCEPT ![job.root][s] = "RECOVERY_REQUIRED"]
        ELSE UNCHANGED marker
    /\ job' = [job EXCEPT !.next = @ + 1]
    /\ UNCHANGED <<live, world, running, sets, restored, restores, faults>>

PublishRestore ==
    /\ job.kind = "restore"
    /\ job.copied
    /\ ~MarkersDue
    /\ restored' = [image |-> sets[job.set].image, root |-> job.root]
    /\ job' = NoJob
    /\ UNCHANGED <<live, world, running, marker, sets, restores, faults>>

\* The staging directory goes, with the markers in it; the others stay.
Unstaged(m) ==
    IF job.kind = "restore" /\ job.root = "restored"
    THEN [m EXCEPT !["restored"] = [s \in Scopes |-> "none"]]
    ELSE m

RestoreRefused ==
    /\ job.kind = "restore"
    /\ \/ ~job.copied /\ ~Verified(job.set)
       \/ /\ job.copied /\ MarkersDue
          /\ Order[job.next] \in FencedScopes
          /\ marker[job.root][Order[job.next]] # "none"
    /\ marker' = Unstaged(marker)
    /\ job' = NoJob
    /\ UNCHANGED <<live, world, running, sets, restored, restores, faults>>

-----------------------------------------------------------------------------
(* Faults: a job dies (its lock goes with it), or the bytes of a set rot. *)

JobDies ==
    /\ ~Idle
    /\ faults < MaxFault
    /\ faults' = faults + 1
    /\ marker' = Unstaged(marker)
    /\ job' = NoJob
    /\ UNCHANGED <<live, world, running, sets, restored, restores>>

BytesRot(i) ==
    /\ faults < MaxFault
    /\ Verified(i)
    /\ faults' = faults + 1
    /\ sets' = [sets EXCEPT ![i].fate = "rotten"]
    /\ UNCHANGED <<live, world, running, marker, job, restored, restores>>

-----------------------------------------------------------------------------
(* Writers. *)

Clear(m) == m \in {"none", "RECOVERY_CLEARED"}

StartWriter(s) ==
    /\ s \notin running
    /\ Clear(marker["runtime"][s])
    /\ running' = running \cup {s}
    /\ UNCHANGED <<live, world, marker, sets, job, restored, restores, faults>>

StopWriter(s) ==
    /\ s \in running
    /\ running' = running \ {s}
    /\ UNCHANGED <<live, world, marker, sets, job, restored, restores, faults>>

Write(s) ==
    /\ s \in running
    /\ live[s] < MaxWrite
    /\ world[s] < MaxWrite
    /\ live' = [live EXCEPT ![s] = @ + 1]
    /\ world' = [world EXCEPT ![s] = @ + 1]
    /\ UNCHANGED <<running, marker, sets, job, restored, restores, faults>>

-----------------------------------------------------------------------------
(* The operator. *)

\* The restored files, and the markers among them, replace the runtime's.
Install ==
    /\ restored # NoCopy
    /\ running = {}
    /\ Idle
    /\ live' = [s \in Scopes |-> IF restored.image[s] = Absent THEN live[s] ELSE restored.image[s]]
    /\ marker' = [marker EXCEPT
          !["runtime"] = [s \in Scopes |-> IF restored.root = "restored" /\ marker["restored"][s] # "none"
                                           THEN marker["restored"][s] ELSE @[s]],
          !["restored"] = [s \in Scopes |-> "none"]]
    /\ restored' = NoCopy
    /\ UNCHANGED <<world, running, sets, job, restores, faults>>

Reconcile(s) ==
    /\ marker["runtime"][s] = "RECOVERY_REQUIRED"
    /\ s \notin running
    /\ live[s] # world[s]
    /\ live' = [live EXCEPT ![s] = world[s]]
    /\ UNCHANGED <<world, running, marker, sets, job, restored, restores, faults>>

\* The evidence is about the database that was restored: it is recorded once
\* that database is in place and agrees with the world.
Evidence(s) == restored = NoCopy /\ Idle /\ live[s] = world[s]

AdvanceMarker(s) ==
    /\ \/ /\ marker["runtime"][s] = "RECOVERY_REQUIRED"
          /\ Evidence(s)
          /\ marker' = [marker EXCEPT !["runtime"][s] = "RECONCILIATION_VERIFIED"]
       \/ /\ marker["runtime"][s] = "RECONCILIATION_VERIFIED"
          /\ marker' = [marker EXCEPT !["runtime"][s] = "RECOVERY_CLEARED"]
    /\ UNCHANGED <<live, world, running, sets, job, restored, restores, faults>>

-----------------------------------------------------------------------------

Init ==
    /\ live = [s \in Scopes |-> 0]
    /\ world = [s \in Scopes |-> 0]
    /\ running = {}
    /\ marker = [d \in Dirs |-> [s \in Scopes |-> "none"]]
    /\ sets = <<>>
    /\ job = NoJob
    /\ restored = NoCopy
    /\ restores = 0
    /\ faults = 0

Next ==
    \/ BeginBackup \/ CaptureSource \/ PublishBackup
    \/ BeginPrune \/ RemoveSet
    \/ \E i \in DOMAIN sets, root \in Dirs : BeginRestore(i, root)
    \/ CopyEntries \/ WriteMarker \/ PublishRestore \/ RestoreRefused
    \/ JobDies
    \/ \E i \in DOMAIN sets : BytesRot(i)
    \/ \E s \in Scopes : StartWriter(s) \/ StopWriter(s) \/ Write(s) \/ Reconcile(s) \/ AdvanceMarker(s)
    \/ Install

Spec == Init /\ [][Next]_vars

-----------------------------------------------------------------------------
(* Properties. *)

\* The types of the variables (backup.py, the dataclasses and the marker files).
TypeOK ==
    /\ live \in Image /\ world \in Image
    /\ running \subseteq Scopes
    /\ marker \in [Dirs -> [Scopes -> Statuses]]
    /\ sets \in Seq([image : Image, state : SkewStates, fate : Fates])
    /\ restored \in [image : Image, root : Dirs]
    /\ restores \in 0 .. MaxRestore /\ faults \in 0 .. MaxFault

\* No writer runs on a restored database before it was reconciled with the
\* world, whatever crash interrupts the restoration (restore_to_staging,
\* assert_writer_recovery_clear).
FencedUntilReconciled == \A s \in running : live[s] = world[s]

=============================================================================
