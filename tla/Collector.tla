------------------------------ MODULE Collector ------------------------------
(****************************************************************************)
(* The collector of dated-carry market evidence                             *)
(* (research/carry_dated_collector.py): observations are written to a       *)
(* database by the collector and by the engine, a day at a time moved to    *)
(* immutable segments, scrubbed, and copied by backup_carry_dated_evidence. *)
(*                                                                          *)
(* A cycle, an engine's write and a backup of the database exclude each     *)
(* other by one lock, so an engine writes between two cycles; the copy of   *)
(* the segments takes no lock.  Files are written before the transaction    *)
(* that removes the rows is committed.                                      *)
(****************************************************************************)
EXTENDS Naturals, FiniteSets, FiniteSetsExt

CONSTANTS
    Event,          \* settlements of the instrument, in the order of the venue
    Expiry,         \* when the instrument stops being active
    Age,            \* archive_age
    DayLength,
    Rescan,         \* rescan_after
    MaxTime,        \* bound: clock
    MaxRow,         \* bound: observations recorded
    MaxDamage       \* bound: segments the disk damages

CollectorAssumption ==
    /\ Event \subseteq Nat \ {0} /\ IsFiniteSet(Event)
    /\ Expiry \in Nat /\ Age \in Nat /\ Rescan \in Nat
    /\ DayLength \in Nat \ {0}
    /\ MaxTime \in Nat /\ MaxRow \in Nat /\ MaxDamage \in Nat

VARIABLES
    clock,
    published,  \* of an event: 0 none, 1 first version, 2 corrected
    rows,       \* observations
    nextId,     \* its AUTOINCREMENT
    files,      \* of a segment's name: what is on the disk
    verified,    \* archive_segments
    copies,     \* of a segment's name: what the encrypted copy holds
    cycle,      \* where collect_once is, with its open transaction
    polled,     \* last_settlement_poll_at
    ever,       \* every content a transaction recorded
    damages

vars == <<clock, published, rows, nextId, files, verified, copies, cycle, polled, ever, damages>>
world == <<clock, published>>
store == <<rows, nextId, ever>>
disk == <<files, copies, damages>>

(* The payload of a settlement holds the time it was received, so that one   *)
(* read again later is another content.                                     *)
Content(kind, key, version, at) == [kind |-> kind, key |-> key, version |-> version, at |-> at]
Observed(id, content, at) == [id |-> id, content |-> content, at |-> at]

NoCycle ==
    [at |-> "idle", start |-> 0, received |-> 0, final |-> FALSE,
     add |-> {}, groups |-> {}, removed |-> {}, passed |-> {}]

At(step) == cycle.at = step
Goto(step) == cycle' = [cycle EXCEPT !.at = step]

-----------------------------------------------------------------------------
(* Archiving: one group for a day of the rows that are old enough. *)

Day(t) == t \div DayLength
Due(observed, now) == {r \in observed : r.at + Age < now}
Groups(due) == {{r \in due : Day(r.at) = d} : d \in {Day(r.at) : r \in due}}
Ids(g) == {r.id : r \in g}
Name(g) == [day |-> Min({Day(r.at) : r \in g}), first |-> Min(Ids(g)), last |-> Max(Ids(g))]

Earliest == CHOOSE g \in cycle.groups : \A h \in cycle.groups : Name(g).day <= Name(h).day

(* verify_archive: the file is there and is what its manifest says. *)
Intact(n) == files[n].damage = "none"

(* Mutated form: the rows between the first and the last of the group. *)
RemovableRange(g) == {r \in rows \cup cycle.add : r.id \in Name(g).first..Name(g).last}

Removable(g) == g

Begin ==
    /\ At("idle")
    /\ cycle' = [NoCycle EXCEPT !.at = "file", !.start = clock, !.groups = Groups(Due(rows, clock))]
    /\ UNCHANGED <<world, store, disk, verified, polled>>

(* A segment that is there from a cycle that was cut must be the same. *)
WriteSegment ==
    /\ At("file") /\ cycle.groups # {}
    /\ LET n == Name(Earliest) IN
        \/ /\ n \notin DOMAIN files
           /\ files' = [m \in DOMAIN files \cup {n} |->
                          IF m = n THEN [rows |-> Earliest, manifest |-> FALSE, damage |-> "none"]
                          ELSE files[m]]
           /\ Goto("manifest")
        \/ /\ n \in DOMAIN files
           /\ IF Intact(n) /\ files[n].rows = Earliest THEN Goto("manifest") ELSE cycle' = NoCycle
           /\ UNCHANGED files
    /\ UNCHANGED <<world, store, copies, damages, verified, polled>>

WriteManifest ==
    /\ At("manifest")
    /\ files' = [files EXCEPT ![Name(Earliest)].manifest = TRUE]
    /\ Goto("verify")
    /\ UNCHANGED <<world, store, copies, damages, verified, polled>>

(* The removal is part of the transaction. *)
VerifySegment ==
    /\ At("verify")
    /\ IF Intact(Name(Earliest))
       THEN cycle' = [cycle EXCEPT !.at = "file",
                                   !.groups = @ \ {Earliest},
                                   !.removed = @ \cup Removable(Earliest),
                                   !.passed = @ \cup {Name(Earliest)}]
       ELSE cycle' = NoCycle
    /\ UNCHANGED <<world, store, disk, verified, polled>>

Commit ==
    /\ At("file") /\ cycle.groups = {}
    /\ rows' = (rows \cup cycle.add) \ cycle.removed
    /\ nextId' = nextId + Cardinality(cycle.add)
    /\ ever' = ever \cup {r.content : r \in cycle.add}
    /\ verified' = [n \in DOMAIN verified \cup cycle.passed |->
                     IF n \in cycle.passed THEN [state |-> "PASS", at |-> cycle.start] ELSE verified[n]]
    /\ cycle' = IF cycle.final THEN NoCycle
                ELSE [NoCycle EXCEPT !.at = "scrub", !.start = cycle.start]
    /\ UNCHANGED <<world, disk, polled>>

-----------------------------------------------------------------------------
(* The scrub: one segment a cycle, the one verified the longest ago. *)

Listed == {n \in DOMAIN files : files[n].manifest}
LastVerified(n) == IF n \in DOMAIN verified THEN verified[n].at + 1 ELSE 0
DueForScrub == {n \in Listed : n \in DOMAIN verified => verified[n].at + Rescan <= cycle.start}

Scrub ==
    /\ At("scrub")
    /\ \/ /\ DueForScrub = {} /\ UNCHANGED verified
       \/ \E n \in DueForScrub :
             /\ \A m \in DueForScrub : LastVerified(n) <= LastVerified(m)
             /\ verified' = [m \in DOMAIN verified \cup {n} |->
                              IF m = n
                              THEN [state |-> IF Intact(n) THEN "PASS" ELSE "FAILED",
                                    at |-> cycle.start]
                              ELSE verified[m]]
    /\ Goto("check")
    /\ UNCHANGED <<world, store, disk, polled>>

(* A segment that failed stops the collection. *)
Check ==
    /\ At("check")
    /\ IF \E n \in Listed \cap DOMAIN verified : verified[n].state = "FAILED"
       THEN cycle' = NoCycle
       ELSE cycle' = [cycle EXCEPT !.at = "observe", !.received = clock]
    /\ UNCHANGED <<world, store, disk, verified, polled>>

-----------------------------------------------------------------------------
(* Observations. *)

Insert(new) ==
    /\ rows' = rows \cup new
    /\ nextId' = nextId + Cardinality(new)
    /\ ever' = ever \cup {r.content : r \in new}

Book == Observed(nextId, Content("book", nextId, 1, clock), clock)

(* A book the collector asks for, or it takes the engine's. *)
ObserveBook ==
    /\ At("observe")
    /\ \/ nextId <= MaxRow /\ Insert({Book})
       \/ UNCHANGED store
    /\ Goto("settle")
    /\ UNCHANGED <<world, disk, verified, polled>>

(* DatedMarketEvidenceRecorder.persist, between two cycles. *)
PersistBook ==
    /\ At("idle") /\ nextId <= MaxRow
    /\ Insert({Book})
    /\ UNCHANGED <<world, disk, verified, cycle, polled>>

(* The history is read again from the earliest settlement that was not       *)
(* archived; one of an instrument that expired is not read without any.     *)
LiveEvents == {r.content.key : r \in {q \in rows : q.content.kind = "settlement"}}
Readable ==
    {e \in Event : published[e] > 0 /\ (LiveEvents # {} => e >= Min(LiveEvents))}

RankIn(S, e) == Cardinality({f \in S : f < e})

CollectSettlements ==
    /\ At("settle")
    /\ \/ /\ polled < clock + 1
          /\ LiveEvents = {} => clock < Expiry
          /\ nextId + Cardinality(Readable) <= MaxRow + 1
          /\ Insert({Observed(nextId + RankIn(Readable, e),
                              Content("settlement", e, published[e], clock), clock) : e \in Readable})
          /\ polled' = clock + 1
       \/ UNCHANGED <<store, polled>>
    /\ Goto("record")
    /\ UNCHANGED <<world, disk, verified>>

(* The record of the cycle and a second archiving are one transaction. *)
Record ==
    /\ At("record") /\ nextId <= MaxRow
    /\ LET new == {Observed(nextId, Content("cycle", nextId, 1, cycle.received), cycle.received)} IN
        cycle' = [cycle EXCEPT !.at = "file", !.final = TRUE, !.add = new,
                               !.groups = Groups(Due(rows \cup new, cycle.start))]
    /\ UNCHANGED <<world, store, disk, verified, polled>>

(* An exception, the storage budget or a kill: the open transaction is lost. *)
GiveUp ==
    /\ ~At("idle")
    /\ cycle' = NoCycle
    /\ UNCHANGED <<world, store, disk, verified, polled>>

-----------------------------------------------------------------------------
(* backup_evidence: a segment, then its manifest, in the order of names; it  *)
(* stops at one that does not verify.                                       *)

Before(m, n) ==
    \/ m.day < n.day
    \/ m.day = n.day /\ m.first < n.first
    \/ m.day = n.day /\ m.first = n.first /\ m.last < n.last

CopySegment(n) ==
    /\ files[n].manifest /\ Intact(n)
    /\ \A m \in Listed : Before(m, n) => m \in DOMAIN copies /\ copies[m].manifest
    /\ \/ /\ n \notin DOMAIN copies
          /\ copies' = [m \in DOMAIN copies \cup {n} |->
                          IF m = n THEN [rows |-> files[n].rows, manifest |-> FALSE] ELSE copies[m]]
       \/ /\ n \in DOMAIN copies /\ ~copies[n].manifest
          /\ copies' = [copies EXCEPT ![n].manifest = TRUE]
    /\ UNCHANGED <<world, store, files, damages, verified, cycle, polled>>

-----------------------------------------------------------------------------
(* The world. *)

Tick ==
    /\ clock < MaxTime /\ clock' = clock + 1
    /\ UNCHANGED <<published, store, disk, verified, cycle, polled>>

Publish(e) ==
    /\ published[e] < 2
    /\ \A f \in Event : f < e => published[f] > 0
    /\ published' = [published EXCEPT ![e] = @ + 1]
    /\ UNCHANGED <<clock, store, disk, verified, cycle, polled>>

(* The disk damages a segment: late, when the rows are gone or about to be   *)
(* by a transaction that verified it.                                       *)
Damage(n) ==
    /\ damages < MaxDamage /\ damages' = damages + 1
    /\ Intact(n)
    /\ files' = [files EXCEPT ![n].damage =
                   IF files[n].rows \cap rows \subseteq cycle.removed THEN "late" ELSE "early"]
    /\ UNCHANGED <<world, store, copies, verified, cycle, polled>>

Init ==
    /\ clock = 0 /\ published = [e \in Event |-> 0]
    /\ rows = {} /\ nextId = 1 /\ ever = {}
    /\ files = [n \in {} |-> NoCycle] /\ verified = [n \in {} |-> NoCycle]
    /\ copies = [n \in {} |-> NoCycle]
    /\ cycle = NoCycle /\ polled = 0 /\ damages = 0

Next ==
    \/ Begin \/ WriteSegment \/ WriteManifest \/ VerifySegment \/ Commit
    \/ Scrub \/ Check \/ ObserveBook \/ CollectSettlements \/ Record \/ GiveUp
    \/ PersistBook
    \/ \E n \in DOMAIN files : CopySegment(n) \/ Damage(n)
    \/ Tick \/ \E e \in Event : Publish(e)

Spec == Init /\ [][Next]_vars

-----------------------------------------------------------------------------

(* Nothing that was recorded is lost but to a disk that damages a segment    *)
(* after it was verified.                                                   *)
IsKept(c) ==
    \/ c \in {r.content : r \in rows}
    \/ \E n \in Listed : files[n].damage # "early" /\ c \in {r.content : r \in files[n].rows}

(* verify_archive with restore_database refuses two observations of one      *)
(* identity: a clean-room restoration of every segment would stop there.     *)
Held == rows \cup (UNION {files[n].rows : n \in DOMAIN files})
             \cup (UNION {copies[n].rows : n \in DOMAIN copies})
OneIdentity == \A r, s \in Held : r.id = s.id => r = s

(* Whatever cuts a cycle between the files and the commit: an observation    *)
(* leaves the database only for a segment that verified, and the segments,   *)
(* overlapping ones too, can be restored together.                          *)
EvidenceKept == (\A c \in ever : IsKept(c)) /\ OneIdentity

=============================================================================
