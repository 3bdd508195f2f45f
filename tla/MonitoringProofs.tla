-------------------------- MODULE MonitoringProofs --------------------------
(****************************************************************************)
(* An incident is announced once, when it opens, for any engines,           *)
(* conditions, profiles, failures and cuts: what the watchdog is about to   *)
(* announce is open, has not been announced, and is not resolved before it  *)
(* is announced.  A verdict is safe because each read removes one kind of   *)
(* fact from those that held since the evaluation began: they only shrink.  *)
(****************************************************************************)
EXTENDS Monitoring, WellFoundedInduction, TLAPS

Stage == {"idle", "read", "age", "sync", "tell"}

\* The conditions still to synchronise are not among those to announce.
Distinct(left) == \A i, j \in 1 .. Len(left) : left[i] = left[j] => i = j
Pending(left, tell) == \A f \in tell : \A i \in 1 .. Len(left) : left[i] # f[2]

\* What of the run's memory the announcements depend on.
RunType == [at : Stage, todo : SUBSET Engine, age : Age, seen : SUBSET Condition,
            left : Seq(Condition), tell : SUBSET Fingerprint]
RunOK(w) ==
    /\ w \in RunType
    /\ w.at # "idle" => w.todo # {}
    /\ w.at \in {"idle", "read", "age"} => w.tell = {}
    /\ w.at = "sync" => w.left # << >> /\ Distinct(w.left) /\ Pending(w.left, w.tell)

WorldOK ==
    /\ required \in (SUBSET Engine) \ {{}}
    /\ age \in [Engine -> Age] /\ unsafe \in [Engine -> SUBSET Condition]

\* An announcement is about an open incident that has had none.
Announced ==
    /\ incident \in [Fingerprint -> Incident] /\ told \in [Fingerprint -> {0, 1}]
    /\ \A f \in Fingerprint : told[f] = 1 => incident[f] = "open"
    /\ \A f \in watch.tell : incident[f] = "open" /\ told[f] = 0

TellInv == RunOK(watch) /\ WorldOK /\ Announced /\ ToldWhenOpened

-----------------------------------------------------------------------------
(* Lemmas on the order of the checks and of the conditions. *)

\* A set of positions has a first one.
LEMMA FirstExists ==
    ASSUME NEW T, T \subseteq Nat, T # {}
    PROVE  \E x \in T : \A y \in T : x <= y
<1>. DEFINE R == {ss \in Nat \X Nat : ss[1] < ss[2]}
<1>1. IsWellFoundedOn(R, Nat)
  BY NatLessThanWellFounded DEF OpToRel
<1>. HIDE DEF R
<1>2. PICK x \in T : \A y \in T : ~ (<<y, x>> \in R)
  BY <1>1, WFMin, Zenon
<1>3. ASSUME NEW y \in T PROVE x <= y
  <2>1. y < x => <<y, x>> \in R
    BY DEF R
  <2>. QED
    BY <2>1, <1>2
<1>. QED
  BY <1>3

\* The engine in hand is one of those left to check.
LEMMA CheckedIsLeft ==
    ASSUME watch.todo \subseteq Engine, watch.todo # {}
    PROVE  Checked \in watch.todo
<1>0. Checks \in Seq(Engine)
  BY ListAssumption
<1>1. Position \subseteq Nat /\ Position # {}
  BY <1>0 DEF Position, Engine
<1>2. \E i \in Position : \A j \in Position : i <= j
  BY <1>1, FirstExists
<1>3. (CHOOSE i \in Position : \A j \in Position : i <= j) \in Position
  BY <1>2
<1>. QED
  BY <1>3 DEF Checked, Position

\* What is left after a condition was synchronised.
LEMMA TailIsOrdered ==
    ASSUME NEW left \in Seq(Condition), left # << >>, Distinct(left),
           NEW tell, Pending(left, tell), NEW e
    PROVE  /\ Tail(left) \in Seq(Condition) /\ Distinct(Tail(left))
           /\ Pending(Tail(left), tell \cup {<<e, Head(left)>>})
           /\ Head(left) \in Condition /\ <<e, Head(left)>> \notin tell
           /\ Len(left) # 1 => Tail(left) # << >>
<1>. DEFINE rest == Tail(left)
<1>1. rest \in Seq(Condition) /\ Head(left) = left[1] /\ Len(rest) = Len(left) - 1
      /\ left[1] \in Condition /\ Len(left) \in Nat \ {0}
  OBVIOUS
<1>2. \A i \in 1 .. Len(rest) : rest[i] = left[i + 1] /\ i + 1 \in 1 .. Len(left)
  BY <1>1
<1>3. Distinct(rest)
  BY <1>1, <1>2 DEF Distinct
<1>4. Pending(rest, tell \cup {<<e, Head(left)>>})
  <2>. SUFFICES ASSUME NEW f \in tell \cup {<<e, Head(left)>>}, NEW i \in 1 .. Len(rest)
                PROVE  rest[i] # f[2]
    BY DEF Pending
  <2>1. CASE f \in tell
    BY <2>1, <1>2 DEF Pending
  <2>2. CASE f = <<e, Head(left)>>
    <3>1. f[2] = left[1]
      BY <2>2, <1>1
    <3>. QED
      BY <3>1, <1>1, <1>2 DEF Distinct
  <2>. QED
    BY <2>1, <2>2
<1>5. <<e, Head(left)>> \notin tell
  <2>1. 1 \in 1 .. Len(left) /\ <<e, Head(left)>>[2] = left[1]
    BY <1>1
  <2>. QED
    BY <2>1 DEF Pending
<1>6. Len(left) # 1 => rest # << >>
  <2>1. Len(left) # 1 => Len(rest) # 0
    BY <1>1
  <2>2. Len(<< >>) = 0
    OBVIOUS
  <2>. QED
    BY <2>1, <2>2, Zenon
<1>7. Head(left) \in Condition
  BY <1>1
<1>. QED
  BY <1>1, <1>3, <1>4, <1>5, <1>6, <1>7, Zenon

-----------------------------------------------------------------------------
(* Lemmas on what a step leaves to do. *)

\* After an engine, the run is over or reads the next one.
LEMMA NextCheckOK ==
    ASSUME RunOK(watch), watch.todo # {}
    PROVE  RunOK(NextCheck) /\ NextCheck.tell = {}
<1>1. Checked \in watch.todo /\ watch.todo \subseteq Engine
  BY CheckedIsLeft DEF RunOK, RunType
<1>2. watch.todo # {Checked} => watch.todo \ {Checked} # {}
  BY <1>1
<1>3. << >> \in Seq(Condition)
  OBVIOUS
<1>4. Idle \in RunType
  BY <1>3 DEF Idle, RunType, Stage, Age
<1>5. NextCheck \in RunType /\ NextCheck.tell = {} /\ NextCheck.at \in {"idle", "read"}
      /\ NextCheck.todo = watch.todo \ {Checked}
      /\ (NextCheck.at # "idle" => watch.todo # {Checked})
  BY <1>1, <1>4 DEF NextCheck, Idle, RunType, Stage
<1>. QED
  BY <1>2, <1>5 DEF RunOK

\* The conditions are synchronised from the first one.
LEMMA SynchronisingOK ==
    ASSUME RunOK(watch), watch.todo # {}
    PROVE  RunOK(Synchronising) /\ Synchronising.tell = {}
<1>1. Synchronising \in RunType /\ Synchronising.tell = {} /\ Synchronising.at = "sync"
      /\ Synchronising.left = Conditions /\ Synchronising.todo = watch.todo
  BY ListAssumption DEF Synchronising, RunOK, RunType, Stage, Age
<1>2. Conditions # << >> /\ Distinct(Conditions) /\ Pending(Conditions, {})
  BY ListAssumption DEF Distinct, Pending
<1>. QED
  BY <1>1, <1>2 DEF RunOK

\* The announcements are made before the run goes on.
LEMMA TellingOK ==
    ASSUME RunOK(watch), watch.todo # {}, NEW w, RunOK(w), w.tell = {},
           NEW fs \in SUBSET Fingerprint
    PROVE  RunOK(Telling(fs, w)) /\ Telling(fs, w).tell = fs
<1>1. CASE fs = {}
  BY <1>1 DEF Telling
<1>2. CASE fs # {}
  <2>1. /\ Telling(fs, w) \in RunType /\ Telling(fs, w).tell = fs
        /\ Telling(fs, w).at = "tell" /\ Telling(fs, w).todo = watch.todo
    BY <1>2 DEF Telling, RunOK, RunType, Stage
  <2>. QED
    BY <2>1 DEF RunOK
<1>. QED
  BY <1>1, <1>2

\* A recorded incident is announced, if it is new.
LEMMA RecordIsTold ==
    ASSUME Announced, ToldWhenOpened, NEW f \in Fingerprint, Record(f),
           watch'.tell = watch.tell \cup New({f})
    PROVE  Announced' /\ ToldWhenOpened'
<1>1. /\ incident' \in [Fingerprint -> Incident] /\ told' = told /\ lost' = lost
      /\ \A g \in Fingerprint : incident'[g] = IF g = f THEN "open" ELSE incident[g]
  BY DEF Record, Announced, Incident
<1>2. \A g \in New({f}) : g = f /\ incident[f] # "open" /\ told[f] = 0
  BY DEF New, Announced
<1>3. watch.tell \subseteq watch'.tell /\ (incident[f] # "open" => f \in watch'.tell)
  BY DEF New
<1>4. \A g \in watch'.tell : g \in watch.tell \/ g \in New({f})
  OBVIOUS
<1>5. Announced'
  <2>1. \A g \in watch'.tell : incident'[g] = "open" /\ told'[g] = 0
    <3>. TAKE g \in watch'.tell
    <3>1. CASE g \in watch.tell
      BY <3>1, <1>1 DEF Record, Announced
    <3>2. CASE g \in New({f})
      BY <3>2, <1>1, <1>2
    <3>. QED
      BY <1>4, <3>1, <3>2
  <2>. QED
    BY <2>1, <1>1 DEF Announced
<1>6. ToldWhenOpened'
  BY <1>1, <1>3 DEF ToldWhenOpened, Open, Announced
<1>. QED
  BY <1>5, <1>6

\* A resolved incident may be announced again, and none in hand is resolved.
LEMMA ResolveIsSilent ==
    ASSUME Announced, ToldWhenOpened, NEW f \in Fingerprint, Resolve(f),
           f \notin watch.tell, watch'.tell = watch.tell, watch.tell \subseteq Fingerprint
    PROVE  Announced' /\ ToldWhenOpened'
<1>1. /\ incident' \in [Fingerprint -> Incident] /\ told' \in [Fingerprint -> {0, 1}]
      /\ \A g \in Fingerprint \ {f} : incident'[g] = incident[g] /\ told'[g] = told[g]
      /\ incident'[f] # "open" /\ told'[f] = 0 /\ lost' = lost \ {f}
  BY DEF Resolve, Announced, Incident
<1>2. Announced'
  BY <1>1 DEF Announced
<1>3. ToldWhenOpened'
  BY <1>1 DEF ToldWhenOpened, Open
<1>. QED
  BY <1>2, <1>3

-----------------------------------------------------------------------------
(* The invariant. *)

LEMMA InitTells == Init => TellInv
<1>. SUFFICES ASSUME Init PROVE TellInv
  OBVIOUS
<1>1. << >> \in Seq(Condition)
  OBVIOUS
<1>2. watch \in RunType /\ watch.at = "idle" /\ watch.tell = {}
  BY <1>1 DEF Init, Idle, RunType, Stage, Age
<1>3. RunOK(watch)
  BY <1>2 DEF RunOK
<1>4. WorldOK
  BY MonitoringAssumption DEF Init, WorldOK, Age
<1>5. Announced /\ ToldWhenOpened
  BY <1>2 DEF Init, Announced, ToldWhenOpened, Open, Incident
<1>. QED
  BY <1>3, <1>4, <1>5 DEF TellInv

\* Only the watchdog writes the incidents and its own memory.
LEMMA OthersLeave ==
    ASSUME TellInv, UNCHANGED <<incident, told, lost, watch>>, WorldOK'
    PROVE  TellInv'
  BY DEF TellInv, RunOK, Announced, ToldWhenOpened, Open

LEMMA WorldMoves ==
    ASSUME TellInv, Degrades \/ Improves \/ ProfileChanges
    PROVE  TellInv'
<1>1. CASE Degrades
  BY <1>1, OthersLeave DEF Degrades, TellInv, WorldOK, Age
<1>2. CASE Improves
  BY <1>2, OthersLeave DEF Improves, TellInv, WorldOK, Age
<1>3. CASE ProfileChanges
  BY <1>3, OthersLeave DEF ProfileChanges, TellInv, WorldOK
<1>. QED
  BY <1>1, <1>2, <1>3

LEMMA ReaderReads ==
    ASSUME TellInv, Reader \/ DatabaseUnread \/ ReaderFails
    PROVE  TellInv'
<1>1. UNCHANGED <<incident, told, lost, watch, world>>
  BY DEF Reader, ReaderFails, DatabaseUnread, ReadDatabase, ReadIncidents, ReadSafety, ReadAges, Collect
<1>. QED
  BY <1>1, OthersLeave DEF TellInv, WorldOK, world

LEMMA WatchdogTells ==
    ASSUME TellInv, Watchdog \/ ReadFails \/ RunCut
    PROVE  TellInv'
<1>. USE DEF TellInv
<1>1. UNCHANGED world
  BY DEF Watchdog, StartRun, ReadHealth, CheckAge, SyncCondition, Notify, ReadFails, RunCut
<1>2. WorldOK'
  BY <1>1 DEF WorldOK, world
<1>3. watch \in RunType /\ watch.tell \subseteq Fingerprint
  BY DEF RunOK, RunType
<1>4. watch.at # "idle" => watch.todo # {} /\ Checked \in Engine
  BY <1>3, CheckedIsLeft DEF RunOK, RunType
<1>5. \A c \in {"stale", "check_failed"} \cup Condition :
         watch.at # "idle" => <<Checked, c>> \in Fingerprint
  BY <1>4 DEF Fingerprint
<1>6. CASE StartRun
  <2>1. watch' = [Idle EXCEPT !.at = "read", !.todo = required]
        /\ UNCHANGED <<incident, told, lost>> /\ watch.tell = {}
    BY <1>6 DEF StartRun, At, RunOK
  <2>2. << >> \in Seq(Condition)
    OBVIOUS
  <2>3. watch' \in RunType /\ watch'.at = "read" /\ watch'.tell = {} /\ watch'.todo = required
    BY <2>1, <2>2 DEF Idle, RunType, Stage, Age, WorldOK
  <2>4. RunOK(watch')
    BY <2>3 DEF RunOK, WorldOK
  <2>5. Announced' /\ ToldWhenOpened'
    BY <2>1, <2>3 DEF Announced, ToldWhenOpened, Open
  <2>. QED
    BY <2>4, <2>5, <1>2 DEF RunOK
<1>7. CASE ReadHealth
  <2>1. watch.at = "read" /\ watch.tell = {}
        /\ watch' = [watch EXCEPT !.at = "age", !.age = age[Checked], !.seen = unsafe[Checked]]
    BY <1>7 DEF ReadHealth, At, RunOK
  <2>2. age[Checked] \in Age /\ unsafe[Checked] \subseteq Condition
    BY <2>1, <1>4 DEF WorldOK
  <2>3. watch' \in RunType /\ watch'.at = "age" /\ watch'.tell = {} /\ watch'.todo = watch.todo
    BY <2>1, <2>2, <1>3 DEF RunType, Stage
  <2>4. RunOK(watch')
    BY <2>1, <2>3, <1>4 DEF RunOK
  <2>5. Announced' /\ ToldWhenOpened'
    BY <1>7, <2>1, <2>3, <1>5, ResolveIsSilent DEF ReadHealth
  <2>. QED
    BY <2>4, <2>5, <1>2 DEF RunOK
<1>8. CASE ReadFails
  <2>. DEFINE f == <<Checked, "check_failed">>
  <2>1. watch.at = "read" /\ watch.tell = {} /\ Record(f)
        /\ watch' = Telling(New({f}), NextCheck)
    BY <1>8 DEF ReadFails, At, RunOK
  <2>2. f \in Fingerprint /\ New({f}) \subseteq Fingerprint
    BY <2>1, <1>5 DEF New
  <2>3. RunOK(watch') /\ watch'.tell = New({f})
    BY <2>1, <2>2, <1>4, NextCheckOK, TellingOK
  <2>4. Announced' /\ ToldWhenOpened'
    BY <2>1, <2>2, <2>3, RecordIsTold
  <2>. QED
    BY <2>3, <2>4, <1>2 DEF RunOK
<1>9. CASE CheckAge
  <2>. DEFINE f == <<Checked, "stale">>
  <2>1. watch.at = "age" /\ watch.tell = {} /\ f \in Fingerprint /\ New({f}) \subseteq Fingerprint
    BY <1>9, <1>5 DEF CheckAge, At, RunOK, New
  <2>2. CASE watch.age # "fresh"
    <3>1. Record(f) /\ watch' = Telling(New({f}), Synchronising)
      BY <1>9, <2>2 DEF CheckAge
    <3>2. RunOK(watch') /\ watch'.tell = New({f})
      BY <2>1, <3>1, <1>4, SynchronisingOK, TellingOK
    <3>3. Announced' /\ ToldWhenOpened'
      BY <2>1, <3>1, <3>2, RecordIsTold
    <3>. QED
      BY <3>2, <3>3, <1>2 DEF RunOK
  <2>3. CASE watch.age = "fresh"
    <3>1. Resolve(f) /\ watch' = Synchronising
      BY <1>9, <2>3 DEF CheckAge
    <3>2. RunOK(watch') /\ watch'.tell = {}
      BY <2>1, <3>1, <1>4, SynchronisingOK
    <3>3. Announced' /\ ToldWhenOpened'
      BY <2>1, <3>1, <3>2, <1>3, ResolveIsSilent
    <3>. QED
      BY <3>2, <3>3, <1>2 DEF RunOK
  <2>. QED
    BY <2>2, <2>3
<1>10. CASE SyncCondition
  <2>. DEFINE f == <<Checked, Head(watch.left)>>
              holds == f[2] \in watch.seen
              tell == watch.tell \cup IF holds THEN New({f}) ELSE {}
  <2>1. /\ watch.at = "sync" /\ watch.left # << >> /\ Distinct(watch.left)
        /\ Pending(watch.left, watch.tell) /\ watch.left \in Seq(Condition)
        /\ IF holds THEN Record(f) ELSE Resolve(f)
        /\ watch' = IF Len(watch.left) = 1 THEN Telling(tell, NextCheck)
                    ELSE [watch EXCEPT !.left = Tail(watch.left), !.seen = @ \ {f[2]}, !.tell = tell]
    BY <1>10, <1>3 DEF SyncCondition, At, RunOK, RunType
  <2>2. /\ Tail(watch.left) \in Seq(Condition) /\ Distinct(Tail(watch.left))
        /\ Pending(Tail(watch.left), watch.tell \cup {f})
        /\ Head(watch.left) \in Condition /\ f \notin watch.tell
        /\ Len(watch.left) # 1 => Tail(watch.left) # << >>
    BY <2>1, TailIsOrdered
  <2>3. f \in Fingerprint /\ tell \subseteq Fingerprint /\ tell \subseteq watch.tell \cup {f}
    BY <2>1, <2>2, <1>3, <1>5 DEF New
  <2>4. RunOK(watch') /\ watch'.tell = tell
    <3>1. CASE Len(watch.left) = 1
      BY <3>1, <2>1, <2>3, <1>4, NextCheckOK, TellingOK
    <3>2. CASE Len(watch.left) # 1
      <4>. HIDE DEF tell
      <4>1. /\ watch' \in RunType /\ watch'.tell = tell /\ watch'.at = "sync"
            /\ watch'.todo = watch.todo /\ watch'.left = Tail(watch.left)
        BY <3>2, <2>1, <2>2, <2>3, <1>3 DEF RunType
      <4>2. Pending(Tail(watch.left), tell)
        BY <2>2, <2>3 DEF Pending
      <4>. QED
        BY <4>1, <4>2, <3>2, <2>1, <2>2, <1>4 DEF RunOK
    <3>. QED
      BY <3>1, <3>2
  <2>5. Announced' /\ ToldWhenOpened'
    <3>1. CASE holds
      BY <3>1, <2>1, <2>3, <2>4, RecordIsTold
    <3>2. CASE ~holds
      BY <3>2, <2>1, <2>2, <2>3, <2>4, <1>3, ResolveIsSilent
    <3>. QED
      BY <3>1, <3>2
  <2>. QED
    BY <2>4, <2>5, <1>2 DEF RunOK
<1>11. ASSUME NEW f \in Fingerprint, Notify(f) PROVE TellInv'
  <2>1. /\ watch.at = "tell" /\ f \in watch.tell /\ told' = [told EXCEPT ![f] = @ + 1]
        /\ UNCHANGED <<incident, lost>> /\ watch.todo # {}
    BY <1>11, <1>4 DEF Notify, At
  <2>2. RunOK(watch') /\ watch'.tell = watch.tell \ {f}
    <3>1. CASE watch.tell # {f}
      <4>1. watch' = [watch EXCEPT !.tell = watch.tell \ {f}]
        BY <3>1, <1>11 DEF Notify
      <4>2. watch' \in RunType /\ watch'.at = "tell" /\ watch'.todo = watch.todo
            /\ watch'.tell = watch.tell \ {f}
        BY <4>1, <2>1, <1>3 DEF RunType
      <4>. QED
        BY <4>2, <2>1 DEF RunOK
    <3>2. CASE watch.tell = {f} /\ watch.left # << >>
      BY <3>2, <1>11, <2>1, SynchronisingOK DEF Notify
    <3>3. CASE watch.tell = {f} /\ watch.left = << >>
      BY <3>3, <1>11, <2>1, NextCheckOK DEF Notify
    <3>. QED
      BY <3>1, <3>2, <3>3
  <2>3. incident[f] = "open" /\ told[f] = 0 /\ told'[f] = 1
        /\ \A g \in Fingerprint \ {f} : told'[g] = told[g]
        /\ told' \in [Fingerprint -> {0, 1}]
    BY <2>1 DEF Announced
  <2>4. Announced'
    BY <2>1, <2>2, <2>3, <1>3 DEF Announced
  <2>5. ToldWhenOpened'
    BY <2>1, <2>2, <2>3 DEF ToldWhenOpened, Open
  <2>. QED
    BY <2>2, <2>4, <2>5, <1>2 DEF RunOK
<1>12. CASE RunCut
  <2>1. watch' = Idle /\ UNCHANGED <<incident, told>> /\ lost' = lost \cup watch.tell
    BY <1>12 DEF RunCut
  <2>2. << >> \in Seq(Condition)
    OBVIOUS
  <2>3. watch' \in RunType /\ watch'.at = "idle" /\ watch'.tell = {}
    BY <2>1, <2>2 DEF Idle, RunType, Stage, Age
  <2>4. RunOK(watch')
    BY <2>3 DEF RunOK
  <2>5. Announced' /\ ToldWhenOpened'
    BY <2>1, <2>3 DEF Announced, ToldWhenOpened, Open
  <2>. QED
    BY <2>4, <2>5, <1>2 DEF RunOK
<1>. QED
  BY <1>6, <1>7, <1>8, <1>9, <1>10, <1>11, <1>12 DEF Watchdog

\* Every step keeps the invariant.
LEMMA NextTells == TellInv /\ [Next]_vars => TellInv'
<1>. SUFFICES ASSUME TellInv, [Next]_vars PROVE TellInv'
  OBVIOUS
<1>1. CASE Next
  BY <1>1, WorldMoves, WatchdogTells, ReaderReads DEF Next
<1>2. CASE UNCHANGED vars
  BY <1>2, OthersLeave DEF vars, world, TellInv, WorldOK
<1>. QED
  BY <1>1, <1>2

(* The watchdog announces an incident when it opens and not again while it  *)
(* stays open, whatever is read, fails, is cut or reopens, but for an       *)
(* announcement a cut run still had to make.                                *)
THEOREM AnnouncedOnce == Spec => []ToldWhenOpened
<1>1. TellInv => ToldWhenOpened
  BY DEF TellInv
<1>. QED
  BY InitTells, NextTells, <1>1, PTL DEF Spec

-----------------------------------------------------------------------------
(* The verdict. *)

Asking == {"incidents", "safety", "ages", "domains"}
ReaderType == [at : {"idle", "answered"} \cup Asking, database : {"PASS", "FAIL", "UNKNOWN"},
               ready : BOOLEAN, exit : 0 .. 2, evidence : BOOLEAN]

\* The facts that may have held until now, by what a favourable evaluation read.
NoIncident(h) == \A x \in h : x[3] # "incident"
NoCondition(h) == \A x \in h : x[2] \notin Condition

Excluded(r, h) ==
    r.ready =>
        /\ r.at \in {"safety", "ages", "domains"} => NoIncident(h)
        /\ r.at \in {"ages", "domains"} => NoCondition(h)
        /\ r.at \in {"domains", "answered"} => h = {}

\* Status 0 is the answer of a ready service with all its evidence.
Answered(r) == r.at = "answered" /\ r.exit = 0 => r.ready /\ r.evidence

VerdictInv == reader \in ReaderType /\ Excluded(reader, held) /\ Answered(reader)

\* The three kinds of facts.
LEMMA FactsAre ==
    ASSUME NEW x \in Facts
    PROVE  \/ \E e \in Engine : \E c \in Unsafe(e) : x = <<e, c, "holds">>
           \/ \E r \in required : age[r] # "fresh" /\ x = <<r, "stale", "holds">>
           \/ \E f \in Open : IsCritical(f) /\ Applies(f) /\ x = <<f[1], f[2], "incident">>
  BY DEF Facts

\* Only what an evaluation reads after a step matters: it can only shrink.
LEMMA LessIsHeld ==
    ASSUME NEW r, NEW h, NEW g, g \subseteq h, Excluded(r, h)
    PROVE  Excluded(r, g)
  BY DEF Excluded, NoIncident, NoCondition

\* A failed domain is a failed status, and a domain without answer no success.
LEMMA StatusIsWorst ==
    ASSUME NEW states, ExitCode(StatusFrom(states)) = 0
    PROVE  "FAIL" \notin states /\ "UNKNOWN" \notin states
<1>1. CASE "FAIL" \in states
  BY <1>1 DEF StatusFrom, ExitCode
<1>2. CASE "FAIL" \notin states /\ "UNKNOWN" \in states
  BY <1>2 DEF StatusFrom, ExitCode
<1>. QED
  BY <1>1, <1>2

LEMMA ExitCodes == ASSUME NEW states PROVE ExitCode(StatusFrom(states)) \in 0 .. 2
  BY DEF StatusFrom, ExitCode

LEMMA InitIsSafe == Init => VerdictInv
  BY DEF Init, VerdictInv, NotAsked, ReaderType, Excluded, Answered

\* A step of the engines, the operator or the watchdog.
LEMMA OthersShrink ==
    ASSUME VerdictInv, Held, UNCHANGED reader
    PROVE  VerdictInv'
<1>1. CASE Asked
  <2>1. held' \subseteq held
    BY <1>1 DEF Held
  <2>. QED
    BY <2>1, LessIsHeld DEF VerdictInv
<1>2. CASE ~Asked
  <2>1. held' = {}
    BY <1>2 DEF Held, Asked
  <2>. QED
    BY <2>1 DEF VerdictInv, Excluded, NoIncident, NoCondition
<1>. QED
  BY <1>1, <1>2

\* The facts are those of the engines, the profile and the incidents.
LEMMA FactsStay ==
    ASSUME UNCHANGED <<world, incident>>
    PROVE  Facts' = Facts
  BY DEF world, Facts, Unsafe, Open, Applies

LEMMA ReadsExclude ==
    ASSUME TellInv, VerdictInv, Held, Reader \/ DatabaseUnread \/ ReaderFails \/ ProfileChanges
    PROVE  VerdictInv'
<1>. USE DEF VerdictInv
<1>1. CASE ProfileChanges
  <2>1. reader' = NotAsked
    BY <1>1 DEF ProfileChanges
  <2>. QED
    BY <2>1 DEF NotAsked, ReaderType, Excluded, Answered
<1>2. CASE ReadDatabase \/ DatabaseUnread
  <2>1. PICK answer \in {"PASS", "FAIL", "UNKNOWN"} :
            reader' = [at |-> "incidents", database |-> answer, ready |-> FALSE,
                       exit |-> 2, evidence |-> TRUE]
    BY <1>2 DEF ReadDatabase, DatabaseUnread, NotAsked
  <2>2. reader' \in ReaderType
    BY <2>1 DEF ReaderType, Asking
  <2>3. reader'.at = "incidents" /\ ~reader'.ready
    BY <2>1
  <2>. QED
    BY <2>2, <2>3 DEF Excluded, Answered
<1>3. ASSUME reader.at \in Asking, UNCHANGED <<world, incident>>
      PROVE  held' \subseteq held /\ held' \subseteq Facts
  <2>1. Asked /\ Facts' = Facts
    BY <1>3, FactsStay DEF Asked, Asking
  <2>. QED
    BY <2>1 DEF Held
<1>4. CASE ReadIncidents
  <2>1. reader' = [reader EXCEPT !.at = "safety",
                                 !.ready = \A f \in Open : IsCritical(f) => ~Applies(f)]
        /\ UNCHANGED <<world, incident>> /\ reader.at \in Asking
    BY <1>4 DEF ReadIncidents, Asking
  <2>2. reader' \in ReaderType /\ reader'.at = "safety"
        /\ (reader'.ready => \A f \in Open : IsCritical(f) => ~Applies(f))
    BY <2>1 DEF ReaderType, Asking
  <2>3. held' \subseteq Facts
    BY <1>3, <2>1
  <2>4. ASSUME reader'.ready PROVE NoIncident(held')
    <3>. SUFFICES ASSUME NEW x \in held', x[3] = "incident" PROVE FALSE
      BY DEF NoIncident
    <3>1. x \in Facts
      BY <2>3
    <3>. QED
      BY <3>1, FactsAre, <2>2, <2>4
  <2>. QED
    BY <2>2, <2>4 DEF Excluded, Answered
<1>5. CASE ReadSafety
  <2>1. reader' = [reader EXCEPT !.at = "ages", !.ready = reader.ready /\ Safe]
        /\ UNCHANGED <<world, incident>> /\ reader.at = "safety"
    BY <1>5 DEF ReadSafety
  <2>2. reader' \in ReaderType /\ reader'.at = "ages"
        /\ (reader'.ready => reader.ready /\ \A e \in Engine : Unsafe(e) = {})
    BY <2>1 DEF ReaderType, Asking, Safe
  <2>3. held' \subseteq Facts /\ held' \subseteq held
    BY <1>3, <2>1 DEF Asking
  <2>4. ASSUME reader'.ready PROVE NoIncident(held') /\ NoCondition(held')
    <3>1. NoIncident(held')
      BY <2>1, <2>2, <2>3, <2>4 DEF Excluded, NoIncident
    <3>2. ASSUME NEW x \in held' PROVE x[2] \notin Condition
      <4>1. x \in Facts /\ x[3] # "incident"
        BY <2>3, <3>1 DEF NoIncident
      <4>2. x[2] = "stale"
        BY <4>1, FactsAre, <2>2, <2>4
      <4>. QED
        BY <4>2, ListAssumption
    <3>. QED
      BY <3>1, <3>2 DEF NoCondition
  <2>. QED
    BY <2>2, <2>4 DEF Excluded, Answered
<1>6. CASE ReadAges
  <2>1. reader' = [reader EXCEPT !.at = "domains", !.ready = reader.ready /\ Fresh]
        /\ UNCHANGED <<world, incident>> /\ reader.at = "ages"
    BY <1>6 DEF ReadAges
  <2>2. reader' \in ReaderType /\ reader'.at = "domains"
        /\ (reader'.ready => reader.ready /\ \A e \in required : age[e] = "fresh")
    BY <2>1 DEF ReaderType, Asking, Fresh
  <2>3. held' \subseteq Facts /\ held' \subseteq held
    BY <1>3, <2>1 DEF Asking
  <2>4. ASSUME reader'.ready PROVE held' = {}
    <3>. SUFFICES ASSUME NEW x \in held' PROVE FALSE
      OBVIOUS
    <3>1. x \in Facts /\ x[3] # "incident" /\ x[2] \notin Condition
      BY <2>1, <2>2, <2>3, <2>4 DEF Excluded, NoIncident, NoCondition
    <3>2. \A e \in Engine : Unsafe(e) \subseteq Condition
      BY DEF TellInv, WorldOK, Unsafe
    <3>. QED
      BY <3>1, <3>2, FactsAre, <2>2, <2>4
  <2>. QED
    BY <2>2, <2>4 DEF Excluded, Answered, NoIncident, NoCondition
<1>7. CASE ReaderFails
  <2>1. reader' = [reader EXCEPT !.at = "domains", !.ready = FALSE]
    BY <1>7 DEF ReaderFails
  <2>2. reader' \in ReaderType /\ reader'.at = "domains" /\ ~reader'.ready
    BY <2>1 DEF ReaderType, Asking
  <2>. QED
    BY <2>2 DEF Excluded, Answered
<1>8. CASE Collect
  <2>. DEFINE D(others) == [others EXCEPT !["database"] = reader.database,
                                !["health"] = IF reader.ready THEN "PASS" ELSE "FAIL"]
              Good(d) == \A x \in Domain : d[x] \in {"PASS", "WATCH"}
              States(d) == {d[x] : x \in Domain} \cup {AlertStatus(d)}
  <2>1. PICK others \in Evidence :
            reader' = [NotAsked EXCEPT !.at = "answered", !.ready = reader.ready,
                          !.exit = ExitCode(StatusFrom(States(D(others)))),
                          !.evidence = Good(D(others))]
    BY <1>8 DEF Collect
  <2>. DEFINE d == D(others)
  <2>2. reader.ready \in BOOLEAN /\ reader.database \in {"PASS", "FAIL", "UNKNOWN"}
    BY DEF ReaderType
  <2>3. d \in [Domain -> Verdict] /\ d["health"] = (IF reader.ready THEN "PASS" ELSE "FAIL")
    <3>1. others \in [Domain -> Verdict]
      BY EvidenceAssumption
    <3>2. "health" \in Domain /\ "database" \in Domain
      BY DEF Domain
    <3>. QED
      BY <2>2, <3>1, <3>2 DEF Verdict
  <2>4. "health" \in Domain
    BY DEF Domain
  <2>. HIDE DEF d
  <2>5. ExitCode(StatusFrom(States(d))) = 0 => reader.ready /\ Good(d)
    <3>1. ASSUME ExitCode(StatusFrom(States(d))) = 0 PROVE reader.ready /\ Good(d)
      <4>1. "FAIL" \notin States(d) /\ "UNKNOWN" \notin States(d)
        BY <3>1, StatusIsWorst
      <4>2. \A x \in Domain : d[x] \in Verdict /\ d[x] # "FAIL" /\ d[x] # "UNKNOWN"
        BY <2>3, <4>1
      <4>. QED
        BY <2>3, <2>4, <4>2 DEF Verdict
    <3>. QED
      BY <3>1
  <2>6. ExitCode(StatusFrom(States(d))) \in 0 .. 2
    BY ExitCodes
  <2>. DEFINE code == ExitCode(StatusFrom(States(d)))
              good == Good(d)
  <2>7. good \in BOOLEAN
    OBVIOUS
  <2>8. reader' = [NotAsked EXCEPT !.at = "answered", !.ready = reader.ready,
                      !.exit = code, !.evidence = good]
    BY <2>1 DEF d
  <2>9. (code = 0 => reader.ready /\ good) /\ code \in 0 .. 2
    BY <2>5, <2>6
  <2>. HIDE DEF code, good
  <2>10. /\ reader' \in ReaderType /\ reader'.at = "answered" /\ reader'.ready = reader.ready
         /\ reader'.exit = code /\ reader'.evidence = good
    BY <2>2, <2>7, <2>8, <2>9 DEF NotAsked, ReaderType
  <2>11. reader.at = "domains" /\ UNCHANGED <<world, incident>>
    BY <1>8 DEF Collect
  <2>12. held' \subseteq held
    BY <1>3, <2>11 DEF Asking
  <2>13. reader'.ready => held' = {}
    BY <2>10, <2>11, <2>12 DEF Excluded
  <2>. QED
    BY <2>9, <2>10, <2>13 DEF Excluded, Answered
<1>. QED
  BY <1>1, <1>2, <1>4, <1>5, <1>6, <1>7, <1>8 DEF Reader

LEMMA NextIsSafe == TellInv /\ VerdictInv /\ [Next]_vars => VerdictInv'
<1>. SUFFICES ASSUME TellInv, VerdictInv, [Next]_vars PROVE VerdictInv'
  OBVIOUS
<1>1. CASE Next
  <2>1. Held
    BY <1>1 DEF Next
  <2>2. CASE Reader \/ DatabaseUnread \/ ReaderFails \/ ProfileChanges
    BY <2>1, <2>2, ReadsExclude
  <2>3. CASE Degrades \/ Improves \/ Watchdog \/ ReadFails \/ RunCut
    <3>1. UNCHANGED reader
      BY <2>3 DEF Degrades, Improves, Watchdog, StartRun, ReadHealth, CheckAge, SyncCondition,
                  Notify, ReadFails, RunCut
    <3>. QED
      BY <2>1, <3>1, OthersShrink
  <2>. QED
    BY <1>1, <2>2, <2>3 DEF Next
<1>2. CASE UNCHANGED vars
  BY <1>2 DEF vars, VerdictInv
<1>. QED
  BY <1>1, <1>2

(* A service is said to be ready, and the status command exits 0, only when *)
(* no fact against it held from the first read of the evaluation to its     *)
(* answer, in whatever order its transactions and the watchdog's, the       *)
(* engines' and the operator's steps fall.                                  *)
THEOREM VerdictStaysSafe == Spec => []VerdictIsSafe
<1>1. VerdictInv => VerdictIsSafe
  BY DEF VerdictInv, VerdictIsSafe, Excluded, Answered
<1>. QED
  BY InitIsSafe, InitTells, NextIsSafe, NextTells, <1>1, PTL DEF Spec
=============================================================================
