----------------------------- MODULE ToolsProofs -----------------------------
(***************************************************************************)
(* What the tools around the engines never do, for every value of their    *)
(* constants: one section for each component of Tools.  A step of Tools is *)
(* a step of one component and leaves the state of the others alone.       *)
(***************************************************************************)
EXTENDS Tools, Sequences, FiniteSetTheorems, WellFoundedInduction, TLAPS

(***************************************************************************)
(* Cutover.                                                                *)
(***************************************************************************)

CarryTypes ==
    /\ checkpoint \in Carry!Row /\ memory \in Carry!Row
    /\ model \in {"synthetic", "two_leg"} /\ booked \in Nat

\* A two-leg balance comes with the two-leg model, and is worth what was
\* booked unless the engine that wrote it may not trade.
Worth(m) == m.cash = booked \/ m.stuck \/ m.uncertain
BalancesAreWorth ==
    /\ checkpoint.legs => checkpoint.model = "two_leg"
    /\ memory.legs => memory.model = "two_leg"
    /\ ~bare /\ checkpoint.legs => Worth(checkpoint)
    /\ ~bare /\ loop = "running" =>
          memory.equity = booked /\ (memory.model = "two_leg" => Worth(memory))

CarryInv == CarryTypes /\ BalancesAreWorth /\ CutoverLosesNothing

LEMMA CarryFlat == Carry!Flat \in Carry!Row /\ ~Carry!Flat.legs
<1>. QED
  BY DEF Carry!Flat, Carry!Row, Carry!Capital

Positions == {"flat", "no_quantity", "open"}
Models == {"none", "synthetic", "two_leg"}

\* What a change of some of the fields leaves of a row.
Settled(m, p, e) == [m EXCEPT !.position = p, !.equity = e]
Paid(m, p, c, e) == [m EXCEPT !.position = p, !.cash = c, !.equity = e]
Named(m, k, b) == [m EXCEPT !.model = k, !.legs = b]
Restated(m, k, p, e) == [m EXCEPT !.model = k, !.position = p, !.equity = e]

LEMMA CarrySettles ==
    ASSUME NEW m \in Carry!Row, NEW p \in Positions, NEW e \in Nat
    PROVE  LET n == Settled(m, p, e)
           IN  /\ n \in Carry!Row /\ n.equity = e /\ n.cash = m.cash
               /\ n.legs = m.legs /\ n.model = m.model
BY DEF Carry!Row, Positions, Settled

LEMMA CarryPays ==
    ASSUME NEW m \in Carry!Row, NEW p \in Positions, NEW c \in Nat, NEW e \in Nat
    PROVE  LET n == Paid(m, p, c, e)
           IN  /\ n \in Carry!Row /\ n.equity = e /\ n.cash = c
               /\ n.legs = m.legs /\ n.model = m.model
<1> DEFINE o == [m EXCEPT !.cash = c]
<1>1. o \in Carry!Row /\ o.cash = c /\ o.legs = m.legs /\ o.model = m.model
  BY DEF Carry!Row
<1>2. Paid(m, p, c, e) = Settled(o, p, e)
  BY DEF Carry!Row, Paid, Settled
<1>. HIDE DEF o
<1>. QED
  BY <1>1, <1>2, CarrySettles

LEMMA CarryNames ==
    ASSUME NEW m \in Carry!Row, NEW k \in Models, NEW b \in BOOLEAN
    PROVE  LET n == Named(m, k, b)
           IN  n \in Carry!Row /\ n.model = k /\ n.legs = b /\ n.equity = m.equity
BY DEF Carry!Row, Models, Named

LEMMA CarryRestates ==
    ASSUME NEW m \in Carry!Row, NEW k \in Models, NEW p \in Positions, NEW e \in Nat
    PROVE  LET n == Restated(m, k, p, e)
           IN  /\ n \in Carry!Row /\ n.equity = e /\ n.legs = m.legs
               /\ m.model = k => n = Settled(m, p, e)
<1> DEFINE o == [m EXCEPT !.model = k]
<1>1. o \in Carry!Row /\ o.legs = m.legs /\ (m.model = k => o = m)
  BY DEF Carry!Row, Models
<1>2. Restated(m, k, p, e) = Settled(o, p, e)
  BY DEF Carry!Row, Restated, Settled
<1>. HIDE DEF o
<1>. QED
  BY <1>1, <1>2, CarrySettles

\* What either cutover writes.
LEMMA CarryCuts ==
    ASSUME checkpoint \in Carry!Row
    PROVE  \A n \in {Carry!FlatPayload, [Carry!FlatPayload EXCEPT !.model = "two_leg"]} :
             n \in Carry!Row /\ n.equity = checkpoint.equity /\ ~n.legs
<1>1. /\ Carry!FlatPayload \in Carry!Row /\ ~Carry!FlatPayload.legs
      /\ Carry!FlatPayload.equity = checkpoint.equity
  BY CarryFlat DEF Carry!FlatPayload, Carry!Row
<1>. DEFINE two == [Carry!FlatPayload EXCEPT !.model = "two_leg"]
<1>2. two \in Carry!Row /\ two.equity = Carry!FlatPayload.equity /\ two.legs = Carry!FlatPayload.legs
  BY <1>1 DEF Carry!Row
<1>. SUFFICES ASSUME NEW n \in {Carry!FlatPayload, two}
             PROVE  n \in Carry!Row /\ n.equity = checkpoint.equity /\ ~n.legs
  OBVIOUS
<1>. HIDE DEF two
<1>. QED
  BY <1>1, <1>2

LEMMA CarryInit == Carry!Init => CarryInv
<1>. SUFFICES ASSUME Carry!Init PROVE CarryInv
  OBVIOUS
<1>1. Carry!Flat \in Carry!Row /\ ~Carry!Flat.legs
  BY CarryFlat
<1>2. checkpoint \in Carry!Row /\ checkpoint.equity = 1 /\ ~checkpoint.legs
  <2>1. \/ checkpoint = Settled(Carry!Flat, "no_quantity", 1)
        \/ \E p \in {"flat", "open"} : checkpoint = Restated(Carry!Flat, "synthetic", p, 1)
    BY DEF Carry!Init, Settled, Restated
  <2>2. /\ "synthetic" \in Models
        /\ "flat" \in Positions /\ "open" \in Positions /\ "no_quantity" \in Positions
    BY DEF Models, Positions
  <2>. QED
    BY <1>1, <2>1, <2>2, CarryRestates, CarrySettles
<1>3. /\ memory = Carry!Flat /\ loop = "down" /\ booked = 1
      /\ model \in {"synthetic", "two_leg"}
  BY DEF Carry!Init
<1>. QED
  BY <1>1, <1>2, <1>3 DEF CarryInv, CarryTypes, BalancesAreWorth, CutoverLosesNothing,
                    Carry!CutoverLosesNothing

\* A row that differs from another in its balance and its marks only.
SameEngine(n, m) == n \in Carry!Row /\ n.equity = m.equity /\ n.legs = m.legs /\ n.model = m.model

\* Loading over a memory m: the checkpoint keeps its equity, and the memory
\* takes it over.
LEMMA CarryLoads ==
    ASSUME CarryInv, NEW m \in Carry!Row, m.legs => m.model = "two_leg", Carry!LoadState(m)
    PROVE  /\ checkpoint' \in Carry!Row /\ memory' \in Carry!Row
           /\ origin' = checkpoint'
           /\ checkpoint'.equity = checkpoint.equity /\ memory'.equity = checkpoint.equity
           /\ memory'.legs = m.legs /\ memory'.model = m.model
           /\ checkpoint' = checkpoint \/ (checkpoint' = memory' /\ memory'.uncertain)
           /\ ~bare /\ m.model = "two_leg"
                 => Worth(memory') \/ (checkpoint.position = "flat" /\ checkpoint.model # "two_leg")
<1> DEFINE base == [m EXCEPT !.position = checkpoint.position, !.equity = checkpoint.equity,
                             !.uncertain = checkpoint.uncertain]
           loaded == Carry!Balance(base, checkpoint)
<1>1. /\ base \in Carry!Row /\ base.equity = checkpoint.equity
      /\ base.legs = m.legs /\ base.model = m.model /\ base.uncertain = checkpoint.uncertain
  BY DEF CarryInv, CarryTypes, Carry!Row
<1>. HIDE DEF base
<1>2. loaded \in {base, [base EXCEPT !.cash = checkpoint.cash, !.stuck = checkpoint.stuck],
                  [base EXCEPT !.uncertain = TRUE, !.stuck = TRUE],
                  [base EXCEPT !.cash = checkpoint.equity, !.stuck = FALSE]}
  BY DEF Carry!Balance
<1>3. /\ loaded \in Carry!Row /\ loaded.equity = checkpoint.equity
      /\ loaded.legs = m.legs /\ loaded.model = m.model
  <2>1. checkpoint.cash \in Nat /\ checkpoint.equity \in Nat /\ checkpoint.stuck \in BOOLEAN
    BY DEF CarryInv, CarryTypes, Carry!Row
  <2>2. ASSUME NEW c \in Nat, NEW b \in BOOLEAN
        PROVE  /\ SameEngine([base EXCEPT !.cash = c, !.stuck = b], base)
               /\ SameEngine([base EXCEPT !.uncertain = TRUE, !.stuck = TRUE], base)
    BY <1>1 DEF Carry!Row, SameEngine
  <2>3. SameEngine(base, base)
    BY <1>1 DEF SameEngine
  <2>. HIDE DEF loaded
  <2>4. SameEngine(loaded, base)
    BY <1>2, <2>1, <2>2, <2>3
  <2>. QED
    BY <1>1, <2>4 DEF SameEngine
<1>4. ASSUME ~bare, m.model = "two_leg"
      PROVE  Worth(loaded) \/ (checkpoint.position = "flat" /\ checkpoint.model # "two_leg")
  BY <1>1, <1>4 DEF Carry!Balance, Worth, CarryInv, BalancesAreWorth, CutoverLosesNothing,
                    Carry!CutoverLosesNothing, CarryTypes, Carry!Row
<1>. DEFINE marked == [loaded EXCEPT !.uncertain = TRUE]
<1>. HIDE DEF loaded
<1>5. /\ marked \in Carry!Row /\ marked.equity = checkpoint.equity /\ marked.uncertain
      /\ marked.legs = m.legs /\ marked.model = m.model
  BY <1>3 DEF Carry!Row
<1>. HIDE DEF marked
<1>6. \/ /\ memory' = marked /\ checkpoint' = marked /\ origin' = marked
      \/ /\ memory' = loaded /\ checkpoint' = checkpoint /\ origin' = checkpoint
  BY DEF Carry!LoadState, Carry!Commit, Carry!Keep, loaded, base, marked
<1>. QED
  BY <1>3, <1>4, <1>5, <1>6 DEF CarryInv, CarryTypes, Worth

\* A commit of a running engine.
LEMMA CarryCommits ==
    ASSUME CarryInv, NEW m \in Carry!Row, Carry!Commit(m), m.legs = memory.legs,
           m.model = memory.model, loop = "running", loop' \in {"running", "down"},
           bare' = bare, model' = model, booked' \in Nat,
           ~bare => m.equity = booked' /\ (m.model = "two_leg" => Worth(m)')
    PROVE  CarryInv'
BY DEF Carry!Commit, CarryInv, CarryTypes, BalancesAreWorth, CutoverLosesNothing,
       Carry!CutoverLosesNothing, Worth

LEMMA CarryTicks ==
    ASSUME CarryInv,
           \/ Carry!ApplyFunding \/ Carry!OpenPosition \/ Carry!ClosePosition
           \/ Carry!MarkUncertain \/ Carry!TickTwoLeg \/ Carry!StopCleanly
    PROVE  CarryInv'
<1>1. memory \in Carry!Row /\ booked \in Nat
  BY DEF CarryInv, CarryTypes
<1>2. ~bare /\ loop = "running" => memory.equity = booked /\ (memory.model = "two_leg" => Worth(memory))
  BY DEF CarryInv, BalancesAreWorth
<1>3. CASE Carry!ApplyFunding /\ memory.position = "open"
  <2>. DEFINE m == [memory EXCEPT !.equity = @ + 1]
  <2>1. /\ m \in Carry!Row /\ m.equity = memory.equity + 1 /\ m.legs = memory.legs
        /\ m.model = memory.model
    BY <1>1 DEF Carry!Row
  <2>. HIDE DEF m
  <2>2. /\ Carry!Commit(m) /\ loop = "running" /\ loop' = loop /\ bare' = bare /\ model' = model
        /\ booked' = booked + 1 /\ memory.model = "synthetic"
    BY <1>3 DEF Carry!ApplyFunding, Carry!Ticking, Carry!Booking, m
  <2>. QED
    BY <1>1, <1>2, <2>1, <2>2, CarryCommits
<1>4. CASE Carry!ApplyFunding /\ memory.position # "open"
  <2>1. /\ Carry!Commit(memory) /\ loop = "running" /\ loop' = loop /\ bare' = bare /\ model' = model
        /\ booked' = booked /\ memory.model = "synthetic"
    BY <1>4 DEF Carry!ApplyFunding, Carry!Ticking
  <2>. QED
    BY <1>1, <1>2, <2>1, CarryCommits
<1>5. CASE Carry!OpenPosition \/ Carry!ClosePosition
  <2>1. PICK p \in {"flat", "open"} :
          Carry!Commit(Settled(memory, p, memory.equity + 1))
    BY <1>5 DEF Carry!OpenPosition, Carry!ClosePosition, Settled
  <2>. DEFINE m == Settled(memory, p, memory.equity + 1)
  <2>2. /\ m \in Carry!Row /\ m.equity = memory.equity + 1 /\ m.legs = memory.legs
        /\ m.model = memory.model
    <3>1. memory.equity + 1 \in Nat /\ p \in Positions
      BY <1>1 DEF Carry!Row, Positions
    <3>. QED
      BY <1>1, <3>1, CarrySettles
  <2>3. /\ loop = "running" /\ loop' = loop /\ bare' = bare /\ model' = model
        /\ booked' = booked + 1 /\ memory.model = "synthetic"
    BY <1>5 DEF Carry!OpenPosition, Carry!ClosePosition, Carry!Ticking, Carry!Booking
  <2>4. Carry!Commit(m)
    BY <2>1
  <2>. HIDE DEF m
  <2>. QED
    BY <1>1, <1>2, <2>2, <2>3, <2>4, CarryCommits
<1>6. CASE Carry!MarkUncertain
  <2>. DEFINE m == [memory EXCEPT !.uncertain = TRUE]
  <2>1. /\ m \in Carry!Row /\ m.equity = memory.equity /\ m.legs = memory.legs
        /\ m.model = memory.model
    BY <1>1 DEF Carry!Row
  <2>. HIDE DEF m
  <2>2. /\ Carry!Commit(m) /\ loop = "running" /\ loop' = loop /\ bare' = bare /\ model' = model
        /\ booked' = booked /\ memory.model = "synthetic"
    BY <1>6 DEF Carry!MarkUncertain, Carry!Ticking, Carry!history, m
  <2>. QED
    BY <1>1, <1>2, <2>1, <2>2, CarryCommits
<1>7. CASE Carry!TickTwoLeg
  <2>1. PICK p \in {"flat", "open"} :
          Carry!Commit(Paid(memory, p, memory.cash + 1, memory.cash + 1))
    BY <1>1, <1>7 DEF Carry!TickTwoLeg, Paid
  <2>. DEFINE m == Paid(memory, p, memory.cash + 1, memory.cash + 1)
  <2>2. /\ m \in Carry!Row /\ m.equity = memory.cash + 1 /\ m.cash = memory.cash + 1
        /\ m.legs = memory.legs /\ m.model = memory.model
    <3>1. memory.cash + 1 \in Nat /\ p \in Positions
      BY <1>1 DEF Carry!Row, Positions
    <3>. QED
      BY <1>1, <3>1, CarryPays
  <2>3. /\ loop = "running" /\ loop' = loop /\ bare' = bare /\ model' = model
        /\ booked' = booked + 1 /\ memory.model = "two_leg"
        /\ ~memory.stuck /\ ~memory.uncertain
    BY <1>7 DEF Carry!TickTwoLeg, Carry!Ticking, Carry!Booking
  <2>4. Carry!Commit(m)
    BY <2>1
  <2>. HIDE DEF m
  <2>. QED
    BY <1>1, <1>2, <2>2, <2>3, <2>4, CarryCommits DEF Worth
<1>8. CASE Carry!StopCleanly
  <2>1. /\ Carry!Commit(memory) /\ loop = "running" /\ loop' = "down" /\ bare' = bare /\ model' = model
        /\ booked' = booked
    BY <1>8 DEF Carry!StopCleanly, Carry!history
  <2>2. memory' = memory
    BY <2>1 DEF Carry!Commit
  <2>. QED
    BY <1>1, <1>2, <2>1, <2>2, CarryCommits DEF Worth
<1>. QED
  BY <1>3, <1>4, <1>5, <1>6, <1>7, <1>8

LEMMA CarryStep == CarryInv /\ [Carry!Next]_(Carry!vars) => CarryInv'
<1>. SUFFICES ASSUME CarryInv, [Carry!Next]_(Carry!vars) PROVE CarryInv'
  OBVIOUS
<1>. USE DEF Carry!store, Carry!engine, Carry!history
<1>1. CASE Carry!Construct
  <2>. DEFINE m == Named(Carry!Flat, model, model = "two_leg")
  <2>1. m \in Carry!Row /\ m.model = model /\ (m.legs <=> model = "two_leg")
    <3>1. model \in Models /\ (model = "two_leg") \in BOOLEAN
      BY DEF CarryInv, CarryTypes, Models
    <3>. QED
      BY <3>1, CarryFlat, CarryNames
  <2>2. Carry!LoadState(m) /\ loop' = "built" /\ UNCHANGED <<model, booked, bare>>
    BY <1>1 DEF Carry!Construct, Named
  <2>. HIDE DEF m
  <2>3. /\ checkpoint' \in Carry!Row /\ memory' \in Carry!Row
        /\ checkpoint'.equity = checkpoint.equity
        /\ memory'.legs = m.legs /\ memory'.model = m.model
        /\ checkpoint' = checkpoint \/ (checkpoint' = memory' /\ memory'.uncertain)
    BY <2>1, <2>2, CarryLoads
  <2>. QED
    BY <2>1, <2>2, <2>3 DEF CarryInv, CarryTypes, BalancesAreWorth, CutoverLosesNothing,
                            Carry!CutoverLosesNothing, Worth
<1>2. CASE Carry!EnterLoop
  <2>1. /\ Carry!LoadState(memory) /\ loop' = "running" /\ UNCHANGED <<model, booked>>
        /\ bare' = (bare \/ (memory.model = "two_leg" /\ checkpoint.position = "flat"
                             /\ checkpoint.model # "two_leg"))
    BY <1>2 DEF Carry!EnterLoop
  <2>2. memory \in Carry!Row /\ (memory.legs => memory.model = "two_leg")
    BY DEF CarryInv, CarryTypes, BalancesAreWorth
  <2>3. /\ checkpoint' \in Carry!Row /\ memory' \in Carry!Row
        /\ origin' = checkpoint'
        /\ checkpoint'.equity = checkpoint.equity /\ memory'.equity = checkpoint.equity
        /\ memory'.legs = memory.legs /\ memory'.model = memory.model
        /\ checkpoint' = checkpoint \/ (checkpoint' = memory' /\ memory'.uncertain)
        /\ ~bare /\ memory.model = "two_leg"
              => Worth(memory') \/ (checkpoint.position = "flat" /\ checkpoint.model # "two_leg")
    BY <2>1, <2>2, CarryLoads
  <2>. QED
    BY <2>1, <2>3 DEF CarryInv, CarryTypes, BalancesAreWorth, CutoverLosesNothing,
                      Carry!CutoverLosesNothing, Worth
<1>3. CASE \/ Carry!ApplyFunding \/ Carry!OpenPosition \/ Carry!ClosePosition
           \/ Carry!MarkUncertain \/ Carry!TickTwoLeg \/ Carry!StopCleanly
  BY <1>3, CarryTicks
<1>4. CASE Carry!ApplyLegacyCutover \/ Carry!ApplyModelCutover
  <2>1. checkpoint' \in Carry!Row /\ checkpoint'.equity = checkpoint.equity /\ ~checkpoint'.legs
    <3>1. checkpoint' \in {Carry!FlatPayload, [Carry!FlatPayload EXCEPT !.model = "two_leg"]}
      BY <1>4 DEF Carry!ApplyLegacyCutover, Carry!ApplyModelCutover
    <3>. QED
      BY <3>1, CarryCuts DEF CarryInv, CarryTypes
  <2>2. loop # "running" /\ UNCHANGED <<model, loop, memory, booked, bare>>
    BY <1>4 DEF Carry!ApplyLegacyCutover, Carry!ApplyModelCutover, Carry!LockFree
  <2>. QED
    BY <2>1, <2>2 DEF CarryInv, CarryTypes, BalancesAreWorth, CutoverLosesNothing,
                      Carry!CutoverLosesNothing, Worth
<1>5. CASE Carry!Crash \/ Carry!Configure \/ Carry!Diagnose \/ UNCHANGED Carry!vars
  BY <1>5 DEF Carry!Crash, Carry!Configure, Carry!Diagnose, Carry!vars, CarryInv, CarryTypes,
              BalancesAreWorth, CutoverLosesNothing, Carry!CutoverLosesNothing, Worth
<1>. QED
  BY <1>1, <1>2, <1>3, <1>4, <1>5 DEF Carry!Next, Carry!Engine, Carry!Maintain

\* The carry engine and the cutovers of its model lose nothing of each
\* other's commits (carry_cutover.py, the load and the commits of the engine).
THEOREM CutoverIsSafe == ToolsSpec => []CutoverLosesNothing
<1>1. ToolsInit => CarryInv
  BY CarryInit DEF ToolsInit
<1>2. CarryInv /\ [ToolsNext]_toolVars => CarryInv'
  <2>1. [ToolsNext]_toolVars => [Carry!Next]_(Carry!vars) \/ UNCHANGED cutover
    BY DEF ToolsNext, Deploying, Recovering, OpeningStore, Searching, Sealed, Collecting,
           CuttingOver, toolVars
  <2>2. CarryInv /\ UNCHANGED cutover => CarryInv'
    BY DEF cutover, CarryInv, CarryTypes, BalancesAreWorth, CutoverLosesNothing,
           Carry!CutoverLosesNothing, Worth
  <2>. QED
    BY <2>1, <2>2, CarryStep
<1>. QED
  BY <1>1, <1>2, PTL DEF ToolsSpec, CarryInv

(***************************************************************************)
(* RecoveryGate.                                                           *)
(***************************************************************************)

GateImage == [Scopes -> Nat]
GateSet == [image : GateImage, state : Recovery!SkewStates, fate : Recovery!Fates]
Backups == [kind : {"create"}, next : Nat \ {0}, image : GateImage]
Prunings == [kind : {"prune"}, doomed : SUBSET Nat]
Restorations ==
    [kind : {"restore"}, set : Nat, root : Recovery!Dirs, copied : BOOLEAN, next : Nat \ {0}]
GateJob == {Recovery!NoJob} \cup Backups \cup Prunings \cup Restorations

GateTypes ==
    /\ live \in GateImage /\ world \in GateImage
    /\ running \subseteq Scopes
    /\ marker \in [Recovery!Dirs -> [Scopes -> Recovery!Statuses]]
    /\ sets \in Seq(GateSet)
    /\ job \in GateJob
    /\ restored \in [image : GateImage, root : Recovery!Dirs]

\* A restoration has marked what it passed, and nothing waits to be installed.
JobMarks ==
    job.kind = "restore" =>
        /\ job.set \in DOMAIN sets /\ restored = Recovery!NoCopy
        /\ \A k \in DOMAIN Order :
             k < job.next /\ Order[k] \in Recovery!FencedScopes
               => marker[job.root][Order[k]] = "RECOVERY_REQUIRED"

\* What waits to be installed is marked.
CopyMarked ==
    restored # Recovery!NoCopy =>
        \A s \in Scopes : restored.image[s] # Recovery!Absent
                            => marker[restored.root][s] = "RECOVERY_REQUIRED"

StagingMarks == \A s \in Scopes : marker["restored"][s] \in {"none", "RECOVERY_REQUIRED"}

\* A database that is not the world's is marked in the runtime directory.
DivergenceMarked ==
    \A s \in Scopes : marker["runtime"][s] # "RECOVERY_REQUIRED" => live[s] = world[s]

GateInv ==
    /\ GateTypes /\ JobMarks /\ CopyMarked /\ StagingMarks /\ DivergenceMarked
    /\ FencedUntilReconciled

LEMMA GateConstants ==
    /\ Recovery!Absent \in Nat /\ Recovery!NoCopy \in [image : GateImage, root : Recovery!Dirs]
    /\ Order \in Seq(Scopes) /\ \A s \in Scopes : \E k \in DOMAIN Order : Order[k] = s
<1>1. Recovery!Absent \in Nat /\ Order \in Seq(Scopes)
  BY ToolsAssumption DEF Recovery!RecoveryAssumption, Recovery!Absent
<1>2. Recovery!NoCopy \in [image : GateImage, root : Recovery!Dirs]
  BY <1>1 DEF Recovery!NoCopy, GateImage, Recovery!Dirs
<1>3. \A s \in Scopes : \E k \in DOMAIN Order : Order[k] = s
  BY ToolsAssumption DEF Recovery!RecoveryAssumption, Recovery!Range
<1>. QED
  BY <1>1, <1>2, <1>3

LEMMA GateImages ==
    ASSUME NEW f \in GateImage, NEW s, NEW v \in Nat PROVE [f EXCEPT ![s] = v] \in GateImage
BY DEF GateImage

LEMMA JobKinds ==
    ASSUME job \in GateJob
    PROVE  /\ job.kind = "create" <=> job \in Backups
           /\ job.kind = "prune" <=> job \in Prunings
           /\ job.kind = "restore" <=> job \in Restorations
           /\ job.kind = "none" <=> job = Recovery!NoJob
<1>1. \A j \in Backups : j.kind = "create"
  BY DEF Backups
<1>2. \A j \in Prunings : j.kind = "prune"
  BY DEF Prunings
<1>3. \A j \in Restorations : j.kind = "restore"
  BY DEF Restorations
<1>4. Recovery!NoJob.kind = "none"
  BY DEF Recovery!NoJob
<1>. QED
  BY <1>1, <1>2, <1>3, <1>4 DEF GateJob

LEMMA GateInit == Recovery!Init => GateInv
BY GateConstants DEF Recovery!Init, GateInv, GateTypes, GateImage, JobMarks, CopyMarked, StagingMarks,
   DivergenceMarked, FencedUntilReconciled, Recovery!FencedUntilReconciled, Recovery!Dirs,
   Recovery!Statuses, GateJob, Recovery!NoJob

\* What no writer, marker or copy depends on.
LEMMA GateFrame ==
    ASSUME GateInv, GateTypes', UNCHANGED <<live, world, marker, restored>>, running' \subseteq running,
           JobMarks'
    PROVE  GateInv'
BY DEF GateInv, CopyMarked, StagingMarks, DivergenceMarked, FencedUntilReconciled,
       Recovery!FencedUntilReconciled

\* A set that rots or goes keeps what it captured.
LEMMA GateFates ==
    ASSUME sets \in Seq(GateSet), NEW i, NEW fate \in Recovery!Fates
    PROVE  LET new == [sets EXCEPT ![i].fate = fate]
           IN  /\ new \in Seq(GateSet) /\ DOMAIN new = DOMAIN sets
               /\ \A j \in DOMAIN sets : new[j].image = sets[j].image
<1>1. \A r \in GateSet : [r EXCEPT !.fate = fate] \in GateSet
                         /\ [r EXCEPT !.fate = fate].image = r.image
  BY DEF GateSet
<1>. DEFINE x == [sets[i] EXCEPT !.fate = fate]
<1>2. [sets EXCEPT ![i].fate = fate] = [sets EXCEPT ![i] = x]
  OBVIOUS
<1>3. i \in DOMAIN sets => x \in GateSet /\ x.image = sets[i].image
  BY <1>1
<1>. HIDE DEF x
<1>4. i \in DOMAIN sets => [sets EXCEPT ![i] = x] \in Seq(GateSet)
  BY <1>3
<1>5. i \notin DOMAIN sets => [sets EXCEPT ![i] = x] = sets
  OBVIOUS
<1>6. /\ DOMAIN [sets EXCEPT ![i] = x] = DOMAIN sets
      /\ \A j \in DOMAIN sets : [sets EXCEPT ![i] = x][j].image = sets[j].image
  BY <1>3
<1>. QED
  BY <1>2, <1>4, <1>5, <1>6

LEMMA GateBackup ==
    ASSUME GateInv,
           \/ Recovery!BeginBackup \/ Recovery!CaptureSource \/ Recovery!PublishBackup
           \/ Recovery!BeginPrune \/ Recovery!RemoveSet
           \/ \E i \in DOMAIN sets : Recovery!BytesRot(i)
    PROVE  GateInv'
<1>1. UNCHANGED <<live, world, running, marker, restored>>
  BY DEF Recovery!BeginBackup, Recovery!CaptureSource, Recovery!PublishBackup,
         Recovery!BeginPrune, Recovery!RemoveSet, Recovery!BytesRot
<1>2. CASE Recovery!BeginBackup
  <2>1. job' \in Backups
    BY <1>2, GateConstants DEF Recovery!BeginBackup, Backups, Recovery!NoCopy, GateImage
  <2>. QED
    BY <1>1, <1>2, <2>1, GateFrame DEF Recovery!BeginBackup, GateInv, GateTypes, GateJob, JobMarks, Backups
<1>3. CASE Recovery!CaptureSource
  <2>1. job \in Backups
    BY <1>3, JobKinds DEF Recovery!CaptureSource, GateInv, GateTypes
  <2>2. PICK v \in Recovery!Captured(Order[job.next]) :
          job' = [job EXCEPT !.next = @ + 1, !.image[Order[job.next]] = v]
    BY <1>3 DEF Recovery!CaptureSource
  <2>3. v \in Nat
    <3>1. job.next \in Nat \ {0} /\ job.next <= Len(Order)
      BY <1>3, <2>1 DEF Recovery!CaptureSource, Backups
    <3>2. Order \in Seq(Scopes)
      BY GateConstants
    <3>3. Order[job.next] \in Scopes
      BY <3>1, <3>2
    <3>4. live[Order[job.next]] \in Nat
      BY <3>3 DEF GateInv, GateTypes, GateImage
    <3>5. Recovery!Absent \in Nat
      BY GateConstants
    <3>. QED
      BY <2>2, <3>4, <3>5 DEF Recovery!Captured
  <2>4. job' \in Backups
    <3>0. job.image \in GateImage /\ job.next \in Nat \ {0}
      BY <2>1 DEF Backups
    <3>1. [job.image EXCEPT ![Order[job.next]] = v] \in GateImage
      BY <3>0, <2>3, GateImages, Zenon
    <3>3. job.next + 1 \in Nat \ {0}
      BY <3>0
    <3>2. job' = [job EXCEPT !.next = job.next + 1, !.image = [job.image EXCEPT ![Order[job.next]] = v]]
      BY <2>1, <2>2 DEF Backups
    <3>. HIDE DEF GateImage
    <3>. QED
      BY <2>1, <3>1, <3>2, <3>3 DEF Backups
  <2>5. UNCHANGED <<live, world, marker, restored, running, sets>>
    BY <1>3 DEF Recovery!CaptureSource
  <2>6. GateTypes'
    BY <2>4, <2>5 DEF GateInv, GateTypes, GateJob
  <2>7. JobMarks'
    BY <2>4 DEF JobMarks, Backups
  <2>. QED
    BY <2>5, <2>6, <2>7, GateFrame
<1>4. CASE Recovery!PublishBackup
  <2>1. job.image \in GateImage
    BY <1>4, JobKinds DEF Recovery!PublishBackup, GateInv, GateTypes, Backups
  <2>2. sets' \in Seq(GateSet)
    BY <1>4, <2>1 DEF Recovery!PublishBackup, GateInv, GateTypes, GateSet, Recovery!Fates
  <2>. QED
    BY <1>1, <1>4, <2>2, GateFrame
       DEF Recovery!PublishBackup, GateInv, GateTypes, GateJob, JobMarks, Recovery!NoJob
<1>5. CASE Recovery!BeginPrune
  <2>1. Recovery!Candidates \subseteq Nat
    BY DEF Recovery!Candidates, GateInv, GateTypes
  <2>. QED
    BY <1>1, <1>5, <2>1, GateFrame
       DEF Recovery!BeginPrune, GateInv, GateTypes, GateJob, JobMarks, Prunings
<1>6. CASE Recovery!RemoveSet
  <2>1. job \in Prunings
    BY <1>6, JobKinds DEF Recovery!RemoveSet, GateInv, GateTypes
  <2>2. PICK i \in job.doomed :
          /\ sets' = [sets EXCEPT ![i].fate = "removed"]
          /\ job' = IF job.doomed = {i} THEN Recovery!NoJob ELSE [job EXCEPT !.doomed = @ \ {i}]
    BY <1>6 DEF Recovery!RemoveSet
  <2>3. job' \in GateJob /\ job'.kind # "restore"
    BY <2>1, <2>2 DEF GateJob, Recovery!NoJob, Prunings
  <2>. QED
    BY <1>1, <2>2, <2>3, GateFates, GateFrame DEF GateInv, GateTypes, JobMarks, Recovery!Fates
<1>7. ASSUME NEW i \in DOMAIN sets, Recovery!BytesRot(i) PROVE GateInv'
  <2>1. sets' = [sets EXCEPT ![i].fate = "rotten"] /\ job' = job
    BY <1>7 DEF Recovery!BytesRot
  <2>2. /\ sets' \in Seq(GateSet) /\ DOMAIN sets' = DOMAIN sets
        /\ \A j \in DOMAIN sets : sets'[j].image = sets[j].image
    BY <2>1, GateFates DEF GateInv, GateTypes, Recovery!Fates
  <2>3. JobMarks'
    BY <1>1, <2>1, <2>2 DEF GateInv, JobMarks, Recovery!FencedScopes
  <2>. QED
    BY <1>1, <2>1, <2>2, <2>3, GateFrame DEF GateInv, GateTypes
<1>. QED
  BY <1>2, <1>3, <1>4, <1>5, <1>6, <1>7

LEMMA GateRestore ==
    ASSUME GateInv,
           \/ \E i \in DOMAIN sets, root \in Recovery!Dirs : Recovery!BeginRestore(i, root)
           \/ Recovery!CopyEntries \/ Recovery!WriteMarker \/ Recovery!PublishRestore
    PROVE  GateInv'
<1>1. UNCHANGED <<live, world, running, sets>>
  BY DEF Recovery!BeginRestore, Recovery!CopyEntries, Recovery!WriteMarker, Recovery!PublishRestore
<1>2. ASSUME NEW i \in DOMAIN sets, NEW root \in Recovery!Dirs, Recovery!BeginRestore(i, root)
      PROVE  GateInv'
  <2>1. /\ job' = [kind |-> "restore", set |-> i, root |-> root, copied |-> FALSE, next |-> 1]
        /\ restored = Recovery!NoCopy /\ UNCHANGED <<marker, restored>>
    BY <1>2 DEF Recovery!BeginRestore
  <2>2. i \in Nat
    BY DEF GateInv, GateTypes
  <2>3. job' \in Restorations
    BY <2>1, <2>2 DEF Restorations
  <2>4. JobMarks'
    <3>1. \A k \in DOMAIN Order : ~(k < 1)
      BY GateConstants
    <3>. QED
      BY <1>1, <2>1, <3>1 DEF JobMarks
  <2>. QED
    BY <1>1, <2>1, <2>3, <2>4, GateFrame DEF GateInv, GateTypes, GateJob
<1>3. CASE Recovery!CopyEntries
  <2>1. job \in Restorations
    BY <1>3, JobKinds DEF Recovery!CopyEntries, GateInv, GateTypes
  <2>2. /\ job' \in Restorations /\ job'.set = job.set /\ job'.root = job.root /\ job'.next = job.next
        /\ job.kind = "restore" /\ UNCHANGED <<marker, restored>>
    BY <1>3, <2>1 DEF Recovery!CopyEntries, Restorations
  <2>3. JobMarks'
    BY <1>1, <2>2 DEF GateInv, JobMarks, Recovery!FencedScopes
  <2>. QED
    BY <1>1, <2>2, <2>3, GateFrame DEF GateInv, GateTypes, GateJob
<1>4. CASE Recovery!WriteMarker
  <2>. DEFINE s == Order[job.next]
  <2>1. job \in Restorations /\ job.kind = "restore"
    BY <1>4, JobKinds DEF Recovery!WriteMarker, GateInv, GateTypes
  <2>2. /\ job' \in Restorations /\ job'.set = job.set /\ job'.root = job.root
        /\ job'.next = job.next + 1 /\ UNCHANGED restored
    BY <1>4, <2>1 DEF Recovery!WriteMarker, Restorations
  <2>3. s \in Scopes
    <3>1. job.next \in Nat \ {0} /\ job.next <= Len(Order)
      BY <1>4, <2>1 DEF Recovery!WriteMarker, Recovery!MarkersDue, Restorations
    <3>. QED
      BY <3>1, GateConstants
  <2>4. job.root \in Recovery!Dirs
    BY <2>1 DEF Restorations
  <2>5. /\ marker' \in [Recovery!Dirs -> [Scopes -> Recovery!Statuses]]
        /\ \A d \in Recovery!Dirs, t \in Scopes :
             marker'[d][t] = IF d = job.root /\ t = s /\ s \in Recovery!FencedScopes
                             THEN "RECOVERY_REQUIRED" ELSE marker[d][t]
    <3>1. marker \in [Recovery!Dirs -> [Scopes -> Recovery!Statuses]]
      BY DEF GateInv, GateTypes
    <3>2. s \in Recovery!FencedScopes
      BY <2>3 DEF Recovery!FencedScopes
    <3>3. marker' = [marker EXCEPT ![job.root][s] = "RECOVERY_REQUIRED"]
      BY <1>4, <3>2 DEF Recovery!WriteMarker
    <3>4. "RECOVERY_REQUIRED" \in Recovery!Statuses
      BY DEF Recovery!Statuses
    <3>. HIDE DEF s
    <3>. QED
      BY <2>3, <2>4, <3>1, <3>2, <3>3, <3>4
  <2>6. JobMarks'
    <3>1. job.next \in Nat \ {0}
      BY <2>1 DEF Restorations
    <3>2. job'.set \in DOMAIN sets /\ restored = Recovery!NoCopy
      BY <2>1, <2>2 DEF GateInv, JobMarks
    <3>3. ASSUME NEW k \in DOMAIN Order, k < job.next + 1, Order[k] \in Recovery!FencedScopes
          PROVE  marker'[job.root][Order[k]] = "RECOVERY_REQUIRED"
      <4>1. k = job.next \/ k < job.next
        <5>1. k \in Nat
          BY GateConstants
        <5>. QED
          BY <3>1, <3>3, <5>1
      <4>2. Order[k] \in Scopes
        BY GateConstants
      <4>3. k < job.next => marker[job.root][Order[k]] = "RECOVERY_REQUIRED"
        BY <2>1, <3>3 DEF GateInv, JobMarks
      <4>. QED
        BY <2>4, <2>5, <3>3, <4>1, <4>2, <4>3
    <3>. QED
      BY <1>1, <2>2, <3>2, <3>3 DEF JobMarks, Recovery!FencedScopes
  <2>7. StagingMarks' /\ DivergenceMarked'
    BY <1>1, <2>5 DEF GateInv, StagingMarks, DivergenceMarked, Recovery!Dirs
  <2>. QED
    BY <1>1, <2>1, <2>2, <2>5, <2>6, <2>7
       DEF GateInv, GateTypes, GateJob, JobMarks, CopyMarked, FencedUntilReconciled,
           Recovery!FencedUntilReconciled
<1>5. CASE Recovery!PublishRestore
  <2>1. job \in Restorations /\ job.kind = "restore" /\ ~(job.next <= Len(Order))
    BY <1>5, JobKinds DEF Recovery!PublishRestore, Recovery!MarkersDue, GateInv, GateTypes
  <2>2. /\ restored' = [image |-> sets[job.set].image, root |-> job.root]
        /\ job' = Recovery!NoJob /\ UNCHANGED marker
    BY <1>5 DEF Recovery!PublishRestore
  <2>3. job.set \in DOMAIN sets /\ sets[job.set] \in GateSet
    BY <2>1 DEF GateInv, GateTypes, JobMarks
  <2>4. CopyMarked'
    <3>1. job.next \in Nat \ {0} /\ job.root \in Recovery!Dirs
      BY <2>1 DEF Restorations
    <3>2. ASSUME NEW s \in Scopes, sets[job.set].image[s] # Recovery!Absent
          PROVE  marker[job.root][s] = "RECOVERY_REQUIRED"
      <4>1. PICK k \in DOMAIN Order : Order[k] = s
        BY GateConstants
      <4>2. k < job.next
        <5>1. k \in Nat /\ k <= Len(Order) /\ Len(Order) \in Nat
          BY GateConstants
        <5>. QED
          BY <2>1, <3>1, <5>1
      <4>. QED
        BY <2>1, <3>2, <4>1, <4>2 DEF GateInv, JobMarks, Recovery!FencedScopes
    <3>. QED
      BY <2>2, <3>2 DEF CopyMarked
  <2>. QED
    BY <1>1, <2>1, <2>2, <2>3, <2>4
       DEF GateInv, GateTypes, GateJob, GateSet, Restorations, JobMarks, StagingMarks, DivergenceMarked,
           FencedUntilReconciled, Recovery!FencedUntilReconciled, Recovery!NoJob
<1>. QED
  BY <1>2, <1>3, <1>4, <1>5

\* A restoration that ends without a copy takes the staging directory along.
LEMMA GateAbandons ==
    ASSUME GateInv, marker' = Recovery!Unstaged(marker), job' = Recovery!NoJob,
           UNCHANGED <<live, world, running, sets, restored>>
    PROVE  GateInv'
<1>1. marker' = marker \/ (job.kind = "restore" /\ marker' = [marker EXCEPT !["restored"] = [t \in Scopes |-> "none"]])
  BY DEF Recovery!Unstaged
<1>2. /\ marker' \in [Recovery!Dirs -> [Scopes -> Recovery!Statuses]]
      /\ marker'["runtime"] = marker["runtime"]
      /\ \A t \in Scopes : marker'["restored"][t] \in {marker["restored"][t], "none"}
      /\ job.kind # "restore" => marker' = marker
  BY <1>1 DEF GateInv, GateTypes, Recovery!Dirs, Recovery!Statuses
<1>. QED
  BY <1>2 DEF GateInv, GateTypes, GateJob, JobMarks, CopyMarked, StagingMarks, DivergenceMarked,
              FencedUntilReconciled, Recovery!FencedUntilReconciled, Recovery!NoJob

LEMMA GateWriters ==
    ASSUME GateInv, NEW s \in Scopes,
           Recovery!StartWriter(s) \/ Recovery!StopWriter(s) \/ Recovery!Write(s) \/ Recovery!Reconcile(s)
    PROVE  GateInv'
<1>1. UNCHANGED <<marker, sets, job, restored>>
  BY DEF Recovery!StartWriter, Recovery!StopWriter, Recovery!Write, Recovery!Reconcile
<1>2. CASE Recovery!StartWriter(s)
  BY <1>1, <1>2 DEF Recovery!StartWriter, Recovery!Clear, GateInv, GateTypes, JobMarks, CopyMarked,
     StagingMarks, DivergenceMarked, FencedUntilReconciled, Recovery!FencedUntilReconciled,
     Recovery!FencedScopes
<1>3. CASE Recovery!StopWriter(s)
  BY <1>1, <1>3, GateFrame
     DEF Recovery!StopWriter, GateInv, GateTypes, JobMarks, Recovery!FencedScopes
<1>4. CASE Recovery!Write(s) \/ Recovery!Reconcile(s)
  <2>0. live \in GateImage /\ world \in GateImage /\ running' = running
    BY <1>4 DEF Recovery!Write, Recovery!Reconcile, GateInv, GateTypes
  <2>1. /\ live' \in GateImage /\ world' \in GateImage
        /\ \A t \in Scopes : live[t] = world[t] => live'[t] = world'[t]
    <3>1. CASE Recovery!Write(s)
      <4>1. /\ live' = [live EXCEPT ![s] = live[s] + 1] /\ world' = [world EXCEPT ![s] = world[s] + 1]
        BY <3>1 DEF Recovery!Write
      <4>. QED
        BY <2>0, <4>1 DEF GateImage
    <3>2. CASE Recovery!Reconcile(s)
      <4>1. /\ live' = [live EXCEPT ![s] = world[s]] /\ world' = world
        BY <3>2 DEF Recovery!Reconcile
      <4>. QED
        BY <2>0, <4>1 DEF GateImage
    <3>. QED
      BY <1>4, <3>1, <3>2
  <2>. QED
    BY <1>1, <2>0, <2>1 DEF GateInv, GateTypes, JobMarks, CopyMarked,
       StagingMarks, DivergenceMarked, FencedUntilReconciled, Recovery!FencedUntilReconciled,
       Recovery!FencedScopes
<1>. QED
  BY <1>2, <1>3, <1>4

LEMMA GateAdvances ==
    ASSUME GateInv, NEW s \in Scopes, Recovery!AdvanceMarker(s)
    PROVE  GateInv'
<1>1. UNCHANGED <<live, world, running, sets, job, restored>>
  BY DEF Recovery!AdvanceMarker
<1>2. /\ marker' \in [Recovery!Dirs -> [Scopes -> Recovery!Statuses]]
      /\ marker'["restored"] = marker["restored"]
      /\ \A t \in Scopes \ {s} : marker'["runtime"][t] = marker["runtime"][t]
  BY DEF Recovery!AdvanceMarker, GateInv, GateTypes, Recovery!Dirs, Recovery!Statuses
<1>3. live[s] = world[s]
  BY DEF Recovery!AdvanceMarker, Recovery!Evidence, GateInv, DivergenceMarked
<1>4. CASE marker["runtime"][s] = "RECOVERY_REQUIRED"
  <2>1. restored = Recovery!NoCopy /\ job.kind = "none"
    BY <1>4 DEF Recovery!AdvanceMarker, Recovery!Evidence, Recovery!Idle
  <2>. QED
    BY <1>1, <1>2, <1>3, <2>1
       DEF GateInv, GateTypes, JobMarks, CopyMarked, StagingMarks, DivergenceMarked,
           FencedUntilReconciled, Recovery!FencedUntilReconciled
<1>5. CASE marker["runtime"][s] # "RECOVERY_REQUIRED"
  <2>1. \A d \in Recovery!Dirs, t \in Scopes :
          marker[d][t] = "RECOVERY_REQUIRED" => marker'[d][t] = "RECOVERY_REQUIRED"
    BY <1>2, <1>5 DEF Recovery!Dirs
  <2>2. JobMarks'
    <3>1. ASSUME job.kind = "restore" PROVE job.root \in Recovery!Dirs
      BY <3>1, JobKinds DEF GateInv, GateTypes, Restorations
    <3>2. \A k \in DOMAIN Order : Order[k] \in Scopes
      BY GateConstants
    <3>. QED
      BY <1>1, <2>1, <3>1, <3>2 DEF GateInv, JobMarks, Recovery!FencedScopes
  <2>3. CopyMarked'
    BY <1>1, <2>1 DEF GateInv, GateTypes, CopyMarked
  <2>. QED
    BY <1>1, <1>2, <1>3, <2>2, <2>3
       DEF GateInv, GateTypes, StagingMarks, DivergenceMarked, FencedUntilReconciled,
           Recovery!FencedUntilReconciled
<1>. QED
  BY <1>4, <1>5

LEMMA GateInstalls == GateInv /\ Recovery!Install => GateInv'
<1>. SUFFICES ASSUME GateInv, Recovery!Install PROVE GateInv'
  OBVIOUS
<1>1. /\ running = {} /\ job.kind = "none" /\ restored # Recovery!NoCopy
      /\ restored' = Recovery!NoCopy /\ UNCHANGED <<world, running, sets, job>>
  BY DEF Recovery!Install, Recovery!Idle
<1>2. /\ live' = [s \in Scopes |-> IF restored.image[s] = Recovery!Absent THEN live[s] ELSE restored.image[s]]
      /\ live' \in GateImage
  BY DEF Recovery!Install, GateInv, GateTypes, GateImage
<1>3. /\ marker' \in [Recovery!Dirs -> [Scopes -> Recovery!Statuses]]
      /\ \A s \in Scopes :
           /\ marker'["runtime"][s] = IF restored.root = "restored" /\ marker["restored"][s] # "none"
                                      THEN marker["restored"][s] ELSE marker["runtime"][s]
           /\ marker'["restored"][s] = "none"
  BY DEF Recovery!Install, GateInv, GateTypes, Recovery!Dirs, Recovery!Statuses
<1>4. DivergenceMarked'
  <2>1. restored.root \in {"runtime", "restored"}
    BY DEF GateInv, GateTypes, Recovery!Dirs
  <2>. QED
    BY <1>1, <1>2, <1>3, <2>1 DEF GateInv, DivergenceMarked, CopyMarked, StagingMarks
<1>. QED
  BY <1>1, <1>2, <1>3, <1>4, GateConstants
     DEF GateInv, GateTypes, JobMarks, CopyMarked, StagingMarks, FencedUntilReconciled,
         Recovery!FencedUntilReconciled

LEMMA GateStep == GateInv /\ [Recovery!Next]_(Recovery!vars) => GateInv'
<1>. SUFFICES ASSUME GateInv, [Recovery!Next]_(Recovery!vars) PROVE GateInv'
  OBVIOUS
<1>1. CASE Recovery!RestoreRefused \/ Recovery!JobDies
  BY <1>1, GateAbandons DEF Recovery!RestoreRefused, Recovery!JobDies
<1>2. CASE UNCHANGED Recovery!vars
  BY <1>2 DEF Recovery!vars, GateInv, GateTypes, JobMarks, CopyMarked, StagingMarks, DivergenceMarked,
     FencedUntilReconciled, Recovery!FencedUntilReconciled, Recovery!FencedScopes
<1>. QED
  BY <1>1, <1>2, GateBackup, GateRestore, GateWriters, GateAdvances, GateInstalls DEF Recovery!Next

\* No writer runs on a restored database before it was reconciled, whatever
\* interrupts the restoration (backup.py, assert_writer_recovery_clear).
THEOREM WritersAreFenced == ToolsSpec => []FencedUntilReconciled
<1>1. ToolsInit => GateInv
  BY GateInit DEF ToolsInit
<1>2. GateInv /\ [ToolsNext]_toolVars => GateInv'
  <2>1. [ToolsNext]_toolVars => [Recovery!Next]_(Recovery!vars) \/ UNCHANGED recovery
    BY DEF ToolsNext, Deploying, Recovering, OpeningStore, Searching, Sealed, Collecting,
           CuttingOver, toolVars
  <2>2. GateInv /\ UNCHANGED recovery => GateInv'
    BY DEF recovery, GateInv, GateTypes, JobMarks, CopyMarked, StagingMarks, DivergenceMarked,
       FencedUntilReconciled, Recovery!FencedUntilReconciled, Recovery!FencedScopes
  <2>. QED
    BY <2>1, <2>2, GateStep
<1>. QED
  BY <1>1, <1>2, PTL DEF ToolsSpec, GateInv
(***************************************************************************)
(* Schema.                                                                 *)
(***************************************************************************)

OpeningTypes ==
    /\ version \in {0} \cup 4 .. 14
    /\ at \in [Process -> {"down", "first", "second", "open", "ready"}]
    /\ seen \in [Process -> Nat]
    /\ trades \in [Opening!Trade -> Nat]

\* What each half of an opening can count on.
HalvesMeet ==
    /\ version = 0 => "evidence" \notin objects /\ "settlements" \notin objects
    /\ "base" \in objects => "reference_price" \in objects
    /\ \A p \in Process : at[p] = "second" =>
          /\ seen[p] = version \/ version = 14
          /\ {"base", "reference_price", "order_safety", "funding"} \subseteq objects

\* The journal is imported whole or not at all.
JournalWhole == Opening!NotImported \/ \A t \in Legacy : trades[t] = 1

OpeningInv == OpeningTypes /\ HalvesMeet /\ JournalWhole /\ OpensWhole

LEMMA Versions ==
    /\ Opening!Object = {"base", "reference_price", "order_safety", "funding", "evidence",
                         "signed_fees", "plans", "fill_ledger", "status_event", "settlements",
                         "settlement_ledger", "completeness_v2"}
    /\ \A v : \A x : x \in Opening!Of(v) <=> x \in Opening!Object /\ Opening!Since[x] <= v
    /\ Opening!Since["base"] = 1 /\ Opening!Since["reference_price"] = 2
    /\ Opening!Since["order_safety"] = 5 /\ Opening!Since["funding"] = 6
    /\ Opening!Since["evidence"] = 7 /\ Opening!Since["signed_fees"] = 8
    /\ Opening!Since["plans"] = 9 /\ Opening!Since["fill_ledger"] = 10
    /\ Opening!Since["status_event"] = 11 /\ Opening!Since["settlements"] = 12
    /\ Opening!Since["settlement_ledger"] = 13 /\ Opening!Since["completeness_v2"] = 14
BY DEF Opening!Object, Opening!Of, Opening!Since

LEMMA OpeningInit == Opening!Init => OpeningInv
<1>. SUFFICES ASSUME Opening!Init PROVE OpeningInv
  OBVIOUS
<1>1. version \in {0} \cup 4 .. 14 /\ objects = Opening!Of(version)
  BY ToolsAssumption DEF Opening!Init, Opening!SchemaAssumption
<1>2. version = 0 => "evidence" \notin objects /\ "settlements" \notin objects
  BY <1>1, Versions
<1>3. "base" \in objects => "reference_price" \in objects
  BY <1>1, Versions
<1>4. PICK imported \in BOOLEAN :
        trades = [t \in Opening!Trade |-> IF imported /\ t \in Legacy THEN 1 ELSE 0]
  BY DEF Opening!Init
<1>5. /\ at = [p \in Process |-> "down"] /\ seen = [p \in Process |-> 0]
  BY DEF Opening!Init
<1>6. trades \in [Opening!Trade -> Nat] /\ JournalWhole /\ Opening!LegacyOnce
  BY <1>4, <1>5 DEF JournalWhole, Opening!NotImported, Opening!LegacyOnce, Opening!Trade
<1>. QED
  BY <1>1, <1>2, <1>3, <1>5, <1>6
     DEF OpeningInv, OpeningTypes, HalvesMeet, OpensWhole, Opening!OpensWhole, Opening!SchemaIsWhole

\* What the two transactions of an opening leave of the schema.
LEMMA FirstHalves ==
    ASSUME OpeningInv, NEW v \in Nat
    PROVE  LET s == Opening!FirstHalf(objects, v)
           IN  /\ objects \subseteq s
               /\ {"base", "reference_price", "order_safety", "funding"} \subseteq s
               /\ "evidence" \in s => "evidence" \in objects
               /\ "settlements" \in s => "settlements" \in objects
<1>1. /\ {"base", "reference_price"} \subseteq Opening!Of(5)
      /\ "evidence" \notin Opening!Of(5) /\ "settlements" \notin Opening!Of(5)
  BY Versions
<1>. QED
  BY <1>1 DEF OpeningInv, HalvesMeet, Opening!FirstHalf, Opening!WithFunding, Opening!WithOrderSafety,
              Opening!WithReferencePrice, Opening!WithBase

LEMMA SecondHalves ==
    ASSUME OpeningInv, NEW p \in Process, at[p] = "second", ~Opening!Conflicts(p)
    PROVE  LET s == Opening!SecondHalf(objects, Opening!Latest(seen[p]))
           IN  objects \subseteq s /\ Opening!Of(14) \subseteq s
<1>. DEFINE v == Opening!Latest(seen[p])
            s == Opening!SecondHalf(objects, v)
<1>. SUFFICES objects \subseteq s /\ Opening!Of(14) \subseteq s
  OBVIOUS
<1>1. objects \subseteq s
  BY DEF Opening!SecondHalf, Opening!RebuiltSettlements, Opening!WithSettlementLedger,
         Opening!WithSettlements, Opening!WithStatusEvent, Opening!WithFillLedger,
         Opening!WithPlans, Opening!RebuiltFills, Opening!WithEvidence
<1>2. CASE version = 14
  BY <1>1, <1>2 DEF OpeningInv, OpensWhole, Opening!OpensWhole, Opening!SchemaIsWhole
<1>3. CASE version # 14
  <2>1. /\ v \in 4 .. 14 /\ (v = version \/ (version = 0 /\ v = 14))
        /\ {"base", "reference_price", "order_safety", "funding"} \subseteq objects
    BY <1>3 DEF OpeningInv, OpeningTypes, HalvesMeet, Opening!Latest, Opening!SCHEMA_VERSION
  <2>2. /\ v >= 8 /\ version # 0 => "signed_fees" \in objects
        /\ v >= 11 /\ version # 0 => "status_event" \in objects
    BY <2>1, Versions DEF OpeningInv, OpensWhole, Opening!OpensWhole, Opening!SchemaIsWhole
  <2>. HIDE DEF v
  <2>3. {"evidence", "signed_fees", "plans", "fill_ledger", "status_event", "settlements",
         "settlement_ledger", "completeness_v2"} \subseteq s
    <3>. DEFINE a == Opening!WithEvidence(objects)
                b == Opening!WithStatusEvent(Opening!WithFillLedger(Opening!WithPlans(Opening!RebuiltFills(a, v))), v)
    <3>1. {"evidence", "signed_fees", "plans", "fill_ledger", "status_event"} \subseteq b
      BY <1>3, <2>1, <2>2 DEF OpeningInv, HalvesMeet, Opening!WithStatusEvent, Opening!WithFillLedger,
         Opening!WithPlans, Opening!RebuiltFills, Opening!WithEvidence
    <3>2. "settlements" \in b => "settlements" \in objects
      BY DEF Opening!WithStatusEvent, Opening!WithFillLedger,
         Opening!WithPlans, Opening!RebuiltFills, Opening!WithEvidence
    <3>3. s = Opening!RebuiltSettlements(Opening!WithSettlementLedger(Opening!WithSettlements(b)), v)
      BY DEF Opening!SecondHalf
    <3>. HIDE DEF b, s
    <3>. QED
      BY <1>3, <2>1, <3>1, <3>2, <3>3 DEF OpeningInv, OpeningTypes, HalvesMeet,
         Opening!RebuiltSettlements, Opening!WithSettlementLedger, Opening!WithSettlements
  <2>. HIDE DEF s
  <2>. QED
    BY <1>1, <2>1, <2>3, Versions
<1>. QED
  BY <1>2, <1>3

LEMMA OpeningStep == OpeningInv /\ [Opening!Next]_(Opening!vars) => OpeningInv'
<1>. SUFFICES ASSUME OpeningInv, [Opening!Next]_(Opening!vars) PROVE OpeningInv'
  OBVIOUS
<1>. USE DEF Opening!Goto
<1>1. ASSUME NEW p \in Process, Opening!Inspect(p) \/ Opening!SecondFails(p) \/ Opening!Crash(p)
      PROVE  OpeningInv'
  <2>1. /\ UNCHANGED <<objects, version, trades, seen>>
        /\ at' \in [Process -> {"down", "first", "second", "open", "ready"}]
        /\ \A q \in Process : at'[q] \in {"second", "open", "ready"} => at'[q] = at[q]
    BY <1>1 DEF Opening!Inspect, Opening!SecondFails, Opening!Crash, OpeningInv, OpeningTypes
  <2>. QED
    BY <2>1 DEF OpeningInv, OpeningTypes, HalvesMeet, JournalWhole, OpensWhole, Opening!OpensWhole,
       Opening!SchemaIsWhole, Opening!LegacyOnce, Opening!NotImported
<1>2. ASSUME NEW p \in Process, Opening!FirstTransaction(p) PROVE OpeningInv'
  <2>1. /\ objects' = Opening!FirstHalf(objects, Opening!Latest(version))
        /\ seen' = [seen EXCEPT ![p] = version] /\ at' = [at EXCEPT ![p] = "second"]
        /\ UNCHANGED <<version, trades>>
    BY <1>2 DEF Opening!FirstTransaction
  <2>2. Opening!Latest(version) \in Nat
    BY DEF OpeningInv, OpeningTypes, Opening!Latest, Opening!SCHEMA_VERSION
  <2>3. /\ objects \subseteq objects'
        /\ {"base", "reference_price", "order_safety", "funding"} \subseteq objects'
        /\ "evidence" \in objects' => "evidence" \in objects
        /\ "settlements" \in objects' => "settlements" \in objects
    BY <2>1, <2>2, FirstHalves
  <2>4. OpeningTypes'
    BY <2>1 DEF OpeningInv, OpeningTypes
  <2>5. HalvesMeet'
    BY <2>1, <2>3 DEF OpeningInv, OpeningTypes, HalvesMeet
  <2>6. JournalWhole' /\ OpensWhole'
    BY <2>1, <2>3 DEF OpeningInv, OpeningTypes, JournalWhole, OpensWhole, Opening!OpensWhole,
       Opening!SchemaIsWhole, Opening!LegacyOnce, Opening!NotImported
  <2>. QED
    BY <2>4, <2>5, <2>6 DEF OpeningInv
<1>3. ASSUME NEW p \in Process, Opening!SecondTransaction(p) PROVE OpeningInv'
  <2>1. /\ objects' = Opening!SecondHalf(objects, Opening!Latest(seen[p])) /\ version' = 14
        /\ at[p] = "second" /\ ~Opening!Conflicts(p) /\ UNCHANGED <<trades, seen>>
        /\ \E step \in {"down", "open"} : at' = [at EXCEPT ![p] = step]
    BY <1>3 DEF Opening!SecondTransaction, Opening!SCHEMA_VERSION
  <2>2. objects \subseteq objects' /\ Opening!Of(14) \subseteq objects'
    BY <2>1, SecondHalves
  <2>3. "reference_price" \in objects'
    BY <2>2, Versions
  <2>4. OpeningTypes'
    BY <2>1 DEF OpeningInv, OpeningTypes
  <2>5. HalvesMeet'
    BY <2>1, <2>2, <2>3 DEF OpeningInv, OpeningTypes, HalvesMeet
  <2>6. JournalWhole' /\ OpensWhole'
    BY <2>1, <2>2 DEF OpeningInv, OpeningTypes, JournalWhole, OpensWhole, Opening!OpensWhole,
       Opening!SchemaIsWhole, Opening!LegacyOnce, Opening!NotImported, Opening!SCHEMA_VERSION
  <2>. QED
    BY <2>4, <2>5, <2>6 DEF OpeningInv
<1>4. ASSUME NEW p \in Process, Opening!Import(p) PROVE OpeningInv'
  <2>1. /\ trades' = [t \in Opening!Trade |-> trades[t] + IF Opening!NotImported /\ t \in Legacy THEN 1 ELSE 0]
        /\ at[p] = "open" /\ at' = [at EXCEPT ![p] = "ready"] /\ UNCHANGED <<objects, version, seen>>
    BY <1>4 DEF Opening!Import
  <2>2. OpeningTypes' /\ HalvesMeet' /\ Opening!SchemaIsWhole'
    BY <2>1 DEF OpeningInv, OpeningTypes, HalvesMeet, OpensWhole, Opening!OpensWhole, Opening!SchemaIsWhole
  <2>3. \A t \in Legacy : trades'[t] = 1
    BY <2>1 DEF OpeningInv, OpeningTypes, JournalWhole, Opening!NotImported, Opening!Trade
  <2>. QED
    BY <2>2, <2>3 DEF OpeningInv, JournalWhole, OpensWhole, Opening!OpensWhole, Opening!LegacyOnce
<1>5. ASSUME NEW p \in Process, Opening!ApplyFill(p) \/ Opening!RecordTrade(p) PROVE OpeningInv'
  <2>1. /\ at[p] = "ready" /\ UNCHANGED <<objects, version, at, seen>>
        /\ trades' = trades \/ \E t \in Own : trades' = [trades EXCEPT ![t] = 1]
    BY <1>5 DEF Opening!ApplyFill, Opening!RecordTrade
  <2>2. OpeningTypes' /\ HalvesMeet' /\ Opening!SchemaIsWhole'
    BY <2>1 DEF OpeningInv, OpeningTypes, HalvesMeet, OpensWhole, Opening!OpensWhole, Opening!SchemaIsWhole
  <2>3. \A t \in Legacy : trades'[t] = 1
    <3>1. \A t \in Legacy : trades[t] = 1
      BY <2>1 DEF OpeningInv, OpensWhole, Opening!OpensWhole, Opening!LegacyOnce
    <3>. QED
      BY <2>1, <3>1, ToolsAssumption
         DEF OpeningInv, OpeningTypes, Opening!Trade, Opening!SchemaAssumption
  <2>. QED
    BY <2>2, <2>3 DEF OpeningInv, JournalWhole, OpensWhole, Opening!OpensWhole, Opening!LegacyOnce
<1>6. CASE UNCHANGED Opening!vars
  BY <1>6 DEF Opening!vars, OpeningInv, OpeningTypes, HalvesMeet, JournalWhole, OpensWhole,
     Opening!OpensWhole, Opening!SchemaIsWhole, Opening!LegacyOnce, Opening!NotImported
<1>. QED
  BY <1>1, <1>2, <1>3, <1>4, <1>5, <1>6 DEF Opening!Next

\* Whatever openings overlap or die, an engine at work finds the whole schema
\* and the trades of the older journals once (state_store.py _initialize,
\* migrate_legacy_journals).
THEOREM OpeningIsWhole == ToolsSpec => []OpensWhole
<1>1. ToolsInit => OpeningInv
  BY OpeningInit DEF ToolsInit
<1>2. OpeningInv /\ [ToolsNext]_toolVars => OpeningInv'
  <2>1. [ToolsNext]_toolVars => [Opening!Next]_(Opening!vars) \/ UNCHANGED opening
    BY DEF ToolsNext, Deploying, Recovering, OpeningStore, Searching, Sealed, Collecting,
           CuttingOver, toolVars
  <2>2. OpeningInv /\ UNCHANGED opening => OpeningInv'
    BY DEF opening, OpeningInv, OpeningTypes, HalvesMeet, JournalWhole, OpensWhole,
       Opening!OpensWhole, Opening!SchemaIsWhole, Opening!LegacyOnce, Opening!NotImported
  <2>. QED
    BY <2>1, <2>2, OpeningStep
<1>. QED
  BY <1>1, <1>2, PTL DEF ToolsSpec, OpeningInv
(***************************************************************************)
(* Sealing.                                                                *)
(***************************************************************************)

VaultRow ==
    [status : {"none", "BLIND_RESERVED", "PENDING", "SPENT", "INVALIDATED"},
     identity : Vault!Identity \cup {Vault!NoRow.identity}, result : Result \cup {Nothing}]
VaultCall ==
    [at : {"idle", "evaluate", "commit", "read"}, holdout : Holdout \cup {Nothing},
     result : Result \cup {Nothing}]

VaultTypes ==
    /\ holdout \in [Holdout -> VaultRow] /\ call \in [Process -> VaultCall]
    /\ shown \subseteq Holdout \X (Result \cup {Nothing})

\* An evaluation is of a holdout, and reads one that is spent.
CallsKnow ==
    \A p \in Process :
        /\ call[p].at # "idle" => call[p].holdout \in Holdout
        /\ call[p].at = "read" => holdout[call[p].holdout].status = "SPENT"

VaultInv == VaultTypes /\ CallsKnow /\ Vault!ShownIsKept

LEMMA VaultInit == Vault!Init => VaultInv
BY DEF Vault!Init, VaultInv, VaultTypes, VaultRow, VaultCall, CallsKnow, Vault!ShownIsKept,
   Vault!NoRow, Vault!NoCall

LEMMA VaultNothing ==
    /\ Vault!NoRow \in VaultRow /\ Vault!NoRow.status = "none"
    /\ Vault!NoCall \in VaultCall /\ Vault!NoCall.at = "idle"
BY DEF VaultRow, VaultCall, Vault!NoRow, Vault!NoCall

\* A step that leaves alone what is spent and what was shown.
LEMMA VaultFrame ==
    ASSUME VaultInv, VaultTypes', CallsKnow', shown' = shown,
           \A h \in Holdout : holdout[h].status = "SPENT" => holdout'[h] = holdout[h]
    PROVE  VaultInv'
BY DEF VaultInv, VaultTypes, Vault!ShownIsKept

LEMMA VaultHoldouts ==
    ASSUME VaultInv, NEW h \in Holdout,
           \/ \E id \in Vault!Identity : Vault!ReserveHoldout(h, id)
           \/ Vault!InvalidateHoldout(h)
    PROVE  VaultInv'
<1>1. PICK row \in VaultRow : holdout' = [holdout EXCEPT ![h] = row]
  <2>1. ASSUME NEW id \in Vault!Identity, Vault!ReserveHoldout(h, id)
        PROVE  \E row \in VaultRow : holdout' = [holdout EXCEPT ![h] = row]
    <3>1. [Vault!NoRow EXCEPT !.status = "BLIND_RESERVED", !.identity = id] \in VaultRow
      BY VaultNothing DEF VaultRow
    <3>. QED
      BY <2>1, <3>1 DEF Vault!ReserveHoldout
  <2>2. CASE Vault!InvalidateHoldout(h)
    <3>1. [holdout[h] EXCEPT !.status = "INVALIDATED"] \in VaultRow
      BY DEF VaultInv, VaultTypes, VaultRow
    <3>2. holdout' = [holdout EXCEPT ![h] = [holdout[h] EXCEPT !.status = "INVALIDATED"]]
      BY <2>2 DEF Vault!InvalidateHoldout
    <3>. QED
      BY <3>1, <3>2
  <2>. QED
    BY <2>1, <2>2
<1>2. holdout[h].status # "SPENT" /\ UNCHANGED <<call, shown>>
  BY VaultNothing DEF Vault!ReserveHoldout, Vault!InvalidateHoldout
<1>3. VaultTypes' /\ \A g \in Holdout : holdout[g].status = "SPENT" => holdout'[g] = holdout[g]
  BY <1>1, <1>2 DEF VaultInv, VaultTypes
<1>4. CallsKnow'
  BY <1>2, <1>3 DEF VaultInv, CallsKnow
<1>. QED
  BY <1>2, <1>3, <1>4, VaultFrame

LEMMA VaultCalls ==
    ASSUME VaultInv, NEW p \in Process,
           \/ \E h \in Holdout : Vault!BeginEvaluation(p, h)
           \/ Vault!Evaluate(p) \/ Vault!CommitResult(p) \/ Vault!ReadResult(p)
    PROVE  VaultInv'
<1>0. VaultTypes /\ call[p] \in VaultCall
  BY DEF VaultInv, VaultTypes
<1>1. ASSUME NEW h \in Holdout, Vault!BeginEvaluation(p, h) PROVE VaultInv'
  <2>1. shown' = shown
    BY <1>1 DEF Vault!BeginEvaluation
  <2>. DEFINE begun(step) == [Vault!NoCall EXCEPT !.at = step, !.holdout = h]
              pending == [holdout[h] EXCEPT !.status = "PENDING"]
  <2>3. \A step \in {"evaluate", "read"} :
          begun(step) \in VaultCall /\ begun(step).at = step /\ begun(step).holdout = h
    BY VaultNothing DEF VaultCall
  <2>4. pending \in VaultRow
    BY <1>0 DEF VaultTypes, VaultRow
  <2>5. /\ holdout[h].status # "SPENT" => /\ holdout' = [holdout EXCEPT ![h] = pending]
                                          /\ call' = [call EXCEPT ![p] = begun("evaluate")]
        /\ holdout[h].status = "SPENT" => /\ holdout' = holdout
                                          /\ call' = [call EXCEPT ![p] = begun("read")]
    <3>1. [holdout EXCEPT ![h].status = "PENDING"] = [holdout EXCEPT ![h] = pending]
      OBVIOUS
    <3>. HIDE DEF pending
    <3>. QED
      BY <1>1, <3>1 DEF Vault!BeginEvaluation
  <2>. HIDE DEF begun, pending
  <2>6. VaultTypes' /\ \A g \in Holdout : holdout[g].status = "SPENT" => holdout'[g] = holdout[g]
    BY <1>0, <2>1, <2>3, <2>4, <2>5 DEF VaultTypes
  <2>7. CallsKnow'
    BY <1>0, <2>3, <2>5, <2>6 DEF VaultInv, VaultTypes, CallsKnow
  <2>. QED
    BY <2>1, <2>6, <2>7, VaultFrame
<1>2. CASE Vault!Evaluate(p)
  <2>1. UNCHANGED <<holdout, shown>>
    BY <1>2 DEF Vault!Evaluate
  <2>2. PICK c \in VaultCall :
          /\ call' = [call EXCEPT ![p] = c]
          /\ c.at \in {"commit", "idle"} /\ (c.at = "commit" => c.holdout \in Holdout)
    <3>1. ASSUME NEW r \in Result, call' = [call EXCEPT ![p].at = "commit", ![p].result = r]
          PROVE  \E c \in VaultCall :
                    /\ call' = [call EXCEPT ![p] = c]
                    /\ c.at \in {"commit", "idle"} /\ (c.at = "commit" => c.holdout \in Holdout)
      <4>. DEFINE c == [call[p] EXCEPT !.at = "commit", !.result = r]
      <4>1. call[p].holdout \in Holdout
        BY <1>2 DEF Vault!Evaluate, VaultInv, CallsKnow
      <4>2. c \in VaultCall /\ c.at = "commit" /\ c.holdout = call[p].holdout
        BY <1>0 DEF VaultCall
      <4>3. call' = [call EXCEPT ![p] = c]
        BY <1>0, <3>1 DEF VaultTypes
      <4>. QED
        BY <4>1, <4>2, <4>3
    <3>. QED
      BY <1>2, <3>1, VaultNothing DEF Vault!Evaluate
  <2>3. VaultTypes' /\ CallsKnow'
    BY <1>0, <2>1, <2>2 DEF VaultInv, VaultTypes, CallsKnow
  <2>. QED
    BY <2>1, <2>3, VaultFrame
<1>3. CASE Vault!CommitResult(p) /\ Vault!Available(call[p].holdout)
  <2>. DEFINE h == call[p].holdout
              row == [holdout[h] EXCEPT !.status = "SPENT", !.result = call[p].result]
  <2>1. /\ h \in Holdout /\ holdout[h].status = "PENDING"
        /\ holdout' = [holdout EXCEPT ![h].status = "SPENT", ![h].result = call[p].result]
        /\ shown' = shown \cup {<<h, call[p].result>>}
        /\ call' = [call EXCEPT ![p] = Vault!NoCall]
    BY <1>3 DEF Vault!CommitResult, Vault!Available, VaultInv, CallsKnow
  <2>2. call[p].result \in Result \cup {Nothing}
    BY <1>0 DEF VaultCall
  <2>3. row \in VaultRow /\ row.status = "SPENT" /\ row.result = call[p].result
    BY <1>0, <2>1, <2>2 DEF VaultTypes, VaultRow
  <2>4. holdout' = [holdout EXCEPT ![h] = row]
    BY <1>0, <2>1 DEF VaultTypes
  <2>. HIDE DEF h, row
  <2>5. VaultTypes'
    <3>1. holdout' \in [Holdout -> VaultRow] /\ call' \in [Process -> VaultCall]
      BY <1>0, <2>1, <2>3, <2>4, VaultNothing DEF VaultTypes
    <3>2. shown' \subseteq Holdout \X (Result \cup {Nothing})
      BY <1>0, <2>1, <2>2 DEF VaultTypes
    <3>. QED
      BY <3>1, <3>2 DEF VaultTypes
  <2>6. CallsKnow'
    BY <1>0, <2>1, <2>3, <2>4, VaultNothing DEF VaultInv, VaultTypes, CallsKnow
  <2>7. Vault!ShownIsKept'
    <3>1. \A x \in shown : x[1] \in Holdout /\ x[1] # h
      BY <1>0, <2>1 DEF VaultInv, VaultTypes, Vault!ShownIsKept
    <3>. QED
      BY <1>0, <2>1, <2>3, <2>4, <3>1 DEF VaultInv, VaultTypes, Vault!ShownIsKept
  <2>. QED
    BY <2>5, <2>6, <2>7 DEF VaultInv
<1>4. CASE Vault!CommitResult(p) /\ ~Vault!Available(call[p].holdout)
  <2>1. UNCHANGED <<holdout, shown>> /\ call' = [call EXCEPT ![p] = Vault!NoCall]
    BY <1>4 DEF Vault!CommitResult
  <2>2. VaultTypes' /\ CallsKnow'
    BY <1>0, <2>1, VaultNothing DEF VaultInv, VaultTypes, CallsKnow
  <2>. QED
    BY <2>1, <2>2, VaultFrame
<1>5. CASE Vault!ReadResult(p)
  <2>. DEFINE h == call[p].holdout
  <2>1. /\ h \in Holdout /\ holdout[h].status = "SPENT" /\ holdout' = holdout
        /\ shown' = shown \cup {<<h, holdout[h].result>>}
        /\ call' = [call EXCEPT ![p] = Vault!NoCall]
    BY <1>5 DEF Vault!ReadResult, VaultInv, CallsKnow
  <2>2. holdout[h].result \in Result \cup {Nothing}
    BY <1>0, <2>1 DEF VaultTypes, VaultRow
  <2>. HIDE DEF h
  <2>3. VaultTypes' /\ CallsKnow' /\ Vault!ShownIsKept'
    BY <1>0, <2>1, <2>2, VaultNothing DEF VaultInv, VaultTypes, CallsKnow, Vault!ShownIsKept
  <2>. QED
    BY <2>3 DEF VaultInv
<1>. QED
  BY <1>1, <1>2, <1>3, <1>4, <1>5

LEMMA VaultStep == VaultInv /\ [Vault!Next]_(Vault!vars) => VaultInv'
<1>. SUFFICES ASSUME VaultInv, [Vault!Next]_(Vault!vars) PROVE VaultInv'
  OBVIOUS
<1>1. CASE UNCHANGED <<holdout, call, shown>>
  BY <1>1 DEF VaultInv, VaultTypes, CallsKnow, Vault!ShownIsKept
<1>2. CASE Vault!Crash
  <2>1. /\ UNCHANGED <<holdout, shown>>
        /\ call' = call \/ \E p \in Process : call' = [call EXCEPT ![p] = Vault!NoCall]
    BY <1>2 DEF Vault!Crash
  <2>2. VaultTypes' /\ CallsKnow'
    BY <2>1, VaultNothing DEF VaultInv, VaultTypes, CallsKnow
  <2>. QED
    BY <2>1, <2>2, VaultFrame
<1>3. ASSUME \/ \E d \in Dataset : Vault!RegisterSeen(d) \/ Vault!ReserveBlind(d)
             \/ \E f \in Policy : Vault!Approve(f) \/ \E o \in Operator : Vault!FreezeTransition(o, f)
             \/ \E o \in Operator : Vault!FreezeSeal(o)
             \/ UNCHANGED Vault!vars
      PROVE  UNCHANGED <<holdout, call, shown>>
  BY <1>3 DEF Vault!RegisterSeen, Vault!ReserveBlind, Vault!Approve, Vault!FreezeTransition,
              Vault!FreezeSeal, Vault!vars, Vault!holdouts
<1>. QED
  BY <1>1, <1>2, <1>3, VaultHoldouts, VaultCalls DEF Vault!Next

\* A policy that verified is sealed with its fingerprint.
LEMMA SealStays ==
    ASSUME NEW f \in Policy, Vault!Verified(f), [Vault!Next]_(Vault!vars)
    PROVE  Vault!Verified(f)' /\ \A g \in Policy \ {f} : ~Vault!Verified(g)
<1>1. chain # <<>> /\ ~Vault!MayFreeze /\ seal = f /\ f # Nothing
  <2>1. chain = <<Vault!Entry("APPROVED", f), Vault!Entry("FROZEN", f)>> /\ seal = f
    BY DEF Vault!Verified
  <2>2. Len(chain) = 2 /\ chain[2].state = "FROZEN"
    BY <2>1 DEF Vault!Entry
  <2>3. f # Nothing
    BY ToolsAssumption DEF Vault!SealingAssumption
  <2>. QED
    BY <2>1, <2>2, <2>3 DEF Vault!MayFreeze, Vault!Last
<1>2. UNCHANGED <<chain, seal>>
  <2>1. ASSUME NEW d \in Dataset, Vault!RegisterSeen(d) \/ Vault!ReserveBlind(d)
        PROVE  UNCHANGED <<chain, seal>>
    BY <2>1 DEF Vault!RegisterSeen, Vault!ReserveBlind, Vault!policies
  <2>2. ASSUME NEW h \in Holdout,
               \/ \E id \in Vault!Identity : Vault!ReserveHoldout(h, id)
               \/ Vault!InvalidateHoldout(h)
        PROVE  UNCHANGED <<chain, seal>>
    BY <2>2 DEF Vault!ReserveHoldout, Vault!InvalidateHoldout, Vault!policies
  <2>3. ASSUME NEW p \in Process,
               \/ \E h \in Holdout : Vault!BeginEvaluation(p, h)
               \/ Vault!Evaluate(p) \/ Vault!CommitResult(p) \/ Vault!ReadResult(p)
        PROVE  UNCHANGED <<chain, seal>>
    <3>1. UNCHANGED Vault!policies
      <4>1. ASSUME NEW h \in Holdout, Vault!BeginEvaluation(p, h) PROVE UNCHANGED Vault!policies
        BY <4>1 DEF Vault!BeginEvaluation
      <4>2. CASE Vault!Evaluate(p)
        BY <4>2 DEF Vault!Evaluate
      <4>3. CASE Vault!CommitResult(p) \/ Vault!ReadResult(p)
        BY <4>3 DEF Vault!CommitResult, Vault!ReadResult
      <4>. QED
        BY <2>3, <4>1, <4>2, <4>3
    <3>. QED
      BY <3>1 DEF Vault!policies
  <2>4. ASSUME NEW g \in Policy PROVE ~Vault!Approve(g)
    BY <1>1 DEF Vault!Approve
  <2>5. ASSUME NEW o \in Operator, NEW g \in Policy PROVE ~Vault!FreezeTransition(o, g)
    BY <1>1 DEF Vault!FreezeTransition
  <2>6. ASSUME NEW o \in Operator, Vault!FreezeSeal(o) PROVE UNCHANGED <<chain, seal>>
    BY <1>1, <2>6 DEF Vault!FreezeSeal
  <2>7. CASE Vault!Crash
    BY <2>7 DEF Vault!Crash
  <2>8. CASE UNCHANGED Vault!vars
    BY <2>8 DEF Vault!vars
  <2>. QED
    BY <2>1, <2>2, <2>3, <2>4, <2>5, <2>6, <2>7, <2>8 DEF Vault!Next
<1>. QED
  BY <1>1, <1>2 DEF Vault!Verified

\* Every result of a holdout ever returned is the one it kept, and a policy
\* that verified once verifies for good with that fingerprint alone
\* (governance_store.py evaluate_holdout, quant_policy.py freeze).
THEOREM SealsAreKept == ToolsSpec => SealsHold
<1>1. ToolsInit => VaultInv
  BY VaultInit DEF ToolsInit
<1>2. [ToolsNext]_toolVars => [Vault!Next]_(Vault!vars) \/ UNCHANGED vault
  BY DEF ToolsNext, Deploying, Recovering, OpeningStore, Searching, Sealed, Collecting,
         CuttingOver, toolVars
<1>3. VaultInv /\ [ToolsNext]_toolVars => VaultInv'
  <2>1. VaultInv /\ UNCHANGED vault => VaultInv'
    BY DEF vault, VaultInv, VaultTypes, CallsKnow, Vault!ShownIsKept
  <2>. QED
    BY <1>2, <2>1, VaultStep
<1>4. VaultInv /\ [ToolsNext]_toolVars
        => [/\ Vault!ShownIsKept'
            /\ \A f \in Policy :
                  Vault!Verified(f) => Vault!Verified(f)' /\ \A g \in Policy \ {f} : ~Vault!Verified(g)]_(Vault!vars)
  <2>. SUFFICES ASSUME VaultInv, [ToolsNext]_toolVars
                PROVE  /\ Vault!ShownIsKept'
                       /\ \A f \in Policy :
                            Vault!Verified(f) => Vault!Verified(f)' /\ \A g \in Policy \ {f} : ~Vault!Verified(g)
    OBVIOUS
  <2>1. Vault!ShownIsKept'
    BY <1>3 DEF VaultInv
  <2>2. ASSUME NEW f \in Policy, Vault!Verified(f)
        PROVE  Vault!Verified(f)' /\ \A g \in Policy \ {f} : ~Vault!Verified(g)
    <3>1. CASE [Vault!Next]_(Vault!vars)
      BY <2>2, <3>1, SealStays
    <3>2. CASE UNCHANGED vault
      BY <2>2, <3>2 DEF vault, Vault!Verified
    <3>. QED
      BY <1>2, <3>1, <3>2
  <2>. QED
    BY <2>1, <2>2
<1>. QED
  BY <1>1, <1>3, <1>4, PTL DEF ToolsSpec, SealsHold, Vault!SealsHold

(***************************************************************************)
(* WalkForward.                                                            *)
(***************************************************************************)

SearchRow == [status : {"none", "RESERVED", "RUNNING", "SUCCEEDED", "FAILED"}, score : Nat]
SearchMemory ==
    [at : {"idle", "reserve", "start", "replay", "evaluate", "finish", "aborted", "done"},
     fold : Search!Fold, left : SUBSET Candidate, outcome : Nat,
     ranked : SUBSET (Nat \X Candidate), recorded : Nat, known : SUBSET Candidate, clean : BOOLEAN]
Selection == [score : Nat, candidate : Nat, known : SUBSET Candidate, clean : BOOLEAN]

SearchTypes ==
    /\ budget \in Nat /\ trial \in [Search!Trials -> SearchRow]
    /\ run \in [Run -> SearchMemory]
    /\ selected \in [Run -> [Search!Fold -> Selection]]
    /\ evaluated \in [Search!Trials -> Nat]

Least(S) == CHOOSE c \in S : \A d \in S : c <= d
TrialOf(m) == <<Least(m.left), m.fold>>

\* What a run holds agrees with the rows, and misses no success it knew.
SearchJust(m, rows_) ==
    /\ \A x \in m.ranked : rows_[<<x[2], m.fold>>] = Search!Row("SUCCEEDED", x[1])
    /\ \A c \in m.known : rows_[<<c, m.fold>>].status = "SUCCEEDED"
    /\ m.clean => \A c \in m.known : c \in m.left \/ <<rows_[<<c, m.fold>>].score, c>> \in m.ranked
    /\ m.at \in {"start", "replay", "evaluate", "finish"} => m.left # {}

RunsJust == \A r \in Run : SearchJust(run[r], trial)

\* A trial that is being evaluated belongs to one run.
Owning == {"start", "evaluate", "finish"}
TrialsOwned ==
    /\ \A r \in Run :
         /\ run[r].at = "start" => trial[TrialOf(run[r])].status = "RESERVED"
         /\ run[r].at \in {"evaluate", "finish"} => trial[TrialOf(run[r])].status = "RUNNING"
         /\ run[r].at \in {"start", "evaluate"} => evaluated[TrialOf(run[r])] = 0
    /\ \A r, q \in Run :
         r # q /\ run[r].at \in Owning /\ run[q].at \in Owning => TrialOf(run[r]) # TrialOf(run[q])

RowsNamed ==
    /\ \A t \in Search!Trials : trial[t].status = "none" => trial[t] = Search!NoRow /\ evaluated[t] = 0
    /\ IsFiniteSet(Search!Reserved)

SelectionsKnown ==
    \A r \in Run, f \in Search!Fold :
        /\ \A c \in selected[r][f].known : trial[<<c, f>>].status = "SUCCEEDED"
        /\ selected[r][f] # Search!NoSelection => selected[r][f].candidate \in Candidate

SearchInv == SearchTypes /\ RunsJust /\ TrialsOwned /\ RowsNamed /\ SelectionsKnown /\ SearchIsJust

LEMMA LeastIs ==
    ASSUME NEW S, S \subseteq Nat, S # {}
    PROVE  Least(S) \in S /\ \A d \in S : Least(S) <= d
<1>. DEFINE R == {ss \in Nat \X Nat : ss[1] < ss[2]}
<1>1. IsWellFoundedOn(R, Nat)
  BY NatLessThanWellFounded DEF OpToRel
<1>2. PICK c \in S : \A d \in S : ~(<<d, c>> \in R)
  <2>. HIDE DEF R
  <2>. QED
    BY <1>1, WFMin
<1>3. ASSUME NEW d \in S PROVE c <= d
  <2>1. c \in Nat /\ d \in Nat
    OBVIOUS
  <2>2. ~(<<d, c>> \in R)
    BY <1>2
  <2>. QED
    BY <2>1, <2>2
<1>. QED
  BY <1>3 DEF Least

LEMMA SearchConstants == Candidate \subseteq Nat /\ Score \subseteq Nat \ {0} /\ Budgets \subseteq Nat
                         /\ LastFold \in Nat \ {0} /\ 1 \in Search!Fold /\ LastFold \in Search!Fold
BY ToolsAssumption DEF Search!WalkForwardAssumption, Search!Fold

LEMMA CurrentIs ==
    /\ \A m : Search!Current(m) = Least(m.left)
    /\ \A r : Search!Now(r) = TrialOf(run[r])
BY DEF Search!Current, Search!Now, Least, TrialOf

LEMMA TrialIs ==
    ASSUME NEW m \in SearchMemory, m.left # {}
    PROVE  Least(m.left) \in m.left /\ Least(m.left) \in Candidate /\ TrialOf(m) \in Search!Trials
<1>1. m.left \subseteq Candidate /\ m.fold \in Search!Fold
  BY DEF SearchMemory
<1>. QED
  BY <1>1, LeastIs, SearchConstants DEF TrialOf, Search!Trials

\* What a run keeps of its memory at each of its steps.
LEMMA IdleIs ==
    LET step == {"idle", "aborted", "done"}
        m(s) == IF s = "idle" THEN Search!Idle ELSE [Search!Idle EXCEPT !.at = s]
    IN  \A s \in step : /\ m(s) \in SearchMemory /\ m(s).at = s
                        /\ m(s).left = {} /\ m(s).ranked = {} /\ m(s).known = {} /\ m(s).recorded = 0
BY SearchConstants DEF SearchMemory, Search!Idle

\* What the instance counts is what this module counts.
LEMMA SearchCounts == \A S : Search!Cardinality(S) = Cardinality(S)
BY DEF Search!Cardinality, Cardinality

LEMMA GoesTo ==
    ASSUME NEW m \in SearchMemory, NEW step \in {"start", "replay", "evaluate", "finish"}, NEW k \in Nat
    PROVE  /\ LET n == [m EXCEPT !.at = step]
              IN  /\ n \in SearchMemory /\ n.at = step /\ n.fold = m.fold /\ n.left = m.left
                  /\ n.ranked = m.ranked /\ n.known = m.known /\ n.clean = m.clean
           /\ LET n == [m EXCEPT !.at = step, !.outcome = k]
              IN  /\ n \in SearchMemory /\ n.at = step /\ n.fold = m.fold /\ n.left = m.left
                  /\ n.ranked = m.ranked /\ n.known = m.known /\ n.clean = m.clean
BY DEF SearchMemory

LEMMA InFoldIs ==
    ASSUME NEW m \in SearchMemory, NEW f \in Search!Fold
    PROVE  LET n == Search!InFold(m, f)
           IN  /\ n \in SearchMemory /\ n.at = "reserve" /\ n.fold = f /\ n.left = Candidate
               /\ n.ranked = {} /\ n.known = Search!SucceededIn(f) /\ n.clean = m.clean
<1>1. Search!SucceededIn(f) \subseteq Candidate
  BY DEF Search!SucceededIn
<1>. QED
  BY <1>1 DEF SearchMemory, Search!InFold

LEMMA NotedIs ==
    ASSUME NEW m \in SearchMemory, NEW more \in SUBSET (Nat \X Candidate),
           budget \in Nat, m.recorded < budget
    PROVE  LET n == Search!Noted(m, more)
           IN  /\ n \in SearchMemory /\ n.at = "reserve" /\ n.fold = m.fold
               /\ n.left = m.left \ {Least(m.left)} /\ n.ranked = m.ranked \cup more
               /\ n.known = m.known /\ n.clean = m.clean
<1>. DEFINE l == m.left \ {Least(m.left)}
            k == m.ranked \cup more
            c == m.recorded + 1
<1>1. l \in SUBSET Candidate /\ k \in SUBSET (Nat \X Candidate) /\ c \in Nat
  BY DEF SearchMemory
<1>2. ~(m.recorded >= budget)
  BY DEF SearchMemory
<1>3. Search!Noted(m, more) = [m EXCEPT !.at = "reserve", !.recorded = c, !.ranked = k, !.left = l, !.outcome = 0]
  BY <1>2, CurrentIs DEF Search!Noted, SearchMemory
<1>. HIDE DEF l, k, c
<1>4. LET n == [m EXCEPT !.at = "reserve", !.recorded = c, !.ranked = k, !.left = l, !.outcome = 0]
      IN  /\ n \in SearchMemory /\ n.at = "reserve" /\ n.fold = m.fold
          /\ n.left = l /\ n.ranked = k /\ n.known = m.known /\ n.clean = m.clean
  BY <1>1 DEF SearchMemory
<1>. QED
  BY <1>3, <1>4 DEF l, k
\* The candidate at hand leaves the fold, ranked if its trial had succeeded.
LEMMA NotedJust ==
    ASSUME NEW m \in SearchMemory, NEW rows_, NEW more \in SUBSET (Nat \X Candidate), budget \in Nat,
           SearchJust(m, rows_),
           \A x \in more : rows_[<<x[2], m.fold>>] = Search!Row("SUCCEEDED", x[1]),
           m.clean /\ Least(m.left) \in m.known
              => <<rows_[<<Least(m.left), m.fold>>].score, Least(m.left)>> \in more
    PROVE  LET n == Search!Noted(m, more)
           IN  n \in SearchMemory /\ SearchJust(n, rows_) /\ n.at \in {"reserve", "aborted"}
<1>. DEFINE n == Search!Noted(m, more)
<1>1. CASE m.recorded < budget
  <2>1. /\ n \in SearchMemory /\ n.at = "reserve" /\ n.fold = m.fold
        /\ n.left = m.left \ {Least(m.left)} /\ n.ranked = m.ranked \cup more
        /\ n.known = m.known /\ n.clean = m.clean
    BY <1>1, NotedIs
  <2>. HIDE DEF n
  <2>2. SearchJust(n, rows_)
    BY <2>1 DEF SearchJust
  <2>. QED
    BY <2>1, <2>2 DEF n
<1>2. CASE ~(m.recorded < budget)
  <2>1. n = [Search!Idle EXCEPT !.at = "aborted"]
    BY <1>2 DEF Search!Noted, SearchMemory
  <2>2. n \in SearchMemory /\ n.at = "aborted" /\ n.left = {} /\ n.ranked = {} /\ n.known = {}
    BY <2>1, IdleIs
  <2>. HIDE DEF n
  <2>3. SearchJust(n, rows_)
    BY <2>2 DEF SearchJust
  <2>. QED
    BY <2>2, <2>3 DEF n
<1>. QED
  BY <1>1, <1>2

\* A success is never touched again: what relied on it still holds.
LEMMA SuccessesStay ==
    ASSUME SearchInv, NEW rows_,
           \A t \in Search!Trials : trial[t].status = "SUCCEEDED" => rows_[t] = trial[t]
    PROVE  \A q \in Run : SearchJust(run[q], rows_)
<1>. SUFFICES ASSUME NEW q \in Run PROVE SearchJust(run[q], rows_)
  OBVIOUS
<1>. DEFINE m == run[q]
<1>1. m \in SearchMemory /\ SearchJust(m, trial)
  BY DEF SearchInv, SearchTypes, RunsJust
<1>. HIDE DEF m
<1>2. ASSUME NEW c \in Candidate, trial[<<c, m.fold>>].status = "SUCCEEDED"
      PROVE  rows_[<<c, m.fold>>] = trial[<<c, m.fold>>]
  BY <1>1, <1>2 DEF SearchMemory, Search!Trials
<1>3. m.known \subseteq Candidate /\ \A x \in m.ranked : x[2] \in Candidate
  BY <1>1 DEF SearchMemory
<1>4. ASSUME NEW x \in m.ranked PROVE rows_[<<x[2], m.fold>>] = Search!Row("SUCCEEDED", x[1])
  <2>1. trial[<<x[2], m.fold>>] = Search!Row("SUCCEEDED", x[1])
    BY <1>1 DEF SearchJust
  <2>2. trial[<<x[2], m.fold>>].status = "SUCCEEDED"
    BY <2>1 DEF Search!Row
  <2>. QED
    BY <1>2, <1>3, <2>1, <2>2
<1>5. SearchJust(m, rows_)
  BY <1>1, <1>2, <1>3, <1>4 DEF SearchJust
<1>. QED
  BY <1>5 DEF m

LEMMA SelectionsStay ==
    ASSUME SearchInv, selected' = selected,
           \A t \in Search!Trials : trial[t].status = "SUCCEEDED" => trial'[t] = trial[t]
    PROVE  SelectionsKnown' /\ Search!SelectionIsJust'
<1>. SUFFICES ASSUME NEW r \in Run, NEW f \in Search!Fold
     PROVE  LET s == selected[r][f] IN
            /\ \A c \in s.known : trial'[<<c, f>>].status = "SUCCEEDED"
            /\ s # Search!NoSelection =>
                  /\ s.candidate \in Candidate
                  /\ trial'[<<s.candidate, f>>] = Search!Row("SUCCEEDED", s.score)
                  /\ s.clean => \A c \in s.known :
                        Search!Above(<<s.score, s.candidate>>, <<trial'[<<c, f>>].score, c>>)
  BY DEF SelectionsKnown, Search!SelectionIsJust
<1>. DEFINE s == selected[r][f]
<1>1. /\ \A c \in s.known : trial[<<c, f>>].status = "SUCCEEDED"
      /\ s # Search!NoSelection =>
            /\ s.candidate \in Candidate
            /\ trial[<<s.candidate, f>>] = Search!Row("SUCCEEDED", s.score)
            /\ s.clean => \A c \in s.known :
                  Search!Above(<<s.score, s.candidate>>, <<trial[<<c, f>>].score, c>>)
  BY DEF SearchInv, SelectionsKnown, SearchIsJust, Search!SearchIsJust, Search!SelectionIsJust
<1>2. s.known \subseteq Candidate
  BY DEF SearchInv, SearchTypes, Selection
<1>. HIDE DEF s
<1>3. \A c \in Candidate : trial[<<c, f>>].status = "SUCCEEDED" => trial'[<<c, f>>] = trial[<<c, f>>]
  BY DEF Search!Trials
<1>4. s # Search!NoSelection => trial[<<s.candidate, f>>].status = "SUCCEEDED"
  BY <1>1 DEF Search!Row
<1>5. /\ \A c \in s.known : trial'[<<c, f>>].status = "SUCCEEDED"
      /\ s # Search!NoSelection =>
            /\ s.candidate \in Candidate
            /\ trial'[<<s.candidate, f>>] = Search!Row("SUCCEEDED", s.score)
            /\ s.clean => \A c \in s.known :
                  Search!Above(<<s.score, s.candidate>>, <<trial'[<<c, f>>].score, c>>)
  BY <1>1, <1>2, <1>3, <1>4
<1>. QED
  BY <1>5 DEF s

\* A run that moves without owning a trial leaves the rows as they are.
LEMMA SearchMoves ==
    ASSUME SearchInv, NEW r \in Run, NEW m \in SearchMemory, SearchJust(m, trial), m.at \notin Owning,
           run' = [run EXCEPT ![r] = m], UNCHANGED <<budget, trial, evaluated>>,
           selected' \in [Run -> [Search!Fold -> Selection]], SelectionsKnown', Search!SelectionIsJust'
    PROVE  SearchInv'
<1>1. SearchTypes' /\ (\A q \in Run : run'[q] = IF q = r THEN m ELSE run[q])
  BY DEF SearchInv, SearchTypes
<1>2. RunsJust'
  BY <1>1 DEF SearchInv, RunsJust
<1>3. TrialsOwned'
  BY <1>1 DEF SearchInv, TrialsOwned, Owning
<1>4. RowsNamed' /\ Search!EvaluatedOnce'
  BY DEF SearchInv, RowsNamed, SearchIsJust, Search!SearchIsJust, Search!EvaluatedOnce,
         Search!Reserved
<1>. QED
  BY <1>1, <1>2, <1>3, <1>4 DEF SearchInv, SearchIsJust, Search!SearchIsJust
\* What a run selects, it begins or it drops.
LEMMA SearchSelects ==
    ASSUME SearchInv, NEW r \in Run, Search!Select(r)
    PROVE  SearchInv'
<1>. DEFINE m == run[r]
            f == m.fold
<1>1. /\ m.left = {} /\ UNCHANGED <<budget, trial, evaluated>>
      /\ m \in SearchMemory /\ SearchJust(m, trial) /\ f \in Search!Fold
  BY DEF Search!Select, Search!store, SearchInv, SearchTypes, RunsJust, SearchMemory
<1>2. PICK best \in m.ranked :
        /\ \A x \in m.ranked : Search!Above(best, x)
        /\ selected' = [selected EXCEPT ![r][f] =
              [score |-> best[1], candidate |-> best[2], known |-> m.known, clean |-> m.clean]]
  BY DEF Search!Select
<1>3. best \in Nat \X Candidate /\ m.known \subseteq Candidate /\ m.clean \in BOOLEAN
  BY <1>1 DEF SearchMemory
<1>. DEFINE s == [score |-> best[1], candidate |-> best[2], known |-> m.known, clean |-> m.clean]
<1>4. s \in Selection /\ s.candidate \in Candidate
  BY <1>3, SearchConstants DEF Selection
<1>5. /\ \A c \in s.known : trial[<<c, f>>].status = "SUCCEEDED"
      /\ trial[<<s.candidate, f>>] = Search!Row("SUCCEEDED", s.score)
      /\ s.clean => \A c \in s.known : Search!Above(<<s.score, s.candidate>>, <<trial[<<c, f>>].score, c>>)
  <2>1. best = <<s.score, s.candidate>>
    BY <1>3
  <2>. QED
    BY <1>1, <1>2, <2>1 DEF SearchJust
<1>6. selected' = [selected EXCEPT ![r] = [selected[r] EXCEPT ![f] = s]]
  BY <1>2
<1>. HIDE DEF s
<1>7. /\ selected' \in [Run -> [Search!Fold -> Selection]]
      /\ \A q \in Run, g \in Search!Fold : selected'[q][g] = IF q = r /\ g = f THEN s ELSE selected[q][g]
  BY <1>1, <1>4, <1>6 DEF SearchInv, SearchTypes
<1>8. SelectionsKnown' /\ Search!SelectionIsJust'
  <2>. SUFFICES ASSUME NEW q \in Run, NEW g \in Search!Fold
       PROVE  LET z == selected'[q][g] IN
              /\ \A c \in z.known : trial[<<c, g>>].status = "SUCCEEDED"
              /\ z # Search!NoSelection =>
                    /\ z.candidate \in Candidate
                    /\ trial[<<z.candidate, g>>] = Search!Row("SUCCEEDED", z.score)
                    /\ z.clean => \A c \in z.known :
                          Search!Above(<<z.score, z.candidate>>, <<trial[<<c, g>>].score, c>>)
    BY <1>1 DEF SelectionsKnown, Search!SelectionIsJust
  <2>1. CASE q = r /\ g = f
    <3>1. selected'[q][g] = s
      BY <1>7, <2>1
    <3>. QED
      BY <1>4, <1>5, <2>1, <3>1
  <2>2. CASE ~(q = r /\ g = f)
    <3>1. selected'[q][g] = selected[q][g]
      BY <1>7, <2>2
    <3>. QED
      BY <3>1 DEF SelectionsKnown, Search!SelectionIsJust, SearchInv, SearchIsJust, Search!SearchIsJust
  <2>. QED
    BY <2>1, <2>2
<1>9. PICK n \in SearchMemory : /\ run' = [run EXCEPT ![r] = n] /\ n.at \in {"done", "reserve"}
                               /\ SearchJust(n, trial)
  <2>1. CASE f = LastFold
    <3>. DEFINE n == [Search!Idle EXCEPT !.at = "done"]
    <3>1. n \in SearchMemory /\ n.at = "done" /\ n.left = {} /\ n.ranked = {} /\ n.known = {}
      BY IdleIs
    <3>2. run' = [run EXCEPT ![r] = n]
      BY <2>1 DEF Search!Select, Search!Memory
    <3>. HIDE DEF n
    <3>3. SearchJust(n, trial)
      BY <3>1 DEF SearchJust
    <3>. QED
      BY <3>1, <3>2, <3>3
  <2>2. CASE f # LastFold
    <3>. DEFINE n == Search!InFold(m, f + 1)
    <3>0. f + 1 \in Search!Fold
      BY <1>1, <2>2, SearchConstants DEF Search!Fold
    <3>1. /\ n \in SearchMemory /\ n.at = "reserve" /\ n.fold = f + 1 /\ n.left = Candidate
          /\ n.ranked = {} /\ n.known = Search!SucceededIn(f + 1)
      BY <1>1, <3>0, InFoldIs
    <3>2. run' = [run EXCEPT ![r] = n]
      BY <2>2 DEF Search!Select, Search!Memory
    <3>. HIDE DEF n
    <3>3. SearchJust(n, trial)
      BY <3>1 DEF SearchJust, Search!SucceededIn
    <3>. QED
      BY <3>1, <3>2, <3>3
  <2>. QED
    BY <2>1, <2>2
<1>. QED
  BY <1>1, <1>7, <1>8, <1>9, SearchMoves DEF Owning

\* The other steps of a run that evaluates nothing.
LEMMA SearchPasses ==
    ASSUME SearchInv, NEW r \in Run,
           \/ Search!Begin(r) \/ Search!NothingRanked(r) \/ Search!RefuseBudget(r)
           \/ Search!Reproduce(r) \/ Search!Replay(r) \/ Search!StoreRaises(r) \/ Search!Crash(r)
    PROVE  SearchInv'
<1>. DEFINE m == run[r]
<1>0. /\ m \in SearchMemory /\ SearchJust(m, trial) /\ budget \in Nat
      /\ SelectionsKnown /\ Search!SelectionIsJust /\ selected \in [Run -> [Search!Fold -> Selection]]
  BY DEF SearchInv, SearchTypes, RunsJust, SearchIsJust, Search!SearchIsJust
<1>1. UNCHANGED <<budget, trial, evaluated>>
  BY DEF Search!Begin, Search!NothingRanked, Search!RefuseBudget, Search!Reproduce, Search!Replay,
         Search!StoreRaises, Search!Crash, Search!store
<1>2. /\ selected' \in [Run -> [Search!Fold -> Selection]]
      /\ SelectionsKnown' /\ Search!SelectionIsJust'
  <2>1. CASE selected' = selected
    BY <1>0, <1>1, <2>1 DEF SelectionsKnown, Search!SelectionIsJust
  <2>2. CASE Search!Crash(r)
    <3>1. selected' = [selected EXCEPT ![r] = [f \in Search!Fold |-> Search!NoSelection]]
      BY <2>2 DEF Search!Crash
    <3>2. Search!NoSelection \in Selection /\ Search!NoSelection.known = {}
      BY DEF Search!NoSelection, Selection
    <3>3. /\ selected' \in [Run -> [Search!Fold -> Selection]]
          /\ \A q \in Run, g \in Search!Fold :
               selected'[q][g] = IF q = r THEN Search!NoSelection ELSE selected[q][g]
      BY <1>0, <3>1, <3>2
    <3>. QED
      BY <1>0, <1>1, <3>2, <3>3 DEF SelectionsKnown, Search!SelectionIsJust
  <2>. QED
    BY <2>1, <2>2 DEF Search!Begin, Search!NothingRanked, Search!RefuseBudget, Search!Reproduce,
       Search!Replay, Search!StoreRaises
<1>3. \E n \in SearchMemory : /\ run' = [run EXCEPT ![r] = n] /\ n.at \notin Owning
                             /\ SearchJust(n, trial)
  <2>1. CASE Search!Begin(r)
    <3>. DEFINE n == Search!InFold(Search!Idle, 1)
    <3>1. Search!Idle \in SearchMemory
      BY IdleIs
    <3>2. /\ n \in SearchMemory /\ n.at = "reserve" /\ n.fold = 1 /\ n.left = Candidate
          /\ n.ranked = {} /\ n.known = Search!SucceededIn(1)
      BY <3>1, InFoldIs, SearchConstants
    <3>3. run' = [run EXCEPT ![r] = n]
      BY <2>1 DEF Search!Begin, Search!Memory
    <3>. HIDE DEF n
    <3>4. SearchJust(n, trial)
      BY <3>2 DEF SearchJust, Search!SucceededIn
    <3>. QED
      BY <3>2, <3>3, <3>4 DEF Owning
  <2>2. CASE Search!NothingRanked(r) \/ Search!Crash(r)
    <3>1. PICK n \in {Search!Idle, [Search!Idle EXCEPT !.at = "aborted"]} : run' = [run EXCEPT ![r] = n]
      BY <2>2 DEF Search!NothingRanked, Search!Crash, Search!Memory
    <3>2. n \in SearchMemory /\ n.at \in {"idle", "aborted"} /\ n.left = {} /\ n.ranked = {} /\ n.known = {}
      BY IdleIs
    <3>3. SearchJust(n, trial)
      BY <3>2 DEF SearchJust
    <3>. QED
      BY <3>1, <3>2, <3>3 DEF Owning
  <2>3. CASE Search!Reproduce(r)
    <3>. DEFINE n == [m EXCEPT !.at = "replay"]
    <3>1. /\ n \in SearchMemory /\ n.at = "replay" /\ n.fold = m.fold /\ n.left = m.left
          /\ n.ranked = m.ranked /\ n.known = m.known /\ n.clean = m.clean
      <4>1. m \in SearchMemory
        BY <1>0
      <4>. HIDE DEF m
      <4>. QED
        BY <4>1 DEF SearchMemory
    <3>2. run' = [run EXCEPT ![r] = n] /\ m.left # {}
      BY <2>3 DEF Search!Reproduce, Search!Goto, Search!Memory, Search!Trying
    <3>. HIDE DEF n
    <3>3. SearchJust(n, trial)
      BY <1>0, <3>1, <3>2 DEF SearchJust
    <3>. QED
      BY <3>1, <3>2, <3>3 DEF Owning
  <2>4. CASE Search!RefuseBudget(r) \/ (Search!Replay(r) /\ trial[Search!Now(r)].status # "SUCCEEDED")
    <3>1. m.left # {} /\ trial[TrialOf(m)].status # "SUCCEEDED"
      <4>1. CASE Search!RefuseBudget(r)
        <5>1. m.left # {} /\ Search!Now(r) \notin Search!Reserved
          BY <4>1 DEF Search!RefuseBudget, Search!Trying
        <5>2. TrialOf(m) \in Search!Trials
          BY <1>0, <5>1, TrialIs
        <5>. QED
          BY <5>1, <5>2, CurrentIs DEF Search!Reserved, Search!NoRow
      <4>2. CASE Search!Replay(r) /\ trial[Search!Now(r)].status # "SUCCEEDED"
        BY <1>0, <4>2, CurrentIs DEF Search!Replay, Search!At, SearchJust
      <4>. QED
        BY <2>4, <4>1, <4>2
    <3>2. Least(m.left) \notin m.known
      BY <1>0, <3>1 DEF SearchJust, TrialOf
    <3>3. run' = [run EXCEPT ![r] = Search!Noted(m, {})]
      BY <2>4 DEF Search!RefuseBudget, Search!Replay, Search!Drop, Search!Memory
    <3>4. LET n == Search!Noted(m, {})
          IN  n \in SearchMemory /\ SearchJust(n, trial) /\ n.at \in {"reserve", "aborted"}
      BY <1>0, <3>2, NotedJust
    <3>. QED
      BY <3>3, <3>4 DEF Owning
  <2>5. CASE Search!Replay(r) /\ trial[Search!Now(r)].status = "SUCCEEDED"
    <3>. DEFINE c == Least(m.left)
                more == {<<trial[Search!Now(r)].score, Search!Current(m)>>}
    <3>1. m.left # {}
      BY <1>0, <2>5 DEF Search!Replay, Search!At, SearchJust
    <3>2. c \in Candidate /\ <<c, m.fold>> \in Search!Trials /\ Search!Now(r) = <<c, m.fold>>
          /\ Search!Current(m) = c
      BY <1>0, <3>1, TrialIs, CurrentIs DEF TrialOf
    <3>3. trial[<<c, m.fold>>] \in SearchRow
      BY <3>2 DEF SearchInv, SearchTypes
    <3>4. trial[<<c, m.fold>>] = Search!Row("SUCCEEDED", trial[<<c, m.fold>>].score)
      BY <2>5, <3>2, <3>3 DEF SearchRow, Search!Row
    <3>5. more \in SUBSET (Nat \X Candidate)
      BY <3>2, <3>3 DEF SearchRow
    <3>6. run' = [run EXCEPT ![r] = Search!Noted(m, more)]
      BY <2>5 DEF Search!Replay, Search!Rank, Search!Memory
    <3>7. /\ \A x \in more : trial[<<x[2], m.fold>>] = Search!Row("SUCCEEDED", x[1])
          /\ <<trial[<<c, m.fold>>].score, c>> \in more
      BY <3>2, <3>4
    <3>. HIDE DEF more
    <3>8. LET n == Search!Noted(m, more)
          IN  n \in SearchMemory /\ SearchJust(n, trial) /\ n.at \in {"reserve", "aborted"}
      BY <1>0, <3>5, <3>7, NotedJust
    <3>. QED
      BY <3>6, <3>8 DEF Owning
  <2>6. CASE Search!StoreRaises(r)
    <3>. DEFINE k == [m EXCEPT !.clean = FALSE]
    <3>1. /\ k \in SearchMemory /\ k.at = m.at /\ k.fold = m.fold /\ k.left = m.left
          /\ k.ranked = m.ranked /\ k.known = m.known /\ ~k.clean
      BY <1>0 DEF SearchMemory
    <3>2. run' = [run EXCEPT ![r] = Search!Noted(k, {})]
      BY <2>6 DEF Search!StoreRaises, Search!Memory
    <3>. HIDE DEF k
    <3>3. SearchJust(k, trial)
      BY <1>0, <3>1 DEF SearchJust
    <3>4. LET n == Search!Noted(k, {})
          IN  n \in SearchMemory /\ SearchJust(n, trial) /\ n.at \in {"reserve", "aborted"}
      BY <1>0, <3>1, <3>3, NotedJust
    <3>. QED
      BY <3>2, <3>4 DEF Owning
  <2>. QED
    BY <2>1, <2>2, <2>3, <2>4, <2>5, <2>6
<1>. QED
  BY <1>0, <1>1, <1>2, <1>3, SearchMoves

\* A run that writes the row of the trial at hand, which no other run owns.
LEMMA SearchWrites ==
    ASSUME SearchInv, NEW r \in Run, NEW m \in SearchMemory, NEW row \in SearchRow,
           NEW t \in Search!Trials, row.status # "none", trial[t].status # "SUCCEEDED",
           trial' = [trial EXCEPT ![t] = row], run' = [run EXCEPT ![r] = m],
           UNCHANGED <<budget, selected, evaluated>>, SearchJust(m, trial'),
           m.at \in Owning => TrialOf(m) = t /\ evaluated[t] = 0,
           m.at = "start" => row.status = "RESERVED", m.at = "evaluate" => row.status = "RUNNING",
           m.at # "finish",
           \A q \in Run : q # r /\ run[q].at \in Owning => TrialOf(run[q]) # t,
           t \notin Search!Reserved => Cardinality(Search!Reserved) < budget
    PROVE  SearchInv'
<1>1. /\ SearchTypes'
      /\ \A q \in Run : run'[q] = IF q = r THEN m ELSE run[q]
      /\ \A u \in Search!Trials : trial'[u] = IF u = t THEN row ELSE trial[u]
  BY DEF SearchInv, SearchTypes
<1>2. RunsJust'
  <2>1. \A q \in Run : SearchJust(run[q], trial')
    BY <1>1, SuccessesStay
  <2>. QED
    BY <1>1, <2>1 DEF RunsJust
<1>3. TrialsOwned'
  <2>1. \A q \in Run : q # r /\ run[q].at \in Owning => TrialOf(run[q]) \in Search!Trials
    BY TrialIs DEF SearchInv, SearchTypes, RunsJust, SearchJust, Owning
  <2>. QED
    BY <1>1, <2>1 DEF SearchInv, TrialsOwned, Owning
<1>4. RowsNamed' /\ Search!EvaluatedOnce'
  <2>1. Search!Reserved' = Search!Reserved \cup {t}
    BY <1>1 DEF Search!Reserved, Search!NoRow
  <2>2. /\ IsFiniteSet(Search!Reserved) /\ Cardinality(Search!Reserved) <= budget /\ budget \in Nat
    BY SearchCounts DEF SearchInv, RowsNamed, SearchIsJust, Search!SearchIsJust, Search!EvaluatedOnce, SearchTypes
  <2>3. IsFiniteSet(Search!Reserved') /\ Cardinality(Search!Reserved') <= budget
    <3>1. IsFiniteSet(Search!Reserved') /\ Cardinality(Search!Reserved')
             = IF t \in Search!Reserved THEN Cardinality(Search!Reserved) ELSE Cardinality(Search!Reserved) + 1
      BY <2>1, <2>2, FS_AddElement
    <3>2. Cardinality(Search!Reserved) \in Nat
      BY <2>2, FS_CardinalityType
    <3>. QED
      BY <2>2, <3>1, <3>2
  <2>4. RowsNamed'
    BY <1>1, <2>3 DEF SearchInv, RowsNamed
  <2>5. Search!EvaluatedOnce'
    BY <2>3, SearchCounts DEF SearchInv, SearchIsJust, Search!SearchIsJust, Search!EvaluatedOnce
  <2>. QED
    BY <2>4, <2>5
<1>5. SelectionsKnown' /\ Search!SelectionIsJust'
  BY <1>1, SelectionsStay
<1>. QED
  BY <1>1, <1>2, <1>3, <1>4, <1>5 DEF SearchInv, SearchIsJust, Search!SearchIsJust

\* The trial at hand of a run that tries or owns one.
LEMMA SearchAtHand ==
    ASSUME SearchInv, NEW r \in Run, Search!Trying(r) \/ run[r].at \in Owning
    PROVE  LET m == run[r]
               t == TrialOf(m)
           IN  /\ m \in SearchMemory /\ m.left # {} /\ SearchJust(m, trial) /\ budget \in Nat
               /\ t \in Search!Trials /\ t = Search!Now(r)
               /\ t = <<Least(m.left), m.fold>> /\ Least(m.left) \in Candidate
               /\ trial[t] \in SearchRow
               /\ m.at \in Owning => \A q \in Run : q # r /\ run[q].at \in Owning => TrialOf(run[q]) # t
<1>1. run[r] \in SearchMemory /\ SearchJust(run[r], trial) /\ budget \in Nat
  BY DEF SearchInv, SearchTypes, RunsJust
<1>2. run[r].left # {}
  BY <1>1 DEF Search!Trying, Owning, SearchJust
<1>3. TrialOf(run[r]) \in Search!Trials /\ TrialOf(run[r]) = Search!Now(r) /\ Least(run[r].left) \in Candidate
  BY <1>1, <1>2, TrialIs, CurrentIs
<1>4. trial[TrialOf(run[r])] \in SearchRow
  BY <1>3 DEF SearchInv, SearchTypes
<1>5. run[r].at \in Owning => \A q \in Run : q # r /\ run[q].at \in Owning => TrialOf(run[q]) # TrialOf(run[r])
  BY DEF SearchInv, TrialsOwned
<1>. QED
  BY <1>1, <1>2, <1>3, <1>4, <1>5 DEF TrialOf

LEMMA SearchReserves == ASSUME SearchInv, NEW r \in Run, Search!Reserve(r) PROVE SearchInv'
<1>. DEFINE m == run[r]
            t == TrialOf(m)
            n == [m EXCEPT !.at = "start"]
            row == Search!Row("RESERVED", 0)
<1>1. /\ Search!Trying(r) /\ Search!Now(r) \notin Search!Reserved /\ ~Search!Exhausted
      /\ trial' = [trial EXCEPT ![Search!Now(r)] = row] /\ run' = [run EXCEPT ![r] = n]
      /\ UNCHANGED <<budget, selected, evaluated>>
  BY DEF Search!Reserve, Search!Goto, Search!Memory
<1>2. /\ m \in SearchMemory /\ m.left # {} /\ SearchJust(m, trial) /\ budget \in Nat
      /\ t \in Search!Trials /\ t = Search!Now(r) /\ trial[t] \in SearchRow
  BY <1>1, SearchAtHand
<1>3. /\ n \in SearchMemory /\ n.at = "start" /\ n.fold = m.fold /\ n.left = m.left
      /\ n.ranked = m.ranked /\ n.known = m.known /\ n.clean = m.clean
  <2>1. m \in SearchMemory
    BY <1>2
  <2>. HIDE DEF m
  <2>. QED
    BY <2>1 DEF SearchMemory
<1>4. row \in SearchRow /\ row.status = "RESERVED"
  BY DEF SearchRow, Search!Row
<1>5. trial[t] = Search!NoRow /\ trial[t].status = "none" /\ evaluated[t] = 0
  BY <1>1, <1>2 DEF Search!Reserved, Search!NoRow, SearchInv, RowsNamed
<1>6. \A q \in Run : q # r /\ run[q].at \in Owning => TrialOf(run[q]) # t
  BY <1>5 DEF SearchInv, TrialsOwned, Owning
<1>7. Cardinality(Search!Reserved) < budget
  <2>1. Cardinality(Search!Reserved) \in Nat
    BY FS_CardinalityType DEF SearchInv, RowsNamed
  <2>. QED
    BY <1>1, <1>2, <2>1, SearchCounts DEF Search!Exhausted
<1>8. TrialOf(n) = t
  BY <1>3 DEF TrialOf
<1>9. SearchJust(m, trial')
  BY <1>1, <1>2, <1>5, SuccessesStay DEF SearchInv, SearchTypes
<1>. HIDE DEF n, row, t
<1>10. SearchJust(n, trial')
  BY <1>2, <1>3, <1>9 DEF SearchJust
<1>. QED
  BY <1>1, <1>2, <1>3, <1>4, <1>5, <1>6, <1>7, <1>8, <1>10, SearchWrites

LEMMA SearchStarts == ASSUME SearchInv, NEW r \in Run, Search!Start(r) PROVE SearchInv'
<1>. DEFINE m == run[r]
            t == TrialOf(m)
            n == [m EXCEPT !.at = "evaluate"]
            row == [trial[t] EXCEPT !.status = "RUNNING"]
<1>1. /\ m.at = "start" /\ run' = [run EXCEPT ![r] = n]
      /\ trial' = [trial EXCEPT ![Search!Now(r)].status = "RUNNING"]
      /\ UNCHANGED <<budget, selected, evaluated>>
  BY DEF Search!Start, Search!Goto, Search!Memory, Search!At
<1>2. /\ m \in SearchMemory /\ m.left # {} /\ SearchJust(m, trial) /\ budget \in Nat
      /\ t \in Search!Trials /\ t = Search!Now(r) /\ trial[t] \in SearchRow
      /\ \A q \in Run : q # r /\ run[q].at \in Owning => TrialOf(run[q]) # t
  BY <1>1, SearchAtHand DEF Owning
<1>3. /\ n \in SearchMemory /\ n.at = "evaluate" /\ n.fold = m.fold /\ n.left = m.left
      /\ n.ranked = m.ranked /\ n.known = m.known /\ n.clean = m.clean
  <2>1. m \in SearchMemory
    BY <1>2
  <2>. HIDE DEF m
  <2>. QED
    BY <2>1 DEF SearchMemory
<1>4. row \in SearchRow /\ row.status = "RUNNING" /\ trial' = [trial EXCEPT ![t] = row]
  BY <1>1, <1>2 DEF SearchRow, SearchInv, SearchTypes
<1>5. trial[t].status = "RESERVED" /\ evaluated[t] = 0
  BY <1>1 DEF SearchInv, TrialsOwned
<1>6. t \in Search!Reserved
  BY <1>2, <1>5 DEF Search!Reserved, Search!NoRow
<1>7. TrialOf(n) = t
  BY <1>3 DEF TrialOf
<1>8. SearchJust(m, trial')
  BY <1>2, <1>4, <1>5, SuccessesStay DEF SearchInv, SearchTypes
<1>. HIDE DEF n, row, t
<1>9. SearchJust(n, trial')
  BY <1>2, <1>3, <1>8 DEF SearchJust
<1>10. /\ row.status # "none" /\ trial[t].status # "SUCCEEDED" /\ n.at # "finish"
       /\ n.at = "start" => row.status = "RESERVED"
       /\ n.at = "evaluate" => row.status = "RUNNING"
       /\ n.at \in Owning => TrialOf(n) = t /\ evaluated[t] = 0
       /\ t \notin Search!Reserved => Cardinality(Search!Reserved) < budget
  BY <1>3, <1>4, <1>5, <1>6, <1>7
<1>. QED
  BY <1>1, <1>2, <1>3, <1>4, <1>9, <1>10, SearchWrites

LEMMA SearchEvaluates == ASSUME SearchInv, NEW r \in Run, Search!Evaluate(r) PROVE SearchInv'
<1>. DEFINE m == run[r]
            t == TrialOf(m)
<1>1. /\ m.at = "evaluate" /\ evaluated' = [evaluated EXCEPT ![Search!Now(r)] = @ + 1]
      /\ UNCHANGED <<budget, trial, selected>>
  BY DEF Search!Evaluate, Search!At, Search!store
<1>2. PICK k \in Score \cup {0} : run' = [run EXCEPT ![r] = [m EXCEPT !.at = "finish", !.outcome = k]]
  BY DEF Search!Evaluate, Search!Memory
<1>. DEFINE n == [m EXCEPT !.at = "finish", !.outcome = k]
<1>3. /\ m \in SearchMemory /\ m.left # {} /\ SearchJust(m, trial)
      /\ t \in Search!Trials /\ t = Search!Now(r)
      /\ \A q \in Run : q # r /\ run[q].at \in Owning => TrialOf(run[q]) # t
  BY <1>1, SearchAtHand DEF Owning
<1>4. /\ n \in SearchMemory /\ n.at = "finish" /\ n.fold = m.fold /\ n.left = m.left
      /\ n.ranked = m.ranked /\ n.known = m.known /\ n.clean = m.clean
  <2>1. k \in Nat
    BY SearchConstants
  <2>. HIDE DEF m
  <2>. QED
    BY <1>3, <2>1 DEF SearchMemory
<1>5. trial[t].status = "RUNNING" /\ evaluated[t] = 0
  BY <1>1 DEF SearchInv, TrialsOwned
<1>6. /\ evaluated' \in [Search!Trials -> Nat]
      /\ \A u \in Search!Trials : evaluated'[u] = IF u = t THEN 1 ELSE evaluated[u]
  BY <1>1, <1>3, <1>5 DEF SearchInv, SearchTypes
<1>. HIDE DEF n
<1>7. SearchTypes' /\ \A q \in Run : run'[q] = IF q = r THEN n ELSE run[q]
  BY <1>1, <1>2, <1>4, <1>6 DEF SearchInv, SearchTypes, n
<1>8. RunsJust'
  <2>1. SearchJust(n, trial)
    BY <1>3, <1>4 DEF SearchJust
  <2>. QED
    BY <1>1, <1>7, <2>1 DEF SearchInv, RunsJust
<1>9. TrialsOwned'
  <2>1. TrialOf(n) = t
    BY <1>4 DEF TrialOf
  <2>2. \A q \in Run : q # r /\ run[q].at \in Owning => TrialOf(run[q]) \in Search!Trials
    BY TrialIs DEF SearchInv, SearchTypes, RunsJust, SearchJust, Owning
  <2>. QED
    BY <1>1, <1>3, <1>4, <1>5, <1>6, <1>7, <2>1, <2>2 DEF SearchInv, TrialsOwned, Owning
<1>10. RowsNamed' /\ Search!EvaluatedOnce'
  BY <1>1, <1>5, <1>6 DEF SearchInv, RowsNamed, SearchIsJust, Search!SearchIsJust, Search!EvaluatedOnce,
     Search!Reserved
<1>11. SelectionsKnown' /\ Search!SelectionIsJust'
  BY <1>1, SelectionsStay
<1>. QED
  BY <1>7, <1>8, <1>9, <1>10, <1>11 DEF SearchInv, SearchIsJust, Search!SearchIsJust

LEMMA SearchFinishes == ASSUME SearchInv, NEW r \in Run, Search!Finish(r) PROVE SearchInv'
<1>. DEFINE m == run[r]
            t == TrialOf(m)
            c == Least(m.left)
<1>1. m.at = "finish" /\ UNCHANGED <<budget, selected, evaluated>>
  BY DEF Search!Finish, Search!At
<1>2. /\ m \in SearchMemory /\ m.left # {} /\ SearchJust(m, trial) /\ budget \in Nat
      /\ t \in Search!Trials /\ t = Search!Now(r) /\ t = <<c, m.fold>> /\ c \in Candidate
      /\ trial[t] \in SearchRow
      /\ \A q \in Run : q # r /\ run[q].at \in Owning => TrialOf(run[q]) # t
  BY <1>1, SearchAtHand DEF Owning
<1>3. trial[t].status = "RUNNING" /\ c \notin m.known
  BY <1>1, <1>2 DEF SearchInv, TrialsOwned, SearchJust
<1>4. t \in Search!Reserved
  BY <1>2, <1>3 DEF Search!Reserved, Search!NoRow
<1>5. PICK row \in SearchRow, more \in SUBSET (Nat \X Candidate) :
        /\ row.status \in {"FAILED", "SUCCEEDED"}
        /\ trial' = [trial EXCEPT ![t] = row] /\ run' = [run EXCEPT ![r] = Search!Noted(m, more)]
        /\ \A x \in more : x[2] = c /\ row = Search!Row("SUCCEEDED", x[1])
  <2>1. CASE m.outcome = 0
    <3>. DEFINE row == [trial[t] EXCEPT !.status = "FAILED"]
    <3>1. row \in SearchRow /\ row.status = "FAILED" /\ trial' = [trial EXCEPT ![t] = row]
      BY <1>2, <2>1 DEF Search!Finish, SearchRow, SearchInv, SearchTypes
    <3>2. run' = [run EXCEPT ![r] = Search!Noted(m, {})]
      BY <2>1 DEF Search!Finish, Search!Drop, Search!Memory
    <3>. HIDE DEF row
    <3>. USE <3>1, <3>2
    <3>. WITNESS row \in SearchRow, {} \in SUBSET (Nat \X Candidate)
    <3>. QED
      OBVIOUS
  <2>2. CASE m.outcome # 0
    <3>. DEFINE row == Search!Row("SUCCEEDED", m.outcome)
                more == {<<m.outcome, c>>}
    <3>1. m.outcome \in Nat
      BY <1>2 DEF SearchMemory
    <3>2. row \in SearchRow /\ row.status = "SUCCEEDED" /\ more \in SUBSET (Nat \X Candidate)
      BY <1>2, <3>1 DEF SearchRow, Search!Row
    <3>3. trial' = [trial EXCEPT ![t] = row] /\ run' = [run EXCEPT ![r] = Search!Noted(m, more)]
      BY <1>2, <2>2, CurrentIs DEF Search!Finish, Search!Rank, Search!Memory
    <3>4. \A x \in more : x[2] = c /\ row = Search!Row("SUCCEEDED", x[1])
      OBVIOUS
    <3>. HIDE DEF row, more
    <3>. QED
      BY <3>2, <3>3, <3>4
  <2>. QED
    BY <2>1, <2>2
<1>. DEFINE n == Search!Noted(m, more)
<1>6. trial'[t] = row /\ SearchJust(m, trial')
  <2>1. \A u \in Search!Trials : trial'[u] = IF u = t THEN row ELSE trial[u]
    BY <1>2, <1>5 DEF SearchInv, SearchTypes
  <2>. QED
    BY <1>2, <1>3, <2>1, SuccessesStay
<1>7. n \in SearchMemory /\ SearchJust(n, trial') /\ n.at \in {"reserve", "aborted"}
  <2>1. \A x \in more : trial'[<<x[2], m.fold>>] = Search!Row("SUCCEEDED", x[1])
    BY <1>2, <1>5, <1>6
  <2>. HIDE DEF m, c, t
  <2>. QED
    BY <1>2, <1>3, <1>6, <2>1, NotedJust DEF c
<1>. HIDE DEF n, t
<1>. QED
  BY <1>1, <1>2, <1>3, <1>4, <1>5, <1>7, SearchWrites DEF Owning, n

LEMMA SearchInit == ToolsInit => SearchInv
<1>. SUFFICES ASSUME Search!Init PROVE SearchInv
  BY DEF ToolsInit
<1>1. Search!Idle \in SearchMemory /\ Search!Idle.at = "idle" /\ Search!Idle.left = {}
      /\ Search!Idle.ranked = {} /\ Search!Idle.known = {}
  BY IdleIs
<1>2. Search!NoSelection \in Selection /\ Search!NoSelection.known = {}
  BY DEF Search!NoSelection, Selection
<1>3. Search!NoRow \in SearchRow
  BY DEF Search!NoRow, SearchRow
<1>4. SearchTypes
  BY <1>1, <1>2, <1>3, SearchConstants DEF SearchTypes, Search!Init
<1>5. RunsJust /\ TrialsOwned
  BY <1>1 DEF Search!Init, RunsJust, SearchJust, TrialsOwned, Owning
<1>6. Search!Reserved = {}
  BY DEF Search!Init, Search!Reserved
<1>7. RowsNamed /\ Search!EvaluatedOnce
  <2>1. RowsNamed
    BY <1>6, FS_EmptySet DEF Search!Init, RowsNamed
  <2>2. \A t \in Search!Trials : evaluated[t] <= 1
    BY DEF Search!Init
  <2>3. Search!Cardinality(Search!Reserved) = 0
    BY <1>6, FS_EmptySet, SearchCounts
  <2>. QED
    BY <1>4, <2>1, <2>2, <2>3 DEF Search!EvaluatedOnce, SearchTypes
<1>8. SelectionsKnown /\ Search!SelectionIsJust
  BY <1>2 DEF Search!Init, SelectionsKnown, Search!SelectionIsJust
<1>. QED
  BY <1>4, <1>5, <1>7, <1>8 DEF SearchInv, SearchIsJust, Search!SearchIsJust

LEMMA SearchStep == SearchInv /\ [Search!Next]_(Search!vars) => SearchInv'
<1>. SUFFICES ASSUME SearchInv, [Search!Next]_(Search!vars) PROVE SearchInv'
  OBVIOUS
<1>1. CASE UNCHANGED search
  BY <1>1 DEF search, SearchInv, SearchTypes, RunsJust, TrialsOwned, RowsNamed, SelectionsKnown,
     SearchIsJust, Search!SearchIsJust, Search!EvaluatedOnce, Search!SelectionIsJust, Search!Reserved,
     Owning
<1>. QED
  BY <1>1, SearchSelects, SearchPasses, SearchReserves, SearchStarts, SearchEvaluates, SearchFinishes
     DEF Search!Next, Search!vars, Search!store, search

\* The evaluator sees a candidate of a fold once at most, within the budget,
\* and a run selects by the durable results, the best of those it knew
\* (governance_store.py execute_trial, governed_walkforward.py).
THEOREM SearchStaysJust == ToolsSpec => []SearchIsJust
<1>1. SearchInv /\ [ToolsNext]_toolVars => SearchInv'
  <2>1. [ToolsNext]_toolVars => [Search!Next]_(Search!vars) \/ UNCHANGED search
    BY DEF ToolsNext, Deploying, Recovering, OpeningStore, Searching, Sealed, Collecting,
           CuttingOver, toolVars
  <2>2. SearchInv /\ UNCHANGED search => SearchInv'
    BY DEF search, SearchInv, SearchTypes, RunsJust, TrialsOwned, RowsNamed, SelectionsKnown,
       SearchIsJust, Search!SearchIsJust, Search!EvaluatedOnce, Search!SelectionIsJust, Search!Reserved,
       Owning
  <2>. QED
    BY <2>1, <2>2, SearchStep
<1>. QED
  BY <1>1, SearchInit, PTL DEF ToolsSpec, SearchInv

-----------------------------------------------------------------------------
(* Deployment: a deployment never loses a write and never leaves code on a   *)
(* schema it does not implement.                                            *)

\* From the proof of quiescence to the first start of a unit.
QuietSteps == {"backup", "migrate", "switch_current", "switch_previous",
               "switch_dashboard", "install", "dashboard", "trap"}

Undoable(s) == plan.mode = "migration" /\ ~started /\ pc \in s

\* No writer is up while a migration may still be undone.
WritersDown == Undoable(QuietSteps) => AllDown(proc)

\* The copy that an undoing restores holds every write.
CopyIsCurrent == Undoable(QuietSteps \ {"backup"}) => backup[plan.target].writes = writes

\* The script's own record of how far it went is true.
FlagsAreTrue ==
    /\ pc \in {"quiesce", "install_target", "prove_quiescence", "backup", "migrate"}
           => plan.mode = "migration" /\ ~started
    /\ migrated => plan.mode = "migration"
    /\ plan.mode = "migration" /\ pc \in {"health", "timers", "engines", "readiness"} => started

\* What the script reads of its copies and of its arguments exists.
ArgumentsExist == DOMAIN backup = Releases /\ plan.target \in Releases

DeployInv ==
    /\ ArgumentsExist
    /\ NoWriteLost
    /\ RunningCodeFits
    /\ WritersDown
    /\ CopyIsCurrent
    /\ FlagsAreTrue

-----------------------------------------------------------------------------
(* Lemmas on the units. *)

\* A start gives every writer code that fits the schema it finds, or none.
LEMMA StartFits ==
    ASSUME NEW S, NEW p, NEW cur, NEW dsh, NEW v,
           \A u \in Units \ ReadOnly : p[u] \in Releases => SchemaOf[p[u]] = v
    PROVE  \A u \in Units \ ReadOnly : Start(S, p, cur, dsh, v)[u] \in Releases
               => SchemaOf[Start(S, p, cur, dsh, v)[u]] = v
BY ProcessAssumption DEF Start, Loaded

\* What systemctl stop leaves is what was there; without a survivor, nothing.
LEMMA StopFits ==
    ASSUME NEW T, NEW p
    PROVE  /\ \A u \in Units : Stopped(p, T)[u] \in Releases => Stopped(p, T)[u] = p[u]
           /\ T = {} => AllDown(Stopped(p, T))
BY ProcessAssumption DEF Stopped, AllDown

\* A unit that is down fits every schema.
LEMMA DownFits ==
    ASSUME NEW p, AllDown(p)
    PROVE  \A u \in Units : p[u] \notin Releases
BY ProcessAssumption DEF AllDown

-----------------------------------------------------------------------------

LEMMA DeployInit == Init => DeployInv
BY ReleaseAssumption
   DEF Init, DeployInv, ArgumentsExist, NoWriteLost, RunningCodeFits, WritersDown, CopyIsCurrent,
       FlagsAreTrue, Undoable, QuietSteps, NoPlan, None

\* Everything but the code that runs: the script alone decides it.
LEMMA ScriptStep ==
    ASSUME DeployInv, [Next]_vars
    PROVE  ArgumentsExist' /\ NoWriteLost' /\ WritersDown' /\ CopyIsCurrent' /\ FlagsAreTrue'
<1>1. ASSUME NEW mode \in {"code", "migration", "rollback"}, NEW r \in Releases,
             NEW e \in BOOLEAN, Begin(mode, r, e)
      PROVE  ArgumentsExist' /\ NoWriteLost' /\ WritersDown' /\ CopyIsCurrent' /\ FlagsAreTrue'
  BY <1>1
     DEF Begin, At, DeployInv, ArgumentsExist, NoWriteLost, WritersDown, CopyIsCurrent,
         FlagsAreTrue, Undoable, QuietSteps, links, database
<1>2. CASE Quiesce
  BY <1>2, StopFits, DownFits
     DEF Quiesce, Frame, At, Go, End, Fault, Trapped, Silent, Abort, DeployInv,
         ArgumentsExist, NoWriteLost, WritersDown, CopyIsCurrent, FlagsAreTrue, Undoable,
         QuietSteps, links, database
<1>3. CASE InstallTarget
  BY <1>3, StopFits, DownFits
     DEF InstallTarget, Frame, At, Go, End, Fault, Trapped, Silent, Abort, DeployInv,
         ArgumentsExist, NoWriteLost, WritersDown, CopyIsCurrent, FlagsAreTrue, Undoable,
         QuietSteps, links, database
<1>4. CASE ProveQuiescence
  BY <1>4, StopFits, DownFits
     DEF ProveQuiescence, Frame, At, Go, End, Fault, Trapped, Silent, Abort, DeployInv,
         ArgumentsExist, NoWriteLost, WritersDown, CopyIsCurrent, FlagsAreTrue, Undoable,
         QuietSteps, links, database
<1>5. CASE TakeBackup
  BY <1>5, StopFits, DownFits
     DEF TakeBackup, Frame, At, Go, End, Fault, Trapped, Silent, Abort, DeployInv,
         ArgumentsExist, NoWriteLost, WritersDown, CopyIsCurrent, FlagsAreTrue, Undoable,
         QuietSteps, links, database
<1>6. CASE Migrate
  <2>. USE <1>6
     DEF Migrate, Frame, At, DeployInv, ArgumentsExist, NoWriteLost, WritersDown,
         CopyIsCurrent, FlagsAreTrue, Undoable, QuietSteps, links, database
  <2>1. CASE pc' = "switch_current" /\ migrated' = TRUE /\ UNCHANGED <<plan, started>>
    BY <2>1
  <2>2. CASE Abort(backup)
    BY <2>2 DEF Abort, End
  <2>. QED
    BY <2>1, <2>2
<1>7. CASE SwitchCurrent
  BY <1>7, StopFits, DownFits
     DEF SwitchCurrent, Frame, At, Go, End, Fault, Trapped, Silent, Abort, DeployInv,
         ArgumentsExist, NoWriteLost, WritersDown, CopyIsCurrent, FlagsAreTrue, Undoable,
         QuietSteps, links, database
<1>8. CASE SwitchPrevious
  BY <1>8, StopFits, DownFits
     DEF SwitchPrevious, Frame, At, Go, End, Fault, Trapped, Silent, Abort, DeployInv,
         ArgumentsExist, NoWriteLost, WritersDown, CopyIsCurrent, FlagsAreTrue, Undoable,
         QuietSteps, links, database
<1>9. CASE SwitchDashboard
  BY <1>9, StopFits, DownFits
     DEF SwitchDashboard, Frame, At, Go, End, Fault, Trapped, Silent, Abort, DeployInv,
         ArgumentsExist, NoWriteLost, WritersDown, CopyIsCurrent, FlagsAreTrue, Undoable,
         QuietSteps, links, database
<1>10. CASE InstallUnits
  BY <1>10, StopFits, DownFits
     DEF InstallUnits, Frame, At, Go, End, Fault, Trapped, Silent, Abort, DeployInv,
         ArgumentsExist, NoWriteLost, WritersDown, CopyIsCurrent, FlagsAreTrue, Undoable,
         QuietSteps, links, database
<1>11. CASE StartTimers
  BY <1>11, StopFits, DownFits
     DEF StartTimers, Frame, At, Go, End, Fault, Trapped, Silent, Abort, AfterTimers,
         DeployInv, ArgumentsExist, NoWriteLost, WritersDown, CopyIsCurrent, FlagsAreTrue,
         Undoable, QuietSteps, links, database
<1>12. CASE StartDashboard
  <2>. USE <1>12
     DEF StartDashboard, Frame, At, DeployInv, ArgumentsExist, NoWriteLost, WritersDown,
         CopyIsCurrent, FlagsAreTrue, Undoable, QuietSteps, links, database
  <2>1. CASE started' = CrossesFrontier /\ pc' \in {"engines", "health"} /\ UNCHANGED <<plan, migrated>>
    BY <2>1 DEF CrossesFrontier
  <2>2. CASE plan.mode # "migration" /\ pc' \in {"trap", "idle"} /\ UNCHANGED <<plan, migrated>>
    BY <2>2
  <2>3. CASE Silent
    BY <2>3 DEF Silent, End
  <2>. QED
    BY <2>1, <2>2, <2>3 DEF Trapped, Go, End
<1>13. CASE CheckHealth
  BY <1>13, StopFits, DownFits
     DEF CheckHealth, Frame, At, Go, End, Fault, Trapped, Silent, Abort, DeployInv,
         ArgumentsExist, NoWriteLost, WritersDown, CopyIsCurrent, FlagsAreTrue, Undoable,
         QuietSteps, links, database
<1>14. CASE StartEngines
  BY <1>14, StopFits, DownFits
     DEF StartEngines, Frame, At, Go, End, Fault, Trapped, Silent, Abort, DeployInv,
         ArgumentsExist, NoWriteLost, WritersDown, CopyIsCurrent, FlagsAreTrue, Undoable,
         QuietSteps, links, database
<1>15. CASE CheckReadiness
  BY <1>15, StopFits, DownFits
     DEF CheckReadiness, Frame, At, Go, End, Fault, Trapped, Silent, Abort, DeployInv,
         ArgumentsExist, NoWriteLost, WritersDown, CopyIsCurrent, FlagsAreTrue, Undoable,
         QuietSteps, links, database
<1>16. CASE FailClosed
  BY <1>16, StopFits, DownFits
     DEF FailClosed, Frame, At, Go, End, Fault, Trapped, Silent, Abort, DeployInv,
         ArgumentsExist, NoWriteLost, WritersDown, CopyIsCurrent, FlagsAreTrue, Undoable,
         QuietSteps, links, database
<1>17. CASE UndoMigration
  BY <1>17, StopFits, DownFits
     DEF UndoMigration, Frame, At, Go, End, Fault, Trapped, Silent, Abort, Failing, Missed,
         LinksUndone, Restarted, RestoreDatabase, DeployInv, ArgumentsExist, NoWriteLost,
         WritersDown, CopyIsCurrent, FlagsAreTrue, Undoable, QuietSteps, links, database
<1>18. CASE UndoCode
  BY <1>18, StopFits, DownFits
     DEF UndoCode, Frame, At, Go, End, Fault, Trapped, Silent, Abort, Failing, Missed,
         LinksUndone, Restarted, database, DeployInv, ArgumentsExist, NoWriteLost,
         WritersDown, CopyIsCurrent, FlagsAreTrue, Undoable, QuietSteps, links
<1>19. CASE Kill
  BY <1>19, StopFits, DownFits
     DEF Kill, Frame, At, Go, End, Fault, Trapped, Silent, Abort, DeployInv, ArgumentsExist,
         NoWriteLost, WritersDown, CopyIsCurrent, FlagsAreTrue, Undoable, QuietSteps,
         links, database
<1>20. CASE Reboot
  BY <1>20, StopFits, DownFits
     DEF Reboot, Frame, At, Go, End, Fault, Trapped, Silent, Abort, DeployInv,
         ArgumentsExist, NoWriteLost, WritersDown, CopyIsCurrent, FlagsAreTrue, Undoable,
         QuietSteps, links, database
<1>21. ASSUME NEW u \in Units, Write(u) \/ Restart(u)
      PROVE  ArgumentsExist' /\ NoWriteLost' /\ WritersDown' /\ CopyIsCurrent' /\ FlagsAreTrue'
  BY <1>21, DownFits
     DEF Write, Restart, script, DeployInv, ArgumentsExist, NoWriteLost, WritersDown,
         CopyIsCurrent, FlagsAreTrue, Undoable, QuietSteps, links, database, AllDown
<1>22. CASE UNCHANGED vars
  BY <1>22
     DEF vars, script, DeployInv, ArgumentsExist, NoWriteLost, WritersDown, CopyIsCurrent,
         FlagsAreTrue, Undoable, QuietSteps, links, database
<1>. QED
  BY <1>1, <1>2, <1>3, <1>4, <1>5, <1>6, <1>7, <1>8, <1>9, <1>10, <1>11, <1>12, <1>13, <1>14, <1>15, <1>16, <1>17, <1>18, <1>19, <1>20, <1>21, <1>22
     DEF Next

\* The code that writes fits the schema: it is loaded under it, and the schema
\* only changes under units that are down.
LEMMA FitStep ==
    ASSUME DeployInv, [Next]_vars
    PROVE  RunningCodeFits'
<1>. USE DEF RunningCodeFits, DeployInv
<1>1. CASE UNCHANGED <<proc, schema>>
  BY <1>1
<1>2. ASSUME NEW T, proc' = Stopped(proc, T), UNCHANGED schema
      PROVE  RunningCodeFits'
  BY <1>2, StopFits
<1>3. ASSUME NEW S, proc' = Start(S, proc, current, dash, schema), UNCHANGED schema
      PROVE  RunningCodeFits'
  BY <1>3, StartFits
<1>4. CASE Migrate
  <2>1. AllDown(proc')
    BY <1>4 DEF Migrate, Frame, At, FlagsAreTrue, WritersDown, Undoable, QuietSteps
  <2>. QED
    BY <2>1, DownFits
<1>5. CASE UndoMigration \/ UndoCode
  <2>1. proc' = Restarted(Stopped(proc, {}), current', schema')
    BY <1>5 DEF UndoMigration, UndoCode, database
  <2>2. \A u \in Units : Stopped(proc, {})[u] \notin Releases
    BY StopFits, DownFits
  <2>. QED
    BY <2>1, <2>2, StartFits DEF Restarted
<1>6. CASE FailClosed \/ Quiesce
  BY <1>2, <1>6 DEF FailClosed, Quiesce, database
<1>7. CASE StartTimers \/ StartDashboard \/ StartEngines \/ Reboot
  BY <1>1, <1>3, <1>7 DEF StartTimers, StartDashboard, StartEngines, Reboot, database
<1>8. ASSUME NEW u \in Units, Write(u) \/ Restart(u)
      PROVE  RunningCodeFits'
  BY <1>1, <1>3, <1>8 DEF Write, Restart, database
<1>9. ASSUME NEW mode \in {"code", "migration", "rollback"}, NEW r \in Releases,
             NEW e \in BOOLEAN, Begin(mode, r, e)
      PROVE  RunningCodeFits'
  BY <1>1, <1>9 DEF Begin, database
<1>10. CASE InstallTarget \/ ProveQuiescence \/ TakeBackup
  BY <1>1, <1>10 DEF InstallTarget, ProveQuiescence, TakeBackup, database
<1>11. CASE SwitchCurrent \/ SwitchPrevious \/ SwitchDashboard \/ InstallUnits
  BY <1>1, <1>11 DEF SwitchCurrent, SwitchPrevious, SwitchDashboard, InstallUnits, database
<1>12. CASE CheckHealth \/ CheckReadiness \/ Kill \/ UNCHANGED vars
  BY <1>1, <1>12 DEF CheckHealth, CheckReadiness, Kill, vars, database
<1>. QED
  BY <1>4, <1>5, <1>6, <1>7, <1>8, <1>9, <1>10, <1>11, <1>12 DEF Next

\* The invariant holds of every reachable state: no other tool touches what
\* a deployment owns.
LEMMA DeploymentHolds == ToolsSpec => []DeployInv
<1>1. [ToolsNext]_toolVars => [Next]_vars \/ UNCHANGED deployment
  BY DEF ToolsNext, Deploying, Recovering, OpeningStore, Searching, Sealed, Collecting,
         CuttingOver, toolVars, deployment, vars, counters
<1>2. DeployInv /\ UNCHANGED deployment => DeployInv'
  BY DEF deployment, links, database, script, DeployInv, ArgumentsExist, NoWriteLost, RunningCodeFits,
         WritersDown, CopyIsCurrent, FlagsAreTrue, Undoable, AllDown
<1>3. DeployInv /\ [Next]_vars => DeployInv'
  BY ScriptStep, FitStep DEF DeployInv
<1>4. ToolsInit => DeployInv
  BY DeployInit DEF ToolsInit
<1>. QED
  BY <1>1, <1>2, <1>3, <1>4, PTL DEF ToolsSpec

\* However a deployment fails, is killed, undone or rebooted, no durable write
\* is lost to the restoration of an older copy (update.sh, rollback_on_error).
THEOREM NothingIsLost == ToolsSpec => []NoWriteLost
BY DeploymentHolds, PTL DEF DeployInv

\* However a deployment fails, is undone or rebooted, no process that opens the
\* store for writing runs on a schema its release does not implement
\* (update.sh, StateStore); of the dashboard, which checks none, nothing is said.
THEOREM CodeFitsSchema == ToolsSpec => []RunningCodeFits
BY DeploymentHolds, PTL DEF DeployInv

-----------------------------------------------------------------------------
(* Market evidence: no observation is lost by archiving, whatever cuts a     *)
(* cycle, and the segments can be restored together.                        *)

Contents == [kind : {"book", "settlement", "cycle"}, key : Nat, version : Nat, at : Nat]
Observations == [id : Nat, content : Contents, at : Nat]
Segments == [rows : SUBSET Observations, manifest : BOOLEAN, damage : {"none", "early", "late"}]
SegmentCopies == [rows : SUBSET Observations, manifest : BOOLEAN]
CycleAt == {"idle", "file", "manifest", "verify", "scrub", "check", "observe", "settle", "record"}
CycleShape(c) ==
    /\ c = [field \in DOMAIN c |-> c[field]]
    /\ DOMAIN c = {"at", "start", "received", "final", "add", "groups", "removed", "passed"}

EvidenceTypes ==
    /\ clock \in Nat /\ nextId \in Nat /\ published \in [Event -> Nat]
    /\ rows \in SUBSET Observations
    /\ files = [n \in DOMAIN files |-> files[n]] /\ \A n \in DOMAIN files : files[n] \in Segments
    /\ copies = [n \in DOMAIN copies |-> copies[n]] /\ \A n \in DOMAIN copies : copies[n] \in SegmentCopies
CycleTypes ==
    /\ CycleShape(cycle)
    /\ cycle.at \in CycleAt /\ cycle.start \in Nat /\ cycle.received \in Nat
    /\ cycle.add \in SUBSET Observations

\* The observations the database numbered come before the next number, and
\* what a transaction adds takes it.
Numbered == \A r \in Evidence!Held : r.id < nextId
AddedNext == cycle.add # {} => \E r \in Observations : cycle.add = {r} /\ r.id = nextId

\* Only the places where it archives have a transaction open.
Archiving == {"file", "manifest", "verify"}
NoneOpen == cycle.at \notin Archiving => cycle.add = {} /\ cycle.groups = {} /\ cycle.removed = {}
CycleStarts ==
    /\ cycle.at # "idle" => cycle.start <= clock
    /\ cycle.at \in {"observe", "settle", "record"} => cycle.start <= cycle.received

\* The groups of a cycle are all of a day's rows that are due, and what it
\* removes is whole days of them.
DayOfDue(d) == {r \in rows : r.at + Age < cycle.start /\ Evidence!Day(r.at) = d}
GroupsWhole == \A g \in cycle.groups : g # {} /\ \A r \in g : g = DayOfDue(Evidence!Day(r.at))
RemovedWhole ==
    \A r \in cycle.removed : r \in rows /\ DayOfDue(Evidence!Day(r.at)) \subseteq cycle.removed

\* A segment on the disk is of one day and was due; none of its rows is left
\* in the database, or all are.
Horizon == IF cycle.at = "idle" THEN clock ELSE cycle.start
SegmentWhole(S) ==
    /\ \A r \in S : r.at + Age < Horizon
    /\ \A r, q \in S : Evidence!Day(r.at) = Evidence!Day(q.at)
    /\ S \subseteq rows \/ S \cap rows = {}
SegmentsWhole == \A n \in DOMAIN files : SegmentWhole(files[n].rows)

\* The segment at hand, and those that passed.
SegmentAtHand ==
    cycle.at \in {"manifest", "verify"} =>
        /\ cycle.groups # {} /\ Evidence!Name(Evidence!Earliest) \in DOMAIN files
        /\ files[Evidence!Name(Evidence!Earliest)].rows = Evidence!Earliest
        /\ cycle.at = "verify" => files[Evidence!Name(Evidence!Earliest)].manifest
RemovedFiled ==
    \A r \in cycle.removed : \E n \in Evidence!Listed :
        r \in files[n].rows /\ files[n].rows \subseteq cycle.removed /\ files[n].damage # "early"

EvidenceInv ==
    /\ EvidenceTypes /\ CycleTypes /\ Numbered /\ AddedNext /\ NoneOpen /\ CycleStarts
    /\ GroupsWhole /\ RemovedWhole /\ SegmentsWhole /\ SegmentAtHand /\ RemovedFiled
    /\ EvidenceKept

LEMMA EvidenceConstants ==
    /\ Event \subseteq Nat \ {0} /\ IsFiniteSet(Event) /\ Age \in Nat /\ DayLength \in Nat \ {0}
    /\ \A S : Evidence!Cardinality(S) = Cardinality(S)
    /\ \A S : Evidence!Min(S) = Least(S)
<1>1. \A S : Evidence!IsFiniteSet(S) = IsFiniteSet(S)
  BY DEF Evidence!IsFiniteSet, IsFiniteSet
<1>2. \A S : Evidence!Cardinality(S) = Cardinality(S)
  BY DEF Evidence!Cardinality, Cardinality
<1>3. \A S : Evidence!Min(S) = Least(S)
  BY DEF Evidence!Min, Least
<1>. QED
  BY <1>1, <1>2, <1>3, ToolsAssumption DEF Evidence!CollectorAssumption

LEMMA DayIs == \A t \in Nat : Evidence!Day(t) \in Nat
BY EvidenceConstants DEF Evidence!Day

LEMMA CycleMoves ==
    ASSUME NEW c, CycleShape(c), NEW step
    PROVE  LET n == [c EXCEPT !.at = step]
           IN  /\ CycleShape(n) /\ n.at = step /\ n.start = c.start /\ n.received = c.received
               /\ n.add = c.add /\ n.groups = c.groups /\ n.removed = c.removed
BY DEF CycleShape

Received(c, t) == [c EXCEPT !.at = "observe", !.received = t]
Begun(c, t, G) == [c EXCEPT !.at = "file", !.start = t, !.groups = G]
Verified(c, g, S, n) ==
    [c EXCEPT !.at = "file", !.groups = @ \ {g}, !.removed = @ \cup S, !.passed = @ \cup {n}]
Recorded(c, new, G) ==
    [c EXCEPT !.at = "file", !.final = TRUE, !.add = new, !.groups = G]
Committed(c, t) == [c EXCEPT !.at = "scrub", !.start = t]

LEMMA CycleReceives ==
    ASSUME NEW c, CycleShape(c), NEW t
    PROVE  LET k == Received(c, t)
           IN  /\ CycleShape(k) /\ k.at = "observe" /\ k.start = c.start /\ k.received = t
               /\ k.add = c.add /\ k.groups = c.groups /\ k.removed = c.removed
BY DEF CycleShape, Received

LEMMA CycleBegins ==
    ASSUME NEW c, CycleShape(c), NEW t, NEW G
    PROVE  LET k == Begun(c, t, G)
           IN  /\ CycleShape(k) /\ k.at = "file" /\ k.start = t /\ k.received = c.received
               /\ k.add = c.add /\ k.groups = G /\ k.removed = c.removed
BY DEF CycleShape, Begun

LEMMA CycleVerifies ==
    ASSUME NEW c, CycleShape(c), NEW g, NEW S, NEW n
    PROVE  LET k == Verified(c, g, S, n)
           IN  /\ CycleShape(k) /\ k.at = "file" /\ k.start = c.start /\ k.received = c.received
               /\ k.add = c.add /\ k.groups = c.groups \ {g} /\ k.removed = c.removed \cup S
BY DEF CycleShape, Verified

LEMMA CycleRecords ==
    ASSUME NEW c, CycleShape(c), NEW new, NEW G
    PROVE  LET k == Recorded(c, new, G)
           IN  /\ CycleShape(k) /\ k.at = "file" /\ k.start = c.start /\ k.received = c.received
               /\ k.add = new /\ k.groups = G /\ k.removed = c.removed
BY DEF CycleShape, Recorded

LEMMA CycleCommits ==
    ASSUME NEW c, CycleShape(c), NEW t
    PROVE  LET k == Committed(c, t)
           IN  /\ CycleShape(k) /\ k.at = "scrub" /\ k.start = t /\ k.received = c.received
               /\ k.add = c.add /\ k.groups = c.groups /\ k.removed = c.removed
BY DEF CycleShape, Committed

LEMMA NoCycleIs ==
    LET c == Evidence!NoCycle
    IN  /\ CycleShape(c) /\ c.at = "idle" /\ c.start = 0 /\ c.received = 0 /\ c.add = {}
        /\ c.groups = {} /\ c.removed = {}
BY DEF Evidence!NoCycle, CycleShape

LEMMA GroupsAre ==
    ASSUME NEW S \in SUBSET Observations, NEW now, NEW g \in Evidence!Groups(Evidence!Due(S, now))
    PROVE  g # {} /\ \A r \in g : g = {q \in S : q.at + Age < now /\ Evidence!Day(q.at) = Evidence!Day(r.at)}
BY DEF Evidence!Groups, Evidence!Due

\* The earliest group is one of them.
LEMMA EarliestIs ==
    ASSUME EvidenceInv, cycle.groups # {}
    PROVE  Evidence!Earliest \in cycle.groups
<1>. DEFINE DayName(g) == Evidence!Name(g).day
            D == {DayName(g) : g \in cycle.groups}
<1>1. ASSUME NEW g \in cycle.groups PROVE DayName(g) \in Nat
  <2>. DEFINE E == {Evidence!Day(r.at) : r \in g}
  <2>1. g # {} /\ g \subseteq Observations
    BY DEF EvidenceInv, EvidenceTypes, GroupsWhole, DayOfDue
  <2>2. E \subseteq Nat /\ E # {}
    BY <2>1, DayIs DEF Observations
  <2>3. DayName(g) = Least(E)
    BY EvidenceConstants DEF Evidence!Name
  <2>. QED
    BY <2>2, <2>3, LeastIs
<1>2. D \subseteq Nat /\ D # {}
  BY <1>1
<1>3. Least(D) \in D /\ \A d \in D : Least(D) <= d
  <2>. HIDE DEF D
  <2>. QED
    BY <1>2, LeastIs
<1>4. \E g \in cycle.groups : \A h \in cycle.groups : Evidence!Name(g).day <= Evidence!Name(h).day
  BY <1>3
<1>. QED
  BY <1>4 DEF Evidence!Earliest

\* A step that changes neither what is recorded nor what the disk holds.
LEMMA EvidenceCycles ==
    ASSUME EvidenceInv, UNCHANGED <<clock, published, rows, nextId, ever, files, copies>>,
           CycleTypes', AddedNext', NoneOpen', CycleStarts', GroupsWhole', RemovedWhole',
           SegmentAtHand', RemovedFiled', Horizon <= Horizon'
    PROVE  EvidenceInv'
<1>1. EvidenceTypes'
  BY DEF EvidenceInv, EvidenceTypes
<1>2. Numbered' /\ EvidenceKept'
  BY DEF EvidenceInv, Numbered, EvidenceKept, Evidence!EvidenceKept, Evidence!OneIdentity,
     Evidence!Held, Evidence!IsKept, Evidence!Listed
<1>3. SegmentsWhole'
  <2>1. Horizon \in Nat /\ Horizon' \in Nat /\ Age \in Nat
    BY EvidenceConstants DEF EvidenceInv, EvidenceTypes, CycleTypes, Horizon
  <2>2. \A n \in DOMAIN files : \A r \in files[n].rows : r.at \in Nat /\ r.at + Age < Horizon
    BY DEF EvidenceInv, EvidenceTypes, SegmentsWhole, SegmentWhole, Segments, Observations
  <2>3. \A n \in DOMAIN files : \A r \in files[n].rows : r.at + Age < Horizon'
    <3>. HIDE DEF Horizon
    <3>. QED
      BY <2>1, <2>2
  <2>. QED
    BY <2>3 DEF EvidenceInv, SegmentsWhole, SegmentWhole
<1>. QED
  BY <1>1, <1>2, <1>3 DEF EvidenceInv

\* A cycle ends, whatever the place: its open transaction is forgotten.
LEMMA EvidenceEnds ==
    ASSUME EvidenceInv, UNCHANGED <<clock, published, rows, nextId, ever, files, copies>>,
           cycle' = Evidence!NoCycle
    PROVE  EvidenceInv'
<1>1. CycleTypes' /\ AddedNext' /\ NoneOpen' /\ CycleStarts' /\ GroupsWhole' /\ RemovedWhole'
      /\ SegmentAtHand' /\ RemovedFiled'
  BY NoCycleIs DEF CycleTypes, CycleAt, AddedNext, NoneOpen, CycleStarts, GroupsWhole, RemovedWhole,
     SegmentAtHand, RemovedFiled, Archiving
<1>2. Horizon <= Horizon'
  BY NoCycleIs DEF EvidenceInv, EvidenceTypes, CycleTypes, CycleStarts, Horizon
<1>. QED
  BY <1>1, <1>2, EvidenceCycles

\* A cycle begins to archive groups of what is due.
LEMMA EvidenceBegins == ASSUME EvidenceInv, Evidence!Begin PROVE EvidenceInv'
<1>. DEFINE G == Evidence!Groups(Evidence!Due(rows, clock))
            k == Begun(Evidence!NoCycle, clock, G)
<1>1. cycle' = k /\ UNCHANGED <<clock, published, rows, nextId, ever, files, copies>> /\ cycle.at = "idle"
  BY DEF Evidence!Begin, Evidence!world, Evidence!store, Evidence!disk, Evidence!At, Begun
<1>2. CycleShape(k) /\ k.at = "file" /\ k.start = clock /\ k.received = 0 /\ k.add = {}
      /\ k.groups = G /\ k.removed = {}
  <2>. HIDE DEF G
  <2>. QED
    BY CycleBegins, NoCycleIs
<1>3. clock \in Nat /\ rows \in SUBSET Observations
  BY DEF EvidenceInv, EvidenceTypes
<1>. HIDE DEF k, G
<1>4. CycleTypes' /\ AddedNext' /\ NoneOpen' /\ CycleStarts' /\ RemovedWhole' /\ SegmentAtHand'
      /\ RemovedFiled'
  BY <1>1, <1>2, <1>3 DEF CycleTypes, CycleAt, AddedNext, NoneOpen, CycleStarts, RemovedWhole,
     SegmentAtHand, RemovedFiled, Archiving
<1>5. GroupsWhole'
  <2>1. \A g \in G : g # {} /\ \A r \in g :
           g = {q \in rows : q.at + Age < clock /\ Evidence!Day(q.at) = Evidence!Day(r.at)}
    BY <1>3, GroupsAre DEF G
  <2>. QED
    BY <1>1, <1>2, <2>1 DEF GroupsWhole, DayOfDue
<1>6. Horizon <= Horizon'
  BY <1>1, <1>2, <1>3 DEF Horizon
<1>. QED
  BY <1>1, <1>4, <1>5, <1>6, EvidenceCycles

\* The record of the cycle is as old as what it received: it is not due.
LEMMA EvidenceRecords == ASSUME EvidenceInv, Evidence!Record PROVE EvidenceInv'
<1>. DEFINE row == Evidence!Observed(nextId, Evidence!Content("cycle", nextId, 1, cycle.received), cycle.received)
            new == {row}
            G == Evidence!Groups(Evidence!Due(rows \cup new, cycle.start))
            k == Recorded(cycle, new, G)
<1>1. cycle' = k /\ UNCHANGED <<clock, published, rows, nextId, ever, files, copies>> /\ cycle.at = "record"
  BY DEF Evidence!Record, Evidence!world, Evidence!store, Evidence!disk, Evidence!At, Recorded
<1>2. /\ clock \in Nat /\ nextId \in Nat /\ rows \in SUBSET Observations /\ CycleShape(cycle)
      /\ cycle.start \in Nat /\ cycle.received \in Nat /\ cycle.start <= clock
      /\ cycle.start <= cycle.received /\ cycle.removed = {}
  BY <1>1 DEF EvidenceInv, EvidenceTypes, CycleTypes, CycleStarts, NoneOpen, Archiving
<1>3. row \in Observations /\ row.id = nextId /\ row.at = cycle.received
  BY <1>2 DEF Observations, Contents, Evidence!Observed, Evidence!Content
<1>. HIDE DEF row
<1>4. G = Evidence!Groups(Evidence!Due(rows, cycle.start))
  <2>1. Evidence!Due(rows \cup new, cycle.start) = Evidence!Due(rows, cycle.start)
    BY <1>2, <1>3, EvidenceConstants DEF Evidence!Due
  <2>. QED
    BY <2>1
<1>5. CycleShape(k) /\ k.at = "file" /\ k.start = cycle.start /\ k.received = cycle.received
      /\ k.add = new /\ k.groups = G /\ k.removed = {}
  <2>. HIDE DEF G, new
  <2>. QED
    BY <1>2, CycleRecords
<1>. HIDE DEF k, G
<1>6. GroupsWhole'
  <2>1. \A g \in G : g # {} /\ \A r \in g :
           g = {q \in rows : q.at + Age < cycle.start /\ Evidence!Day(q.at) = Evidence!Day(r.at)}
    <3>. SUFFICES ASSUME NEW g \in Evidence!Groups(Evidence!Due(rows, cycle.start))
                  PROVE  g # {} /\ \A r \in g : g = {q \in rows : q.at + Age < cycle.start
                                                      /\ Evidence!Day(q.at) = Evidence!Day(r.at)}
      BY <1>4
    <3>. QED
      BY <1>2, GroupsAre
  <2>. QED
    BY <1>1, <1>5, <2>1 DEF GroupsWhole, DayOfDue
<1>7. CycleTypes' /\ AddedNext' /\ NoneOpen' /\ CycleStarts' /\ RemovedWhole' /\ SegmentAtHand'
      /\ RemovedFiled'
  BY <1>1, <1>2, <1>3, <1>5 DEF CycleTypes, CycleAt, AddedNext, NoneOpen, CycleStarts, RemovedWhole,
     SegmentAtHand, RemovedFiled, Archiving
<1>8. Horizon <= Horizon'
  BY <1>1, <1>2, <1>5 DEF Horizon
<1>. QED
  BY <1>1, <1>6, <1>7, <1>8, EvidenceCycles

\* A segment that verifies takes its group off the transaction's list.
LEMMA EvidenceVerifies == ASSUME EvidenceInv, Evidence!VerifySegment PROVE EvidenceInv'
<1>. DEFINE g == Evidence!Earliest
            n == Evidence!Name(g)
            k == Verified(cycle, g, g, n)
<1>1. cycle.at = "verify" /\ UNCHANGED <<clock, published, rows, nextId, ever, files, copies>>
      /\ cycle' \in {k, Evidence!NoCycle} /\ (cycle' # Evidence!NoCycle => Evidence!Intact(n))
  BY DEF Evidence!VerifySegment, Evidence!world, Evidence!store, Evidence!disk, Evidence!At, Verified,
     Evidence!Removable
<1>2. CASE cycle' = Evidence!NoCycle
  BY <1>1, <1>2, EvidenceEnds
<1>3. CASE cycle' = k /\ Evidence!Intact(n)
  <2>1. g \in cycle.groups
    BY <1>1, EarliestIs DEF EvidenceInv, SegmentAtHand
  <2>2. /\ n \in DOMAIN files /\ files[n].rows = g /\ n \in Evidence!Listed /\ files[n].damage # "early"
        /\ \A r \in g : r \in rows /\ g = DayOfDue(Evidence!Day(r.at))
    BY <1>1, <1>3, <2>1 DEF EvidenceInv, SegmentAtHand, Evidence!Listed, Evidence!Intact, GroupsWhole, DayOfDue
  <2>3. CycleShape(cycle) /\ cycle.start \in Nat /\ cycle.received \in Nat /\ cycle.add \in SUBSET Observations
    BY DEF EvidenceInv, CycleTypes
  <2>. HIDE DEF g, n
  <2>4. CycleShape(k) /\ k.at = "file" /\ k.start = cycle.start /\ k.received = cycle.received
        /\ k.add = cycle.add /\ k.groups = cycle.groups \ {g} /\ k.removed = cycle.removed \cup g
    BY <2>3, CycleVerifies
  <2>. HIDE DEF k
  <2>5. CycleTypes' /\ AddedNext' /\ NoneOpen' /\ CycleStarts' /\ SegmentAtHand'
    BY <1>1, <1>3, <2>3, <2>4 DEF EvidenceInv, CycleTypes, CycleAt, AddedNext, NoneOpen, CycleStarts,
       SegmentAtHand, Archiving
  <2>6. GroupsWhole' /\ RemovedWhole'
    BY <1>1, <1>3, <2>2, <2>4 DEF EvidenceInv, GroupsWhole, RemovedWhole, DayOfDue
  <2>7. RemovedFiled'
    BY <1>1, <1>3, <2>2, <2>4 DEF EvidenceInv, RemovedFiled, Evidence!Listed
  <2>8. Horizon <= Horizon'
    BY <1>1, <1>3, <2>3, <2>4 DEF Horizon
  <2>. QED
    BY <1>1, <2>5, <2>6, <2>7, <2>8, EvidenceCycles
<1>. QED
  BY <1>1, <1>2, <1>3


\* Files are only added or completed: what is recorded stays kept.
LEMMA EvidenceStays ==
    ASSUME EvidenceInv, UNCHANGED <<rows, nextId, ever, copies>>,
           \A n \in Evidence!Listed : /\ n \in Evidence!Listed' /\ files'[n].rows = files[n].rows
                                      /\ files'[n].damage = files[n].damage,
           \A n \in DOMAIN files' : files'[n].rows \subseteq Evidence!Held
    PROVE  Numbered' /\ EvidenceKept'
<1>1. \A r \in Evidence!Held' : r \in Evidence!Held
  BY DEF Evidence!Held
<1>2. Numbered' /\ Evidence!OneIdentity'
  BY <1>1 DEF EvidenceInv, Numbered, EvidenceKept, Evidence!EvidenceKept, Evidence!OneIdentity
<1>3. \A c \in ever' : Evidence!IsKept(c)'
  BY DEF EvidenceInv, EvidenceKept, Evidence!EvidenceKept, Evidence!IsKept
<1>. QED
  BY <1>2, <1>3 DEF EvidenceKept, Evidence!EvidenceKept

\* A step of a file: the group at hand is written, found or completed.
LEMMA EvidenceFiles ==
    ASSUME EvidenceInv, cycle.groups # {}, cycle.at \in Archiving, NEW step \in {"manifest", "verify"},
           cycle' = [cycle EXCEPT !.at = step],
           UNCHANGED <<clock, published, rows, nextId, ever, copies>>,
           files' = [n \in DOMAIN files' |-> files'[n]],
           \A n \in DOMAIN files' : files'[n] \in Segments,
           DOMAIN files \subseteq DOMAIN files',
           \A n \in DOMAIN files : /\ files'[n].rows = files[n].rows /\ files'[n].damage = files[n].damage
                                   /\ files[n].manifest => files'[n].manifest,
           \A n \in DOMAIN files' : n \notin DOMAIN files => files'[n].rows = Evidence!Earliest,
           LET n == Evidence!Name(Evidence!Earliest)
           IN  /\ n \in DOMAIN files' /\ files'[n].rows = Evidence!Earliest
               /\ step = "verify" => files'[n].manifest
    PROVE  EvidenceInv'
<1>. DEFINE g == Evidence!Earliest
            name == Evidence!Name(g)
<1>1. CycleShape(cycle) /\ cycle.start \in Nat /\ cycle.received \in Nat /\ cycle.add \in SUBSET Observations
  BY DEF EvidenceInv, CycleTypes
<1>2. /\ CycleShape(cycle') /\ cycle'.at = step /\ cycle'.start = cycle.start
      /\ cycle'.received = cycle.received /\ cycle'.add = cycle.add /\ cycle'.groups = cycle.groups
      /\ cycle'.removed = cycle.removed
  BY <1>1, CycleMoves
<1>3. g \in cycle.groups
  BY EarliestIs
<1>4. /\ g \subseteq rows /\ (\A r \in g : r.at + Age < cycle.start)
      /\ \A r, q \in g : Evidence!Day(r.at) = Evidence!Day(q.at)
  BY <1>3 DEF EvidenceInv, GroupsWhole, DayOfDue
<1>5. Evidence!Earliest' = g /\ name' = name
  BY <1>2 DEF Evidence!Earliest
<1>6. \A n \in Evidence!Listed : n \in DOMAIN files /\ n \in Evidence!Listed'
  BY DEF Evidence!Listed
<1>7. EvidenceTypes'
  BY DEF EvidenceInv, EvidenceTypes
<1>8. Numbered' /\ EvidenceKept'
  <2>1. \A n \in DOMAIN files' : files'[n].rows \subseteq Evidence!Held
    BY <1>4 DEF Evidence!Held
  <2>. QED
    BY <1>6, <2>1, EvidenceStays
<1>9. SegmentsWhole'
  <2>1. Horizon' = cycle.start /\ Horizon = cycle.start
    BY <1>2 DEF Horizon, Archiving
  <2>2. ASSUME NEW n \in DOMAIN files' PROVE SegmentWhole(files[n].rows)' \/ n \notin DOMAIN files
    <3>. HIDE DEF Horizon
    <3>. QED
      BY <2>1 DEF EvidenceInv, SegmentsWhole, SegmentWhole
  <2>3. ASSUME NEW n \in DOMAIN files' PROVE SegmentWhole(files[n].rows)'
    <3>1. CASE n \in DOMAIN files
      BY <2>2, <3>1
    <3>2. CASE n \notin DOMAIN files
      <4>. HIDE DEF Horizon
      <4>. QED
        BY <1>4, <2>1, <3>2 DEF SegmentWhole
    <3>. QED
      BY <3>1, <3>2
  <2>. QED
    BY <2>3 DEF SegmentsWhole
<1>10. CycleTypes' /\ AddedNext' /\ NoneOpen' /\ CycleStarts' /\ GroupsWhole' /\ RemovedWhole'
  BY <1>1, <1>2 DEF EvidenceInv, CycleTypes, CycleAt, AddedNext, NoneOpen, CycleStarts, GroupsWhole,
     RemovedWhole, DayOfDue, Archiving
<1>11. SegmentAtHand'
  BY <1>2, <1>5 DEF SegmentAtHand
<1>12. RemovedFiled'
  BY <1>2, <1>6 DEF EvidenceInv, RemovedFiled
<1>. QED
  BY <1>7, <1>8, <1>9, <1>10, <1>11, <1>12 DEF EvidenceInv

LEMMA EvidenceWrites ==
    ASSUME EvidenceInv, Evidence!WriteSegment \/ Evidence!WriteManifest
    PROVE  EvidenceInv'
<1>. DEFINE g == Evidence!Earliest
            name == Evidence!Name(g)
<1>1. UNCHANGED <<clock, published, rows, nextId, ever, copies>>
  BY DEF Evidence!WriteSegment, Evidence!WriteManifest, Evidence!world, Evidence!store
<1>2. /\ files = [n \in DOMAIN files |-> files[n]]
      /\ \A n \in DOMAIN files : files[n] \in Segments
  BY DEF EvidenceInv, EvidenceTypes
<1>3. CASE /\ Evidence!WriteSegment /\ name \notin DOMAIN files
  <2>. DEFINE new == [rows |-> g, manifest |-> FALSE, damage |-> "none"]
  <2>1. /\ cycle.at = "file" /\ cycle.groups # {} /\ cycle' = [cycle EXCEPT !.at = "manifest"]
        /\ files' = [m \in DOMAIN files \cup {name} |-> IF m = name THEN new ELSE files[m]]
    BY <1>3 DEF Evidence!WriteSegment, Evidence!At, Evidence!Goto
  <2>2. g \in SUBSET Observations
    BY <2>1, EarliestIs DEF EvidenceInv, EvidenceTypes, GroupsWhole, DayOfDue
  <2>3. new \in Segments /\ new.rows = g
    BY <2>2 DEF Segments
  <2>. HIDE DEF new, name, g
  <2>4. /\ DOMAIN files' = DOMAIN files \cup {name} /\ files' = [n \in DOMAIN files' |-> files'[n]]
        /\ files'[name] = new /\ \A n \in DOMAIN files : files'[n] = files[n]
    BY <1>3, <2>1
  <2>. QED
    BY <1>1, <1>2, <2>1, <2>3, <2>4, EvidenceFiles DEF Archiving, name, g
<1>4. CASE /\ Evidence!WriteSegment /\ name \in DOMAIN files
  <2>1. /\ cycle.at = "file" /\ cycle.groups # {} /\ UNCHANGED files
        /\ \/ cycle' = Evidence!NoCycle
           \/ files[name].rows = g /\ cycle' = [cycle EXCEPT !.at = "manifest"]
    BY <1>4 DEF Evidence!WriteSegment, Evidence!At, Evidence!Goto
  <2>2. CASE cycle' = Evidence!NoCycle
    BY <1>1, <2>1, <2>2, EvidenceEnds
  <2>3. CASE files[name].rows = g /\ cycle' = [cycle EXCEPT !.at = "manifest"]
    <3>. HIDE DEF name, g
    <3>. QED
      BY <1>1, <1>2, <1>4, <2>1, <2>3, EvidenceFiles DEF Archiving, name, g
  <2>. QED
    BY <2>1, <2>2, <2>3
<1>5. CASE Evidence!WriteManifest
  <2>1. /\ cycle.at = "manifest" /\ cycle' = [cycle EXCEPT !.at = "verify"]
        /\ files' = [files EXCEPT ![name].manifest = TRUE]
    BY <1>5 DEF Evidence!WriteManifest, Evidence!At, Evidence!Goto
  <2>2. cycle.groups # {} /\ name \in DOMAIN files /\ files[name].rows = g
    BY <2>1 DEF EvidenceInv, SegmentAtHand
  <2>. DEFINE new == [files[name] EXCEPT !.manifest = TRUE]
  <2>. HIDE DEF name, g
  <2>3. new \in Segments /\ new.rows = files[name].rows /\ new.damage = files[name].damage /\ new.manifest
    BY <1>2, <2>2 DEF Segments
  <2>4. files' = [files EXCEPT ![name] = new]
    BY <2>1
  <2>. HIDE DEF new
  <2>5. /\ DOMAIN files' = DOMAIN files /\ files' = [n \in DOMAIN files' |-> files'[n]]
        /\ files'[name] = new /\ \A n \in DOMAIN files : n # name => files'[n] = files[n]
    BY <1>2, <2>2, <2>4
  <2>. QED
    BY <1>1, <1>2, <2>1, <2>2, <2>3, <2>5, EvidenceFiles DEF Archiving, name, g
<1>. QED
  BY <1>3, <1>4, <1>5


\* What the store, its segments and their copies hold, row by row.
HeldWhere ==
    \A r : r \in Evidence!Held <=>
        \/ r \in rows
        \/ \E n \in DOMAIN files : r \in files[n].rows
        \/ \E n \in DOMAIN copies : r \in copies[n].rows

LEMMA HeldIs == HeldWhere
<1>. DEFINE A == UNION {files[n].rows : n \in DOMAIN files}
            B == UNION {copies[n].rows : n \in DOMAIN copies}
<1>1. \A r : r \in A <=> \E n \in DOMAIN files : r \in files[n].rows
  OBVIOUS
<1>2. \A r : r \in B <=> \E n \in DOMAIN copies : r \in copies[n].rows
  OBVIOUS
<1>3. Evidence!Held = rows \cup A \cup B
  BY DEF Evidence!Held
<1>. HIDE DEF A, B
<1>. QED
  BY <1>1, <1>2, <1>3 DEF HeldWhere

LEMMA HeldTyped == ASSUME EvidenceInv PROVE Evidence!Held \subseteq Observations
<1>1. rows \subseteq Observations
  BY DEF EvidenceInv, EvidenceTypes
<1>2. \A n \in DOMAIN files : files[n].rows \subseteq Observations
  BY DEF EvidenceInv, EvidenceTypes, Segments
<1>3. \A n \in DOMAIN copies : copies[n].rows \subseteq Observations
  BY DEF EvidenceInv, EvidenceTypes, SegmentCopies
<1>4. ASSUME NEW r \in Evidence!Held PROVE r \in Observations
  <2>1. \/ r \in rows
        \/ \E n \in DOMAIN files : r \in files[n].rows
        \/ \E n \in DOMAIN copies : r \in copies[n].rows
    BY HeldIs DEF HeldWhere
  <2>. QED
    BY <1>1, <1>2, <1>3, <2>1
<1>. QED
  BY <1>4

\* New observations take numbers no other has; nothing is open meanwhile.
LEMMA EvidenceInserts ==
    ASSUME EvidenceInv, NEW new \in SUBSET Observations, NEW k \in Nat, nextId <= k,
           \A r \in new : nextId <= r.id /\ r.id < k, \A r, s \in new : r.id = s.id => r = s,
           cycle.at \notin Archiving, cycle'.at \in CycleAt \ Archiving, CycleShape(cycle'),
           cycle'.start = cycle.start, cycle'.received \in Nat, cycle'.add = cycle.add,
           cycle'.groups = cycle.groups, cycle'.removed = cycle.removed,
           cycle.at = "idle" <=> cycle'.at = "idle",
           cycle'.at \in {"observe", "settle", "record"} => cycle.start <= cycle'.received,
           rows' = rows \cup new, nextId' = k, ever' = ever \cup {r.content : r \in new},
           UNCHANGED <<clock, published, files, copies>>
    PROVE  EvidenceInv'
<1>1. EvidenceTypes'
  BY DEF EvidenceInv, EvidenceTypes
<1>2. CycleTypes' /\ AddedNext' /\ NoneOpen' /\ CycleStarts' /\ GroupsWhole' /\ RemovedWhole'
      /\ SegmentAtHand' /\ RemovedFiled'
  BY DEF EvidenceInv, CycleTypes, AddedNext, NoneOpen, CycleStarts, GroupsWhole, RemovedWhole,
     SegmentAtHand, RemovedFiled, Archiving
<1>3. Evidence!Held \subseteq Observations
  BY HeldTyped
<1>4. Evidence!Held' = Evidence!Held \cup new
  BY DEF Evidence!Held
<1>5. /\ \A r \in Evidence!Held : r.id \in Nat /\ r.id < nextId
      /\ \A r \in new : r.id \in Nat
      /\ nextId \in Nat
  BY <1>3 DEF EvidenceInv, EvidenceTypes, Numbered, Observations
<1>6. Numbered'
  <2>1. \A r \in Evidence!Held : r.id < k
    BY <1>5
  <2>. QED
    BY <1>4, <2>1 DEF Numbered
<1>7. Evidence!OneIdentity'
  <2>1. \A r \in Evidence!Held, s \in new : r.id # s.id
    BY <1>5
  <2>2. \A r, s \in Evidence!Held : r.id = s.id => r = s
    BY DEF EvidenceInv, EvidenceKept, Evidence!EvidenceKept, Evidence!OneIdentity
  <2>. QED
    BY <1>4, <2>1, <2>2 DEF Evidence!OneIdentity
<1>8. \A c \in ever' : Evidence!IsKept(c)'
  BY DEF EvidenceInv, EvidenceKept, Evidence!EvidenceKept, Evidence!IsKept, Evidence!Listed
<1>9. SegmentsWhole'
  <2>1. Horizon' = Horizon
    BY DEF Horizon
  <2>2. \A n \in DOMAIN files : files[n].rows \cap new = {}
    <3>1. \A n \in DOMAIN files : \A r \in files[n].rows : r \in Evidence!Held
      BY DEF Evidence!Held
    <3>2. \A r \in Evidence!Held : r \notin new
      BY <1>5
    <3>. QED
      BY <3>1, <3>2
  <2>3. ASSUME NEW n \in DOMAIN files PROVE SegmentWhole(files[n].rows)'
    <3>. HIDE DEF Horizon
    <3>. QED
      BY <2>1, <2>2 DEF EvidenceInv, SegmentsWhole, SegmentWhole
  <2>. QED
    BY <2>3 DEF SegmentsWhole
<1>. QED
  BY <1>1, <1>2, <1>6, <1>7, <1>8, <1>9 DEF EvidenceInv, EvidenceKept, Evidence!EvidenceKept

\* A cycle goes from one place to another and nothing is open.
LEMMA EvidencePlaces ==
    ASSUME EvidenceInv,
           cycle.at \notin Archiving, cycle'.at \in CycleAt \ Archiving, CycleShape(cycle'),
           cycle'.start = cycle.start, cycle'.received \in Nat, cycle'.add = cycle.add,
           cycle'.groups = cycle.groups, cycle'.removed = cycle.removed,
           cycle.at = "idle" <=> cycle'.at = "idle",
           cycle'.at \in {"observe", "settle", "record"} => cycle.start <= cycle'.received,
           UNCHANGED <<rows, nextId, ever, clock, published, files, copies>>
    PROVE  EvidenceInv'
<1>. DEFINE none == {}
<1>1. nextId \in Nat
  BY DEF EvidenceInv, EvidenceTypes
<1>2. /\ rows' = rows \cup none /\ ever' = ever \cup {r.content : r \in none} /\ nextId' = nextId
      /\ none \in SUBSET Observations /\ \A r \in none : nextId <= r.id /\ r.id < nextId
      /\ \A r, s \in none : r.id = s.id => r = s
      /\ nextId <= nextId
  BY <1>1
<1>. HIDE DEF none
<1>. QED
  BY <1>1, <1>2, EvidenceInserts

\* The place of an event among those that are read again.
LEMMA RankIs ==
    ASSUME NEW S \in SUBSET Nat, IsFiniteSet(S)
    PROVE  /\ \A e \in S : Evidence!RankIn(S, e) \in Nat /\ Evidence!RankIn(S, e) < Cardinality(S)
           /\ \A e, f \in S : Evidence!RankIn(S, e) = Evidence!RankIn(S, f) => e = f
<1>. DEFINE Below(e) == {f \in S : f < e}
<1>1. ASSUME NEW e \in S
      PROVE  /\ Evidence!RankIn(S, e) = Cardinality(Below(e)) /\ IsFiniteSet(Below(e))
             /\ Cardinality(Below(e)) \in Nat /\ Cardinality(Below(e)) < Cardinality(S)
  <2>1. Evidence!RankIn(S, e) = Cardinality(Below(e))
    BY EvidenceConstants DEF Evidence!RankIn
  <2>2. Below(e) \in SUBSET S /\ e \notin Below(e)
    OBVIOUS
  <2>. HIDE DEF Below
  <2>3. IsFiniteSet(Below(e)) /\ Cardinality(Below(e)) <= Cardinality(S) /\ Cardinality(Below(e)) # Cardinality(S)
    BY <2>2, FS_Subset
  <2>4. Cardinality(Below(e)) \in Nat /\ Cardinality(S) \in Nat
    BY <2>3, FS_CardinalityType
  <2>. QED
    BY <2>1, <2>3, <2>4
<1>2. ASSUME NEW e \in S, NEW f \in S, e < f PROVE Cardinality(Below(e)) # Cardinality(Below(f))
  <2>1. Below(e) \in SUBSET Below(f) /\ e \in Below(f) /\ e \notin Below(e)
    <3>1. e \in Nat /\ f \in Nat /\ ~(e < e)
      OBVIOUS
    <3>2. ASSUME NEW d \in S, d < e PROVE d < f
      BY <1>2, <3>1, <3>2
    <3>. QED
      BY <1>2, <3>1, <3>2
  <2>2. IsFiniteSet(Below(f))
    BY <1>1
  <2>. HIDE DEF Below
  <2>. QED
    BY <2>1, <2>2, FS_Subset
<1>3. ASSUME NEW e \in S, NEW f \in S, Evidence!RankIn(S, e) = Evidence!RankIn(S, f) PROVE e = f
  <2>1. Cardinality(Below(e)) = Cardinality(Below(f))
    BY <1>1, <1>3
  <2>2. ~(e < f) /\ ~(f < e)
    BY <1>2, <2>1
  <2>. QED
    BY <2>2
<1>. HIDE DEF Below
<1>. QED
  BY <1>1, <1>3

\* A book is one observation, with the next number.
LEMMA EvidenceBooks ==
    ASSUME EvidenceInv, Evidence!PersistBook \/ Evidence!ObserveBook
    PROVE  EvidenceInv'
<1>. DEFINE new == {Evidence!Book}
<1>1. /\ clock \in Nat /\ nextId \in Nat /\ CycleShape(cycle) /\ cycle.received \in Nat /\ cycle.at \in CycleAt
  BY DEF EvidenceInv, EvidenceTypes, CycleTypes
<1>2. Evidence!Book \in Observations /\ Evidence!Book.id = nextId
  BY <1>1 DEF Evidence!Book, Observations, Contents, Evidence!Observed, Evidence!Content
<1>3. /\ new \in SUBSET Observations /\ \A r \in new : nextId <= r.id /\ r.id < nextId + 1
      /\ \A r, s \in new : r.id = s.id => r = s
  BY <1>1, <1>2
<1>4. Evidence!Cardinality(new) = 1
  BY EvidenceConstants, FS_Singleton
<1>. HIDE DEF new
<1>5. CASE UNCHANGED cycle /\ cycle.at = "idle" /\ Evidence!Insert(new) /\ UNCHANGED <<clock, published, files, copies>>
  <2>1. rows' = rows \cup new /\ nextId' = nextId + 1 /\ ever' = ever \cup {r.content : r \in new}
    BY <1>4, <1>5 DEF Evidence!Insert
  <2>. QED
    BY <1>1, <1>3, <1>5, <2>1, EvidenceInserts DEF Archiving
<1>6. CASE Evidence!ObserveBook
  <2>1. /\ cycle.at = "observe" /\ cycle' = [cycle EXCEPT !.at = "settle"]
        /\ UNCHANGED <<clock, published, files, copies>>
    BY <1>6 DEF Evidence!ObserveBook, Evidence!At, Evidence!Goto, Evidence!world, Evidence!disk
  <2>2. /\ CycleShape(cycle') /\ cycle'.at = "settle" /\ cycle'.start = cycle.start
        /\ cycle'.received = cycle.received /\ cycle'.add = cycle.add
        /\ cycle'.groups = cycle.groups /\ cycle'.removed = cycle.removed
    BY <1>1, <2>1, CycleMoves
  <2>3. cycle.start <= cycle.received
    BY <2>1 DEF EvidenceInv, CycleStarts
  <2>4. CASE Evidence!Insert(new)
    <3>1. rows' = rows \cup new /\ nextId' = nextId + 1 /\ ever' = ever \cup {r.content : r \in new}
      BY <1>4, <2>4 DEF Evidence!Insert
    <3>. QED
      BY <1>1, <1>3, <2>1, <2>2, <2>3, <3>1, EvidenceInserts DEF Archiving, CycleAt
  <2>5. CASE UNCHANGED <<rows, nextId, ever>>
    BY <1>1, <2>1, <2>2, <2>3, <2>5, EvidencePlaces DEF Archiving, CycleAt
  <2>. QED
    BY <1>6, <2>4, <2>5 DEF Evidence!ObserveBook, Evidence!store, new
<1>. QED
  BY <1>5, <1>6 DEF Evidence!PersistBook, Evidence!At, Evidence!world, Evidence!disk, new


LEMMA EvidenceScrubs == ASSUME EvidenceInv, Evidence!Scrub \/ Evidence!Check PROVE EvidenceInv'
<1>1. /\ cycle.at \in {"scrub", "check"} /\ UNCHANGED <<rows, nextId, ever, clock, published, files, copies>>
      /\ \/ cycle' = [cycle EXCEPT !.at = "check"]
         \/ cycle' = Received(cycle, clock)
         \/ cycle' = Evidence!NoCycle
  BY DEF Evidence!Scrub, Evidence!Check, Evidence!At, Evidence!Goto, Evidence!world, Evidence!store,
     Evidence!disk, Received
<1>2. CycleShape(cycle) /\ cycle.received \in Nat /\ clock \in Nat /\ cycle.start <= clock
  BY <1>1 DEF EvidenceInv, EvidenceTypes, CycleTypes, CycleStarts
<1>3. CASE cycle' = [cycle EXCEPT !.at = "check"]
  <2>1. /\ CycleShape(cycle') /\ cycle'.at = "check" /\ cycle'.start = cycle.start
        /\ cycle'.received = cycle.received /\ cycle'.add = cycle.add
        /\ cycle'.groups = cycle.groups /\ cycle'.removed = cycle.removed
    BY <1>2, <1>3, CycleMoves
  <2>. QED
    BY <1>1, <1>2, <2>1, EvidencePlaces DEF Archiving, CycleAt
<1>4. CASE cycle' = Received(cycle, clock)
  <2>1. /\ CycleShape(cycle') /\ cycle'.at = "observe" /\ cycle'.start = cycle.start
        /\ cycle'.received = clock /\ cycle'.add = cycle.add
        /\ cycle'.groups = cycle.groups /\ cycle'.removed = cycle.removed
    BY <1>2, <1>4, CycleReceives
  <2>. QED
    BY <1>1, <1>2, <2>1, EvidencePlaces DEF Archiving, CycleAt
<1>. QED
  BY <1>1, <1>3, <1>4, EvidenceEnds

\* The settlements that are read again take the next numbers, in their order.
LEMMA EvidenceSettles == ASSUME EvidenceInv, Evidence!CollectSettlements PROVE EvidenceInv'
<1>1. /\ cycle.at = "settle" /\ cycle' = [cycle EXCEPT !.at = "record"]
      /\ UNCHANGED <<clock, published, files, copies>>
  BY DEF Evidence!CollectSettlements, Evidence!At, Evidence!Goto, Evidence!world, Evidence!disk
<1>2. /\ CycleShape(cycle) /\ cycle.received \in Nat /\ clock \in Nat /\ nextId \in Nat
      /\ published \in [Event -> Nat] /\ cycle.start <= cycle.received
  BY <1>1 DEF EvidenceInv, EvidenceTypes, CycleTypes, CycleStarts
<1>3. /\ CycleShape(cycle') /\ cycle'.at = "record" /\ cycle'.start = cycle.start
      /\ cycle'.received = cycle.received /\ cycle'.add = cycle.add
      /\ cycle'.groups = cycle.groups /\ cycle'.removed = cycle.removed
  BY <1>1, <1>2, CycleMoves
<1>4. CASE UNCHANGED <<rows, nextId, ever>>
  BY <1>1, <1>2, <1>3, <1>4, EvidencePlaces DEF Archiving, CycleAt
<1>5. CASE ~UNCHANGED <<rows, nextId, ever>>
  <2>. DEFINE S == Evidence!Readable
              row(e) == Evidence!Observed(nextId + Evidence!RankIn(S, e),
                           Evidence!Content("settlement", e, published[e], clock), clock)
              f == [e \in S |-> row(e)]
              new == {row(e) : e \in S}
  <2>1. Evidence!Insert(new)
    BY <1>5 DEF Evidence!CollectSettlements, Evidence!store
  <2>2. S \in SUBSET Nat /\ S \subseteq Event /\ IsFiniteSet(S)
    <3>1. S \in SUBSET Event
      BY DEF Evidence!Readable
    <3>. HIDE DEF S
    <3>. QED
      BY <3>1, EvidenceConstants, FS_Subset
  <2>3. /\ \A e \in S : Evidence!RankIn(S, e) \in Nat /\ Evidence!RankIn(S, e) < Cardinality(S)
        /\ \A e, d \in S : Evidence!RankIn(S, e) = Evidence!RankIn(S, d) => e = d
    <3>. HIDE DEF S
    <3>. QED
      BY <2>2, RankIs
  <2>. HIDE DEF S
  <2>4. Cardinality(S) \in Nat
    BY <2>2, FS_CardinalityType
  <2>5. \A e \in S : /\ row(e) \in Observations /\ row(e).id = nextId + Evidence!RankIn(S, e)
                     /\ nextId <= row(e).id /\ row(e).id < nextId + Cardinality(S)
    <3>. SUFFICES ASSUME NEW e \in S
                  PROVE  /\ row(e) \in Observations /\ row(e).id = nextId + Evidence!RankIn(S, e)
                         /\ nextId <= row(e).id /\ row(e).id < nextId + Cardinality(S)
      OBVIOUS
    <3>1. Evidence!RankIn(S, e) \in Nat /\ Evidence!RankIn(S, e) < Cardinality(S)
      BY <2>3
    <3>2. row(e).id = nextId + Evidence!RankIn(S, e)
      BY DEF Evidence!Observed
    <3>3. row(e) \in Observations
      BY <1>2, <2>2, <3>1 DEF Observations, Contents, Evidence!Observed, Evidence!Content
    <3>. HIDE DEF row
    <3>. QED
      BY <1>2, <2>4, <3>1, <3>2, <3>3
  <2>. HIDE DEF row
  <2>6. \A e, d \in S : row(e).id = row(d).id => e = d
    BY <1>2, <2>3, <2>5
  <2>7. /\ new \in SUBSET Observations
        /\ \A r \in new : nextId <= r.id /\ r.id < nextId + Cardinality(S)
        /\ \A r, q \in new : r.id = q.id => r = q
    BY <2>5, <2>6
  <2>8. Cardinality(new) = Cardinality(S)
    <3>1. \A e \in S : f[e] = row(e)
      OBVIOUS
    <3>2. f \in [S -> new] /\ \A r \in new : \E e \in S : f[e] = r
      OBVIOUS
    <3>3. \A e, d \in S : f[e] = f[d] => e = d
      BY <2>6, <3>1
    <3>. HIDE DEF f, new
    <3>4. f \in Surjection(S, new) /\ f \in Injection(S, new)
      BY <3>2, <3>3 DEF Surjection, Injection, IsInjective
    <3>. QED
      BY <2>2, <3>4, FS_Surjection
  <2>. HIDE DEF new
  <2>9. rows' = rows \cup new /\ nextId' = nextId + Cardinality(S) /\ ever' = ever \cup {r.content : r \in new}
    BY <2>1, <2>8, EvidenceConstants DEF Evidence!Insert
  <2>10. nextId + Cardinality(S) \in Nat /\ nextId <= nextId + Cardinality(S)
    BY <1>2, <2>4
  <2>. QED
    BY <1>1, <1>2, <1>3, <2>7, <2>9, <2>10, EvidenceInserts DEF Archiving, CycleAt
<1>. QED
  BY <1>4, <1>5


\* What a transaction removes is filed: its segments verified, and hold
\* whole days of what was due.
LEMMA EvidenceCommits == ASSUME EvidenceInv, Evidence!Commit PROVE EvidenceInv'
<1>. DEFINE add == cycle.add
            gone == cycle.removed
            k == Committed(Evidence!NoCycle, cycle.start)
<1>1. /\ cycle.at = "file" /\ UNCHANGED <<clock, published, files, copies>>
      /\ rows' = (rows \cup add) \ gone /\ nextId' = nextId + Cardinality(add)
      /\ ever' = ever \cup {r.content : r \in add}
      /\ cycle' \in {Evidence!NoCycle, k}
  BY EvidenceConstants
     DEF Evidence!Commit, Evidence!At, Evidence!world, Evidence!disk, Committed
<1>2. /\ nextId \in Nat /\ clock \in Nat /\ rows \in SUBSET Observations /\ add \in SUBSET Observations
      /\ cycle.start \in Nat /\ cycle.start <= clock
  BY <1>1 DEF EvidenceInv, EvidenceTypes, CycleTypes, CycleStarts
<1>3. nextId' \in Nat /\ nextId <= nextId' /\ \A r \in add : r.id = nextId /\ r.id < nextId'
  <2>1. CASE add = {}
    BY <1>1, <1>2, <2>1, FS_EmptySet
  <2>2. CASE add # {}
    <3>1. PICK r \in Observations : add = {r} /\ r.id = nextId
      BY <2>2 DEF EvidenceInv, AddedNext
    <3>2. Cardinality(add) = 1
      BY <3>1, FS_Singleton
    <3>. QED
      BY <1>1, <1>2, <3>1, <3>2
  <2>. QED
    BY <2>1, <2>2
<1>4. \A r, q \in add : r = q
  BY DEF EvidenceInv, AddedNext
<1>5. gone \subseteq rows
  BY DEF EvidenceInv, RemovedWhole
<1>6. \A r \in Evidence!Held : r.id \in Nat /\ r.id < nextId /\ r \notin add
  <2>1. \A r \in Evidence!Held : r \in Observations
    BY HeldTyped
  <2>. QED
    BY <1>2, <1>3, <2>1 DEF EvidenceInv, Numbered, Observations
<1>7. \A r \in Evidence!Held' : r \in Evidence!Held \/ r \in add
  BY <1>1 DEF Evidence!Held
<1>. HIDE DEF add, gone, k
<1>8. EvidenceTypes'
  BY <1>1, <1>2, <1>3 DEF EvidenceInv, EvidenceTypes
<1>9. Numbered'
  <2>1. \A r \in Evidence!Held : r.id < nextId'
    BY <1>2, <1>3, <1>6
  <2>. QED
    BY <1>3, <1>7, <2>1 DEF Numbered
<1>10. Evidence!OneIdentity'
  <2>1. \A r, q \in Evidence!Held : r.id = q.id => r = q
    BY DEF EvidenceInv, EvidenceKept, Evidence!EvidenceKept, Evidence!OneIdentity
  <2>2. \A r \in Evidence!Held, q \in add : r.id # q.id
    BY <1>2, <1>3, <1>6
  <2>. QED
    BY <1>4, <1>7, <2>1, <2>2 DEF Evidence!OneIdentity
<1>11. \A c \in ever' : Evidence!IsKept(c)'
  <2>. SUFFICES ASSUME NEW c \in ever' PROVE Evidence!IsKept(c)'
    OBVIOUS
  <2>1. Evidence!Listed' = Evidence!Listed
    BY <1>1 DEF Evidence!Listed
  <2>2. ASSUME NEW n \in Evidence!Listed, files[n].damage # "early", NEW r \in files[n].rows, c = r.content
        PROVE  Evidence!IsKept(c)'
    BY <1>1, <2>1, <2>2 DEF Evidence!IsKept
  <2>3. ASSUME NEW r \in rows', c = r.content PROVE Evidence!IsKept(c)'
    BY <2>3 DEF Evidence!IsKept
  <2>4. CASE \E r \in add : c = r.content
    <3>1. PICK r \in add : c = r.content
      BY <2>4
    <3>2. r \in rows'
      BY <1>1, <1>5, <1>6 DEF Evidence!Held
    <3>. QED
      BY <2>3, <3>1, <3>2
  <2>5. CASE \E r \in rows : c = r.content
    <3>1. PICK r \in rows : c = r.content
      BY <2>5
    <3>2. CASE r \in gone
      BY <2>2, <3>1, <3>2 DEF EvidenceInv, RemovedFiled, gone
    <3>3. CASE r \notin gone
      BY <1>1, <2>3, <3>1, <3>3
    <3>. QED
      BY <3>2, <3>3
  <2>6. CASE c \in ever
    <3>1. Evidence!IsKept(c)
      BY <2>6 DEF EvidenceInv, EvidenceKept, Evidence!EvidenceKept
    <3>. QED
      BY <2>2, <2>5, <3>1 DEF Evidence!IsKept
  <2>. QED
    BY <1>1, <2>4, <2>6
<1>12. /\ CycleShape(cycle') /\ cycle'.at \in {"idle", "scrub"} /\ cycle'.add = {}
       /\ cycle'.groups = {} /\ cycle'.removed = {} /\ cycle'.received = 0
       /\ cycle'.start \in {0, cycle.start} /\ (cycle'.at = "scrub" => cycle'.start = cycle.start)
  <2>1. CASE cycle' = Evidence!NoCycle
    BY <2>1, NoCycleIs
  <2>2. CASE cycle' = k
    BY <2>2, NoCycleIs, CycleCommits DEF k
  <2>. QED
    BY <1>1, <2>1, <2>2
<1>13. CycleTypes' /\ AddedNext' /\ NoneOpen' /\ CycleStarts' /\ GroupsWhole' /\ RemovedWhole'
       /\ SegmentAtHand' /\ RemovedFiled'
  BY <1>1, <1>2, <1>12 DEF CycleTypes, CycleAt, AddedNext, NoneOpen, CycleStarts, GroupsWhole,
     RemovedWhole, SegmentAtHand, RemovedFiled, Archiving
<1>14. SegmentsWhole'
  <2>1. Horizon = cycle.start /\ Horizon' \in Nat /\ cycle.start <= Horizon'
    BY <1>1, <1>2, <1>12 DEF Horizon
  <2>. SUFFICES ASSUME NEW n \in DOMAIN files PROVE SegmentWhole(files[n].rows)'
    BY <1>1 DEF SegmentsWhole
  <2>. DEFINE S == files[n].rows
  <2>2. /\ \A r \in S : r \in Observations /\ r.at + Age < cycle.start
        /\ \A r, q \in S : Evidence!Day(r.at) = Evidence!Day(q.at)
        /\ S \subseteq rows \/ S \cap rows = {}
        /\ \A r \in S : r \notin add
    <3>1. \A r \in S : r \in Evidence!Held
      BY DEF Evidence!Held
    <3>. QED
      BY <1>6, <2>1, <3>1, HeldTyped DEF EvidenceInv, SegmentsWhole, SegmentWhole
  <2>. HIDE DEF Horizon
  <2>3. \A r \in S : r.at + Age < Horizon'
    BY <1>2, <2>1, <2>2, EvidenceConstants DEF Observations
  <2>4. S \subseteq rows' \/ S \cap rows' = {}
    <3>1. CASE \E r \in S : r \in gone
      <4>1. PICK r \in S : r \in gone
        BY <3>1
      <4>2. S \subseteq rows
        BY <1>5, <2>2, <4>1
      <4>3. S \subseteq DayOfDue(Evidence!Day(r.at))
        BY <2>2, <4>2 DEF DayOfDue
      <4>4. S \subseteq gone
        BY <4>1, <4>3 DEF EvidenceInv, RemovedWhole, gone
      <4>. QED
        BY <1>1, <4>4
    <3>2. CASE \A r \in S : r \notin gone
      BY <1>1, <2>2, <3>2
    <3>. QED
      BY <3>1, <3>2
  <2>. QED
    BY <1>1, <2>2, <2>3, <2>4 DEF SegmentWhole
<1>. QED
  BY <1>8, <1>9, <1>10, <1>11, <1>13, <1>14 DEF EvidenceInv, EvidenceKept, Evidence!EvidenceKept

\* The disk damages a segment: late when its rows are gone, or go with the
\* transaction that verified it.
LEMMA EvidenceDamages == ASSUME EvidenceInv, NEW n \in DOMAIN files, Evidence!Damage(n) PROVE EvidenceInv'
<1>1. UNCHANGED <<clock, published, rows, nextId, ever, copies, cycle>>
  BY DEF Evidence!Damage, Evidence!world, Evidence!store
<1>2. PICK how \in {"early", "late"} :
        /\ files' = [files EXCEPT ![n].damage = how]
        /\ how = "early" <=> ~(files[n].rows \cap rows \subseteq cycle.removed)
  BY DEF Evidence!Damage
<1>. DEFINE new == [files[n] EXCEPT !.damage = how]
<1>3. files = [m \in DOMAIN files |-> files[m]] /\ files[n] \in Segments
  BY DEF EvidenceInv, EvidenceTypes
<1>4. new \in Segments /\ new.rows = files[n].rows /\ new.manifest = files[n].manifest /\ new.damage = how
  BY <1>3 DEF Segments
<1>5. files' = [files EXCEPT ![n] = new]
  BY <1>2
<1>. HIDE DEF new
<1>6. /\ DOMAIN files' = DOMAIN files /\ files'[n] = new
      /\ \A m \in DOMAIN files : m # n => files'[m] = files[m]
      /\ files' = [m \in DOMAIN files' |-> files'[m]]
  BY <1>3, <1>5
<1>7. /\ Evidence!Listed' = Evidence!Listed
      /\ \A m \in DOMAIN files : files'[m].rows = files[m].rows /\ files'[m].manifest = files[m].manifest
  BY <1>4, <1>6 DEF Evidence!Listed
<1>8. EvidenceTypes'
  BY <1>1, <1>4, <1>6 DEF EvidenceInv, EvidenceTypes
<1>9. Numbered' /\ Evidence!OneIdentity'
  <2>1. \A r \in Evidence!Held' : r \in Evidence!Held
    BY <1>1, <1>6, <1>7 DEF Evidence!Held
  <2>. QED
    BY <1>1, <2>1 DEF EvidenceInv, Numbered, EvidenceKept, Evidence!EvidenceKept, Evidence!OneIdentity
<1>10. \A c \in ever' : Evidence!IsKept(c)'
  <2>. SUFFICES ASSUME NEW c \in ever PROVE Evidence!IsKept(c)'
    BY <1>1
  <2>1. Evidence!IsKept(c)
    BY DEF EvidenceInv, EvidenceKept, Evidence!EvidenceKept
  <2>2. CASE c \in {r.content : r \in rows}
    BY <1>1, <2>2 DEF Evidence!IsKept
  <2>3. CASE \E m \in Evidence!Listed : files[m].damage # "early" /\ c \in {r.content : r \in files[m].rows}
    <3>1. PICK m \in Evidence!Listed : files[m].damage # "early" /\ c \in {r.content : r \in files[m].rows}
      BY <2>3
    <3>2. m \in DOMAIN files
      BY DEF Evidence!Listed
    <3>3. CASE m # n \/ how = "late"
      <4>1. files'[m].damage # "early" /\ files'[m].rows = files[m].rows
        BY <1>4, <1>6, <1>7, <3>1, <3>2, <3>3
      <4>. QED
        BY <1>7, <3>1, <4>1 DEF Evidence!IsKept
    <3>4. CASE m = n /\ how = "early"
      <4>1. files[m].rows \cap rows # {}
        BY <1>2, <3>4
      <4>2. files[m].rows \subseteq rows
        BY <3>2, <4>1 DEF EvidenceInv, SegmentsWhole, SegmentWhole
      <4>3. c \in {r.content : r \in rows}
        BY <3>1, <4>2
      <4>. QED
        BY <2>2, <4>3
    <3>. QED
      BY <1>2, <3>3, <3>4
  <2>. QED
    BY <2>1, <2>2, <2>3 DEF Evidence!IsKept
<1>11. CycleTypes' /\ AddedNext' /\ NoneOpen' /\ CycleStarts' /\ GroupsWhole' /\ RemovedWhole'
  BY <1>1 DEF EvidenceInv, CycleTypes, AddedNext, NoneOpen, CycleStarts, GroupsWhole, RemovedWhole, DayOfDue
<1>12. SegmentsWhole'
  BY <1>1, <1>6, <1>7 DEF EvidenceInv, SegmentsWhole, SegmentWhole, Horizon
<1>13. SegmentAtHand'
  <2>1. Evidence!Earliest' = Evidence!Earliest
    BY <1>1 DEF Evidence!Earliest
  <2>. QED
    BY <1>1, <1>6, <1>7, <2>1 DEF EvidenceInv, SegmentAtHand
<1>14. RemovedFiled'
  <2>. SUFFICES ASSUME NEW r \in cycle.removed
                PROVE  \E m \in Evidence!Listed : r \in files'[m].rows /\ files'[m].rows \subseteq cycle.removed
                                                 /\ files'[m].damage # "early"
    BY <1>1, <1>7 DEF RemovedFiled
  <2>1. PICK m \in Evidence!Listed : /\ r \in files[m].rows /\ files[m].rows \subseteq cycle.removed
                                     /\ files[m].damage # "early"
    BY DEF EvidenceInv, RemovedFiled
  <2>2. m \in DOMAIN files
    BY DEF Evidence!Listed
  <2>3. m = n => how = "late"
    BY <1>2, <2>1
  <2>4. files'[m].damage # "early" /\ files'[m].rows = files[m].rows
    BY <1>4, <1>6, <1>7, <2>1, <2>2, <2>3
  <2>. QED
    BY <2>1, <2>4
<1>. QED
  BY <1>8, <1>9, <1>10, <1>11, <1>12, <1>13, <1>14 DEF EvidenceInv, EvidenceKept, Evidence!EvidenceKept


\* The copy of a segment holds what the segment holds.
LEMMA EvidenceCopies == ASSUME EvidenceInv, NEW n \in DOMAIN files, Evidence!CopySegment(n) PROVE EvidenceInv'
<1>1. UNCHANGED <<clock, published, rows, nextId, ever, files, cycle>>
  BY DEF Evidence!CopySegment, Evidence!world, Evidence!store
<1>2. /\ copies = [m \in DOMAIN copies |-> copies[m]] /\ \A m \in DOMAIN copies : copies[m] \in SegmentCopies
      /\ files[n].rows \in SUBSET Observations
  BY DEF EvidenceInv, EvidenceTypes, Segments
<1>3. /\ copies' = [m \in DOMAIN copies' |-> copies'[m]]
      /\ \A m \in DOMAIN copies' : /\ copies'[m] \in SegmentCopies
                                   /\ \/ copies'[m].rows = files[n].rows
                                      \/ m \in DOMAIN copies /\ copies'[m].rows = copies[m].rows
  <2>1. CASE /\ n \notin DOMAIN copies
             /\ copies' = [m \in DOMAIN copies \cup {n} |->
                             IF m = n THEN [rows |-> files[n].rows, manifest |-> FALSE] ELSE copies[m]]
    <3>. DEFINE new == [rows |-> files[n].rows, manifest |-> FALSE]
    <3>1. new \in SegmentCopies /\ new.rows = files[n].rows
      BY <1>2 DEF SegmentCopies
    <3>. HIDE DEF new
    <3>2. copies' = [m \in DOMAIN copies \cup {n} |-> IF m = n THEN new ELSE copies[m]]
      BY <2>1 DEF new
    <3>. QED
      BY <1>2, <2>1, <3>1, <3>2
  <2>2. CASE n \in DOMAIN copies /\ copies' = [copies EXCEPT ![n].manifest = TRUE]
    <3>. DEFINE new == [copies[n] EXCEPT !.manifest = TRUE]
    <3>1. new \in SegmentCopies /\ new.rows = copies[n].rows
      BY <1>2, <2>2 DEF SegmentCopies
    <3>2. copies' = [copies EXCEPT ![n] = new]
      BY <2>2
    <3>. HIDE DEF new
    <3>. QED
      BY <1>2, <2>2, <3>1, <3>2
  <2>. QED
    BY <2>1, <2>2 DEF Evidence!CopySegment
<1>4. EvidenceTypes'
  BY <1>1, <1>3 DEF EvidenceInv, EvidenceTypes
<1>5. \A r \in Evidence!Held' : r \in Evidence!Held
  <2>1. HeldWhere'
    BY HeldIs, PTL
  <2>. QED
    BY <1>1, <1>3, <2>1, HeldIs DEF HeldWhere
<1>6. Numbered' /\ Evidence!OneIdentity'
  BY <1>1, <1>5 DEF EvidenceInv, Numbered, EvidenceKept, Evidence!EvidenceKept, Evidence!OneIdentity
<1>7. \A c \in ever' : Evidence!IsKept(c)'
  BY <1>1 DEF EvidenceInv, EvidenceKept, Evidence!EvidenceKept, Evidence!IsKept, Evidence!Listed
<1>8. CycleTypes' /\ AddedNext' /\ NoneOpen' /\ CycleStarts' /\ GroupsWhole' /\ RemovedWhole'
      /\ SegmentsWhole'
  BY <1>1 DEF EvidenceInv, CycleTypes, AddedNext, NoneOpen, CycleStarts, GroupsWhole, RemovedWhole,
     DayOfDue, SegmentsWhole, SegmentWhole, Horizon
<1>9. SegmentAtHand' /\ RemovedFiled'
  BY <1>1 DEF EvidenceInv, SegmentAtHand, RemovedFiled, Evidence!Earliest, Evidence!Listed
<1>. QED
  BY <1>4, <1>6, <1>7, <1>8, <1>9 DEF EvidenceInv, EvidenceKept, Evidence!EvidenceKept

\* Time passes and the venue publishes: what is due only grows.
LEMMA EvidenceWorld ==
    ASSUME EvidenceInv, clock' \in Nat, clock <= clock', published' \in [Event -> Nat],
           UNCHANGED <<rows, nextId, ever, files, copies, cycle>>
    PROVE  EvidenceInv'
<1>1. EvidenceTypes'
  BY DEF EvidenceInv, EvidenceTypes
<1>2. Numbered' /\ EvidenceKept'
  BY DEF EvidenceInv, Numbered, EvidenceKept, Evidence!EvidenceKept, Evidence!OneIdentity,
     Evidence!Held, Evidence!IsKept, Evidence!Listed
<1>3. CycleTypes' /\ AddedNext' /\ NoneOpen' /\ GroupsWhole' /\ RemovedWhole'
  BY DEF EvidenceInv, CycleTypes, AddedNext, NoneOpen, GroupsWhole, RemovedWhole, DayOfDue
<1>4. CycleStarts'
  BY DEF EvidenceInv, EvidenceTypes, CycleTypes, CycleStarts
<1>5. SegmentAtHand' /\ RemovedFiled'
  BY DEF EvidenceInv, SegmentAtHand, RemovedFiled, Evidence!Earliest, Evidence!Listed
<1>6. SegmentsWhole'
  <2>1. Horizon \in Nat /\ Horizon' \in Nat /\ Horizon <= Horizon' /\ Age \in Nat
    BY EvidenceConstants DEF EvidenceInv, EvidenceTypes, CycleTypes, Horizon
  <2>2. \A n \in DOMAIN files : \A r \in files[n].rows : r.at \in Nat /\ r.at + Age < Horizon
    BY DEF EvidenceInv, EvidenceTypes, SegmentsWhole, SegmentWhole, Segments, Observations
  <2>. HIDE DEF Horizon
  <2>3. \A n \in DOMAIN files : \A r \in files[n].rows : r.at + Age < Horizon'
    BY <2>1, <2>2
  <2>. QED
    BY <2>3 DEF EvidenceInv, SegmentsWhole, SegmentWhole
<1>. QED
  BY <1>1, <1>2, <1>3, <1>4, <1>5, <1>6 DEF EvidenceInv

LEMMA EvidenceInit == Evidence!Init => EvidenceInv
<1>. SUFFICES ASSUME Evidence!Init PROVE EvidenceInv
  OBVIOUS
<1>1. rows = {} /\ ever = {} /\ DOMAIN files = {} /\ DOMAIN copies = {} /\ cycle = Evidence!NoCycle
  BY DEF Evidence!Init
<1>2. EvidenceTypes
  BY DEF Evidence!Init, EvidenceTypes
<1>3. Evidence!Held = {}
  BY <1>1 DEF Evidence!Held
<1>4. Numbered /\ EvidenceKept
  BY <1>1, <1>3 DEF Numbered, EvidenceKept, Evidence!EvidenceKept, Evidence!OneIdentity
<1>5. CycleTypes /\ AddedNext /\ NoneOpen /\ CycleStarts /\ GroupsWhole /\ RemovedWhole /\ SegmentAtHand
      /\ RemovedFiled
  BY <1>1, NoCycleIs DEF CycleTypes, CycleAt, AddedNext, NoneOpen, CycleStarts, GroupsWhole,
     RemovedWhole, SegmentAtHand, RemovedFiled, Archiving
<1>6. SegmentsWhole
  BY <1>1 DEF SegmentsWhole
<1>. QED
  BY <1>2, <1>4, <1>5, <1>6 DEF EvidenceInv

LEMMA EvidenceFrame == EvidenceInv /\ UNCHANGED evidence => EvidenceInv'
<1>. SUFFICES ASSUME EvidenceInv, UNCHANGED evidence PROVE EvidenceInv'
  OBVIOUS
<1>1. UNCHANGED <<clock, published, rows, nextId, ever, files, copies, cycle>>
  BY DEF evidence
<1>2. clock \in Nat /\ published \in [Event -> Nat]
  BY DEF EvidenceInv, EvidenceTypes
<1>. QED
  BY <1>1, <1>2, EvidenceWorld

LEMMA EvidenceStep == EvidenceInv /\ [Evidence!Next]_(Evidence!vars) => EvidenceInv'
<1>. SUFFICES ASSUME EvidenceInv, [Evidence!Next]_(Evidence!vars) PROVE EvidenceInv'
  OBVIOUS
<1>1. CASE UNCHANGED evidence
  BY <1>1, EvidenceFrame
<1>2. CASE Evidence!GiveUp
  BY <1>2, EvidenceEnds DEF Evidence!GiveUp, Evidence!world, Evidence!store, Evidence!disk
<1>3. CASE Evidence!Tick
  BY <1>3, EvidenceWorld DEF Evidence!Tick, Evidence!store, Evidence!disk, EvidenceInv, EvidenceTypes
<1>4. ASSUME NEW e \in Event, Evidence!Publish(e) PROVE EvidenceInv'
  BY <1>4, EvidenceWorld DEF Evidence!Publish, Evidence!store, Evidence!disk, EvidenceInv, EvidenceTypes
<1>5. ASSUME NEW n \in DOMAIN files, Evidence!CopySegment(n) \/ Evidence!Damage(n) PROVE EvidenceInv'
  BY <1>5, EvidenceCopies, EvidenceDamages
<1>. QED
  BY <1>1, <1>2, <1>3, <1>4, <1>5, EvidenceBegins, EvidenceWrites, EvidenceVerifies, EvidenceCommits,
     EvidenceScrubs, EvidenceBooks, EvidenceSettles, EvidenceRecords
     DEF Evidence!Next, Evidence!vars, evidence

\* Nothing recorded is lost but to a disk that damages a segment after it
\* verified, and the segments and their copies can be restored together
\* (carry_dated_collector.py archive_collected, backup_evidence).
THEOREM EvidenceStaysKept == ToolsSpec => []EvidenceKept
<1>1. [ToolsNext]_toolVars => [Evidence!Next]_(Evidence!vars) \/ UNCHANGED evidence
  BY DEF ToolsNext, Deploying, Recovering, OpeningStore, Searching, Sealed, Collecting,
         CuttingOver, toolVars
<1>2. EvidenceInv /\ [ToolsNext]_toolVars => EvidenceInv'
  BY <1>1, EvidenceStep, EvidenceFrame
<1>3. ToolsInit => EvidenceInv
  BY EvidenceInit DEF ToolsInit
<1>. QED
  BY <1>2, <1>3, PTL DEF ToolsSpec, EvidenceInv

=============================================================================
