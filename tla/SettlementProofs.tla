-------------------------- MODULE SettlementProofs --------------------------
(***************************************************************************)
(* What is settled with a venue that publishes late and may repeat or      *)
(* correct itself: the variations of the dated carry, then the executions  *)
(* of an external order.                                                   *)
(*                                                                         *)
(* The dated carry keeps its account and its hedge for every quantity,     *)
(* tolerance, expiry and bound.  Few steps touch the account (an entry     *)
(* opens it, a settlement writes it) and few touch the legs (the fills):   *)
(* there is one lemma for each way a checkpoint is rewritten and one for   *)
(* each kind of step, and the steps of a cycle are instances of them.      *)
(*                                                                         *)
(* The settlement of an order judges all that the venue ever told of it:   *)
(* quantities are counted lot by lot, so that rows of different trades     *)
(* that add up to the commitment are all of its trades.                    *)
(***************************************************************************)
EXTENDS DatedCarry, SettlementPass, FiniteSetTheorems, WellFoundedInduction, TLAPS

-----------------------------------------------------------------------------
(* The invariant. *)

Due(d) == led.audit # 0 /\ led.audit <= d /\ d <= led.last

\* The cursors of a position: it audits from the first settlement it booked,
\* and reads an expired contract's history only from there.
Cursors ==
    /\ led.audit = 0 <=> led.last = 0
    /\ led.audit <= led.last /\ led.last <= day /\ led.opened <= day
    /\ led.audit # 0 => led.opened < led.audit
    /\ pc = "settle" /\ led.audit = 0 => day < Expiry

\* What was booked had been published.
Published == \A d \in Day : Due(d) => history[d] # 0

\* What each step knows of the legs.
StepFits ==
    /\ led.status = "FLAT" => led.spot = 0 /\ led.future = 0
    /\ pc = "buy" => led.status = "OPENING" /\ led.spot = 0 /\ led.future = 0
    /\ pc = "hedge" => led.status = "OPENING" /\ led.spot \in Preflighted /\ led.future = 0
    /\ pc \in {"sell", "liquidate"} => led.future = 0
    /\ pc \in {"cover", "sell"} => led.status # "FLAT"

DatedInv == TypeOK /\ Cursors /\ Published /\ StepFits /\ VariationsExact /\ NeverNakedShort

-----------------------------------------------------------------------------
(* The checkpoint. *)

LEMMA Constants ==
    /\ Qty \in Nat /\ Qty > 0 /\ Minimum \in Nat /\ Minimum > 0
    /\ Tolerance \in Nat /\ Tolerance < Qty /\ Expiry \in Nat /\ Expiry > 0
    /\ MaxEntry \in Nat /\ MaxFailure \in Nat
BY QtyAssumption, ToleranceAssumption, ExpiryAssumption, BoundAssumption

\* The accounting of a checkpoint, which only an entry and a settlement touch.
SameAccount(l, m) ==
    m.opened = l.opened /\ m.audit = l.audit /\ m.last = l.last /\ m.settled = l.settled
SameLegs(l, m) == m.spot = l.spot /\ m.future = l.future

LEMMA Fields ==
    ASSUME NEW l \in Checkpoint
    PROVE  /\ l.status \in Status /\ l.spot \in 0..Qty /\ l.future \in 0..Qty /\ l.dust \in Nat
           /\ l.saga \in Saga /\ l.incident \in Incident /\ l.operational \in BOOLEAN
           /\ l.cash \in Cash /\ l.reserved \in BOOLEAN /\ l.uncertain \in BOOLEAN
           /\ l.opened \in 0..Expiry /\ l.audit \in 0..Expiry /\ l.last \in 0..Expiry
           /\ l.settled \in [Day -> Nat]
BY DEF Checkpoint

LEMMA Made ==
    ASSUME NEW a \in Status, NEW b \in 0..Qty, NEW c \in 0..Qty, NEW d \in Nat, NEW e \in Saga,
           NEW f \in Incident, NEW g \in BOOLEAN, NEW h \in Cash, NEW i \in BOOLEAN,
           NEW j \in BOOLEAN, NEW k \in 0..Expiry, NEW m \in 0..Expiry, NEW n \in 0..Expiry,
           NEW o \in [Day -> Nat]
    PROVE  [status |-> a, spot |-> b, future |-> c, dust |-> d, saga |-> e, incident |-> f,
            operational |-> g, cash |-> h, reserved |-> i, uncertain |-> j, opened |-> k,
            audit |-> m, last |-> n, settled |-> o] \in Checkpoint
BY DEF Checkpoint

\* One lemma for each way a checkpoint is rewritten.
LEMMA FlatIs ==
    ASSUME NEW l \in Checkpoint
    PROVE  /\ Flat(l) \in Checkpoint /\ SameAccount(l, Flat(l))
           /\ Flat(l).status = "FLAT" /\ Flat(l).spot = 0 /\ Flat(l).future = 0 /\ Flat(l).dust = l.dust
<1>1. 0 \in 0..Qty
  BY Constants
<1>. QED
  BY <1>1 DEF Checkpoint, Flat, SameAccount, Status, Saga, Incident, Cash

LEMMA PendingIs ==
    ASSUME NEW l \in Checkpoint, NEW o \in BOOLEAN
    PROVE  LET m == SettlementPending(l, o)
           IN  /\ m \in Checkpoint /\ SameAccount(l, m) /\ SameLegs(l, m)
               /\ m.status \in {l.status, "SETTLEMENT_PENDING"}
BY DEF Checkpoint, SettlementPending, SameAccount, SameLegs, Status, Incident

LEMMA CloseIs ==
    ASSUME NEW l \in Checkpoint
    PROVE  LET m == BeginClose(l)
           IN  m \in Checkpoint /\ SameAccount(l, m) /\ SameLegs(l, m) /\ m.status = "CLOSING"
BY DEF Checkpoint, BeginClose, SameAccount, SameLegs, Status, Saga

LEMMA OpenIs ==
    ASSUME NEW l \in Checkpoint
    PROVE  LET m == MarkOpen(l)
           IN  m \in Checkpoint /\ SameAccount(l, m) /\ SameLegs(l, m) /\ m.status = "OPEN"
BY DEF Checkpoint, MarkOpen, SameAccount, SameLegs, Status, Saga, Incident

LEMMA ResumedIs ==
    ASSUME NEW l \in Checkpoint
    PROVE  LET m == Resumed(l)
           IN  /\ m \in Checkpoint /\ SameAccount(l, m) /\ SameLegs(l, m)
               /\ m.status \in {l.status, "OPEN"}
BY DEF Checkpoint, Resumed, SameAccount, SameLegs, Status, Incident

LEMMA FilledIs ==
    ASSUME NEW l \in Checkpoint, l.status # "FLAT", NEW s \in 0..Qty, NEW f \in 0..Qty, NEW c \in Cash
    PROVE  LET m == Filled(l, s, f, c)
           IN  /\ m \in Checkpoint /\ SameAccount(l, m) /\ m.spot = s /\ m.future = f
               /\ m.status = "FLAT" => s = 0 /\ f = 0
               /\ l.status = "OPENING" /\ s + f > 0 /\ c = "ok" /\ ~Mismatched(s, f)
                    => m.status = "OPENING"
<1>. DEFINE after == [l EXCEPT !.spot = s, !.future = f, !.cash = c,
                               !.reserved = f > 0 \/ (@ /\ l.future = 0)]
            unbalanced(i) == [after EXCEPT !.status = "UNBALANCED", !.incident = i]
<1>1. after \in Checkpoint /\ SameAccount(l, after) /\ after.spot = s /\ after.future = f /\ after.status = l.status
  <2>1. PICK r \in BOOLEAN : r = (f > 0 \/ (l.reserved /\ l.future = 0))
    OBVIOUS
  <2>2. after = [l EXCEPT !.spot = s, !.future = f, !.cash = c, !.reserved = r]
    BY <2>1
  <2>. HIDE DEF after
  <2>. QED
    BY <2>2 DEF Checkpoint, SameAccount
<1>2. Filled(l, s, f, c) =
        IF s = 0 /\ f = 0 THEN Flat(l)
        ELSE IF Mismatched(s, f) THEN unbalanced("hedge")
        ELSE IF c # "ok" THEN unbalanced("cash")
        ELSE IF l.status \in {"OPENING", "CLOSING", "SETTLEMENT_PENDING"} THEN after
        ELSE IF s = f THEN after
        ELSE unbalanced(l.incident)
  BY DEF Filled
<1>. HIDE DEF after
<1>3. ASSUME NEW i \in Incident
      PROVE  /\ unbalanced(i) \in Checkpoint /\ SameAccount(l, unbalanced(i))
             /\ unbalanced(i).spot = s /\ unbalanced(i).future = f /\ unbalanced(i).status = "UNBALANCED"
  BY <1>1 DEF Checkpoint, SameAccount, Status
<1>4. l.incident \in Incident /\ "hedge" \in Incident /\ "cash" \in Incident
  BY Fields DEF Incident
<1>. HIDE DEF unbalanced
<1>. DEFINE m == Filled(l, s, f, c)
<1>5. \/ s = 0 /\ f = 0 /\ m = Flat(l)
      \/ m = after /\ ~(s = 0 /\ f = 0)
      \/ /\ ~(s = 0 /\ f = 0) /\ (Mismatched(s, f) \/ c # "ok" \/ l.status # "OPENING")
         /\ \E i \in Incident : m = unbalanced(i)
  BY <1>2, <1>4
<1>. HIDE DEF m
<1>6. /\ m \in Checkpoint /\ SameAccount(l, m) /\ m.spot = s /\ m.future = f
      /\ m.status = "FLAT" => s = 0 /\ f = 0
      /\ l.status = "OPENING" /\ s + f > 0 /\ c = "ok" /\ ~Mismatched(s, f) => m.status = "OPENING"
  <2>1. CASE s = 0 /\ f = 0 /\ m = Flat(l)
    BY <2>1, FlatIs
  <2>2. CASE m = after /\ ~(s = 0 /\ f = 0)
    BY <1>1, <2>2
  <2>3. CASE /\ ~(s = 0 /\ f = 0) /\ (Mismatched(s, f) \/ c # "ok" \/ l.status # "OPENING")
             /\ \E i \in Incident : m = unbalanced(i)
    <3>1. PICK i \in Incident : m = unbalanced(i)
      BY <2>3
    <3>2. /\ m \in Checkpoint /\ SameAccount(l, m) /\ m.spot = s /\ m.future = f /\ m.status = "UNBALANCED"
      BY <1>3, <3>1
    <3>. QED
      BY <2>3, <3>2
  <2>. QED
    BY <1>5, <2>1, <2>2, <2>3
<1>. QED
  BY <1>6 DEF m

-----------------------------------------------------------------------------
(* The steps that leave the account alone. *)

LEMMA Opened == Init => DatedInv
<1>. SUFFICES ASSUME Init PROVE DatedInv
  OBVIOUS
<1>1. NoSettlement \in [Day -> Version] /\ NoSettlement \in [Day -> Nat]
  BY DEF NoSettlement, Version
<1>2. 0 \in 0..Qty /\ 0 \in 0..Expiry /\ 0 \in Nat /\ 0 \in 0..MaxEntry /\ 0 \in 0..MaxFailure
  BY Constants
<1>3. led \in Checkpoint
  <2>1. /\ "FLAT" \in Status /\ "none" \in Saga /\ "none" \in Incident /\ "ok" \in Cash
        /\ FALSE \in BOOLEAN
    BY DEF Status, Saga, Incident, Cash
  <2>. QED
    BY <1>1, <1>2, <2>1, Made, Zenon DEF Init
<1>4. TypeOK
  BY <1>1, <1>2, <1>3 DEF Init, TypeOK, Phase
<1>5. /\ led.status = "FLAT" /\ led.spot = 0 /\ led.future = 0 /\ led.opened = 0 /\ led.audit = 0
      /\ led.last = 0 /\ led.settled = NoSettlement /\ day = 0 /\ pc = "down"
  BY DEF Init
<1>6. Cursors /\ Published
  BY <1>5, Constants DEF Cursors, Published, Due
<1>7. StepFits
  BY <1>5 DEF StepFits
<1>8. VariationsExact
  <2>1. ASSUME NEW d \in Day PROVE led.settled[d] = 0 /\ ~(d < led.last)
    BY <1>5, Constants DEF NoSettlement, Day
  <2>. QED
    BY <1>5, <2>1 DEF VariationsExact
<1>9. NeverNakedShort
  BY <1>5 DEF NeverNakedShort
<1>. QED
  BY <1>4, <1>6, <1>7, <1>8, <1>9 DEF DatedInv

LEMMA Quiet ==
    ASSUME DatedInv, UNCHANGED <<world, booked>>, SameAccount(led, led'), led' \in Checkpoint,
           pc' \in Phase, entries' \in 0..MaxEntry, {crashes', faults'} \subseteq 0..MaxFailure,
           pc' = "settle" => pc = "settle" \/ HistoryReadable,
           StepFits', NeverNakedShort'
    PROVE  DatedInv'
<1>1. /\ led'.opened = led.opened /\ led'.audit = led.audit /\ led'.last = led.last
      /\ led'.settled = led.settled /\ day' = day /\ history' = history /\ booked' = booked
  BY DEF SameAccount, world
<1>2. TypeOK'
  BY <1>1 DEF DatedInv, TypeOK
<1>3. Cursors'
  BY <1>1 DEF DatedInv, Cursors, HistoryReadable
<1>4. Published'
  BY <1>1 DEF DatedInv, Published, Due
<1>5. VariationsExact'
  BY <1>1 DEF DatedInv, VariationsExact
<1>. QED
  BY <1>2, <1>3, <1>4, <1>5 DEF DatedInv

\* A checkpoint rewritten with the same legs, between two commits of a cycle.
Rewrites(l, next) ==
    /\ l \in Checkpoint /\ SameAccount(led, l) /\ SameLegs(led, l)
    /\ l.status = "FLAT" => led.status = "FLAT"
    /\ next \in Phase \ {"settle", "buy", "hedge"}
    /\ next \in {"sell", "liquidate"} => l.future = 0
    /\ next \in {"cover", "sell"} => l.status # "FLAT"

LEMMA Rewritten ==
    ASSUME DatedInv, NEW l, NEW next, Rewrites(l, next), Commit(l, next)
    PROVE  DatedInv'
<1>1. led' = l /\ pc' = next /\ UNCHANGED <<world, booked>> /\ UNCHANGED <<entries, crashes, faults>>
  BY DEF Commit, bounds
<1>2. entries' \in 0..MaxEntry /\ {crashes', faults'} \subseteq 0..MaxFailure
  BY <1>1 DEF DatedInv, TypeOK
<1>3. led'.spot = led.spot /\ led'.future = led.future
  BY <1>1 DEF Rewrites, SameLegs
<1>4. NeverNakedShort'
  BY <1>3 DEF DatedInv, NeverNakedShort
<1>5. StepFits'
  BY <1>1, <1>3 DEF DatedInv, StepFits, Rewrites
<1>. QED
  BY <1>1, <1>2, <1>4, <1>5, Quiet DEF Rewrites

\* A fill: the legs it leaves, and the phase that follows.
LEMMA Executed ==
    ASSUME DatedInv, NEW s \in 0..Qty, NEW f \in 0..Qty, NEW c \in Cash, NEW next \in Phase,
           led.status # "FLAT", Commit(Filled(led, s, f, c), next),
           f > 0 => s + Tolerance >= f,
           next \in {"sell", "hedge", "open", "idle"},
           next = "sell" => f = 0 /\ s > 0,
           next = "hedge" => s \in Preflighted /\ f = 0 /\ c = "ok" /\ led.status = "OPENING"
    PROVE  DatedInv'
<1>. DEFINE m == Filled(led, s, f, c)
<1>1. led \in Checkpoint
  BY DEF DatedInv, TypeOK
<1>2. /\ m \in Checkpoint /\ SameAccount(led, m) /\ m.spot = s /\ m.future = f
      /\ m.status = "FLAT" => s = 0 /\ f = 0
      /\ led.status = "OPENING" /\ s + f > 0 /\ c = "ok" /\ ~Mismatched(s, f) => m.status = "OPENING"
  BY <1>1, FilledIs
<1>3. led' = m /\ pc' = next /\ UNCHANGED <<world, booked>> /\ UNCHANGED <<entries, crashes, faults>>
  BY DEF Commit, bounds
<1>. HIDE DEF m
<1>4. entries' \in 0..MaxEntry /\ {crashes', faults'} \subseteq 0..MaxFailure
  BY <1>3 DEF DatedInv, TypeOK
<1>5. NeverNakedShort'
  BY <1>2, <1>3 DEF NeverNakedShort
<1>6. next = "hedge" => m.status = "OPENING"
  BY <1>2, Constants DEF Preflighted, Mismatched
<1>7. StepFits'
  BY <1>2, <1>3, <1>6 DEF StepFits
<1>8. next # "settle" /\ led' \in Checkpoint /\ SameAccount(led, led')
  BY <1>2, <1>3
<1>. QED
  BY <1>3, <1>4, <1>5, <1>7, <1>8, Quiet

\* A step that commits nothing.
LEMMA Stays ==
    ASSUME DatedInv, UNCHANGED <<led, world, booked>>, pc' \in Phase,
           entries' \in 0..MaxEntry, {crashes', faults'} \subseteq 0..MaxFailure,
           pc' = "settle" => pc = "settle" \/ HistoryReadable,
           pc' \notin {"buy", "hedge"},
           pc' \in {"sell", "liquidate"} => led.future = 0,
           pc' \in {"cover", "sell"} => led.status # "FLAT"
    PROVE  DatedInv'
<1>1. StepFits'
  BY DEF DatedInv, StepFits
<1>2. NeverNakedShort'
  BY DEF DatedInv, NeverNakedShort
<1>3. SameAccount(led, led') /\ led' \in Checkpoint
  BY DEF DatedInv, TypeOK, SameAccount
<1>. QED
  BY <1>1, <1>2, <1>3, Quiet

LEMMA Moves ==
    ASSUME DatedInv, NEW next \in Phase, Proceed(next),
           next = "settle" => HistoryReadable,
           next \notin {"buy", "hedge"},
           next \in {"sell", "liquidate"} => led.future = 0,
           next \in {"cover", "sell"} => led.status # "FLAT"
    PROVE  DatedInv'
<1>1. UNCHANGED <<led, world, booked, entries, crashes, faults>> /\ pc' = next
  BY DEF Proceed, bounds
<1>2. entries' \in 0..MaxEntry /\ {crashes', faults'} \subseteq 0..MaxFailure
  BY <1>1 DEF DatedInv, TypeOK
<1>. QED
  BY <1>1, <1>2, Stays

-----------------------------------------------------------------------------
(* Each step. *)

LEMMA WorldKeeps ==
    ASSUME DatedInv, World
    PROVE  DatedInv'
<1>. USE Constants
<1>1. /\ UNCHANGED <<led, booked, pc>> /\ UNCHANGED <<entries, crashes, faults>>
      /\ day' \in {day, day + 1} /\ day' <= Expiry /\ pc \in {"down", "idle"}
  BY DEF World, DayPasses, Publish, BetweenCycles, bounds, DatedInv, TypeOK, Day
<1>2. history' \in [Day -> Version] /\ \A d \in Day : history'[d] >= history[d]
  <2>1. history \in [Day -> Version]
    BY DEF DatedInv, TypeOK
  <2>2. CASE DayPasses
    BY <2>1, <2>2 DEF DayPasses, Version
  <2>3. ASSUME NEW d \in Day, Publish(d) PROVE history' \in [Day -> Version] /\ \A e \in Day : history'[e] >= history[e]
    BY <2>1, <2>3 DEF Publish, Version
  <2>. QED
    BY <2>2, <2>3 DEF World
<1>3. TypeOK'
  BY <1>1, <1>2 DEF DatedInv, TypeOK
<1>4. Cursors'
  <2>1. led.opened \in Nat /\ led.last \in Nat /\ day \in Nat /\ Cursors
    BY Fields DEF DatedInv, TypeOK
  <2>. QED
    BY <1>1, <2>1 DEF Cursors
<1>5. Published'
  BY <1>1, <1>2 DEF DatedInv, TypeOK, Published, Due, Version
<1>6. StepFits' /\ VariationsExact' /\ NeverNakedShort'
  BY <1>1 DEF DatedInv, StepFits, VariationsExact, NeverNakedShort
<1>. QED
  BY <1>3, <1>4, <1>5, <1>6 DEF DatedInv

LEMMA ProcessKeeps ==
    ASSUME DatedInv, Start \/ Crash \/ StoreFault \/ CycleError
    PROVE  DatedInv'
<1>1. CASE Start
  BY <1>1, Moves DEF Start, Phase
<1>2. CASE Crash \/ StoreFault
  <2>1. UNCHANGED <<led, world, booked, entries>> /\ pc' \in {"down", "error"}
    BY <1>2 DEF Crash, StoreFault
  <2>2. entries' \in 0..MaxEntry /\ {crashes', faults'} \subseteq 0..MaxFailure
    BY <1>2, Constants DEF Crash, StoreFault, DatedInv, TypeOK
  <2>3. pc' \in Phase
    BY <2>1 DEF Phase
  <2>. QED
    BY <2>1, <2>2, <2>3, Stays
<1>3. CASE CycleError
  <2>1. led \in Checkpoint
    BY DEF DatedInv, TypeOK
  <2>2. Rewrites(led, "idle")
    BY <2>1 DEF Rewrites, SameAccount, SameLegs, Phase
  <2>3. Rewrites(SettlementPending(led, TRUE), "idle")
    BY <2>1, PendingIs DEF Rewrites, Phase
  <2>4. Rewrites([led EXCEPT !.operational = FALSE], "idle")
    BY <2>1 DEF Rewrites, SameAccount, SameLegs, Phase, Checkpoint
  <2>. DEFINE l == IF led.uncertain THEN led
                   ELSE IF led.spot + led.future > 0 THEN SettlementPending(led, TRUE)
                   ELSE [led EXCEPT !.operational = FALSE]
  <2>5. Rewrites(l, "idle")
    BY <2>2, <2>3, <2>4
  <2>6. Commit(l, "idle")
    BY <1>3 DEF CycleError
  <2>. HIDE DEF l
  <2>. QED
    BY <2>5, <2>6, Rewritten
<1>. QED
  BY <1>1, <1>2, <1>3

LEMMA EntryKeeps ==
    ASSUME DatedInv, Entry
    PROVE  DatedInv'
<1>. USE Constants
<1>1. led \in Checkpoint
  BY DEF DatedInv, TypeOK
<1>2. CASE SweepDust
  <2>1. PICK amount \in Sweepable : \E filled \in Depth(amount) \ {0} :
            Commit([led EXCEPT !.dust = @ - filled], "idle")
    BY <1>2 DEF SweepDust
  <2>0. PICK filled \in Depth(amount) \ {0} : Commit([led EXCEPT !.dust = @ - filled], "idle")
    BY <2>1
  <2>2. led.dust - filled \in Nat
    BY <1>1, <2>0, <2>1, Fields DEF Sweepable, Orderable, Depth
  <2>3. PICK rest \in Nat : rest = led.dust - filled
    BY <2>2
  <2>4. Commit([led EXCEPT !.dust = rest], "idle")
    BY <2>0, <2>3
  <2>5. Rewrites([led EXCEPT !.dust = rest], "idle")
    BY <1>1 DEF Rewrites, SameAccount, SameLegs, Phase, Checkpoint
  <2>. QED
    BY <2>4, <2>5, Rewritten
<1>3. CASE BeginEntry
  <2>1. /\ led.spot = 0 /\ led.future = 0 /\ day \in 0..Expiry
        /\ UNCHANGED <<world, booked, crashes, faults>> /\ pc' = "buy" /\ entries' = entries + 1
        /\ entries < MaxEntry
    BY <1>3 DEF BeginEntry, DatedInv, StepFits, TypeOK
  <2>2. NoSettlement \in [Day -> Nat]
    BY DEF NoSettlement
  <2>3. /\ led' \in Checkpoint /\ led'.status = "OPENING" /\ led'.spot = led.spot
        /\ led'.future = led.future /\ led'.opened = day /\ led'.audit = 0 /\ led'.last = 0
        /\ led'.settled = NoSettlement
    <3>1. /\ led' = [led EXCEPT !.status = "OPENING", !.saga = "entry", !.operational = FALSE,
                                !.reserved = TRUE, !.opened = day, !.audit = 0, !.last = 0,
                                !.settled = NoSettlement]
          /\ 0 \in 0..Expiry
      BY <1>3 DEF BeginEntry
    <3>. QED
      BY <1>1, <2>1, <2>2, <3>1 DEF Checkpoint, Status, Saga
  <2>4. TypeOK'
    BY <2>1, <2>3 DEF DatedInv, TypeOK, Phase, world
  <2>5. Cursors' /\ Published' /\ StepFits' /\ NeverNakedShort'
    BY <2>1, <2>3 DEF Cursors, Published, Due, StepFits, NeverNakedShort, world
  <2>6. VariationsExact'
    <3>1. ASSUME NEW d \in Day PROVE led'.settled[d] = 0 /\ ~(d < led'.last)
      BY <2>3 DEF NoSettlement, Day
    <3>. QED
      BY <2>3, <3>1 DEF VariationsExact
  <2>. QED
    BY <2>4, <2>5, <2>6 DEF DatedInv
<1>4. CASE BuySpot
  <2>1. PICK s \in Preflighted : Commit(Filled(led, s, led.future, "ok"), "hedge")
    BY <1>4 DEF BuySpot
  <2>2. led.status = "OPENING" /\ led.future = 0
    BY <1>4 DEF BuySpot, DatedInv, StepFits
  <2>3. s \in 0..Qty /\ 0 \in 0..Qty /\ "ok" \in Cash /\ "hedge" \in Phase
    BY <2>1 DEF Preflighted, Cash, Phase
  <2>4. Commit(Filled(led, s, 0, "ok"), "hedge")
    BY <2>1, <2>2
  <2>. QED
    BY <2>2, <2>3, <2>4, Executed
<1>5. CASE SellFuture
  <2>1. led.status = "OPENING" /\ led.spot \in Preflighted
    BY <1>5 DEF SellFuture, DatedInv, StepFits
  <2>2. led.spot \in 0..Qty /\ Qty \in 0..Qty /\ "ok" \in Cash /\ "open" \in Phase
    BY <2>1 DEF Preflighted, Cash, Phase
  <2>3. led.spot + Tolerance >= Qty
    BY <2>1 DEF Preflighted
  <2>4. Commit(Filled(led, led.spot, Qty, "ok"), "open")
    BY <1>5 DEF SellFuture
  <2>. QED
    BY <2>1, <2>2, <2>3, <2>4, Executed
<1>6. CASE FinishEntry
  <2>1. Rewrites(MarkOpen(led), "idle")
    BY <1>1, OpenIs DEF Rewrites, Phase
  <2>. QED
    BY <1>6, <2>1, Rewritten DEF FinishEntry
<1>. QED
  BY <1>2, <1>3, <1>4, <1>5, <1>6 DEF Entry

LEMMA RecoveryKeeps ==
    ASSUME DatedInv, Recovery
    PROVE  DatedInv'
<1>1. led \in Checkpoint
  BY DEF DatedInv, TypeOK
<1>2. CASE AbortUnfilledEntry
  <2>1. led.spot = 0 /\ led.future = 0 /\ Commit(Flat(led), "idle")
    BY <1>2 DEF AbortUnfilledEntry
  <2>2. /\ led' = Flat(led) /\ pc' = "idle" /\ UNCHANGED <<world, booked>>
        /\ UNCHANGED <<entries, crashes, faults>>
    BY <2>1 DEF Commit, bounds
  <2>3. led' \in Checkpoint /\ SameAccount(led, led') /\ led'.spot = 0 /\ led'.future = 0
    BY <1>1, <2>2, FlatIs
  <2>4. entries' \in 0..MaxEntry /\ {crashes', faults'} \subseteq 0..MaxFailure /\ pc' \in Phase
    BY <2>2 DEF DatedInv, TypeOK, Phase
  <2>5. StepFits' /\ NeverNakedShort'
    BY <2>2, <2>3 DEF StepFits, NeverNakedShort
  <2>. QED
    BY <2>2, <2>3, <2>4, <2>5, Quiet
<1>3. CASE RecoverOpen
  <2>1. Rewrites(MarkOpen(led), "idle")
    BY <1>1, OpenIs DEF Rewrites, Phase
  <2>. QED
    BY <1>3, <2>1, Rewritten DEF RecoverOpen
<1>4. CASE RecoverByClosing
  <2>1. Rewrites(BeginClose(led), "idle")
    BY <1>1, CloseIs DEF Rewrites, Phase
  <2>. QED
    BY <1>4, <2>1, Rewritten DEF RecoverByClosing
<1>. QED
  BY <1>2, <1>3, <1>4 DEF Recovery

LEMMA CloseKeeps ==
    ASSUME DatedInv, Close
    PROVE  DatedInv'
<1>. USE Constants
<1>1. led \in Checkpoint /\ led.spot \in 0..Qty /\ led.future \in 0..Qty /\ led.cash \in Cash
  BY Fields DEF DatedInv, TypeOK
<1>2. CASE CloseBookMissing
  <2>1. Rewrites(SettlementPending(led, FALSE), "idle")
    BY <1>1, PendingIs DEF Rewrites, Phase
  <2>. QED
    BY <1>2, <2>1, Rewritten DEF CloseBookMissing
<1>3. CASE ResumeClose
  <2>1. led.status # "FLAT" /\ Proceed("cover")
    BY <1>3 DEF ResumeClose, Closing
  <2>. QED
    BY <2>1, Moves DEF Phase
<1>4. ASSUME NEW next \in {"idle"}, Commit(led, next) PROVE DatedInv'
  <2>1. Rewrites(led, next)
    BY <1>1 DEF Rewrites, SameAccount, SameLegs, Phase
  <2>. QED
    BY <1>4, <2>1, Rewritten
<1>5. CASE Cover
  <2>1. PICK filled \in Depth(led.future) :
            LET left == led.future - filled
            IN IF filled = 0 THEN NoDepth
               ELSE \E c \in CashAfterCover(left) :
                       Commit(Filled(led, led.spot, left, c), IF left = 0 /\ led.spot > 0 THEN "sell" ELSE "idle")
    BY <1>5 DEF Cover
  <2>2. CASE filled = 0
    BY <1>4, <2>1, <2>2 DEF NoDepth
  <2>3. CASE filled # 0
    <3>1. PICK left \in 0..Qty : left = led.future - filled /\ left <= led.future
      BY <1>1, <2>1 DEF Depth
    <3>2. PICK c \in CashAfterCover(left) :
              Commit(Filled(led, led.spot, left, c), IF left = 0 /\ led.spot > 0 THEN "sell" ELSE "idle")
      BY <2>1, <2>3, <3>1
    <3>3. PICK next \in {"sell", "idle"} : next = IF left = 0 /\ led.spot > 0 THEN "sell" ELSE "idle"
      OBVIOUS
    <3>4. c \in Cash /\ next \in Phase /\ (next = "sell" => left = 0 /\ led.spot > 0)
      BY <3>2, <3>3 DEF CashAfterCover, Phase
    <3>5. led.status # "FLAT" /\ led.spot + Tolerance >= left
      BY <1>1, <1>5, <3>1 DEF Cover, DatedInv, StepFits, NeverNakedShort
    <3>6. Commit(Filled(led, led.spot, left, c), next)
      BY <3>2, <3>3
    <3>. QED
      BY <1>1, <3>3, <3>4, <3>5, <3>6, Executed
  <2>. QED
    BY <2>2, <2>3
<1>6. CASE Covered
  <2>1. led.status # "FLAT" /\ led.future = 0 /\ Proceed("sell")
    BY <1>6 DEF Covered, DatedInv, StepFits
  <2>. QED
    BY <2>1, Moves DEF Phase
<1>7. CASE SellSpot
  <2>1. PICK amount \in Orderable(led.spot) : \E filled \in Depth(amount) :
            IF filled = 0 THEN NoDepth
            ELSE \E c \in CashAfterSale : Commit(Filled(led, led.spot - filled, led.future, c), "idle")
    BY <1>7 DEF SellSpot
  <2>0. PICK filled \in Depth(amount) :
            IF filled = 0 THEN NoDepth
            ELSE \E c \in CashAfterSale : Commit(Filled(led, led.spot - filled, led.future, c), "idle")
    BY <2>1
  <2>2. CASE filled = 0
    BY <1>4, <2>0, <2>2 DEF NoDepth
  <2>3. CASE filled # 0
    <3>1. PICK left \in 0..Qty : left = led.spot - filled
      BY <1>1, <2>0, <2>1 DEF Depth, Orderable
    <3>2. PICK c \in CashAfterSale : Commit(Filled(led, left, led.future, c), "idle")
      BY <2>0, <2>3, <3>1
    <3>3. c \in Cash /\ "idle" \in Phase /\ led.status # "FLAT" /\ led.future = 0
      BY <1>1, <1>7, <3>2 DEF CashAfterSale, Cash, Phase, SellSpot, DatedInv, StepFits
    <3>. QED
      BY <1>1, <3>2, <3>3, Executed
  <2>. QED
    BY <2>2, <2>3
<1>8. CASE ClassifyDust
  <2>1. /\ led' = [Flat(led) EXCEPT !.dust = @ + led.spot] /\ pc' = "idle"
        /\ UNCHANGED <<world, booked>> /\ UNCHANGED <<entries, crashes, faults>>
    BY <1>8 DEF ClassifyDust, Commit, bounds
  <2>2. /\ Flat(led) \in Checkpoint /\ SameAccount(led, Flat(led)) /\ Flat(led).spot = 0
        /\ Flat(led).future = 0 /\ Flat(led).status = "FLAT"
    BY <1>1, FlatIs
  <2>3. Flat(led).dust + led.spot \in Nat
    BY <1>1, <2>2, Fields
  <2>4. /\ led' \in Checkpoint /\ SameAccount(led, led') /\ led'.spot = 0 /\ led'.future = 0
    <3>1. PICK n \in Nat : n = Flat(led).dust + led.spot
      BY <2>3
    <3>2. led' = [Flat(led) EXCEPT !.dust = n]
      BY <2>1, <3>1
    <3>. QED
      BY <2>2, <3>2 DEF Checkpoint, SameAccount
  <2>5. entries' \in 0..MaxEntry /\ {crashes', faults'} \subseteq 0..MaxFailure /\ pc' \in Phase
    BY <2>1 DEF DatedInv, TypeOK, Phase
  <2>6. StepFits' /\ NeverNakedShort'
    BY <2>1, <2>4 DEF StepFits, NeverNakedShort
  <2>. QED
    BY <2>1, <2>4, <2>5, <2>6, Quiet
<1>. QED
  BY <1>2, <1>3, <1>5, <1>6, <1>7, <1>8 DEF Close

-----------------------------------------------------------------------------
(* The settlements. *)

LEMMA FirstExists ==
    ASSUME NEW T, T \subseteq Nat, T # {}
    PROVE  \E x \in T : \A y \in T : x <= y
<1>. DEFINE R == {ss \in Nat \X Nat : ss[1] < ss[2]}
<1>1. IsWellFoundedOn(R, Nat)
  BY NatLessThanWellFounded DEF OpToRel
<1>. HIDE DEF R
<1>2. PICK x \in T : \A y \in T : ~ (<<y, x>> \in R)
  BY <1>1, WFMin, Zenon
<1>3. ASSUME NEW y \in T PROVE x <= y
  <2>1. y < x => <<y, x>> \in R
    BY DEF R
  <2>. QED
    BY <2>1, <1>2
<1>. QED
  BY <1>3

LEMMA FirstUnsettled ==
    ASSUME Unsettled # {}
    PROVE  Min(Unsettled) \in Unsettled /\ \A d \in Unsettled : Min(Unsettled) <= d
<1>1. Unsettled \subseteq Nat
  BY DEF Unsettled, Audited, Day
<1>2. \E x \in Unsettled : \A y \in Unsettled : x <= y
  BY <1>1, FirstExists
<1>. QED
  BY <1>2 DEF Min

\* What a settlement of day d leaves.
LEMMA SettledIs ==
    ASSUME NEW d \in Day, led \in Checkpoint
    PROVE  LET m == ApplySettlement(d)
           IN  /\ m \in Checkpoint /\ m.spot = led.spot /\ m.future \in {led.future, 0}
               /\ m.opened = led.opened /\ m.last = d
               /\ m.audit = IF led.audit = 0 THEN d ELSE led.audit
               /\ m.settled = [led.settled EXCEPT ![d] = @ + 1]
               /\ m.status # "FLAT"
<1>1. d \in 0..Expiry /\ led.audit \in 0..Expiry /\ led.settled \in [Day -> Nat]
  BY Constants, Fields DEF Day
<1>2. PICK a \in 0..Expiry : a = IF led.audit = 0 THEN d ELSE led.audit
  BY <1>1
<1>3. PICK z \in [Day -> Nat] : z = [led.settled EXCEPT ![d] = @ + 1]
  <2>1. [led.settled EXCEPT ![d] = @ + 1] \in [Day -> Nat]
    BY <1>1
  <2>. QED
    BY <2>1
<1>. DEFINE daily == [led EXCEPT !.settled = z, !.last = d, !.audit = a, !.operational = FALSE]
<1>4. daily = [led EXCEPT !.settled[d] = @ + 1, !.last = d, !.audit = IF @ = 0 THEN d ELSE @,
                          !.operational = FALSE]
  BY <1>2, <1>3
<1>5. /\ daily \in Checkpoint /\ daily.spot = led.spot /\ daily.future = led.future
      /\ daily.opened = led.opened /\ daily.last = d /\ daily.audit = a /\ daily.settled = z
  BY <1>1 DEF Checkpoint
<1>6. ApplySettlement(d) =
        IF d = Expiry
        THEN [daily EXCEPT !.status = "SETTLEMENT_PENDING", !.future = 0,
                           !.reserved = FALSE, !.incident = "pending"]
        ELSE [daily EXCEPT !.status = "OPEN", !.incident = "none"]
  BY <1>4 DEF ApplySettlement
<1>. HIDE DEF daily
<1>7. 0 \in 0..Qty
  BY Constants
<1>. DEFINE m == ApplySettlement(d)
<1>8. /\ m \in Checkpoint /\ m.spot = led.spot /\ m.future \in {led.future, 0}
      /\ m.opened = led.opened /\ m.last = d /\ m.audit = a /\ m.settled = z /\ m.status # "FLAT"
  <2>1. CASE d = Expiry
    <3>1. m = [daily EXCEPT !.status = "SETTLEMENT_PENDING", !.future = 0,
                            !.reserved = FALSE, !.incident = "pending"]
      BY <1>6, <2>1
    <3>. HIDE DEF m
    <3>. QED
      BY <1>5, <1>7, <3>1 DEF Checkpoint, Status, Incident
  <2>2. CASE d # Expiry
    <3>1. m = [daily EXCEPT !.status = "OPEN", !.incident = "none"]
      BY <1>6, <2>2
    <3>. HIDE DEF m
    <3>. QED
      BY <1>5, <3>1 DEF Checkpoint, Status, Incident
  <2>. QED
    BY <2>1, <2>2
<1>. HIDE DEF m
<1>9. /\ m \in Checkpoint /\ m.spot = led.spot /\ m.future \in {led.future, 0}
      /\ m.opened = led.opened /\ m.last = d
      /\ m.audit = IF led.audit = 0 THEN d ELSE led.audit
      /\ m.settled = [led.settled EXCEPT ![d] = @ + 1]
      /\ m.status # "FLAT"
  BY <1>2, <1>3, <1>8
<1>. QED
  BY <1>9 DEF m

LEMMA SettleKeeps ==
    ASSUME DatedInv, Settle
    PROVE  DatedInv'
<1>. USE Constants
<1>1. PICK d \in Unsettled :
         /\ \A e \in Unsettled : d <= e
         /\ booked[d] = 0 /\ Contiguous(d) /\ led.future > 0
         /\ led' = ApplySettlement(d) /\ booked' = [booked EXCEPT ![d] = history[d]]
         /\ UNCHANGED <<pc, world, bounds>> /\ pc = "settle"
  BY FirstUnsettled DEF Settle
<1>2. /\ d \in Day /\ d <= day /\ d > led.opened /\ d >= led.audit /\ history[d] # 0
      /\ d \in Nat
  BY <1>1 DEF Unsettled, Audited, Day
<1>3. led \in Checkpoint /\ history \in [Day -> Version] /\ booked \in [Day -> Version]
  BY DEF DatedInv, TypeOK
<1>4. /\ led' \in Checkpoint /\ led'.spot = led.spot /\ led'.future \in {led.future, 0}
      /\ led'.opened = led.opened /\ led'.last = d
      /\ led'.audit = (IF led.audit = 0 THEN d ELSE led.audit)
      /\ led'.settled = [led.settled EXCEPT ![d] = @ + 1]
      /\ led'.status # "FLAT"
  BY <1>1, <1>2, <1>3, SettledIs
<1>5. /\ led.settled \in [Day -> Nat] /\ led.audit \in Nat /\ led.last \in Nat /\ led.opened \in Nat
      /\ led.audit <= Expiry /\ led.last <= Expiry
      /\ led.future \in Nat /\ led.spot \in Nat /\ day \in Nat
  BY <1>3, Fields DEF DatedInv, TypeOK
<1>6. booked' \in [Day -> Version] /\ booked'[d] # 0 /\ \A e \in Day \ {d} : booked'[e] = booked[e]
  BY <1>1, <1>2, <1>3
<1>7. UNCHANGED <<day, history, pc>> /\ UNCHANGED <<entries, crashes, faults>>
  BY <1>1 DEF world, bounds
<1>8. TypeOK'
  BY <1>4, <1>6, <1>7 DEF DatedInv, TypeOK
<1>9. Cursors'
  BY <1>2, <1>4, <1>5, <1>7 DEF DatedInv, Cursors
\* The day follows the last one booked: no day of this position lies between.
<1>10. /\ led.last = 0 => d = led.opened + 1
       /\ led.last # 0 => d = led.last + 1
       /\ led.audit = 0 <=> led.last = 0
       /\ led.audit <= led.last
  BY <1>1, <1>2, <1>5 DEF Contiguous, DatedInv, Cursors
<1>11. ~Due(d)
  BY <1>2, <1>5, <1>10 DEF Due
<1>12. \A e \in Day \ {d} : Due(e)' <=> Due(e)
  BY <1>2, <1>4, <1>5, <1>10 DEF Due, Day
<1>13. Due(d)'
  BY <1>2, <1>4, <1>5, <1>10 DEF Due
<1>14. Published'
  BY <1>2, <1>7, <1>12 DEF DatedInv, Published
<1>15. VariationsExact'
  <2>0. ASSUME NEW e \in Day
        PROVE  /\ led.settled[e] = IF Due(e) THEN 1 ELSE 0
               /\ Due(e) => booked[e] # 0
               /\ e > led.opened /\ e < led.last => Due(e)
    BY DEF DatedInv, VariationsExact, Due
  <2>1. ASSUME NEW e \in Day
        PROVE  /\ led'.settled[e] = IF Due(e)' THEN 1 ELSE 0
               /\ Due(e)' => booked'[e] # 0
               /\ e > led'.opened /\ e < led'.last => Due(e)'
    <3>1. CASE e = d
      BY <1>4, <1>5, <1>6, <1>11, <1>13, <2>0, <3>1
    <3>2. CASE e # d
      <4>1. led'.settled[e] = led.settled[e] /\ booked'[e] = booked[e] /\ (Due(e)' <=> Due(e))
        BY <1>4, <1>5, <1>6, <1>12, <3>2
      <4>2. e > led'.opened /\ e < led'.last => Due(e)
        <5>1. CASE led.last = 0
          BY <1>2, <1>4, <1>5, <1>10, <5>1 DEF Day
        <5>2. CASE led.last # 0 /\ e < led.last
          BY <1>4, <2>0, <5>2
        <5>3. CASE led.last # 0 /\ e = led.last
          BY <1>5, <1>10, <5>3 DEF Due
        <5>. QED
          BY <1>4, <1>5, <1>10, <5>1, <5>2, <5>3 DEF Day
      <4>. QED
        BY <2>0, <4>1, <4>2
    <3>. QED
      BY <3>1, <3>2
  <2>. QED
    BY <2>1 DEF VariationsExact, Due
<1>16. NeverNakedShort'
  BY <1>4, <1>5 DEF DatedInv, NeverNakedShort
<1>17. StepFits'
  BY <1>1, <1>4, <1>7 DEF StepFits
<1>. QED
  BY <1>8, <1>9, <1>14, <1>15, <1>16, <1>17 DEF DatedInv

LEMMA ManagementKeeps ==
    ASSUME DatedInv, Management
    PROVE  DatedInv'
<1>1. led \in Checkpoint
  BY DEF DatedInv, TypeOK
<1>2. CASE ReadHistory
  BY <1>2, Moves DEF ReadHistory, Phase
<1>3. CASE NothingToSettle
  <2>1. PICK next \in {"risk", "idle"} : Proceed(next)
    BY <1>3 DEF NothingToSettle
  <2>. QED
    BY <2>1, Moves DEF Phase
<1>4. CASE SettlementsDone
  BY <1>4, Moves DEF SettlementsDone, Phase
<1>5. ASSUME NEW o \in BOOLEAN, Commit(SettlementPending(led, o), "idle") PROVE DatedInv'
  <2>1. Rewrites(SettlementPending(led, o), "idle")
    BY <1>1, PendingIs DEF Rewrites, Phase
  <2>. QED
    BY <1>5, <2>1, Rewritten
<1>6. CASE HistoryUnavailable \/ SettlementGap \/ ExpiryUnsettled \/ RiskReview
  <2>1. TRUE \in BOOLEAN /\ FALSE \in BOOLEAN
    OBVIOUS
  <2>2. CASE HistoryUnavailable \/ RiskReview
    BY <1>5, <2>1, <2>2, Zenon DEF HistoryUnavailable, RiskReview
  <2>3. CASE SettlementGap \/ ExpiryUnsettled
    BY <1>5, <2>1, <2>3, Zenon DEF SettlementGap, ExpiryUnsettled
  <2>. QED
    BY <1>6, <2>2, <2>3
<1>7. CASE SettlementCollision
  <2>1. Rewrites([led EXCEPT !.status = "ACCOUNTING_UNCERTAIN", !.uncertain = TRUE], "error")
    BY <1>1 DEF Rewrites, SameAccount, SameLegs, Phase, Checkpoint, Status
  <2>. QED
    BY <1>7, <2>1, Rewritten DEF SettlementCollision
<1>8. CASE SpotBookMissing
  <2>1. Rewrites([led EXCEPT !.operational = FALSE], "idle")
    BY <1>1 DEF Rewrites, SameAccount, SameLegs, Phase, Checkpoint
  <2>. QED
    BY <1>8, <2>1, Rewritten DEF SpotBookMissing
<1>9. CASE RecordLiquidationTiming
  <2>1. Rewrites([led EXCEPT !.operational = FALSE], "liquidate")
    BY <1>1, <1>9 DEF Rewrites, SameAccount, SameLegs, Phase, Checkpoint, RecordLiquidationTiming, OwnSpotOnly
  <2>. QED
    BY <1>9, <2>1, Rewritten DEF RecordLiquidationTiming
<1>10. CASE LiquidateSpot
  <2>1. Rewrites(BeginClose(led), "sell")
    <3>1. led.future = 0
      BY <1>10 DEF LiquidateSpot, DatedInv, StepFits
    <3>. QED
      BY <1>1, <3>1, CloseIs DEF Rewrites, Phase, SameLegs
  <2>. QED
    BY <1>10, <2>1, Rewritten DEF LiquidateSpot
<1>11. CASE AssessRisk
  <2>1. Rewrites(Resumed(led), "idle")
    BY <1>1, ResumedIs DEF Rewrites, Phase
  <2>. QED
    BY <1>11, <2>1, Rewritten DEF AssessRisk
<1>12. CASE ProtectiveClose
  <2>. DEFINE m == Resumed(led)
              n == BeginClose(m)
  <2>1. m \in Checkpoint /\ SameAccount(led, m) /\ SameLegs(led, m)
    BY <1>1, ResumedIs
  <2>2. Commit(n, "cover")
    BY <1>12 DEF ProtectiveClose
  <2>. HIDE DEF m
  <2>3. n \in Checkpoint /\ SameAccount(m, n) /\ SameLegs(m, n) /\ n.status = "CLOSING"
    BY <2>1, CloseIs
  <2>. HIDE DEF n
  <2>4. Rewrites(n, "cover")
    BY <2>1, <2>3 DEF Rewrites, SameAccount, SameLegs, Phase
  <2>. QED
    BY <2>2, <2>4, Rewritten
<1>. QED
  BY <1>2, <1>3, <1>4, <1>6, <1>7, <1>8, <1>9, <1>10, <1>11, <1>12, SettleKeeps DEF Management

-----------------------------------------------------------------------------
(* The theorems. *)

LEMMA StutterKeeps ==
    ASSUME DatedInv, UNCHANGED vars
    PROVE  DatedInv'
<1>1. UNCHANGED <<led, world, booked, pc, day, history>> /\ UNCHANGED <<entries, crashes, faults>>
  BY DEF vars, world, bounds
<1>. QED
  BY <1>1 DEF DatedInv, TypeOK, Cursors, Published, Due, StepFits, VariationsExact, NeverNakedShort

(* Every step keeps the invariant: the cursors, what was published, the     *)
(* legs each phase knows of and the two safety properties.                  *)
THEOREM DatedInvariant == Spec => []DatedInv
<1>1. DatedInv /\ [Next]_vars => DatedInv'
  BY EntryKeeps, RecoveryKeeps, ManagementKeeps, CloseKeeps, WorldKeeps, ProcessKeeps, StutterKeeps DEF Next
<1>. QED
  BY <1>1, Opened, PTL DEF Spec

(* Each variation of the holding period is in the cash once, with its       *)
(* event (apply_settlement).                                               *)
THEOREM VariationsAreExact == Spec => []VariationsExact
<1>1. DatedInv => VariationsExact
  BY DEF DatedInv
<1>. QED
  BY <1>1, DatedInvariant, PTL

(* The short is never naked (_open, _execute_close).                       *)
THEOREM ShortIsHedged == Spec => []NeverNakedShort
<1>1. DatedInv => NeverNakedShort
  BY DEF DatedInv
<1>. QED
  BY <1>1, DatedInvariant, PTL

\* Only an audit that left nothing unsettled goes on to the risk control, or
\* one that stopped at an expiry this position did not book.
LEMMA AuditNotices ==
    ASSUME DatedInv, Next, pc = "settle", pc' = "risk",
           NEW d \in Day, led.settled[d] > 0
    PROVE  booked[d] = history[d]
<1>. USE Constants
<1>1. Due(d) /\ history[d] # 0 /\ booked[d] # 0
  BY DEF DatedInv, VariationsExact, Published, Due
<1>2. d \in Audited
  BY <1>1, Fields DEF Audited, Due, DatedInv, Cursors, TypeOK, Day
<1>3. SettlementsDone \/ NothingToSettle
  BY DEF Next, Start, Crash, StoreFault, CycleError, Entry, Recovery, Management, Close, World,
         SweepDust, BeginEntry, BuySpot, SellFuture, FinishEntry, AbortUnfilledEntry, RecoverOpen,
         RecoverByClosing, Recovering, Managed, ReadHistory, HistoryUnavailable, Settle, SettlementGap,
         SettlementCollision, SpotBookMissing, RecordLiquidationTiming, LiquidateSpot,
         ExpiryUnsettled, RiskReview, AssessRisk, ProtectiveClose, Closing, CloseBookMissing, ResumeClose,
         Cover, Covered, SellSpot, ClassifyDust, DayPasses, Publish, Commit, Proceed
<1>4. CASE SettlementsDone
  BY <1>2, <1>4 DEF SettlementsDone, Unsettled
<1>5. CASE NothingToSettle
  <2>1. PICK m \in Unsettled : m = Expiry /\ booked[m] = 0 /\ \A e \in Unsettled : m <= e
    BY <1>5, FirstUnsettled DEF NothingToSettle, Proceed
  <2>2. d # Expiry
    BY <1>1, <2>1
  <2>3. d \notin Unsettled
    BY <2>1, <2>2 DEF Day
  <2>. QED
    BY <1>2, <2>3 DEF Unsettled
<1>. QED
  BY <1>3, <1>4, <1>5

(* What goes on to the risk control has been compared with the venue's     *)
(* present record (_manage_position).                                      *)
THEOREM CorrectionsAreNoticed == Spec => CorrectionNoticed
<1>1. DatedInv /\ [Next]_vars =>
        [pc = "settle" /\ pc' = "risk" =>
            \A d \in Day : led.settled[d] > 0 => booked[d] = history[d]]_vars
  BY AuditNotices
<1>. QED
  BY <1>1, DatedInvariant, PTL DEF Spec, CorrectionNoticed

-----------------------------------------------------------------------------
(* The settlement of an external order. *)
Replies == [kind : Kinds \cup {"none"}, status : {"open", "closed", "canceled", "expired", "none"},
            filled : 0 .. Requested]
FillAnswers == [rows : SUBSET Payloads, bad : {"no", "incomplete", "conflict", "transport"}, full : BOOLEAN]
Stages == {"idle", "order", "fills", "assess", "blocked", "finalize", "done"}

PassTypes ==
    /\ executed \in SUBSET Trades /\ Committed \in 0 .. Requested
    /\ lookups \in [1 .. MaxPass -> Replies]
    /\ fills \subseteq Deliverable /\ badFill \in BOOLEAN
    /\ answer \in [order : Replies, fills : Seq(FillAnswers), rows : SUBSET Payloads]
    /\ step \in Stages /\ pass \in 0 .. MaxPass
    /\ step \in {"order", "fills", "assess", "finalize", "blocked"} => pass > 0

\* A pass that has not journaled its answer has left no event.
Unanswered ==
    /\ \A p \in 1 .. MaxPass : p > pass => lookups[p] = NoReply
    /\ step = "order" => lookups[pass] = NoReply

Told(reply) == Outcome(reply) = "FOUND"

\* An observation names the first pass that was told its snapshot.
ObservedOnce ==
    /\ \A p \in 1 .. MaxPass : Told(lookups[p]) => Snapshot(lookups[p]) \in DOMAIN observed
    /\ \A s \in DOMAIN observed :
           /\ observed[s] \in 1 .. MaxPass /\ Told(lookups[observed[s]])
           /\ Snapshot(lookups[observed[s]]) = s

\* A found order whose end accounts for the commitment.
Ends(reply, committed) == Told(reply) /\ Normalized(reply) \in Terminal /\ reply.filled = committed

\* A pass that could build a settlement read a complete answer, and its rows
\* are journaled with its last fill read.
AnswerFits ==
    /\ answer.rows # {} => /\ answer.rows \subseteq Deliverable /\ Quantity(answer.rows) = Committed
                           /\ Ends(answer.order, Committed)
    /\ step \notin {"idle", "order"} => lookups[pass] = answer.order
    /\ answer.rows # {} =>
         IF answer.fills = <<>> THEN answer.rows \subseteq fills
         ELSE answer.fills[Len(answer.fills)].rows = answer.rows /\ step \in {"order", "fills"}
    /\ \A i \in DOMAIN answer.fills : answer.fills[i].rows \subseteq Deliverable

\* Behind every settlement ever built, and behind the one applied, there is a
\* pass that was told the end of the order.
SettlementsFit ==
    \A R \in DOMAIN settlements : settlements[R] \in 1 .. pass /\ Ends(lookups[settlements[R]], Committed)
AppliedFits ==
    applied # {} => \E w \in 1 .. pass : /\ Ends(lookups[w], Committed)
                                         /\ w < pass \/ step \in {"idle", "finalize", "done"}

PassInv == PassTypes /\ Unanswered /\ ObservedOnce /\ AnswerFits /\ SettlementsFit /\ AppliedFits
           /\ SettlementIsJust

-----------------------------------------------------------------------------
(* Quantities. *)

LEMMA Limits == Requested \in Nat /\ Requested > 0 /\ MaxPass \in Nat
BY BoundsAssumption

LEMMA LotsFinite ==
    ASSUME NEW R, R \subseteq Payloads
    PROVE  IsFiniteSet(Lots(R)) /\ Quantity(R) \in Nat
<1>1. IsFiniteSet(Payloads)
  BY PayloadsAssumption
<1>2. IsFiniteSet(Lot)
  BY Limits, FS_Interval DEF Lot
<1>3. IsFiniteSet(Payloads \X Lot)
  BY <1>1, <1>2, FS_Product, Zenon
<1>4. Lots(R) \subseteq Payloads \X Lot
  BY DEF Lots
<1>5. IsFiniteSet(Lots(R))
  BY <1>3, <1>4, FS_Subset, Zenon
<1>. QED
  BY <1>5, FS_CardinalityType, Zenon DEF Quantity

LEMMA QuantityGrows ==
    ASSUME NEW A, NEW B, A \subseteq B, B \subseteq Payloads
    PROVE  Quantity(A) <= Quantity(B)
<1>1. Lots(A) \subseteq Lots(B)
  BY DEF Lots
<1>2. IsFiniteSet(Lots(B))
  BY LotsFinite
<1>3. Cardinality(Lots(A)) <= Cardinality(Lots(B))
  BY <1>1, <1>2, FS_Subset, Zenon
<1>. QED
  BY <1>3 DEF Quantity

TradesOf(R) == {r.trade : r \in R}

\* The payload that stands for a trade.
LEMMA OneIs ==
    ASSUME NEW r \in Payloads
    PROVE  LET o == CHOOSE s \in Payloads : s.trade = r.trade
           IN  o \in Payloads /\ o.trade = r.trade /\ o.qty = r.qty
<1>. DEFINE o == CHOOSE s \in Payloads : s.trade = r.trade
<1>1. o \in Payloads /\ o.trade = r.trade
  OBVIOUS
<1>. HIDE DEF o
<1>2. o.qty = r.qty
  BY <1>1, PayloadsAssumption
<1>. QED
  BY <1>1, <1>2 DEF o

LEMMA OnesArePayloads ==
    ASSUME NEW T, T \subseteq Trades
    PROVE  OnePayload(T) \subseteq Payloads
<1>1. ASSUME NEW t \in T PROVE (CHOOSE r \in Payloads : r.trade = t) \in Payloads
  <2>1. PICK r \in Payloads : r.trade = t
    BY DEF Trades
  <2>. QED
    BY <2>1
<1>. QED
  BY <1>1 DEF OnePayload

\* Rows of different trades weigh no more than their trades.
LEMMA RowsWeigh ==
    ASSUME NEW R, R \subseteq Payloads, \A r, s \in R : r.trade = s.trade => r = s
    PROVE  Quantity(R) <= Quantity(OnePayload(TradesOf(R)))
<1>. DEFINE one(t) == CHOOSE r \in Payloads : r.trade = t
            f == [u \in Lots(R) |-> <<one(u[1].trade), u[2]>>]
<1>1. TradesOf(R) \subseteq Trades
  BY DEF TradesOf, Trades
<1>2. ASSUME NEW r \in R
      PROVE  one(r.trade) \in OnePayload(TradesOf(R)) /\ one(r.trade).trade = r.trade /\ one(r.trade).qty = r.qty
  BY OneIs DEF OnePayload, TradesOf
<1>. HIDE DEF one
<1>3. \A u \in Lots(R) : u[1] \in R /\ u[2] \in Lot /\ u[2] <= u[1].qty /\ u = <<u[1], u[2]>>
  BY DEF Lots
<1>4. ASSUME NEW u \in Lots(R) PROVE f[u] \in Lots(OnePayload(TradesOf(R)))
  BY <1>2, <1>3 DEF Lots
<1>5. ASSUME NEW u \in Lots(R), NEW w \in Lots(R), f[u] = f[w] PROVE u = w
  <2>1. one(u[1].trade) = one(w[1].trade) /\ u[2] = w[2]
    BY <1>5
  <2>2. u[1].trade = w[1].trade
    BY <1>2, <1>3, <2>1
  <2>. QED
    BY <1>3, <2>1, <2>2
<1>6. f \in Injection(Lots(R), Lots(OnePayload(TradesOf(R))))
  BY <1>4, <1>5 DEF Injection, IsInjective
<1>7. IsFiniteSet(Lots(OnePayload(TradesOf(R))))
  BY <1>1, OnesArePayloads, LotsFinite
<1>8. Cardinality(Lots(R)) <= Cardinality(Lots(OnePayload(TradesOf(R))))
  BY <1>6, <1>7, FS_Injection, Zenon
<1>. QED
  BY <1>8 DEF Quantity

\* Trades that weigh what more trades weigh are all of them.
LEMMA TradesWeigh ==
    ASSUME NEW S, NEW T, S \subseteq T, T \subseteq Trades,
           Quantity(OnePayload(T)) <= Quantity(OnePayload(S))
    PROVE  S = T
<1>. SUFFICES ASSUME NEW t \in T, t \notin S PROVE FALSE
  OBVIOUS
<1>. DEFINE o == CHOOSE r \in Payloads : r.trade = t
<1>1. o \in Payloads /\ o.trade = t /\ o \in OnePayload(T)
  <2>1. PICK r \in Payloads : r.trade = t
    BY DEF Trades
  <2>. QED
    BY <2>1 DEF OnePayload
<1>. HIDE DEF o
<1>2. o \notin OnePayload(S)
  <2>1. ASSUME NEW s \in S, o = CHOOSE r \in Payloads : r.trade = s PROVE FALSE
    <3>1. PICK r \in Payloads : r.trade = s
      BY DEF Trades
    <3>2. o.trade = s
      BY <2>1, <3>1
    <3>. QED
      BY <1>1, <3>2
  <2>. QED
    BY <2>1 DEF OnePayload
<1>3. Lots(OnePayload(S)) \subseteq Lots(OnePayload(T))
  BY DEF Lots, OnePayload
<1>4. <<o, 1>> \in Lots(OnePayload(T)) /\ <<o, 1>> \notin Lots(OnePayload(S))
  <2>1. 1 \in Lot /\ 1 <= o.qty
    BY <1>1, Limits, PayloadsAssumption DEF Lot
  <2>. QED
    BY <1>1, <1>2, <2>1 DEF Lots
<1>5. IsFiniteSet(Lots(OnePayload(T)))
  BY OnesArePayloads, LotsFinite
<1>6. Lots(OnePayload(S)) # Lots(OnePayload(T))
  BY <1>4
<1>7. /\ Cardinality(Lots(OnePayload(S))) <= Cardinality(Lots(OnePayload(T)))
      /\ Cardinality(Lots(OnePayload(S))) # Cardinality(Lots(OnePayload(T)))
  <2>1. Lots(OnePayload(S)) \in SUBSET Lots(OnePayload(T))
    BY <1>3
  <2>. QED
    BY <2>1, <1>5, <1>6, FS_Subset, Zenon
<1>8. Quantity(OnePayload(S)) \in Nat /\ Quantity(OnePayload(T)) \in Nat
  BY OnesArePayloads, LotsFinite
<1>. QED
  BY <1>7, <1>8 DEF Quantity

-----------------------------------------------------------------------------
(* The assessment. *)

\* What a step leaves of the journal: no event is rewritten, no fill removed.
Keeps ==
    /\ \A p \in 1 .. MaxPass : lookups[p] # NoReply => lookups'[p] = lookups[p]
    /\ fills \subseteq fills' /\ fills' \subseteq Payloads /\ (badFill => badFill')

LEMMA NoReplyIsSilent == Outcome(NoReply) = "NOT_FOUND"
BY DEF Outcome, NoReply, Deviant

\* Without ambiguity the bound is the quantity of the fills.
LEMMA UnambiguousBound == Ambiguous = {} /\ fills \subseteq Payloads => LowerBound = Quantity(fills)
<1>. SUFFICES ASSUME Ambiguous = {}, fills \subseteq Payloads PROVE LowerBound = Quantity(fills)
  OBVIOUS
<1>1. CommonLots = {}
  BY DEF CommonLots
<1>2. fills \ Ambiguous = fills
  OBVIOUS
<1>3. LowerBound = Quantity(fills) + 0
  BY <1>1, <1>2, FS_EmptySet, Zenon DEF LowerBound
<1>4. Quantity(fills) \in Nat
  BY LotsFinite
<1>. QED
  BY <1>3, <1>4

LEMMA AmbiguityIs ==
    ASSUME NEW F
    PROVE  {r \in F : {s \in F : s.tid = r.tid} # {r}} # {} <=> \E r, s \in F : r.tid = s.tid /\ r # s
OBVIOUS

LEMMA ConflictStays ==
    ASSUME Keeps, Conflict
    PROVE  Conflict'
<1>1. ASSUME NEW p \in 1 .. MaxPass, Outcome(lookups[p]) # "NOT_FOUND" PROVE lookups'[p] = lookups[p]
  BY <1>1, NoReplyIsSilent DEF Keeps
<1>2. ASSUME NEW p \in 1 .. MaxPass, Found(p) PROVE Found(p)' /\ At(p)' = At(p)
  BY <1>1, <1>2 DEF Found, At
<1>3. CASE BindingConflict \/ BadAnswer
  BY <1>1, <1>3 DEF BindingConflict, BadAnswer, Keeps, Conflict
<1>4. CASE QuantityWentDown
  BY <1>2, <1>4 DEF QuantityWentDown, Conflict
<1>5. CASE Reopened
  BY <1>2, <1>5 DEF Reopened, Conflict
<1>6. CASE TwoEndings
  BY <1>2, <1>6 DEF TwoEndings, Conflict
<1>7. (Ambiguous # {} <=> \E r, s \in fills : r.tid = s.tid /\ r # s)
      /\ (Ambiguous' # {} <=> \E r, s \in fills' : r.tid = s.tid /\ r # s)
  BY AmbiguityIs DEF Ambiguous, Linked
<1>8. CASE Ambiguous # {}
  BY <1>7, <1>8 DEF Keeps, Conflict
<1>9. CASE LowerBound > Requested /\ Ambiguous = {}
  <2>1. CASE Ambiguous' # {}
    BY <2>1 DEF Conflict
  <2>2. CASE Ambiguous' = {}
    <3>1. LowerBound = Quantity(fills)
      BY <1>9, UnambiguousBound DEF Keeps
    <3>2. (Ambiguous = {} /\ fills \subseteq Payloads => LowerBound = Quantity(fills))'
      BY UnambiguousBound, PTL
    <3>3. LowerBound' = Quantity(fills')
      BY <2>2, <3>2 DEF Keeps, Quantity, Lots
    <3>4. Quantity(fills) <= Quantity(fills') /\ Quantity(fills) \in Nat /\ Quantity(fills') \in Nat
      BY QuantityGrows, LotsFinite DEF Keeps
    <3>5. LowerBound' > Requested
      BY <1>9, <3>1, <3>3, <3>4, Limits
    <3>. QED
      BY <3>5 DEF Conflict
  <2>. QED
    BY <2>1, <2>2
<1>. QED
  BY <1>3, <1>4, <1>5, <1>6, <1>8, <1>9 DEF Conflict

-----------------------------------------------------------------------------
(* What the venue may answer. *)

LEMMA RepliesAre ==
    ASSUME NEW o \in OrderReplies, Committed \in 0 .. Requested
    PROVE  o \in Replies /\ (ReadsFills(o) => Ends(o, Committed))
<1>. USE Limits
<1>1. CASE \E c \in 0 .. Requested - 1 : o = Order("open", c)
  BY <1>1 DEF Order, Replies, Kinds, ReadsFills, Normalized, Terminal
<1>2. CASE \E s \in {"closed", "canceled", "expired"} : o = Order(s, Committed)
  BY <1>2 DEF Order, Replies, Kinds, ReadsFills, Ends, Told
<1>3. CASE \E k \in Kinds \ {"order"} : o = Deviant(k)
  BY <1>3 DEF Deviant, Replies, ReadsFills, Outcome, Kinds
<1>. QED
  BY <1>1, <1>2, <1>3 DEF OrderReplies

LEMMA FillsAre ==
    ASSUME NEW f \in FillReplies
    PROVE  f \in FillAnswers /\ f.rows \subseteq Deliverable
BY DEF FillReplies, FillAnswers, Deliverable

LEMMA ReadsAre ==
    ASSUME NEW reads \in FillReads \cup {<<>>}
    PROVE  /\ reads \in Seq(FillAnswers)
           /\ \A i \in DOMAIN reads : reads[i].rows \subseteq Deliverable
           /\ SettlementRows(reads) # {} =>
                 /\ reads # <<>> /\ reads[Len(reads)].rows = SettlementRows(reads)
                 /\ Quantity(SettlementRows(reads)) = Committed
                 /\ SettlementRows(reads) \subseteq Deliverable
<1>1. CASE reads = <<>>
  BY <1>1 DEF SettlementRows
<1>2. CASE \E f \in FillReplies : reads = <<f>>
  BY <1>2, FillsAre DEF SettlementRows
<1>3. CASE \E f, g \in FillReplies : reads = <<f, g>>
  <2>1. PICK f \in FillReplies, g \in FillReplies : reads = <<f, g>>
    BY <1>3
  <2>2. reads \in Seq(FillAnswers) /\ Len(reads) = 2 /\ reads[1] = f /\ reads[2] = g /\ DOMAIN reads = 1 .. 2
    BY <2>1, FillsAre
  <2>3. SettlementRows(reads) # {} => SettlementRows(reads) = g.rows /\ Quantity(g.rows) = Committed
    BY <2>2 DEF SettlementRows, IsComplete
  <2>4. g.rows \subseteq Deliverable /\ f.rows \subseteq Deliverable
    BY FillsAre
  <2>5. \A i \in DOMAIN reads : reads[i].rows \subseteq Deliverable
    BY <2>2, <2>4
  <2>6. reads # <<>> /\ reads[Len(reads)].rows = g.rows
    BY <2>2
  <2>. QED
    BY <2>2, <2>3, <2>4, <2>5, <2>6
<1>. QED
  BY <1>1, <1>2, <1>3 DEF FillReads

-----------------------------------------------------------------------------
(* Each step. *)

LEMMA PassOpens == PassInit => PassInv
<1>. SUFFICES ASSUME PassInit PROVE PassInv
  OBVIOUS
<1>. USE Limits
<1>1. /\ executed \subseteq Trades /\ Committed <= Requested /\ fills = {} /\ step = "idle" /\ pass = 0
      /\ lookups = [p \in 1 .. MaxPass |-> NoReply] /\ DOMAIN observed = {} /\ DOMAIN settlements = {}
      /\ applied = {} /\ badFill = FALSE /\ answer = NoAnswer
  BY DEF PassInit, Committed
<1>2. Committed \in Nat
  BY <1>1, OnesArePayloads, LotsFinite DEF Committed
<1>3. NoReply \in Replies /\ NoAnswer \in [order : Replies, fills : Seq(FillAnswers), rows : SUBSET Payloads]
  BY DEF NoReply, Deviant, Replies, NoAnswer
<1>4. PassTypes
  <2>1. executed \in SUBSET Trades /\ Committed \in 0 .. Requested
    BY <1>1, <1>2
  <2>2. lookups \in [1 .. MaxPass -> Replies] /\ fills \subseteq Deliverable
    BY <1>1, <1>3
  <2>3. /\ answer \in [order : Replies, fills : Seq(FillAnswers), rows : SUBSET Payloads]
        /\ badFill \in BOOLEAN /\ step \in Stages
    BY <1>1, <1>3 DEF Stages
  <2>4. pass \in 0 .. MaxPass /\ step \notin {"order", "fills", "assess", "finalize", "blocked"}
    BY <1>1
  <2>. QED
    BY <2>1, <2>2, <2>3, <2>4 DEF PassTypes
<1>5. Unanswered /\ ObservedOnce
  BY <1>1, NoReplyIsSilent DEF Unanswered, ObservedOnce, Told
<1>6. AnswerFits /\ SettlementsFit /\ AppliedFits
  BY <1>1 DEF AnswerFits, SettlementsFit, AppliedFits, NoAnswer
<1>7. SettlementIsJust
  BY <1>1 DEF SettlementIsJust, AppliedIsExecution, FirstCompletePassSettles
<1>. QED
  BY <1>4, <1>5, <1>6, <1>7 DEF PassInv

\* The judgement stands as long as nothing is applied and no pass blocks.
LEMMA StaysJust ==
    ASSUME PassInv, UNCHANGED <<executed, applied>>, step' # "blocked"
    PROVE  SettlementIsJust'
BY DEF PassInv, SettlementIsJust, AppliedIsExecution, FirstCompletePassSettles

LEMMA AcquireKeeps == ASSUME PassInv, Acquire PROVE PassInv'
<1>. USE Limits
<1>1. /\ step \in {"idle", "blocked"} /\ pass < MaxPass /\ pass' = pass + 1 /\ step' = "order"
      /\ UNCHANGED <<executed, journal, applied>>
  BY DEF Acquire
<1>2. PICK o \in OrderReplies, reads \in FillReads \cup {<<>>} :
         /\ answer' = [order |-> o, fills |-> reads, rows |-> SettlementRows(reads)]
         /\ reads # <<>> => ReadsFills(o)
  BY DEF Acquire
<1>3. UNCHANGED <<executed, lookups, observed, fills, badFill, settlements, applied>> /\ Committed' = Committed
      /\ Deliverable' = Deliverable
  BY <1>1 DEF journal, Committed, Deliverable
<1>4. /\ PassTypes /\ Unanswered /\ ObservedOnce /\ SettlementsFit /\ AppliedFits /\ Committed \in 0 .. Requested
      /\ pass \in 0 .. MaxPass
  BY DEF PassInv, PassTypes
<1>5. o \in Replies /\ (ReadsFills(o) => Ends(o, Committed))
  BY <1>4, RepliesAre
<1>. DEFINE R == SettlementRows(reads)
<1>6. /\ reads \in Seq(FillAnswers) /\ \A i \in DOMAIN reads : reads[i].rows \subseteq Deliverable
      /\ R # {} => /\ reads # <<>> /\ reads[Len(reads)].rows = R /\ Quantity(R) = Committed
                   /\ R \subseteq Deliverable
  BY ReadsAre
<1>7. R \in SUBSET Payloads
  BY <1>6 DEF Deliverable
<1>. HIDE DEF R
<1>8. answer' = [order |-> o, fills |-> reads, rows |-> R]
  BY <1>2 DEF R
<1>9. PassTypes'
  BY <1>1, <1>3, <1>4, <1>5, <1>6, <1>7, <1>8 DEF PassTypes, Stages
<1>10. Unanswered'
  BY <1>1, <1>3, <1>4 DEF Unanswered
<1>11. ObservedOnce'
  BY <1>3, <1>4 DEF ObservedOnce
<1>12. AnswerFits'
  <2>2. /\ answer'.order = o /\ answer'.fills = reads /\ answer'.rows = R
    BY <1>8
  <2>. QED
    BY <1>1, <1>2, <1>3, <1>5, <1>6, <2>2 DEF AnswerFits
<1>13. SettlementsFit' /\ AppliedFits'
  BY <1>1, <1>3, <1>4 DEF SettlementsFit, AppliedFits
<1>. QED
  BY <1>1, <1>3, <1>9, <1>10, <1>11, <1>12, <1>13, StaysJust DEF PassInv

LEMMA OrderKeeps == ASSUME PassInv, PersistOrder PROVE PassInv'
<1>. USE Limits
<1>1. /\ step = "order" /\ step' = "fills" /\ lookups' = [lookups EXCEPT ![pass] = answer.order]
      /\ observed' = IF Told(answer.order)
                     THEN WithObservation(Snapshot(answer.order)) ELSE observed
      /\ UNCHANGED <<executed, fills, badFill, settlements, applied, answer, pass>>
  BY DEF PersistOrder, Told
<1>2. /\ PassTypes /\ Unanswered /\ ObservedOnce /\ AnswerFits /\ SettlementsFit /\ AppliedFits
      /\ pass \in 1 .. MaxPass /\ lookups \in [1 .. MaxPass -> Replies] /\ answer.order \in Replies
      /\ lookups[pass] = NoReply
  BY <1>1 DEF PassInv, PassTypes, Unanswered
<1>3. /\ lookups' \in [1 .. MaxPass -> Replies] /\ lookups'[pass] = answer.order
      /\ \A p \in 1 .. MaxPass \ {pass} : lookups'[p] = lookups[p]
  BY <1>1, <1>2
<1>4. ~Told(lookups[pass])
  BY <1>2, NoReplyIsSilent DEF Told
<1>5. PassTypes'
  BY <1>1, <1>2, <1>3 DEF PassTypes, Stages, Committed, Deliverable
<1>6. Unanswered'
  BY <1>1, <1>2, <1>3 DEF Unanswered
<1>7. ObservedOnce'
  <2>. DEFINE o == Snapshot(answer.order)
  <2>1. /\ DOMAIN observed' = IF Told(answer.order) THEN DOMAIN observed \cup {o} ELSE DOMAIN observed
        /\ \A t \in DOMAIN observed : observed'[t] = observed[t]
        /\ Told(answer.order) /\ o \notin DOMAIN observed => observed'[o] = pass
    BY <1>1 DEF WithObservation
  <2>. HIDE DEF o
  <2>2. o = Snapshot(lookups'[pass]) /\ (Told(lookups'[pass]) <=> Told(answer.order))
    BY <1>3 DEF o
  <2>3. ASSUME NEW p \in 1 .. MaxPass, Told(lookups'[p]) PROVE Snapshot(lookups'[p]) \in DOMAIN observed'
    <3>1. CASE p = pass
      BY <2>1, <2>2, <2>3, <3>1
    <3>2. CASE p # pass
      <4>1. lookups'[p] = lookups[p]
        BY <1>3, <3>2
      <4>2. Snapshot(lookups[p]) \in DOMAIN observed
        BY <1>2, <2>3, <4>1 DEF ObservedOnce
      <4>. QED
        BY <2>1, <4>1, <4>2
    <3>. QED
      BY <3>1, <3>2
  <2>4. ASSUME NEW t \in DOMAIN observed'
        PROVE  /\ observed'[t] \in 1 .. MaxPass /\ Told(lookups'[observed'[t]])
               /\ Snapshot(lookups'[observed'[t]]) = t
    <3>1. CASE t \in DOMAIN observed
      <4>1. observed[t] \in 1 .. MaxPass /\ Told(lookups[observed[t]]) /\ Snapshot(lookups[observed[t]]) = t
        BY <1>2, <3>1 DEF ObservedOnce
      <4>2. observed[t] # pass /\ observed'[t] = observed[t]
        BY <1>4, <2>1, <3>1, <4>1
      <4>. QED
        BY <1>3, <4>1, <4>2
    <3>2. CASE t \notin DOMAIN observed
      <4>1. t = o /\ Told(answer.order) /\ observed'[t] = pass
        BY <2>1, <3>2
      <4>. QED
        BY <1>2, <2>2, <4>1
    <3>. QED
      BY <3>1, <3>2
  <2>. QED
    BY <2>3, <2>4 DEF ObservedOnce
<1>8. \A p \in 1 .. MaxPass : Ends(lookups[p], Committed) => Ends(lookups'[p], Committed')
  <2>1. Committed' = Committed
    BY <1>1 DEF Committed
  <2>. QED
    BY <1>3, <1>4, <2>1 DEF Ends
<1>9. AnswerFits'
  BY <1>1, <1>2, <1>3 DEF AnswerFits, Deliverable, Committed
<1>10. SettlementsFit'
  <2>1. \A R \in DOMAIN settlements : settlements[R] \in 1 .. MaxPass
    BY <1>2 DEF SettlementsFit
  <2>. QED
    BY <1>1, <1>2, <1>8, <2>1 DEF SettlementsFit
<1>11. AppliedFits'
  <2>1. \A w \in 1 .. pass : w \in 1 .. MaxPass
    BY <1>2
  <2>. QED
    BY <1>1, <1>2, <1>8, <2>1 DEF AppliedFits
<1>. QED
  BY <1>1, <1>5, <1>6, <1>7, <1>9, <1>10, <1>11, StaysJust DEF PassInv

LEMMA EmptyIs == ASSUME NEW S, NEW s \in Seq(S), Len(s) = 0 PROVE s = <<>>
OBVIOUS

LEMMA TailIs ==
    ASSUME NEW S, NEW s \in Seq(S), s # <<>>
    PROVE  /\ Tail(s) \in Seq(S) /\ Head(s) = s[1] /\ 1 \in DOMAIN s /\ s[1] \in S
           /\ \A i \in DOMAIN Tail(s) : i + 1 \in DOMAIN s /\ Tail(s)[i] = s[i + 1]
           /\ IF Tail(s) = <<>> THEN Len(s) = 1 ELSE Tail(s)[Len(Tail(s))] = s[Len(s)]
<1>1. Len(s) \in Nat \ {0} /\ Len(Tail(s)) = Len(s) - 1 /\ DOMAIN s = 1 .. Len(s)
      /\ DOMAIN Tail(s) = 1 .. Len(s) - 1
  OBVIOUS
<1>2. \A i \in 1 .. Len(s) - 1 : Tail(s)[i] = s[i + 1]
  BY <1>1
<1>3. Tail(s) \in Seq(S) /\ Head(s) = s[1] /\ 1 \in DOMAIN s /\ s[1] \in S
  BY <1>1
<1>4. CASE Tail(s) = <<>>
  <2>1. Len(Tail(s)) = 0
    <3>1. Len(<<>>) = 0
      OBVIOUS
    <3>. QED
      BY <1>4, <3>1, Zenon
  <2>. QED
    BY <1>1, <1>2, <1>3, <1>4, <2>1
<1>5. CASE Tail(s) # <<>>
  <2>1. Len(Tail(s)) # 0
    BY <1>3, <1>5, EmptyIs
  <2>. QED
    BY <1>1, <1>2, <1>3, <1>5, <2>1
<1>. QED
  BY <1>4, <1>5

LEMMA FillsKeep == ASSUME PassInv, PersistFills PROVE PassInv'
<1>. USE Limits
<1>. DEFINE f == Head(answer.fills)
<1>1. /\ step = "fills" /\ answer.fills # <<>>
      /\ fills' = fills \cup f.rows
      /\ badFill' = (badFill \/ FillOutcome(f) = "CONFLICTING_RESPONSE")
      /\ answer' = [answer EXCEPT !.fills = Tail(@)]
      /\ UNCHANGED <<executed, lookups, observed, settlements, applied, step, pass>>
  BY DEF PersistFills
<1>2. /\ PassTypes /\ Unanswered /\ ObservedOnce /\ AnswerFits /\ SettlementsFit /\ AppliedFits
      /\ answer \in [order : Replies, fills : Seq(FillAnswers), rows : SUBSET Payloads]
  BY DEF PassInv, PassTypes
<1>. DEFINE s == answer.fills
<1>3. /\ Tail(s) \in Seq(FillAnswers) /\ f = s[1] /\ 1 \in DOMAIN s
      /\ \A i \in DOMAIN Tail(s) : i + 1 \in DOMAIN s /\ Tail(s)[i] = s[i + 1]
      /\ IF Tail(s) = <<>> THEN Len(s) = 1 ELSE Tail(s)[Len(Tail(s))] = s[Len(s)]
  <2>1. s \in Seq(FillAnswers) /\ s # <<>>
    BY <1>1, <1>2
  <2>. HIDE DEF s
  <2>2. f = Head(s)
    BY DEF s
  <2>. QED
    BY <2>1, <2>2, TailIs
<1>4. /\ answer'.order = answer.order /\ answer'.rows = answer.rows /\ answer'.fills = Tail(s)
      /\ answer' \in [order : Replies, fills : Seq(FillAnswers), rows : SUBSET Payloads]
  BY <1>1, <1>2, <1>3
<1>5. f.rows \subseteq Deliverable /\ \A i \in DOMAIN Tail(s) : Tail(s)[i].rows \subseteq Deliverable
  BY <1>2, <1>3 DEF AnswerFits
<1>6. Committed' = Committed /\ Deliverable' = Deliverable
  BY <1>1 DEF Committed, Deliverable
<1>7. answer.rows # {} => IF Tail(s) = <<>> THEN answer.rows = f.rows ELSE Tail(s)[Len(Tail(s))].rows = answer.rows
  BY <1>1, <1>2, <1>3 DEF AnswerFits
<1>. HIDE DEF f, s
<1>8. PassTypes'
  BY <1>1, <1>2, <1>4, <1>5, <1>6 DEF PassTypes
<1>9. AnswerFits'
  BY <1>1, <1>2, <1>4, <1>5, <1>6, <1>7 DEF AnswerFits
<1>10. Unanswered' /\ ObservedOnce' /\ SettlementsFit' /\ AppliedFits'
  BY <1>1, <1>2, <1>6 DEF Unanswered, ObservedOnce, SettlementsFit, AppliedFits
<1>. QED
  BY <1>1, <1>8, <1>9, <1>10, StaysJust DEF PassInv

LEMMA SettlementKeeps == ASSUME PassInv, PersistSettlement PROVE PassInv'
<1>. USE Limits
<1>1. /\ step = "fills" /\ answer.fills = <<>> /\ step' = "assess"
      /\ settlements' = IF answer.rows = {} THEN settlements
                        ELSE [R \in DOMAIN settlements \cup {answer.rows} |->
                                 IF R = answer.rows THEN pass ELSE settlements[R]]
      /\ UNCHANGED <<executed, lookups, observed, fills, badFill, applied, answer, pass>>
  BY DEF PersistSettlement, Window
<1>2. /\ PassTypes /\ Unanswered /\ ObservedOnce /\ AnswerFits /\ SettlementsFit /\ AppliedFits
      /\ pass \in 1 .. MaxPass
  BY <1>1 DEF PassInv, PassTypes
<1>3. Committed' = Committed /\ Deliverable' = Deliverable
  BY <1>1 DEF Committed, Deliverable
<1>4. PassTypes' /\ Unanswered' /\ ObservedOnce' /\ AnswerFits' /\ AppliedFits'
  BY <1>1, <1>2, <1>3 DEF PassTypes, Stages, Unanswered, ObservedOnce, AnswerFits, AppliedFits
<1>5. SettlementsFit'
  <2>1. CASE answer.rows = {}
    BY <1>1, <1>2, <1>3, <2>1 DEF SettlementsFit
  <2>2. CASE answer.rows # {}
    <3>1. Ends(lookups[pass], Committed)
      BY <1>1, <1>2, <2>2 DEF AnswerFits
    <3>2. ASSUME NEW R \in DOMAIN settlements'
          PROVE  settlements'[R] \in 1 .. pass /\ Ends(lookups[settlements'[R]], Committed)
      <4>1. CASE R = answer.rows
        BY <1>1, <1>2, <2>2, <3>1, <4>1
      <4>2. CASE R # answer.rows
        BY <1>1, <1>2, <2>2, <4>2 DEF SettlementsFit
      <4>. QED
        BY <4>1, <4>2
    <3>. QED
      BY <1>1, <1>3, <3>2 DEF SettlementsFit
  <2>. QED
    BY <2>1, <2>2
<1>. QED
  BY <1>1, <1>4, <1>5, StaysJust DEF PassInv

\* Two ends of one order, told by a consistent venue, are one snapshot told twice.
LEMMA ToldTwice ==
    ASSUME PassTypes, VenueIsConsistent, NEW p \in 1 .. MaxPass, NEW q \in 1 .. MaxPass, p < q,
           Ends(lookups[p], Committed), Ends(lookups[q], Committed)
    PROVE  ~NothingToldTwice
<1>1. Found(p) /\ Found(q) /\ At(p).state \in Terminal /\ At(q).state \in Terminal
      /\ lookups[p].filled = Committed /\ lookups[q].filled = Committed
  BY DEF Ends, Told, Found, At, Snapshot
<1>2. At(q).state \in {At(p).state, "UNKNOWN"}
  BY <1>1 DEF VenueIsConsistent
<1>3. At(q).state = At(p).state
  BY <1>1, <1>2 DEF Terminal
<1>4. At(p) = At(q)
  BY <1>1, <1>3 DEF At, Snapshot
<1>. QED
  BY <1>1, <1>4 DEF NothingToldTwice

LEMMA PersistenceBlockedKeeps == ASSUME PassInv, PersistenceBlocked PROVE PassInv'
<1>. USE Limits
<1>1. /\ step = "fills" /\ answer.fills = <<>> /\ step' = "blocked" /\ KeyConflict
      /\ UNCHANGED <<executed, lookups, observed, fills, badFill, settlements, applied, answer, pass>>
  BY DEF PersistenceBlocked, journal
<1>2. /\ PassTypes /\ Unanswered /\ ObservedOnce /\ AnswerFits /\ SettlementsFit /\ AppliedFits
      /\ pass \in 1 .. MaxPass /\ AppliedIsExecution
  BY <1>1 DEF PassInv, PassTypes, SettlementIsJust
<1>3. Committed' = Committed /\ Deliverable' = Deliverable
  BY <1>1 DEF Committed, Deliverable
<1>4. PassTypes' /\ Unanswered' /\ ObservedOnce' /\ AnswerFits' /\ AppliedFits' /\ SettlementsFit'
  BY <1>1, <1>2, <1>3
     DEF PassTypes, Stages, Unanswered, ObservedOnce, AnswerFits, AppliedFits, SettlementsFit
<1>5. AppliedIsExecution'
  BY <1>1, <1>2 DEF AppliedIsExecution
<1>6. ASSUME answer.rows # {}, VenueIsConsistent PROVE ~NothingToldTwice
  <2>1. Ends(lookups[pass], Committed)
    BY <1>1, <1>2, <1>6 DEF AnswerFits
  <2>2. PICK w \in 1 .. pass : w # pass /\ Ends(lookups[w], Committed)
    BY <1>1, <1>2 DEF KeyConflict, Window, SettlementsFit
  <2>3. w \in 1 .. MaxPass /\ w < pass
    BY <1>2, <2>2
  <2>. QED
    BY <1>2, <1>6, <2>1, <2>2, <2>3, ToldTwice
<1>7. FirstCompletePassSettles'
  <2>1. (VenueIsConsistent <=> VenueIsConsistent') /\ (NothingToldTwice <=> NothingToldTwice')
    BY <1>1 DEF VenueIsConsistent, NothingToldTwice, Found, At
  <2>. QED
    BY <1>1, <1>6, <2>1 DEF FirstCompletePassSettles
<1>. QED
  BY <1>4, <1>5, <1>7 DEF PassInv, SettlementIsJust

\* Rows that differ whenever their trades do, and that the venue delivered,
\* weigh no more than what it executed.
LEMMA DeliveredWeigh ==
    ASSUME PassTypes, NEW R, R \subseteq Deliverable, \A r, s \in R : r.tid = s.tid => r = s
    PROVE  /\ \A r, s \in R : r.trade = s.trade => r = s
           /\ Quantity(R) <= Quantity(OnePayload(TradesOf(R)))
           /\ Quantity(OnePayload(TradesOf(R))) <= Committed
           /\ TradesOf(R) \subseteq executed
           /\ R \subseteq Payloads
<1>1. R \subseteq Payloads /\ TradesOf(R) \subseteq executed /\ executed \subseteq Trades
  BY DEF Deliverable, TradesOf, PassTypes
<1>2. \A r, s \in R : r.trade = s.trade => r = s
  BY <1>1, PayloadsAssumption
<1>3. Quantity(R) <= Quantity(OnePayload(TradesOf(R)))
  BY <1>1, <1>2, RowsWeigh
<1>4. OnePayload(TradesOf(R)) \subseteq OnePayload(executed) /\ OnePayload(executed) \subseteq Payloads
  BY <1>1, OnesArePayloads DEF OnePayload
<1>5. Quantity(OnePayload(TradesOf(R))) <= Committed
  BY <1>4, QuantityGrows DEF Committed
<1>. QED
  BY <1>1, <1>2, <1>3, <1>5

LEMMA NoAmbiguity == (Ambiguous = {}) <=> \A r, s \in fills : r.tid = s.tid => r = s
BY AmbiguityIs DEF Ambiguous, Linked

LEMMA ApplyKeeps == ASSUME PassInv, Apply PROVE PassInv'
<1>. USE Limits
<1>1. /\ step = "assess" /\ step' = "finalize" /\ applied' = answer.rows /\ Settles
      /\ UNCHANGED <<executed, lookups, observed, fills, badFill, settlements, answer, pass>>
  BY DEF Apply, journal
<1>2. /\ PassTypes /\ Unanswered /\ ObservedOnce /\ AnswerFits /\ SettlementsFit /\ AppliedFits
      /\ pass \in 1 .. MaxPass /\ fills \subseteq Deliverable /\ Committed \in Nat
  BY <1>1 DEF PassInv, PassTypes
<1>3. Committed' = Committed /\ Deliverable' = Deliverable
  BY <1>1 DEF Committed, Deliverable
<1>4. /\ answer.rows # {} /\ answer.rows \subseteq fills /\ Quantity(answer.rows) = Committed
      /\ Ends(lookups[pass], Committed)
  BY <1>1, <1>2 DEF AnswerFits, Settles
<1>5. PassTypes' /\ Unanswered' /\ ObservedOnce' /\ AnswerFits' /\ SettlementsFit'
  BY <1>1, <1>2, <1>3 DEF PassTypes, Stages, Unanswered, ObservedOnce, AnswerFits, SettlementsFit
<1>6. AppliedFits'
  BY <1>1, <1>2, <1>3, <1>4 DEF AppliedFits
<1>7. AppliedIsExecution'
  <2>1. \A r, s \in fills : r.tid = s.tid => r = s
    BY <1>1, NoAmbiguity DEF Settles, Conflict
  <2>. DEFINE R == answer.rows
  <2>2. R \subseteq Deliverable /\ \A r, s \in R : r.tid = s.tid => r = s
    BY <1>2, <1>4, <2>1
  <2>. HIDE DEF R
  <2>3. /\ \A r, s \in R : r.trade = s.trade => r = s
        /\ Quantity(R) <= Quantity(OnePayload(TradesOf(R)))
        /\ TradesOf(R) \subseteq executed
    BY <1>2, <2>2, DeliveredWeigh
  <2>4. Quantity(OnePayload(executed)) <= Quantity(OnePayload(TradesOf(R)))
    BY <1>4, <2>3 DEF Committed, R
  <2>5. TradesOf(R) = executed
    BY <1>2, <2>3, <2>4, TradesWeigh DEF PassTypes
  <2>. QED
    BY <1>1, <2>3, <2>5 DEF AppliedIsExecution, TradesOf, R
<1>8. FirstCompletePassSettles'
  BY <1>1 DEF FirstCompletePassSettles
<1>. QED
  BY <1>5, <1>6, <1>7, <1>8 DEF PassInv, SettlementIsJust

\* A consistent venue leaves nothing for the kernel to object to.
LEMMA ConsistentIsClean ==
    ASSUME PassTypes, VenueIsConsistent
    PROVE  ~BindingIncomplete /\ ~Conflict
<1>. USE Limits
<1>1. lookups \in [1 .. MaxPass -> Replies] /\ fills \subseteq Deliverable /\ Committed \in 0 .. Requested
  BY DEF PassTypes
<1>2. ASSUME NEW p \in 1 .. MaxPass PROVE Outcome(lookups[p]) \in {"FOUND", "NOT_FOUND"}
  BY DEF VenueIsConsistent, Outcome
<1>3. ~BindingIncomplete /\ ~BindingConflict /\ ~BadAnswer
  BY <1>2 DEF BindingIncomplete, BindingConflict, BadAnswer, VenueIsConsistent
<1>4. ASSUME NEW p \in 1 .. MaxPass, NEW q \in 1 .. MaxPass, p < q, Found(p), Found(q)
      PROVE  /\ At(p).cum <= At(q).cum /\ At(p).cum \in Nat /\ At(q).cum \in Nat
             /\ At(p).state \in Terminal => At(q).state \in {At(p).state, "UNKNOWN"}
  <2>1. At(p).cum \in Nat /\ At(q).cum \in Nat
    BY <1>1 DEF At, Snapshot, Replies
  <2>. QED
    BY <1>4, <2>1 DEF VenueIsConsistent
<1>5. ~QuantityWentDown
  <2>1. SUFFICES ASSUME NEW p \in 1 .. MaxPass, NEW q \in 1 .. MaxPass, p < q, Found(p), Found(q),
                        At(q).cum < At(p).cum
                 PROVE  FALSE
    BY DEF QuantityWentDown
  <2>2. At(p).cum <= At(q).cum /\ At(p).cum \in Nat /\ At(q).cum \in Nat
    BY <1>4, <2>1
  <2>. QED
    BY <2>1, <2>2
<1>6. ~Reopened
  BY <1>4 DEF Reopened, Terminal, Active
<1>7. ~TwoEndings
  <2>1. SUFFICES ASSUME NEW p \in 1 .. MaxPass, NEW q \in 1 .. MaxPass, Found(p), Found(q),
                        At(p).state \in Terminal, At(q).state \in Terminal, At(p).state # At(q).state
                 PROVE  FALSE
    BY DEF TwoEndings
  <2>2. CASE p < q
    BY <1>4, <2>1, <2>2 DEF Terminal
  <2>3. CASE q < p
    BY <1>4, <2>1, <2>3 DEF Terminal
  <2>4. p # q
    BY <2>1
  <2>. QED
    BY <2>2, <2>3, <2>4
<1>8. Ambiguous = {}
  BY NoAmbiguity DEF VenueIsConsistent
<1>9. LowerBound <= Requested
  <2>1. \A r, s \in fills : r.tid = s.tid => r = s
    BY DEF VenueIsConsistent
  <2>. DEFINE R == TradesOf(fills)
  <2>2. /\ Quantity(fills) <= Quantity(OnePayload(R)) /\ Quantity(OnePayload(R)) <= Committed
        /\ fills \subseteq Payloads /\ R \subseteq executed
    BY <1>1, <2>1, DeliveredWeigh
  <2>3. Quantity(fills) \in Nat /\ Quantity(OnePayload(R)) \in Nat
    BY <2>2, LotsFinite, OnesArePayloads DEF PassTypes
  <2>4. LowerBound = Quantity(fills)
    BY <1>8, <2>2, UnambiguousBound
  <2>. HIDE DEF R
  <2>. QED
    BY <1>1, <2>2, <2>3, <2>4
<1>10. LowerBound \in Nat
  BY <1>1, <1>8, UnambiguousBound, LotsFinite DEF Deliverable
<1>. QED
  BY <1>3, <1>5, <1>6, <1>7, <1>8, <1>9, <1>10 DEF Conflict

LEMMA NotReadyKeeps == ASSUME PassInv, NotReady PROVE PassInv'
<1>. USE Limits
<1>1. /\ step = "assess" /\ step' = "blocked" /\ ~Settles
      /\ UNCHANGED <<executed, lookups, observed, fills, badFill, settlements, applied, answer, pass>>
  BY DEF NotReady, journal
<1>2. /\ PassTypes /\ Unanswered /\ ObservedOnce /\ AnswerFits /\ SettlementsFit /\ AppliedFits
      /\ pass \in 1 .. MaxPass /\ AppliedIsExecution
  BY <1>1 DEF PassInv, PassTypes, SettlementIsJust
<1>3. Committed' = Committed /\ Deliverable' = Deliverable
  BY <1>1 DEF Committed, Deliverable
<1>4. PassTypes' /\ Unanswered' /\ ObservedOnce' /\ AnswerFits' /\ AppliedFits' /\ SettlementsFit'
  BY <1>1, <1>2, <1>3
     DEF PassTypes, Stages, Unanswered, ObservedOnce, AnswerFits, AppliedFits, SettlementsFit
<1>5. AppliedIsExecution'
  BY <1>1, <1>2 DEF AppliedIsExecution
<1>6. ASSUME answer.rows # {}, VenueIsConsistent, NothingToldTwice PROVE FALSE
  <2>1. ~BindingIncomplete /\ ~Conflict
    BY <1>2, <1>6, ConsistentIsClean
  <2>2. ASSUME NEW p \in 1 .. MaxPass, Found(p) PROVE observed[At(p)] = p
    <3>1. At(p) \in DOMAIN observed
      BY <1>2, <2>2 DEF ObservedOnce, Told, Found, At
    <3>2. PICK q \in 1 .. MaxPass : q = observed[At(p)] /\ Found(q) /\ At(q) = At(p)
      BY <1>2, <3>1 DEF ObservedOnce, Told, Found, At
    <3>. QED
      BY <1>6, <2>2, <3>2 DEF NothingToldTwice
  <2>3. applied # {}
    BY <1>1, <1>6, <2>1, <2>2 DEF Settles, ProjectionReady, EventLinked
  <2>4. Ends(lookups[pass], Committed)
    BY <1>1, <1>2, <1>6 DEF AnswerFits
  <2>5. PICK w \in 1 .. pass : w < pass /\ Ends(lookups[w], Committed)
    BY <1>1, <1>2, <2>3 DEF AppliedFits
  <2>6. w \in 1 .. MaxPass
    BY <1>2, <2>5
  <2>. QED
    BY <1>2, <1>6, <2>4, <2>5, <2>6, ToldTwice
<1>7. FirstCompletePassSettles'
  <2>1. (VenueIsConsistent <=> VenueIsConsistent') /\ (NothingToldTwice <=> NothingToldTwice')
    BY <1>1 DEF VenueIsConsistent, NothingToldTwice, Found, At
  <2>. QED
    BY <1>1, <1>6, <2>1 DEF FirstCompletePassSettles
<1>. QED
  BY <1>4, <1>5, <1>7 DEF PassInv, SettlementIsJust

LEMMA EndsOfPassKeep == ASSUME PassInv, Finalize \/ PassDies PROVE PassInv'
<1>. USE Limits
<1>1. /\ UNCHANGED <<executed, lookups, observed, fills, badFill, settlements, applied, pass>>
      /\ \/ step = "finalize" /\ step' = "done" /\ answer' = answer
         \/ step' = "idle" /\ answer' = NoAnswer
  BY DEF Finalize, PassDies, journal
<1>2. PassTypes /\ Unanswered /\ ObservedOnce /\ AnswerFits /\ SettlementsFit /\ AppliedFits
  BY DEF PassInv
<1>3. Committed' = Committed /\ Deliverable' = Deliverable
  BY <1>1 DEF Committed, Deliverable
<1>4. NoAnswer \in [order : Replies, fills : Seq(FillAnswers), rows : SUBSET Payloads]
  BY DEF NoReply, Deviant, Replies, NoAnswer
<1>5. PassTypes'
  BY <1>1, <1>2, <1>3, <1>4 DEF PassTypes, Stages
<1>6. AnswerFits'
  BY <1>1, <1>2, <1>3 DEF AnswerFits, NoAnswer
<1>7. Unanswered' /\ ObservedOnce' /\ SettlementsFit' /\ AppliedFits'
  BY <1>1, <1>2, <1>3 DEF Unanswered, ObservedOnce, SettlementsFit, AppliedFits
<1>. QED
  BY <1>1, <1>5, <1>6, <1>7, StaysJust DEF PassInv

LEMMA PassStutters == ASSUME PassInv, UNCHANGED passVars PROVE PassInv'
<1>1. UNCHANGED <<executed, lookups, observed, fills, badFill, settlements, applied, step, answer, pass>>
  BY DEF passVars, journal
<1>2. Committed' = Committed /\ Deliverable' = Deliverable
  BY <1>1 DEF Committed, Deliverable
<1>3. PassTypes' /\ Unanswered' /\ ObservedOnce' /\ AnswerFits' /\ SettlementsFit' /\ AppliedFits'
  BY <1>1, <1>2 DEF PassInv, PassTypes, Unanswered, ObservedOnce, AnswerFits, SettlementsFit, AppliedFits
<1>4. AppliedIsExecution'
  BY <1>1 DEF PassInv, SettlementIsJust, AppliedIsExecution
<1>5. (VenueIsConsistent <=> VenueIsConsistent') /\ (NothingToldTwice <=> NothingToldTwice')
  BY <1>1 DEF VenueIsConsistent, NothingToldTwice, Found, At
<1>6. FirstCompletePassSettles'
  BY <1>1, <1>5 DEF PassInv, SettlementIsJust, FirstCompletePassSettles
<1>. QED
  BY <1>3, <1>4, <1>6 DEF PassInv, SettlementIsJust

\* Every step keeps the invariant.
LEMMA PassKeeps == ASSUME PassInv, [PassNext]_passVars PROVE PassInv'
<1>1. CASE Acquire
  BY <1>1, AcquireKeeps
<1>2. CASE PersistOrder
  BY <1>2, OrderKeeps
<1>3. CASE PersistFills
  BY <1>3, FillsKeep
<1>4. CASE PersistSettlement
  BY <1>4, SettlementKeeps
<1>5. CASE PersistenceBlocked
  BY <1>5, PersistenceBlockedKeeps
<1>6. CASE Apply
  BY <1>6, ApplyKeeps
<1>7. CASE NotReady
  BY <1>7, NotReadyKeeps
<1>8. CASE Finalize \/ PassDies
  BY <1>8, EndsOfPassKeep
<1>9. CASE UNCHANGED passVars
  BY <1>9, PassStutters
<1>. QED
  BY <1>1, <1>2, <1>3, <1>4, <1>5, <1>6, <1>7, <1>8, <1>9 DEF PassNext

\* No step rewrites an event of the journal or removes a fill.
LEMMA JournalGrows == ASSUME PassInv, [PassNext]_passVars PROVE Keeps
<1>. USE Limits
<1>1. /\ fills \subseteq Deliverable /\ Deliverable \subseteq Payloads /\ pass \in 0 .. MaxPass
      /\ lookups \in [1 .. MaxPass -> Replies] /\ (step \in {"order", "fills"} => pass > 0)
      /\ AnswerFits /\ (step = "order" => lookups[pass] = NoReply)
      /\ answer.fills \in Seq(FillAnswers)
  BY DEF PassInv, PassTypes, Unanswered, Deliverable
<1>2. CASE PersistOrder
  BY <1>1, <1>2 DEF PersistOrder, Keeps
<1>3. CASE PersistFills
  <2>1. answer.fills[1].rows \subseteq Deliverable
    BY <1>1, <1>3, TailIs DEF PersistFills, AnswerFits
  <2>2. fills' = fills \cup answer.fills[1].rows /\ lookups' = lookups /\ (badFill => badFill')
    BY <1>1, <1>3, TailIs DEF PersistFills
  <2>. QED
    BY <1>1, <2>1, <2>2 DEF Keeps
<1>4. CASE UNCHANGED <<lookups, fills, badFill>>
  BY <1>1, <1>4 DEF Keeps
<1>. QED
  BY <1>2, <1>3, <1>4
     DEF PassNext, Acquire, PersistSettlement, PersistenceBlocked, Apply, NotReady, Finalize, PassDies,
         passVars, journal

-----------------------------------------------------------------------------
(* Theorems. *)

\* The invariant holds of every reachable state.
THEOREM PassInvariant == PassSpec => []PassInv
<1>1. PassInit => PassInv
  BY PassOpens
<1>2. PassInv /\ [PassNext]_passVars => PassInv'
  BY PassKeeps
<1>. QED
  BY <1>1, <1>2, PTL DEF PassSpec

\* What the assessment applies (Apply) is what the venue executed, each trade
\* once, and a first complete pass of a consistent venue is not blocked.
THEOREM SettlementsAreJust == PassSpec => []SettlementIsJust
<1>1. PassInv => SettlementIsJust
  BY DEF PassInv
<1>. QED
  BY <1>1, PassInvariant, PTL

\* Once the journal holds a contradiction (Conflict), every later assessment
\* still sees it.
THEOREM ConflictsAreNotForgotten == PassSpec => ConflictNeverForgotten
<1>1. PassInv /\ [PassNext]_passVars => [Conflict => Conflict']_passVars
  BY JournalGrows, ConflictStays
<1>. QED
  BY <1>1, PassInvariant, PTL DEF PassSpec, ConflictNeverForgotten

=============================================================================
