-------------------------- MODULE CarryTwoLegProofs --------------------------
(****************************************************************************)
(* The two-leg carry engine, for any size of the position, number of slots, *)
(* entries and failures: what the store shows is the exposure it records,   *)
(* and the funding cursor passes a slot only when its payment was applied   *)
(* to the short held at that slot.                                          *)
(****************************************************************************)
EXTENDS CarryTwoLeg, TLAPS

Opening == {"open_spot", "open_perp", "open_mark"}
Closing == {"close_perp", "close_spot", "close_end", "after"}
Ticking == {"recover", "funding", "market", "act"}

\* What is true of the row is true of the memory.
Sound(m) ==
    /\ m.st = "HEDGED" => Balanced(m)
    /\ m.st = "FLAT" => ~InPosition(m) /\ ~m.margin /\ m.intent = "none"
    /\ InPosition(m) => m.margin
    /\ m.entry = 0 <=> m.last = 0
    /\ m.last <= slot

\* The reasons only an operator clears: no payment is applied under them.
Stopped(m) == m.why \in {"unsettled_exit", "human"}

SameExposure(m, n) ==
    /\ m.st = n.st /\ m.spot = n.spot /\ m.perp = n.perp /\ m.intent = n.intent
    /\ m.margin = n.margin /\ m.entry = n.entry /\ m.last = n.last

\* A write the store refused leaves the memory ahead in its reason or its halt.
MemoryAgrees ==
    /\ SameExposure(mem, row)
    /\ pc \in {"down"} \cup Opening \cup Closing => mem = row
    /\ Stopped(row) => Stopped(mem)

PhaseFits ==
    /\ pc \in Opening => ~Stopped(mem) /\ mem.margin /\ mem.st # "FLAT"
    /\ pc = "open_spot" => ~InPosition(mem)
    /\ pc = "open_perp" => mem.spot > 0 /\ mem.perp = 0
    /\ pc = "open_mark" => mem.perp > 0 /\ mem.intent = "entry" /\ mem.why = "none"
    /\ pc \in {"open_spot", "open_perp"} => mem.why = "none" /\ mem.intent = "entry"
    /\ pc \in Closing => mem.why # "market_outage" /\ (pc # "after" => mem.st = "EXIT_PENDING")
    /\ pc \in Ticking => ~Stopped(mem) /\ tick.spot = mem.spot /\ tick.perp = mem.perp
    /\ pc \in {"recover", "funding", "market"} => tick.market = "none"
    /\ pc \in {"funding", "market", "act"} => mem.why = "none" \/ (pc = "act" /\ ~Seen)
    /\ pc \in {"market", "act"} /\ tick.ready /\ InPosition(mem) /\ mem.last # 0 => slot <= mem.last

\* A close that may leave a payment behind remembers what the tick began with.
ClosePerpFits ==
    pc = "close_perp" /\ ~Stopped(row) =>
        /\ tick.spot = mem.spot /\ tick.perp = mem.perp
        /\ tick.ready => mem.last = 0 \/ slot <= mem.last
        /\ tick.caller \in {"timeout", "liquidation", "kill_switch"} \/ tick.ready

CloseFits ==
    pc \in Closing /\ ~Stopped(row) => tick.spot >= mem.spot /\ tick.perp >= mem.perp

-----------------------------------------------------------------------------
(* Funding. *)

\* Every slot beyond the cursor waits for its payment on the short now held.
Waiting == \A s \in 1 .. slot : s > row.last => paid[s] = 0 /\ held[s] = row.perp
AllPaid == \A s \in 1 .. slot : paid[s] = held[s]

\* A short whose entry was not dated: it is left to a human.
Undated ==
    /\ row.last = 0 /\ row.perp > 0
    /\ Stopped(row) \/ (row.why = "none" /\ row.intent = "entry")
    /\ pc # "down" => Stopped(mem)

\* A reduction that left a payment behind, and is not noted yet.
Unnoted == pc \in {"close_spot", "close_end", "after"} /\ UnsettledReduction

CursorFits ==
    /\ \A s \in 1 .. row.last : paid[s] = held[s]
    /\ pc = "open_mark" => AllPaid
    /\ pc # "open_mark" => Waiting \/ Stopped(row) \/ Undated \/ Unnoted
    /\ row.last = 0 /\ row.perp > 0 => pc = "open_mark" \/ Undated \/ Stopped(row)

VenueFits ==
    /\ published \subseteq 1 .. slot
    /\ \A s \in Slot : s > slot => paid[s] = 0

FundingFits == ~torn => CursorFits

CarryInv ==
    /\ TypeOK
    /\ Sound(row) /\ Sound(mem)
    /\ MemoryAgrees
    /\ PhaseFits /\ ClosePerpFits /\ CloseFits
    /\ VenueFits /\ FundingFits

-----------------------------------------------------------------------------
(* What the steps have in common. *)

\* Outside a close and the entry's date, an engine that is not stopped waits
\* for the payments of the short it holds.
LEMMA NotStoppedWaits ==
    ASSUME CarryInv, ~Stopped(mem), pc \notin {"open_mark", "down"} \cup Closing, ~torn
    PROVE  Waiting /\ (row.last = 0 => ~(row.perp > 0)) /\ \A s \in 1 .. row.last : paid[s] = held[s]
<1>1. ~Stopped(row) /\ ~Undated /\ ~Unnoted
  BY DEF CarryInv, MemoryAgrees, Undated, Unnoted, Closing
<1>. QED
  BY <1>1 DEF CarryInv, FundingFits, CursorFits

LEMMA FundingKept ==
    ASSUME CarryInv, ~Stopped(mem), pc \notin {"open_mark", "down"} \cup Closing,
           UNCHANGED <<world, paid>>, row'.last = row.last, row'.perp = row.perp,
           ~torn' => ~torn, pc' # "open_mark"
    PROVE  VenueFits' /\ FundingFits'
<1>1. VenueFits'
  BY DEF CarryInv, VenueFits, world
<1>2. ASSUME ~torn' PROVE CursorFits'
  <2>1. Waiting /\ (row.last = 0 => ~(row.perp > 0)) /\ \A s \in 1 .. row.last : paid[s] = held[s]
    BY <1>2, NotStoppedWaits
  <2>2. Waiting'
    BY <2>1 DEF Waiting, world
  <2>. QED
    BY <2>1, <2>2 DEF CursorFits, world
<1>. QED
  BY <1>1, <1>2 DEF FundingFits

LEMMA FundingStopped ==
    ASSUME CarryInv, UNCHANGED <<world, paid>>, row'.last = row.last, Stopped(row'),
           ~torn' => ~torn, pc' # "open_mark"
    PROVE  VenueFits' /\ FundingFits'
<1>1. VenueFits'
  BY DEF CarryInv, VenueFits, world
<1>2. FundingFits'
  BY DEF CarryInv, FundingFits, CursorFits, world
<1>. QED
  BY <1>1, <1>2

LEMMA FundingFollows ==
    ASSUME CarryInv, UNCHANGED <<world, paid>>, row'.last = row.last, row'.perp = row.perp,
           pc # "open_mark", pc' # "open_mark", ~torn' => ~torn,
           Stopped(row) => Stopped(row'),
           Undated => Undated' \/ Stopped(row'),
           Unnoted /\ ~torn' => Unnoted' \/ Stopped(row')
    PROVE  VenueFits' /\ FundingFits'
<1>1. VenueFits'
  BY DEF CarryInv, VenueFits, world
<1>2. Waiting => Waiting'
  BY DEF Waiting, world
<1>3. ASSUME ~torn' PROVE CursorFits'
  <2>1. CursorFits
    BY <1>3 DEF CarryInv, FundingFits
  <2>2. \A s \in 1 .. row'.last : paid'[s] = held'[s]
    BY <2>1 DEF CursorFits, world
  <2>3. Waiting' \/ Stopped(row') \/ Undated' \/ Unnoted'
    BY <2>1, <1>2, <1>3 DEF CursorFits
  <2>4. row'.last = 0 /\ row'.perp > 0 => Undated' \/ Stopped(row')
    BY <2>1 DEF CursorFits
  <2>. QED
    BY <2>2, <2>3, <2>4 DEF CursorFits
<1>. QED
  BY <1>1, <1>3 DEF FundingFits

\* Between two ticks nothing is asked of the tick.
LEMMA Resting ==
    ASSUME pc' \in {"idle", "down", "liquidated"}
    PROVE  PhaseFits' /\ ClosePerpFits' /\ CloseFits'
  BY DEF PhaseFits, ClosePerpFits, CloseFits, Opening, Closing, Ticking

LEMMA RestIsTick == Rest \in Tick
  BY QtyAssumption DEF Rest, Tick, Market, Caller, Leg

\* A write that is accepted.
LEMMA Accepted ==
    ASSUME CarryInv, NEW m \in Engine, Sound(m), NEW next \in Phase, NEW locals \in Tick,
           row' = m, mem' = m, Goes(next, locals), UNCHANGED <<world, torn, failures>>,
           paid' \in [Slot -> Leg], entries' \in Nat
    PROVE  /\ TypeOK' /\ Sound(row)' /\ Sound(mem)' /\ MemoryAgrees'
           /\ pc' = next /\ tick' = IF next \in {"idle", "down"} THEN Rest ELSE locals
<1>1. TypeOK'
  BY RestIsTick DEF CarryInv, TypeOK, Goes, world
<1>2. Sound(row)' /\ Sound(mem)'
  BY DEF Sound, Balanced, InPosition, world
<1>3. MemoryAgrees'
  BY DEF MemoryAgrees, SameExposure
<1>. QED
  BY <1>1, <1>2, <1>3 DEF Goes

\* A process that stops, with the row as it is.
LEMMA StopKeeps ==
    ASSUME CarryInv, pc # "down", Stop, UNCHANGED <<world, paid>>, entries' \in Nat, failures' \in Nat
    PROVE  CarryInv'
<1>1. pc' = "down" /\ tick' = Rest /\ mem' = row /\ row' = row /\ torn' = (torn \/ LosesAFact)
  BY DEF Stop, Goes
<1>2. TypeOK'
  BY <1>1, RestIsTick DEF CarryInv, TypeOK, world, Phase, LosesAFact
<1>3. Sound(row)' /\ Sound(mem)' /\ MemoryAgrees'
  BY <1>1 DEF CarryInv, Sound, Balanced, InPosition, MemoryAgrees, SameExposure, world
<1>4. PhaseFits' /\ ClosePerpFits' /\ CloseFits'
  BY <1>1, Resting
<1>5. VenueFits' /\ FundingFits'
  <2>1. CASE pc = "open_mark"
    <3>1. VenueFits'
      BY DEF CarryInv, VenueFits, world
    <3>2. mem = row /\ mem.perp > 0 /\ mem.intent = "entry" /\ mem.why = "none"
      BY <2>1 DEF CarryInv, MemoryAgrees, PhaseFits, Opening
    <3>3. ASSUME ~torn' PROVE CursorFits'
      <4>1. row.last = 0
        BY <3>3, <1>1, <2>1 DEF LosesAFact, CarryInv, Sound
      <4>2. Undated'
        BY <4>1, <3>2, <1>1 DEF Undated
      <4>. QED
        BY <4>1, <4>2, <1>1 DEF CursorFits
    <3>. QED
      BY <3>1, <3>3 DEF FundingFits
  <2>2. CASE pc # "open_mark"
    <3>1. Undated => Undated'
      BY <1>1 DEF Undated, Stopped
    <3>2. Unnoted /\ ~torn' => Stopped(row)
      <4>1. SUFFICES ASSUME Unnoted, ~torn' PROVE Stopped(row)
        OBVIOUS
      <4>2. row.why # "none" /\ mem = row /\ mem.why # "market_outage"
        BY <4>1, <1>1 DEF Unnoted, LosesAFact, CarryInv, MemoryAgrees, PhaseFits, Closing
      <4>. QED
        BY <4>2 DEF CarryInv, TypeOK, Engine, Uncertainty, Stopped
    <3>. QED
      BY <1>1, <2>2, <3>1, <3>2, FundingFollows
  <2>. QED
    BY <2>1, <2>2
<1>. QED
  BY <1>2, <1>3, <1>4, <1>5 DEF CarryInv

LEMMA PersistSplits ==
    ASSUME CarryInv, NEW m, NEW next, NEW locals, Persist(m, next, locals)
    PROVE  \/ row' = m /\ mem' = m /\ Goes(next, locals) /\ UNCHANGED <<torn, failures>>
           \/ Stop /\ failures' \in Nat
  BY DEF Persist, CarryInv, TypeOK

\* A checkpoint, accepted or refused.
LEMMA SaveKeeps ==
    ASSUME CarryInv, NEW m \in Engine, SameExposure(m, mem), Stopped(mem) => Stopped(m),
           NEW next \in {"idle", "act", "liquidated"},
           pc \in {"idle", "market", "act", "after", "liquidated"},
           next = "act" => pc = "market" /\ ~Stopped(m),
           pc = "after" /\ UnsettledReduction /\ mem.why = "none" => Stopped(m),
           Save(m, next), UNCHANGED <<world, paid, entries>>
    PROVE  CarryInv'
<1>1. mem' = m /\ (row' = m \/ row' = row) /\ failures' \in Nat
  BY DEF Save, CarryInv, TypeOK
<1>2. pc' \in {"idle", next} /\ tick' \in {tick, Rest} /\ (pc' = "act" => tick' = tick)
  BY DEF Save, Goes
<1>3. TypeOK'
  BY <1>1, <1>2, RestIsTick DEF CarryInv, TypeOK, world, Phase, Save, LosesAFact
<1>4. Sound(row)' /\ Sound(mem)'
  BY <1>1 DEF CarryInv, Sound, Balanced, InPosition, SameExposure, world
<1>5. MemoryAgrees'
  BY <1>1, <1>2 DEF CarryInv, MemoryAgrees, SameExposure, Opening, Closing
<1>6. PhaseFits' /\ ClosePerpFits' /\ CloseFits'
  <2>1. CASE pc' \in {"idle", "liquidated"}
    BY <2>1, Resting
  <2>2. CASE pc' = "act"
    <3>1. pc = "market" /\ ~Stopped(m) /\ tick' = tick
      BY <2>2, <1>2
    <3>2. tick.spot = mem.spot /\ tick.perp = mem.perp /\ tick.market = "none"
          /\ (tick.ready /\ InPosition(mem) /\ mem.last # 0 => slot <= mem.last)
      BY <3>1 DEF CarryInv, PhaseFits, Ticking
    <3>3. PhaseFits'
      BY <1>1, <2>2, <3>1, <3>2 DEF PhaseFits, Opening, Closing, Ticking, Seen, SameExposure, InPosition,
         Stopped, world
    <3>. QED
      BY <2>2, <3>3 DEF ClosePerpFits, CloseFits, Closing
  <2>. QED
    BY <1>2, <2>1, <2>2
<1>7. VenueFits' /\ FundingFits'
  <2>1. row'.last = row.last /\ row'.perp = row.perp
    BY <1>1 DEF CarryInv, MemoryAgrees, SameExposure
  <2>2. Stopped(row) => Stopped(row')
    BY <1>1 DEF CarryInv, MemoryAgrees
  <2>3. Undated => Undated' \/ Stopped(row')
    BY <1>1, <2>1, <2>2 DEF Undated
  <2>4. ~torn' => ~torn
    BY DEF Save
  <2>5. ASSUME Unnoted, ~torn' PROVE Stopped(row')
    <3>1. pc = "after" /\ UnsettledReduction /\ mem = row /\ mem.why # "market_outage"
      BY <2>5 DEF Unnoted, CarryInv, MemoryAgrees, PhaseFits, Closing
    <3>2. mem.why # "none" => Stopped(mem)
      BY <3>1 DEF CarryInv, TypeOK, Engine, Uncertainty, Stopped
    <3>3. Stopped(m)
      BY <3>1, <3>2
    <3>4. CASE row' = m
      BY <3>3, <3>4
    <3>5. CASE row' # m
      <4>1. row' = row /\ torn' = (torn \/ LosesAFact)
        BY <3>5 DEF Save
      <4>2. row.why # "none"
        BY <4>1, <2>5, <3>1 DEF LosesAFact
      <4>. QED
        BY <4>1, <4>2, <3>1, <3>2
    <3>. QED
      BY <3>4, <3>5
  <2>. QED
    BY <1>2, <2>1, <2>2, <2>3, <2>4, <2>5, FundingFollows
<1>. QED
  BY <1>3, <1>4, <1>5, <1>6, <1>7 DEF CarryInv

\* A close begins, in a tick or as the one already committed.
LEMMA CloseBegins ==
    ASSUME CarryInv, NEW m \in Engine, SameExposure(m, mem), m.why = mem.why, InPosition(mem),
           NEW caller \in Caller,
           \/ /\ pc = "act" /\ mem.why = "none"
              /\ caller \in {"timeout", "liquidation", "kill_switch"} \/ tick.ready
           \/ pc = "idle" /\ mem.why = "unsettled_exit",
           CloseTwoLeg(m, caller), UNCHANGED <<world, paid, entries>>
    PROVE  CarryInv'
<1>. DEFINE n == [m EXCEPT !.st = "EXIT_PENDING", !.intent = "exit"]
            next == IF m.perp > 0 THEN "close_perp" ELSE "close_spot"
            locals == [tick EXCEPT !.caller = caller]
<1>1. CASE Stop /\ failures' \in Nat
  BY <1>1, StopKeeps DEF CarryInv, TypeOK
<1>2. CASE row' = n /\ mem' = n /\ Goes(next, locals) /\ UNCHANGED <<torn, failures>>
  <2>1. n \in Engine /\ n.last = m.last /\ n.perp = m.perp /\ n.spot = m.spot /\ n.why = m.why
        /\ n.entry = m.entry /\ n.margin = m.margin /\ n.st = "EXIT_PENDING" /\ n.intent = "exit"
    BY DEF Engine, ExecutionState
  <2>2. Sound(n)
    BY <2>1 DEF CarryInv, Sound, Balanced, InPosition, SameExposure
  <2>3. locals \in Tick /\ locals.spot = tick.spot /\ locals.perp = tick.perp
        /\ locals.ready = tick.ready /\ locals.caller = caller
    BY DEF CarryInv, TypeOK, Tick
  <2>4. next \in {"close_perp", "close_spot"} /\ next \in Phase
    BY DEF Phase
  <2>. HIDE DEF n, next, locals
  <2>5. TypeOK' /\ Sound(row)' /\ Sound(mem)' /\ MemoryAgrees' /\ pc' = next /\ tick' = locals
    BY <1>2, <2>1, <2>2, <2>3, <2>4, Accepted DEF CarryInv, TypeOK
  <2>6. PhaseFits'
    BY <1>2, <2>1, <2>4, <2>5 DEF PhaseFits, Opening, Closing, Ticking
  <2>7. pc = "act" => tick.spot = mem.spot /\ tick.perp = mem.perp
        /\ (tick.ready => mem.last = 0 \/ slot <= mem.last)
    BY DEF CarryInv, PhaseFits, Ticking
  <2>8. ~Stopped(row') => pc = "act"
    BY <1>2, <2>1 DEF Stopped
  <2>9. ClosePerpFits'
    BY <1>2, <2>1, <2>3, <2>5, <2>7, <2>8 DEF ClosePerpFits, SameExposure, Stopped, world
  <2>10. CloseFits'
    BY <1>2, <2>1, <2>3, <2>5, <2>7, <2>8 DEF CloseFits, SameExposure, Stopped, CarryInv, TypeOK, Engine, Leg
  <2>11. row'.last = row.last /\ row'.perp = row.perp /\ pc' # "open_mark"
    BY <1>2, <2>1, <2>4, <2>5 DEF CarryInv, MemoryAgrees, SameExposure
  <2>12. VenueFits' /\ FundingFits'
    <3>1. CASE pc = "act" /\ mem.why = "none"
      BY <3>1, <1>2, <2>11, FundingKept DEF Stopped, Closing
    <3>2. CASE pc = "idle" /\ mem.why = "unsettled_exit"
      BY <3>2, <1>2, <2>1, <2>11, FundingStopped DEF Stopped
    <3>. QED
      BY <3>1, <3>2
  <2>. QED
    BY <2>5, <2>6, <2>9, <2>10, <2>12 DEF CarryInv
<1>. QED
  BY <1>1, <1>2, PersistSplits DEF CloseTwoLeg

\* What is ambiguous is left to a human.
LEMMA AmbiguousKeeps ==
    ASSUME CarryInv, NEW next \in {"idle", "after"}, pc # "down",
           Persist(Ambiguous(mem), next, tick), UNCHANGED <<world, paid, entries>>
    PROVE  CarryInv'
<1>. DEFINE n == Ambiguous(mem)
<1>1. CASE Stop /\ failures' \in Nat
  BY <1>1, StopKeeps DEF CarryInv, TypeOK
<1>2. CASE row' = n /\ mem' = n /\ Goes(next, tick) /\ UNCHANGED <<torn, failures>>
  <2>1. n \in Engine /\ n.last = mem.last /\ n.perp = mem.perp /\ n.spot = mem.spot /\ n.why = "human"
        /\ n.entry = mem.entry /\ n.margin = mem.margin /\ n.st = "RECONCILIATION_REQUIRED"
    BY DEF Ambiguous, CarryInv, TypeOK, Engine, ExecutionState, Uncertainty
  <2>2. Sound(n)
    BY <2>1 DEF CarryInv, Sound, Balanced, InPosition
  <2>. HIDE DEF n
  <2>3. TypeOK' /\ Sound(row)' /\ Sound(mem)' /\ MemoryAgrees' /\ pc' = next
    BY <1>2, <2>1, <2>2, Accepted DEF CarryInv, TypeOK, Phase
  <2>4. Stopped(row') /\ row'.last = row.last
    BY <1>2, <2>1 DEF Stopped, CarryInv, MemoryAgrees, SameExposure
  <2>5. PhaseFits' /\ ClosePerpFits' /\ CloseFits'
    BY <1>2, <2>1, <2>3, <2>4 DEF PhaseFits, ClosePerpFits, CloseFits, Opening, Closing, Ticking
  <2>6. VenueFits' /\ FundingFits'
    BY <1>2, <2>3, <2>4, FundingStopped
  <2>. QED
    BY <2>3, <2>5, <2>6 DEF CarryInv
<1>. QED
  BY <1>1, <1>2, PersistSplits

-----------------------------------------------------------------------------
(* Start, stop and the venue. *)

LEMMA InitHolds == Init => CarryInv
<1>. SUFFICES ASSUME Init PROVE CarryInv
  OBVIOUS
<1>1. NewEngine \in Engine
  BY QtyAssumption, SlotAssumption DEF NewEngine, Engine, ExecutionState, Leg, Uncertainty
<1>2. TypeOK
  <2>1. slot \in Slot /\ 0 \in Leg
    BY QtyAssumption, SlotAssumption DEF Init, Slot, Leg
  <2>2. held \in [Slot -> Leg] /\ paid \in [Slot -> Leg]
    BY <2>1 DEF Init
  <2>. QED
    BY <1>1, <2>1, <2>2, RestIsTick DEF Init, TypeOK, Phase
<1>3. Sound(row) /\ Sound(mem) /\ MemoryAgrees
  BY DEF Init, NewEngine, Sound, Balanced, InPosition, MemoryAgrees, SameExposure
<1>4. PhaseFits /\ ClosePerpFits /\ CloseFits
  BY DEF Init, PhaseFits, ClosePerpFits, CloseFits, Opening, Closing, Ticking
<1>5. VenueFits /\ FundingFits
  <2>1. /\ row.last = 0 /\ row.perp = 0 /\ slot = 1 /\ published = {} /\ pc = "down" /\ 1 \in Slot
        /\ \A s \in Slot : held[s] = 0 /\ paid[s] = 0
    BY SlotAssumption DEF Init, NewEngine, Slot
  <2>2. VenueFits
    BY <2>1 DEF VenueFits
  <2>3. Waiting
    BY <2>1 DEF Waiting
  <2>. QED
    BY <2>1, <2>2, <2>3 DEF FundingFits, CursorFits
<1>. QED
  BY <1>2, <1>3, <1>4, <1>5 DEF CarryInv

LEMMA LoadKeeps == CarryInv /\ LoadState => CarryInv'
<1>. SUFFICES ASSUME CarryInv, LoadState PROVE CarryInv'
  OBVIOUS
<1>. DEFINE m == RestoreTwoLeg(row)
<1>1. pc = "down" /\ pc' = "idle" /\ UNCHANGED <<world, tick, paid, torn, bounds>> /\ mem = row
  BY DEF LoadState, CarryInv, MemoryAgrees
<1>2. \/ CheckpointIncomplete(m) /\ mem' = MarkUncertain(m, "human") /\ row' = mem'
      \/ ~CheckpointIncomplete(m) /\ mem' = m /\ row' = row
  BY DEF LoadState
<1>3. m \in Engine /\ SameExposure(m, row) /\ (row.why # "none" => m = row)
  BY DEF RestoreTwoLeg, MarkUncertain, CarryInv, TypeOK, Engine, Uncertainty, SameExposure
<1>4. /\ MarkUncertain(m, "human") \in Engine /\ SameExposure(MarkUncertain(m, "human"), row)
      /\ (m.why # "none" => MarkUncertain(m, "human") = m)
      /\ (m.why = "none" => MarkUncertain(m, "human").why = "human")
  BY <1>3 DEF MarkUncertain, Engine, Uncertainty, SameExposure
<1>5. mem' \in Engine /\ row' \in Engine /\ SameExposure(mem', row) /\ SameExposure(row', row)
      /\ (Stopped(row) => row' = row /\ mem' = row) /\ (row' = mem' \/ row' = row)
  BY <1>2, <1>3, <1>4 DEF CarryInv, TypeOK, Stopped, SameExposure
<1>6. TypeOK' /\ Sound(row)' /\ Sound(mem)'
  BY <1>1, <1>5 DEF CarryInv, TypeOK, Phase, world, bounds, Sound, Balanced, InPosition, SameExposure
<1>7. MemoryAgrees'
  BY <1>1, <1>5 DEF MemoryAgrees, SameExposure, Opening, Closing
<1>8. Undated => Undated' \/ Stopped(row')
  <2>1. SUFFICES ASSUME Undated, ~Stopped(row) PROVE Undated' \/ Stopped(row')
    BY <1>1, <1>5 DEF Undated, SameExposure
  <2>2. row.last = 0 /\ row.perp > 0 /\ row.why = "none" /\ row.intent = "entry"
    BY <2>1 DEF Undated
  <2>3. ~Resumable(row)
    BY <2>2 DEF Resumable
  <2>4. CASE row.st \in Transition
    <3>1. m.why = "human"
      BY <2>2, <2>3, <2>4 DEF RestoreTwoLeg, MarkUncertain, CarryInv, TypeOK, Engine
    <3>2. mem' = m /\ row' = row
      BY <3>1, <1>2 DEF CheckpointIncomplete
    <3>. QED
      BY <3>1, <3>2, <2>2 DEF Undated, Stopped
  <2>5. CASE row.st \notin Transition
    <3>1. m = row
      BY <2>5 DEF RestoreTwoLeg
    <3>2. CheckpointIncomplete(m)
      BY <3>1, <2>2, <2>3 DEF CheckpointIncomplete, InPosition
    <3>3. row'.why = "human"
      BY <3>1, <3>2, <1>2, <1>4, <2>2
    <3>. QED
      BY <3>3 DEF Stopped
  <2>. QED
    BY <2>4, <2>5
<1>9. VenueFits' /\ FundingFits'
  BY <1>1, <1>5, <1>8, FundingFollows DEF SameExposure, Unnoted
<1>. QED
  BY <1>1, <1>6, <1>7, <1>9, Resting DEF CarryInv

LEMMA CrashKeeps == CarryInv /\ Crash => CarryInv'
  BY StopKeeps DEF Crash, CarryInv, TypeOK

LEMMA ShutdownKeeps == CarryInv /\ CleanShutdown => CarryInv'
<1>. SUFFICES ASSUME CarryInv, CleanShutdown PROVE CarryInv'
  OBVIOUS
<1>1. pc = "idle" /\ pc' = "down" /\ row' = mem /\ mem' = mem /\ failures' \in Nat
      /\ UNCHANGED <<world, tick, paid, torn, entries>>
  BY DEF CleanShutdown, CarryInv, TypeOK
<1>2. TypeOK' /\ Sound(row)' /\ Sound(mem)' /\ MemoryAgrees'
  BY <1>1 DEF CarryInv, TypeOK, Phase, world, Sound, Balanced, InPosition, MemoryAgrees, SameExposure
<1>3. VenueFits' /\ FundingFits'
  BY <1>1, FundingFollows DEF CarryInv, MemoryAgrees, SameExposure, Undated, Unnoted
<1>. QED
  BY <1>1, <1>2, <1>3, Resting DEF CarryInv

LEMMA SlotKeeps == CarryInv /\ SlotPasses => CarryInv'
<1>. SUFFICES ASSUME CarryInv, SlotPasses PROVE CarryInv'
  OBVIOUS
<1>1. /\ pc \in {"idle", "down"} /\ slot < MaxSlot /\ slot' = slot + 1
      /\ held' = [held EXCEPT ![slot + 1] = row.perp]
      /\ UNCHANGED <<published, row, mem, pc, tick, paid, torn, bounds>>
  BY DEF SlotPasses, Between
<1>2. slot \in Nat \ {0} /\ slot + 1 \in Slot /\ row.last \in Nat /\ row.last <= slot /\ mem.last \in Nat
  BY <1>1, SlotAssumption DEF CarryInv, TypeOK, Slot, Engine, Sound
<1>3. TypeOK'
  BY <1>1, <1>2 DEF CarryInv, TypeOK, bounds, Slot, Engine
<1>4. Sound(row)' /\ Sound(mem)' /\ MemoryAgrees'
  BY <1>1, <1>2 DEF CarryInv, Sound, Balanced, InPosition, MemoryAgrees, SameExposure
<1>5. /\ \A s \in 1 .. slot : s \in Slot /\ held'[s] = held[s]
      /\ held'[slot + 1] = row.perp
      /\ paid[slot + 1] = 0
  <2>1. held \in [Slot -> Leg] /\ \A s \in Slot : s > slot => paid[s] = 0
    BY DEF CarryInv, TypeOK, VenueFits
  <2>2. \A s \in 1 .. slot : s \in Slot /\ s # slot + 1
    BY <1>1, <1>2, SlotAssumption DEF Slot
  <2>. QED
    BY <1>1, <1>2, <2>1, <2>2
<1>6. VenueFits'
  BY <1>1, <1>2 DEF CarryInv, VenueFits, Slot
<1>7. ASSUME ~torn' PROVE CursorFits'
  <2>1. CursorFits
    BY <1>1, <1>7 DEF CarryInv, FundingFits
  <2>2. \A s \in 1 .. row'.last : paid'[s] = held'[s]
    BY <2>1, <1>1, <1>2, <1>5 DEF CursorFits
  <2>3. Waiting => Waiting'
    <3>1. SUFFICES ASSUME Waiting, NEW s \in 1 .. slot', s > row.last
                   PROVE  paid[s] = 0 /\ held'[s] = row.perp
      BY <1>1 DEF Waiting
    <3>2. s \in 1 .. slot \/ s = slot + 1
      BY <1>1, <1>2
    <3>. QED
      BY <3>1, <3>2, <1>5 DEF Waiting
  <2>4. (Undated => Undated') /\ ~Unnoted
    BY <1>1 DEF Undated, Unnoted
  <2>. QED
    BY <1>1, <2>1, <2>2, <2>3, <2>4 DEF CursorFits
<1>. QED
  BY <1>1, <1>3, <1>4, <1>6, <1>7, Resting DEF CarryInv, FundingFits

LEMMA PublicationKeeps == ASSUME CarryInv, NEW s \in Slot, FundingPublished(s) PROVE CarryInv'
<1>1. /\ pc \in {"idle", "down"} /\ s <= slot /\ published' = published \cup {s}
      /\ UNCHANGED <<slot, held, row, mem, pc, tick, paid, torn, bounds>>
  BY DEF FundingPublished, Between
<1>2. TypeOK' /\ Sound(row)' /\ Sound(mem)' /\ MemoryAgrees'
  BY <1>1 DEF CarryInv, TypeOK, bounds, Sound, Balanced, InPosition, MemoryAgrees, SameExposure
<1>3. VenueFits'
  BY <1>1, SlotAssumption DEF CarryInv, VenueFits, Slot, TypeOK
<1>4. FundingFits'
  BY <1>1 DEF CarryInv, FundingFits, CursorFits, Waiting, Undated, Unnoted, AllPaid, Stopped,
     UnsettledReduction, Reduced
<1>. QED
  BY <1>1, <1>2, <1>3, <1>4, Resting DEF CarryInv

-----------------------------------------------------------------------------
(* Funding. *)

LEMMA BeginKeeps == CarryInv /\ BeginTick => CarryInv'
<1>. SUFFICES ASSUME CarryInv, BeginTick PROVE CarryInv'
  OBVIOUS
<1>1. /\ pc = "idle" /\ tick' = [Rest EXCEPT !.spot = mem.spot, !.perp = mem.perp]
      /\ \/ pc' = "recover" /\ mem.why = "market_outage"
         \/ pc' = "funding" /\ mem.why = "none"
      /\ UNCHANGED <<world, row, mem, paid, torn, bounds>>
  BY DEF BeginTick, OutageRecoverable, Blocked
<1>2. tick' \in Tick /\ tick'.spot = mem.spot /\ tick'.perp = mem.perp /\ tick'.market = "none"
  BY <1>1, RestIsTick DEF Rest, Tick, CarryInv, TypeOK, Engine
<1>3. TypeOK' /\ Sound(row)' /\ Sound(mem)'
  BY <1>1, <1>2 DEF CarryInv, TypeOK, Phase, world, bounds, Sound, Balanced, InPosition
<1>4. MemoryAgrees'
  BY <1>1 DEF CarryInv, MemoryAgrees, SameExposure, Opening, Closing
<1>5. PhaseFits' /\ ClosePerpFits' /\ CloseFits'
  BY <1>1, <1>2 DEF PhaseFits, ClosePerpFits, CloseFits, Opening, Closing, Ticking, Stopped
<1>6. VenueFits' /\ FundingFits'
  BY <1>1, FundingKept DEF Stopped, Closing
<1>. QED
  BY <1>3, <1>4, <1>5, <1>6 DEF CarryInv

LEMMA PaymentKeeps == CarryInv /\ ApplyFunding => CarryInv'
<1>. SUFFICES ASSUME CarryInv, ApplyFunding PROVE CarryInv'
  OBVIOUS
<1>. DEFINE n == [mem EXCEPT !.last = NextPayment]
<1>1. /\ pc \in {"recover", "funding"} /\ mem.last # 0 /\ mem.perp > 0 /\ mem.last + 1 \in published
      /\ Persist(n, pc, tick) /\ UNCHANGED <<world, entries>>
      /\ paid' = IF row' = row THEN paid ELSE [paid EXCEPT ![mem.last + 1] = mem.perp]
  BY DEF ApplyFunding, PaymentDue, NextPayment
<1>2. CASE Stop /\ failures' \in Nat
  <2>1. paid' = paid
    BY <1>1, <1>2 DEF Stop
  <2>. QED
    BY <1>1, <1>2, <2>1, StopKeeps DEF CarryInv, TypeOK
<1>3. CASE row' = n /\ mem' = n /\ Goes(pc, tick) /\ UNCHANGED <<torn, failures>>
  <2>1. /\ mem.last \in Nat \ {0} /\ mem.last + 1 \in 1 .. slot /\ slot \in Slot /\ mem.perp \in Leg
        /\ mem.last = row.last /\ mem.perp = row.perp
    BY <1>1 DEF CarryInv, TypeOK, VenueFits, Engine, MemoryAgrees, SameExposure
  <2>2. /\ n \in Engine /\ n.last = mem.last + 1 /\ n.perp = mem.perp /\ n.spot = mem.spot
        /\ n.why = mem.why /\ n.entry = mem.entry /\ n.margin = mem.margin /\ n.st = mem.st
        /\ n.intent = mem.intent
    <3>1. NextPayment = mem.last + 1 /\ NextPayment \in 0 .. MaxSlot
      BY <2>1, SlotAssumption DEF NextPayment, Slot
    <3>. QED
      BY <3>1 DEF CarryInv, TypeOK, Engine
  <2>3. Sound(n)
    BY <2>1, <2>2 DEF CarryInv, Sound, Balanced, InPosition
  <2>4. paid' = [paid EXCEPT ![mem.last + 1] = mem.perp]
    <3>1. row'.last # row.last
      BY <1>3, <2>1, <2>2
    <3>. QED
      BY <1>1, <3>1
  <2>5. mem.last + 1 \in Slot /\ paid' \in [Slot -> Leg]
    <3>1. mem.last + 1 \in Slot
      BY <2>1, SlotAssumption DEF Slot
    <3>. QED
      BY <3>1, <2>1, <2>4 DEF CarryInv, TypeOK
  <2>6. \A s \in Slot : paid'[s] = IF s = mem.last + 1 THEN mem.perp ELSE paid[s]
    BY <2>4, <2>5 DEF CarryInv, TypeOK
  <2>. HIDE DEF n
  <2>7. TypeOK' /\ Sound(row)' /\ Sound(mem)' /\ MemoryAgrees' /\ pc' = pc /\ tick' = tick
    BY <1>1, <1>3, <2>2, <2>3, <2>5, Accepted DEF CarryInv, TypeOK, Phase
  <2>8. PhaseFits' /\ ClosePerpFits' /\ CloseFits'
    BY <1>1, <1>3, <2>2, <2>7 DEF CarryInv, PhaseFits, ClosePerpFits, CloseFits, Opening, Closing, Ticking,
       Stopped
  <2>9. VenueFits'
    BY <1>1, <2>1, <2>6 DEF CarryInv, VenueFits, world, Slot
  <2>10. ASSUME ~torn' PROVE CursorFits'
    <3>1. Waiting /\ \A s \in 1 .. row.last : paid[s] = held[s]
      BY <1>1, <1>3, <2>10, NotStoppedWaits DEF CarryInv, PhaseFits, Ticking, Closing
    <3>2. \A s \in 1 .. slot : s \in Slot
      BY <2>1, SlotAssumption DEF Slot
    <3>3. \A s \in 1 .. row'.last : paid'[s] = held'[s]
      BY <1>1, <1>3, <2>1, <2>2, <2>6, <3>1, <3>2 DEF Waiting, world
    <3>4. Waiting'
      BY <1>1, <1>3, <2>1, <2>2, <2>6, <3>1, <3>2 DEF Waiting, world
    <3>5. row'.last # 0
      BY <1>3, <2>1, <2>2
    <3>. QED
      BY <1>1, <2>7, <3>3, <3>4, <3>5 DEF CursorFits
  <2>. QED
    BY <2>7, <2>8, <2>9, <2>10 DEF CarryInv, FundingFits
<1>. QED
  BY <1>1, <1>2, <1>3, PersistSplits

LEMMA ReadKeeps == CarryInv /\ FundingRead => CarryInv'
<1>. SUFFICES ASSUME CarryInv, FundingRead PROVE CarryInv'
  OBVIOUS
<1>1. /\ pc = "funding" /\ pc' = "market" /\ UNCHANGED <<world, row, mem, paid, torn, bounds>>
      /\ \E ready \in BOOLEAN : (ready => SignalReady) /\ tick' = [tick EXCEPT !.ready = ready]
  BY DEF FundingRead
<1>2. /\ tick' \in Tick /\ tick'.spot = tick.spot /\ tick'.perp = tick.perp /\ tick'.market = tick.market
      /\ (tick'.ready => (InPosition(mem) /\ mem.last # 0 => slot <= mem.last))
  BY <1>1 DEF CarryInv, TypeOK, Tick, SignalReady
<1>3. TypeOK' /\ Sound(row)' /\ Sound(mem)'
  BY <1>1, <1>2 DEF CarryInv, TypeOK, Phase, world, bounds, Sound, Balanced, InPosition
<1>4. MemoryAgrees'
  BY <1>1 DEF CarryInv, MemoryAgrees, SameExposure, Opening, Closing
<1>5. ~Stopped(mem) /\ mem.why = "none" /\ tick.spot = mem.spot /\ tick.perp = mem.perp /\ tick.market = "none"
  BY <1>1 DEF CarryInv, PhaseFits, Ticking
<1>6. PhaseFits' /\ ClosePerpFits' /\ CloseFits'
  BY <1>1, <1>2, <1>5 DEF PhaseFits, ClosePerpFits, CloseFits, Opening, Closing, Ticking, Stopped, InPosition,
     world
<1>7. VenueFits' /\ FundingFits'
  BY <1>1, <1>5, FundingKept DEF Closing
<1>. QED
  BY <1>3, <1>4, <1>6, <1>7 DEF CarryInv

LEMMA OutageKeeps == CarryInv /\ (OutageReconciled \/ OutageStays) => CarryInv'
<1>. SUFFICES ASSUME CarryInv, OutageReconciled \/ OutageStays PROVE CarryInv'
  OBVIOUS
<1>. DEFINE n == [mem EXCEPT !.why = "none"]
<1>1. pc = "recover" /\ UNCHANGED <<world, paid, entries>>
  BY DEF OutageReconciled, OutageStays, bounds
<1>2. ~Stopped(mem) /\ tick.spot = mem.spot /\ tick.perp = mem.perp /\ tick.market = "none"
  BY <1>1 DEF CarryInv, PhaseFits, Ticking
<1>3. CASE OutageStays
  <2>1. pc' = "idle" /\ tick' = Rest /\ UNCHANGED <<row, mem, torn, bounds>>
    BY <1>3 DEF OutageStays, Goes
  <2>2. TypeOK' /\ Sound(row)' /\ Sound(mem)' /\ MemoryAgrees'
    BY <1>1, <2>1, RestIsTick DEF CarryInv, TypeOK, Phase, world, bounds, Sound, Balanced, InPosition,
       MemoryAgrees, SameExposure, Opening, Closing
  <2>3. VenueFits' /\ FundingFits'
    BY <1>1, <1>2, <2>1, FundingKept DEF Closing
  <2>. QED
    BY <2>1, <2>2, <2>3, Resting DEF CarryInv
<1>4. CASE Stop /\ failures' \in Nat
  BY <1>1, <1>4, StopKeeps DEF CarryInv, TypeOK
<1>5. CASE row' = n /\ mem' = n /\ Goes("funding", tick) /\ UNCHANGED <<torn, failures>>
  <2>1. /\ n \in Engine /\ n.last = mem.last /\ n.perp = mem.perp /\ n.spot = mem.spot /\ n.why = "none"
        /\ n.entry = mem.entry /\ n.margin = mem.margin /\ n.st = mem.st /\ n.intent = mem.intent
    BY DEF CarryInv, TypeOK, Engine, Uncertainty
  <2>2. Sound(n)
    BY <2>1 DEF CarryInv, Sound, Balanced, InPosition
  <2>. HIDE DEF n
  <2>3. TypeOK' /\ Sound(row)' /\ Sound(mem)' /\ MemoryAgrees' /\ pc' = "funding" /\ tick' = tick
    BY <1>1, <1>5, <2>1, <2>2, Accepted DEF CarryInv, TypeOK, Phase
  <2>4. PhaseFits' /\ ClosePerpFits' /\ CloseFits'
    BY <1>2, <1>5, <2>1, <2>3 DEF PhaseFits, ClosePerpFits, CloseFits, Opening, Closing, Ticking, Stopped
  <2>5. VenueFits' /\ FundingFits'
    BY <1>1, <1>2, <1>5, <2>1, <2>3, FundingKept DEF Closing, CarryInv, MemoryAgrees, SameExposure
  <2>. QED
    BY <2>3, <2>4, <2>5 DEF CarryInv
<1>. QED
  BY <1>3, <1>4, <1>5, PersistSplits DEF OutageReconciled

-----------------------------------------------------------------------------
(* Market and decision. *)

LEMMA MarketKeeps == ASSUME CarryInv, NEW market \in Market, TwoLegMarket(market) PROVE CarryInv'
<1>1. pc = "market" /\ UNCHANGED <<world, paid, entries>>
  BY DEF TwoLegMarket
<1>2. /\ ~Stopped(mem) /\ mem.why = "none" /\ tick.spot = mem.spot /\ tick.perp = mem.perp
      /\ (tick.ready /\ InPosition(mem) /\ mem.last # 0 => slot <= mem.last)
  BY <1>1 DEF CarryInv, PhaseFits, Ticking
<1>3. CASE Save(MarkUncertain(mem, "market_outage"), "act")
  <2>1. /\ MarkUncertain(mem, "market_outage") \in Engine
        /\ SameExposure(MarkUncertain(mem, "market_outage"), mem)
        /\ ~Stopped(MarkUncertain(mem, "market_outage"))
    BY <1>2 DEF MarkUncertain, CarryInv, TypeOK, Engine, Uncertainty, SameExposure, Stopped
  <2>. QED
    BY <1>1, <1>2, <1>3, <2>1, SaveKeeps
<1>4. CASE Goes("act", [tick EXCEPT !.market = market]) /\ UNCHANGED <<row, mem, torn, failures>>
  <2>1. /\ pc' = "act" /\ tick' \in Tick /\ tick'.spot = tick.spot /\ tick'.perp = tick.perp
        /\ tick'.ready = tick.ready
    BY <1>4 DEF Goes, CarryInv, TypeOK, Tick
  <2>2. TypeOK' /\ Sound(row)' /\ Sound(mem)' /\ MemoryAgrees'
    BY <1>1, <1>4, <2>1 DEF CarryInv, TypeOK, Phase, world, Sound, Balanced, InPosition,
       MemoryAgrees, SameExposure, Opening, Closing
  <2>3. PhaseFits' /\ ClosePerpFits' /\ CloseFits'
    BY <1>1, <1>2, <1>4, <2>1 DEF PhaseFits, ClosePerpFits, CloseFits, Opening, Closing, Ticking, Stopped,
       InPosition, world
  <2>4. VenueFits' /\ FundingFits'
    BY <1>1, <1>2, <1>4, <2>1, FundingKept DEF Closing
  <2>. QED
    BY <2>2, <2>3, <2>4 DEF CarryInv
<1>. QED
  BY <1>3, <1>4 DEF TwoLegMarket

\* What a close or a checkpoint needs of a decision.
LEMMA SeenIsSettled ==
    ASSUME CarryInv, pc = "act"
    PROVE  ~Stopped(mem) /\ (Seen => mem.why = "none")
  BY DEF CarryInv, PhaseFits, Ticking

LEMMA ExitsKeep ==
    ASSUME CarryInv,
           ContinueUnsettledExit \/ ResumeExit \/ EnforceTimeout \/ Liquidate \/ ExitOnSignal
    PROVE  CarryInv'
<1>1. mem \in Engine /\ SameExposure(mem, mem)
  BY DEF CarryInv, TypeOK, SameExposure
<1>2. CASE ContinueUnsettledExit
  <2>1. pc = "idle" /\ mem.why = "unsettled_exit" /\ InPosition(mem) /\ UNCHANGED <<world, paid, entries>>
    BY <1>2 DEF ContinueUnsettledExit
  <2>2. CASE CloseTwoLeg(mem, "continued")
    BY <1>1, <2>1, <2>2, CloseBegins DEF Caller
  <2>3. CASE Save(mem, "idle")
    BY <1>1, <2>1, <2>3, SaveKeeps
  <2>. QED
    BY <1>2, <2>2, <2>3 DEF ContinueUnsettledExit
<1>3. CASE ResumeExit \/ EnforceTimeout
  <2>1. pc = "act" /\ UNCHANGED <<world, paid, entries>>
    BY <1>3 DEF ResumeExit, EnforceTimeout
  <2>2. CASE InPosition(mem) /\ Seen /\ CloseTwoLeg(mem, "timeout")
    BY <1>1, <2>1, <2>2, SeenIsSettled, CloseBegins DEF Caller
  <2>3. CASE GiveUp
    BY <2>1, <2>3, AmbiguousKeeps DEF GiveUp
  <2>. QED
    BY <1>3, <2>2, <2>3 DEF ResumeExit, EnforceTimeout
<1>4. CASE Liquidate
  <2>1. pc = "act" /\ UNCHANGED <<world, paid, entries>> /\ Seen /\ mem.perp > 0
        /\ CloseTwoLeg(mem, "liquidation")
    BY <1>4 DEF Liquidate
  <2>. QED
    BY <1>1, <2>1, SeenIsSettled, CloseBegins DEF Caller, InPosition
<1>5. CASE ExitOnSignal
  <2>1. pc = "act" /\ UNCHANGED <<world, paid, entries>> /\ Seen /\ InPosition(mem) /\ tick.ready
        /\ CloseTwoLeg(mem, "signal")
    BY <1>5 DEF ExitOnSignal, Decides
  <2>. QED
    BY <1>1, <2>1, SeenIsSettled, CloseBegins DEF Caller
<1>. QED
  BY <1>2, <1>3, <1>4, <1>5

LEMMA KillSwitchKeeps == CarryInv /\ KillSwitch => CarryInv'
<1>. SUFFICES ASSUME CarryInv, KillSwitch PROVE CarryInv'
  OBVIOUS
<1>. DEFINE m == Evaluate(mem, TRUE)
<1>1. m \in Engine /\ SameExposure(m, mem) /\ m.why = mem.why
  BY DEF Evaluate, CarryInv, TypeOK, Engine, SameExposure
<1>2. pc = "act" /\ UNCHANGED <<world, paid, entries>>
      /\ ((InPosition(m) /\ Seen /\ CloseTwoLeg(m, "kill_switch")) \/ Save(m, "idle"))
  BY DEF KillSwitch
<1>3. InPosition(m) = InPosition(mem)
  BY <1>1 DEF SameExposure, InPosition
<1>. HIDE DEF m
<1>4. CASE InPosition(m) /\ Seen /\ CloseTwoLeg(m, "kill_switch")
  BY <1>1, <1>2, <1>3, <1>4, SeenIsSettled, CloseBegins DEF Caller
<1>5. CASE Save(m, "idle")
  BY <1>1, <1>2, <1>5, SaveKeeps DEF Stopped
<1>. QED
  BY <1>2, <1>4, <1>5

LEMMA CheckpointsKeep == CarryInv /\ (Hold \/ SaveLiquidation) => CarryInv'
<1>. SUFFICES ASSUME CarryInv, Hold \/ SaveLiquidation PROVE CarryInv'
  OBVIOUS
<1>1. mem \in Engine /\ SameExposure(mem, mem)
  BY DEF CarryInv, TypeOK, SameExposure
<1>. QED
  BY <1>1, SaveKeeps DEF Hold, Decides, SaveLiquidation

-----------------------------------------------------------------------------
(* Entry, one leg at a time. *)

LEMMA EnterKeeps == CarryInv /\ EnterOnSignal => CarryInv'
<1>. SUFFICES ASSUME CarryInv, EnterOnSignal PROVE CarryInv'
  OBVIOUS
<1>. DEFINE n == [ReserveMargin(mem) EXCEPT !.st = "ENTRY_PENDING", !.intent = "entry"]
<1>1. /\ pc = "act" /\ Seen /\ ~InPosition(mem) /\ UNCHANGED <<world, paid>> /\ entries' \in Nat
      /\ Persist(n, "open_spot", tick)
  BY DEF EnterOnSignal, Decides, Seen, CarryInv, TypeOK
<1>2. ~Stopped(mem) /\ mem.why = "none"
  BY <1>1, SeenIsSettled
<1>3. CASE Stop /\ failures' \in Nat
  BY <1>1, <1>3, StopKeeps
<1>4. CASE row' = n /\ mem' = n /\ Goes("open_spot", tick) /\ UNCHANGED <<torn, failures>>
  <2>1. /\ n \in Engine /\ n.last = mem.last /\ n.perp = mem.perp /\ n.spot = mem.spot /\ n.why = mem.why
        /\ n.entry = mem.entry /\ n.margin = TRUE /\ n.st = "ENTRY_PENDING" /\ n.intent = "entry"
    BY DEF ReserveMargin, CarryInv, TypeOK, Engine, ExecutionState
  <2>2. Sound(n)
    BY <2>1 DEF CarryInv, Sound, Balanced, InPosition
  <2>. HIDE DEF n
  <2>3. TypeOK' /\ Sound(row)' /\ Sound(mem)' /\ MemoryAgrees' /\ pc' = "open_spot" /\ tick' = tick
    BY <1>1, <1>4, <2>1, <2>2, Accepted DEF CarryInv, TypeOK, Phase
  <2>4. PhaseFits' /\ ClosePerpFits' /\ CloseFits'
    BY <1>1, <1>2, <1>4, <2>1, <2>3 DEF PhaseFits, ClosePerpFits, CloseFits, Opening, Closing, Ticking,
       Stopped, InPosition
  <2>5. VenueFits' /\ FundingFits'
    BY <1>1, <1>2, <1>4, <2>1, <2>3, FundingKept DEF Closing, CarryInv, MemoryAgrees, SameExposure
  <2>. QED
    BY <2>3, <2>4, <2>5 DEF CarryInv
<1>. QED
  BY <1>1, <1>3, <1>4, PersistSplits

\* The spot leg, filled or not: the short is none either way.
LEMMA SpotKeeps == ASSUME CarryInv, NEW filled \in Leg, OpenSpot(filled) PROVE CarryInv'
<1>. DEFINE flat == BackToFlat(mem)
            n == [BuySpot(mem, filled) EXCEPT !.st = "ONE_LEG_FILLED"]
<1>1. /\ pc = "open_spot" /\ UNCHANGED <<world, paid, entries>>
      /\ \/ filled = 0 /\ Persist(flat, "idle", tick)
         \/ filled # 0 /\ Persist(n, "open_perp", tick)
  BY DEF OpenSpot
<1>2. /\ ~Stopped(mem) /\ ~InPosition(mem) /\ mem.why = "none" /\ mem.margin /\ mem.intent = "entry"
      /\ mem.spot = 0 /\ mem.perp = 0
  BY <1>1 DEF CarryInv, PhaseFits, Opening, TypeOK, Engine, Leg, InPosition
<1>3. CASE Stop /\ failures' \in Nat
  BY <1>1, <1>3, StopKeeps DEF CarryInv, TypeOK
<1>4. CASE row' = flat /\ mem' = flat /\ Goes("idle", tick) /\ UNCHANGED <<torn, failures>>
  <2>1. /\ flat \in Engine /\ flat.last = mem.last /\ flat.perp = 0 /\ flat.spot = 0
        /\ flat.entry = mem.entry /\ flat.margin = FALSE /\ flat.st = "FLAT" /\ flat.intent = "none"
    BY <1>2 DEF BackToFlat, ReleaseMargin, CarryInv, TypeOK, Engine, ExecutionState
  <2>2. Sound(flat)
    BY <2>1 DEF CarryInv, Sound, Balanced, InPosition
  <2>. HIDE DEF flat
  <2>3. TypeOK' /\ Sound(row)' /\ Sound(mem)' /\ MemoryAgrees' /\ pc' = "idle"
    BY <1>1, <1>4, <2>1, <2>2, Accepted DEF CarryInv, TypeOK, Phase
  <2>4. VenueFits' /\ FundingFits'
    BY <1>1, <1>2, <1>4, <2>1, <2>3, FundingKept DEF Closing, CarryInv, MemoryAgrees, SameExposure
  <2>. QED
    BY <2>3, <2>4, Resting DEF CarryInv
<1>5. CASE row' = n /\ mem' = n /\ Goes("open_perp", tick) /\ UNCHANGED <<torn, failures>> /\ filled # 0
  <2>1. BuySpot(mem, filled) \in Engine /\ BuySpot(mem, filled).spot = filled
    BY <1>2, QtyAssumption DEF BuySpot, CarryInv, TypeOK, Engine, Leg
  <2>2. /\ n \in Engine /\ n.last = mem.last /\ n.perp = 0 /\ n.spot = filled /\ n.why = "none"
        /\ n.entry = mem.entry /\ n.margin /\ n.st = "ONE_LEG_FILLED" /\ n.intent = "entry"
    BY <1>2, <2>1 DEF BuySpot, CarryInv, TypeOK, Engine, ExecutionState
  <2>3. filled > 0
    BY <1>5, QtyAssumption DEF Leg
  <2>4. Sound(n)
    BY <2>2 DEF CarryInv, Sound, Balanced, InPosition
  <2>. HIDE DEF n
  <2>5. TypeOK' /\ Sound(row)' /\ Sound(mem)' /\ MemoryAgrees' /\ pc' = "open_perp" /\ tick' = tick
    BY <1>1, <1>5, <2>2, <2>4, Accepted DEF CarryInv, TypeOK, Phase
  <2>6. PhaseFits' /\ ClosePerpFits' /\ CloseFits'
    BY <1>5, <2>2, <2>3, <2>5 DEF PhaseFits, ClosePerpFits, CloseFits, Opening, Closing, Ticking, Stopped
  <2>7. VenueFits' /\ FundingFits'
    BY <1>1, <1>2, <1>5, <2>2, <2>5, FundingKept DEF Closing, CarryInv, MemoryAgrees, SameExposure
  <2>. QED
    BY <2>5, <2>6, <2>7 DEF CarryInv
<1>. QED
  BY <1>1, <1>3, <1>4, <1>5, PersistSplits

\* The short, when it fills, waits for the date of its entry.
LEMMA PerpKeeps == ASSUME CarryInv, NEW filled \in Leg, OpenPerp(filled) PROVE CarryInv'
<1>. DEFINE m == SellPerp(mem, filled)
            n == [m EXCEPT !.st = HedgeState(m)]
            next == IF filled > 0 THEN "open_mark" ELSE "idle"
<1>1. /\ pc = "open_perp" /\ filled \in 0 .. mem.spot /\ UNCHANGED <<world, paid, entries>>
      /\ Persist(n, next, tick)
  BY DEF OpenPerp, Fill
<1>2. /\ ~Stopped(mem) /\ mem.spot > 0 /\ mem.perp = 0 /\ mem.why = "none" /\ mem.margin
      /\ mem.intent = "entry" /\ mem.spot \in Leg /\ row.perp = 0 /\ row.last = mem.last
  BY <1>1 DEF CarryInv, PhaseFits, Opening, TypeOK, Engine, MemoryAgrees, SameExposure
<1>3. CASE Stop /\ failures' \in Nat
  BY <1>1, <1>3, StopKeeps DEF CarryInv, TypeOK
<1>4. CASE row' = n /\ mem' = n /\ Goes(next, tick) /\ UNCHANGED <<torn, failures>>
  <2>1. /\ m \in Engine /\ m.perp = filled /\ m.spot = mem.spot /\ m.last = mem.last /\ m.why = "none"
        /\ m.entry = mem.entry /\ m.margin /\ m.intent = "entry"
    BY <1>2, QtyAssumption DEF SellPerp, CarryInv, TypeOK, Engine, Leg
  <2>. HIDE DEF m
  <2>2. HedgeState(m) \in {"HEDGED", "PARTIALLY_HEDGED"} /\ (HedgeState(m) = "HEDGED" => filled = mem.spot)
    BY <1>1, <1>2, <2>1, QtyAssumption DEF HedgeState, Leg
  <2>3. /\ n \in Engine /\ n.perp = filled /\ n.spot = mem.spot /\ n.last = mem.last /\ n.why = "none"
        /\ n.entry = mem.entry /\ n.margin /\ n.intent = "entry" /\ n.st = HedgeState(m)
    BY <2>1, <2>2 DEF Engine, ExecutionState
  <2>4. Sound(n)
    BY <1>2, <2>2, <2>3 DEF CarryInv, Sound, Balanced, InPosition
  <2>5. next \in {"open_mark", "idle"} /\ next \in Phase /\ (next = "open_mark" <=> filled > 0)
    BY DEF Phase
  <2>. HIDE DEF n, next
  <2>6. TypeOK' /\ Sound(row)' /\ Sound(mem)' /\ MemoryAgrees' /\ pc' = next
    BY <1>1, <1>4, <2>3, <2>4, <2>5, Accepted DEF CarryInv, TypeOK
  <2>7. PhaseFits' /\ ClosePerpFits' /\ CloseFits'
    BY <1>4, <2>2, <2>3, <2>5, <2>6 DEF PhaseFits, ClosePerpFits, CloseFits, Opening, Closing, Ticking, Stopped
  <2>8. VenueFits' /\ FundingFits'
    <3>1. CASE next = "idle"
      <4>1. filled = 0
        BY <3>1, <2>5, <1>1, <1>2, QtyAssumption DEF Leg
      <4>. QED
        BY <1>1, <1>2, <1>4, <2>3, <2>6, <3>1, <4>1, FundingKept DEF Closing
    <3>2. CASE next = "open_mark"
      <4>1. VenueFits'
        BY <1>1 DEF CarryInv, VenueFits, world
      <4>2. ASSUME ~torn' PROVE CursorFits'
        <5>1. Waiting /\ \A s \in 1 .. row.last : paid[s] = held[s]
          BY <1>1, <1>2, <1>4, <4>2, NotStoppedWaits DEF Closing
        <5>2. row.last \in Nat
          BY DEF CarryInv, TypeOK, Engine
        <5>3. AllPaid'
          BY <1>1, <1>2, <5>1, <5>2 DEF Waiting, AllPaid, world
        <5>. QED
          BY <1>1, <1>2, <1>4, <2>3, <2>6, <3>2, <5>1, <5>3 DEF CursorFits, world
      <4>. QED
        BY <4>1, <4>2 DEF FundingFits
    <3>. QED
      BY <2>5, <3>1, <3>2
  <2>. QED
    BY <2>6, <2>7, <2>8 DEF CarryInv
<1>. QED
  BY <1>1, <1>3, <1>4, PersistSplits

\* The entry is dated: the cursor starts at it, and no slot is beyond it.
LEMMA MarkKeeps == CarryInv /\ OpenMark => CarryInv'
<1>. SUFFICES ASSUME CarryInv, OpenMark PROVE CarryInv'
  OBVIOUS
<1>. DEFINE n == [mem EXCEPT !.entry = slot, !.last = slot]
<1>1. pc = "open_mark" /\ UNCHANGED <<world, paid, entries>> /\ Persist(n, "idle", tick)
  BY DEF OpenMark
<1>2. CASE Stop /\ failures' \in Nat
  BY <1>1, <1>2, StopKeeps DEF CarryInv, TypeOK
<1>3. CASE row' = n /\ mem' = n /\ Goes("idle", tick) /\ UNCHANGED <<torn, failures>>
  <2>1. slot \in Nat \ {0} /\ slot \in 0 .. MaxSlot
    BY SlotAssumption DEF CarryInv, TypeOK, Slot
  <2>2. /\ n \in Engine /\ n.perp = mem.perp /\ n.spot = mem.spot /\ n.last = slot /\ n.entry = slot
        /\ n.margin = mem.margin /\ n.intent = mem.intent /\ n.st = mem.st
    BY <2>1 DEF CarryInv, TypeOK, Engine
  <2>3. Sound(n)
    BY <2>1, <2>2 DEF CarryInv, Sound, Balanced, InPosition
  <2>. HIDE DEF n
  <2>4. TypeOK' /\ Sound(row)' /\ Sound(mem)' /\ MemoryAgrees' /\ pc' = "idle"
    BY <1>1, <1>3, <2>2, <2>3, Accepted DEF CarryInv, TypeOK, Phase
  <2>5. VenueFits'
    BY <1>1 DEF CarryInv, VenueFits, world
  <2>6. ASSUME ~torn' PROVE CursorFits'
    <3>1. AllPaid
      BY <1>1, <1>3, <2>6 DEF CarryInv, FundingFits, CursorFits
    <3>2. \A s \in 1 .. row'.last : paid'[s] = held'[s]
      BY <1>1, <1>3, <2>1, <2>2, <3>1 DEF AllPaid, world
    <3>3. Waiting'
      BY <1>1, <1>3, <2>1, <2>2 DEF Waiting, world
    <3>4. row'.last # 0
      BY <1>3, <2>1, <2>2
    <3>. QED
      BY <2>4, <3>2, <3>3, <3>4 DEF CursorFits
  <2>. QED
    BY <2>4, <2>5, <2>6, Resting DEF CarryInv, FundingFits
<1>. QED
  BY <1>1, <1>2, <1>3, PersistSplits

LEMMA FailuresKeep == CarryInv /\ (OpenFails \/ CloseFails) => CarryInv'
<1>. SUFFICES ASSUME CarryInv, OpenFails \/ CloseFails PROVE CarryInv'
  OBVIOUS
<1>. QED
  BY AmbiguousKeeps DEF OpenFails, CloseFails, GiveUp

-----------------------------------------------------------------------------
(* Exit, one leg at a time. *)

\* A reduction of the short: in a settled tick no payment is left behind, in
\* another it is one to note.
LEMMA ClosePerpKeeps == ASSUME CarryInv, NEW filled \in Leg, ClosePerp(filled) PROVE CarryInv'
<1>. DEFINE n == BuyPerp(mem, filled)
            next == IF mem.spot > 0 THEN "close_spot" ELSE "close_end"
<1>1. /\ pc = "close_perp" /\ filled \in 0 .. mem.perp /\ UNCHANGED <<world, paid, entries>>
      /\ Persist(n, next, tick)
  BY DEF ClosePerp, Fill
<1>2. mem = row /\ mem.why # "market_outage" /\ mem.perp \in Leg /\ mem.spot \in Leg /\ mem.last \in Nat
  BY <1>1 DEF CarryInv, MemoryAgrees, PhaseFits, Closing, TypeOK, Engine
<1>3. CASE Stop /\ failures' \in Nat
  BY <1>1, <1>3, StopKeeps DEF CarryInv, TypeOK
<1>4. CASE row' = n /\ mem' = n /\ Goes(next, tick) /\ UNCHANGED <<torn, failures>>
  <2>1. mem.perp - filled \in Leg
    BY <1>1, <1>2, QtyAssumption DEF Leg
  <2>2. /\ n \in Engine /\ n.perp = mem.perp - filled /\ n.spot = mem.spot /\ n.last = mem.last
        /\ n.why = mem.why /\ n.entry = mem.entry /\ n.margin = mem.margin /\ n.intent = mem.intent
        /\ n.st = mem.st
    BY <2>1 DEF BuyPerp, CarryInv, TypeOK, Engine
  <2>3. mem.st = "EXIT_PENDING"
    BY <1>1 DEF CarryInv, PhaseFits, Closing
  <2>4. Sound(n)
    BY <1>1, <1>2, <2>1, <2>2, <2>3 DEF CarryInv, Sound, Balanced, InPosition, Leg
  <2>5. next \in {"close_spot", "close_end"} /\ next \in Phase
    BY DEF Phase
  <2>. HIDE DEF n, next
  <2>6. TypeOK' /\ Sound(row)' /\ Sound(mem)' /\ MemoryAgrees' /\ pc' = next /\ tick' = tick
    BY <1>1, <1>4, <2>2, <2>4, <2>5, Accepted DEF CarryInv, TypeOK
  <2>7. PhaseFits' /\ ClosePerpFits'
    BY <1>2, <1>4, <2>2, <2>3, <2>5, <2>6 DEF PhaseFits, ClosePerpFits, Opening, Closing, Ticking, Stopped
  <2>8. ASSUME ~Stopped(row)
        PROVE  /\ tick.spot = mem.spot /\ tick.perp = mem.perp
               /\ tick.ready => mem.last = 0 \/ slot <= mem.last
               /\ tick.caller \in {"timeout", "liquidation", "kill_switch"} \/ tick.ready
    BY <1>1, <2>8 DEF CarryInv, ClosePerpFits
  <2>9. CloseFits'
    BY <1>1, <1>2, <1>4, <2>2, <2>6, <2>8 DEF CloseFits, Stopped, Leg
  <2>10. VenueFits' /\ FundingFits'
    <3>1. CASE Stopped(row)
      BY <1>1, <1>2, <1>4, <2>2, <2>5, <2>6, <3>1, FundingStopped DEF Stopped
    <3>2. CASE ~Stopped(row)
      <4>1. VenueFits'
        BY <1>1 DEF CarryInv, VenueFits, world
      <4>2. ASSUME ~torn' PROVE CursorFits'
        <5>1. CursorFits /\ ~Undated /\ ~Unnoted
          BY <1>1, <1>2, <1>4, <3>2, <4>2 DEF CarryInv, FundingFits, Undated, Unnoted
        <5>2. Waiting /\ ~(row.last = 0 /\ row.perp > 0)
          BY <1>1, <3>2, <5>1 DEF CursorFits
        <5>3. Waiting' \/ Unnoted'
          <6>1. CASE filled = 0
            BY <1>1, <1>2, <1>4, <2>2, <5>2, <6>1 DEF Waiting, world, Leg
          <6>2. CASE filled # 0 /\ tick.ready
            <7>1. slot <= row.last
              BY <1>1, <1>2, <2>8, <3>2, <5>2, <6>2, QtyAssumption DEF Leg
            <7>2. slot \in Nat
              BY SlotAssumption DEF CarryInv, TypeOK, Slot
            <7>. QED
              BY <1>1, <1>2, <1>4, <2>2, <7>1, <7>2 DEF Waiting, world
          <6>3. CASE filled # 0 /\ ~tick.ready
            <7>1. mem'.perp < tick'.perp
              BY <1>1, <1>2, <1>4, <2>2, <2>6, <2>8, <3>2, <6>3, QtyAssumption DEF Leg
            <7>. QED
              BY <2>5, <2>6, <2>8, <3>2, <6>3, <7>1 DEF Unnoted, UnsettledReduction, Reduced
          <6>. QED
            BY <6>1, <6>2, <6>3
        <5>4. ~(row'.last = 0 /\ row'.perp > 0)
          BY <1>1, <1>2, <1>4, <2>2, <5>2 DEF Leg
        <5>. QED
          BY <1>1, <1>2, <1>4, <2>2, <2>5, <2>6, <5>1, <5>3, <5>4 DEF CursorFits, world
      <4>. QED
        BY <4>1, <4>2 DEF FundingFits
    <3>. QED
      BY <3>1, <3>2
  <2>. QED
    BY <2>6, <2>7, <2>9, <2>10 DEF CarryInv
<1>. QED
  BY <1>1, <1>3, <1>4, PersistSplits

\* A step of a close that leaves the short alone.
LEMMA CloseGoesOn ==
    ASSUME CarryInv, pc \in {"close_spot", "close_end"}, NEW n \in Engine, Sound(n),
           NEW next \in {"close_end", "after"}, n.why = mem.why, n.last = mem.last, n.perp = mem.perp,
           n.spot \in 0 .. mem.spot, next = "close_end" => n.st = mem.st,
           Persist(n, next, tick), UNCHANGED <<world, paid, entries>>
    PROVE  CarryInv'
<1>1. CASE Stop /\ failures' \in Nat
  BY <1>1, StopKeeps DEF CarryInv, TypeOK
<1>2. CASE row' = n /\ mem' = n /\ Goes(next, tick) /\ UNCHANGED <<torn, failures>>
  <2>1. TypeOK' /\ Sound(row)' /\ Sound(mem)' /\ MemoryAgrees' /\ pc' = next /\ tick' = tick
    BY <1>2, Accepted DEF CarryInv, TypeOK, Phase
  <2>2. mem = row /\ mem.why # "market_outage" /\ mem.spot \in Leg /\ tick.spot \in Leg
    BY DEF CarryInv, MemoryAgrees, PhaseFits, Closing, TypeOK, Engine, Tick
  <2>3. mem.st = "EXIT_PENDING"
    BY DEF CarryInv, PhaseFits, Closing
  <2>4. PhaseFits' /\ ClosePerpFits'
    BY <1>2, <2>1, <2>2, <2>3 DEF PhaseFits, ClosePerpFits, Opening, Closing, Ticking
  <2>5. CloseFits'
    BY <1>2, <2>1, <2>2, QtyAssumption DEF CarryInv, CloseFits, Closing, Stopped, Leg
  <2>6. UnsettledReduction => UnsettledReduction'
    BY <1>2, <2>1, <2>2, QtyAssumption DEF UnsettledReduction, Reduced, Leg
  <2>7. VenueFits' /\ FundingFits'
    BY <1>2, <2>1, <2>2, <2>6, FundingFollows DEF Stopped, Undated, Unnoted
  <2>. QED
    BY <2>1, <2>4, <2>5, <2>7 DEF CarryInv
<1>. QED
  BY <1>1, <1>2, PersistSplits

LEMMA CloseSpotKeeps == ASSUME CarryInv, NEW filled \in Leg, CloseSpot(filled) PROVE CarryInv'
<1>. DEFINE n == SellSpot(mem, filled)
<1>1. /\ pc = "close_spot" /\ filled \in 0 .. mem.spot /\ UNCHANGED <<world, paid, entries>>
      /\ Persist(n, "close_end", tick)
  BY DEF CloseSpot, Fill
<1>2. mem.st \notin {"HEDGED", "FLAT"} /\ mem.spot \in Leg
  BY <1>1 DEF CarryInv, PhaseFits, Closing, TypeOK, Engine
<1>3. mem.spot - filled \in Leg /\ mem.spot - filled \in 0 .. mem.spot
  BY <1>1, <1>2, QtyAssumption DEF Leg
<1>4. /\ n \in Engine /\ n.perp = mem.perp /\ n.spot = mem.spot - filled /\ n.last = mem.last
      /\ n.why = mem.why /\ n.entry = mem.entry /\ n.margin = mem.margin /\ n.st = mem.st
  BY <1>3 DEF SellSpot, CarryInv, TypeOK, Engine
<1>5. Sound(n)
  BY <1>2, <1>3, <1>4, QtyAssumption DEF CarryInv, Sound, Balanced, InPosition, Leg
<1>. QED
  BY <1>1, <1>3, <1>4, <1>5, CloseGoesOn

LEMMA CloseEndKeeps == CarryInv /\ CloseEnd => CarryInv'
<1>. SUFFICES ASSUME CarryInv, CloseEnd PROVE CarryInv'
  OBVIOUS
<1>. DEFINE part == [mem EXCEPT !.st = "PARTIALLY_HEDGED"]
            n == IF InPosition(mem) THEN part ELSE BackToFlat(mem)
<1>1. pc = "close_end" /\ UNCHANGED <<world, paid, entries>> /\ Persist(n, "after", tick)
  BY DEF CloseEnd
<1>2. mem.spot \in Leg /\ mem.spot \in 0 .. mem.spot
  BY QtyAssumption DEF CarryInv, TypeOK, Engine, Leg
<1>3. /\ n \in Engine /\ n.perp = mem.perp /\ n.spot = mem.spot /\ n.last = mem.last /\ n.why = mem.why
      /\ n.entry = mem.entry
      /\ \/ InPosition(mem) /\ n.st = "PARTIALLY_HEDGED" /\ n.margin = mem.margin
         \/ ~InPosition(mem) /\ n.st = "FLAT" /\ n.margin = FALSE /\ n.intent = "none"
  BY DEF BackToFlat, ReleaseMargin, CarryInv, TypeOK, Engine, ExecutionState
<1>. HIDE DEF n
<1>4. Sound(n)
  BY <1>3 DEF CarryInv, Sound, Balanced, InPosition
<1>. QED
  BY <1>1, <1>2, <1>3, <1>4, CloseGoesOn

\* An unsettled reduction is noted before the tick ends.
LEMMA AfterKeeps == CarryInv /\ AfterClose => CarryInv'
<1>. SUFFICES ASSUME CarryInv, AfterClose PROVE CarryInv'
  OBVIOUS
<1>. DEFINE liquidated == tick.caller = "liquidation"
            m == [mem EXCEPT !.halted = mem.halted \/ liquidated]
            n == RecordUnsettled(m)
            next == IF liquidated THEN "liquidated" ELSE "idle"
<1>1. /\ pc = "after" /\ UNCHANGED <<world, paid, entries>>
      /\ \/ Save(n, next)
         \/ n = m /\ mem' = m /\ Goes(next, tick) /\ UNCHANGED <<row, torn, failures>>
  BY DEF AfterClose
<1>2. mem = row /\ mem.why # "market_outage"
  BY <1>1 DEF CarryInv, MemoryAgrees, PhaseFits, Closing
<1>3. m \in Engine /\ SameExposure(m, mem) /\ m.why = mem.why
  BY DEF CarryInv, TypeOK, Engine, SameExposure
<1>. HIDE DEF m
<1>4. /\ n \in Engine /\ SameExposure(n, mem) /\ (Stopped(mem) => Stopped(n))
      /\ (UnsettledReduction /\ mem.why = "none" => Stopped(n) /\ n # m)
  <2>1. CASE n = m /\ (UnsettledReduction => mem.why # "none")
    BY <1>3, <2>1 DEF Stopped
  <2>2. CASE UnsettledReduction /\ mem.why = "none"
    <3>1. n = [m EXCEPT !.why = "unsettled_exit"]
      BY <1>3, <2>2 DEF RecordUnsettled, MarkUncertain
    <3>2. n \in Engine /\ SameExposure(n, m) /\ n.why = "unsettled_exit"
      BY <1>3, <3>1 DEF Engine, Uncertainty, SameExposure
    <3>. QED
      BY <1>3, <2>2, <3>2 DEF Stopped, SameExposure
  <2>. QED
    BY <1>3, <2>1, <2>2 DEF RecordUnsettled, MarkUncertain
<1>5. next \in {"idle", "liquidated"}
  OBVIOUS
<1>. HIDE DEF n, next
<1>6. CASE Save(n, next)
  BY <1>1, <1>4, <1>5, <1>6, SaveKeeps
<1>7. CASE n = m /\ mem' = m /\ Goes(next, tick) /\ UNCHANGED <<row, torn, failures>>
  <2>1. pc' = next /\ tick' \in {tick, Rest}
    BY <1>7 DEF Goes
  <2>2. TypeOK'
    BY <1>1, <1>3, <1>5, <1>7, <2>1, RestIsTick DEF CarryInv, TypeOK, Phase, world
  <2>3. Sound(row)' /\ Sound(mem)'
    BY <1>1, <1>3, <1>7 DEF CarryInv, Sound, Balanced, InPosition, SameExposure, world
  <2>4. MemoryAgrees'
    BY <1>2, <1>3, <1>5, <1>7, <2>1 DEF MemoryAgrees, SameExposure, Stopped, Opening, Closing
  <2>5. Unnoted => Stopped(row)
    BY <1>2, <1>4, <1>7 DEF Unnoted, Stopped, CarryInv, TypeOK, Engine, Uncertainty
  <2>6. Undated => Stopped(row)
    BY <1>1, <1>2 DEF Undated
  <2>7. VenueFits' /\ FundingFits'
    BY <1>1, <1>5, <1>7, <2>1, <2>5, <2>6, FundingFollows DEF Stopped
  <2>. QED
    BY <1>5, <2>1, <2>2, <2>3, <2>4, <2>7, Resting DEF CarryInv
<1>. QED
  BY <1>1, <1>6, <1>7

-----------------------------------------------------------------------------
(* The invariant and what it shows. *)

LEMMA NextKeeps == CarryInv /\ [Next]_vars => CarryInv'
<1>. SUFFICES ASSUME CarryInv, [Next]_vars PROVE CarryInv'
  OBVIOUS
<1>1. CASE Step
  BY <1>1, LoadKeeps, BeginKeeps, PaymentKeeps, ReadKeeps, OutageKeeps, MarketKeeps, ExitsKeep,
     KillSwitchKeeps, EnterKeeps, CheckpointsKeep, SpotKeeps, PerpKeeps, MarkKeeps, FailuresKeep,
     ClosePerpKeeps, CloseSpotKeeps, CloseEndKeeps, AfterKeeps DEF Step
<1>2. CASE Environment
  BY <1>2, CrashKeeps, ShutdownKeeps, SlotKeeps, PublicationKeeps DEF Environment
<1>3. CASE UNCHANGED vars
  BY <1>3 DEF vars, CarryInv, TypeOK, Sound, Balanced, InPosition, MemoryAgrees, SameExposure, PhaseFits,
     Seen, ClosePerpFits, CloseFits, VenueFits, FundingFits, CursorFits, Waiting, AllPaid, Undated, Unnoted,
     Stopped, UnsettledReduction, Reduced
<1>. QED
  BY <1>1, <1>2, <1>3 DEF Next

LEMMA Invariance == Spec => []CarryInv
  BY InitHolds, NextKeeps, PTL DEF Spec

(* The state the store shows is the exposure it records, whichever commit   *)
(* the process stopped after and whichever write was refused.               *)
THEOREM LegsMatchState == Spec => []StateMatchesLegs
<1>1. CarryInv => StateMatchesLegs
  BY DEF CarryInv, Sound, StateMatchesLegs
<1>. QED
  BY <1>1, Invariance, PTL

(* The funding cursor passes a slot only when its payment was applied to the *)
(* short held at that slot, outside the windows LosesAFact names.           *)
THEOREM FundingIsExact == Spec => []FundingExact
<1>1. CarryInv => FundingExact
  BY DEF CarryInv, FundingFits, CursorFits, FundingExact
<1>. QED
  BY <1>1, Invariance, PTL
=============================================================================
