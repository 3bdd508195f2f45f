---- MODULE ProtectiveStopProofs ----
(***************************************************************************)
(* Proofs about ProtectiveStop, for every position size, every number of    *)
(* stops and every number of crashes.                                       *)
(***************************************************************************)
EXTENDS ProtectiveStopInv, TLAPS

(* The invariant holds initially. *)
LEMMA InitStopInv == Init => StopInv
  <1> SUFFICES ASSUME Init PROVE StopInv
    OBVIOUS
  <1>1. failed \in BOOLEAN
    BY Zenon DEF Init
  <1>2. TypeOK
    BY <1>1, StopAssumption
       DEF Init, TypeOK, FreshSlot, Slot, Transition, NoTransition, Phase, StopStatus,
           VenueState, Quantity, CyclePhase, Stop
  <1>3. Shape(eng) /\ Shape(mem) /\ Synced /\ Steps /\ Unsent
    BY DEF Init, Shape, Synced, Steps, Unsent, FreshSlot, NoTransition, Placing, Proving
  <1>4. AtMostOnePlacement /\ NoOrphanStop
    BY DEF Init, AtMostOnePlacement, NoOrphanStop
  <1> QED BY <1>2, <1>3, <1>4 DEF StopInv

(* The values a step gives to a slot are slots.                             *)
LEMMA SlotFields ==
  ASSUME NEW x \in Slot
  PROVE  /\ x.pos \in Quantity /\ x.active \in 0 .. MaxStop /\ x.trans \in Transition
         /\ x.trans.new \in 0 .. MaxStop /\ x.trans.prev \in 0 .. MaxStop
         /\ x.trans.phase \in Phase
  BY DEF Slot, Transition

(* The empty slot and the empty transition are in their domains. *)
LEMMA FreshIsSlot == FreshSlot \in Slot /\ NoTransition \in Transition
  BY StopAssumption DEF FreshSlot, Slot, Transition, NoTransition, Quantity, Phase

(* A latched slot is a slot. *)
LEMMA LatchedSlot ==
  ASSUME NEW x \in Slot
  PROVE  [x EXCEPT !.latch = TRUE] \in Slot
  BY DEF Slot

(* A slot whose transition moves to another phase is a slot. *)
LEMMA PhasedSlot ==
  ASSUME NEW x \in Slot, NEW p \in Phase
  PROVE  [x EXCEPT !.trans.phase = p] \in Slot
  <1>1. [x.trans EXCEPT !.phase = p] \in Transition
    BY DEF Slot, Transition
  <1>2. [x EXCEPT !.trans.phase = p] = [x EXCEPT !.trans = [x.trans EXCEPT !.phase = p]]
    OBVIOUS
  <1> QED BY <1>1, <1>2 DEF Slot

(* A slot that takes another position, with or without its stop, is a slot. *)
LEMMA PositionedSlot ==
  ASSUME NEW x \in Slot, NEW q \in Quantity
  PROVE  [x EXCEPT !.pos = q] \in Slot /\ [x EXCEPT !.pos = q, !.active = 0] \in Slot
  <1>1. 0 \in 0 .. MaxStop
    BY StopAssumption
  <1>2. [x EXCEPT !.pos = q] \in Slot
    BY DEF Slot
  <1>3. [x EXCEPT !.pos = q, !.active = 0] \in Slot
    BY <1>1 DEF Slot
  <1> QED BY <1>2, <1>3

(* A slot given another transition is a slot. *)
LEMMA MovedSlot ==
  ASSUME NEW x \in Slot, NEW t \in Transition
  PROVE  [x EXCEPT !.trans = t] \in Slot
  BY DEF Slot

(* A promoted slot is a slot. *)
LEMMA PromotedSlot ==
  ASSUME NEW x \in Slot, NEW a \in 0 .. MaxStop, NEW t \in Transition
  PROVE  [x EXCEPT !.active = a, !.trans = t] \in Slot
  BY DEF Slot

(* A fill the inspection proves is one of the active stop, and at most the  *)
(* position.                                                                *)
LEMMA DecidedFill ==
  ASSUME TypeOK, Decides("FILLED") \/ Decides("PARTIAL_FILLED")
  PROVE  /\ mem.active \in Stop /\ mem.active # 0 /\ mem.pos > 0
         /\ venue[mem.active] \in {"filled", "partial"}
         /\ filled[mem.active] <= mem.pos
         /\ mem.pos - filled[mem.active] \in Quantity
  <1>1. /\ mem.active # 0 /\ mem.pos > 0
        /\ venue[mem.active] \in {"filled", "partial"}
        /\ filled[mem.active] = mem.pos \/ filled[mem.active] < mem.pos
    BY DEF Decides
  <1>2. mem.active \in Stop /\ mem.pos \in Quantity
    BY <1>1, SlotFields, StopAssumption DEF TypeOK, Stop
  <1>3. filled[mem.active] \in Quantity
    BY <1>2 DEF TypeOK
  <1> QED BY <1>1, <1>2, <1>3, StopAssumption DEF Quantity

(* The phase after a phase of the cycle is one of the cycle. *)
LEMMA FollowingPhase ==
  /\ Following["observe"] = "reconcile" /\ Following["reconcile"] = "recover"
  /\ Following["recover"] = "firstMonitor" /\ Following["firstMonitor"] = "monitor"
  /\ Following["monitor"] = "check" /\ Following["check"] = "trade"
  /\ Following["lastMonitor"] = "save"
  BY DEF Following

(* Types are preserved. *)
LEMMA StepTypeOK == TypeOK /\ [Next]_vars => TypeOK'
  <1> SUFFICES ASSUME TypeOK, [Next]_vars PROVE TypeOK'
    OBVIOUS
  <1> USE FreshIsSlot DEF TypeOK, StopStatus, VenueState, Quantity, CyclePhase, SagaPhase, Stop, durable, exchange, process, unit
  <1>a. /\ mem.pos \in Quantity /\ mem.active \in 0 .. MaxStop /\ mem.trans \in Transition
        /\ mem.trans.new \in 0 .. MaxStop /\ mem.trans.prev \in 0 .. MaxStop
    BY SlotFields
  <1>b. [mem EXCEPT !.latch = TRUE] \in Slot
    BY LatchedSlot
  <1>c. \A p \in Phase : InPhase(p) \in Slot /\ [InPhase(p) EXCEPT !.latch = TRUE] \in Slot
    BY PhasedSlot, LatchedSlot DEF InPhase
  <1>d. \A p \in Late \cup {"SUBMITTING", "SUBMISSION_AMBIGUOUS"} : p \in Phase
    BY DEF Late, Phase
  <1>1. CASE Begin
    <2>1. PICK s \in Stop :
             /\ NextFresh(s)
             /\ row' = [row EXCEPT ![s] = "PENDING"]
             /\ qty' = [qty EXCEPT ![s] = mem.pos]
             /\ SaveSlot([mem EXCEPT !.trans = [kind |-> "REPLACE", phase |-> "PLACING",
                                                new |-> s, prev |-> mem.active]])
      BY <1>1 DEF Begin
    <2>2. [kind |-> "REPLACE", phase |-> "PLACING", new |-> s, prev |-> mem.active] \in Transition
      BY <1>a, StopAssumption DEF Transition, Phase, Stop
    <2>3. eng' \in Slot /\ mem' \in Slot
      BY <2>1, <2>2, <1>a, MovedSlot DEF SaveSlot
    <2> QED BY <1>1, <1>a, <2>1, <2>3 DEF Begin, Goto
  <1>2. CASE LookupFails
    BY <1>2 DEF LookupFails, StopPending, Die
  <1>3. CASE LookupMisses
    BY <1>3 DEF LookupMisses, StopPending, Die, Move, Goto
  <1>4. CASE LookupFinds
    BY <1>4, <1>b DEF LookupFinds, StopPending, Latch, Die, Move, Goto
  <1>5. CASE PersistSubmitting
    BY <1>5, <1>c, <1>d DEF PersistSubmitting, PersistPhase, SaveSlot, Goto
  <1>6. CASE PersistAmbiguous
    BY <1>6, <1>c, <1>d DEF PersistAmbiguous, PersistPhase, SaveSlot, Goto
  <1>7. CASE PersistPromotion
    BY <1>7, <1>c, <1>d DEF Late, PersistPromotion, PersistPhase, SaveSlot, Goto
  <1>8. CASE PlaceStop
    <2>1. sends' \in [Stop -> Nat]
      <3>1. sends' = [sends EXCEPT ![mem.trans.new] = sends[mem.trans.new] + 1]
        BY <1>8 DEF PlaceStop
      <3>2. \A t \in Stop : sends[t] + 1 \in Nat
        OBVIOUS
      <3> QED BY <3>1, <3>2
    <2>2. venue' \in [Stop -> VenueState]
      BY <1>8 DEF PlaceStop, SetVenue
    <2>3. eng' \in Slot /\ mem' \in Slot
      BY <1>8, FreshIsSlot DEF PlaceStop, Die
    <2> QED BY <1>8, <2>1, <2>2, <2>3 DEF PlaceStop, Goto, Die
  <1>9. CASE Confirm
    BY <1>9, <1>c, <1>d DEF Late, Confirm, CompleteOrder, SaveSlot, Goto
  <1>10. CASE CancelAccepted
    BY <1>10 DEF CancelAccepted, SetVenue, Goto
  <1>11. CASE CancelRefused
    BY <1>11 DEF CancelRefused, Move, Goto
  <1>12. CASE VerifyTerminal
    BY <1>12, <1>c, <1>d DEF Late, VerifyTerminal, Goto
  <1>13. CASE VerifyExecuted
    BY <1>13, <1>c, <1>d DEF Late, VerifyExecuted, Latch, Die
  <1>14. CASE VerifyUnproven
    BY <1>14, <1>c, <1>d DEF Late, VerifyUnproven, StopPending, Die
  <1>15. CASE Retire
    BY <1>15 DEF Retire, Goto
  <1>16. CASE Finish
    <2>1. eng' \in Slot /\ mem' \in Slot
      BY <1>16, <1>a, FreshIsSlot, PromotedSlot DEF Finish, SaveSlot
    <2> QED BY <1>16, <2>1 DEF Finish
  <1>17. CASE Settle
    BY <1>17 DEF Settle, Move, Goto
  <1>18. CASE Boot
    <2>1. PICK counted \in {0, starts} : counted < Burst /\ starts' = counted + 1
      BY <1>18 DEF Boot
    <2>2. starts' \in 0 .. Burst
      BY <2>1, StopAssumption
    <2>3. /\ pc' = "observe" /\ mem' = eng
          /\ UNCHANGED <<ret, durable, exchange, failed, crashes>>
      BY <1>18 DEF Boot
    <2> QED BY <2>2, <2>3
  <1>19. CASE Observe
    <2>1. CASE Move("reconcile")
      BY <1>19, <2>1 DEF Move, Goto
    <2>2. CASE (Decides("FILLED") \/ Decides("PARTIAL_FILLED")) /\ Materialize /\ pc = "observe"
      <3>1. mem.active \in Stop /\ mem.pos - filled[mem.active] \in Quantity
        BY <2>2, DecidedFill DEF TypeOK, Quantity
      <3>2. eng' \in Slot /\ mem' \in Slot
        BY <2>2, <1>a, <3>1, PositionedSlot DEF Materialize, SaveSlot
      <3> QED BY <2>2, <1>19, <3>1, <3>2, FollowingPhase DEF Materialize
    <2>3. CASE Latch(mem)
      BY <1>19, <2>3, <1>b DEF Latch, Die
    <2> QED BY <1>19, <2>1, <2>2, <2>3 DEF Observe
  <1>20. CASE Reconcile
    <2>1. CASE Latch(mem)
      BY <1>20, <2>1, <1>b DEF Latch, Die
    <2>2. CASE Move(Following[pc]) \/ Move("trade")
      <3>1. pc \in {"reconcile", "check"}
        BY <1>20 DEF Reconcile
      <3>2. pc' \in {"recover", "trade"}
        BY <2>2, <3>1, FollowingPhase DEF Move, Goto
      <3>3. UNCHANGED <<ret, mem, durable, exchange, unit>>
        BY <2>2 DEF Move, Goto
      <3> QED BY <3>2, <3>3
    <2> QED BY <1>20, <2>1, <2>2 DEF Reconcile
  <1>21. CASE Recover
    BY <1>21 DEF Recover, Call, ResumeAt, Move, Goto
  <1>22. CASE Monitor
    <2>1. CASE pc' = ResumeAt(mem.trans) /\ Call(ResumeAt(mem.trans), Following[pc])
      BY <1>22, <2>1, FollowingPhase DEF Monitor, Call, ResumeAt
    <2>2. CASE (Decides("FILLED") \/ Decides("PARTIAL_FILLED")) /\ Materialize
      <3>1. mem.active \in Stop /\ mem.pos - filled[mem.active] \in Quantity
        BY <2>2, DecidedFill DEF TypeOK, Quantity
      <3>2. eng' \in Slot /\ mem' \in Slot
        BY <2>2, <1>a, <3>1, PositionedSlot DEF Materialize, SaveSlot
      <3> QED BY <2>2, <1>22, <3>1, <3>2, FollowingPhase DEF Materialize, Monitor
    <2>3. CASE Latch(mem)
      BY <1>22, <2>3, <1>b DEF Latch, Die
    <2>4. CASE Move(Following[pc]) \/ Call("protect", Following[pc])
      <3>1. /\ pc' = Following[pc] \/ pc' = "protect"
            /\ ret' = ret \/ ret' = Following[pc]
            /\ UNCHANGED <<mem, durable, exchange, unit>>
        BY <2>4 DEF Move, Call, Goto
      <3>2. Following[pc] \in CyclePhase
        BY <1>22, FollowingPhase DEF Monitor
      <3>3. pc' \in CyclePhase \cup SagaPhase /\ ret' \in CyclePhase
        BY <3>1, <3>2
      <3> QED BY <3>1, <3>3
    <2> QED BY <1>22, <2>1, <2>2, <2>3, <2>4 DEF Monitor, Call
  <1>23. CASE NoDecision
    BY <1>23 DEF NoDecision, Move, Goto
  <1>24. CASE Enter
    <2>1. PICK q \in 1 .. Lot : net' = net + q /\ SaveSlot([mem EXCEPT !.pos = q])
      BY <1>24 DEF Enter
    <2>2. eng' \in Slot /\ mem' \in Slot
      <3>1. q \in Quantity
        BY StopAssumption DEF Quantity
      <3> QED BY <2>1, <3>1, PositionedSlot DEF SaveSlot
    <2>3. net' \in Nat
      BY <2>1, StopAssumption
    <2> QED BY <1>24, <2>2, <2>3 DEF Enter
  <1>25. CASE Trail
    BY <1>25 DEF Trail, Call
  <1>26. CASE Exit
    <2> DEFINE canceling == [NoTransition EXCEPT !.kind = "CANCEL", !.phase = "CANCELING",
                                                 !.prev = mem.active]
               left(k) == [mem EXCEPT !.pos = mem.pos - k]
    <2>1. PICK k \in 0 .. Lot :
             /\ k <= net /\ k <= mem.pos /\ net' = net - k /\ eng' = left(k)
             /\ mem' \in {left(k), [left(k) EXCEPT !.trans = canceling]}
             /\ pc' \in {"lastMonitor", "protect"} /\ ret' \in {ret, "lastMonitor"}
      BY <1>26 DEF Exit
    <2>2. mem.pos - k \in Quantity /\ net' \in Nat
      <3>1. mem.pos \in 0 .. Lot /\ net \in Nat /\ k <= mem.pos /\ k <= net /\ net' = net - k
        BY <2>1, <1>a
      <3> HIDE DEF left, canceling
      <3> QED BY <3>1, StopAssumption DEF Quantity
    <2>3. canceling \in Transition
      BY <1>a, StopAssumption DEF NoTransition, Transition, Phase
    <2>4. left(k) \in Slot
      BY <2>2, <1>a, PositionedSlot
    <2> HIDE DEF left, canceling
    <2>5. [left(k) EXCEPT !.trans = canceling] \in Slot
      BY <2>3, <2>4, MovedSlot
    <2> QED BY <1>26, <2>1, <2>2, <2>4, <2>5 DEF Exit
  <1>27. CASE SaveCycle
    BY <1>27 DEF SaveCycle, SaveSlot, Goto
  <1>28. CASE Venue
    <2>1. PICK s \in Stop : Arrives(s) \/ Triggers(s) \/ CanceledByVenue(s)
      BY <1>28 DEF Venue
    <2>2. CASE Arrives(s) \/ CanceledByVenue(s)
      <3>1. PICK v \in VenueState : venue' = [venue EXCEPT ![s] = v]
        BY <2>2 DEF Arrives, CanceledByVenue, SetVenue
      <3>2. UNCHANGED <<durable, filled, sends, net, process, unit>>
        BY <2>2 DEF Arrives, CanceledByVenue
      <3> QED BY <3>1, <3>2
    <2>3. CASE Triggers(s)
      <3>1. PICK k \in 1 .. Lot :
               /\ k <= net /\ filled' = [filled EXCEPT ![s] = k] /\ net' = net - k
               /\ SetVenue(s, IF k = qty[s] THEN "filled" ELSE "partial")
        BY <2>3 DEF Triggers
      <3>2. filled' \in [Stop -> Quantity] /\ net' \in Nat
        BY <3>1, StopAssumption DEF Quantity
      <3>3. venue' \in [Stop -> VenueState]
        BY <3>1 DEF SetVenue
      <3> QED BY <2>3, <3>2, <3>3 DEF Triggers
    <2> QED BY <2>1, <2>2, <2>3
  <1>29. CASE Crash
    <2>1. crashes' \in 0 .. MaxCrash
      BY <1>29, StopAssumption DEF Crash
    <2>2. pc' = "down" /\ mem' \in Slot /\ ret' \in CyclePhase
          /\ UNCHANGED <<durable, exchange, starts, failed>>
      BY <1>29 DEF Crash, Die
    <2> QED BY <2>1, <2>2
  <1>30. CASE UNCHANGED vars
    BY <1>30 DEF vars
  <1>31. CASE StartRefused
    BY <1>31 DEF StartRefused
  <1>32. CASE OperatorResets
    <2>1. starts' = 0 /\ UNCHANGED <<process, durable, exchange, crashes>>
      BY <1>32 DEF OperatorResets
    <2>2. failed' \in BOOLEAN
      BY <1>32, Zenon DEF OperatorResets
    <2> QED BY <2>1, <2>2, StopAssumption
  <1> QED BY <1>1, <1>2, <1>3, <1>4, <1>5, <1>6, <1>7, <1>8, <1>9, <1>10, <1>11, <1>12, <1>13, <1>14, <1>15, <1>16, <1>17, <1>18, <1>19, <1>20, <1>21, <1>22, <1>23, <1>24, <1>25, <1>26, <1>27, <1>28, <1>29, <1>30, <1>31, <1>32 DEF Next, Saga, Cycle

(* What a process may do next keeps the invariant when nothing else moves.  *)
LEMMA Moving ==
  ASSUME StopInv, TypeOK', UNCHANGED <<mem, durable, exchange>>, pc # "down", pc' # "down",
         Steps', pc' # "send", pc' = "submit" => mem.trans.phase = "PLACING"
  PROVE  StopInv'
  <1> USE DEF StopInv, durable, exchange
  <1>1. Shape(eng)' /\ Shape(mem)'
    BY DEF Shape, Known
  <1>2. Synced'
    BY DEF Synced
  <1>3. Unsent'
    BY DEF Unsent
  <1>4. AtMostOnePlacement' /\ NoOrphanStop'
    BY DEF AtMostOnePlacement, NoOrphanStop
  <1> QED BY <1>1, <1>2, <1>3, <1>4

(* A process that stops after saving the transition it has in hand, as it   *)
(* stands or with the phase its proof reached, keeps the invariant.         *)
LEMMA Stopping ==
  ASSUME StopInv, TypeOK', pc # "down", Die,
         UNCHANGED <<row, qty, observed, exchange>>,
         eng'.pos = mem.pos, eng'.active = mem.active,
         eng'.trans.kind = mem.trans.kind, eng'.trans.new = mem.trans.new,
         eng'.trans.prev = mem.trans.prev,
         \/ eng'.trans = mem.trans
         \/ eng'.trans.phase \in Late /\ pc \in Proving
  PROVE  StopInv'
  <1> USE DEF StopInv, exchange
  <1>1. Shape(eng)'
    BY DEF Shape, Known, Steps, Late
  <1>2. mem' = FreshSlot /\ mem'.trans = NoTransition /\ pc' = "down"
    BY DEF Die, FreshSlot
  <1>3. Shape(mem)'
    BY <1>2 DEF Shape, FreshSlot, NoTransition
  <1>4. Synced' /\ Steps'
    BY <1>2 DEF Synced, Steps, Placing, Proving
  <1>5. Unsent'
    <2>1. eng'.trans.phase = "PLACING" => sends'[eng'.trans.new] = 0
      BY DEF Unsent, Late
    <2>2. mem'.trans.phase # "PLACING"
      BY <1>2 DEF NoTransition
    <2> QED BY <1>2, <2>1, <2>2 DEF Unsent
  <1>6. AtMostOnePlacement'
    BY DEF AtMostOnePlacement
  <1>7. NoOrphanStop'
    <2>1. CASE mem.trans.new = eng.trans.new /\ mem.trans.prev = eng.trans.prev
      BY <2>1 DEF NoOrphanStop, Synced
    <2>2. CASE eng.trans.kind = "NONE"
      <3>1. eng.trans.new = 0 /\ eng.trans.prev = 0
        BY <2>2 DEF Shape, NoTransition
      <3> QED BY <3>1 DEF NoOrphanStop, Synced, Stop
    <2> QED BY <2>1, <2>2 DEF Synced
  <1> QED BY <1>1, <1>3, <1>4, <1>5, <1>6, <1>7

(* A process that saves its slot as it stands and stops keeps the           *)
(* invariant.                                                               *)
LEMMA StoppingAsIs ==
  ASSUME StopInv, TypeOK', pc # "down", StopPending(mem) \/ Latch(mem)
  PROVE  StopInv'
  <1>1. mem \in Slot
    BY DEF StopInv, TypeOK
  <1>2. /\ eng'.pos = mem.pos /\ eng'.active = mem.active /\ eng'.trans = mem.trans
        /\ Die /\ UNCHANGED <<row, qty, observed, exchange>>
    BY <1>1 DEF StopPending, Latch, Slot
  <1> QED BY <1>2, Stopping

(* A process that proved something of the old stop, saves the phase that    *)
(* says so and stops keeps the invariant.                                   *)
LEMMA StoppingInPhase ==
  ASSUME StopInv, TypeOK', pc \in Proving, NEW p \in Late,
         StopPending(InPhase(p)) \/ Latch(InPhase(p))
  PROVE  StopInv'
  <1>1. mem \in Slot
    BY DEF StopInv, TypeOK
  <1> DEFINE x == InPhase(p)
  <1>a. /\ x.pos = mem.pos /\ x.active = mem.active
        /\ x.trans.kind = mem.trans.kind /\ x.trans.new = mem.trans.new
        /\ x.trans.prev = mem.trans.prev /\ x.trans.phase = p
    BY <1>1 DEF InPhase, Slot, Transition
  <1>b. /\ eng'.pos = x.pos /\ eng'.active = x.active /\ eng'.trans = x.trans
        /\ Die /\ UNCHANGED <<row, qty, observed, exchange>>
    <2> HIDE DEF x
    <2>1. \/ eng' = x
          \/ eng' = [x EXCEPT !.latch = TRUE]
      BY DEF StopPending, Latch, x
    <2>2. Die /\ UNCHANGED <<row, qty, observed, exchange>>
      BY DEF StopPending, Latch
    <2>3. x \in Slot
      BY <1>1, PhasedSlot DEF x, InPhase, Late, Phase
    <2> QED BY <2>1, <2>2, <2>3 DEF Slot
  <1>2. /\ eng'.pos = mem.pos /\ eng'.active = mem.active
        /\ eng'.trans.kind = mem.trans.kind /\ eng'.trans.new = mem.trans.new
        /\ eng'.trans.prev = mem.trans.prev /\ eng'.trans.phase = p
        /\ Die /\ UNCHANGED <<row, qty, observed, exchange>>
    BY <1>a, <1>b
  <1> QED BY <1>2, Stopping DEF Proving

(* A materialised fill takes the stop out of the slot and its quantity out  *)
(* of the position, in one commit.                                          *)
LEMMA Materializing ==
  ASSUME StopInv, TypeOK', Materialize, pc # "down", mem.trans = NoTransition,
         Decides("FILLED") \/ Decides("PARTIAL_FILLED")
  PROVE  StopInv'
  <1> USE DEF StopInv, exchange
  <1>1. /\ mem.active \in Stop /\ mem.active # 0
        /\ venue[mem.active] \in {"filled", "partial"}
    BY DecidedFill
  <1>2. /\ eng' = mem' /\ mem'.active = 0 /\ mem'.trans = NoTransition
        /\ pc' = "settle" /\ UNCHANGED <<qty, exchange>>
    BY DEF Materialize, SaveSlot
  <1>3. eng.trans.kind = "NONE" /\ eng.active = mem.active
    BY DEF Synced, NoTransition
  <1>4. \A s \in Stop : row'[s] = "NONE" => row[s] = "NONE"
    BY <1>1 DEF Materialize, TypeOK
  <1>5. Shape(eng)' /\ Shape(mem)'
    BY <1>2 DEF Shape, NoTransition
  <1>6. Synced' /\ Steps'
    BY <1>2 DEF Synced, Steps, Placing, Proving
  <1>7. Unsent'
    BY <1>2, <1>4 DEF Unsent, NoTransition
  <1>8. AtMostOnePlacement' /\ NoOrphanStop'
    <2>1. eng.trans = NoTransition
      BY <1>3 DEF Shape
    <2> QED BY <1>1, <1>2, <1>3, <2>1 DEF AtMostOnePlacement, NoOrphanStop, NoTransition
  <1> QED BY <1>5, <1>6, <1>7, <1>8

(* Every step keeps the invariant. *)
LEMMA StepStopInv == StopInv /\ [Next]_vars => StopInv'
  <1> SUFFICES ASSUME StopInv, [Next]_vars PROVE StopInv'
    OBVIOUS
  <1>t. TypeOK'
    BY StepTypeOK DEF StopInv
  <1>s. /\ mem \in Slot /\ eng \in Slot /\ mem' \in Slot /\ eng' \in Slot
        /\ row \in [Stop -> StopStatus] /\ qty \in [Stop -> Quantity]
        /\ venue \in [Stop -> VenueState] /\ sends \in [Stop -> Nat]
        /\ filled \in [Stop -> Quantity]
        /\ mem.active \in 0 .. MaxStop /\ mem.trans.new \in 0 .. MaxStop
    BY <1>t, SlotFields DEF StopInv, TypeOK
  <1>r. ret \in CyclePhase
    BY DEF StopInv, TypeOK
  <1> USE <1>s DEF StopInv, NoTransition, durable, exchange, process
  <1>1. CASE Begin
    <2>1. Shape(eng)'
      BY <1>1 DEF Stop, Begin, NextFresh, SaveSlot, Shape, Late
    <2>2. Shape(mem)'
      BY <1>1 DEF Stop, Begin, NextFresh, SaveSlot, Shape, Late
    <2>3. Synced'
      BY <1>1 DEF Begin, SaveSlot, Synced
    <2>4. Steps'
      BY <1>1 DEF Begin, Goto, SaveSlot, Steps, Proving
    <2>5. Unsent'
      BY <1>1 DEF Begin, NextFresh, Goto, SaveSlot, Unsent
    <2>6. AtMostOnePlacement'
      BY <1>1 DEF Begin, AtMostOnePlacement
    <2>7. NoOrphanStop'
      BY <1>1 DEF Stop, Begin, SaveSlot, NoOrphanStop, Synced, Steps
    <2> QED BY <1>t, <2>1, <2>2, <2>3, <2>4, <2>5, <2>6, <2>7
  <1>2. CASE LookupFails
    BY <1>2, <1>t, StoppingAsIs DEF LookupFails
  <1>3. CASE LookupMisses
    <2>1. CASE mem.trans.phase = "PLACING"
      <3>1. UNCHANGED mem /\ pc' = "submit" /\ Steps'
        BY <1>3, <2>1 DEF LookupMisses, Move, Goto, Steps, Placing, Proving
      <3> QED BY <1>3, <1>t, <2>1, <3>1, Moving DEF LookupMisses, Move
    <2>2. CASE mem.trans.phase # "PLACING"
      BY <1>3, <1>t, <2>2, StoppingAsIs DEF LookupMisses
    <2> QED BY <2>1, <2>2
  <1>4. CASE LookupFinds
    <2>1. CASE Move("confirm")
      <3>1. pc' = "confirm" /\ Steps'
        BY <1>4, <2>1 DEF LookupFinds, Move, Goto, Known, Steps, Placing, Proving
      <3> QED BY <1>4, <1>t, <2>1, <3>1, Moving DEF LookupFinds, Move
    <2>2. CASE StopPending(mem) \/ Latch(mem)
      BY <1>4, <1>t, <2>2, StoppingAsIs DEF LookupFinds
    <2> QED BY <1>4, <2>1, <2>2 DEF LookupFinds
  <1>5. CASE PersistSubmitting
    <2>1. Shape(eng)'
      BY <1>5 DEF Slot, Transition, PersistSubmitting, PersistPhase, SaveSlot, InPhase, Shape, Late, Unsent
    <2>2. Shape(mem)'
      BY <1>5 DEF Slot, Transition, PersistSubmitting, PersistPhase, SaveSlot, InPhase, Shape, Late, Steps, Placing
    <2>3. Synced'
      BY <1>5 DEF PersistSubmitting, PersistPhase, SaveSlot, Synced
    <2>4. Steps'
      BY <1>5 DEF Slot, Transition, PersistSubmitting, PersistPhase, SaveSlot, InPhase, Goto, Steps, Proving, Shape, Unsent
    <2>5. Unsent'
      BY <1>5 DEF Slot, Transition, PersistSubmitting, PersistPhase, SaveSlot, InPhase, Goto, Unsent
    <2>6. AtMostOnePlacement'
      BY <1>5 DEF PersistSubmitting, PersistPhase, AtMostOnePlacement
    <2>7. NoOrphanStop'
      BY <1>5 DEF Slot, Transition, PersistSubmitting, PersistPhase, SaveSlot, InPhase, NoOrphanStop, Synced, Unsent
    <2> QED BY <1>t, <2>1, <2>2, <2>3, <2>4, <2>5, <2>6, <2>7
  <1>6. CASE PersistAmbiguous
    <2>1. Shape(eng)'
      BY <1>6 DEF Slot, Transition, PersistAmbiguous, PersistPhase, SaveSlot, InPhase, Shape, Late, Steps, Placing
    <2>2. Shape(mem)'
      BY <1>6 DEF Slot, Transition, PersistAmbiguous, PersistPhase, SaveSlot, InPhase, Shape, Late, Steps, Placing
    <2>3. Synced'
      BY <1>6 DEF PersistAmbiguous, PersistPhase, SaveSlot, Synced
    <2>4. Steps'
      BY <1>6 DEF Slot, Transition, PersistAmbiguous, PersistPhase, SaveSlot, InPhase, Goto, Steps, Placing, Proving
    <2>5. Unsent'
      BY <1>6 DEF Slot, Transition, PersistAmbiguous, PersistPhase, SaveSlot, InPhase, Goto, Unsent
    <2>6. AtMostOnePlacement'
      BY <1>6 DEF PersistAmbiguous, PersistPhase, AtMostOnePlacement
    <2>7. NoOrphanStop'
      BY <1>6 DEF Slot, Transition, PersistAmbiguous, PersistPhase, SaveSlot, InPhase, NoOrphanStop, Shape, Synced
    <2> QED BY <1>t, <2>1, <2>2, <2>3, <2>4, <2>5, <2>6, <2>7
  <1>7. CASE PersistPromotion
    <2>1. Shape(eng)'
      BY <1>7 DEF Slot, Transition, PersistPromotion, PersistPhase, SaveSlot, InPhase, Shape, Known, Steps, Proving
    <2>2. Shape(mem)'
      BY <1>7 DEF Slot, Transition, PersistPromotion, PersistPhase, SaveSlot, InPhase, Shape, Known, Steps, Proving
    <2>3. Synced'
      BY <1>7 DEF PersistPromotion, PersistPhase, SaveSlot, Synced
    <2>4. Steps'
      BY <1>7 DEF Slot, Transition, PersistPromotion, PersistPhase, SaveSlot, InPhase, Goto, Steps, Placing, Proving, Known
    <2>5. Unsent'
      BY <1>7 DEF Slot, Transition, PersistPromotion, PersistPhase, SaveSlot, InPhase, Goto, Unsent
    <2>6. AtMostOnePlacement'
      BY <1>7 DEF PersistPromotion, PersistPhase, AtMostOnePlacement
    <2>7. NoOrphanStop'
      BY <1>7 DEF Slot, Transition, PersistPromotion, PersistPhase, SaveSlot, InPhase, NoOrphanStop, Shape, Synced
    <2> QED BY <1>t, <2>1, <2>2, <2>3, <2>4, <2>5, <2>6, <2>7
  <1>8. CASE PlaceStop
    <2> DEFINE s == mem.trans.new
    <2>0. /\ pc = "send" /\ mem.trans = eng.trans /\ mem.trans.phase = "SUBMITTING"
          /\ mem.trans.kind = "REPLACE" /\ sends[s] = 0 /\ s \in Stop /\ row[s] # "NONE"
      BY <1>8 DEF PlaceStop, Unsent, Steps, Placing, Shape, Stop
    <2>1. /\ sends' = [sends EXCEPT ![s] = 1] /\ UNCHANGED <<row, qty, filled>>
          /\ eng'.pos = eng.pos /\ eng'.active = eng.active /\ eng'.trans = eng.trans
      BY <1>8, <2>0 DEF PlaceStop, Die, Synced
    <2>a. PICK v \in {"none", "flight", "open"} :
             /\ venue' = [venue EXCEPT ![s] = v]
             /\ \/ pc' = "confirm" /\ v = "open" /\ mem' = mem
                \/ pc' = "down" /\ mem' = FreshSlot
                \/ pc' = "raised" /\ mem' = mem
      BY <1>8 DEF PlaceStop, SetVenue, Goto, Die
    <2>2. venue' = [venue EXCEPT ![s] = v]
      BY <2>a
    <2>3. \/ pc' = "confirm" /\ v = "open" /\ mem' = mem
          \/ pc' = "down" /\ mem' = FreshSlot
          \/ pc' = "raised" /\ mem' = mem
      BY <2>a
    <2>4. Shape(eng)' /\ Shape(mem)'
      BY <2>0, <2>1, <2>2, <2>3 DEF Shape, Late, FreshSlot
    <2>5. Synced' /\ Steps'
      BY <2>0, <2>1, <2>2, <2>3 DEF Synced, Steps, Placing, Proving, Known
    <2>6. Unsent' /\ AtMostOnePlacement'
      BY <2>0, <2>1, <2>2, <2>3 DEF Unsent, AtMostOnePlacement, FreshSlot
    <2>7. NoOrphanStop'
      BY <2>0, <2>1, <2>2 DEF NoOrphanStop
    <2> QED BY <1>t, <2>4, <2>5, <2>6, <2>7
  <1>9. CASE Confirm
    <2>1. Shape(eng)'
      BY <1>9 DEF Slot, Transition, Stop, Confirm, CompleteOrder, SaveSlot, InPhase, Shape, Known, Steps, Placing
    <2>2. Shape(mem)'
      BY <1>9 DEF Slot, Transition, Stop, Confirm, CompleteOrder, SaveSlot, InPhase, Shape, Known, Steps, Placing
    <2>3. Synced'
      BY <1>9 DEF Confirm, CompleteOrder, SaveSlot, Synced
    <2>4. Steps'
      BY <1>9 DEF Slot, Transition, Stop, Confirm, CompleteOrder, SaveSlot, InPhase, Goto, Steps, Placing, Known, Shape
    <2>5. Unsent'
      BY <1>9 DEF Slot, Transition, Confirm, CompleteOrder, SaveSlot, InPhase, Goto, Unsent
    <2>6. AtMostOnePlacement'
      BY <1>9 DEF Confirm, CompleteOrder, AtMostOnePlacement
    <2>7. NoOrphanStop'
      BY <1>9 DEF Slot, Transition, Confirm, CompleteOrder, SaveSlot, InPhase, NoOrphanStop, Shape, Synced
    <2> QED BY <1>t, <2>1, <2>2, <2>3, <2>4, <2>5, <2>6, <2>7
  <1>10. CASE CancelAccepted
    <2>1. Shape(eng)'
      BY <1>10 DEF CancelAccepted, SetVenue, Shape, Known
    <2>2. Shape(mem)'
      BY <1>10 DEF CancelAccepted, SetVenue, Shape, Known
    <2>3. Synced'
      BY <1>10 DEF CancelAccepted, Synced
    <2>4. Steps'
      BY <1>10 DEF CancelAccepted, SetVenue, Goto, Steps, Placing, Proving, Known
    <2>5. Unsent'
      BY <1>10 DEF CancelAccepted, SetVenue, Goto, Unsent
    <2>6. AtMostOnePlacement'
      BY <1>10 DEF CancelAccepted, AtMostOnePlacement
    <2>7. NoOrphanStop'
      BY <1>10 DEF CancelAccepted, SetVenue, NoOrphanStop
    <2> QED BY <1>t, <2>1, <2>2, <2>3, <2>4, <2>5, <2>6, <2>7
  <1>11. CASE CancelRefused
    <2>1. pc' = "verify" /\ Steps'
      BY <1>11 DEF CancelRefused, Move, Goto, Steps, Placing, Proving, Known
    <2> QED BY <1>11, <1>t, <2>1, Moving DEF CancelRefused, Move
  <1>12. CASE VerifyTerminal
    <2>1. Shape(eng)'
      BY <1>12 DEF VerifyTerminal, Shape, Known
    <2>2. Shape(mem)'
      BY <1>12 DEF Slot, Transition, VerifyTerminal, InPhase, Shape, Known, Steps, Proving
    <2>3. Synced'
      BY <1>12 DEF Slot, Transition, VerifyTerminal, InPhase, Synced
    <2>4. Steps'
      BY <1>12 DEF Slot, Transition, VerifyTerminal, InPhase, Goto, Steps, Placing, Proving, Known
    <2>5. Unsent'
      BY <1>12 DEF Slot, Transition, VerifyTerminal, InPhase, Goto, Unsent
    <2>6. AtMostOnePlacement'
      BY <1>12 DEF VerifyTerminal, AtMostOnePlacement
    <2>7. NoOrphanStop'
      BY <1>12 DEF VerifyTerminal, NoOrphanStop
    <2> QED BY <1>t, <2>1, <2>2, <2>3, <2>4, <2>5, <2>6, <2>7
  <1>13. CASE VerifyExecuted
    BY <1>13, <1>t, StoppingInPhase DEF VerifyExecuted, Proving, Late
  <1>14. CASE VerifyUnproven
    BY <1>14, <1>t, StoppingInPhase DEF VerifyUnproven, Proving, Late
  <1>15. CASE Retire
    <2>1. Shape(eng)'
      BY <1>15 DEF Stop, Retire, Shape, Known, Synced
    <2>2. Shape(mem)'
      BY <1>15 DEF Stop, Retire, Shape, Known
    <2>3. Synced'
      BY <1>15 DEF Retire, Synced
    <2>4. Steps'
      BY <1>15 DEF Stop, Retire, Goto, Steps, Placing, Proving, Known, Shape
    <2>5. Unsent'
      BY <1>15 DEF Retire, Goto, Unsent
    <2>6. AtMostOnePlacement'
      BY <1>15 DEF Retire, AtMostOnePlacement
    <2>7. NoOrphanStop'
      BY <1>15 DEF Retire, NoOrphanStop
    <2> QED BY <1>t, <2>1, <2>2, <2>3, <2>4, <2>5, <2>6, <2>7
  <1>16. CASE Finish
    <2>1. Shape(eng)'
      BY <1>16 DEF Slot, Transition, Finish, SaveSlot, Shape
    <2>2. Shape(mem)'
      BY <1>16 DEF Slot, Transition, Finish, SaveSlot, Shape
    <2>3. Synced'
      BY <1>16 DEF Finish, SaveSlot, Synced
    <2>4. Steps'
      <3>1. /\ pc' = ret /\ mem'.trans = NoTransition /\ mem'.pos = mem.pos
            /\ mem'.active = mem.trans.new /\ UNCHANGED <<venue, qty, row>>
        BY <1>16 DEF Finish, SaveSlot, Slot
      <3>2. mem.pos > 0 => mem.trans.new # 0 /\ Known(mem.trans.new) /\ qty[mem.trans.new] = mem.pos
        BY <1>16 DEF Finish, Steps, Proving, Shape, Slot, Transition
      <3> QED BY <1>r, <3>1, <3>2 DEF Steps, Placing, Proving, CyclePhase, Known
    <2>5. Unsent'
      <3>1. eng'.trans = NoTransition /\ mem'.trans = NoTransition
        BY <1>16 DEF Finish, SaveSlot, Slot
      <3>2. pc' \notin {"submit", "send"} /\ UNCHANGED <<row, sends, venue>>
        BY <1>16, <1>r DEF Finish, CyclePhase
      <3> QED BY <3>1, <3>2 DEF Unsent
    <2>6. AtMostOnePlacement'
      BY <1>16 DEF Finish, AtMostOnePlacement
    <2>7. NoOrphanStop'
      BY <1>16 DEF Finish, SaveSlot, NoOrphanStop, Shape, Synced, Steps, Proving
    <2> QED BY <1>t, <2>1, <2>2, <2>3, <2>4, <2>5, <2>6, <2>7
  <1>17. CASE Settle
    <2>1. pc' \in CyclePhase \cup {"protect"} /\ (mem.pos > 0 => pc' = "protect")
      BY <1>17, <1>r DEF Settle, Move, Goto
    <2>2. mem.trans = NoTransition /\ UNCHANGED <<mem, durable, exchange>>
      BY <1>17 DEF Settle, Move, Steps
    <2>3. Steps'
      BY <2>1, <2>2 DEF Steps, Placing, Proving, CyclePhase
    <2> QED BY <1>17, <1>t, <2>1, <2>2, <2>3, Moving DEF Settle, CyclePhase
  <1>18. CASE Boot
    <2>1. Shape(eng)'
      BY <1>18 DEF Boot, Shape, Known
    <2>2. Shape(mem)'
      BY <1>18 DEF Boot, Shape, Known
    <2>3. Synced'
      BY <1>18 DEF Boot, Synced
    <2>4. Steps'
      BY <1>18 DEF Boot, Steps, Placing, Proving
    <2>5. Unsent'
      BY <1>18 DEF Boot, Unsent
    <2>6. AtMostOnePlacement'
      BY <1>18 DEF Boot, AtMostOnePlacement
    <2>7. NoOrphanStop'
      BY <1>18 DEF Boot, NoOrphanStop
    <2> QED BY <1>t, <2>1, <2>2, <2>3, <2>4, <2>5, <2>6, <2>7
  <1>19. CASE Observe
    <2>1. CASE Move("reconcile")
      <3>1. pc' = "reconcile" /\ Steps'
        BY <1>19, <2>1 DEF Move, Goto, Steps, Placing, Proving
      <3> QED BY <1>19, <1>t, <2>1, <3>1, Moving DEF Observe, Move
    <2>2. CASE /\ mem.trans = NoTransition
               /\ Materialize
               /\ (Decides("FILLED") \/ Decides("PARTIAL_FILLED"))
      BY <1>19, <1>t, <2>2, Materializing DEF Observe
    <2>3. CASE Latch(mem)
      BY <1>19, <1>t, <2>3, StoppingAsIs DEF Observe
    <2> QED BY <1>19, <2>1, <2>2, <2>3 DEF Observe
  <1>20. CASE Reconcile
    <2>0. pc \in {"reconcile", "check"}
      BY <1>20 DEF Reconcile
    <2>1. CASE Move(Following[pc]) \/ (pc = "check" /\ Move("trade"))
      <3>1. pc' = IF pc = "check" THEN "trade" ELSE "recover"
        BY <2>0, <2>1, FollowingPhase DEF Move, Goto
      <3>2. UNCHANGED <<mem, durable, exchange>>
        BY <2>1 DEF Move
      <3>3. Steps'
        BY <2>0, <3>1, <3>2 DEF Steps, Placing, Proving, Known
      <3> QED BY <1>t, <2>0, <3>1, <3>2, <3>3, Moving
    <2>2. CASE Latch(mem)
      BY <1>t, <2>0, <2>2, StoppingAsIs
    <2> QED BY <1>20, <2>1, <2>2 DEF Reconcile
  <1>21. CASE Recover
    <2>1. CASE Call(ResumeAt(mem.trans), "firstMonitor") /\ mem.trans # NoTransition
      <3>1. mem.trans.kind # "NONE"
        BY <2>1 DEF Shape
      <3>2. UNCHANGED <<mem, durable, exchange>>
        BY <2>1 DEF Call
      <3>3. pc' \in {"place", "cancel", "promote"}
        BY <2>1 DEF Call, ResumeAt
      <3>4. pc' = "place" => mem.trans.kind = "REPLACE"
        BY <2>1, <3>1 DEF Call, ResumeAt, Slot, Transition
      <3>5. pc' = "cancel" => mem.trans.prev # 0 /\ (mem.trans.kind = "REPLACE" =>
                                  Known(mem.trans.new) /\ row[mem.trans.new] = "OPEN")
        BY <2>1, <3>1 DEF Call, ResumeAt, Shape, Late
      <3>6. pc' = "promote" => /\ mem.trans.prev = 0 /\ mem.trans.kind = "REPLACE"
                               /\ Known(mem.trans.new) /\ row[mem.trans.new] = "OPEN"
        BY <2>1, <3>1 DEF Call, ResumeAt, Shape, Late, Slot, Transition
      <3>7. Steps'
        BY <3>1, <3>2, <3>3, <3>4, <3>5, <3>6 DEF Steps, Placing, Proving, Known
      <3> QED BY <1>21, <1>t, <3>2, <3>3, <3>7, Moving DEF Recover
    <2>2. CASE Call("protect", "firstMonitor") /\ mem.trans = NoTransition
      <3>1. pc' = "protect" /\ Steps'
        BY <2>2 DEF Call, Steps, Placing, Proving
      <3> QED BY <1>21, <1>t, <2>2, <3>1, Moving DEF Recover, Call
    <2>3. CASE Move("firstMonitor")
      <3>1. pc' = "firstMonitor" /\ Steps'
        BY <2>3 DEF Move, Goto, Steps, Placing, Proving
      <3> QED BY <1>21, <1>t, <2>3, <3>1, Moving DEF Recover, Move
    <2> QED BY <1>21, <2>1, <2>2, <2>3 DEF Recover
  <1>22. CASE Monitor
    <2>0. pc \in {"firstMonitor", "monitor", "lastMonitor"}
      BY <1>22 DEF Monitor
    <2>1. CASE mem.trans # NoTransition /\ Call(ResumeAt(mem.trans), Following[pc])
      <3>1. mem.trans.kind # "NONE"
        BY <2>1 DEF Shape
      <3>2. UNCHANGED <<mem, durable, exchange>>
        BY <2>1 DEF Call
      <3>3. pc' \in {"place", "cancel", "promote"}
        BY <2>1 DEF Call, ResumeAt
      <3>4. pc' = "place" => mem.trans.kind = "REPLACE"
        BY <2>1, <3>1 DEF Call, ResumeAt, Slot, Transition
      <3>5. pc' = "cancel" => mem.trans.prev # 0 /\ (mem.trans.kind = "REPLACE" =>
                                  Known(mem.trans.new) /\ row[mem.trans.new] = "OPEN")
        BY <2>1, <3>1 DEF Call, ResumeAt, Shape, Late
      <3>6. pc' = "promote" => /\ mem.trans.prev = 0 /\ mem.trans.kind = "REPLACE"
                               /\ Known(mem.trans.new) /\ row[mem.trans.new] = "OPEN"
        BY <2>1, <3>1 DEF Call, ResumeAt, Shape, Late, Slot, Transition
      <3>7. Steps'
        BY <3>1, <3>2, <3>3, <3>4, <3>5, <3>6 DEF Steps, Placing, Proving, Known
      <3> QED BY <1>22, <1>t, <3>2, <3>3, <3>7, Moving DEF Monitor
    <2>2. CASE mem.trans = NoTransition /\ Decides("NOOP") /\ Move(Following[pc])
      <3>1. pc' \in {"monitor", "check", "save"}
        BY <2>0, <2>2, FollowingPhase DEF Move, Goto
      <3>2. UNCHANGED <<mem, durable, exchange>>
        BY <2>2 DEF Move
      <3>3. mem.pos > 0 => mem.active # 0 /\ Known(mem.active) /\ qty[mem.active] = mem.pos
        BY <2>2 DEF Decides, Known
      <3>4. Steps'
        BY <2>2, <3>1, <3>2, <3>3 DEF Steps, Placing, Proving, Known
      <3> QED BY <1>t, <2>0, <3>1, <3>2, <3>4, Moving
    <2>3. CASE mem.trans = NoTransition /\ Call("protect", Following[pc])
      <3>1. pc' = "protect" /\ UNCHANGED <<mem, durable, exchange>>
        BY <2>3 DEF Call
      <3>2. Steps'
        BY <2>3, <3>1 DEF Steps, Placing, Proving
      <3> QED BY <1>t, <2>0, <3>1, <3>2, Moving
    <2>4. CASE /\ mem.trans = NoTransition
               /\ Materialize
               /\ (Decides("FILLED") \/ Decides("PARTIAL_FILLED"))
      BY <1>t, <2>0, <2>4, Materializing
    <2>5. CASE Latch(mem)
      BY <1>t, <2>0, <2>5, StoppingAsIs
    <2> QED BY <1>22, <2>1, <2>2, <2>3, <2>4, <2>5 DEF Monitor
  <1>23. CASE NoDecision
    <2>1. pc' = "lastMonitor" /\ Steps'
      BY <1>23 DEF NoDecision, Move, Goto, Steps, Placing, Proving
    <2> QED BY <1>23, <1>t, <2>1, Moving DEF NoDecision, Move
  <1>24. CASE Enter
    <2>1. Shape(eng)'
      BY <1>24 DEF Enter, SaveSlot, Shape, Steps
    <2>2. Shape(mem)'
      BY <1>24 DEF Enter, SaveSlot, Shape, Steps
    <2>3. Synced'
      BY <1>24 DEF Enter, SaveSlot, Synced
    <2>4. Steps'
      BY <1>24 DEF Enter, SaveSlot, Steps, Placing, Proving
    <2>5. Unsent'
      BY <1>24 DEF Enter, SaveSlot, Unsent
    <2>6. AtMostOnePlacement'
      BY <1>24 DEF Enter, AtMostOnePlacement
    <2>7. NoOrphanStop'
      BY <1>24 DEF Enter, SaveSlot, NoOrphanStop, Shape, Synced
    <2> QED BY <1>t, <2>1, <2>2, <2>3, <2>4, <2>5, <2>6, <2>7
  <1>25. CASE Trail
    <2>1. pc' = "protect" /\ Steps'
      BY <1>25 DEF Trail, Call, Steps, Placing, Proving
    <2> QED BY <1>25, <1>t, <2>1, Moving DEF Trail, Call
  <1>26. CASE Exit
    <2>0. pc \in {"trade", "trailed"} /\ mem.trans = NoTransition /\ mem.pos > 0
      BY <1>26 DEF Exit, Steps
    <2>1. PICK k \in 0 .. Lot :
             /\ eng' = [mem EXCEPT !.pos = mem.pos - k]
             /\ IF mem.pos - k = 0
                THEN /\ mem' = IF mem.active = 0 THEN [mem EXCEPT !.pos = mem.pos - k]
                               ELSE [mem EXCEPT !.pos = mem.pos - k,
                                                !.trans = [NoTransition EXCEPT !.kind = "CANCEL",
                                                  !.phase = "CANCELING", !.prev = mem.active]]
                     /\ pc' = "lastMonitor"
                ELSE mem' = [mem EXCEPT !.pos = mem.pos - k] /\ pc' = "protect"
      BY <1>26 DEF Exit, Slot
    <2>2. /\ eng'.pos = mem'.pos /\ eng'.active = mem.active /\ mem'.active = mem.active
          /\ eng'.trans = NoTransition /\ UNCHANGED <<row, qty, venue, sends>>
      BY <1>26, <2>0, <2>1 DEF Exit, Slot
    <2>3. \/ mem'.trans = NoTransition /\ pc' \in {"lastMonitor", "protect"}
          \/ /\ mem'.trans.kind = "CANCEL" /\ mem'.trans.phase = "CANCELING"
             /\ mem'.trans.new = 0 /\ mem'.trans.prev = mem.active
             /\ mem'.pos = 0 /\ mem.active # 0 /\ pc' = "lastMonitor"
      <3>1. CASE mem.pos - k = 0 /\ mem.active # 0
        <4> DEFINE canceling == [NoTransition EXCEPT !.kind = "CANCEL",
                                   !.phase = "CANCELING", !.prev = mem.active]
        <4>1. mem' = [mem EXCEPT !.pos = mem.pos - k, !.trans = canceling]
              /\ pc' = "lastMonitor"
          BY <2>1, <3>1
        <4>2. /\ canceling.kind = "CANCEL" /\ canceling.phase = "CANCELING"
              /\ canceling.new = 0 /\ canceling.prev = mem.active
          OBVIOUS
        <4> HIDE DEF canceling
        <4>3. mem'.pos = mem.pos - k /\ mem'.trans = canceling
          BY <4>1 DEF Slot
        <4> QED BY <3>1, <4>1, <4>2, <4>3
      <3>2. CASE mem.pos - k # 0 \/ mem.active = 0
        <4>1. mem' = [mem EXCEPT !.pos = mem.pos - k] /\ pc' \in {"lastMonitor", "protect"}
          BY <2>1, <3>2
        <4> QED BY <2>0, <4>1 DEF Slot
      <3> QED BY <3>1, <3>2
    <2>4. Shape(eng)' /\ Shape(mem)'
      BY <2>2, <2>3 DEF Shape
    <2>5. Synced' /\ Steps'
      BY <2>2, <2>3 DEF Synced, Steps, Placing, Proving
    <2>6. Unsent' /\ AtMostOnePlacement'
      BY <2>2, <2>3 DEF Unsent, AtMostOnePlacement
    <2>7. NoOrphanStop'
      <3>1. eng.trans = NoTransition /\ eng.active = mem.active
        BY <2>0 DEF Synced, Shape
      <3> QED BY <2>2, <3>1 DEF NoOrphanStop
    <2> QED BY <1>t, <2>4, <2>5, <2>6, <2>7
  <1>27. CASE SaveCycle
    <2>1. Shape(eng)'
      BY <1>27 DEF SaveCycle, SaveSlot, Shape, Known
    <2>2. Shape(mem)'
      BY <1>27 DEF SaveCycle, SaveSlot, Shape, Known
    <2>3. Synced'
      BY <1>27 DEF SaveCycle, SaveSlot, Synced
    <2>4. Steps'
      BY <1>27 DEF SaveCycle, Goto, Steps, Placing, Proving
    <2>5. Unsent'
      BY <1>27 DEF SaveCycle, SaveSlot, Goto, Unsent
    <2>6. AtMostOnePlacement'
      BY <1>27 DEF SaveCycle, AtMostOnePlacement
    <2>7. NoOrphanStop'
      BY <1>27 DEF SaveCycle, SaveSlot, NoOrphanStop, Shape, Synced
    <2> QED BY <1>t, <2>1, <2>2, <2>3, <2>4, <2>5, <2>6, <2>7
  <1>28. CASE Venue
    <2>1. PICK s \in Stop : Arrives(s) \/ Triggers(s) \/ CanceledByVenue(s)
      BY <1>28 DEF Venue
    <2>2. PICK v \in VenueState : venue' = [venue EXCEPT ![s] = v]
      BY <2>1 DEF Arrives, Triggers, CanceledByVenue, SetVenue, VenueState
    <2>3. /\ venue[s] \in {"flight", "open"} /\ (venue[s] = "open" => v \notin {"none", "flight"})
          /\ UNCHANGED <<durable, process, sends>>
      BY <2>1, <2>2 DEF Arrives, Triggers, CanceledByVenue, SetVenue
    <2>4. \A t \in Stop : (Known(t) => Known(t)') /\ (venue'[t] \in {"flight", "open"} =>
                                                       venue[t] \in {"flight", "open"})
      <3> TAKE t \in Stop
      <3>1. CASE t = s
        BY <2>2, <2>3, <3>1 DEF Known, VenueState
      <3>2. CASE t # s
        BY <2>2, <3>2 DEF Known
      <3> QED BY <3>1, <3>2
    <2>6. Shape(eng)' /\ Shape(mem)'
      <3>1. eng.trans.new \in 0 .. MaxStop
        BY SlotFields
      <3> QED BY <2>3, <2>4, <3>1 DEF Shape, Stop
    <2>7. Synced' /\ AtMostOnePlacement'
      BY <2>3 DEF Synced, AtMostOnePlacement
    <2>8. Steps'
      <3>1. UNCHANGED <<mem, eng, row, qty, pc>>
        BY <2>3
      <3>2. \A t \in 0 .. MaxStop : t # 0 =>
              (Known(t) => Known(t)') /\ (venue[t] \notin {"flight", "open"} =>
                                              venue'[t] \notin {"flight", "open"})
        BY <2>4 DEF Stop
      <3>3. mem.trans.kind = "REPLACE" => mem.trans.new # 0
        BY DEF Shape
      <3>4. mem.trans.prev \in 0 .. MaxStop
        BY SlotFields
      <3> HIDE DEF StopInv
      <3> QED BY <3>1, <3>2, <3>3, <3>4 DEF StopInv, Steps, Placing
    <2>9. Unsent'
      BY <2>2, <2>3 DEF Unsent
    <2>10. NoOrphanStop'
      BY <2>3, <2>4 DEF NoOrphanStop
    <2> QED BY <1>t, <2>6, <2>7, <2>8, <2>9, <2>10
  <1>29. CASE Crash
    <2>1. Shape(eng)'
      BY <1>29 DEF Crash, Shape, Known
    <2>2. Shape(mem)'
      BY <1>29 DEF Crash, Die, FreshSlot, Shape
    <2>3. Synced'
      BY <1>29 DEF Crash, Die, Synced
    <2>4. Steps'
      BY <1>29 DEF Crash, Die, Steps, Placing, Proving
    <2>5. Unsent'
      <3>1. mem'.trans = NoTransition /\ pc' = "down" /\ UNCHANGED <<eng, row, sends, venue>>
        BY <1>29 DEF Crash, Die, FreshSlot
      <3> QED BY <3>1 DEF Unsent
    <2>6. AtMostOnePlacement'
      BY <1>29 DEF Crash, AtMostOnePlacement
    <2>7. NoOrphanStop'
      BY <1>29 DEF Crash, NoOrphanStop
    <2> QED BY <1>t, <2>1, <2>2, <2>3, <2>4, <2>5, <2>6, <2>7
  <1>30. CASE UNCHANGED vars
    BY <1>30, <1>t DEF vars, Shape, Synced, Steps, Unsent, AtMostOnePlacement, NoOrphanStop, Known
  <1>31. CASE StartRefused \/ OperatorResets
    <2>1. UNCHANGED <<process, durable, exchange>>
      BY <1>31 DEF StartRefused, OperatorResets
    <2> QED BY <1>t, <2>1 DEF Shape, Synced, Steps, Unsent, AtMostOnePlacement, NoOrphanStop, Known
  <1> QED BY <1>1, <1>2, <1>3, <1>4, <1>5, <1>6, <1>7, <1>8, <1>9, <1>10, <1>11, <1>12, <1>13, <1>14, <1>15, <1>16, <1>17, <1>18, <1>19, <1>20, <1>21, <1>22, <1>23, <1>24, <1>25, <1>26, <1>27, <1>28, <1>29, <1>30, <1>31 DEF Next, Saga, Cycle

(* The invariant holds at every state of the saga, for any number of stops, *)
(* any position and any number of crashes.                                  *)
THEOREM StopInvariant == Spec => []StopInv
  <1>1. Init => StopInv
    BY InitStopInv
  <1>2. StopInv /\ [Next]_vars => StopInv'
    BY StepStopInv
  <1> QED BY <1>1, <1>2, PTL DEF Spec

(* Checkpoint, journal, venue and process keep their domains.               *)
THEOREM StopTypeCorrect == Spec => []TypeOK
  <1>1. StopInv => TypeOK
    BY DEF StopInv
  <1> QED BY <1>1, StopInvariant, PTL

(* A stop intent is sent to the venue at most once, whatever crashes and    *)
(* lost answers fall between the journal, the call and the checkpoint.      *)
THEOREM PlacedOnce == Spec => []AtMostOnePlacement
  <1>1. StopInv => AtMostOnePlacement
    BY DEF StopInv
  <1> QED BY <1>1, StopInvariant, PTL

(* A stop alive at the venue is always named by the durable checkpoint.     *)
THEOREM NoStopForgotten == Spec => []NoOrphanStop
  <1>1. StopInv => NoOrphanStop
    BY DEF StopInv
  <1> QED BY <1>1, StopInvariant, PTL

(* The engine decides trades only under an accepted stop of the position's  *)
(* own quantity.                                                            *)
THEOREM NeverNaked == Spec => []NeverTradesNaked
  <1>1. StopInv => NeverTradesNaked
    BY DEF StopInv, Steps, NeverTradesNaked
  <1> QED BY <1>1, StopInvariant, PTL

(* The step that withdraws the old stop of a held position is taken only    *)
(* once the venue accepted its replacement and the journal says so.         *)
THEOREM OldStopKept == Spec => WithdrawnOnlyWhenReplaced
  <1> DEFINE Withdrawal ==
        \A s \in Stop :
          (pc = "cancel" /\ venue[s] = "open" /\ venue'[s] = "canceled" /\ pc' = "verify")
          => \/ eng.pos = 0
             \/ Known(eng.trans.new) /\ row[eng.trans.new] = "OPEN"
  <1>1. StopInv => [Withdrawal]_vars
    <2> SUFFICES ASSUME StopInv, pc = "cancel", eng.pos # 0
                 PROVE  Known(eng.trans.new) /\ row[eng.trans.new] = "OPEN"
      OBVIOUS
    <2>1. mem.trans.kind # "NONE" /\ mem.pos # 0
      BY DEF StopInv, Steps, Proving, Synced
    <2>2. mem.trans.kind = "REPLACE"
      BY <2>1, SlotFields DEF StopInv, TypeOK, Shape, Transition
    <2>3. mem.trans.new = eng.trans.new
      BY <2>2 DEF StopInv, Synced
    <2> QED BY <2>2, <2>3 DEF StopInv, Steps, Proving
  <1> QED BY <1>1, StopInvariant, PTL DEF WithdrawnOnlyWhenReplaced
====
