---- MODULE ExternalOrderProofs ----
(***************************************************************************)
(* Proofs about ExternalOrder for every set of processes and every bound on *)
(* crashes and store faults: the types first, then the safety of the order  *)
(* path from the inductive invariant TypeInv /\ SafetyInv, and the book: as *)
(* long as the loop swallowed no store fault, the durable position is the   *)
(* venue's, a latched engine is silent, and the protocol implements         *)
(* FinancialTransition (BookInv, SoleInv).                                  *)
(***************************************************************************)
EXTENDS ExternalOrderInv, FiniteSetTheorems, TLAPS

(* An order is only placed below the bound on sequence numbers. *)
RowsBelowBound == \A i \in Intent : order[i].local # "NONE" => i.seq < MaxSeq

TypeInv == TypeOK /\ RowsBelowBound

LEMMA FreshIsPayload == FreshPayload \in Payload /\ NoIntent \in Intent /\ NoReply \in Reply
  BY LotAssumption, BoundAssumption
     DEF FreshPayload, Payload, NoIntent, Intent, NoReply, Reply, Outcome, Quantity

LEMMA InitTypeInv == Init => TypeInv
  <1> SUFFICES ASSUME Init PROVE TypeInv
    OBVIOUS
  <1>1. TypeOK
    BY FreshIsPayload, LotAssumption, FaultAssumption
       DEF Init, TypeOK, OrderRow, Row, LocalOrderState, OrderStatus, VenueState, Quantity,
           ProcessState, Lookups
  <1>2. RowsBelowBound
    BY DEF Init, RowsBelowBound, Row
  <1> QED BY <1>1, <1>2 DEF TypeInv

LEMMA StartingTypeInv ==
  ASSUME TypeInv, NEW p \in Instance, Starting(p)
  PROVE  TypeInv'
  <1> USE FreshIsPayload DEF TypeInv, TypeOK, RowsBelowBound
  <1>1. CASE Boot(p)
    BY <1>1 DEF Boot, durable, exchange, bounds, Goto, ProcessState
  <1>2. CASE RecoverAbort(p)
    BY <1>2 DEF RecoverAbort, exchange, volatile, bounds, SetRow, Row, OrderRow, LocalOrderState, OrderStatus
  <1>3. CASE RecoverOrder(p)
    BY <1>3 DEF RecoverOrder, durable, exchange, bounds, Goto, ProcessState, OrderPhase
  <1>4. CASE FinishRecovery(p)
    BY <1>4 DEF FinishRecovery, durable, exchange, bounds, Goto, ProcessState
  <1>5. CASE RefuseStart(p)
    BY <1>5 DEF RefuseStart, durable, exchange, bounds, Die, ProcessState
  <1>6. CASE RunForever(p)
    BY <1>6 DEF RunForever, durable, exchange, bounds, Goto, ProcessState
  <1>7. CASE RunForeverRefused(p)
    BY <1>7 DEF RunForeverRefused, durable, exchange, bounds, Die, ProcessState
  <1> QED BY <1>1, <1>2, <1>3, <1>4, <1>5, <1>6, <1>7 DEF Starting

(* A reservation keeps the types whenever it is made from a well-typed      *)
(* memory image and below the bound.                                        *)
LEMMA PlaceOrderTypeInv ==
  ASSUME TypeInv, NEW p \in Instance, NEW i \in Intent, NEW m \in Payload,
         NEW phase \in {"bars", "save"}, i.seq < MaxSeq,
         PlaceOrder(p, i, m, phase)
  PROVE  TypeInv'
  <1> USE FreshIsPayload DEF TypeInv, TypeOK, RowsBelowBound
  <1>1. CASE ReserveNew(p, i, m) /\ back' = [back EXCEPT ![p] = phase]
    BY <1>1 DEF PlaceOrder, ReserveNew, exchange, bounds, Goto, SetRow, Row, ProcessState,
                OrderPhase, OrderRow, LocalOrderState, OrderStatus
  <1>2. CASE Reclaim(p, i, m) /\ back' = [back EXCEPT ![p] = phase]
    BY <1>2 DEF PlaceOrder, Reclaim, exchange, bounds, Goto, SetRow, Row, ProcessState,
                OrderPhase, OrderRow, LocalOrderState, OrderStatus
  <1>3. CASE RefuseReservation(p, i, m)
    BY <1>3 DEF PlaceOrder, RefuseReservation, exchange, bounds, Die, ProcessState
  <1> QED BY <1>1, <1>2, <1>3 DEF PlaceOrder

LEMMA IntentOfIsIntent ==
  ASSUME NEW kind \in {"ENTER", "EXIT"}, NEW c \in 0 .. MaxBar, NEW m \in Payload
  PROVE  IntentOf(kind, c, m) \in Intent /\ IntentOf(kind, c, m).seq = m.seq
  BY DEF IntentOf, Intent, Payload

(* The updates the cycle makes to a memory image keep it a checkpoint. *)
LEMMA PayloadUpdates ==
  ASSUME NEW m \in Payload
  PROVE  /\ \A b \in BOOLEAN : [m EXCEPT !.halted = b] \in Payload
         /\ \A b \in BOOLEAN : [m EXCEPT !.latch = b] \in Payload
         /\ \A b \in 0 .. MaxBar : [m EXCEPT !.bar = b] \in Payload
         /\ \A n \in 0 .. MaxSeq : [m EXCEPT !.seq = n] \in Payload
         /\ \A q \in Quantity : [m EXCEPT !.qty = q] \in Payload
         /\ \A t \in SUBSET Intent : [m EXCEPT !.timeline = t] \in Payload
  BY DEF Payload

LEMMA RiskStateTyped ==
  ASSUME TypeInv, NEW p \in Instance, NEW m \in RiskState(p)
  PROVE  m \in Payload /\ m.seq = mem[p].seq
  <1>1. mem[p] \in Payload /\ mem[p].halted \in BOOLEAN
    BY DEF TypeInv, TypeOK, Payload
  <1>2. PICK h \in {mem[p].halted, TRUE} : m = [mem[p] EXCEPT !.halted = h]
    BY DEF RiskState
  <1>3. h \in BOOLEAN
    BY <1>1, <1>2
  <1>4. m \in Payload
    BY <1>1, <1>2, <1>3, PayloadUpdates
  <1>5. m.seq = mem[p].seq
    BY <1>1, <1>2 DEF Payload
  <1> QED BY <1>4, <1>5

LEMMA NextBarTyped ==
  ASSUME TypeInv, NEW p \in Instance, mem[p].bar < MaxBar
  PROVE  /\ NextBar(p) \in Payload
         /\ mem[p].bar + 1 \in 0 .. MaxBar
         /\ NextBar(p).seq = mem[p].seq
  <1>1. mem[p] \in Payload /\ mem[p].bar \in 0 .. MaxBar
    BY DEF TypeInv, TypeOK, Payload
  <1>2. mem[p].bar + 1 \in 0 .. MaxBar
    BY <1>1, BoundAssumption
  <1>3. NextBar(p) \in Payload
    BY <1>1, <1>2, PayloadUpdates DEF NextBar
  <1>4. NextBar(p).seq = mem[p].seq
    BY <1>1 DEF NextBar, Payload
  <1> QED BY <1>2, <1>3, <1>4

LEMMA CyclingTypeInv ==
  ASSUME TypeInv, NEW p \in Instance, Cycling(p)
  PROVE  TypeInv'
  <1> USE FreshIsPayload DEF TypeInv, TypeOK, RowsBelowBound
  <1>1. CASE PositionAgrees(p) \/ PositionCheckNotDue(p) \/ CycleFails(p)
    BY <1>1 DEF PositionAgrees, PositionCheckNotDue, CycleFails, durable, exchange, bounds,
                Goto, ProcessState, CyclePhase
  <1>2. CASE RequireManualReconciliation(p)
    BY <1>2, PayloadUpdates DEF RequireManualReconciliation, exchange, bounds, Die, ProcessState
  <1>3. CASE RiskWithoutLiquidation(p)
    BY <1>3, RiskStateTyped DEF RiskWithoutLiquidation, durable, exchange, bounds, Goto,
                                ProcessState, CyclePhase
  <1>4. CASE LiquidateIfHalted(p)
    <2>1. PICK m \in RiskState(p) :
            m.seq < MaxSeq /\ PlaceOrder(p, IntentOf("EXIT", 0, m), m, "bars")
      BY <1>4 DEF LiquidateIfHalted
    <2>2. m \in Payload
      BY RiskStateTyped
    <2>3. 0 \in 0 .. MaxBar
      BY BoundAssumption
    <2>4. IntentOf("EXIT", 0, m) \in Intent /\ IntentOf("EXIT", 0, m).seq < MaxSeq
      BY <2>1, <2>2, <2>3, IntentOfIsIntent
    <2> QED BY <2>1, <2>2, <2>4, PlaceOrderTypeInv
  <1>6. CASE BarWithoutOrder(p)
    BY <1>6, NextBarTyped DEF BarWithoutOrder, durable, exchange, bounds, Goto, ProcessState,
                              CyclePhase
  <1>7. CASE BarEnters(p)
    <2> DEFINE i == IntentOf("ENTER", mem[p].bar + 1, mem[p])
    <2>1. i \in Intent /\ i.seq < MaxSeq
      BY <1>7, NextBarTyped, IntentOfIsIntent DEF BarEnters
    <2>2. PlaceOrder(p, i, NextBar(p), "save") /\ NextBar(p) \in Payload
      BY <1>7, NextBarTyped DEF BarEnters
    <2> QED BY <2>1, <2>2, PlaceOrderTypeInv
  <1>8. CASE BarExits(p)
    <2> DEFINE i == IntentOf("EXIT", mem[p].bar + 1, mem[p])
    <2>1. i \in Intent /\ i.seq < MaxSeq
      BY <1>8, NextBarTyped, IntentOfIsIntent DEF BarExits
    <2>2. PlaceOrder(p, i, NextBar(p), "save") /\ NextBar(p) \in Payload
      BY <1>8, NextBarTyped DEF BarExits
    <2> QED BY <2>1, <2>2, PlaceOrderTypeInv
  <1>9. CASE SaveCycle(p)
    BY <1>9 DEF SaveCycle, Checkpoint, exchange, bounds, Goto, ProcessState, CyclePhase, Payload
  <1> QED BY <1>1, <1>2, <1>3, <1>4, <1>6, <1>7, <1>8, <1>9 DEF Cycling

(* What a death leaves of the volatile state is typed. *)
LEMMA DieTyped ==
  ASSUME TypeInv, NEW p \in Instance, Die(p)
  PROVE  /\ pc' \in [Instance -> ProcessState] /\ mem' \in [Instance -> Payload]
         /\ cur' \in [Instance -> Intent] /\ reply' \in [Instance -> Reply]
         /\ back' \in [Instance -> {"check", "bars", "save", "recover"}]
         /\ manual' \in [Instance -> SUBSET Intent]
         /\ lock' \in Instance \cup {NoInstance}
  <1> USE FreshIsPayload DEF TypeInv, TypeOK, Die
  <1>1. pc' \in [Instance -> ProcessState]
    BY DEF ProcessState
  <1>2. mem' \in [Instance -> Payload] /\ cur' \in [Instance -> Intent]
    OBVIOUS
  <1>3. reply' \in [Instance -> Reply] /\ manual' \in [Instance -> SUBSET Intent]
    OBVIOUS
  <1>4. back' \in [Instance -> {"check", "bars", "save", "recover"}]
    OBVIOUS
  <1>5. lock' \in Instance \cup {NoInstance}
    OBVIOUS
  <1> QED BY <1>1, <1>2, <1>3, <1>4, <1>5

(* A row written for an intent below the bound keeps the rows typed. *)
LEMMA SetRowTyped ==
  ASSUME TypeInv, NEW i \in Intent, NEW l \in LocalOrderState, NEW t \in OrderStatus, SetRow(i, l, t),
         order[i].local # "NONE"
  PROVE  order' \in [Intent -> OrderRow] /\ RowsBelowBound'
  <1>1. Row(l, t) \in OrderRow
    BY DEF Row, OrderRow
  <1>2. order' = [order EXCEPT ![i] = Row(l, t)]
    BY DEF SetRow
  <1> QED BY <1>1, <1>2 DEF TypeInv, TypeOK, RowsBelowBound

LEMMA SubmittingTypeInv ==
  ASSUME TypeInv, NEW p \in Instance, Submitting(p)
  PROVE  TypeInv'
  <1> USE FreshIsPayload DEF TypeInv, TypeOK, RowsBelowBound
  <1>1. CASE MarkSubmitting(p)
    BY <1>1 DEF MarkSubmitting, exchange, bounds, Goto, SetRow, Row, ProcessState, OrderPhase,
                OrderRow, LocalOrderState, OrderStatus
  <1>2. CASE Send(p)
    BY <1>2 DEF Send, durable, bounds, Goto, ProcessState, OrderPhase, VenueState
  <1>3. CASE Receive(p)
    <2>1. \A r \in Reports(cur[p]) : r \in Reply
      BY LotAssumption DEF Reports, Reply, Outcome, Quantity
    <2> QED BY <1>3, <2>1 DEF Receive, durable, exchange, bounds, Goto, ProcessState, OrderPhase
  <1>4. CASE RecordResponse(p)
    <2>1. [outcome |-> reply[p].outcome, qty |-> reply[p].qty] \in Response
      BY DEF Reply, Response
    <2> QED BY <1>4, <2>1 DEF RecordResponse, exchange, bounds, Goto, ProcessState, OrderPhase
  <1>5. CASE RecordSubmissionError(p)
    BY <1>5 DEF RecordSubmissionError, exchange, bounds, Die, SetRow, Row, ProcessState,
                OrderRow, LocalOrderState, OrderStatus
  <1>6. CASE RecordTerminalObservation(p)
    BY <1>6 DEF RecordTerminalObservation, exchange, bounds, Goto, SetRow, Row, ProcessState,
                OrderPhase, OrderRow, LocalOrderState, OrderStatus
  <1>7. CASE RecordOpenObservation(p)
    <2>1. engine' \in Payload
      <3>1. engine' = engine \/ engine' = [mem[p] EXCEPT !.latch = mem[p].latch \/ engine.latch]
        BY <1>7 DEF RecordOpenObservation, Checkpoint
      <3>2. mem[p] \in Payload /\ (mem[p].latch \/ engine.latch) \in BOOLEAN
        OBVIOUS
      <3> QED BY <3>1, <3>2, PayloadUpdates
    <2>2. order' \in [Intent -> OrderRow] /\ \A i \in Intent : order'[i].local # "NONE" => i.seq < MaxSeq
      <3>1. PICK r \in {Row("AWAITING_EXTERNAL", "OPEN"), Row("PENDING_RECONCILIATION", "PENDING")} :
              order' = [order EXCEPT ![cur[p]] = r]
        BY <1>7 DEF RecordOpenObservation, SetRow
      <3>2. r \in OrderRow
        BY DEF Row, OrderRow, LocalOrderState, OrderStatus
      <3>3. cur[p] \in Intent /\ cur[p].seq < MaxSeq
        BY <1>7 DEF RecordOpenObservation
      <3> QED BY <3>1, <3>2, <3>3
    <2>3. /\ pc' \in [Instance -> ProcessState] /\ mem' \in [Instance -> Payload]
          /\ cur' \in [Instance -> Intent] /\ reply' \in [Instance -> Reply]
          /\ back' \in [Instance -> {"check", "bars", "save", "recover"}]
          /\ manual' \in [Instance -> SUBSET Intent]
          /\ lock' \in Instance \cup {NoInstance}
      BY <1>7 DEF RecordOpenObservation, Die, ProcessState
    <2> QED BY <1>7, <2>1, <2>2, <2>3 DEF RecordOpenObservation, exchange, bounds
  <1> QED BY <1>1, <1>2, <1>3, <1>4, <1>5, <1>6, <1>7 DEF Submitting

(* The settlement of an order keeps the position within its bounds. *)
LEMMA AppliedTyped ==
  ASSUME TypeInv, NEW i \in Intent, settlement[i] \in 1 .. Requested(i)
  PROVE  Applied(i) \in Payload
  <1> DEFINE q == IF i.kind = "ENTER" THEN settlement[i] ELSE plan[i].qty - settlement[i]
  <1>1. plan[i] \in Payload /\ plan[i].qty \in Quantity /\ settlement[i] \in Quantity
    BY DEF TypeInv, TypeOK, Payload
  <1>2. q \in Quantity
    BY <1>1, LotAssumption DEF Requested, Quantity
  <1>3. [plan[i] EXCEPT !.qty = q] \in Payload
    BY <1>1, <1>2, PayloadUpdates
  <1> QED BY <1>3 DEF Applied

LEMMA WithTransitionTyped ==
  ASSUME TypeInv, NEW p \in Instance
  PROVE  WithTransition(p) \in Payload
  <1>1. mem[p] \in Payload /\ mem[p].timeline \cup {cur[p]} \in SUBSET Intent
    BY DEF TypeInv, TypeOK, Payload
  <1> QED BY <1>1, PayloadUpdates DEF WithTransition

LEMMA BlockedTypeInv ==
  ASSUME TypeInv, NEW p \in Instance, Blocked(p), UNCHANGED <<durable, exchange, bounds>>
  PROVE  TypeInv'
  <1> USE FreshIsPayload DEF TypeInv, TypeOK, RowsBelowBound, durable, exchange, bounds
  <1>1. CASE back[p] = "recover"
    BY <1>1 DEF Blocked, Goto, ProcessState
  <1>2. CASE back[p] # "recover"
    BY <1>2, DieTyped DEF Blocked
  <1> QED BY <1>1, <1>2

LEMMA ReconcilingTypeInv ==
  ASSUME TypeInv, NEW p \in Instance, Reconciling(p)
  PROVE  TypeInv'
  <1> USE FreshIsPayload DEF TypeInv, TypeOK, RowsBelowBound
  <1>1. CASE FinalizeZeroEffect(p)
    <2>1. order' \in [Intent -> OrderRow] /\ RowsBelowBound'
      <3>1. cur[p] \in Intent /\ order[cur[p]].local # "NONE" /\ SetRow(cur[p], "TERMINAL", "CANCELED")
        BY <1>1 DEF FinalizeZeroEffect, CanFinalizeZeroEffect
      <3> QED BY <3>1, SetRowTyped DEF LocalOrderState, OrderStatus
    <2>2. pc' \in [Instance -> ProcessState] /\ mem' \in [Instance -> Payload] /\ engine' \in Payload
      BY <1>1 DEF FinalizeZeroEffect, Concluded, Goto, ProcessState, OrderPhase
    <2> QED BY <1>1, <2>1, <2>2 DEF FinalizeZeroEffect, exchange, bounds
  <1>2. CASE AcquireSettlement(p)
    <2>1. \A seen \in 1 .. fill[cur[p]] : seen \in Quantity
      BY LotAssumption DEF Quantity
    <2> QED BY <1>2, <2>1 DEF AcquireSettlement, exchange, bounds, Goto, ProcessState, OrderPhase
  <1>3. CASE ReconcileBlocked(p)
    BY <1>3, BlockedTypeInv DEF ReconcileBlocked
  <1>4. CASE ApplySettlement(p)
    <2>1. (IF cur[p] \in applied THEN engine ELSE Applied(cur[p])) \in Payload
      BY <1>4, AppliedTyped DEF ApplySettlement, CanApply
    <2> QED BY <1>4, <2>1 DEF ApplySettlement, exchange, bounds, Goto, ProcessState, OrderPhase
  <1>5. CASE JournalLookup(p)
    BY <1>5 DEF JournalLookup, exchange, bounds, Goto, ProcessState, OrderPhase, Lookups
  <1>6. CASE ApplyBlocked(p)
    BY <1>6, BlockedTypeInv DEF ApplyBlocked
  <1>7. CASE Finalize(p)
    <2> DEFINE status == IF settlement[cur[p]] = Requested(cur[p]) THEN "FILLED" ELSE "PARTIAL"
    <2>1. cur[p] \in Intent /\ cur[p].seq < MaxSeq /\ engine.seq = cur[p].seq
      BY <1>7 DEF Finalize, CanFinalize
    <2>2. engine.seq + 1 \in 0 .. MaxSeq
      BY <2>1, BoundAssumption DEF Intent
    <2>3. engine' \in Payload
      BY <1>7, <2>2, PayloadUpdates DEF Finalize
    <2>4. Row("TERMINAL", status) \in OrderRow
      BY DEF Row, OrderRow, LocalOrderState, OrderStatus
    <2> HIDE DEF status
    <2>5. order' = [order EXCEPT ![cur[p]] = Row("TERMINAL", status)]
      BY <1>7 DEF Finalize, SetRow, status
    <2>6. pc' \in [Instance -> ProcessState] /\ mem' \in [Instance -> Payload]
      BY <1>7, <2>3 DEF Finalize, Concluded, Goto, ProcessState, OrderPhase
    <2> QED BY <1>7, <2>1, <2>3, <2>4, <2>5, <2>6 DEF Finalize, exchange, bounds
  <1>8. CASE FinalizeBlocked(p)
    <2>1. CASE back[p] = "recover"
      BY <1>8, <2>1, BlockedTypeInv DEF FinalizeBlocked
    <2>2. CASE back[p] # "recover"
      BY <1>8, <2>2 DEF FinalizeBlocked, durable, exchange, bounds, Goto, ProcessState, CyclePhase
    <2> QED BY <2>1, <2>2
  <1>9. CASE RecordTransition(p)
    <2>1. WithTransition(p) \in Payload
      BY WithTransitionTyped
    <2>2. engine' \in Payload
      <3>1. WithTransition(p).latch \in BOOLEAN /\ engine.latch \in BOOLEAN
        BY <2>1 DEF Payload
      <3>2. (WithTransition(p).latch \/ engine.latch) \in BOOLEAN
        BY <3>1
      <3> QED BY <1>9, <2>1, <3>2, PayloadUpdates DEF RecordTransition, Checkpoint
    <2> QED BY <1>9, <2>1, <2>2 DEF RecordTransition, exchange, bounds, Goto, ProcessState,
                                    CyclePhase
  <1> QED BY <1>1, <1>2, <1>3, <1>4, <1>5, <1>6, <1>7, <1>8, <1>9 DEF Reconciling, FinalizeOrder

LEMMA FailureTypeInv ==
  ASSUME TypeInv, NEW p \in Instance, Failure(p)
  PROVE  TypeInv'
  <1> USE FreshIsPayload DEF TypeInv, TypeOK, RowsBelowBound
  <1>1. CASE Shutdown(p)
    BY <1>1, PayloadUpdates DEF Shutdown, Checkpoint, exchange, bounds, Die, ProcessState
  <1>2. CASE Crash(p)
    BY <1>2 DEF Crash, durable, exchange, Die, ProcessState
  <1>3. CASE StoreFault(p)
    <2>1. mem' \in [Instance -> Payload]
      <3> DEFINE latched == [mem[p] EXCEPT !.latch = TRUE]
      <3>1. mem[p] \in Payload /\ WithTransition(p) \in Payload
        BY WithTransitionTyped
      <3>2. latched \in Payload
        BY <3>1, PayloadUpdates
      <3>3. PICK m \in {mem[p], WithTransition(p), latched} : mem' = [mem EXCEPT ![p] = m]
        <4> HIDE DEF latched
        <4>1. mem = [mem EXCEPT ![p] = mem[p]]
          OBVIOUS
        <4> QED BY <1>3, <4>1 DEF StoreFault, latched
      <3> QED BY <3>1, <3>2, <3>3
    <2>2. faults' \in Nat
      BY <1>3 DEF StoreFault
    <2> QED BY <1>3, <2>1, <2>2 DEF StoreFault, durable, exchange, Goto, ProcessState, CyclePhase
  <1> QED BY <1>1, <1>2, <1>3 DEF Failure

LEMMA VenueTypeInv ==
  ASSUME TypeInv, NEW i \in Intent, Venue(i)
  PROVE  TypeInv'
  <1> USE DEF TypeInv, TypeOK, RowsBelowBound
  <1>1. CASE VenueFills(i)
    <2>1. \A q \in 1 .. Requested(i) : q \in Quantity /\ q \in Int
      BY LotAssumption DEF Requested, Payload, Quantity
    <2> QED BY <1>1, <2>1 DEF VenueFills, durable, bounds, volatile, VenueState
  <1>2. CASE VenueDeclines(i)
    BY <1>2 DEF VenueDeclines, durable, bounds, volatile, VenueState
  <1> QED BY <1>1, <1>2 DEF Venue

LEMMA NextTypeInv == TypeInv /\ [Next]_vars => TypeInv'
  <1> SUFFICES ASSUME TypeInv, [Next]_vars PROVE TypeInv'
    OBVIOUS
  <1>1. CASE \E p \in Instance : Step(p) \/ Failure(p)
    BY <1>1, StartingTypeInv, CyclingTypeInv, SubmittingTypeInv, ReconcilingTypeInv,
       FailureTypeInv DEF Step
  <1>2. CASE \E i \in Intent : Venue(i)
    BY <1>2, VenueTypeInv
  <1>3. CASE UNCHANGED vars
    BY <1>3 DEF vars, durable, exchange, volatile, bounds, TypeInv, TypeOK, RowsBelowBound
  <1> QED BY <1>1, <1>2, <1>3 DEF Next

(* Every variable keeps its type in every behaviour, and no order is placed *)
(* past the bound on sequence numbers.                                      *)
THEOREM TypeCorrect == Spec => []TypeOK
  <1>1. Init => TypeInv
    BY InitTypeInv
  <1>2. TypeInv /\ [Next]_vars => TypeInv'
    BY NextTypeInv
  <1>3. TypeInv => TypeOK
    BY DEF TypeInv
  <1> QED BY <1>1, <1>2, <1>3, PTL DEF Spec

-----------------------------------------------------------------------------
(* Safety: the inductive invariant SafetyInv. *)

Active(p) == pc[p] \notin {"down", "built"}

Journal == <<order, responses, settlement, applied>>

LEMMA InitSafetyInv == Init => SafetyInv
  BY DEF Init, SafetyInv, OneOwner, RowFollowsProcess, ClosedStatus, SentOnce, EvidenceChain,
         ClosedTruthfully, Sending, Row

(* -- the lock: how a step may move it and keep OneOwner ------------------ *)

LEMMA TakeLock ==
  ASSUME TypeInv, OneOwner, NEW p \in Instance, NEW l \in ProcessState,
         lock = NoInstance, lock' = p, pc' = [pc EXCEPT ![p] = l]
  PROVE  OneOwner'
  BY InstanceAssumption DEF OneOwner, TypeInv, TypeOK

LEMMA KeepLock ==
  ASSUME TypeInv, OneOwner, NEW p \in Instance, NEW l \in ProcessState,
         Active(p), lock' = lock, pc' = [pc EXCEPT ![p] = l]
  PROVE  OneOwner'
  BY DEF OneOwner, TypeInv, TypeOK, Active

LEMMA LeaveLock ==
  ASSUME TypeInv, OneOwner, NEW p \in Instance, NEW l \in {"down", "built"},
         lock' = (IF lock = p THEN NoInstance ELSE lock), pc' = [pc EXCEPT ![p] = l]
  PROVE  OneOwner'
  BY InstanceAssumption DEF OneOwner, TypeInv, TypeOK

(* While a process is active, every other one is down or built. *)
LEMMA OthersIdle ==
  ASSUME OneOwner, NEW p \in Instance, Active(p), NEW q \in Instance, q # p
  PROVE  ~Active(q)
  BY DEF OneOwner, Active

(* -- steps that touch neither the journal nor the venue ------------------ *)

LEMMA QuietStep ==
  ASSUME TypeInv, SafetyInv, NEW p \in Instance,
         OneOwner', UNCHANGED <<Journal, exchange>>,
         NEW l \in ProcessState \ InHand, pc' = [pc EXCEPT ![p] = l],
         \A q \in Instance \ {p} : cur'[q] = cur[q] /\ reply'[q] = reply[q]
  PROVE  SafetyInv'
  <1> USE DEF Journal, exchange, SafetyInv
  <1>1. RowFollowsProcess'
    <2> SUFFICES ASSUME NEW q \in Instance, pc'[q] \in InHand
                 PROVE  RowFollowsProcess!(q)'
      BY DEF RowFollowsProcess, InHand, Sending
    <2>1. q # p /\ pc'[q] = pc[q]
      BY DEF TypeInv, TypeOK
    <2> QED BY <2>1 DEF RowFollowsProcess, Truthful
  <1>2. ClosedStatus' /\ SentOnce' /\ EvidenceChain' /\ ClosedTruthfully'
    BY DEF ClosedStatus, SentOnce, EvidenceChain, ClosedTruthfully, Truthful
  <1> QED BY <1>1, <1>2

(* A process that dies, or gives its lock back, disturbs nothing. *)
LEMMA DieQuietly ==
  ASSUME TypeInv, SafetyInv, NEW p \in Instance, Die(p), UNCHANGED <<Journal, exchange>>
  PROVE  SafetyInv'
  <1>1. OneOwner'
    BY LeaveLock DEF SafetyInv, Die
  <1>2. \A q \in Instance \ {p} : cur'[q] = cur[q] /\ reply'[q] = reply[q]
    BY DEF Die, TypeInv, TypeOK
  <1> QED BY <1>1, <1>2, QuietStep DEF Die, ProcessState, InHand

LEMMA MoveQuietly ==
  ASSUME TypeInv, SafetyInv, NEW p \in Instance, Active(p), UNCHANGED <<Journal, exchange, lock>>,
         NEW l \in ProcessState \ InHand, pc' = [pc EXCEPT ![p] = l],
         NEW i \in Intent, cur' = [cur EXCEPT ![p] = i], UNCHANGED reply
  PROVE  SafetyInv'
  <1>1. OneOwner'
    BY KeepLock DEF SafetyInv
  <1>2. \A q \in Instance \ {p} : cur'[q] = cur[q] /\ reply'[q] = reply[q]
    BY DEF TypeInv, TypeOK
  <1> QED BY <1>1, <1>2, QuietStep

LEMMA StayQuietly ==
  ASSUME TypeInv, SafetyInv, NEW p \in Instance, Active(p),
         UNCHANGED <<Journal, exchange, lock, cur, reply>>,
         NEW l \in ProcessState \ InHand, pc' = [pc EXCEPT ![p] = l]
  PROVE  SafetyInv'
  <1>1. OneOwner'
    BY KeepLock DEF SafetyInv
  <1>2. \A q \in Instance \ {p} : cur'[q] = cur[q] /\ reply'[q] = reply[q]
    OBVIOUS
  <1> QED BY <1>1, <1>2, QuietStep

LEMMA BlockedQuietly ==
  ASSUME TypeInv, SafetyInv, NEW p \in Instance, Active(p), Blocked(p),
         UNCHANGED <<Journal, exchange>>
  PROVE  SafetyInv'
  <1>1. CASE back[p] = "recover"
    BY <1>1, StayQuietly DEF Blocked, Goto, ProcessState, InHand
  <1>2. CASE back[p] # "recover"
    BY <1>2, DieQuietly DEF Blocked
  <1> QED BY <1>1, <1>2

LEMMA StartingSafetyInv ==
  ASSUME TypeInv, SafetyInv, NEW p \in Instance, Starting(p)
  PROVE  SafetyInv'
  <1> USE DEF Goto, durable, Journal, ProcessState, InHand, OrderPhase, CyclePhase
  <1>1. CASE Boot(p)
    <2>1. OneOwner'
      BY <1>1, TakeLock DEF Boot, SafetyInv
    <2> QED BY <1>1, <2>1, QuietStep DEF Boot
  <1>2. CASE RecoverAbort(p)
    <2>1. PICK i \in Intent : order[i].local = "INTENT_CREATED"
                              /\ order' = [order EXCEPT ![i] = Row("TERMINAL", "RECOVERED_ABORTED")]
      BY <1>2 DEF RecoverAbort, SetRow
    <2>2. sent[i] = 0
      BY <2>1 DEF SafetyInv, SentOnce
    <2>3. \A j \in Intent : order'[j] = IF j = i THEN Row("TERMINAL", "RECOVERED_ABORTED")
                                                 ELSE order[j]
      BY <2>1 DEF TypeInv, TypeOK
    <2>4. OneOwner'
      BY <1>2 DEF RecoverAbort, SafetyInv, OneOwner, volatile
    <2>5. RowFollowsProcess'
      <3>1. \A q \in Instance : pc[q] \notin InHand
        BY <1>2, OthersIdle DEF RecoverAbort, Active, SafetyInv
      <3> QED BY <1>2, <3>1 DEF RecoverAbort, volatile, RowFollowsProcess, Sending
    <2>6. ClosedStatus' /\ ClosedTruthfully'
      BY <1>2, <2>3 DEF RecoverAbort, Row, SafetyInv, ClosedStatus, ClosedTruthfully, exchange
    <2>7. SentOnce'
      BY <1>2, <2>2, <2>3 DEF RecoverAbort, Row, SafetyInv, SentOnce, exchange
    <2>8. EvidenceChain'
      BY <1>2 DEF RecoverAbort, SafetyInv, EvidenceChain, exchange, Truthful
    <2> QED BY <2>4, <2>5, <2>6, <2>7, <2>8 DEF SafetyInv
  <1>3. CASE RecoverOrder(p)
    <2>1. PICK i \in Intent : cur' = [cur EXCEPT ![p] = i]
      BY <1>3 DEF RecoverOrder
    <2> QED BY <1>3, <2>1, MoveQuietly DEF RecoverOrder, Active
  <1>4. CASE FinishRecovery(p)
    <2>1. lock = p
      BY <1>4 DEF FinishRecovery, SafetyInv, OneOwner
    <2>2. OneOwner'
      BY <1>4, <2>1, LeaveLock DEF FinishRecovery, SafetyInv
    <2> QED BY <1>4, <2>2, QuietStep DEF FinishRecovery
  <1>5. CASE RefuseStart(p)
    BY <1>5, DieQuietly DEF RefuseStart
  <1>6. CASE RunForever(p)
    <2>1. OneOwner'
      BY <1>6, TakeLock DEF RunForever, SafetyInv
    <2> QED BY <1>6, <2>1, QuietStep DEF RunForever
  <1>7. CASE RunForeverRefused(p)
    BY <1>7, DieQuietly DEF RunForeverRefused
  <1> QED BY <1>1, <1>2, <1>3, <1>4, <1>5, <1>6, <1>7 DEF Starting

(* -- steps of the submission in hand ------------------------------------- *)

(* Only the process that acts has a submission in hand. *)
LEMMA OneHand ==
  ASSUME TypeInv, SafetyInv, NEW p \in Instance, Active(p),
         NEW l \in ProcessState, pc' = [pc EXCEPT ![p] = l],
         l = "reserved" => (order[cur[p]].local = "INTENT_CREATED")',
         l = "submitting" => (order[cur[p]].local = "SUBMITTING" /\ sent[cur[p]] = 0)',
         l \in Sending => (order[cur[p]].local = "SUBMITTING" /\ sent[cur[p]] = 1)',
         l \in {"replied", "responded"} => Truthful(cur[p], reply[p])'
  PROVE  RowFollowsProcess'
  <1>1. \A q \in Instance \ {p} : pc'[q] \notin InHand
    BY OthersIdle DEF SafetyInv, Active, TypeInv, TypeOK, InHand
  <1>2. pc'[p] = l
    BY DEF TypeInv, TypeOK
  <1> SUFFICES ASSUME NEW q \in Instance PROVE RowFollowsProcess!(q)'
    BY DEF RowFollowsProcess
  <1>3. CASE q = p
    BY <1>2, <1>3
  <1>4. CASE q # p
    BY <1>1, <1>4 DEF InHand, Sending
  <1> QED BY <1>3, <1>4

(* A row that is neither closed nor sent may be written again. *)
LEMMA WriteRow ==
  ASSUME TypeInv, SafetyInv, NEW i \in Intent,
         NEW l \in {"INTENT_CREATED", "SUBMITTING", "AWAITING_EXTERNAL", "PENDING_RECONCILIATION"},
         NEW s \in {"PENDING", "OPEN"}, SetRow(i, l, s),
         l = "INTENT_CREATED" => sent[i] = 0,
         UNCHANGED <<settlement, applied, exchange>>,
         \A j \in Intent : \A r \in responses'[j] : Truthful(j, r)
  PROVE  ClosedStatus' /\ SentOnce' /\ EvidenceChain' /\ ClosedTruthfully'
  <1>1. \A j \in Intent : order'[j] = IF j = i THEN Row(l, s) ELSE order[j]
    BY DEF SetRow, TypeInv, TypeOK
  <1>2. ClosedStatus' /\ ClosedTruthfully'
    BY <1>1 DEF SafetyInv, ClosedStatus, ClosedTruthfully, Row, exchange
  <1>3. SentOnce'
    BY <1>1 DEF SafetyInv, SentOnce, Row, exchange
  <1>4. EvidenceChain'
    BY DEF SafetyInv, EvidenceChain, Truthful, exchange
  <1> QED BY <1>2, <1>3, <1>4

LEMMA PlaceOrderSafetyInv ==
  ASSUME TypeInv, SafetyInv, NEW p \in Instance, Active(p), NEW i \in Intent, NEW m,
         NEW phase, PlaceOrder(p, i, m, phase)
  PROVE  SafetyInv'
  <1>0. /\ \A j \in Intent : \A r \in responses'[j] : Truthful(j, r)
        /\ UNCHANGED <<settlement, applied, exchange>>
    BY DEF PlaceOrder, SafetyInv, EvidenceChain
  <1>1. CASE ReserveNew(p, i, m)
    <2>1. sent[i] = 0
      BY <1>1 DEF ReserveNew, SafetyInv, SentOnce
    <2>2. ClosedStatus' /\ SentOnce' /\ EvidenceChain' /\ ClosedTruthfully'
      BY <1>0, <1>1, <2>1, WriteRow DEF ReserveNew
    <2>3. cur'[p] = i /\ order'[i].local = "INTENT_CREATED"
      BY <1>1 DEF ReserveNew, SetRow, Row, TypeInv, TypeOK
    <2>4. RowFollowsProcess'
      BY <1>1, <2>3, OneHand DEF ReserveNew, Goto, ProcessState, OrderPhase, Sending
    <2>5. OneOwner'
      BY <1>1, KeepLock DEF ReserveNew, Goto, ProcessState, OrderPhase, SafetyInv
    <2> QED BY <2>2, <2>4, <2>5 DEF SafetyInv
  <1>2. CASE Reclaim(p, i, m)
    <2>1. sent[i] = 0
      BY <1>2 DEF Reclaim, Reclaimable, SafetyInv, SentOnce
    <2>2. ClosedStatus' /\ SentOnce' /\ EvidenceChain' /\ ClosedTruthfully'
      BY <1>0, <1>2, WriteRow DEF Reclaim
    <2>3. cur'[p] = i /\ order'[i].local = "SUBMITTING" /\ sent'[i] = 0
      BY <1>0, <1>2, <2>1 DEF Reclaim, SetRow, Row, TypeInv, TypeOK, exchange
    <2>4. RowFollowsProcess'
      BY <1>2, <2>3, OneHand DEF Reclaim, Goto, ProcessState, OrderPhase, Sending
    <2>5. OneOwner'
      BY <1>2, KeepLock DEF Reclaim, Goto, ProcessState, OrderPhase, SafetyInv
    <2> QED BY <2>2, <2>4, <2>5 DEF SafetyInv
  <1>3. CASE RefuseReservation(p, i, m)
    BY <1>3, DieQuietly DEF PlaceOrder, RefuseReservation, Journal
  <1> QED BY <1>1, <1>2, <1>3 DEF PlaceOrder

LEMMA CyclingSafetyInv ==
  ASSUME TypeInv, SafetyInv, NEW p \in Instance, Cycling(p)
  PROVE  SafetyInv'
  <1> USE DEF Goto, durable, Journal, ProcessState, InHand, OrderPhase, CyclePhase, Active
  <1>1. CASE PositionAgrees(p) \/ PositionCheckNotDue(p) \/ CycleFails(p)
    BY <1>1, StayQuietly DEF PositionAgrees, PositionCheckNotDue, CycleFails
  <1>2. CASE RequireManualReconciliation(p)
    BY <1>2, DieQuietly DEF RequireManualReconciliation
  <1>3. CASE RiskWithoutLiquidation(p)
    BY <1>3, StayQuietly DEF RiskWithoutLiquidation
  <1>4. CASE LiquidateIfHalted(p)
    <2>1. PICK m \in RiskState(p) : PlaceOrder(p, IntentOf("EXIT", 0, m), m, "bars")
      BY <1>4 DEF LiquidateIfHalted
    <2>2. IntentOf("EXIT", 0, m) \in Intent
      BY RiskStateTyped, IntentOfIsIntent, BoundAssumption
    <2> QED BY <1>4, <2>1, <2>2, PlaceOrderSafetyInv DEF LiquidateIfHalted
  <1>5. CASE BarWithoutOrder(p)
    BY <1>5, StayQuietly DEF BarWithoutOrder
  <1>6. CASE BarEnters(p)
    <2>1. IntentOf("ENTER", mem[p].bar + 1, mem[p]) \in Intent
      BY <1>6, NextBarTyped, IntentOfIsIntent DEF BarEnters, TypeInv, TypeOK
    <2> QED BY <1>6, <2>1, PlaceOrderSafetyInv DEF BarEnters
  <1>7. CASE BarExits(p)
    <2>1. IntentOf("EXIT", mem[p].bar + 1, mem[p]) \in Intent
      BY <1>7, NextBarTyped, IntentOfIsIntent DEF BarExits, TypeInv, TypeOK
    <2> QED BY <1>7, <2>1, PlaceOrderSafetyInv DEF BarExits
  <1>8. CASE SaveCycle(p)
    BY <1>8, StayQuietly DEF SaveCycle
  <1> QED BY <1>1, <1>2, <1>3, <1>4, <1>5, <1>6, <1>7, <1>8 DEF Cycling

LEMMA SubmittingSafetyInv ==
  ASSUME TypeInv, SafetyInv, NEW p \in Instance, Submitting(p)
  PROVE  SafetyInv'
  <1> DEFINE i == cur[p]
  <1> USE DEF Goto, durable, Journal, ProcessState, InHand, OrderPhase, CyclePhase, Active, Sending
  <1>0. i \in Intent /\ \A j \in Intent : \A r \in responses[j] : Truthful(j, r)
    BY DEF TypeInv, TypeOK, SafetyInv, EvidenceChain
  <1>1. CASE MarkSubmitting(p)
    <2>1. sent[i] = 0
      BY <1>0, <1>1 DEF MarkSubmitting, SafetyInv, SentOnce
    <2>2. ClosedStatus' /\ SentOnce' /\ EvidenceChain' /\ ClosedTruthfully'
      BY <1>0, <1>1, WriteRow DEF MarkSubmitting, Truthful, exchange
    <2>3. cur'[p] = i /\ order'[i].local = "SUBMITTING" /\ sent'[i] = 0
      BY <1>0, <1>1, <2>1 DEF MarkSubmitting, SetRow, Row, TypeInv, TypeOK, exchange
    <2>4. RowFollowsProcess'
      BY <1>1, <2>3, OneHand DEF MarkSubmitting
    <2>5. OneOwner'
      BY <1>1, KeepLock DEF MarkSubmitting, SafetyInv
    <2> QED BY <2>2, <2>4, <2>5 DEF SafetyInv
  <1>2. CASE Send(p)
    <2>1. sent[i] = 0 /\ order[i].local = "SUBMITTING"
      BY <1>2 DEF Send, SafetyInv, RowFollowsProcess
    <2>2. venue[i] = "none" /\ fill[i] = 0
      BY <1>0, <2>1 DEF SafetyInv, SentOnce, EvidenceChain, TypeInv, TypeOK, Quantity
    <2>3. /\ sent' = [sent EXCEPT ![i] = 1]
          /\ venue' = [venue EXCEPT ![i] = "pending"]
      BY <1>0, <1>2, <2>1, <2>2 DEF Send, TypeInv, TypeOK
    <2>4. UNCHANGED <<Journal, fill>>
      BY <1>2 DEF Send
    <2>5. OneOwner'
      BY <1>2, KeepLock DEF Send, SafetyInv
    <2>6. RowFollowsProcess'
      <3>1. cur'[p] = i /\ order'[i].local = "SUBMITTING" /\ sent'[i] = 1
        BY <1>0, <1>2, <2>1, <2>3 DEF Send, TypeInv, TypeOK
      <3> QED BY <1>2, <3>1, OneHand DEF Send
    <2>7. ClosedStatus'
      BY <2>4 DEF SafetyInv, ClosedStatus
    <2>8. order[i].status # "RECOVERED_ABORTED"
      BY <1>0, <2>1 DEF SafetyInv, ClosedStatus
    <2>9. SentOnce'
      <3> SUFFICES ASSUME NEW j \in Intent PROVE SentOnce!(j)'
        BY DEF SentOnce
      <3> HIDE DEF i
      <3>1. CASE j = i
        <4>1. sent'[j] = 1 /\ venue'[j] = "pending"
          BY <1>0, <2>3, <3>1 DEF TypeInv, TypeOK
        <4> QED BY <4>1, <2>1, <2>4, <2>8, <3>1
      <3>2. CASE j # i
        <4>1. sent'[j] = sent[j] /\ venue'[j] = venue[j]
          BY <2>3, <3>2 DEF TypeInv, TypeOK
        <4> QED BY <2>4, <4>1 DEF SafetyInv, SentOnce
      <3> QED BY <3>1, <3>2
    <2>10. EvidenceChain'
      BY <2>2, <2>3, <2>4 DEF SafetyInv, EvidenceChain, Truthful, TypeInv, TypeOK
    <2>11. ClosedTruthfully'
      BY <2>2, <2>3, <2>4 DEF SafetyInv, ClosedTruthfully, TypeInv, TypeOK
    <2> QED BY <2>5, <2>6, <2>7, <2>9, <2>10, <2>11 DEF SafetyInv
  <1>3. CASE Receive(p)
    <2>1. PICK r \in Reports(i) : reply' = [reply EXCEPT ![p] = r]
      BY <1>3 DEF Receive
    <2>2. Truthful(i, r)
      BY <2>1 DEF Reports, Truthful
    <2>3. cur'[p] = i /\ reply'[p] = r /\ sent[i] = 1 /\ order[i].local = "SUBMITTING"
      BY <1>3, <2>1 DEF Receive, SafetyInv, RowFollowsProcess, TypeInv, TypeOK
    <2>4. RowFollowsProcess'
      BY <1>3, <2>2, <2>3, OneHand DEF Receive, Truthful, exchange
    <2>5. OneOwner'
      BY <1>3, KeepLock DEF Receive, SafetyInv
    <2>6. ClosedStatus' /\ SentOnce' /\ EvidenceChain' /\ ClosedTruthfully'
      BY <1>3 DEF Receive, SafetyInv, ClosedStatus, SentOnce, EvidenceChain, ClosedTruthfully,
                  Truthful, exchange
    <2> QED BY <2>4, <2>5, <2>6 DEF SafetyInv
  <1>4. CASE RecordResponse(p)
    <2> DEFINE r == [outcome |-> reply[p].outcome, qty |-> reply[p].qty]
    <2>1. /\ Truthful(i, reply[p]) /\ sent[i] = 1 /\ order[i].local = "SUBMITTING"
          /\ UNCHANGED <<order, settlement, applied, exchange, lock, cur, reply>>
      BY <1>4 DEF RecordResponse, SafetyInv, RowFollowsProcess
    <2>2. Truthful(i, r)
      BY <2>1 DEF Truthful
    <2>3. \A j \in Intent : \A s \in responses'[j] : s \in responses[j] \/ (j = i /\ s = r)
      BY <1>4 DEF RecordResponse, TypeInv, TypeOK
    <2>4. \A j \in Intent : \A s \in responses'[j] : Truthful(j, s)
      <3> HIDE DEF r, i
      <3> QED BY <1>0, <2>2, <2>3
    <2>5. EvidenceChain'
      BY <2>1, <2>4 DEF SafetyInv, EvidenceChain, Truthful, exchange
    <2>6. ClosedStatus' /\ SentOnce' /\ ClosedTruthfully'
      BY <2>1 DEF SafetyInv, ClosedStatus, SentOnce, ClosedTruthfully, exchange
    <2>7. OneOwner'
      BY <1>4, KeepLock DEF RecordResponse, SafetyInv
    <2>8. RowFollowsProcess'
      BY <1>4, <2>1, OneHand DEF RecordResponse, Truthful, exchange
    <2> QED BY <2>5, <2>6, <2>7, <2>8 DEF SafetyInv
  <1>5. CASE RecordSubmissionError(p)
    <2>1. ClosedStatus' /\ SentOnce' /\ EvidenceChain' /\ ClosedTruthfully'
      BY <1>0, <1>5, WriteRow DEF RecordSubmissionError, Truthful, exchange
    <2>2. OneOwner'
      BY <1>5, LeaveLock DEF RecordSubmissionError, Die, SafetyInv
    <2>3. RowFollowsProcess'
      BY <1>5, OneHand DEF RecordSubmissionError, Die
    <2> QED BY <2>1, <2>2, <2>3 DEF SafetyInv
  <1>6. CASE RecordTerminalObservation(p)
    <2>1. ClosedStatus' /\ SentOnce' /\ EvidenceChain' /\ ClosedTruthfully'
      BY <1>0, <1>6, WriteRow DEF RecordTerminalObservation, Truthful, exchange
    <2>2. OneOwner'
      BY <1>6, KeepLock DEF RecordTerminalObservation, SafetyInv
    <2>3. RowFollowsProcess'
      BY <1>6, OneHand DEF RecordTerminalObservation
    <2> QED BY <2>1, <2>2, <2>3 DEF SafetyInv
  <1>7. CASE RecordOpenObservation(p)
    <2>0. \/ SetRow(i, "AWAITING_EXTERNAL", "OPEN")
          \/ SetRow(i, "PENDING_RECONCILIATION", "PENDING")
      BY <1>7 DEF RecordOpenObservation
    <2>1. ClosedStatus' /\ SentOnce' /\ EvidenceChain' /\ ClosedTruthfully'
      BY <1>0, <1>7, <2>0, WriteRow DEF RecordOpenObservation, Truthful, exchange
    <2>2. OneOwner'
      BY <1>7, LeaveLock DEF RecordOpenObservation, Die, SafetyInv
    <2>3. RowFollowsProcess'
      BY <1>7, OneHand DEF RecordOpenObservation, Die
    <2> QED BY <2>1, <2>2, <2>3 DEF SafetyInv
  <1> QED BY <1>1, <1>2, <1>3, <1>4, <1>5, <1>6, <1>7 DEF Submitting

(* -- steps of the reconciliation ----------------------------------------- *)

(* Closing the row of the order in hand, with a status that tells the truth. *)
LEMMA CloseRow ==
  ASSUME TypeInv, SafetyInv, NEW p \in Instance, Active(p), pc[p] \notin InHand,
         NEW s \in {"FILLED", "PARTIAL", "CANCELED"}, SetRow(cur[p], "TERMINAL", s),
         s = "CANCELED" => venue[cur[p]] = "noMatch",
         s \in {"FILLED", "PARTIAL"} => cur[p] \in applied,
         order[cur[p]].local = "PENDING_RECONCILIATION",
         Concluded(p), UNCHANGED <<responses, settlement, applied, exchange, lock>>
  PROVE  SafetyInv'
  <1> DEFINE i == cur[p]
  <1>1. i \in Intent /\ \A j \in Intent : order'[j] = IF j = i THEN Row("TERMINAL", s) ELSE order[j]
    BY DEF SetRow, TypeInv, TypeOK
  <1>2. PICK l \in {"recover", "record"} : pc' = [pc EXCEPT ![p] = l]
    BY DEF Concluded, Goto
  <1>3. OneOwner' /\ RowFollowsProcess'
    BY <1>2, KeepLock, OneHand DEF ProcessState, OrderPhase, SafetyInv, Sending
  <1>4. ClosedStatus' /\ ClosedTruthfully'
    BY <1>1 DEF SafetyInv, ClosedStatus, ClosedTruthfully, Row, exchange
  <1>5. SentOnce'
    BY <1>1 DEF SafetyInv, SentOnce, Row, exchange
  <1>6. EvidenceChain'
    BY DEF SafetyInv, EvidenceChain, Truthful, exchange
  <1> QED BY <1>3, <1>4, <1>5, <1>6 DEF SafetyInv

LEMMA ReconcilingSafetyInv ==
  ASSUME TypeInv, SafetyInv, NEW p \in Instance, Reconciling(p)
  PROVE  SafetyInv'
  <1> DEFINE i == cur[p]
  <1> USE DEF Goto, durable, Journal, ProcessState, InHand, OrderPhase, CyclePhase, Active
  <1>0. i \in Intent
    BY DEF TypeInv, TypeOK
  <1>1. CASE FinalizeZeroEffect(p)
    <2>1. venue[i] = "noMatch"
      BY <1>0, <1>1 DEF FinalizeZeroEffect, CanFinalizeZeroEffect, ProvenNoMatch, SafetyInv,
                        EvidenceChain, Truthful
    <2> QED BY <1>1, <2>1, CloseRow DEF FinalizeZeroEffect, CanFinalizeZeroEffect
  <1>2. CASE AcquireSettlement(p)
    <2>1. PICK seen \in 1 .. fill[i] :
            SettlementComplete(i, seen) /\ settlement' = [settlement EXCEPT ![i] = seen]
      BY <1>2 DEF AcquireSettlement
    <2>2. seen = fill[i]
      <3>1. PICK r \in responses[i] :
              /\ r.outcome = "FILLED_COMMITMENT"
              /\ \A s \in responses[i] : s.outcome = "FILLED_COMMITMENT" => s = r
        BY <2>1 DEF SettlementComplete, Committed
      <3>2. CommittedQty(i) = r.qty
        BY <3>1 DEF CommittedQty
      <3>3. r.qty = fill[i]
        BY <1>0, <3>1 DEF SafetyInv, EvidenceChain, Truthful
      <3> QED BY <2>1, <3>2, <3>3 DEF SettlementComplete
    <2>3. OneOwner' /\ RowFollowsProcess'
      BY <1>2, KeepLock, OneHand DEF AcquireSettlement, SafetyInv, Sending
    <2>4. ClosedStatus' /\ SentOnce' /\ ClosedTruthfully'
      BY <1>2 DEF AcquireSettlement, SafetyInv, ClosedStatus, SentOnce, ClosedTruthfully, exchange
    <2>5. \A j \in Intent : settlement'[j] = IF j = i THEN fill[i] ELSE settlement[j]
      BY <2>1, <2>2 DEF TypeInv, TypeOK
    <2>6. fill[i] > 0
      BY <2>1, <2>2
    <2>7. EvidenceChain'
      BY <1>2, <2>5, <2>6 DEF AcquireSettlement, SafetyInv, EvidenceChain, Truthful, exchange
    <2> QED BY <2>3, <2>4, <2>7 DEF SafetyInv
  <1>3. CASE ReconcileBlocked(p)
    BY <1>3, BlockedQuietly DEF ReconcileBlocked
  <1>4. CASE ApplySettlement(p)
    <2>1. settlement[i] > 0 /\ applied' = applied \cup {i}
      BY <1>0, <1>4 DEF ApplySettlement, CanApply, SafetyInv, EvidenceChain
    <2>2. OneOwner' /\ RowFollowsProcess'
      BY <1>4, KeepLock, OneHand DEF ApplySettlement, SafetyInv, Sending
    <2>3. ClosedStatus' /\ SentOnce' /\ ClosedTruthfully'
      BY <1>4 DEF ApplySettlement, SafetyInv, ClosedStatus, SentOnce, ClosedTruthfully, exchange
    <2>4. EvidenceChain'
      BY <1>4, <2>1 DEF ApplySettlement, SafetyInv, EvidenceChain, Truthful, exchange
    <2> QED BY <2>2, <2>3, <2>4 DEF SafetyInv
  <1>5. CASE JournalLookup(p)
    BY <1>5, StayQuietly DEF JournalLookup
  <1>6. CASE ApplyBlocked(p)
    BY <1>6, BlockedQuietly DEF ApplyBlocked
  <1>7. CASE Finalize(p)
    BY <1>7, CloseRow DEF Finalize, CanFinalize
  <1>8. CASE FinalizeBlocked(p)
    <2>1. CASE back[p] = "recover"
      BY <1>8, <2>1, BlockedQuietly DEF FinalizeBlocked
    <2>2. CASE back[p] # "recover"
      BY <1>8, <2>2, StayQuietly DEF FinalizeBlocked, Goto, ProcessState, CyclePhase, InHand
    <2> QED BY <2>1, <2>2
  <1>9. CASE RecordTransition(p)
    <2>1. back[p] \in ProcessState \ InHand
      BY DEF TypeInv, TypeOK
    <2> QED BY <1>9, <2>1, StayQuietly DEF RecordTransition
  <1> QED BY <1>1, <1>2, <1>3, <1>4, <1>5, <1>6, <1>7, <1>8, <1>9 DEF Reconciling, FinalizeOrder

LEMMA FailureSafetyInv ==
  ASSUME TypeInv, SafetyInv, NEW p \in Instance, Failure(p)
  PROVE  SafetyInv'
  <1> USE DEF durable, Journal, Active
  <1>1. CASE Shutdown(p)
    BY <1>1, DieQuietly DEF Shutdown
  <1>2. CASE Crash(p)
    BY <1>2, DieQuietly DEF Crash
  <1>3. CASE StoreFault(p)
    BY <1>3, StayQuietly DEF StoreFault, Goto, ProcessState, InHand, OrderPhase, CyclePhase
  <1> QED BY <1>1, <1>2, <1>3 DEF Failure

(* The venue acts only on a pending request, of which nothing is recorded yet. *)
LEMMA VenueSafetyInv ==
  ASSUME TypeInv, SafetyInv, NEW i \in Intent, Venue(i)
  PROVE  SafetyInv'
  <1>1. /\ venue[i] = "pending"
        /\ UNCHANGED <<durable, sent, lock, volatile>>
    BY DEF Venue, VenueFills, VenueDeclines
  <1>2. PICK v \in {"filled", "noMatch", "rejected"} : venue' = [venue EXCEPT ![i] = v]
    BY DEF Venue, VenueFills, VenueDeclines
  <1>3. /\ \A j \in Intent : j # i => fill'[j] = fill[j]
        /\ fill'[i] > 0 <=> v = "filled"
    <2>1. fill[i] = 0
      BY <1>1 DEF SafetyInv, EvidenceChain, TypeInv, TypeOK, Quantity
    <2>2. CASE VenueFills(i)
      <3>1. PICK q \in 1 .. Requested(i) : fill' = [fill EXCEPT ![i] = q]
        BY <2>2 DEF VenueFills
      <3>2. v = "filled"
        BY <1>2, <2>2 DEF VenueFills, TypeInv, TypeOK
      <3> QED BY <3>1, <3>2 DEF TypeInv, TypeOK
    <2>3. CASE VenueDeclines(i)
      BY <1>2, <2>1, <2>3 DEF VenueDeclines, TypeInv, TypeOK
    <2> QED BY <2>2, <2>3 DEF Venue
  <1>4. \A j \in Intent : venue'[j] = IF j = i THEN v ELSE venue[j]
    BY <1>2 DEF TypeInv, TypeOK
  <1>5. /\ OneOwner' /\ ClosedStatus' /\ SentOnce' /\ ClosedTruthfully'
    BY <1>1, <1>4 DEF SafetyInv, OneOwner, ClosedStatus, SentOnce, ClosedTruthfully, durable,
                      volatile
  <1>6. \A j \in Intent, r \in Response \cup Reply : Truthful(j, r) => Truthful(j, r)'
    BY <1>1, <1>3, <1>4 DEF Truthful
  <1>7. RowFollowsProcess'
    BY <1>1, <1>6 DEF SafetyInv, RowFollowsProcess, durable, volatile, TypeInv, TypeOK
  <1>8. EvidenceChain'
    <2>1. settlement[i] = 0 /\ i \notin applied
      BY <1>1 DEF SafetyInv, EvidenceChain, TypeInv, TypeOK, Quantity
    <2> SUFFICES ASSUME NEW j \in Intent PROVE EvidenceChain!(j)'
      BY DEF EvidenceChain
    <2>2. CASE j = i
      BY <1>1, <1>3, <1>4, <1>6, <2>1, <2>2 DEF SafetyInv, EvidenceChain, durable, TypeInv, TypeOK
    <2>3. CASE j # i
      BY <1>1, <1>3, <1>4, <1>6, <2>3 DEF SafetyInv, EvidenceChain, durable, TypeInv, TypeOK
    <2> QED BY <2>2, <2>3
  <1> QED BY <1>5, <1>7, <1>8 DEF SafetyInv

(* -- the theorems --------------------------------------------------------- *)

LEMMA NextSafetyInv == TypeInv /\ SafetyInv /\ [Next]_vars => SafetyInv'
  <1> SUFFICES ASSUME TypeInv, SafetyInv, [Next]_vars PROVE SafetyInv'
    OBVIOUS
  <1>1. CASE \E p \in Instance : Step(p) \/ Failure(p)
    BY <1>1, StartingSafetyInv, CyclingSafetyInv, SubmittingSafetyInv, ReconcilingSafetyInv,
       FailureSafetyInv DEF Step
  <1>2. CASE \E i \in Intent : Venue(i)
    BY <1>2, VenueSafetyInv
  <1>3. CASE UNCHANGED vars
    BY <1>3 DEF vars, durable, exchange, volatile, SafetyInv, OneOwner, RowFollowsProcess,
                ClosedStatus, SentOnce, EvidenceChain, ClosedTruthfully, Truthful
  <1> QED BY <1>1, <1>2, <1>3 DEF Next

(* The inductive invariant holds in every reachable state. *)
THEOREM SafetyInvariant == Spec => [](TypeInv /\ SafetyInv)
  <1>1. Init => TypeInv /\ SafetyInv
    BY InitTypeInv, InitSafetyInv
  <1>2. TypeInv /\ SafetyInv /\ [Next]_vars => (TypeInv /\ SafetyInv)'
    BY NextTypeInv, NextSafetyInv
  <1> QED BY <1>1, <1>2, PTL DEF Spec

(* Whatever crashes, restarts, reclaims and recoveries do, at most one      *)
(* create_order is made for an intent.                                      *)
THEOREM SubmittedOnce == Spec => []AtMostOneSubmission
  <1>1. SafetyInv => AtMostOneSubmission
    BY DEF SafetyInv, SentOnce, AtMostOneSubmission
  <1> QED BY <1>1, SafetyInvariant, PTL

(* Only the holder of the flock recovers, trades or reconciles. *)
THEOREM OwnersExclude == Spec => []OneOwner
  <1>1. SafetyInv => OneOwner
    BY DEF SafetyInv
  <1> QED BY <1>1, SafetyInvariant, PTL

LEMMA ClosedKept ==
  ASSUME TypeInv, SafetyInv
  PROVE  NoLostEffect
  <1> SUFFICES ASSUME NEW i \in Intent, order[i].local = "TERMINAL"
               PROVE  venue[i] # "pending" /\ (fill[i] > 0 => i \in applied)
    BY DEF NoLostEffect
  <1> USE DEF SafetyInv, EvidenceChain, TypeInv, TypeOK, Quantity
  <1>1. CASE order[i].status = "CANCELED"
    BY <1>1 DEF ClosedTruthfully
  <1>2. CASE order[i].status \in {"FILLED", "PARTIAL"}
    BY <1>2 DEF ClosedTruthfully
  <1>3. CASE order[i].status = "RECOVERED_ABORTED"
    BY <1>3 DEF SentOnce
  <1> QED BY <1>1, <1>2, <1>3 DEF ClosedStatus

(* A closed row hides no execution, present or to come. *)
THEOREM ClosedHidesNothing == Spec => []NoLostEffect
  <1>1. TypeInv /\ SafetyInv => NoLostEffect
    BY ClosedKept
  <1> QED BY <1>1, SafetyInvariant, PTL

(* What the portfolio takes in for an order is what the venue executed. *)
THEOREM AccountingExact == Spec => []ExactAccounting
  <1>1. TypeInv /\ SafetyInv => ExactAccounting
    BY DEF SafetyInv, EvidenceChain, ExactAccounting, TypeInv, TypeOK
  <1> QED BY <1>1, SafetyInvariant, PTL

(* -- nothing concluded is rewritten --------------------------------------- *)

(* The rows a step may write: those not closed, or closed by a clean abort. *)
Open(i) == order[i].local # "TERMINAL" \/ order[i].status = "RECOVERED_ABORTED"

(* A step writes one row at most, and voids only what provably had no effect. *)
RowWritten ==
  \/ order' = order
  \/ \E i \in Intent :
       /\ Open(i)
       /\ order' = [order EXCEPT ![i] = order'[i]]
       /\ order'[i].status = "CANCELED" => ProvenNoMatch(i)

LEMMA SetRowOpen ==
  ASSUME TypeInv, NEW i \in Intent, Open(i), NEW l, NEW s, SetRow(i, l, s),
         s = "CANCELED" => ProvenNoMatch(i)
  PROVE  RowWritten
  <1>1. order'[i] = Row(l, s)
    BY DEF SetRow, TypeInv, TypeOK
  <1>2. order' = [order EXCEPT ![i] = order'[i]]
    BY <1>1 DEF SetRow
  <1>3. order'[i].status = s
    BY <1>1 DEF Row
  <1> QED BY <1>2, <1>3 DEF RowWritten

LEMMA PlaceOrderConcludes ==
  ASSUME TypeInv, NEW p \in Instance, NEW i \in Intent, NEW m, NEW phase,
         PlaceOrder(p, i, m, phase)
  PROVE  RowWritten /\ applied \subseteq applied'
  <1>1. CASE ReserveNew(p, i, m)
    BY <1>1, SetRowOpen DEF PlaceOrder, ReserveNew, Open
  <1>2. CASE Reclaim(p, i, m)
    BY <1>2, SetRowOpen DEF PlaceOrder, Reclaim, Reclaimable, Open
  <1>3. CASE RefuseReservation(p, i, m)
    BY <1>3 DEF PlaceOrder, RefuseReservation, RowWritten
  <1> QED BY <1>1, <1>2, <1>3 DEF PlaceOrder

LEMMA StepConcludes ==
  ASSUME TypeInv, SafetyInv, NEW p \in Instance, Step(p) \/ Failure(p)
  PROVE  RowWritten /\ applied \subseteq applied'
  <1> USE DEF durable
  <1>0. cur[p] \in Intent
    BY DEF TypeInv, TypeOK
  <1>1. CASE Starting(p)
    <2>1. CASE RecoverAbort(p)
      <3>1. PICK i \in Intent : /\ order[i].local = "INTENT_CREATED"
                                /\ SetRow(i, "TERMINAL", "RECOVERED_ABORTED")
        BY <2>1 DEF RecoverAbort
      <3> QED BY <2>1, <3>1, SetRowOpen DEF RecoverAbort, Open
    <2>2. CASE ~RecoverAbort(p)
      BY <1>1, <2>2 DEF Starting, Boot, RecoverOrder, FinishRecovery, RefuseStart, RunForever,
                        RunForeverRefused, RowWritten
    <2> QED BY <2>1, <2>2
  <1>2. CASE Cycling(p)
    <2>1. CASE LiquidateIfHalted(p)
      <3>1. PICK m \in RiskState(p) : PlaceOrder(p, IntentOf("EXIT", 0, m), m, "bars")
        BY <2>1 DEF LiquidateIfHalted
      <3>2. IntentOf("EXIT", 0, m) \in Intent
        BY RiskStateTyped, IntentOfIsIntent, BoundAssumption
      <3> QED BY <3>1, <3>2, PlaceOrderConcludes
    <2>2. CASE BarEnters(p)
      <3>1. IntentOf("ENTER", mem[p].bar + 1, mem[p]) \in Intent
        BY <2>2, NextBarTyped, IntentOfIsIntent DEF BarEnters, TypeInv, TypeOK
      <3> QED BY <2>2, <3>1, PlaceOrderConcludes DEF BarEnters
    <2>3. CASE BarExits(p)
      <3>1. IntentOf("EXIT", mem[p].bar + 1, mem[p]) \in Intent
        BY <2>3, NextBarTyped, IntentOfIsIntent DEF BarExits, TypeInv, TypeOK
      <3> QED BY <2>3, <3>1, PlaceOrderConcludes DEF BarExits
    <2>4. CASE ~LiquidateIfHalted(p) /\ ~BarEnters(p) /\ ~BarExits(p)
      BY <1>2, <2>4 DEF Cycling, PositionAgrees, PositionCheckNotDue, RequireManualReconciliation,
                        RiskWithoutLiquidation, BarWithoutOrder, SaveCycle, CycleFails,
                        RowWritten
    <2> QED BY <2>1, <2>2, <2>3, <2>4
  <1>3. CASE Submitting(p)
    <2>1. CASE MarkSubmitting(p)
      BY <1>0, <2>1, SetRowOpen DEF MarkSubmitting, Open
    <2>2. CASE Send(p) \/ Receive(p) \/ RecordResponse(p)
      BY <2>2 DEF Send, Receive, RecordResponse, RowWritten
    <2>3. CASE RecordSubmissionError(p)
      BY <1>0, <2>3, SetRowOpen DEF RecordSubmissionError, Open
    <2>4. CASE RecordTerminalObservation(p)
      BY <1>0, <2>4, SetRowOpen DEF RecordTerminalObservation, Open
    <2>5. CASE RecordOpenObservation(p)
      BY <1>0, <2>5, SetRowOpen DEF RecordOpenObservation, Open
    <2> QED BY <1>3, <2>1, <2>2, <2>3, <2>4, <2>5 DEF Submitting
  <1>4. CASE Reconciling(p)
    <2>1. CASE FinalizeZeroEffect(p)
      BY <1>0, <2>1, SetRowOpen DEF FinalizeZeroEffect, CanFinalizeZeroEffect, Open
    <2>2. CASE Finalize(p)
      BY <1>0, <2>2, SetRowOpen DEF Finalize, CanFinalize, Open
    <2>3. CASE ~FinalizeZeroEffect(p) /\ ~Finalize(p)
      BY <1>4, <2>3 DEF Reconciling, JournalLookup, AcquireSettlement, ReconcileBlocked,
                        ApplySettlement, ApplyBlocked, FinalizeOrder, FinalizeBlocked,
                        RecordTransition, RowWritten
    <2> QED BY <2>1, <2>2, <2>3
  <1>5. CASE Failure(p)
    BY <1>5 DEF Failure, Shutdown, Crash, StoreFault, RowWritten
  <1> QED BY <1>1, <1>2, <1>3, <1>4, <1>5 DEF Step

(* The journal neither reopens nor rewrites a concluded order, and forgets  *)
(* no application.                                                          *)
THEOREM ConclusionsStand == Spec => ConcludedForever
  <1> DEFINE Kept == /\ applied \subseteq applied'
                     /\ \A i \in Intent :
                          order[i].status \in {"FILLED", "PARTIAL", "CANCELED"}
                              => order'[i] = order[i]
  <1>1. TypeInv /\ SafetyInv /\ [Next]_vars => [Kept]_vars
    <2> SUFFICES ASSUME TypeInv, SafetyInv, Next PROVE Kept
      OBVIOUS
    <2>1. RowWritten /\ applied \subseteq applied'
      <3>1. CASE \E p \in Instance : Step(p) \/ Failure(p)
        BY <3>1, StepConcludes
      <3>2. CASE \E i \in Intent : Venue(i)
        BY <3>2 DEF Venue, VenueFills, VenueDeclines, durable, RowWritten
      <3> QED BY <3>1, <3>2 DEF Next
    <2> QED BY <2>1 DEF RowWritten, Open, SafetyInv, ClosedStatus, TypeInv, TypeOK
  <1> QED BY <1>1, SafetyInvariant, PTL DEF Spec, ConcludedForever

(***************************************************************************)
(* The book.                                                               *)
(***************************************************************************)

(* -- placing an order ---------------------------------------------------- *)

(* The three ways the cycle places an order all do it with the position, the*)
(* latch and the sequence the process holds.                                *)
LEMMA Placing ==
  ASSUME TypeInv, NEW p \in Instance, LiquidateIfHalted(p) \/ BarEnters(p) \/ BarExits(p)
  PROVE  /\ pc[p] \in {"risk", "bars"}
         /\ \E i \in Intent, m \in Payload, phase \in {"bars", "save"} :
              /\ PlaceOrder(p, i, m, phase)
              /\ m.seq = i.seq /\ m.qty = mem[p].qty /\ m.latch = mem[p].latch
              /\ i.kind = "ENTER" => m.qty = 0
  <1>0. mem[p] \in Payload
    BY DEF TypeInv, TypeOK
  <1>1. CASE LiquidateIfHalted(p)
    <2>1. PICK m \in RiskState(p) : PlaceOrder(p, IntentOf("EXIT", 0, m), m, "bars")
      BY <1>1 DEF LiquidateIfHalted
    <2>2. m.qty = mem[p].qty /\ m.latch = mem[p].latch
      BY <1>0 DEF RiskState, Payload
    <2>3. /\ m \in Payload
          /\ IntentOf("EXIT", 0, m) \in Intent /\ IntentOf("EXIT", 0, m).seq = m.seq
      BY RiskStateTyped, IntentOfIsIntent, BoundAssumption
    <2>4. IntentOf("EXIT", 0, m).kind = "EXIT"
      BY DEF IntentOf
    <2> QED BY <1>1, <2>1, <2>2, <2>3, <2>4 DEF LiquidateIfHalted
  <1>2. CASE BarEnters(p) \/ BarExits(p)
    <2>1. PICK kind \in {"ENTER", "EXIT"} :
            /\ PlaceOrder(p, IntentOf(kind, mem[p].bar + 1, mem[p]), NextBar(p), "save")
            /\ kind = "ENTER" => mem[p].qty = 0
      BY <1>2 DEF BarEnters, BarExits
    <2>2. mem[p].bar < MaxBar /\ pc[p] = "bars"
      BY <1>2 DEF BarEnters, BarExits
    <2>3. /\ NextBar(p) \in Payload /\ NextBar(p).seq = mem[p].seq
          /\ mem[p].bar + 1 \in 0 .. MaxBar
      BY <2>2, NextBarTyped
    <2>4. NextBar(p).qty = mem[p].qty /\ NextBar(p).latch = mem[p].latch
      BY <1>0 DEF NextBar, Payload
    <2>5. /\ IntentOf(kind, mem[p].bar + 1, mem[p]) \in Intent
          /\ IntentOf(kind, mem[p].bar + 1, mem[p]).seq = mem[p].seq
          /\ IntentOf(kind, mem[p].bar + 1, mem[p]).kind = kind
      BY <1>0, <2>3, IntentOfIsIntent DEF IntentOf
    <2> QED BY <2>1, <2>2, <2>3, <2>4, <2>5
  <1> QED BY <1>1, <1>2

(* -- the rows ------------------------------------------------------------ *)

LEMMA InitRowsAgree == Init => RowsAgree
  BY DEF Init, RowsAgree, Row

(* A clean abort, and a row before its observation, was never applied. *)
LEMMA NotApplied ==
  ASSUME TypeInv, SafetyInv, RowsAgree, NEW i \in Intent,
         \/ order[i].local \notin {"PENDING_RECONCILIATION", "TERMINAL"}
         \/ order[i].status = "RECOVERED_ABORTED"
  PROVE  i \notin applied
  <1>1. CASE order[i].status = "RECOVERED_ABORTED"
    BY <1>1 DEF SafetyInv, SentOnce, EvidenceChain
  <1> QED BY <1>1 DEF RowsAgree

LEMMA RewriteAgrees ==
  ASSUME TypeInv, RowsAgree, NEW i \in Intent, NEW l, NEW s, SetRow(i, l, s),
         order[i].local # "NONE",
         i \in applied => l \in {"PENDING_RECONCILIATION", "TERMINAL"},
         UNCHANGED <<plan, applied>>
  PROVE  RowsAgree'
  <1>1. \A j \in Intent : order'[j] = IF j = i THEN Row(l, s) ELSE order[j]
    BY DEF SetRow, TypeInv, TypeOK
  <1> QED BY <1>1 DEF RowsAgree, Row

LEMMA PlaceOrderRows ==
  ASSUME TypeInv, SafetyInv, RowsAgree, NEW p \in Instance, NEW i \in Intent, NEW m \in Payload,
         NEW phase, m.seq = i.seq, i.kind = "ENTER" => m.qty = 0, PlaceOrder(p, i, m, phase)
  PROVE  RowsAgree'
  <1>1. CASE ReserveNew(p, i, m)
    <2>1. i \notin applied
      BY <1>1, NotApplied DEF ReserveNew
    <2>2. \A j \in Intent :
            /\ order'[j] = IF j = i THEN Row("INTENT_CREATED", "PENDING") ELSE order[j]
            /\ plan'[j] = IF j = i THEN m ELSE plan[j]
      BY <1>1 DEF ReserveNew, SetRow, TypeInv, TypeOK
    <2>3. applied' = applied
      BY DEF PlaceOrder
    <2> QED BY <2>1, <2>2, <2>3 DEF RowsAgree, Row
  <1>2. CASE Reclaim(p, i, m)
    <2>1. i \notin applied /\ order[i].local # "NONE"
      BY <1>2, NotApplied DEF Reclaim, Reclaimable, SafetyInv, ClosedStatus
    <2> QED BY <1>2, <2>1, RewriteAgrees DEF PlaceOrder, Reclaim
  <1>3. CASE RefuseReservation(p, i, m)
    BY <1>3 DEF PlaceOrder, RefuseReservation, RowsAgree
  <1> QED BY <1>1, <1>2, <1>3 DEF PlaceOrder

LEMMA StepRows ==
  ASSUME TypeInv, SafetyInv, RowsAgree, NEW p \in Instance, Step(p) \/ Failure(p)
  PROVE  RowsAgree'
  <1> USE DEF durable
  <1>0. cur[p] \in Intent
    BY DEF TypeInv, TypeOK
  <1>1. CASE Starting(p)
    <2>1. CASE RecoverAbort(p)
      <3>1. PICK i \in Intent : /\ order[i].local = "INTENT_CREATED"
                                /\ SetRow(i, "TERMINAL", "RECOVERED_ABORTED")
        BY <2>1 DEF RecoverAbort
      <3> QED BY <2>1, <3>1, RewriteAgrees DEF RecoverAbort
    <2>2. CASE ~RecoverAbort(p)
      BY <1>1, <2>2 DEF Starting, Boot, RecoverOrder, FinishRecovery, RefuseStart, RunForever,
                        RunForeverRefused, RowsAgree
    <2> QED BY <2>1, <2>2
  <1>2. CASE Cycling(p)
    <2>1. CASE LiquidateIfHalted(p) \/ BarEnters(p) \/ BarExits(p)
      BY <2>1, Placing, PlaceOrderRows
    <2>2. CASE ~LiquidateIfHalted(p) /\ ~BarEnters(p) /\ ~BarExits(p)
      BY <1>2, <2>2 DEF Cycling, PositionAgrees, PositionCheckNotDue, RequireManualReconciliation,
                        RiskWithoutLiquidation, BarWithoutOrder, SaveCycle, CycleFails, RowsAgree
    <2> QED BY <2>1, <2>2
  <1>3. CASE Submitting(p)
    <2>1. CASE MarkSubmitting(p)
      <3>1. cur[p] \notin applied
        BY <1>0, <2>1, NotApplied DEF MarkSubmitting
      <3> QED BY <1>0, <2>1, <3>1, RewriteAgrees DEF MarkSubmitting
    <2>2. CASE Send(p) \/ Receive(p) \/ RecordResponse(p)
      BY <2>2 DEF Send, Receive, RecordResponse, RowsAgree
    <2>3. CASE RecordSubmissionError(p) \/ RecordTerminalObservation(p) \/ RecordOpenObservation(p)
      <3>1. order[cur[p]].local = "SUBMITTING"
        BY <2>3 DEF RecordSubmissionError, RecordTerminalObservation, RecordOpenObservation
      <3>2. cur[p] \notin applied
        BY <1>0, <3>1, NotApplied
      <3>3. PICK l \in {"PENDING_RECONCILIATION", "AWAITING_EXTERNAL"}, s \in {"PENDING", "OPEN"} :
              SetRow(cur[p], l, s)
        BY <2>3 DEF RecordSubmissionError, RecordTerminalObservation, RecordOpenObservation
      <3> QED BY <1>0, <2>3, <3>1, <3>2, <3>3, RewriteAgrees
              DEF RecordSubmissionError, RecordTerminalObservation, RecordOpenObservation
    <2> QED BY <1>3, <2>1, <2>2, <2>3 DEF Submitting
  <1>4. CASE Reconciling(p)
    <2>1. CASE FinalizeZeroEffect(p)
      BY <1>0, <2>1, RewriteAgrees DEF FinalizeZeroEffect, CanFinalizeZeroEffect
    <2>2. CASE Finalize(p)
      BY <1>0, <2>2, RewriteAgrees DEF Finalize, CanFinalize
    <2>3. CASE ApplySettlement(p)
      BY <1>0, <2>3 DEF ApplySettlement, CanApply, RowsAgree
    <2>4. CASE ~FinalizeZeroEffect(p) /\ ~Finalize(p) /\ ~ApplySettlement(p)
      BY <1>4, <2>4 DEF Reconciling, JournalLookup, AcquireSettlement, ReconcileBlocked,
                        ApplyBlocked, FinalizeOrder, FinalizeBlocked, RecordTransition, RowsAgree
    <2> QED BY <2>1, <2>2, <2>3, <2>4
  <1>5. CASE Failure(p)
    BY <1>5 DEF Failure, Shutdown, Crash, StoreFault, RowsAgree
  <1> QED BY <1>1, <1>2, <1>3, <1>4, <1>5 DEF Step

(* -- the process that works ---------------------------------------------- *)

Agrees(p) == MemoryFollows(p) /\ LatchStops(p) /\ PassAdvances(p)

(* What a step does to the position: nothing, or it takes one order in. *)
Kept == engine'.qty = engine.qty /\ applied' = applied

TakesIn(i) ==
    /\ i \notin applied /\ applied' = applied \cup {i}
    /\ settlement[i] \in 1 .. Requested(i)
    /\ engine = plan[i] /\ engine' = Applied(i)
    /\ order' = order

LEMMA InitLoopInv == Init => LoopInv
  BY DEF Init, LoopInv, MemoryFollows, LatchStops, PassAdvances, InHand, InPass, OfLoop, Current

(* The others are down or built, so that the one that acts decides. *)
LEMMA OwnerDecides ==
  ASSUME TypeInv, SafetyInv, NEW p \in Instance, Active(p) \/ lock = NoInstance,
         \A q \in Instance \ {p} : pc'[q] = pc[q],
         Agrees(p)'
  PROVE  LoopInv'
  <1> SUFFICES ASSUME NEW q \in Instance, q # p PROVE Agrees(q)'
    BY DEF LoopInv, Agrees
  <1>1. ~Active(q)
    BY OthersIdle, InstanceAssumption DEF SafetyInv, OneOwner, Active
  <1>2. pc'[q] \in {"down", "built"}
    BY <1>1 DEF Active
  <1> QED BY <1>2 DEF Agrees, MemoryFollows, LatchStops, PassAdvances, InHand, InPass, OfLoop,
                      Current

LEMMA DieAgrees ==
  ASSUME TypeInv, SafetyInv, NEW p \in Instance, Active(p), Die(p)
  PROVE  LoopInv'
  <1>1. pc'[p] = "down" /\ \A q \in Instance \ {p} : pc'[q] = pc[q]
    BY DEF Die, TypeInv, TypeOK
  <1>2. Agrees(p)'
    BY <1>1 DEF Agrees, MemoryFollows, LatchStops, PassAdvances, InHand, InPass, OfLoop, Current
  <1> QED BY <1>1, <1>2, OwnerDecides

(* A process that goes on, with what its own part of the invariant says of  *)
(* where it is and of where it goes.                                        *)
LEMMA GoOnAgrees ==
  ASSUME TypeInv, SafetyInv, NEW p \in Instance, Active(p) \/ lock = NoInstance,
         NEW l \in ProcessState, Goto(p, l),
         l \in InHand \cup {"record"} => back'[p] # "recover",
         l \notin {"recover", "finalize", "built"} /\ (l \in InPass => back'[p] # "recover")
             => mem'[p].qty = engine'.qty,
         l # "built" => ~engine'.latch /\ ~mem'[p].latch,
         l \in InPass \ {"finalize"} /\ back'[p] # "recover" => cur'[p] \notin applied',
         l = "finalize" /\ back'[p] # "recover" => CanFinalize(cur[p])' /\ cur'[p] = cur[p]
  PROVE  LoopInv'
  <1>1. pc'[p] = l /\ \A q \in Instance \ {p} : pc'[q] = pc[q]
    BY DEF Goto, TypeInv, TypeOK
  <1>2. Agrees(p)'
    BY <1>1 DEF Agrees, MemoryFollows, LatchStops, PassAdvances, InHand, InPass, OfLoop, Current
  <1> QED BY <1>1, <1>2, OwnerDecides

LEMMA BlockedAgrees ==
  ASSUME TypeInv, SafetyInv, LoopInv, NEW p \in Instance, Active(p), Blocked(p),
         UNCHANGED engine
  PROVE  LoopInv'
  <1>1. CASE back[p] = "recover"
    <2>1. ~engine.latch /\ ~mem[p].latch
      BY DEF LoopInv, LatchStops, Active
    <2> QED BY <1>1, <2>1, GoOnAgrees DEF Blocked, ProcessState, InHand, InPass
  <1>2. CASE back[p] # "recover"
    BY <1>2, DieAgrees DEF Blocked
  <1> QED BY <1>1, <1>2

LEMMA StartingLoop ==
  ASSUME TypeInv, SafetyInv, LoopInv, NEW p \in Instance, Starting(p)
  PROVE  LoopInv' /\ Kept
  <1> USE DEF durable, Kept, ProcessState, InHand, InPass, Active
  <1>1. CASE Boot(p)
    <2>1. mem'[p] = engine
      BY <1>1 DEF Boot, TypeInv, TypeOK
    <2> QED BY <1>1, <2>1, GoOnAgrees DEF Boot
  <1>2. CASE RecoverAbort(p)
    <2>1. Agrees(p)'
      BY <1>2 DEF RecoverAbort, volatile, Agrees, LoopInv, MemoryFollows, LatchStops,
                  PassAdvances, OfLoop, Current
    <2> QED BY <1>2, <2>1, OwnerDecides DEF RecoverAbort, volatile
  <1>3. CASE RecoverOrder(p)
    <2>1. ~engine.latch /\ ~mem[p].latch /\ back'[p] = "recover"
      BY <1>3 DEF RecoverOrder, LoopInv, LatchStops, TypeInv, TypeOK
    <2> QED BY <1>3, <2>1, GoOnAgrees DEF RecoverOrder, OrderPhase
  <1>4. CASE FinishRecovery(p)
    BY <1>4, GoOnAgrees DEF FinishRecovery
  <1>5. CASE RefuseStart(p)
    BY <1>5, DieAgrees DEF RefuseStart
  <1>6. CASE RunForever(p)
    <2>1. mem'[p] = engine
      BY <1>6 DEF RunForever, TypeInv, TypeOK
    <2> QED BY <1>6, <2>1, GoOnAgrees DEF RunForever
  <1>7. CASE RunForeverRefused(p)
    <2>1. \A q \in Instance \ {p} : pc'[q] = pc[q] /\ mem'[q] = mem[q] /\ back'[q] = back[q]
                                    /\ cur'[q] = cur[q]
      BY <1>7 DEF RunForeverRefused, Die, TypeInv, TypeOK
    <2>2. pc'[p] = "down"
      BY <1>7 DEF RunForeverRefused, Die, TypeInv, TypeOK
    <2>3. UNCHANGED durable
      BY <1>7 DEF RunForeverRefused
    <2> SUFFICES ASSUME NEW q \in Instance PROVE Agrees(q)'
      BY <2>3 DEF LoopInv, Agrees
    <2>4. CASE q = p
      BY <2>2, <2>4 DEF Agrees, MemoryFollows, LatchStops, PassAdvances, OfLoop, Current
    <2>5. CASE q # p
      BY <2>1, <2>3, <2>5 DEF LoopInv, Agrees, MemoryFollows, LatchStops, PassAdvances, OfLoop,
                              Current, CanFinalize, Applied
    <2> QED BY <2>4, <2>5
  <1> QED BY <1>1, <1>2, <1>3, <1>4, <1>5, <1>6, <1>7 DEF Starting

LEMMA PlaceOrderLoop ==
  ASSUME TypeInv, SafetyInv, LoopInv, NEW p \in Instance, pc[p] \in {"risk", "bars"},
         NEW i \in Intent, NEW m \in Payload, NEW phase \in {"bars", "save"},
         m.qty = mem[p].qty, m.latch = mem[p].latch, PlaceOrder(p, i, m, phase)
  PROVE  LoopInv' /\ Kept
  <1> USE DEF ProcessState, OrderPhase, InHand, InPass, Active
  <1>0. /\ m.qty = engine.qty /\ ~m.latch /\ ~engine.latch
        /\ applied' = applied
    BY DEF LoopInv, MemoryFollows, LatchStops, Current, OfLoop, PlaceOrder
  <1>1. CASE ReserveNew(p, i, m) /\ back' = [back EXCEPT ![p] = phase]
    <2>1. mem'[p] = m /\ engine' = m /\ back'[p] = phase
      BY <1>1 DEF ReserveNew, TypeInv, TypeOK
    <2> QED BY <1>0, <1>1, <2>1, GoOnAgrees DEF ReserveNew, Kept
  <1>2. CASE Reclaim(p, i, m) /\ back' = [back EXCEPT ![p] = phase]
    <2>1. mem'[p] = m /\ engine' = engine /\ back'[p] = phase
      BY <1>2 DEF Reclaim, TypeInv, TypeOK
    <2> QED BY <1>0, <1>2, <2>1, GoOnAgrees DEF Reclaim, Kept
  <1>3. CASE RefuseReservation(p, i, m)
    BY <1>0, <1>3, DieAgrees DEF RefuseReservation, Kept
  <1> QED BY <1>1, <1>2, <1>3 DEF PlaceOrder

LEMMA CyclingLoop ==
  ASSUME TypeInv, SafetyInv, LoopInv, NEW p \in Instance, Cycling(p)
  PROVE  LoopInv' /\ Kept
  <1> USE DEF durable, ProcessState, CyclePhase, InHand, InPass, Active
  <1>0. /\ mem[p] \in Payload /\ engine \in Payload
        /\ pc[p] \in {"prepare"} \cup CyclePhase
        /\ mem[p].qty = engine.qty /\ ~mem[p].latch /\ ~engine.latch
    BY DEF Cycling, PositionAgrees, PositionCheckNotDue, RequireManualReconciliation,
           RiskWithoutLiquidation, LiquidateIfHalted, BarWithoutOrder, BarEnters, BarExits,
           SaveCycle, CycleFails, LoopInv, MemoryFollows, LatchStops, Current, OfLoop,
           TypeInv, TypeOK
  <1>1. CASE PositionAgrees(p) \/ PositionCheckNotDue(p) \/ CycleFails(p)
    BY <1>0, <1>1, GoOnAgrees DEF PositionAgrees, PositionCheckNotDue, CycleFails, Kept
  <1>2. CASE RequireManualReconciliation(p)
    <2>1. engine'.qty = engine.qty
      BY <1>0, <1>2 DEF RequireManualReconciliation, Payload
    <2> QED BY <1>0, <1>2, <2>1, DieAgrees DEF RequireManualReconciliation, Kept
  <1>3. CASE RiskWithoutLiquidation(p)
    <2>1. PICK m \in RiskState(p) : mem' = [mem EXCEPT ![p] = m]
      BY <1>3 DEF RiskWithoutLiquidation
    <2>2. m.qty = mem[p].qty /\ m.latch = mem[p].latch
      BY <1>0 DEF RiskState, Payload
    <2>3. mem'[p] = m
      BY <2>1 DEF TypeInv, TypeOK
    <2> QED BY <1>0, <1>3, <2>2, <2>3, GoOnAgrees DEF RiskWithoutLiquidation, Kept
  <1>4. CASE LiquidateIfHalted(p) \/ BarEnters(p) \/ BarExits(p)
    BY <1>4, Placing, PlaceOrderLoop
  <1>5. CASE BarWithoutOrder(p)
    <2>1. mem'[p] \in {mem[p], NextBar(p)}
      BY <1>5 DEF BarWithoutOrder, TypeInv, TypeOK
    <2>2. mem'[p].qty = mem[p].qty /\ mem'[p].latch = mem[p].latch
      BY <1>0, <2>1 DEF NextBar, Payload
    <2> QED BY <1>0, <1>5, <2>2, GoOnAgrees DEF BarWithoutOrder, Kept
  <1>6. CASE SaveCycle(p)
    <2>1. engine'.qty = mem[p].qty /\ engine'.latch = (mem[p].latch \/ engine.latch)
      BY <1>0, <1>6 DEF SaveCycle, Checkpoint, Payload
    <2> QED BY <1>0, <1>6, <2>1, GoOnAgrees DEF SaveCycle, Kept
  <1> QED BY <1>1, <1>2, <1>3, <1>4, <1>5, <1>6 DEF Cycling

LEMMA SubmittingLoop ==
  ASSUME TypeInv, SafetyInv, RowsAgree, LoopInv, NEW p \in Instance, Submitting(p)
  PROVE  LoopInv' /\ Kept
  <1> USE DEF durable, ProcessState, OrderPhase, InHand, InPass, Active
  <1>0. /\ pc[p] \in InHand /\ back[p] # "recover"
        /\ mem[p] \in Payload /\ engine \in Payload /\ cur[p] \in Intent
        /\ mem[p].qty = engine.qty /\ ~mem[p].latch /\ ~engine.latch
    BY DEF Submitting, MarkSubmitting, Send, Receive, RecordResponse, RecordSubmissionError,
           RecordTerminalObservation, RecordOpenObservation, LoopInv, MemoryFollows, LatchStops,
           Current, OfLoop, TypeInv, TypeOK
  <1>1. CASE MarkSubmitting(p) \/ Send(p) \/ Receive(p) \/ RecordResponse(p)
    BY <1>0, <1>1, GoOnAgrees DEF MarkSubmitting, Send, Receive, RecordResponse, Kept
  <1>2. CASE RecordSubmissionError(p)
    BY <1>2, DieAgrees DEF RecordSubmissionError, Kept
  <1>3. CASE RecordTerminalObservation(p)
    <2>1. cur[p] \notin applied
      BY <1>0, <1>3, NotApplied DEF RecordTerminalObservation
    <2> QED BY <1>0, <1>3, <2>1, GoOnAgrees DEF RecordTerminalObservation, Kept
  <1>4. CASE RecordOpenObservation(p)
    <2>1. engine'.qty = engine.qty
      BY <1>0, <1>4 DEF RecordOpenObservation, Checkpoint, Payload
    <2> QED BY <1>4, <2>1, DieAgrees DEF RecordOpenObservation, Kept
  <1> QED BY <1>1, <1>2, <1>3, <1>4 DEF Submitting

(* Taking an order in changes the quantity of its plan's state, no more. *)
LEMMA AppliedFields ==
  ASSUME TypeInv, NEW i \in Intent
  PROVE  /\ Applied(i).seq = plan[i].seq /\ Applied(i).latch = plan[i].latch
         /\ Applied(i).qty = IF i.kind = "ENTER" THEN settlement[i]
                                                 ELSE plan[i].qty - settlement[i]
  <1>1. plan[i] \in Payload
    BY DEF TypeInv, TypeOK
  <1> QED BY <1>1 DEF Applied, Payload

(* Closing the order of a pass: the recovery goes on, the loop reloads. *)
LEMMA ConcludedAgrees ==
  ASSUME TypeInv, SafetyInv, LoopInv, NEW p \in Instance, pc[p] \in InPass, Concluded(p),
         UNCHANGED back, engine'.latch = engine.latch
  PROVE  LoopInv'
  <1> USE DEF ProcessState, OrderPhase, InHand, InPass, Active
  <1>0. ~mem[p].latch /\ ~engine.latch
    BY DEF LoopInv, LatchStops
  <1>1. CASE back[p] = "recover"
    BY <1>0, <1>1, GoOnAgrees DEF Concluded
  <1>2. CASE back[p] # "recover"
    <2>1. mem'[p] = engine'
      BY <1>2 DEF Concluded, TypeInv, TypeOK
    <2> QED BY <1>0, <1>2, <2>1, GoOnAgrees DEF Concluded
  <1> QED BY <1>1, <1>2

LEMMA ReconcilingLoop ==
  ASSUME TypeInv, SafetyInv, RowsAgree, LoopInv, NEW p \in Instance, Reconciling(p)
  PROVE  /\ LoopInv'
         /\ Kept \/ TakesIn(cur[p])
  <1> USE DEF durable, ProcessState, OrderPhase, CyclePhase, InHand, InPass, Active
  <1>0. /\ mem[p] \in Payload /\ engine \in Payload /\ cur[p] \in Intent
        /\ pc[p] \in InPass \cup {"record"}
        /\ ~mem[p].latch /\ ~engine.latch
    BY DEF Reconciling, FinalizeZeroEffect, JournalLookup, AcquireSettlement, ReconcileBlocked,
           ApplySettlement, ApplyBlocked, FinalizeOrder, Finalize, FinalizeBlocked,
           RecordTransition, LoopInv, LatchStops, TypeInv, TypeOK
  <1>1. CASE FinalizeZeroEffect(p)
    BY <1>0, <1>1, ConcludedAgrees DEF FinalizeZeroEffect, Kept
  <1>2. CASE JournalLookup(p) \/ AcquireSettlement(p)
    <2>1. PICK l \in {"settle", "apply"} : Goto(p, l)
      BY <1>2 DEF JournalLookup, AcquireSettlement
    <2>2. pc[p] \in {"reconcile", "settle"}
      BY <1>2 DEF JournalLookup, AcquireSettlement
    <2>3. UNCHANGED <<engine, applied, mem, cur, back>>
      BY <1>2 DEF JournalLookup, AcquireSettlement
    <2>4. back[p] # "recover" => mem[p].qty = engine.qty /\ cur[p] \notin applied
      BY <2>2 DEF LoopInv, MemoryFollows, PassAdvances, Current, OfLoop
    <2> QED BY <1>0, <2>1, <2>2, <2>3, <2>4, GoOnAgrees DEF Kept
  <1>3. CASE ReconcileBlocked(p)
    BY <1>0, <1>3, BlockedAgrees DEF ReconcileBlocked, Kept
  <1>4. CASE ApplySettlement(p)
    <2>0. /\ Goto(p, "finalize") /\ UNCHANGED <<order, plan, settlement, mem, cur, back>>
          /\ applied' = applied \cup {cur[p]}
      BY <1>4 DEF ApplySettlement
    <2>1. CASE cur[p] \in applied
      <3>1. engine' = engine /\ applied' = applied
        BY <1>4, <2>1 DEF ApplySettlement
      <3>2. back[p] = "recover"
        BY <1>4, <2>1 DEF ApplySettlement, LoopInv, PassAdvances, OfLoop
      <3> QED BY <1>0, <2>0, <3>1, <3>2, GoOnAgrees DEF Kept
    <2>2. CASE cur[p] \notin applied
      <3>1. /\ engine = plan[cur[p]] /\ settlement[cur[p]] \in 1 .. Requested(cur[p])
            /\ order[cur[p]].local = "PENDING_RECONCILIATION"
            /\ engine' = Applied(cur[p])
        BY <1>4, <2>2 DEF ApplySettlement, CanApply
      <3>2. engine'.latch = engine.latch /\ engine'.seq = plan[cur[p]].seq
        BY <1>0, <3>1, AppliedFields
      <3>3. plan[cur[p]].seq = cur[p].seq
        BY <1>0, <3>1 DEF RowsAgree
      <3>4. CanFinalize(cur[p])'
        BY <2>0, <3>1, <3>2, <3>3 DEF CanFinalize, Applied
      <3>5. LoopInv'
        BY <1>0, <2>0, <3>2, <3>4, GoOnAgrees
      <3>6. TakesIn(cur[p])
        BY <2>0, <2>2, <3>1 DEF TakesIn
      <3> QED BY <3>5, <3>6
    <2> QED BY <2>1, <2>2
  <1>5. CASE ApplyBlocked(p)
    BY <1>0, <1>5, BlockedAgrees DEF ApplyBlocked, Kept
  <1>6. CASE CanFinalize(cur[p]) /\ Finalize(p)
    <2>1. engine'.latch = engine.latch /\ engine'.qty = engine.qty
      BY <1>0, <1>6 DEF Finalize, Payload
    <2> QED BY <1>0, <1>6, <2>1, ConcludedAgrees DEF Finalize, Kept
  <1>7. CASE ~CanFinalize(cur[p]) /\ FinalizeBlocked(p)
    <2>1. back[p] = "recover"
      BY <1>7 DEF FinalizeBlocked, LoopInv, PassAdvances, OfLoop
    <2> QED BY <1>0, <1>7, <2>1, BlockedAgrees DEF FinalizeBlocked, Kept
  <1>8. CASE RecordTransition(p)
    <2>1. /\ mem[p].qty = engine.qty /\ back[p] \in {"check", "bars", "save"}
      BY <1>8 DEF RecordTransition, LoopInv, MemoryFollows, Current, OfLoop, TypeInv, TypeOK
    <2>2. /\ WithTransition(p).qty = mem[p].qty /\ WithTransition(p).latch = mem[p].latch
          /\ WithTransition(p) \in Payload
      BY <1>0, WithTransitionTyped DEF WithTransition, Payload
    <2>3. mem'[p] = WithTransition(p)
      BY <1>8 DEF RecordTransition, TypeInv, TypeOK
    <2>4. engine'.qty = WithTransition(p).qty
          /\ engine'.latch = (WithTransition(p).latch \/ engine.latch)
      BY <1>8, <2>2 DEF RecordTransition, Checkpoint, Payload
    <2> QED BY <1>0, <1>8, <2>1, <2>2, <2>3, <2>4, GoOnAgrees DEF RecordTransition, Kept
  <1> QED BY <1>1, <1>2, <1>3, <1>4, <1>5, <1>6, <1>7, <1>8 DEF Reconciling, FinalizeOrder

LEMMA FailureLoop ==
  ASSUME TypeInv, SafetyInv, LoopInv, NEW p \in Instance, Failure(p), faults' = 0
  PROVE  LoopInv' /\ Kept
  <1> USE DEF durable, InPass, Active
  <1>1. CASE Shutdown(p)
    <2>1. /\ mem[p] \in Payload /\ engine \in Payload
          /\ mem[p].qty = engine.qty
      BY <1>1 DEF Shutdown, LoopInv, MemoryFollows, Current, OfLoop, TypeInv, TypeOK
    <2>2. engine'.qty = engine.qty
      BY <1>1, <2>1 DEF Shutdown, Checkpoint, Payload
    <2> QED BY <1>1, <2>2, DieAgrees DEF Shutdown, Kept
  <1>2. CASE Crash(p)
    <2>1. CASE Active(p)
      BY <1>2, <2>1, DieAgrees DEF Crash, Kept
    <2>2. CASE ~Active(p)
      <3>1. /\ \A q \in Instance \ {p} : pc'[q] = pc[q] /\ mem'[q] = mem[q] /\ back'[q] = back[q]
                                         /\ cur'[q] = cur[q]
            /\ pc'[p] = "down" /\ UNCHANGED durable
        BY <1>2 DEF Crash, Die, TypeInv, TypeOK
      <3> SUFFICES ASSUME NEW q \in Instance PROVE Agrees(q)'
        BY <3>1 DEF LoopInv, Agrees, Kept
      <3>2. CASE q = p
        BY <3>1, <3>2 DEF Agrees, MemoryFollows, LatchStops, PassAdvances, OfLoop, Current, InHand
      <3>3. CASE q # p
        BY <3>1, <3>3 DEF LoopInv, Agrees, MemoryFollows, LatchStops, PassAdvances, OfLoop,
                          Current, CanFinalize, Applied
      <3> QED BY <3>2, <3>3
    <2> QED BY <2>1, <2>2
  <1>3. CASE StoreFault(p)
    BY <1>3 DEF StoreFault, TypeInv, TypeOK
  <1> QED BY <1>1, <1>2, <1>3 DEF Failure

(* A step of a process leaves the venue's execution alone. *)
LEMMA StepFrame ==
  ASSUME NEW p \in Instance, Step(p) \/ Failure(p)
  PROVE  UNCHANGED <<fill, net>> /\ faults' \in {faults, faults + 1}
  <1> USE DEF exchange, bounds
  <1>1. CASE Cycling(p)
    BY <1>1 DEF Cycling, PositionAgrees, PositionCheckNotDue, RequireManualReconciliation,
                RiskWithoutLiquidation, LiquidateIfHalted, BarWithoutOrder, BarEnters, BarExits,
                PlaceOrder, SaveCycle, CycleFails
  <1>2. CASE Starting(p) \/ Submitting(p)
    BY <1>2 DEF Starting, Boot, RecoverAbort, RecoverOrder, FinishRecovery, RefuseStart,
                RunForever, RunForeverRefused, Submitting, MarkSubmitting, Send, Receive,
                RecordResponse, RecordSubmissionError, RecordTerminalObservation,
                RecordOpenObservation
  <1>3. CASE Reconciling(p) \/ Failure(p)
    BY <1>3 DEF Reconciling, FinalizeZeroEffect, JournalLookup, AcquireSettlement,
                ReconcileBlocked, ApplySettlement, ApplyBlocked, FinalizeOrder, Finalize,
                FinalizeBlocked, RecordTransition, Failure, Shutdown, Crash, StoreFault
  <1> QED BY <1>1, <1>2, <1>3 DEF Step

(* A step of a process moves the position by nothing, or by the order that   *)
(* it takes in.                                                             *)
LEMMA StepLoop ==
  ASSUME TypeInv, SafetyInv, RowsAgree, LoopInv, NEW p \in Instance, Step(p) \/ Failure(p),
         faults' = 0
  PROVE  LoopInv' /\ (Kept \/ TakesIn(cur[p]))
  BY StartingLoop, CyclingLoop, SubmittingLoop, ReconcilingLoop, FailureLoop DEF Step

(* -- the lots outstanding ------------------------------------------------ *)

LEMMA LotsFinite == IsFiniteSet(Intent \X (1 .. Lot))
  <1> DEFINE S == {"ENTER", "EXIT"} \X ((0 .. MaxBar) \X (0 .. MaxSeq))
             f == [x \in S |-> [kind |-> x[1], checkpoint |-> x[2][1], seq |-> x[2][2]]]
  <1>1. IsFiniteSet({"ENTER", "EXIT"})
    <2>1. IsFiniteSet({"ENTER"} \cup {"EXIT"})
      BY FS_Singleton, FS_AddElement
    <2>2. {"ENTER", "EXIT"} = {"ENTER"} \cup {"EXIT"}
      OBVIOUS
    <2> QED BY <2>1, <2>2
  <1>2. IsFiniteSet(0 .. MaxBar) /\ IsFiniteSet(0 .. MaxSeq) /\ IsFiniteSet(1 .. Lot)
    BY FS_Interval, BoundAssumption, LotAssumption
  <1>3. IsFiniteSet(S)
    BY <1>1, <1>2, FS_Product, Zenon
  <1>4. f \in Surjection(S, Intent)
    <2>1. f \in [S -> Intent]
      BY DEF Intent
    <2>2. ASSUME NEW i \in Intent PROVE \E x \in S : f[x] = i
      <3>1. <<i.kind, <<i.checkpoint, i.seq>>>> \in S
        BY DEF Intent
      <3>2. f[<<i.kind, <<i.checkpoint, i.seq>>>>] = i
        BY <3>1 DEF Intent
      <3> QED BY <3>1, <3>2
    <2> QED BY <2>1, <2>2 DEF Surjection
  <1>5. IsFiniteSet(Intent)
    <2> HIDE DEF S, f
    <2> QED BY <1>3, <1>4, FS_Surjection
  <1> QED BY <1>2, <1>5, FS_Product, Zenon

LEMMA OutstandingFinite ==
  ASSUME NEW kind
  PROVE  IsFiniteSet(Outstanding(kind)) /\ Cardinality(Outstanding(kind)) \in Nat
  <1>1. Outstanding(kind) \in SUBSET (Intent \X (1 .. Lot))
    BY DEF Outstanding
  <1>2. IsFiniteSet(Outstanding(kind))
    BY <1>1, LotsFinite, FS_Subset
  <1> QED BY <1>2, FS_CardinalityType

(* The executed lots of one order, and how many they are. *)
Lots(i, q) == {i} \X (1 .. q)

LEMMA LotsCount ==
  ASSUME NEW i, NEW q \in Nat
  PROVE  IsFiniteSet(Lots(i, q)) /\ Cardinality(Lots(i, q)) = q
  <1>1. IsFiniteSet({i}) /\ Cardinality({i}) = 1
    BY FS_Singleton
  <1>2. IsFiniteSet(1 .. q) /\ Cardinality(1 .. q) = q
    BY FS_Interval
  <1>3. /\ IsFiniteSet(Lots(i, q))
        /\ Cardinality(Lots(i, q)) = Cardinality({i}) * Cardinality(1 .. q)
    BY <1>1, <1>2, FS_Product, Zenon DEF Lots
  <1> QED BY <1>1, <1>2, <1>3

(* Lots that join, and lots that leave. *)
LEMMA LotsJoin ==
  ASSUME NEW kind, NEW i, NEW q \in Nat, Outstanding(kind) \cap Lots(i, q) = {}
  PROVE  Cardinality(Outstanding(kind) \cup Lots(i, q)) = Cardinality(Outstanding(kind)) + q
  <1>1. /\ IsFiniteSet(Outstanding(kind)) /\ Cardinality(Outstanding(kind)) \in Nat
        /\ IsFiniteSet(Lots(i, q)) /\ Cardinality(Lots(i, q)) = q
    BY OutstandingFinite, LotsCount
  <1>2. Cardinality(Outstanding(kind) \cup Lots(i, q))
          = Cardinality(Outstanding(kind)) + Cardinality(Lots(i, q)) - Cardinality({})
    BY <1>1, FS_Union
  <1> QED BY <1>1, <1>2, FS_EmptySet

LEMMA LotsLeave ==
  ASSUME NEW kind, NEW i, NEW q \in Nat, Lots(i, q) \subseteq Outstanding(kind)
  PROVE  Cardinality(Outstanding(kind) \ Lots(i, q)) = Cardinality(Outstanding(kind)) - q
  <1>1. Outstanding(kind) \cap Lots(i, q) = Lots(i, q)
    OBVIOUS
  <1>2. Cardinality(Outstanding(kind) \ Lots(i, q))
          = Cardinality(Outstanding(kind)) - Cardinality(Outstanding(kind) \cap Lots(i, q))
    BY OutstandingFinite, FS_Difference
  <1> QED BY <1>1, <1>2, LotsCount

(* -- the balance --------------------------------------------------------- *)

LEMMA InitBook == Init => BookBalances
  <1> SUFFICES ASSUME Init PROVE BookBalances
    OBVIOUS
  <1>1. Outstanding("ENTER") = {} /\ Outstanding("EXIT") = {}
    BY DEF Init, Outstanding
  <1>2. engine.qty = 0 /\ net = 0
    BY DEF Init, FreshPayload
  <1> QED BY <1>1, <1>2, FS_EmptySet DEF BookBalances

LEMMA KeptBook ==
  ASSUME BookBalances, Kept, UNCHANGED <<fill, net>>
  PROVE  BookBalances'
  <1>1. Outstanding("ENTER")' = Outstanding("ENTER") /\ Outstanding("EXIT")' = Outstanding("EXIT")
    BY DEF Outstanding, Kept
  <1> QED BY <1>1 DEF BookBalances, Kept

(* What is outstanding of an order with its first execution, and with its   *)
(* application.                                                             *)
LEMMA OutstandingGrows ==
  ASSUME TypeInv, NEW i \in Intent, i \notin applied, fill[i] = 0, NEW q \in 1 .. Lot,
         fill' = [fill EXCEPT ![i] = q], applied' = applied, NEW kind
  PROVE  /\ i.kind = kind => Outstanding(kind)' = Outstanding(kind) \cup Lots(i, q)
         /\ i.kind # kind => Outstanding(kind)' = Outstanding(kind)
         /\ Outstanding(kind) \cap Lots(i, q) = {}
  <1>1. \A j \in Intent : fill'[j] = IF j = i THEN q ELSE fill[j]
    BY DEF TypeInv, TypeOK
  <1>2. Outstanding(kind) \cap Lots(i, q) = {}
    BY LotAssumption DEF Outstanding, Lots
  <1>3. \A u \in Intent \X (1 .. Lot) :
          u \in Outstanding(kind)' <=> u \in Outstanding(kind) \/ (i.kind = kind /\ u \in Lots(i, q))
    <2> TAKE u \in Intent \X (1 .. Lot)
    <2>1. PICK j \in Intent, n \in 1 .. Lot : u = <<j, n>>
      OBVIOUS
    <2>2. CASE j = i
      BY <1>1, <2>1, <2>2, LotAssumption DEF Outstanding, Lots
    <2>3. CASE j # i
      BY <1>1, <2>1, <2>3 DEF Outstanding, Lots
    <2> QED BY <2>2, <2>3
  <1>4. Lots(i, q) \subseteq Intent \X (1 .. Lot)
    BY LotAssumption DEF Lots
  <1>5. Outstanding(kind) \subseteq Intent \X (1 .. Lot)
        /\ Outstanding(kind)' \subseteq Intent \X (1 .. Lot)
    BY DEF Outstanding
  <1> QED BY <1>2, <1>3, <1>4, <1>5

LEMMA OutstandingShrinks ==
  ASSUME TypeInv, NEW i \in Intent, i \notin applied, applied' = applied \cup {i},
         fill' = fill, NEW kind
  PROVE  /\ i.kind = kind => /\ Outstanding(kind)' = Outstanding(kind) \ Lots(i, fill[i])
                             /\ Lots(i, fill[i]) \subseteq Outstanding(kind)
         /\ i.kind # kind => Outstanding(kind)' = Outstanding(kind)
  <1>1. fill[i] \in 0 .. Lot
    BY DEF TypeInv, TypeOK, Quantity
  <1>2. \A u \in Intent \X (1 .. Lot) :
          /\ u \in Outstanding(kind)' <=> u \in Outstanding(kind) /\ u[1] # i
          /\ u \in Lots(i, fill[i]) <=> u[1] = i /\ u[2] <= fill[i]
    <2> TAKE u \in Intent \X (1 .. Lot)
    <2>1. PICK j \in Intent, n \in 1 .. Lot : u = <<j, n>>
      OBVIOUS
    <2> QED BY <1>1, <2>1, LotAssumption DEF Outstanding, Lots
  <1>3. Lots(i, fill[i]) \subseteq Intent \X (1 .. Lot)
    BY <1>1, LotAssumption DEF Lots
  <1>4. Outstanding(kind) \subseteq Intent \X (1 .. Lot)
        /\ Outstanding(kind)' \subseteq Intent \X (1 .. Lot)
    BY DEF Outstanding
  <1>5. \A u \in Outstanding(kind) : u[1] = i => u[2] <= fill[i] /\ i.kind = kind
    BY DEF Outstanding
  <1>6. i.kind = kind => Lots(i, fill[i]) \subseteq Outstanding(kind)
    BY <1>2, <1>3 DEF Outstanding
  <1>7. i.kind = kind => Outstanding(kind)' = Outstanding(kind) \ Lots(i, fill[i])
    BY <1>2, <1>4, <1>5
  <1>8. i.kind # kind => Outstanding(kind)' = Outstanding(kind)
    BY <1>2, <1>4, <1>5
  <1> QED BY <1>6, <1>7, <1>8

(* The position after an order is taken in, and what the order executed. *)
LEMMA TakesInPosition ==
  ASSUME TypeInv, SafetyInv, RowsAgree, NEW i \in Intent, TakesIn(i)
  PROVE  /\ settlement[i] = fill[i] /\ fill[i] \in 1 .. Lot
         /\ engine'.qty = IF i.kind = "ENTER" THEN engine.qty + fill[i] ELSE engine.qty - fill[i]
  <1>1. settlement[i] \in Nat /\ settlement[i] > 0 /\ settlement[i] = fill[i]
    BY LotAssumption DEF TakesIn, SafetyInv, EvidenceChain, Requested, TypeInv, TypeOK, Quantity
  <1>2. fill[i] \in 1 .. Lot
    BY <1>1 DEF TypeInv, TypeOK, Quantity
  <1>3. order[i].local # "NONE"
    BY <1>1 DEF SafetyInv, EvidenceChain, SentOnce
  <1>4. engine.qty = plan[i].qty /\ (i.kind = "ENTER" => engine.qty = 0)
    BY <1>3 DEF TakesIn, RowsAgree
  <1>5. engine'.qty = IF i.kind = "ENTER" THEN settlement[i] ELSE plan[i].qty - settlement[i]
    BY AppliedFields DEF TakesIn
  <1> QED BY <1>1, <1>2, <1>4, <1>5

LEMMA TakesInBook ==
  ASSUME TypeInv, SafetyInv, RowsAgree, BookBalances, NEW i \in Intent, TakesIn(i),
         UNCHANGED <<fill, net>>
  PROVE  BookBalances'
  <1>1. /\ fill[i] \in 1 .. Lot /\ fill[i] \in Nat
        /\ engine'.qty = IF i.kind = "ENTER" THEN engine.qty + fill[i] ELSE engine.qty - fill[i]
    BY TakesInPosition, LotAssumption
  <1>2. /\ engine.qty \in Int /\ net \in Int
        /\ Cardinality(Outstanding("ENTER")) \in Nat /\ Cardinality(Outstanding("EXIT")) \in Nat
    BY OutstandingFinite DEF TypeInv, TypeOK, Payload, Quantity
  <1>3. i \notin applied /\ applied' = applied \cup {i}
    BY DEF TakesIn
  <1>4. CASE i.kind = "ENTER"
    <2>1. /\ Outstanding("ENTER")' = Outstanding("ENTER") \ Lots(i, fill[i])
          /\ Lots(i, fill[i]) \subseteq Outstanding("ENTER")
          /\ Outstanding("EXIT")' = Outstanding("EXIT")
      <3>1. i.kind = "ENTER" /\ i.kind # "EXIT"
        BY <1>4
      <3> QED BY <1>3, <3>1, OutstandingShrinks
    <2>2. Cardinality(Outstanding("ENTER")') = Cardinality(Outstanding("ENTER")) - fill[i]
      <3>1. Cardinality(Outstanding("ENTER") \ Lots(i, fill[i])) = Cardinality(Outstanding("ENTER")) - fill[i]
        BY <1>1, <2>1, LotsLeave
      <3> QED BY <2>1, <3>1
    <2> QED BY <1>1, <1>2, <1>4, <2>1, <2>2 DEF BookBalances
  <1>5. CASE i.kind = "EXIT"
    <2>1. /\ Outstanding("EXIT")' = Outstanding("EXIT") \ Lots(i, fill[i])
          /\ Lots(i, fill[i]) \subseteq Outstanding("EXIT")
          /\ Outstanding("ENTER")' = Outstanding("ENTER")
      <3>1. i.kind = "EXIT" /\ i.kind # "ENTER"
        BY <1>5
      <3> QED BY <1>3, <3>1, OutstandingShrinks
    <2>2. Cardinality(Outstanding("EXIT")') = Cardinality(Outstanding("EXIT")) - fill[i]
      <3>1. Cardinality(Outstanding("EXIT") \ Lots(i, fill[i])) = Cardinality(Outstanding("EXIT")) - fill[i]
        BY <1>1, <2>1, LotsLeave
      <3> QED BY <2>1, <3>1
    <2> QED BY <1>1, <1>2, <1>5, <2>1, <2>2 DEF BookBalances
  <1> QED BY <1>4, <1>5 DEF Intent

LEMMA VenueBook ==
  ASSUME TypeInv, SafetyInv, BookBalances, NEW i \in Intent, Venue(i)
  PROVE  BookBalances'
  <1>1. CASE VenueDeclines(i)
    BY <1>1, KeptBook DEF VenueDeclines, durable, Kept
  <1>2. CASE VenueFills(i)
    <2>1. PICK q \in 1 .. Requested(i) :
            /\ fill' = [fill EXCEPT ![i] = q]
            /\ net' = IF i.kind = "ENTER" THEN net + q ELSE net - q
      BY <1>2 DEF VenueFills
    <2>2. q \in 1 .. Lot /\ q \in Nat
      BY LotAssumption DEF Requested, TypeInv, TypeOK, Payload, Quantity
    <2>3. /\ fill[i] = 0 /\ i \notin applied
          /\ engine' = engine /\ applied' = applied
      <3>1. venue[i] = "pending" /\ UNCHANGED durable
        BY <1>2 DEF VenueFills
      <3> QED BY <3>1 DEF SafetyInv, EvidenceChain, TypeInv, TypeOK, Quantity, durable
    <2>4. /\ engine.qty \in Int /\ net \in Int
          /\ Cardinality(Outstanding("ENTER")) \in Nat /\ Cardinality(Outstanding("EXIT")) \in Nat
      BY OutstandingFinite DEF TypeInv, TypeOK, Payload, Quantity
    <2>5. CASE i.kind = "ENTER"
      <3>1. /\ Outstanding("ENTER")' = Outstanding("ENTER") \cup Lots(i, q)
            /\ Outstanding("ENTER") \cap Lots(i, q) = {}
            /\ Outstanding("EXIT")' = Outstanding("EXIT")
        <4>1. i.kind = "ENTER" /\ i.kind # "EXIT"
          BY <2>5
        <4> QED BY <2>1, <2>2, <2>3, <4>1, OutstandingGrows
      <3>2. Cardinality(Outstanding("ENTER")') = Cardinality(Outstanding("ENTER")) + q
        <4>1. Cardinality(Outstanding("ENTER") \cup Lots(i, q)) = Cardinality(Outstanding("ENTER")) + q
          BY <2>2, <3>1, LotsJoin
        <4> QED BY <3>1, <4>1
      <3> QED BY <2>1, <2>2, <2>3, <2>4, <2>5, <3>1, <3>2 DEF BookBalances
    <2>6. CASE i.kind = "EXIT"
      <3>1. /\ Outstanding("EXIT")' = Outstanding("EXIT") \cup Lots(i, q)
            /\ Outstanding("EXIT") \cap Lots(i, q) = {}
            /\ Outstanding("ENTER")' = Outstanding("ENTER")
        <4>1. i.kind = "EXIT" /\ i.kind # "ENTER"
          BY <2>6
        <4> QED BY <2>1, <2>2, <2>3, <4>1, OutstandingGrows
      <3>2. Cardinality(Outstanding("EXIT")') = Cardinality(Outstanding("EXIT")) + q
        <4>1. Cardinality(Outstanding("EXIT") \cup Lots(i, q)) = Cardinality(Outstanding("EXIT")) + q
          BY <2>2, <3>1, LotsJoin
        <4> QED BY <3>1, <4>1
      <3> QED BY <2>1, <2>2, <2>3, <2>4, <2>6, <3>1, <3>2 DEF BookBalances
    <2> QED BY <2>5, <2>6 DEF Intent
  <1> QED BY <1>1, <1>2 DEF Venue

(* -- the theorems -------------------------------------------------------- *)

LEMMA InitBookInv == Init => BookInv
  BY InitRowsAgree, InitLoopInv, InitBook DEF BookInv

LEMMA NextBookInv == TypeInv /\ SafetyInv /\ BookInv /\ [Next]_vars => BookInv'
  <1> SUFFICES ASSUME TypeInv, SafetyInv, BookInv, [Next]_vars PROVE BookInv'
    OBVIOUS
  <1>1. ASSUME NEW p \in Instance, Step(p) \/ Failure(p) PROVE BookInv'
    <2>1. RowsAgree'
      BY <1>1, StepRows DEF BookInv
    <2>2. ASSUME faults' = 0 PROVE LoopInv' /\ BookBalances'
      <3>1. faults = 0 /\ UNCHANGED <<fill, net>>
        BY <1>1, <2>2, StepFrame DEF TypeInv, TypeOK
      <3>2. LoopInv' /\ (Kept \/ TakesIn(cur[p]))
        BY <1>1, <2>2, <3>1, StepLoop DEF BookInv
      <3>3. cur[p] \in Intent
        BY DEF TypeInv, TypeOK
      <3> QED BY <3>1, <3>2, <3>3, KeptBook, TakesInBook DEF BookInv
    <2> QED BY <2>1, <2>2 DEF BookInv
  <1>2. ASSUME NEW i \in Intent, Venue(i) PROVE BookInv'
    <2>1. UNCHANGED <<durable, volatile, bounds>>
      BY <1>2 DEF Venue, VenueFills, VenueDeclines
    <2>2. RowsAgree' /\ (LoopInv => LoopInv')
      BY <2>1 DEF durable, volatile, BookInv, RowsAgree, LoopInv, MemoryFollows, LatchStops,
                  PassAdvances, OfLoop, Current, CanFinalize, Applied
    <2> QED BY <1>2, <2>1, <2>2, VenueBook DEF BookInv, bounds
  <1>3. CASE UNCHANGED vars
    BY <1>3 DEF vars, durable, exchange, volatile, bounds, BookInv, RowsAgree, LoopInv,
                MemoryFollows, LatchStops, PassAdvances, OfLoop, Current, CanFinalize, Applied,
                BookBalances, Outstanding
  <1> QED BY <1>1, <1>2, <1>3 DEF Next

(* The invariant of rows, memory and balance holds in every reachable state. *)
THEOREM BookInvariant == Spec => []BookInv
  <1>1. Init => BookInv
    BY InitBookInv
  <1>2. TypeInv /\ SafetyInv /\ BookInv /\ [Next]_vars => BookInv'
    BY NextBookInv
  <1> QED BY <1>1, <1>2, SafetyInvariant, PTL DEF Spec

LEMMA BookKept ==
  ASSUME TypeInv, BookInv
  PROVE  BookMatchesVenue
  <1> SUFFICES ASSUME faults = 0, \A i \in Intent : fill[i] > 0 => i \in applied
               PROVE  engine.qty = net
    BY DEF BookMatchesVenue
  <1>1. Outstanding("ENTER") = {} /\ Outstanding("EXIT") = {}
    <2> SUFFICES ASSUME NEW kind, NEW u \in Outstanding(kind) PROVE FALSE
      BY DEF Outstanding
    <2>1. u[1] \in Intent /\ u[2] \in 1 .. Lot /\ u[1] \notin applied /\ u[2] <= fill[u[1]]
      BY DEF Outstanding
    <2>2. fill[u[1]] \in Int
      BY <2>1 DEF TypeInv, TypeOK, Quantity
    <2> QED BY <2>1, <2>2
  <1>2. engine.qty \in Int /\ net \in Int
    BY DEF TypeInv, TypeOK, Payload, Quantity
  <1> QED BY <1>1, <1>2, FS_EmptySet DEF BookInv, BookBalances

(* Once every execution is applied, the durable position is the venue's     *)
(* (engine state, financial applications and the venue's net position).     *)
THEOREM BookIsVenues == Spec => []BookMatchesVenue
  <1>1. TypeInv /\ BookInv => BookMatchesVenue
    BY BookKept
  <1> QED BY <1>1, SafetyInvariant, BookInvariant, PTL

(* -- the latch ----------------------------------------------------------- *)

LEMMA PlaceOrderLatch ==
  ASSUME NEW p \in Instance, NEW i \in Intent, NEW m \in Payload, NEW phase,
         PlaceOrder(p, i, m, phase)
  PROVE  (engine.latch => engine'.latch) /\ sent' = sent
  BY DEF PlaceOrder, ReserveNew, Reclaim, RefuseReservation, exchange

LEMMA StepLatch ==
  ASSUME TypeInv, NEW p \in Instance, Step(p) \/ Failure(p)
  PROVE  /\ engine.latch => engine'.latch
         /\ Send(p) \/ sent' = sent
  <1> USE DEF durable, exchange
  <1>0. mem[p] \in Payload /\ engine \in Payload /\ cur[p] \in Intent
    BY DEF TypeInv, TypeOK
  <1>1. CASE Starting(p)
    BY <1>1 DEF Starting, Boot, RecoverAbort, RecoverOrder, FinishRecovery, RefuseStart,
                RunForever, RunForeverRefused
  <1>2. CASE Cycling(p)
    <2>1. CASE LiquidateIfHalted(p) \/ BarEnters(p) \/ BarExits(p)
      BY <2>1, Placing, PlaceOrderLatch
    <2>2. CASE ~LiquidateIfHalted(p) /\ ~BarEnters(p) /\ ~BarExits(p)
      BY <1>0, <1>2, <2>2 DEF Cycling, PositionAgrees, PositionCheckNotDue,
            RequireManualReconciliation, RiskWithoutLiquidation, BarWithoutOrder, SaveCycle,
            CycleFails, Checkpoint, Payload
    <2> QED BY <2>1, <2>2
  <1>3. CASE Submitting(p)
    BY <1>0, <1>3 DEF Submitting, MarkSubmitting, Receive, RecordResponse,
          RecordSubmissionError, RecordTerminalObservation, RecordOpenObservation, Send,
          Checkpoint, Payload
  <1>4. CASE Reconciling(p)
    <2>1. CASE ApplySettlement(p)
      <3>1. CASE cur[p] \in applied
        BY <2>1, <3>1 DEF ApplySettlement
      <3>2. CASE cur[p] \notin applied
        <4>1. engine = plan[cur[p]] /\ engine' = Applied(cur[p]) /\ sent' = sent
          BY <2>1, <3>2 DEF ApplySettlement, CanApply
        <4> QED BY <1>0, <4>1, AppliedFields
      <3> QED BY <3>1, <3>2
    <2>2. CASE RecordTransition(p)
      <3>1. WithTransition(p) \in Payload
        BY WithTransitionTyped
      <3> QED BY <1>0, <2>2, <3>1 DEF RecordTransition, Checkpoint, Payload
    <2>3. CASE Finalize(p)
      BY <1>0, <2>3 DEF Finalize, Payload
    <2>4. CASE ~ApplySettlement(p) /\ ~RecordTransition(p) /\ ~Finalize(p)
      BY <1>4, <2>4 DEF Reconciling, FinalizeZeroEffect, JournalLookup, AcquireSettlement,
            ReconcileBlocked, ApplyBlocked, FinalizeOrder, FinalizeBlocked
    <2> QED BY <2>1, <2>2, <2>3, <2>4
  <1>5. CASE Failure(p)
    BY <1>0, <1>5 DEF Failure, Shutdown, Crash, StoreFault, Checkpoint, Payload
  <1> QED BY <1>1, <1>2, <1>3, <1>4, <1>5 DEF Step

(* Nothing the engine does clears its durable latch, and a latched engine   *)
(* sends nothing (the checkpoint's latch, the tests at the start and at the *)
(* loop, the reservation).                                                  *)
THEOREM LatchSilences == Spec => LatchedEngineIsSilent
  <1> DEFINE Silent == engine.latch => engine'.latch /\ (faults = 0 => sent' = sent)
  <1>1. TypeInv /\ SafetyInv /\ BookInv /\ [Next]_vars => [Silent]_vars
    <2> SUFFICES ASSUME TypeInv, SafetyInv, BookInv, Next PROVE Silent
      OBVIOUS
    <2>1. CASE \E i \in Intent : Venue(i)
      BY <2>1 DEF Venue, VenueFills, VenueDeclines, durable
    <2>2. ASSUME NEW p \in Instance, Step(p) \/ Failure(p) PROVE Silent
      <3>1. (engine.latch => engine'.latch) /\ (Send(p) \/ sent' = sent)
        BY <2>2, StepLatch
      <3>2. ASSUME Send(p), faults = 0 PROVE ~engine.latch
        BY <3>2 DEF Send, BookInv, LoopInv, LatchStops
      <3> QED BY <3>1, <3>2
    <2> QED BY <2>1, <2>2 DEF Next
  <1> QED BY <1>1, SafetyInvariant, BookInvariant, PTL DEF Spec, LatchedEngineIsSilent

(* -- the promise --------------------------------------------------------- *)

LEMMA PromiseTypes == Promise!Intent = Intent /\ Promise!Quantity = Quantity
  BY DEF Promise!Intent, Intent, Promise!Quantity, Quantity

(* One step of a process in the vocabulary of the promise. *)
LEMMA StepPromise ==
  ASSUME TypeInv, SafetyInv, BookInv, NEW p \in Instance, Step(p) \/ Failure(p), faults' = 0
  PROVE  [Promise!Next]_(Promise!absVars)
  <1> DEFINE void == {i \in Intent : order[i].status = "CANCELED"}
  <1>0. cur[p] \in Intent
    BY DEF TypeInv, TypeOK
  <1>1. fill' = fill /\ faults = 0
    BY StepFrame DEF TypeInv, TypeOK
  <1>2. CASE TakesIn(cur[p])
    <2>1. fill[cur[p]] > 0 /\ engine'.qty = IF cur[p].kind = "ENTER" THEN engine.qty + fill[cur[p]]
                                                             ELSE engine.qty - fill[cur[p]]
      BY <1>0, <1>2, TakesInPosition DEF BookInv
    <2>2. Promise!Account(cur[p])
      BY <1>0, <1>1, <1>2, <2>1 DEF TakesIn, Promise!Account
    <2> QED BY <1>0, <2>2, PromiseTypes DEF Promise!Next
  <1>3. CASE Kept
    <2>1. RowWritten
      BY StepConcludes
    <2>2. CASE void' = void
      BY <1>1, <1>3, <2>2 DEF Kept, Promise!absVars
    <2>3. CASE void' # void
      <3>1. PICK i \in Intent :
              /\ Open(i) /\ order' = [order EXCEPT ![i] = order'[i]]
              /\ order'[i].status = "CANCELED" => ProvenNoMatch(i)
        BY <2>1, <2>3 DEF RowWritten
      <3>2. \A j \in Intent : j # i => order'[j] = order[j]
        BY <3>1 DEF TypeInv, TypeOK
      <3>3. i \notin void
        BY <3>1 DEF Open, SafetyInv, ClosedStatus
      <3>4. order'[i].status = "CANCELED" /\ void' = void \cup {i}
        BY <2>3, <3>2, <3>3
      <3>5. venue[i] = "noMatch"
        BY <3>1, <3>4 DEF ProvenNoMatch, SafetyInv, EvidenceChain, Truthful
      <3>6. fill[i] = 0
        BY <3>5 DEF SafetyInv, EvidenceChain, TypeInv, TypeOK, Quantity
      <3>7. Promise!Void(i)
        BY <1>1, <1>3, <3>3, <3>4, <3>6 DEF Promise!Void, Kept
      <3> QED BY <3>7, PromiseTypes DEF Promise!Next
    <2> QED BY <2>2, <2>3
  <1> QED BY <1>1, <1>2, <1>3, StepLoop DEF BookInv

LEMMA VenuePromise ==
  ASSUME TypeInv, SafetyInv, NEW i \in Intent, Venue(i)
  PROVE  [Promise!Next]_(Promise!absVars)
  <1>1. CASE VenueDeclines(i)
    BY <1>1 DEF VenueDeclines, durable, Promise!absVars
  <1>2. CASE VenueFills(i)
    <2>1. PICK q \in 1 .. Requested(i) : fill' = [fill EXCEPT ![i] = q]
      BY <1>2 DEF VenueFills
    <2>2. q \in Quantity \ {0}
      BY LotAssumption DEF Requested, Quantity, TypeInv, TypeOK, Payload
    <2>3. venue[i] = "pending" /\ fill[i] = 0 /\ order[i].status # "CANCELED"
      BY <1>2 DEF VenueFills, SafetyInv, EvidenceChain, ClosedTruthfully, TypeInv, TypeOK, Quantity
    <2>4. Promise!Execute(i)
      BY <1>2, <2>1, <2>2, <2>3, PromiseTypes DEF VenueFills, durable, Promise!Execute
    <2> QED BY <2>4, PromiseTypes DEF Promise!Next
  <1> QED BY <1>1, <1>2 DEF Venue

(* The order path implements FinancialTransition when its loop swallows no  *)
(* store fault: every execution is accounted once, in full, and what is     *)
(* declared void was not executed and will not be.                          *)
THEOREM PromiseKept == Spec /\ [](faults = 0) => ImplementsPromise
  <1>1. Init => Promise!Init
    BY PromiseTypes DEF Init, Row, FreshPayload, Promise!Init
  <1>2. TypeInv /\ SafetyInv /\ BookInv /\ [Next]_vars /\ (faults = 0)'
          => [Promise!Next]_(Promise!absVars)
    <2> SUFFICES ASSUME TypeInv, SafetyInv, BookInv, [Next]_vars, faults' = 0
                 PROVE  [Promise!Next]_(Promise!absVars)
      OBVIOUS
    <2>1. CASE UNCHANGED vars
      BY <2>1 DEF vars, durable, exchange, Promise!absVars
    <2> QED BY <2>1, StepPromise, VenuePromise DEF Next
  <1> QED BY <1>1, <1>2, SafetyInvariant, BookInvariant, PTL
          DEF Spec, ImplementsPromise, Promise!Spec

(* -- one process, one order ---------------------------------------------- *)

(* Where p is after a step, the orders it leaves unresolved. *)
LEMMA SoleAfter ==
  ASSUME NEW p, Instance = {p},
         \/ SoleExposedOrder' /\ pc'[p] = "down"
         \/ SoleExposedOrder' /\ pc'[p] = "recover"
         \/ SoleExposedOrder' /\ pc'[p] \in InPass /\ back'[p] = "recover"
         \/ /\ pc'[p] \in InHand \cup InPass
            /\ \A i \in Intent : Unresolved(i)' => i = cur'[p]
         \/ \A i \in Intent : ~Unresolved(i)'
  PROVE  SoleExposedOrder' /\ \A q \in Instance : HandHolds(q)'
  BY DEF HandHolds, SoleExposedOrder, Exposed, OfLoop, InPass, InHand, CyclePhase

(* A step that leaves the rows alone, or takes one out of the unresolved. *)
LEMMA SameRows ==
  ASSUME order' = order
  PROVE  /\ SoleExposedOrder => SoleExposedOrder'
         /\ \A i \in Intent : Unresolved(i)' <=> Unresolved(i)
  BY DEF SoleExposedOrder, Exposed, Unresolved

LEMMA RowRewritten ==
  ASSUME TypeInv, NEW i \in Intent, NEW l, NEW s, SetRow(i, l, s)
  PROVE  /\ l = "TERMINAL" => ~Unresolved(i)' /\ (SoleExposedOrder => SoleExposedOrder')
         /\ \A j \in Intent \ {i} : Unresolved(j)' <=> Unresolved(j)
  <1>1. \A j \in Intent : order'[j] = IF j = i THEN Row(l, s) ELSE order[j]
    BY DEF SetRow, TypeInv, TypeOK
  <1> QED BY <1>1 DEF SoleExposedOrder, Exposed, Unresolved, Row

LEMMA DieSole ==
  ASSUME TypeInv, NEW p, Instance = {p}, SoleExposedOrder', Die(p)
  PROVE  SoleExposedOrder' /\ \A q \in Instance : HandHolds(q)'
  <1>1. pc'[p] = "down"
    BY DEF Die, TypeInv, TypeOK
  <1> QED BY <1>1, SoleAfter

LEMMA PlaceOrderSole ==
  ASSUME TypeInv, SoleExposedOrder, NEW p, Instance = {p}, NEW i \in Intent, NEW m, NEW phase,
         \A j \in Intent : ~Unresolved(j), PlaceOrder(p, i, m, phase)
  PROVE  SoleExposedOrder' /\ \A q \in Instance : HandHolds(q)'
  <1>1. CASE ReserveNew(p, i, m) \/ Reclaim(p, i, m)
    <2>1. pc'[p] \in InHand /\ cur'[p] = i
      BY <1>1 DEF ReserveNew, Reclaim, Goto, InHand, TypeInv, TypeOK
    <2>2. \A j \in Intent \ {i} : ~Unresolved(j)'
      BY <1>1, RowRewritten DEF ReserveNew, Reclaim
    <2> QED BY <2>1, <2>2, SoleAfter
  <1>2. CASE RefuseReservation(p, i, m)
    BY <1>2, SameRows, DieSole DEF RefuseReservation
  <1> QED BY <1>1, <1>2 DEF PlaceOrder

LEMMA StartingSole ==
  ASSUME TypeInv, SoleExposedOrder, NEW p, Instance = {p}, HandHolds(p), Starting(p)
  PROVE  SoleExposedOrder' /\ \A q \in Instance : HandHolds(q)'
  <1> USE DEF durable
  <1>1. CASE Boot(p)
    <2>1. pc'[p] = "recover" /\ order' = order
      BY <1>1 DEF Boot, Goto, TypeInv, TypeOK
    <2> QED BY <2>1, SameRows, SoleAfter
  <1>2. CASE RecoverAbort(p)
    <2>1. PICK i \in Intent : SetRow(i, "TERMINAL", "RECOVERED_ABORTED")
      BY <1>2 DEF RecoverAbort
    <2>2. pc'[p] = "recover"
      BY <1>2 DEF RecoverAbort, volatile
    <2> QED BY <2>1, <2>2, RowRewritten, SoleAfter
  <1>3. CASE RecoverOrder(p)
    <2>1. pc'[p] \in InPass /\ back'[p] = "recover" /\ order' = order
      BY <1>3 DEF RecoverOrder, Goto, InPass, TypeInv, TypeOK
    <2> QED BY <2>1, SameRows, SoleAfter
  <1>4. CASE FinishRecovery(p)
    <2>1. order' = order /\ \A i \in Intent : ~Unresolved(i)
      BY <1>4 DEF FinishRecovery
    <2> QED BY <2>1, SameRows, SoleAfter
  <1>5. CASE RefuseStart(p) \/ RunForeverRefused(p)
    BY <1>5, SameRows, DieSole DEF RefuseStart, RunForeverRefused
  <1>6. CASE RunForever(p)
    <2>1. order' = order /\ \A i \in Intent : ~Unresolved(i)
      BY <1>6 DEF RunForever, HandHolds
    <2> QED BY <2>1, SameRows, SoleAfter
  <1> QED BY <1>1, <1>2, <1>3, <1>4, <1>5, <1>6 DEF Starting

LEMMA CyclingSole ==
  ASSUME TypeInv, SoleExposedOrder, NEW p, Instance = {p}, HandHolds(p), Cycling(p)
  PROVE  SoleExposedOrder' /\ \A q \in Instance : HandHolds(q)'
  <1> USE DEF durable
  <1>1. \A i \in Intent : ~Unresolved(i)
    BY DEF Cycling, PositionAgrees, PositionCheckNotDue, RequireManualReconciliation,
           RiskWithoutLiquidation, LiquidateIfHalted, BarWithoutOrder, BarEnters, BarExits,
           SaveCycle, CycleFails, HandHolds, CyclePhase
  <1>2. CASE LiquidateIfHalted(p) \/ BarEnters(p) \/ BarExits(p)
    BY <1>1, <1>2, Placing, PlaceOrderSole
  <1>3. CASE ~LiquidateIfHalted(p) /\ ~BarEnters(p) /\ ~BarExits(p)
    <2>1. order' = order
      BY <1>3 DEF Cycling, PositionAgrees, PositionCheckNotDue, RequireManualReconciliation,
                  RiskWithoutLiquidation, BarWithoutOrder, SaveCycle, CycleFails
    <2> QED BY <1>1, <2>1, SameRows, SoleAfter
  <1> QED BY <1>2, <1>3

LEMMA SubmittingSole ==
  ASSUME TypeInv, SoleExposedOrder, LoopInv, NEW p, Instance = {p}, HandHolds(p), Submitting(p)
  PROVE  SoleExposedOrder' /\ \A q \in Instance : HandHolds(q)'
  <1> USE DEF durable
  <1>1. /\ pc[p] \in InHand /\ cur[p] \in Intent
        /\ \A i \in Intent : Unresolved(i) => i = cur[p]
    BY DEF Submitting, MarkSubmitting, Send, Receive, RecordResponse, RecordSubmissionError,
           RecordTerminalObservation, RecordOpenObservation, HandHolds, OfLoop, InHand, InPass,
           TypeInv, TypeOK
  <1>2. \A i \in Intent : Unresolved(i)' => i = cur[p]
    <2>1. CASE order' = order
      BY <1>1, <2>1, SameRows
    <2>2. CASE \E l, s : SetRow(cur[p], l, s)
      BY <1>1, <2>2, RowRewritten
    <2> QED BY <2>1, <2>2
        DEF Submitting, MarkSubmitting, Send, Receive, RecordResponse, RecordSubmissionError,
            RecordTerminalObservation, RecordOpenObservation
  <1>3. SoleExposedOrder'
    BY <1>2 DEF SoleExposedOrder, Exposed
  <1>4. CASE MarkSubmitting(p) \/ Send(p) \/ Receive(p) \/ RecordResponse(p)
             \/ RecordTerminalObservation(p)
    <2>1. pc'[p] \in InHand \cup InPass /\ cur' = cur
      BY <1>4 DEF MarkSubmitting, Send, Receive, RecordResponse, RecordTerminalObservation,
                  Goto, InHand, InPass, TypeInv, TypeOK
    <2> QED BY <1>2, <2>1, SoleAfter
  <1>5. CASE RecordSubmissionError(p) \/ RecordOpenObservation(p)
    BY <1>3, <1>5, DieSole DEF RecordSubmissionError, RecordOpenObservation
  <1> QED BY <1>4, <1>5 DEF Submitting

LEMMA ReconcilingSole ==
  ASSUME TypeInv, SoleExposedOrder, LoopInv, NEW p, Instance = {p}, HandHolds(p), Reconciling(p)
  PROVE  SoleExposedOrder' /\ \A q \in Instance : HandHolds(q)'
  <1> USE DEF durable
  <1>0. cur[p] \in Intent /\ pc \in [Instance -> ProcessState]
    BY DEF TypeInv, TypeOK
  <1>1. CASE FinalizeZeroEffect(p) \/ Finalize(p)
    <2>1. PICK s : SetRow(cur[p], "TERMINAL", s)
      BY <1>1 DEF FinalizeZeroEffect, Finalize
    <2>2. SoleExposedOrder'
      BY <1>0, <2>1, RowRewritten
    <2>3. pc[p] \in InPass /\ Concluded(p)
      BY <1>1 DEF FinalizeZeroEffect, Finalize, InPass
    <2>4. CASE back[p] = "recover"
      <3>1. pc'[p] = "recover"
        BY <1>0, <2>3, <2>4 DEF Concluded, Goto
      <3> QED BY <2>2, <3>1, SoleAfter
    <2>5. CASE back[p] # "recover"
      <3>1. \A i \in Intent : Unresolved(i) => i = cur[p]
        BY <2>3, <2>5 DEF HandHolds, OfLoop
      <3>2. \A i \in Intent : ~Unresolved(i)'
        BY <1>0, <2>1, <3>1, RowRewritten
      <3> QED BY <3>2, SoleAfter
    <2> QED BY <2>4, <2>5
  <1>2. CASE JournalLookup(p) \/ AcquireSettlement(p) \/ ApplySettlement(p)
    <2>1. /\ pc[p] \in InPass /\ pc'[p] \in InPass
          /\ order' = order /\ cur' = cur /\ back' = back
      BY <1>0, <1>2 DEF JournalLookup, AcquireSettlement, ApplySettlement, Goto, InPass
    <2> QED BY <2>1, SameRows, SoleAfter DEF HandHolds, OfLoop
  <1>3. CASE ReconcileBlocked(p) \/ ApplyBlocked(p) \/ (~CanFinalize(cur[p]) /\ FinalizeBlocked(p))
    <2>1. Blocked(p) /\ order' = order
      <3>1. ASSUME ~CanFinalize(cur[p]), FinalizeBlocked(p) PROVE back[p] = "recover"
        BY <3>1 DEF FinalizeBlocked, LoopInv, PassAdvances, OfLoop
      <3> QED BY <1>3, <3>1 DEF ReconcileBlocked, ApplyBlocked, FinalizeBlocked
    <2>2. CASE back[p] = "recover"
      <3>1. pc'[p] = "recover"
        BY <1>0, <2>1, <2>2 DEF Blocked, Goto
      <3> QED BY <2>1, <3>1, SameRows, SoleAfter
    <2>3. CASE back[p] # "recover"
      BY <2>1, <2>3, SameRows, DieSole DEF Blocked
    <2> QED BY <2>2, <2>3
  <1>4. CASE RecordTransition(p)
    <2>1. order' = order /\ \A i \in Intent : ~Unresolved(i)
      BY <1>4 DEF RecordTransition, HandHolds
    <2> QED BY <2>1, SameRows, SoleAfter
  <1> QED BY <1>1, <1>2, <1>3, <1>4 DEF Reconciling, FinalizeOrder

LEMMA FailureSole ==
  ASSUME TypeInv, SoleExposedOrder, NEW p, Instance = {p}, Failure(p), faults' = 0
  PROVE  SoleExposedOrder' /\ \A q \in Instance : HandHolds(q)'
  <1>1. CASE Shutdown(p) \/ Crash(p)
    BY <1>1, SameRows, DieSole DEF Shutdown, Crash, durable
  <1>2. CASE StoreFault(p)
    BY <1>2 DEF StoreFault, TypeInv, TypeOK
  <1> QED BY <1>1, <1>2 DEF Failure

(* With one process on the store and no fault swallowed, nothing but the    *)
(* order in the loop's hand is unresolved: reservation, submission, recovery *)
(* and finalisation, through any restarts.                                  *)
LEMMA SoleInvariant ==
  ASSUME NEW p, Instance = {p}
  PROVE  Spec => []SoleInv
  <1>1. Init => SoleInv
    BY DEF Init, SoleInv, SoleExposedOrder, Exposed, Unresolved, HandHolds, Row
  <1>2. TypeInv /\ SafetyInv /\ BookInv /\ SoleInv /\ [Next]_vars => SoleInv'
    <2> SUFFICES ASSUME TypeInv, SafetyInv, BookInv, SoleInv, [Next]_vars, faults' = 0
                 PROVE  (SoleExposedOrder /\ \A q \in Instance : HandHolds(q))'
      BY DEF SoleInv
    <2>1. CASE UNCHANGED vars
      BY <2>1, SameRows DEF vars, durable, volatile, bounds, SoleInv, HandHolds, OfLoop
    <2>2. CASE \E i \in Intent : Venue(i)
      BY <2>2, SameRows DEF Venue, VenueFills, VenueDeclines, durable, volatile, bounds, SoleInv,
                            HandHolds, OfLoop
    <2>3. CASE \E q \in Instance : Step(q) \/ Failure(q)
      <3>1. p \in Instance /\ (Step(p) \/ Failure(p))
        BY <2>3
      <3>2. faults = 0
        BY <3>1, StepFrame DEF TypeInv, TypeOK
      <3> QED BY <3>1, <3>2, StartingSole, CyclingSole, SubmittingSole, ReconcilingSole,
                 FailureSole DEF Step, SoleInv, BookInv
    <2> QED BY <2>1, <2>2, <2>3 DEF Next
  <1> QED BY <1>1, <1>2, SafetyInvariant, BookInvariant, PTL DEF Spec

(* With one process on the store and no fault swallowed, no order is sent   *)
(* while another that the venue may know is unresolved.                     *)
THEOREM SoleOrder ==
  ASSUME NEW p, Instance = {p}
  PROVE  Spec /\ [](faults = 0) => []SoleExposedOrder
  <1>1. Spec => []SoleInv
    BY SoleInvariant
  <1>2. SoleInv /\ faults = 0 => SoleExposedOrder
    BY DEF SoleInv
  <1> QED BY <1>1, <1>2, PTL

(* A cycle decides on the truth: with one process and no fault swallowed,   *)
(* wherever the loop checks, halts, looks at a bar or saves, the position in *)
(* its memory is the one the venue holds and no order is unresolved, through *)
(* any crashes between submission, settlement, application and finalisation. *)
THEOREM CycleDecidesOnTruth ==
  ASSUME NEW p, Instance = {p}
  PROVE  Spec /\ [](faults = 0)
           => [](pc[p] \in CyclePhase => mem[p].qty = net /\ \A i \in Intent : ~Unresolved(i))
  <1>1. TypeInv /\ SafetyInv /\ BookInv /\ SoleInv /\ faults = 0
          => (pc[p] \in CyclePhase => mem[p].qty = net /\ \A i \in Intent : ~Unresolved(i))
    <2> SUFFICES ASSUME TypeInv, SafetyInv, BookInv, SoleInv, faults = 0, pc[p] \in CyclePhase
                 PROVE  mem[p].qty = net /\ \A i \in Intent : ~Unresolved(i)
      OBVIOUS
    <2>1. \A i \in Intent : ~Unresolved(i)
      BY DEF SoleInv, HandHolds
    <2>2. ASSUME NEW i \in Intent, fill[i] > 0 PROVE i \in applied
      <3>1. CASE order[i].local = "NONE"
        <4>1. venue[i] = "none"
          BY <3>1 DEF SafetyInv, SentOnce
        <4> QED BY <2>2, <4>1 DEF SafetyInv, EvidenceChain
      <3>2. CASE order[i].local = "TERMINAL"
        BY <2>2, <3>2, ClosedKept DEF NoLostEffect
      <3> QED BY <2>1, <3>1, <3>2 DEF Unresolved
    <2>3. engine.qty = net
      BY <2>2, BookKept DEF BookMatchesVenue
    <2>4. mem[p].qty = engine.qty
      <3>1. MemoryFollows(p)
        BY DEF BookInv, LoopInv
      <3>2. Current(p)
        BY DEF Current, OfLoop, InPass, CyclePhase
      <3> QED BY <3>1, <3>2 DEF MemoryFollows
    <2> QED BY <2>1, <2>3, <2>4
  <1>2. Spec => []SoleInv
    BY SoleInvariant
  <1> QED BY <1>1, <1>2, SafetyInvariant, BookInvariant, PTL
====
