----------------------------- MODULE PaperOrder -----------------------------
(***************************************************************************)
(* The PAPER order path of the trend runner: an intent is reserved with    *)
(* its financial plan, the local simulator answers, the answer is observed,*)
(* turned into evidence, applied to the engine state (E3) and finalised,   *)
(* each in a transaction of its own.  The process may die between any two  *)
(* of them; startup recovery (recovery.py) closes what it left.  One slot, *)
(* long positions; a state is compared by value where the code compares    *)
(* its SHA-256.                                                            *)
(***************************************************************************)
EXTENDS Naturals, FiniteSets

CONSTANTS
    MaxBar,    \* bound: closed bars
    MaxSeq,    \* bound: finalised orders
    MaxLot,    \* lots an entry asks for
    MaxCrash,  \* bound: kills of the process
    MaxFault   \* bound: store errors the loop swallows

ASSUME BoundsAssumption == MaxBar \in Nat /\ MaxSeq \in Nat /\ MaxLot \in Nat \ {0}
ASSUME FaultsAssumption == MaxCrash \in Nat /\ MaxFault \in Nat

VARIABLES
    orders,   \* the journal: row, plan and evidence of each intent
    draw,     \* the simulator's answer to an intent, a function of its id
    durable,  \* engine_state, the trend row
    mem,      \* the runner's memory
    up,       \* the process
    phase,    \* where in the cycle the loop is
    hand,     \* the order in hand
    bars,     \* bars closed so far
    crashes, faults  \* bounded counters

vars == <<orders, draw, durable, mem, up, phase, hand, bars, crashes, faults>>

-----------------------------------------------------------------------------
(* State of the engine and of the journal. *)

\* bar 0 stands for the tick (soft stop, kill switch): its checkpoint names the
\* position, so with the sequence it names one intent.
Ids == [bar : 0 .. MaxBar, seq : 0 .. MaxSeq]
NoId == [bar |-> 0, seq |-> MaxSeq + 1]

NoContext == [id |-> NoId, answered |-> FALSE]
Contexts == [id : Ids \cup {NoId}, answered : BOOLEAN]
Engine == [pos : 0 .. MaxLot, seq : 0 .. MaxSeq, bar : 0 .. MaxBar,
           marks : SUBSET Ids, context : Contexts, risk : 0 .. 1]
NoState == [pos |-> MaxLot + 1]

Results == {"REJECTED", "PARTIAL_TERMINAL", "FILLED"}
Locals == {"absent", "INTENT_CREATED", "SUBMITTING", "PENDING_RECONCILIATION", "TERMINAL"}
Statuses == {"PENDING", "FAILED", "RECOVERED_ABORTED", "PARTIAL", "FILLED"}

Row == [local : Locals, status : Statuses, exit : BOOLEAN, req : 0 .. MaxLot,
        pre : Engine \cup {NoState}, external : Results \cup {"none"},
        fill : 0 .. MaxLot, after : Engine \cup {NoState}]
NoOrder == [local |-> "absent", status |-> "PENDING", exit |-> FALSE, req |-> 0, pre |-> NoState,
            external |-> "none", fill |-> 0, after |-> NoState]

Unresolved(id) == orders[id].local \notin {"absent", "TERMINAL"}
Applied(id) == orders[id].after # NoState

\* The answer the simulator gives for this intent: a fill is a positive part.
Filled(id) ==
    CASE draw[id] = "REJECTED" -> 0
      [] draw[id] = "PARTIAL_TERMINAL" -> 1
      [] OTHER -> orders[id].req

Steps == {"none", "reserved", "submitting", "answered", "observed", "persisted", "applied",
          "reloaded", "closed", "finalized"}
Idle == [id |-> NoId, step |-> "none"]
Frame == UNCHANGED <<bars, crashes, faults>>

-----------------------------------------------------------------------------
(* How an error ends: ReconciliationRequired stops the process, anything   *)
(* else is logged and the next cycle begins.                               *)

\* Memory is lost: what is left of it is what the next start loads.
Stop == up' = "down" /\ hand' = Idle /\ phase' = "risk" /\ mem' = durable
NextCycle == up' = up /\ hand' = Idle /\ phase' = "risk"
Take(id, step) == hand' = [id |-> id, step |-> step] /\ UNCHANGED <<up, phase>>
Holding(step) == up = "loop" /\ hand.step = step
Release == hand' = Idle /\ UNCHANGED <<up, phase>>

-----------------------------------------------------------------------------
(* Submission: _execute_market_order and submit_market. *)

\* insert_market_order_in_transaction: the row of a new intent.
NewIntent(exit, qty) == [NoOrder EXCEPT !.local = "INTENT_CREATED", !.exit = exit, !.req = qty]

\* _insert_financial_application_plan: the state it will be applied to.
Planned(order, pre) == [order EXCEPT !.pre = pre]

\* Mutated form: the plan is made before the execution context is set.
ReservePlanEarly(id, exit, qty) ==
    LET pre == [mem EXCEPT !.bar = IF id.bar = 0 THEN mem.bar ELSE id.bar,
                           !.context = [id |-> id, answered |-> FALSE]] IN
    /\ orders[id].local = "absent"
    /\ orders' = [orders EXCEPT ![id] = Planned(NewIntent(exit, qty), mem)]
    /\ durable' = pre
    /\ mem' = pre
    /\ Take(id, "reserved")

\* reserve_market_order_with_application_plan: the order, its plan and the
\* state the plan was made from, in one commit.
Reserve(id, exit, qty) ==
    LET pre == [mem EXCEPT !.bar = IF id.bar = 0 THEN mem.bar ELSE id.bar,
                           !.context = [id |-> id, answered |-> FALSE]] IN
    /\ orders[id].local = "absent"
    /\ orders' = [orders EXCEPT ![id] = Planned(NewIntent(exit, qty), pre)]
    /\ durable' = pre
    /\ mem' = pre
    /\ Take(id, "reserved")

\* _plan_from_row: the plan as it was persisted.
PersistedPlan(id) == orders[id].pre

\* The durable plan is reused exactly, and only from the state it was made from.
PlanStillHolds(id) == PersistedPlan(id) = durable /\ PersistedPlan(id) = mem

\* reclaim_safe_market_order.
Reclaimable(id) ==
    /\ orders[id].status \in {"RECOVERED_ABORTED", "FAILED"}
    /\ orders[id].local = "TERMINAL"
    /\ orders[id].external = "none"

Reclaim(id) ==
    /\ orders[id].local # "absent"
    /\ PlanStillHolds(id) /\ Reclaimable(id)
    /\ orders' = [orders EXCEPT ![id].status = "PENDING", ![id].local = "SUBMITTING"]
    /\ Take(id, "submitting")
    /\ UNCHANGED <<durable, mem>>

\* FinancialTransitionAlreadyReserved, or a state that left the plan behind.
RefuseSubmission(id) ==
    /\ orders[id].local # "absent"
    /\ ~(PlanStillHolds(id) /\ Reclaimable(id))
    /\ Stop
    /\ UNCHANGED <<orders, durable>>

MarkSubmitting ==
    /\ Holding("reserved")
    /\ orders' = [orders EXCEPT ![hand.id].local = "SUBMITTING"]
    /\ Take(hand.id, "submitting")
    /\ UNCHANGED <<draw, durable, mem>> /\ Frame

\* The simulator answers the same thing each time it is asked: its rejection
\* draw depends on the seed and the order's id, the rest on the plan.
Execute ==
    /\ Holding("submitting")
    /\ \E r \in Results :
        /\ draw[hand.id] \in {"none", r}
        /\ r = "PARTIAL_TERMINAL" => orders[hand.id].req > 1
        /\ draw' = [draw EXCEPT ![hand.id] = r]
    /\ Take(hand.id, "answered")
    /\ UNCHANGED <<orders, durable, mem>> /\ Frame

\* The simulator raises: no external effect, the loop goes on.
ExecuteFails ==
    /\ Holding("submitting")
    /\ orders' = [orders EXCEPT ![hand.id].status = "FAILED", ![hand.id].local = "TERMINAL"]
    /\ NextCycle
    /\ UNCHANGED <<draw, durable, mem>> /\ Frame

\* record_order_observation; the execution context takes the answer's time.
Observe ==
    /\ Holding("answered")
    /\ orders' = [orders EXCEPT ![hand.id].local = "PENDING_RECONCILIATION",
                                ![hand.id].external = draw[hand.id]]
    /\ mem' = [mem EXCEPT !.context.answered = TRUE]
    /\ Take(hand.id, "observed")
    /\ UNCHANGED <<draw, durable>> /\ Frame

-----------------------------------------------------------------------------
(* Reconciliation: evidence, application, finalisation. *)

\* persist_paper_execution_evidence: observation, optional fill, zero-effect
\* proof. Without a fill nothing is applicable and the order stays pending.
PersistEvidence ==
    /\ Holding("observed")
    /\ orders' = [orders EXCEPT ![hand.id].fill = Filled(hand.id)]
    /\ Take(hand.id, IF Filled(hand.id) > 0 THEN "persisted" ELSE "finalized")
    /\ UNCHANGED <<draw, durable, mem>> /\ Frame

Effect(id, s) ==
    [s EXCEPT !.pos = IF orders[id].exit THEN @ - orders[id].fill ELSE @ + orders[id].fill]

\* apply_financial_fill_atomically: once per fill, from the plan's pre-state.
CanApply(id) ==
    /\ orders[id].fill > 0 /\ orders[id].local = "PENDING_RECONCILIATION"
    /\ ~Applied(id)
    /\ durable = orders[id].pre

ApplyFill(id) ==
    /\ CanApply(id)
    /\ orders' = [orders EXCEPT ![id].after = Effect(id, durable)]
    /\ durable' = Effect(id, durable)

Apply ==
    /\ Holding("persisted")
    /\ ApplyFill(hand.id)
    /\ Take(hand.id, "applied")
    /\ UNCHANGED <<draw, mem>> /\ Frame

\* A store error in reconcile, before or after the commit of the application:
\* not a ReconciliationRequired, so the loop goes on with the memory it had.
ReconcileFails ==
    /\ Holding("persisted") \/ Holding("applied")
    /\ faults < MaxFault
    /\ faults' = faults + 1
    /\ NextCycle
    /\ UNCHANGED <<orders, draw, durable, mem, bars, crashes>>

\* Mutated form: the loop keeps its own memory of the position.
LoadStateKept == mem' = mem

\* _load_state: the durable row replaces the memory.
LoadState == mem' = durable

ReloadApplied ==
    /\ Holding("applied")
    /\ LoadState
    /\ Take(hand.id, "reloaded")
    /\ UNCHANGED <<orders, draw, durable>> /\ Frame

\* finalize_paper_order_atomically: terminal order and next sequence together.
CanFinalize(id) ==
    /\ orders[id].local = "PENDING_RECONCILIATION"
    /\ orders[id].external \in {"FILLED", "PARTIAL_TERMINAL"}
    /\ durable = orders[id].after
    /\ durable.seq = id.seq

FinalizeOrder(id) ==
    /\ CanFinalize(id)
    /\ orders' = [orders EXCEPT ![id].local = "TERMINAL",
                     ![id].status = IF orders[id].external = "FILLED" THEN "FILLED" ELSE "PARTIAL"]
    /\ durable' = [durable EXCEPT !.seq = id.seq + 1]

Finalize ==
    /\ Holding("reloaded")
    /\ FinalizeOrder(hand.id)
    /\ Take(hand.id, "closed")
    /\ UNCHANGED <<draw, mem>> /\ Frame

ReloadFinalized ==
    /\ Holding("closed")
    /\ LoadState
    /\ Take(hand.id, "finalized")
    /\ UNCHANGED <<orders, draw, durable>> /\ Frame

\* _record_position_transition: the timeline, then the whole memory is saved.
RecordTransition ==
    /\ Holding("finalized")
    /\ mem' = [mem EXCEPT !.marks = @ \cup {hand.id}]
    /\ durable' = mem'
    /\ Release
    /\ UNCHANGED <<orders, draw>> /\ Frame

-----------------------------------------------------------------------------
(* One cycle of the loop: risk, soft stops, closed bars, checkpoint. *)

Turn(p) == up = "loop" /\ hand = Idle /\ phase = p
Move(p) == phase' = p /\ UNCHANGED <<up, hand>>

\* peak equity and the day of the risk limits live in the saved state.
UpdateRisk ==
    /\ Turn("risk")
    /\ Move("stops")
    /\ \E r \in mem.risk .. 1 : mem' = [mem EXCEPT !.risk = r]
    /\ UNCHANGED <<orders, draw, durable>> /\ Frame

\* _check_soft_stops and _liquidate_if_halted, when they trigger.
SoftStop ==
    /\ Turn("stops")
    /\ mem.pos > 0
    /\ mem.seq < MaxSeq
    /\ LET id == [bar |-> 0, seq |-> mem.seq] IN
       \/ Reserve(id, TRUE, mem.pos) /\ UNCHANGED draw
       \/ Reclaim(id) /\ UNCHANGED draw
       \/ RefuseSubmission(id) /\ UNCHANGED draw
    /\ Frame

NoStop ==
    /\ Turn("stops")
    /\ Move("bars")
    /\ UNCHANGED <<orders, draw, durable, mem>> /\ Frame

\* The bar is marked processed before its order is submitted.
CloseBar ==
    /\ Turn("bars")
    /\ bars < MaxBar
    /\ mem.seq < MaxSeq
    /\ bars' = bars + 1
    /\ Reserve([bar |-> bars + 1, seq |-> mem.seq], mem.pos > 0, IF mem.pos > 0 THEN mem.pos ELSE MaxLot)
    /\ UNCHANGED <<draw, crashes, faults>>

NoBar ==
    /\ Turn("bars")
    /\ Move("save")
    /\ UNCHANGED <<orders, draw, durable, mem>> /\ Frame

SaveState ==
    /\ Turn("save")
    /\ Move("risk")
    /\ durable' = mem
    /\ UNCHANGED <<orders, draw, mem>> /\ Frame

-----------------------------------------------------------------------------
(* Crash, restart and recover_interrupted_orders. *)

Crash ==
    /\ up \in {"loop", "recovering"}
    /\ crashes < MaxCrash
    /\ crashes' = crashes + 1
    /\ Stop
    /\ UNCHANGED <<orders, draw, durable, bars, faults>>

Start ==
    /\ up = "down"
    /\ up' = "recovering"
    /\ LoadState
    /\ UNCHANGED <<orders, draw, durable, phase, hand>> /\ Frame

Recovering(id) ==
    /\ up = "recovering"
    /\ Unresolved(id)
    /\ UNCHANGED <<draw, mem, phase, hand>> /\ Frame

\* _project_paper_events: the evidence is written whole, so that its projection
\* has a fill or none.
HasDurableFill(id) == orders[id].fill > 0

\* Nothing durable says the order had an effect.
WithoutEffect(id) == ~HasDurableFill(id)

\* The simulator was never asked.
RecoverUnsubmitted(id) ==
    /\ Recovering(id)
    /\ orders[id].local = "INTENT_CREATED"
    /\ orders' = [orders EXCEPT ![id].status = "RECOVERED_ABORTED", ![id].local = "TERMINAL"]
    /\ UNCHANGED <<durable, up>>

RecoverAbort(id) ==
    /\ Recovering(id)
    /\ orders[id].local # "INTENT_CREATED"
    /\ WithoutEffect(id)
    /\ orders' = [orders EXCEPT ![id].status = "RECOVERED_ABORTED", ![id].local = "TERMINAL",
                                ![id].external = "none"]
    /\ UNCHANGED <<durable, up>>

RecoverApply(id) ==
    /\ Recovering(id)
    /\ ApplyFill(id)
    /\ UNCHANGED up

RecoverFinalize(id) ==
    /\ Recovering(id)
    /\ FinalizeOrder(id)
    /\ UNCHANGED up

\* A durable fill that can be neither applied nor finalised: the constructor
\* raises once every order has been looked at, and again at each start.
RecoverManual(id) ==
    /\ Recovering(id)
    /\ ~WithoutEffect(id) /\ ~CanApply(id) /\ ~CanFinalize(id)
    /\ \A i \in Ids : Unresolved(i) => ~WithoutEffect(i) /\ ~CanApply(i) /\ ~CanFinalize(i)
    /\ up' = "manual"
    /\ UNCHANGED <<orders, durable>>

\* _reconstruct_missing_position_timelines, from the applications.
Reconstructed(s) ==
    IF s.pos > 0 /\ s.marks = {}
    THEN [s EXCEPT !.marks = {id \in Ids : Applied(id)}]
    ELSE s

FinishRecovery ==
    /\ up = "recovering"
    /\ \A id \in Ids : ~Unresolved(id)
    /\ mem' = Reconstructed(durable)
    /\ durable' = Reconstructed(durable)
    /\ up' = "loop" /\ phase' = "risk"
    /\ UNCHANGED <<orders, draw, hand>> /\ Frame

-----------------------------------------------------------------------------

Init ==
    /\ orders = [id \in Ids |-> NoOrder]
    /\ draw = [id \in Ids |-> "none"]
    /\ durable = [pos |-> 0, seq |-> 0, bar |-> 0, marks |-> {}, context |-> NoContext, risk |-> 0]
    /\ mem = durable
    /\ up = "loop" /\ phase = "risk" /\ hand = Idle
    /\ bars = 0 /\ crashes = 0 /\ faults = 0

Order ==
    \/ MarkSubmitting \/ Execute \/ Observe \/ PersistEvidence \/ Apply
    \/ ReloadApplied \/ Finalize \/ ReloadFinalized \/ RecordTransition
Cycle == UpdateRisk \/ SoftStop \/ NoStop \/ CloseBar \/ NoBar \/ SaveState
Recover ==
    \/ Start \/ FinishRecovery
    \/ \E id \in Ids :
           \/ RecoverUnsubmitted(id) \/ RecoverAbort(id)
           \/ RecoverApply(id) \/ RecoverFinalize(id) \/ RecoverManual(id)

Next == Order \/ Cycle \/ Recover \/ Crash \/ ExecuteFails \/ ReconcileFails

\* The process computes until it ends.  Nothing is assumed of its restarts: systemd gives
\* up after five starts in ten minutes.
Fairness == WF_vars(Order) /\ WF_vars(up # "down" /\ Recover)

Spec == Init /\ [][Next]_vars /\ Fairness

-----------------------------------------------------------------------------
(* Properties. *)

TypeOK ==
    /\ orders \in [Ids -> Row] /\ draw \in [Ids -> Results \cup {"none"}]
    /\ durable \in Engine /\ mem \in Engine
    /\ up \in {"loop", "down", "recovering", "manual"} /\ phase \in {"risk", "stops", "bars", "save"}
    /\ hand \in [id : Ids \cup {NoId}, step : Steps]
    /\ bars \in 0 .. MaxBar /\ crashes \in 0 .. MaxCrash /\ faults \in 0 .. MaxFault

\* The lots that entries, or exits, applied.
Lots(exit) ==
    {u \in Ids \X (1 .. MaxLot) :
        /\ Applied(u[1]) /\ orders[u[1]].exit = exit
        /\ u[2] <= orders[u[1]].fill}

\* The position the engine state holds is what the applied fills add up to, and
\* the memory agrees between two orders, whatever crashes happened: no restart,
\* retry or checkpoint applies a fill twice or writes over one. (A store error
\* after the application breaks this: the loop goes on with its old memory.)
BookIsLedger ==
    faults = 0 =>
        /\ durable.pos + Cardinality(Lots(TRUE)) = Cardinality(Lots(FALSE))
        /\ up = "loop" /\ hand = Idle => mem.pos = durable.pos

\* An order whose fill is durable is finalised, by the process that executed it
\* or by the recovery of a later one, provided that one is started.
DurableFillIsFinalised ==
    []<>(up # "down") =>
        \A id \in Ids : orders[id].fill > 0 ~> (orders[id].local = "TERMINAL" \/ faults > 0)
=============================================================================
