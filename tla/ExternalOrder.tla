---- MODULE ExternalOrder ----
(***************************************************************************)
(* The trend engine's market orders against an external venue: the runner   *)
(* processes that may be started, the flock that lets one of them loop, the *)
(* durable journal (order row, financial plan, submission responses,        *)
(* settlement, application, engine checkpoint), the venue, and the crashes, *)
(* lost replies and store faults between any two durable steps.             *)
(*                                                                         *)
(* One step is one SQLite transaction (BEGIN IMMEDIATE ... COMMIT), one     *)
(* venue interaction or one in-memory phase of the cycle; a crash may fall  *)
(* between any two.  One slot: position reconciliation refuses several.     *)
(***************************************************************************)
EXTENDS OrderTypes, FiniteSets

CONSTANTS
    Instance,     \* runner processes that may be started on the same store
    NoInstance,   \* the lock's value when nobody holds it
    MaxCrash,     \* bound on crashes
    MaxFault      \* bound on store faults the loop's catch-all swallows

ASSUME InstanceAssumption == NoInstance \notin Instance
ASSUME FaultAssumption == MaxCrash \in Nat /\ MaxFault \in Nat

VARIABLES
    order,        \* [Intent -> OrderRow]: table orders
    plan,         \* [Intent -> Payload]: pre-state of the financial application plan
    responses,    \* [Intent -> SUBSET Response]: durable submission responses
    looked,       \* [Intent -> Lookups]: passes that journaled the terminal order snapshot
    settlement,   \* [Intent -> Quantity]: complete settlement persisted (0: none)
    applied,      \* SUBSET Intent: financial_settlement_applications
    engine,       \* Payload: the row engine_state of "trend"
    venue,        \* [Intent -> VenueState]
    fill,         \* [Intent -> Quantity]: quantity the venue executed
    sent,         \* [Intent -> Nat]: create_order calls made
    net,          \* the venue's net position
    lock,         \* holder of the flock
    pc, mem, cur, back, reply, manual,   \* volatile state of each process
    crashes, faults

durable == <<order, plan, responses, looked, settlement, applied, engine>>
exchange == <<venue, fill, sent, net>>
volatile == <<pc, mem, cur, back, reply, manual>>
bounds == <<crashes, faults>>
vars == <<durable, exchange, lock, volatile, bounds>>

VenueState == {"none", "pending", "filled", "noMatch", "rejected"}

(* How the broker call ended: an exception, or a returned order that is     *)
(* terminal, still resting, or of unknown state.                            *)
Reply == [outcome: Outcome, qty: Quantity, how: {"raised", "terminal", "resting", "unknown"}]
NoReply == [outcome |-> "UNCOMMITTED", qty |-> 0, how |-> "raised"]
NoIntent == [kind |-> "ENTER", checkpoint |-> 0, seq |-> 0]

(* Passes whose order lookup is in the append-only evidence journal.        *)
Lookups == {"no", "once", "again"}

CyclePhase == {"check", "risk", "bars", "save"}
OrderPhase == {"reserved", "submitting", "waiting", "replied", "responded",
               "reconcile", "settle", "apply", "finalize", "record"}
ProcessState == {"down", "recover", "built", "prepare"} \cup CyclePhase \cup OrderPhase

Init ==
    /\ order = [i \in Intent |-> Row("NONE", "NONE")]
    /\ plan = [i \in Intent |-> FreshPayload]
    /\ responses = [i \in Intent |-> {}]
    /\ looked = [i \in Intent |-> "no"]
    /\ settlement = [i \in Intent |-> 0]
    /\ applied = {}
    /\ engine = FreshPayload
    /\ venue = [i \in Intent |-> "none"]
    /\ fill = [i \in Intent |-> 0]
    /\ sent = [i \in Intent |-> 0]
    /\ net = 0
    /\ lock = NoInstance
    /\ pc = [p \in Instance |-> "down"]
    /\ mem = [p \in Instance |-> FreshPayload]
    /\ cur = [p \in Instance |-> NoIntent]
    /\ back = [p \in Instance |-> "check"]
    /\ reply = [p \in Instance |-> NoReply]
    /\ manual = [p \in Instance |-> {}]
    /\ crashes = 0 /\ faults = 0

(* A definition called a mutant is a deliberate mistake: each property is   *)
(* violated when one of them takes the place of the definition it names.    *)
(* No specification uses them.                                              *)

(* -- helpers ------------------------------------------------------------ *)

Unresolved(i) == order[i].local \notin {"NONE", "TERMINAL"}

Requested(i) == IF i.kind = "ENTER" THEN Lot ELSE plan[i].qty

Committed(i) ==
    \E r \in responses[i] :
        /\ r.outcome = "FILLED_COMMITMENT"
        /\ \A s \in responses[i] : s.outcome = "FILLED_COMMITMENT" => s = r

CommittedQty(i) == (CHOOSE r \in responses[i] : r.outcome = "FILLED_COMMITMENT").qty

ProvenNoMatch(i) ==
    \E r \in responses[i] : r.outcome = "DETERMINISTIC_IOC_NO_MATCH"

(* calculate_financial_order_settlement: the post-state is computed from    *)
(* the plan's pre-state and nothing else.                                   *)
Applied(i) ==
    [plan[i] EXCEPT !.qty = IF i.kind = "ENTER" THEN settlement[i]
                                                ELSE plan[i].qty - settlement[i]]

(* _checkpoint_payload: an ordinary checkpoint cannot clear a durable latch. *)
Checkpoint(payload) == [payload EXCEPT !.latch = payload.latch \/ engine.latch]

SetRow(i, l, s) == order' = [order EXCEPT ![i] = Row(l, s)]

Goto(p, l) == pc' = [pc EXCEPT ![p] = l]

(* The process dies: the kernel drops its flock, its memory is gone. *)
Die(p) ==
    /\ pc' = [pc EXCEPT ![p] = "down"]
    /\ mem' = [mem EXCEPT ![p] = FreshPayload]
    /\ cur' = [cur EXCEPT ![p] = NoIntent]
    /\ back' = [back EXCEPT ![p] = "check"]
    /\ reply' = [reply EXCEPT ![p] = NoReply]
    /\ manual' = [manual EXCEPT ![p] = {}]
    /\ lock' = IF lock = p THEN NoInstance ELSE lock

(* -- construction and startup recovery ---------------------------------- *)

(* LiveRunner.__init__ up to the recovery: startup lock, load, latch test.  *)
(* A latched engine refuses to start and stays down.                        *)
Boot(p) ==
    /\ pc[p] = "down" /\ lock = NoInstance
    /\ ~engine.latch
    /\ lock' = p
    /\ Goto(p, "recover")
    /\ mem' = [mem EXCEPT ![p] = engine]
    /\ UNCHANGED <<durable, exchange, cur, back, reply, manual, bounds>>

(* Mutant of RecoverAbort: an order being submitted is aborted as well. *)
RecoverAbortSubmitting(p) ==
    /\ pc[p] = "recover"
    /\ \E i \in Intent :
         /\ order[i].local \in {"INTENT_CREATED", "SUBMITTING"}
         /\ SetRow(i, "TERMINAL", "RECOVERED_ABORTED")
    /\ UNCHANGED <<plan, responses, looked, settlement, applied, engine, exchange, lock, volatile, bounds>>

(* An intent that never reached SUBMITTING is aborted locally. *)
RecoverAbort(p) ==
    /\ pc[p] = "recover"
    /\ \E i \in Intent :
         /\ order[i].local = "INTENT_CREATED"
         /\ SetRow(i, "TERMINAL", "RECOVERED_ABORTED")
    /\ UNCHANGED <<plan, responses, looked, settlement, applied, engine, exchange, lock, volatile, bounds>>

(* Every other unresolved order goes through one reconciliation pass. *)
RecoverOrder(p) ==
    /\ pc[p] = "recover"
    /\ \E i \in Intent :
         /\ Unresolved(i) /\ order[i].local # "INTENT_CREATED"
         /\ i \notin manual[p]
         /\ cur' = [cur EXCEPT ![p] = i]
    /\ back' = [back EXCEPT ![p] = "recover"]
    /\ Goto(p, "reconcile")
    /\ UNCHANGED <<durable, exchange, lock, mem, reply, manual, bounds>>

(* Mutant of FinishRecovery: it does not wait for the unresolved orders. *)
FinishRecoveryEager(p) ==
    /\ pc[p] = "recover"
    /\ mem' = [mem EXCEPT ![p] = engine]
    /\ lock' = NoInstance
    /\ Goto(p, "built")
    /\ UNCHANGED <<durable, exchange, cur, back, reply, manual, bounds>>

(* Nothing needs an operator: reload, release the startup lock.  The loop   *)
(* lock is taken later, by run_forever.                                     *)
FinishRecovery(p) ==
    /\ pc[p] = "recover"
    /\ manual[p] = {}
    /\ \A i \in Intent : ~Unresolved(i)
    /\ mem' = [mem EXCEPT ![p] = engine]
    /\ lock' = NoInstance
    /\ Goto(p, "built")
    /\ UNCHANGED <<durable, exchange, cur, back, reply, manual, bounds>>

(* An order is left to the operator: incident, and the constructor raises. *)
RefuseStart(p) ==
    /\ pc[p] = "recover"
    /\ manual[p] # {}
    /\ \A i \in Intent : Unresolved(i) => i \in manual[p]
    /\ Die(p)
    /\ UNCHANGED <<durable, exchange, bounds>>

(* run_forever: loop lock, authoritative reload, latch test, then loop. *)
RunForever(p) ==
    /\ pc[p] = "built" /\ lock = NoInstance
    /\ ~engine.latch
    /\ lock' = p
    /\ mem' = [mem EXCEPT ![p] = engine]
    /\ Goto(p, "prepare")
    /\ UNCHANGED <<durable, exchange, cur, back, reply, manual, bounds>>

RunForeverRefused(p) ==
    /\ pc[p] = "built"
    /\ lock # NoInstance \/ engine.latch
    /\ Die(p)
    /\ UNCHANGED <<durable, exchange, bounds>>

(* -- the trading cycle -------------------------------------------------- *)

(* Position rapprochement: forced before the first cycle, on a cadence      *)
(* afterwards (hence the skip).  A divergence or a failed lookup latches    *)
(* the engine durably and stops the process.                                *)
PositionAgrees(p) ==
    /\ pc[p] \in {"prepare", "check"}
    /\ mem[p].qty = net
    /\ Goto(p, "risk")
    /\ UNCHANGED <<durable, exchange, lock, mem, cur, back, reply, manual, bounds>>

PositionCheckNotDue(p) ==
    /\ pc[p] = "check"
    /\ Goto(p, "risk")
    /\ UNCHANGED <<durable, exchange, lock, mem, cur, back, reply, manual, bounds>>

(* Mutant of RequireManualReconciliation: the latch is set, nothing is saved *)
(* and nothing raised.                                                      *)
RequireManualInMemory(p) ==
    /\ pc[p] \in {"prepare", "check"}
    /\ mem' = [mem EXCEPT ![p] = [mem[p] EXCEPT !.latch = TRUE]]
    /\ Goto(p, "risk")
    /\ UNCHANGED <<durable, exchange, lock, cur, back, reply, manual, bounds>>

(* Enabled whatever the quantities: the lookup itself may fail. *)
RequireManualReconciliation(p) ==
    /\ pc[p] \in {"prepare", "check"}
    /\ engine' = [mem[p] EXCEPT !.latch = TRUE]
    /\ Die(p)
    /\ UNCHANGED <<order, plan, responses, looked, settlement, applied, exchange, bounds>>

(* submit_market up to the reservation.  A new intent commits the order row,*)
(* the plan and the pre-submission checkpoint together; a known one goes    *)
(* further only if durable and in-memory states are the plan's pre-state    *)
(* and the row is a clean local abort.  Everything else is refused with     *)
(* ReconciliationRequired, which stops the process.                         *)
ReserveNew(p, i, m) ==
    /\ order[i].local = "NONE" /\ ~engine.latch
    /\ SetRow(i, "INTENT_CREATED", "PENDING")
    /\ plan' = [plan EXCEPT ![i] = m]
    /\ engine' = m
    /\ mem' = [mem EXCEPT ![p] = m]
    /\ cur' = [cur EXCEPT ![p] = i]
    /\ Goto(p, "reserved")
    /\ UNCHANGED <<lock, reply, manual>>

(* Mutant of Reclaimable: an order that may have been sent is taken again. *)
ReclaimablePending(i, m) ==
    order[i].status \in {"RECOVERED_ABORTED", "PENDING"} /\ engine = plan[i] /\ m = plan[i]

Reclaimable(i, m) ==
    order[i].status = "RECOVERED_ABORTED" /\ engine = plan[i] /\ m = plan[i]

Reclaim(p, i, m) ==
    /\ Reclaimable(i, m)
    /\ SetRow(i, "SUBMITTING", "PENDING")
    /\ mem' = [mem EXCEPT ![p] = m]
    /\ cur' = [cur EXCEPT ![p] = i]
    /\ Goto(p, "submitting")
    /\ UNCHANGED <<plan, engine, lock, reply, manual>>

RefuseReservation(p, i, m) ==
    /\ IF order[i].local = "NONE" THEN engine.latch ELSE ~Reclaimable(i, m)
    /\ Die(p)
    /\ UNCHANGED <<order, plan, engine>>

PlaceOrder(p, i, m, phase) ==
    /\ \/ /\ ReserveNew(p, i, m) \/ Reclaim(p, i, m)
          /\ back' = [back EXCEPT ![p] = phase]
       \/ RefuseReservation(p, i, m)
    /\ UNCHANGED <<responses, looked, settlement, applied, exchange, bounds>>

IntentOf(kind, checkpoint, m) == [kind |-> kind, checkpoint |-> checkpoint, seq |-> m.seq]

(* _update_kill_switches then _liquidate_if_halted: the halt is sticky, and *)
(* a halted engine asks to close its position before anything else.         *)
RiskState(p) == {[mem[p] EXCEPT !.halted = h] : h \in {mem[p].halted, TRUE}}

RiskWithoutLiquidation(p) ==
    /\ pc[p] = "risk"
    /\ \E m \in RiskState(p) :
         /\ ~m.halted \/ m.qty = 0
         /\ mem' = [mem EXCEPT ![p] = m]
    /\ Goto(p, "bars")
    /\ UNCHANGED <<durable, exchange, lock, cur, back, reply, manual, bounds>>

LiquidateIfHalted(p) ==
    /\ pc[p] = "risk"
    /\ \E m \in RiskState(p) :
         /\ m.halted /\ m.qty > 0 /\ m.seq < MaxSeq
         /\ PlaceOrder(p, IntentOf("EXIT", 0, m), m, "bars")

(* A due bar is marked in memory before its decision acts; the decision is  *)
(* to enter when flat and not halted, to exit when in position, or nothing. *)
NextBar(p) == [mem[p] EXCEPT !.bar = mem[p].bar + 1]

BarWithoutOrder(p) ==
    /\ pc[p] = "bars"
    /\ \/ mem' = mem
       \/ mem[p].bar < MaxBar /\ mem' = [mem EXCEPT ![p] = NextBar(p)]
    /\ Goto(p, "save")
    /\ UNCHANGED <<durable, exchange, lock, cur, back, reply, manual, bounds>>

BarEnters(p) ==
    /\ pc[p] = "bars"
    /\ mem[p].bar < MaxBar /\ mem[p].seq < MaxSeq
    /\ mem[p].qty = 0 /\ ~mem[p].halted
    /\ PlaceOrder(p, IntentOf("ENTER", mem[p].bar + 1, mem[p]), NextBar(p), "save")

BarExits(p) ==
    /\ pc[p] = "bars"
    /\ mem[p].bar < MaxBar /\ mem[p].seq < MaxSeq
    /\ mem[p].qty > 0
    /\ PlaceOrder(p, IntentOf("EXIT", mem[p].bar + 1, mem[p]), NextBar(p), "save")

(* The checkpoint that ends a cycle. *)
SaveCycle(p) ==
    /\ pc[p] = "save"
    /\ engine' = Checkpoint(mem[p])
    /\ Goto(p, "check")
    /\ UNCHANGED <<order, plan, responses, looked, settlement, applied, exchange, lock,
                   mem, cur, back, reply, manual, bounds>>

(* The stop event is seen at the top of the loop: final checkpoint, exit. *)
Shutdown(p) ==
    /\ pc[p] = "check"
    /\ engine' = Checkpoint(mem[p])
    /\ Die(p)
    /\ UNCHANGED <<order, plan, responses, looked, settlement, applied, exchange, bounds>>

(* A market-data failure anywhere in the cycle: logged, and "on continue".  *)
CycleFails(p) ==
    /\ pc[p] \in {"risk", "bars", "save"}
    /\ Goto(p, "check")
    /\ UNCHANGED <<durable, exchange, lock, mem, cur, back, reply, manual, bounds>>

(* -- one submission ----------------------------------------------------- *)

MarkSubmitting(p) ==
    /\ pc[p] = "reserved"
    /\ order[cur[p]].local = "INTENT_CREATED"
    /\ SetRow(cur[p], "SUBMITTING", "PENDING")
    /\ Goto(p, "submitting")
    /\ UNCHANGED <<plan, responses, looked, settlement, applied, engine, exchange, lock,
                   mem, cur, back, reply, manual, bounds>>

(* The one create_order call of the submission; it is never retried. *)
Send(p) ==
    /\ pc[p] = "submitting"
    /\ sent' = [sent EXCEPT ![cur[p]] = @ + 1]
    /\ venue' = [venue EXCEPT ![cur[p]] = IF @ = "none" THEN "pending" ELSE @]
    /\ Goto(p, "waiting")
    /\ UNCHANGED <<durable, fill, net, lock, mem, cur, back, reply, manual, bounds>>

(* The venue acts on a request it received, whether or not its sender still *)
(* lives.  An exit is reduce-only.                                          *)
VenueFills(i) ==
    /\ venue[i] = "pending"
    /\ \E q \in 1 .. Requested(i) :
         /\ i.kind = "EXIT" => q <= net
         /\ fill' = [fill EXCEPT ![i] = q]
         /\ net' = IF i.kind = "ENTER" THEN net + q ELSE net - q
    /\ venue' = [venue EXCEPT ![i] = "filled"]
    /\ UNCHANGED <<durable, sent, lock, volatile, bounds>>

(* No match for the IOC, a rejection, or a request lost on the way. *)
VenueDeclines(i) ==
    /\ venue[i] = "pending"
    /\ \E s \in {"noMatch", "rejected"} : venue' = [venue EXCEPT ![i] = s]
    /\ UNCHANGED <<durable, fill, sent, net, lock, volatile, bounds>>

(* What the broker call can report of the venue's state of an order.  Any   *)
(* call may end in an exception or an unusable answer; a commitment and a   *)
(* no-match are the venue's own words.                                      *)
Reports(i) ==
    [outcome: {"UNCOMMITTED"}, qty: {0}, how: {"raised", "terminal", "resting", "unknown"}]
    \cup (IF venue[i] = "filled"
          THEN [outcome: {"FILLED_COMMITMENT"}, qty: {fill[i]}, how: {"terminal"}] ELSE {})
    \cup (IF venue[i] = "noMatch"
          THEN [outcome: {"DETERMINISTIC_IOC_NO_MATCH"}, qty: {0}, how: {"raised", "terminal"}]
          ELSE {})

Receive(p) ==
    /\ pc[p] = "waiting"
    /\ \E r \in Reports(cur[p]) : reply' = [reply EXCEPT ![p] = r]
    /\ Goto(p, "replied")
    /\ UNCHANGED <<durable, exchange, lock, mem, cur, back, manual, bounds>>

(* The response is durable evidence before the row says anything. *)
RecordResponse(p) ==
    /\ pc[p] = "replied"
    /\ responses' = [responses EXCEPT ![cur[p]] =
                       @ \cup {[outcome |-> reply[p].outcome, qty |-> reply[p].qty]}]
    /\ Goto(p, "responded")
    /\ UNCHANGED <<order, plan, looked, settlement, applied, engine, exchange, lock,
                   mem, cur, back, reply, manual, bounds>>

(* An exception of the broker call: the row waits for reconciliation and    *)
(* the process stops.                                                       *)
RecordSubmissionError(p) ==
    /\ pc[p] = "responded" /\ reply[p].how = "raised"
    /\ order[cur[p]].local = "SUBMITTING"
    /\ SetRow(cur[p], "PENDING_RECONCILIATION", "PENDING")
    /\ Die(p)
    /\ UNCHANGED <<plan, responses, looked, settlement, applied, engine, exchange, bounds>>

RecordTerminalObservation(p) ==
    /\ pc[p] = "responded" /\ reply[p].how = "terminal"
    /\ order[cur[p]].local = "SUBMITTING"
    /\ SetRow(cur[p], "PENDING_RECONCILIATION", "PENDING")
    /\ Goto(p, "reconcile")
    /\ UNCHANGED <<plan, responses, looked, settlement, applied, engine, exchange, lock,
                   mem, cur, back, reply, manual, bounds>>

(* A non-terminal observation: the row says so, the caller checkpoints its  *)
(* state (its own transaction, cut by a crash like any other) and stops.    *)
RecordOpenObservation(p) ==
    /\ pc[p] = "responded" /\ reply[p].how \in {"resting", "unknown"}
    /\ order[cur[p]].local = "SUBMITTING"
    /\ IF reply[p].how = "resting"
       THEN SetRow(cur[p], "AWAITING_EXTERNAL", "OPEN")
       ELSE SetRow(cur[p], "PENDING_RECONCILIATION", "PENDING")
    /\ \/ engine' = Checkpoint(mem[p])
       \/ engine' = engine
    /\ Die(p)
    /\ UNCHANGED <<plan, responses, looked, settlement, applied, exchange, bounds>>

(* -- reconciliation of one submission ----------------------------------- *)

(* Mutant of Blocked: the order left to the operator is not noted. *)
BlockedUnnoted(p) ==
    IF back[p] = "recover"
    THEN Goto(p, "recover") /\ UNCHANGED <<lock, mem, cur, back, reply, manual>>
    ELSE Die(p)

(* A pass that cannot conclude: the startup recovery hands the order to the *)
(* operator and goes on, the loop stops the process.                        *)
Blocked(p) ==
    IF back[p] = "recover"
    THEN /\ Goto(p, "recover")
         /\ manual' = [manual EXCEPT ![p] = @ \cup {cur[p]}]
         /\ UNCHANGED <<lock, mem, cur, back, reply>>
    ELSE Die(p)

(* Mutant of Concluded: the loop goes on with the state it had. *)
ConcludedWithoutReload(p) ==
    /\ Goto(p, IF back[p] = "recover" THEN "recover" ELSE "record")
    /\ UNCHANGED mem

(* After the pass: recovery takes the next order, the loop records the      *)
(* transition from the state it just reloaded.                              *)
Concluded(p) ==
    IF back[p] = "recover"
    THEN /\ Goto(p, "recover")
         /\ UNCHANGED mem
    ELSE /\ Goto(p, "record")
         /\ mem' = [mem EXCEPT ![p] = engine']

(* Mutant of CanFinalizeZeroEffect: any answer without a commitment will do. *)
CanFinalizeZeroEffectUnproven(i) ==
    /\ ~Committed(i) /\ Cardinality(responses[i]) = 1
    /\ order[i].local = "PENDING_RECONCILIATION"
    /\ settlement[i] = 0 /\ i \notin applied
    /\ engine.seq = i.seq

(* A single durable response, the exact IOC no-match, closes the order with *)
(* no effect; the transition sequence does not move.                        *)
CanFinalizeZeroEffect(i) ==
    /\ ProvenNoMatch(i)
    /\ Cardinality(responses[i]) = 1
    /\ order[i].local = "PENDING_RECONCILIATION"
    /\ settlement[i] = 0 /\ i \notin applied
    /\ engine.seq = i.seq

FinalizeZeroEffect(p) ==
    /\ pc[p] = "reconcile"
    /\ CanFinalizeZeroEffect(cur[p])
    /\ SetRow(cur[p], "TERMINAL", "CANCELED")
    /\ engine' = engine
    /\ Concluded(p)
    /\ UNCHANGED <<plan, responses, looked, settlement, applied, exchange, lock,
                   cur, back, reply, manual, bounds>>

(* Mutant of SettlementComplete: any visible fill settles the order. *)
SettlementOfVisibleFills(i, seen) == Committed(i) /\ ~ProvenNoMatch(i)

(* Completeness against the commitment.  "seen" is what the fill lookups    *)
(* show of the execution; only a total equal to the commitment's settles.   *)
SettlementComplete(i, seen) ==
    /\ Committed(i) /\ ~ProvenNoMatch(i)
    /\ seen = CommittedQty(i)

(* The pass reads the venue first, then makes its order lookup durable.  The *)
(* snapshot of a later pass is another event on the first one's observation. *)
JournalLookup(p) ==
    /\ pc[p] = "reconcile"
    /\ Committed(cur[p]) /\ ~ProvenNoMatch(cur[p])
    /\ looked' = [looked EXCEPT ![cur[p]] = IF @ = "no" THEN "once" ELSE "again"]
    /\ Goto(p, "settle")
    /\ UNCHANGED <<order, plan, responses, settlement, applied, engine, exchange, lock,
                   mem, cur, back, reply, manual, bounds>>

(* The settlement row.  Its key leaves the window of the lookup out, its    *)
(* payload does not: a row of an earlier pass conflicts with the new one.   *)
AcquireSettlement(p) ==
    /\ pc[p] = "settle"
    /\ settlement[cur[p]] = 0
    /\ \E seen \in 1 .. fill[cur[p]] :
         /\ SettlementComplete(cur[p], seen)
         /\ settlement' = [settlement EXCEPT ![cur[p]] = seen]
    /\ Goto(p, "apply")
    /\ UNCHANGED <<order, plan, responses, looked, applied, engine, exchange, lock,
                   mem, cur, back, reply, manual, bounds>>

(* No commitment, an incomplete or failed lookup, a conflict. *)
ReconcileBlocked(p) ==
    /\ pc[p] \in {"reconcile", "settle"}
    /\ ~CanFinalizeZeroEffect(cur[p])
    /\ Blocked(p)
    /\ UNCHANGED <<durable, exchange, bounds>>

(* The persisted projection is valid only for the lookup of one pass (an    *)
(* event of a second one contradicts the observation it is linked to), and  *)
(* the plan's pre-state must still be the durable state.                    *)
CanApply(i) ==
    /\ looked[i] = "once"
    /\ \/ i \in applied
       \/ /\ order[i].local = "PENDING_RECONCILIATION"
          /\ engine = plan[i]
          /\ settlement[i] \in 1 .. Requested(i)

(* apply_external_settlement_atomically: application row and engine state   *)
(* in one commit; an existing application is replayed as a no-op.           *)
ApplySettlement(p) ==
    /\ pc[p] = "apply"
    /\ CanApply(cur[p])
    /\ applied' = applied \cup {cur[p]}
    /\ engine' = IF cur[p] \in applied THEN engine ELSE Applied(cur[p])
    /\ Goto(p, "finalize")
    /\ UNCHANGED <<order, plan, responses, looked, settlement, exchange, lock,
                   mem, cur, back, reply, manual, bounds>>

ApplyBlocked(p) ==
    /\ pc[p] = "apply"
    /\ ~CanApply(cur[p])
    /\ Blocked(p)
    /\ UNCHANGED <<durable, exchange, bounds>>

(* finalize_external_order_atomically: row TERMINAL and sequence + 1 in one *)
(* commit, provided the engine still holds the applied state.               *)
CanFinalize(i) ==
    /\ order[i].local = "PENDING_RECONCILIATION"
    /\ i \in applied
    /\ engine = Applied(i)
    /\ engine.seq = i.seq

Finalize(p) ==
    /\ pc[p] = "finalize"
    /\ CanFinalize(cur[p])
    /\ SetRow(cur[p], "TERMINAL",
              IF settlement[cur[p]] = Requested(cur[p]) THEN "FILLED" ELSE "PARTIAL")
    /\ engine' = [engine EXCEPT !.seq = @ + 1]
    /\ Concluded(p)
    /\ UNCHANGED <<plan, responses, looked, settlement, applied, exchange, lock,
                   cur, back, reply, manual, bounds>>

(* The finaliser's own error is not a ReconciliationRequired: the recovery  *)
(* hands the order over, the loop logs it and continues.                    *)
FinalizeBlocked(p) ==
    /\ pc[p] = "finalize"
    /\ IF back[p] = "recover"
       THEN Blocked(p)
       ELSE /\ Goto(p, "check")
            /\ UNCHANGED <<lock, mem, cur, back, reply, manual>>
    /\ UNCHANGED <<durable, exchange, bounds>>

FinalizeOrder(p) == IF CanFinalize(cur[p]) THEN Finalize(p) ELSE FinalizeBlocked(p)

(* _record_position_transition: a second, separate commit. *)
WithTransition(p) == [mem[p] EXCEPT !.timeline = mem[p].timeline \cup {cur[p]}]

RecordTransition(p) ==
    /\ pc[p] = "record"
    /\ mem' = [mem EXCEPT ![p] = WithTransition(p)]
    /\ engine' = Checkpoint(WithTransition(p))
    /\ Goto(p, back[p])
    /\ UNCHANGED <<order, plan, responses, looked, settlement, applied, exchange, lock,
                   cur, back, reply, manual, bounds>>

(* -- failures ----------------------------------------------------------- *)

(* A crash, a kill, or a ReconciliationRequired raised because a store      *)
(* write of the submission failed: the durable state is what was committed. *)
Crash(p) ==
    /\ pc[p] # "down" /\ crashes < MaxCrash
    /\ crashes' = crashes + 1
    /\ Die(p)
    /\ UNCHANGED <<durable, exchange, faults>>

(* A store transaction of the loop fails with an exception that is not a    *)
(* ReconciliationRequired (SQLITE_BUSY after 15 s, disk full): nothing is   *)
(* committed and the catch-all of the loop continues with the memory as it  *)
(* is, including what the failed step had already changed there.  The       *)
(* writes of the submission itself are wrapped, see Crash.                  *)
StoreFault(p) ==
    /\ faults < MaxFault
    /\ \/ pc[p] \in {"reserved", "reconcile", "settle", "apply", "finalize"}
          /\ back[p] # "recover"
          /\ mem' = mem
       \/ pc[p] = "record" /\ mem' = [mem EXCEPT ![p] = WithTransition(p)]
       \/ pc[p] = "check" /\ mem' = [mem EXCEPT ![p] = [mem[p] EXCEPT !.latch = TRUE]]
    /\ faults' = faults + 1
    /\ Goto(p, "check")
    /\ UNCHANGED <<durable, exchange, lock, cur, back, reply, manual, crashes>>

(* -- specification ------------------------------------------------------ *)

Starting(p) ==
    \/ Boot(p) \/ RecoverAbort(p) \/ RecoverOrder(p) \/ FinishRecovery(p) \/ RefuseStart(p)
    \/ RunForever(p) \/ RunForeverRefused(p)

Cycling(p) ==
    \/ PositionAgrees(p) \/ PositionCheckNotDue(p) \/ RequireManualReconciliation(p)
    \/ RiskWithoutLiquidation(p) \/ LiquidateIfHalted(p)
    \/ BarWithoutOrder(p) \/ BarEnters(p) \/ BarExits(p)
    \/ SaveCycle(p) \/ CycleFails(p)

Submitting(p) ==
    \/ MarkSubmitting(p) \/ Send(p) \/ Receive(p) \/ RecordResponse(p)
    \/ RecordSubmissionError(p) \/ RecordTerminalObservation(p) \/ RecordOpenObservation(p)

Reconciling(p) ==
    \/ FinalizeZeroEffect(p) \/ JournalLookup(p) \/ AcquireSettlement(p) \/ ReconcileBlocked(p)
    \/ ApplySettlement(p) \/ ApplyBlocked(p)
    \/ FinalizeOrder(p) \/ RecordTransition(p)

Step(p) == Starting(p) \/ Cycling(p) \/ Submitting(p) \/ Reconciling(p)

Failure(p) == Shutdown(p) \/ Crash(p) \/ StoreFault(p)

Venue(i) == VenueFills(i) \/ VenueDeclines(i)

Next ==
    \/ \E p \in Instance : Step(p) \/ Failure(p)
    \/ \E i \in Intent : Venue(i)

Spec == Init /\ [][Next]_vars

(* A live process goes on.  Nothing is assumed of its restarts: systemd     *)
(* gives up after five starts in ten minutes (StartLimitBurst).             *)
Fairness == \A p \in Instance : WF_vars(pc[p] # "down" /\ Step(p))

FairSpec == Spec /\ Fairness

(* -- properties --------------------------------------------------------- *)

(* Every variable keeps its type. *)
TypeOK ==
    /\ order \in [Intent -> OrderRow]
    /\ plan \in [Intent -> Payload]
    /\ responses \in [Intent -> SUBSET Response]
    /\ looked \in [Intent -> Lookups]
    /\ settlement \in [Intent -> Quantity]
    /\ applied \in SUBSET Intent
    /\ engine \in Payload
    /\ venue \in [Intent -> VenueState]
    /\ fill \in [Intent -> Quantity]
    /\ sent \in [Intent -> Nat]
    /\ net \in Int
    /\ lock \in Instance \cup {NoInstance}
    /\ pc \in [Instance -> ProcessState]
    /\ mem \in [Instance -> Payload]
    /\ cur \in [Instance -> Intent]
    /\ back \in [Instance -> {"check", "bars", "save", "recover"}]
    /\ reply \in [Instance -> Reply]
    /\ manual \in [Instance -> SUBSET Intent]
    /\ crashes \in Nat /\ faults \in Nat

(* The venue receives at most one create_order per intent, whatever crashes,*)
(* restarts, reclaims and recoveries do ("never retried" in ccxt_broker).   *)
AtMostOneSubmission == \A i \in Intent : sent[i] <= 1

(* The two flock sections exclude each other: a process that recovers or    *)
(* loops is the only one.                                                   *)
OneOwner == \A p \in Instance : pc[p] \notin {"down", "built"} => lock = p

(* An order the journal has closed hides nothing: what the venue executed   *)
(* of it is in the portfolio, and the venue will execute no more of it.     *)
NoLostEffect ==
    \A i \in Intent :
        order[i].local = "TERMINAL" =>
            /\ venue[i] # "pending"
            /\ fill[i] > 0 => i \in applied

(* What the portfolio accounts for an order is the quantity executed. *)
ExactAccounting ==
    \A i \in applied : venue[i] = "filled" /\ settlement[i] = fill[i]

(* Once every execution is applied, the durable position is the venue's, as *)
(* long as the loop swallowed no store fault.                               *)
BookMatchesVenue ==
    (faults = 0 /\ \A i \in Intent : fill[i] > 0 => i \in applied) => engine.qty = net

(* No order is emitted while another one the venue may know is unresolved.  *)
Exposed(i) == Unresolved(i) /\ order[i].local # "INTENT_CREATED"

SoleExposedOrder ==
    \A i, j \in Intent : Exposed(i) /\ Exposed(j) => i = j

(* The journal never reopens or rewrites a concluded order, and never       *)
(* forgets an application.                                                  *)
ConcludedForever ==
    [][/\ applied \subseteq applied'
       /\ \A i \in Intent :
            order[i].status \in {"FILLED", "PARTIAL", "CANCELED"} => order'[i] = order[i]]_vars

(* A durable latch is never cleared by the engine, and as long as no store  *)
(* fault left its owner with an older memory a latched engine sends nothing.*)
LatchedEngineIsSilent ==
    [][engine.latch => engine'.latch /\ (faults = 0 => sent' = sent)]_vars

(* An order whose fill commitment and observation are durable is never      *)
(* forgotten: through any finite number of crashes it is eventually closed, *)
(* or handed to the operator by the recovery of a start, provided that no   *)
(* process stays down for ever without a latch (by systemd or, past its     *)
(* start limit, by the operator).                                           *)
CommittedOrderConcludes ==
    (\A p \in Instance : []<>(pc[p] # "down" \/ engine.latch)) =>
        \A i \in Intent :
            (order[i].local = "PENDING_RECONCILIATION" /\ Committed(i))
                ~> (order[i].local = "TERMINAL" \/ \E p \in Instance : i \in manual[p])

(* The abstract promise this protocol implements. *)
Promise == INSTANCE FinancialTransition WITH
    executed <- fill,
    accounted <- applied,
    void <- {i \in Intent : order[i].status = "CANCELED"},
    position <- engine.qty

ImplementsPromise == Promise!Spec
====
