---- MODULE CarryTwoLeg ----
(***************************************************************************)
(* The cash-and-carry engine (carry_runner.py, two-leg paper mode): long     *)
(* spot, short perp, opened and closed one leg at a time.  Each leg is a     *)
(* commit of its own, so the module has one action per commit and lets the   *)
(* process crash, or the store refuse, between any two.                      *)
(*                                                                           *)
(* Time is counted in funding slots.  The clock moves and funding is         *)
(* published between ticks: a tick lasts seconds, a slot an hour.            *)
(***************************************************************************)
EXTENDS Integers

CONSTANTS
    Qty,        \* lots of a full position
    MaxSlot,    \* bound on funding slots
    MaxEntry,   \* bound on entries
    MaxFailure  \* bound on crashes, stops and writes the store refuses

ASSUME QtyAssumption == Qty \in Nat \ {0}
ASSUME SlotAssumption == MaxSlot \in Nat \ {0}
ASSUME BoundAssumption == MaxEntry \in Nat /\ MaxFailure \in Nat

VARIABLES
    slot,       \* the funding slot now running
    published,  \* slots whose payment the venue has published
    row,        \* the engine_state row
    mem,        \* what the process holds
    pc,         \* where the process stands
    tick,       \* locals of the running tick
    held,       \* short position at each slot's boundary
    paid,       \* quantity each slot's payment was computed on
    torn,       \* a crash or refused write fell inside a window that loses a fact
    entries, failures

vars == <<slot, published, row, mem, pc, tick, held, paid, torn,
          entries, failures>>
world == <<slot, published, held>>
bounds == <<entries, failures>>

Slot == 1..MaxSlot
Leg == 0..Qty

ExecutionState == {"FLAT", "ENTRY_PENDING", "ONE_LEG_FILLED", "PARTIALLY_HEDGED",
                   "HEDGED", "EXIT_PENDING", "RECONCILIATION_REQUIRED"}

(* Why accounting is uncertain, as far as the tick tells the reasons apart. *)
Uncertainty == {"none", "market_outage", "unsettled_exit", "human"}

(* An intent of exit carries a reason: it may be resumed after a restart.    *)
Engine == [st : ExecutionState, spot : Leg, perp : Leg,
           intent : {"none", "entry", "exit"}, margin : BOOLEAN,
           why : Uncertainty, entry : 0..MaxSlot, last : 0..MaxSlot,
           halted : BOOLEAN]

(* 0 stands for the absent timestamp in entry and last.                      *)
NewEngine == [st |-> "FLAT", spot |-> 0, perp |-> 0, intent |-> "none",
              margin |-> FALSE, why |-> "none", entry |-> 0, last |-> 0,
              halted |-> FALSE]

InPosition(m) == m.spot > 0 \/ m.perp > 0

(* The bilan (CarryAccountingState), reduced to quantities and margin.       *)
ReserveMargin(m) == [m EXCEPT !.margin = TRUE]
ReleaseMargin(m) == [m EXCEPT !.margin = FALSE]
BuySpot(m, lots) == [m EXCEPT !.spot = @ + lots]
SellSpot(m, lots) == [m EXCEPT !.spot = @ - lots]
SellPerp(m, lots) == [m EXCEPT !.perp = @ + lots]
BuyPerp(m, lots) == [m EXCEPT !.perp = @ - lots]

(* The book may fill an order in part or not at all, never beyond it.        *)
Fill(requested) == 0..requested

(* A drawdown breach halts; nothing in the program ends a halt.              *)
Evaluate(m, breached) == [m EXCEPT !.halted = @ \/ breached]

Market == {"none", "stale", "fresh"}

(* What runs after a closure returns to the tick.                            *)
Caller == {"none", "continued", "timeout", "liquidation", "kill_switch", "signal"}

Tick == [ready : BOOLEAN, market : Market, caller : Caller,
         spot : Leg, perp : Leg]

Rest == [ready |-> FALSE, market |-> "none", caller |-> "none",
         spot |-> 0, perp |-> 0]

Phase == {"down", "idle", "recover", "funding", "market", "act",
          "open_spot", "open_perp", "open_mark",
          "close_perp", "close_spot", "close_end", "after", "liquidated"}

Init ==
    /\ slot = 1 /\ published = {}
    /\ row = NewEngine /\ mem = NewEngine
    /\ pc = "down" /\ tick = Rest
    /\ held = [s \in Slot |-> 0] /\ paid = [s \in Slot |-> 0]
    /\ torn = FALSE
    /\ entries = 0 /\ failures = 0

-----------------------------------------------------------------------------
(* Durable writes. *)

(* The first reason stands until an operator or a recovery clears it.        *)
MarkUncertain(m, reason) == IF m.why = "none" THEN [m EXCEPT !.why = reason] ELSE m

Ambiguous(m) == [m EXCEPT !.st = "RECONCILIATION_REQUIRED", !.why = "human"]

(* A reduction made while a due payment was not settled.                     *)
Reduced == mem.spot < tick.spot \/ mem.perp < tick.perp

UnsettledReduction ==
    /\ tick.caller \in {"timeout", "liquidation", "kill_switch"}
    /\ ~tick.ready /\ Reduced

(* What is lost if the process stops here: the moment of a second entry, or  *)
(* the note that a reduction left a payment unsettled.                       *)
LosesAFact ==
    \/ pc = "open_mark" /\ row.entry # 0
    \/ /\ pc \in {"close_spot", "close_end", "after"}
       /\ UnsettledReduction /\ row.why = "none"

Goes(next, locals) ==
    /\ pc' = next
    /\ tick' = IF next \in {"idle", "down"} THEN Rest ELSE locals

Stop ==
    /\ Goes("down", tick) /\ mem' = row
    /\ torn' = (torn \/ LosesAFact)
    /\ UNCHANGED row

(* A refused transition write stops the process, so that no later save may   *)
(* persist the mutation.                                                     *)
Persist(m, next, locals) ==
    \/ /\ row' = m /\ mem' = m /\ Goes(next, locals)
       /\ UNCHANGED <<torn, failures>>
    \/ /\ failures < MaxFailure /\ failures' = failures + 1
       /\ Stop

(* A refused checkpoint is swallowed by the loop, which keeps its memory.    *)
Save(m, next) ==
    /\ mem' = m
    /\ \/ /\ row' = m /\ Goes(next, tick)
          /\ UNCHANGED <<torn, failures>>
       \/ /\ failures < MaxFailure /\ failures' = failures + 1
          /\ Goes("idle", tick)
          /\ torn' = (torn \/ LosesAFact)
          /\ UNCHANGED row

-----------------------------------------------------------------------------
(* Start. *)

Transition == {"ENTRY_PENDING", "ONE_LEG_FILLED", "PARTIALLY_HEDGED", "EXIT_PENDING"}

Resumable(m) == m.st \in {"PARTIALLY_HEDGED", "EXIT_PENDING"} /\ m.intent = "exit"

(* An interrupted transition is left to a human unless it is a committed exit. *)
RestoreTwoLeg(m) ==
    IF m.st \in Transition /\ ~Resumable(m) THEN MarkUncertain(m, "human") ELSE m

CheckpointIncomplete(m) ==
    /\ InPosition(m) /\ m.why = "none" /\ ~Resumable(m)
    /\ m.entry = 0 \/ m.last = 0 \/ m.perp = 0

LoadState ==
    LET m == RestoreTwoLeg(row) IN
    /\ pc = "down"
    /\ pc' = "idle"
    /\ IF CheckpointIncomplete(m)
         THEN mem' = MarkUncertain(m, "human") /\ row' = mem'
         ELSE mem' = m /\ UNCHANGED row
    /\ UNCHANGED <<world, tick, paid, torn, bounds>>

Crash ==
    /\ pc # "down" /\ failures < MaxFailure
    /\ failures' = failures + 1
    /\ Stop
    /\ UNCHANGED <<world, paid, entries>>

(* SIGTERM: the loop ends and its final checkpoint is written.               *)
CleanShutdown ==
    /\ pc = "idle" /\ failures < MaxFailure
    /\ failures' = failures + 1
    /\ row' = mem /\ pc' = "down"
    /\ UNCHANGED <<world, mem, tick, paid, torn, entries>>

-----------------------------------------------------------------------------
(* The venue. *)

Between == pc \in {"idle", "down"}

SlotPasses ==
    /\ Between /\ slot < MaxSlot
    /\ slot' = slot + 1
    /\ held' = [held EXCEPT ![slot + 1] = row.perp]
    /\ UNCHANGED <<published, row, mem, pc, tick, paid, torn, bounds>>

(* Payments may appear late and out of order.                                *)
FundingPublished(s) ==
    /\ Between /\ s <= slot /\ s \notin published
    /\ published' = published \cup {s}
    /\ UNCHANGED <<slot, held, row, mem, pc, tick, paid, torn, bounds>>

-----------------------------------------------------------------------------
(* Funding. *)

Balanced(m) == m.spot > 0 /\ m.spot = m.perp

OutageRecoverable(m) ==
    /\ m.why = "market_outage" /\ m.st = "HEDGED" /\ Balanced(m)
    /\ m.last # 0 /\ m.entry # 0

Blocked(m) == m.why # "none" \/ m.st = "RECONCILIATION_REQUIRED"

(* A tick that starts in position keeps the exposure it found.               *)
BeginTick ==
    /\ pc = "idle"
    /\ \/ OutageRecoverable(mem) /\ pc' = "recover"
       \/ ~Blocked(mem) /\ pc' = "funding"
    /\ tick' = [Rest EXCEPT !.spot = mem.spot, !.perp = mem.perp]
    /\ UNCHANGED <<world, row, mem, paid, torn, bounds>>

(* Mutant of NextPayment: the first published after the cursor. *)
NextPublished ==
    IF \E s \in published : s > mem.last
      THEN CHOOSE s \in published : s > mem.last /\ \A t \in published : t > mem.last => s <= t
      ELSE mem.last + 1

(* contiguous_funding: the next payment is the one of the slot after the     *)
(* cursor, and nothing beyond a slot that is not published yet.              *)
NextPayment == mem.last + 1

PaymentDue ==
    /\ InPosition(mem) /\ mem.last # 0 /\ mem.perp > 0
    /\ NextPayment \in published

(* One payment and the cursor that passes it, in one commit.                 *)
ApplyFunding ==
    /\ pc \in {"recover", "funding"} /\ PaymentDue
    /\ Persist([mem EXCEPT !.last = NextPayment], pc, tick)
    /\ paid' = IF row' = row THEN paid ELSE [paid EXCEPT ![NextPayment] = mem.perp]
    /\ UNCHANGED <<world, entries>>

(* The loop of payments ends, or the reference price of the next is missing. *)
Latest(s) == s \in published /\ \A t \in published : t <= s

(* A payment is late by one interval and five minutes at most, and nothing   *)
(* due is left behind.  The venue may also fail to answer at all.            *)
SignalReady ==
    /\ Latest(slot) \/ Latest(slot - 1)
    /\ ~PaymentDue
    /\ InPosition(mem) /\ mem.last # 0 => slot <= mem.last

FundingRead ==
    /\ pc = "funding"
    /\ pc' = "market"
    /\ \E ready \in BOOLEAN :
        /\ ready => SignalReady
        /\ tick' = [tick EXCEPT !.ready = ready]
    /\ UNCHANGED <<world, row, mem, paid, torn, bounds>>

(* The gate of a market outage opens when every due payment is applied and   *)
(* both books are fresh.                                                     *)
OutageSettled == published # {} /\ ~PaymentDue /\ slot <= mem.last

OutageReconciled ==
    /\ pc = "recover" /\ OutageSettled
    /\ Persist([mem EXCEPT !.why = "none"], "funding", tick)
    /\ UNCHANGED <<world, paid, entries>>

OutageStays ==
    /\ pc = "recover"
    /\ Goes("idle", tick)
    /\ UNCHANGED <<world, row, mem, paid, torn, bounds>>

-----------------------------------------------------------------------------
(* Market and decision. *)

(* While flat a stale snapshot is refused like an absent one.                *)
TwoLegMarket(market) ==
    /\ pc = "market"
    /\ market = "stale" => InPosition(mem)
    /\ IF market = "none" /\ InPosition(mem)
         THEN Save(MarkUncertain(mem, "market_outage"), "act")
         ELSE /\ Goes("act", [tick EXCEPT !.market = market])
              /\ UNCHANGED <<row, mem, torn, failures>>
    /\ UNCHANGED <<world, paid, entries>>

Seen == tick.market # "none"

(* The intent of exit, then the perp leg, then the spot leg.                 *)
CloseTwoLeg(m, caller) ==
    Persist([m EXCEPT !.st = "EXIT_PENDING", !.intent = "exit"],
            IF m.perp > 0 THEN "close_perp" ELSE "close_spot",
            [tick EXCEPT !.caller = caller])

GiveUp == Persist(Ambiguous(mem), "idle", tick)

(* Only the exit already committed goes on while its funding is unsettled.   *)
ContinueUnsettledExit ==
    /\ pc = "idle"
    /\ mem.why = "unsettled_exit" /\ InPosition(mem) /\ mem.intent = "exit"
    /\ CloseTwoLeg(mem, "continued") \/ Save(mem, "idle")
    /\ UNCHANGED <<world, paid, entries>>

(* A pending exit is resumed at once.                                        *)
ResumeExit ==
    /\ pc = "act" /\ mem.st = "EXIT_PENDING"
    /\ IF InPosition(mem) /\ Seen THEN CloseTwoLeg(mem, "timeout") ELSE GiveUp
    /\ UNCHANGED <<world, paid, entries>>

(* Mutant of Unhedged: a partial hedge is left alone. *)
UnhedgedOneLeg == mem.st \in {"ENTRY_PENDING", "ONE_LEG_FILLED"}

(* An unhedged transition older than max_unhedged_seconds is closed.         *)
Unhedged == mem.st \in {"ENTRY_PENDING", "ONE_LEG_FILLED", "PARTIALLY_HEDGED"}

EnforceTimeout ==
    /\ pc = "act" /\ Unhedged
    /\ IF InPosition(mem) /\ Seen THEN CloseTwoLeg(mem, "timeout") ELSE GiveUp
    /\ UNCHANGED <<world, paid, entries>>

Liquidate ==
    /\ pc = "act" /\ mem.st # "EXIT_PENDING"
    /\ Seen /\ mem.perp > 0
    /\ CloseTwoLeg(mem, "liquidation")
    /\ UNCHANGED <<world, paid, entries>>

(* The halt of the drawdown is sticky, and is an instruction to exit.        *)
KillSwitch ==
    LET m == Evaluate(mem, TRUE) IN
    /\ pc = "act" /\ mem.st # "EXIT_PENDING"
    /\ IF InPosition(m) /\ Seen
         THEN CloseTwoLeg(m, "kill_switch")
         ELSE Save(m, "idle")
    /\ UNCHANGED <<world, paid, entries>>

Decides == pc = "act" /\ mem.st # "EXIT_PENDING" /\ ~mem.halted

ExitOnSignal ==
    /\ Decides /\ tick.ready /\ InPosition(mem) /\ Seen
    /\ CloseTwoLeg(mem, "signal")
    /\ UNCHANGED <<world, paid, entries>>

(* The margin is reserved with the intent.                                   *)
EnterOnSignal ==
    /\ Decides /\ tick.ready /\ ~InPosition(mem) /\ tick.market = "fresh"
    /\ entries < MaxEntry /\ entries' = entries + 1
    /\ Persist([ReserveMargin(mem) EXCEPT !.st = "ENTRY_PENDING", !.intent = "entry"],
               "open_spot", tick)
    /\ UNCHANGED <<world, paid>>

(* No signal, no market, a lockout or an entry refused: the checkpoint only. *)
Hold ==
    /\ Decides
    /\ Save(mem, "idle")
    /\ UNCHANGED <<world, paid, entries>>

-----------------------------------------------------------------------------
(* Entry, one leg at a time. *)

BackToFlat(m) == [ReleaseMargin(m) EXCEPT !.st = "FLAT", !.intent = "none"]

OpenSpot(filled) ==
    /\ pc = "open_spot" /\ filled \in Fill(Qty)
    /\ IF filled = 0
         THEN Persist(BackToFlat(mem), "idle", tick)
         ELSE Persist([BuySpot(mem, filled) EXCEPT !.st = "ONE_LEG_FILLED"],
                      "open_perp", tick)
    /\ UNCHANGED <<world, paid, entries>>

HedgeState(m) == IF m.perp >= m.spot THEN "HEDGED" ELSE "PARTIALLY_HEDGED"

OpenPerp(filled) ==
    LET m == SellPerp(mem, filled) IN
    /\ pc = "open_perp" /\ filled \in Fill(mem.spot)
    /\ Persist([m EXCEPT !.st = HedgeState(m)],
               IF filled > 0 THEN "open_mark" ELSE "idle", tick)
    /\ UNCHANGED <<world, paid, entries>>

(* Funding is due from here on: the cursor starts at the entry.              *)
OpenMark ==
    /\ pc = "open_mark"
    /\ Persist([mem EXCEPT !.entry = slot, !.last = slot], "idle", tick)
    /\ UNCHANGED <<world, paid, entries>>

OpenFails ==
    /\ pc \in {"open_spot", "open_perp"}
    /\ GiveUp
    /\ UNCHANGED <<world, paid, entries>>

-----------------------------------------------------------------------------
(* Exit, one leg at a time. *)

ClosePerp(filled) ==
    /\ pc = "close_perp" /\ filled \in Fill(mem.perp)
    /\ Persist(BuyPerp(mem, filled),
               IF mem.spot > 0 THEN "close_spot" ELSE "close_end", tick)
    /\ UNCHANGED <<world, paid, entries>>

CloseSpot(filled) ==
    /\ pc = "close_spot" /\ filled \in Fill(mem.spot)
    /\ Persist(SellSpot(mem, filled), "close_end", tick)
    /\ UNCHANGED <<world, paid, entries>>

(* Mutant of CloseEnd: the exit is complete when the short is. *)
CloseEndPerpOnly ==
    /\ pc = "close_end"
    /\ Persist(IF mem.perp > 0
                 THEN [mem EXCEPT !.st = "PARTIALLY_HEDGED"]
                 ELSE BackToFlat(mem),
               "after", tick)
    /\ UNCHANGED <<world, paid, entries>>

(* Both legs closed: the margin is released, the intent forgotten.  The      *)
(* timestamps of the entry stay.                                             *)
CloseEnd ==
    /\ pc = "close_end"
    /\ Persist(IF InPosition(mem)
                 THEN [mem EXCEPT !.st = "PARTIALLY_HEDGED"]
                 ELSE BackToFlat(mem),
               "after", tick)
    /\ UNCHANGED <<world, paid, entries>>

CloseFails ==
    /\ pc \in {"close_perp", "close_spot"}
    /\ Persist(Ambiguous(mem), "after", tick)
    /\ UNCHANGED <<world, paid, entries>>

(* record_unsettled_exit, and for a liquidation the halt of the engine.      *)
RecordUnsettled(m) == IF UnsettledReduction THEN MarkUncertain(m, "unsettled_exit") ELSE m

AfterClose ==
    LET liquidated == tick.caller = "liquidation"
        m == [mem EXCEPT !.halted = @ \/ liquidated]
        next == IF liquidated THEN "liquidated" ELSE "idle"
    IN
    /\ pc = "after"
    /\ IF RecordUnsettled(m) # m \/ tick.caller = "continued"
         THEN Save(RecordUnsettled(m), next)
         ELSE mem' = m /\ Goes(next, tick) /\ UNCHANGED <<row, torn, failures>>
    /\ UNCHANGED <<world, paid, entries>>

SaveLiquidation ==
    /\ pc = "liquidated"
    /\ Save(mem, "idle")
    /\ UNCHANGED <<world, paid, entries>>

-----------------------------------------------------------------------------
Step ==
    \/ LoadState \/ BeginTick \/ ApplyFunding \/ FundingRead
    \/ OutageReconciled \/ OutageStays
    \/ \E market \in Market : TwoLegMarket(market)
    \/ ContinueUnsettledExit \/ ResumeExit \/ EnforceTimeout \/ Liquidate
    \/ KillSwitch \/ ExitOnSignal \/ EnterOnSignal \/ Hold
    \/ \E filled \in Leg : OpenSpot(filled) \/ OpenPerp(filled)
    \/ OpenMark \/ OpenFails
    \/ \E filled \in Leg : ClosePerp(filled) \/ CloseSpot(filled)
    \/ CloseEnd \/ CloseFails \/ AfterClose \/ SaveLiquidation

Environment ==
    \/ Crash \/ CleanShutdown \/ SlotPasses
    \/ \E s \in Slot : FundingPublished(s)

Next == Step \/ Environment

Spec == Init /\ [][Next]_vars

(* The loop of a live process ticks every TICK_SECONDS, a tick runs to its   *)
(* end; nothing is assumed of the restarts, which systemd limits.  The age   *)
(* of a transition only grows, so the timeout is not found early for ever.   *)
FairSpec ==
    /\ Spec
    /\ WF_vars(pc # "down" /\ Step)
    /\ SF_vars(EnforceTimeout)

-----------------------------------------------------------------------------
(* Every variable keeps its type. *)
TypeOK ==
    /\ slot \in Slot /\ published \subseteq Slot
    /\ row \in Engine /\ mem \in Engine
    /\ pc \in Phase /\ tick \in Tick
    /\ held \in [Slot -> Leg] /\ paid \in [Slot -> Leg]
    /\ torn \in BOOLEAN
    /\ entries \in Nat /\ failures \in Nat

(* The state the store shows is the exposure it records: hedged means equal  *)
(* legs, flat means no leg, no reserved margin and no intent, and no leg is   *)
(* held without the margin of the short.                                     *)
StateMatchesLegs ==
    /\ row.st = "HEDGED" => Balanced(row)
    /\ row.st = "FLAT" => ~InPosition(row) /\ ~row.margin /\ row.intent = "none"
    /\ InPosition(row) => row.margin

(* The funding cursor passes a slot only when its payment was applied, to    *)
(* the short position held at that slot: neither skipped nor attributed to   *)
(* another position, whatever is published late and wherever the process      *)
(* stops, outside the windows LosesAFact names.                              *)
FundingExact == ~torn => \A s \in 1..row.last : paid[s] = held[s]

Settles(st) == row.st = st ~> (row.st # st \/ mem.why # "none")

(* A transition the store shows unfinished is taken up, by this process or   *)
(* by one that is started again: the exit is tried again, or the engine      *)
(* blocks for an operator.                                                   *)
TransitionsTaken ==
    []<>(pc # "down") => Settles("PARTIALLY_HEDGED") /\ Settles("EXIT_PENDING")

====
