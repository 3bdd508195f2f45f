---- MODULE DatedCarry ----
(***************************************************************************)
(* The experimental dated carry (carry_dated_runner.py over                 *)
(* carry_dated_ledger.py): spot bought against a short future, the daily    *)
(* settlements of the venue booked from its public history, the expiry, the *)
(* sale of the spot.  Every ledger transition is one commit of an event and *)
(* the checkpoint, so the module has one action per commit, with a crash or *)
(* a refused commit possible between any two of a cycle.                    *)
(*                                                                          *)
(* Time is counted in settlement boundaries.  The clock and the venue's     *)
(* history move between cycles: a cycle lasts seconds, a boundary a day.    *)
(* Prices are abstracted: a settlement is identified by its day, its        *)
(* content by a version, the cash by whether it covers the reserves.        *)
(***************************************************************************)
EXTENDS Integers, FiniteSetsExt

CONSTANTS
    Qty,        \* units of a full position
    Minimum,    \* smallest spot amount the venue accepts
    Tolerance,  \* hedge tolerance of an entry
    Expiry,     \* boundary at which the future expires
    MaxEntry,   \* bound on entries
    MaxFailure  \* bound on crashes and commits the store refuses

ASSUME QtyAssumption == Qty \in Nat \ {0} /\ Minimum \in Nat \ {0}
ASSUME ToleranceAssumption == Tolerance \in 0..(Qty - 1)
ASSUME ExpiryAssumption == Expiry \in Nat \ {0}
ASSUME BoundAssumption == {MaxEntry, MaxFailure} \subseteq Nat

VARIABLES
    day,        \* last settlement boundary passed
    history,    \* the venue's public record: day -> version, 0 if unpublished
    led,        \* the checkpoint
    booked,     \* settlement events: day -> version, 0 if none
    pc,         \* where the cycle stands
    entries, crashes, faults

vars == <<day, history, led, booked, pc, entries, crashes, faults>>
world == <<day, history>>
bounds == <<entries, crashes, faults>>

Day == 1..Expiry
Version == 0..2     \* unpublished, first content, corrected content
Status == {"FLAT", "OPENING", "OPEN", "UNBALANCED", "CLOSING",
           "SETTLEMENT_PENDING", "ACCOUNTING_UNCERTAIN"}
Saga == {"none", "entry", "close"}
Incident == {"none", "hedge", "cash", "pending"}
Cash == {"ok", "short", "deficit"}
Phase == {"down", "idle", "buy", "hedge", "open", "settle", "risk",
          "liquidate", "cover", "sell", "error"}

(* `settled` counts how often the variation of a day is in the cash.        *)
Checkpoint == [status: Status, spot: 0..Qty, future: 0..Qty, dust: Nat,
               saga: Saga, incident: Incident, operational: BOOLEAN,
               cash: Cash, reserved: BOOLEAN, uncertain: BOOLEAN,
               opened: 0..Expiry, audit: 0..Expiry, last: 0..Expiry,
               settled: [Day -> Nat]]

NoSettlement == [d \in Day |-> 0]

Init ==
    /\ day = 0
    /\ history = NoSettlement
    /\ led = [status |-> "FLAT", spot |-> 0, future |-> 0, dust |-> 0,
              saga |-> "none", incident |-> "none", operational |-> FALSE,
              cash |-> "ok", reserved |-> FALSE, uncertain |-> FALSE,
              opened |-> 0, audit |-> 0, last |-> 0, settled |-> NoSettlement]
    /\ booked = NoSettlement
    /\ pc = "down"
    /\ entries = 0 /\ crashes = 0 /\ faults = 0

(***************************************************************************)
(* The world                                                                *)
(***************************************************************************)
BetweenCycles == pc \in {"down", "idle"}

DayPasses ==
    /\ BetweenCycles /\ day < Expiry
    /\ day' = day + 1
    /\ UNCHANGED <<history, led, booked, pc, bounds>>

(* The venue publishes a settlement, in any order, or corrects it.          *)
Publish(d) ==
    /\ BetweenCycles /\ d <= day
    /\ history[d] < 2
    /\ history' = [history EXCEPT ![d] = @ + 1]
    /\ UNCHANGED <<day, led, booked, pc, bounds>>

(* Once a contract is inactive its history can be read from a cursor only,  *)
(* and its book is no longer open.                                          *)
HistoryReadable == day < Expiry \/ led.audit # 0
FutureTrades == day < Expiry

Flat(l) ==
    [l EXCEPT !.status = "FLAT", !.spot = 0, !.future = 0, !.saga = "none",
              !.incident = "none", !.reserved = FALSE, !.cash = "ok"]

(* An operational symptom never overwrites the uncertainty latch.           *)
SettlementPending(l, operational) ==
    IF l.uncertain THEN l
    ELSE [l EXCEPT !.status = "SETTLEMENT_PENDING", !.incident = "pending",
                   !.operational = operational]

BeginClose(l) ==
    [l EXCEPT !.status = "CLOSING", !.saga = "close", !.operational = FALSE]

Gap(s, f) == IF s >= f THEN s - f ELSE f - s
Mismatched(s, f) == s > 0 /\ f > 0 /\ Gap(s, f) > Tolerance

(* apply_fill: the legs and the cash after a fill decide the status, a      *)
(* hedge mismatch before a lack of cash, that before the prior status.      *)
Filled(l, s, f, c) ==
    LET after == [l EXCEPT !.spot = s, !.future = f, !.cash = c,
                           !.reserved = f > 0 \/ (@ /\ l.future = 0)]
        unbalanced(i) == [after EXCEPT !.status = "UNBALANCED", !.incident = i]
    IN IF s = 0 /\ f = 0 THEN Flat(l)
       ELSE IF Mismatched(s, f) THEN unbalanced("hedge")
       ELSE IF c # "ok" THEN unbalanced("cash")
       ELSE IF l.status \in {"OPENING", "CLOSING", "SETTLEMENT_PENDING"} THEN after
       ELSE IF s = f THEN after
       ELSE unbalanced(l.incident)

(* What floor_to_step leaves orderable: the fee and the step cost a unit    *)
(* at most.                                                                 *)
Orderable(q) == {o \in {q - 1, q} : o >= 0}

(* What a book of limited depth fills.                                      *)
Depth(q) == 0..q

Commit(l, next) == led' = l /\ pc' = next /\ UNCHANGED <<world, booked, bounds>>
Proceed(next) == pc' = next /\ UNCHANGED <<led, world, booked, bounds>>

(***************************************************************************)
(* Process: a cycle starts in "idle" and returns to it                      *)
(***************************************************************************)
Start == pc = "down" /\ Proceed("idle")

Crash ==
    /\ pc # "down" /\ crashes + faults < MaxFailure
    /\ crashes' = crashes + 1
    /\ pc' = "down"
    /\ UNCHANGED <<led, booked, world, entries, faults>>

(* The store refuses a commit: the exception ends the cycle.                *)
StoreFault ==
    /\ pc \notin {"down", "idle", "error"} /\ crashes + faults < MaxFailure
    /\ faults' = faults + 1
    /\ pc' = "error"
    /\ UNCHANGED <<led, booked, world, entries, crashes>>

CycleError ==
    /\ pc = "error"
    /\ Commit(IF led.uncertain THEN led
              ELSE IF led.spot + led.future > 0 THEN SettlementPending(led, TRUE)
              ELSE [led EXCEPT !.operational = FALSE], "idle")

(***************************************************************************)
(* Entry                                                                    *)
(***************************************************************************)
(* Residual spot is sold from the bids before any entry is considered.      *)
Sweepable == {amount \in Orderable(led.dust) : amount >= Minimum}

SweepDust ==
    /\ pc = "idle" /\ led.status = "FLAT" /\ ~led.uncertain
    /\ \E amount \in Sweepable : \E filled \in Depth(amount) \ {0} :
          Commit([led EXCEPT !.dust = @ - filled], "idle")

(* One spot, a future far enough from its expiry, and no dust left that the *)
(* venue would take.                                                        *)
EntryEligible == led.dust < Minimum /\ day < Expiry

(* The intent of an entry, its margin and its stress buffer, once books,    *)
(* depth and cash have been rechecked; a dust at the minimum forbids it.    *)
BeginEntry ==
    /\ pc = "idle" /\ led.status = "FLAT" /\ ~led.uncertain
    /\ EntryEligible
    /\ entries < MaxEntry
    /\ entries' = entries + 1
    /\ led' = [led EXCEPT !.status = "OPENING", !.saga = "entry",
                          !.operational = FALSE, !.reserved = TRUE,
                          !.opened = day, !.audit = 0, !.last = 0,
                          !.settled = NoSettlement]
    /\ pc' = "buy"
    /\ UNCHANGED <<world, booked, crashes, faults>>

(* The preflight admits an entry only when both books fill it entirely and  *)
(* the cash covers it: the spot leg, less a fee in base within the          *)
(* tolerance.                                                               *)
Preflighted == {Qty - Tolerance, Qty}

BuySpot ==
    /\ pc = "buy"
    /\ \E s \in Preflighted :
          Commit(Filled(led, s, led.future, "ok"), "hedge")

SellFuture ==
    /\ pc = "hedge"
    /\ Commit(Filled(led, led.spot, Qty, "ok"), "open")

MarkOpen(l) == [l EXCEPT !.status = "OPEN", !.saga = "none", !.incident = "none"]

FinishEntry == pc = "open" /\ Commit(MarkOpen(led), "idle")

RecoveringUnbalanced ==
    /\ pc = "idle" /\ ~led.uncertain
    /\ led.status = "UNBALANCED" /\ led.incident = "hedge"

Recovering ==
    /\ pc = "idle" /\ ~led.uncertain
    /\ \/ led.status = "OPENING"
       \/ led.status = "UNBALANCED" /\ led.incident = "hedge"

AbortUnfilledEntry ==
    /\ Recovering
    /\ led.spot = 0 /\ led.future = 0
    /\ Commit(Flat(led), "idle")

FullyFilled == led.spot >= Qty - Tolerance /\ led.future = Qty

RecoverOpen ==
    /\ Recovering /\ led.status = "OPENING" /\ FullyFilled
    /\ Commit(MarkOpen(led), "idle")

(* A half-open entry, or a hedge broken by a partial cover, is closed.      *)
RecoverByClosing ==
    /\ Recovering
    /\ led.spot + led.future > 0
    /\ ~(led.status = "OPENING" /\ FullyFilled)
    /\ Commit(BeginClose(led), "idle")

Managed ==
    /\ pc = "idle" /\ ~led.uncertain
    /\ \/ led.status = "OPEN"
       \/ led.status = "SETTLEMENT_PENDING" /\ led.saga # "close"

ReadHistory == Managed /\ HistoryReadable /\ Proceed("settle")

(* The public history cannot be read this time, or no longer.               *)
HistoryUnavailable == Managed /\ Commit(SettlementPending(led, TRUE), "idle")

(* The settlements fetched: from the first one this position booked.        *)
AuditedFromCursor ==
    {d \in Day : d <= day /\ d > led.opened /\ d >= led.last /\ history[d] # 0}

Audited ==
    {d \in Day : d <= day /\ d > led.opened /\ d >= led.audit /\ history[d] # 0}

(* Replaying an identical event is a no-op: what is left is new or differs. *)
Unsettled == {d \in Audited : history[d] # booked[d]}

ContiguousLoose(d) == d > led.last

Contiguous(d) ==
    IF led.last = 0 THEN d = led.opened + 1 \/ d = Expiry ELSE d = led.last + 1

(* The variation since the last reference enters the cash; the expiry also  *)
(* ends the short and frees its margin.                                     *)
ApplySettlement(d) ==
    LET daily == [led EXCEPT !.settled[d] = @ + 1, !.last = d,
                             !.audit = IF @ = 0 THEN d ELSE @,
                             !.operational = FALSE]
    IN IF d = Expiry
       THEN [daily EXCEPT !.status = "SETTLEMENT_PENDING", !.future = 0,
                          !.reserved = FALSE, !.incident = "pending"]
       ELSE [daily EXCEPT !.status = "OPEN", !.incident = "none"]

Settle ==
    /\ pc = "settle" /\ Unsettled # {}
    /\ LET d == Min(Unsettled) IN
          /\ booked[d] = 0 /\ Contiguous(d) /\ led.future > 0
          /\ led' = ApplySettlement(d)
          /\ booked' = [booked EXCEPT ![d] = history[d]]
          /\ UNCHANGED <<pc, world, bounds>>

(* A missing day is never skipped: the position waits, nothing is booked.   *)
SettlementGap ==
    /\ pc = "settle" /\ Unsettled # {}
    /\ LET d == Min(Unsettled) IN booked[d] = 0 /\ ~Contiguous(d)
    /\ Commit(SettlementPending(led, FALSE), "idle")

(* A daily settlement without a short is refused and ends the cycle; the    *)
(* expiry is then ignored.                                                  *)
NothingToSettle ==
    /\ pc = "settle" /\ Unsettled # {}
    /\ LET d == Min(Unsettled) IN
          /\ booked[d] = 0 /\ Contiguous(d) /\ led.future = 0
          /\ Proceed(IF d = Expiry THEN "risk" ELSE "idle")

(* The same identity with another content latches the uncertainty.          *)
SettlementCollision ==
    /\ pc = "settle" /\ Unsettled # {}
    /\ booked[Min(Unsettled)] # 0
    /\ Commit([led EXCEPT !.status = "ACCOUNTING_UNCERTAIN", !.uncertain = TRUE],
              "error")

SettlementsDone == pc = "settle" /\ Unsettled = {} /\ Proceed("risk")

OwnSpotOnly == led.future = 0 /\ led.spot > 0

(* The spot left by an expiry waits for a book, then is closed.             *)
SpotBookMissing ==
    /\ pc = "risk" /\ OwnSpotOnly
    /\ Commit([led EXCEPT !.operational = FALSE], "idle")

RecordLiquidationTiming ==
    /\ pc = "risk" /\ OwnSpotOnly
    /\ Commit([led EXCEPT !.operational = FALSE], "liquidate")

LiquidateSpot == pc = "liquidate" /\ Commit(BeginClose(led), "sell")

ExpiryUnsettled ==
    /\ pc = "risk" /\ led.future > 0 /\ day = Expiry
    /\ Commit(SettlementPending(led, FALSE), "idle")

(* Books unavailable, stale or desynchronized, or no mark for the margin.   *)
RiskReview ==
    /\ pc = "risk" /\ led.future > 0 /\ FutureTrades
    /\ Commit(SettlementPending(led, TRUE), "idle")

(* resume_open_after_recovery: only an operational wait is cleared.         *)
Resumed(l) ==
    IF l.status = "SETTLEMENT_PENDING" /\ l.operational /\ l.saga = "none"
    THEN [l EXCEPT !.status = "OPEN", !.incident = "none", !.operational = FALSE]
    ELSE l

AssessRisk ==
    /\ pc = "risk" /\ led.future > 0 /\ FutureTrades
    /\ Commit(Resumed(led), "idle")

ProtectiveClose ==
    /\ pc = "risk" /\ led.future > 0 /\ FutureTrades
    /\ Commit(BeginClose(Resumed(led)), "cover")

(***************************************************************************)
(* Close: the short is covered first, then the spot is sold                 *)
(***************************************************************************)
Closing ==
    /\ pc = "idle" /\ ~led.uncertain
    /\ \/ led.status = "CLOSING"
       \/ led.status = "SETTLEMENT_PENDING" /\ led.saga = "close"

CloseBookMissing == Closing /\ Commit(SettlementPending(led, FALSE), "idle")

ResumeClose ==
    /\ Closing
    /\ led.future > 0 => FutureTrades
    /\ Proceed("cover")

(* The price of a cover may use up the cash; no margin is short once        *)
(* nothing is.                                                              *)
CashAfterCover(left) == {c \in Cash : c = "short" => left > 0}

NoDepth == Commit(led, "idle")

Cover ==
    /\ pc = "cover" /\ led.future > 0
    /\ \E filled \in Depth(led.future) :
          LET left == led.future - filled
          IN IF filled = 0 THEN NoDepth
             ELSE \E c \in CashAfterCover(left) :
                      Commit(Filled(led, led.spot, left, c),
                             IF left = 0 /\ led.spot > 0 THEN "sell" ELSE "idle")

CoveredUnchecked == pc = "cover" /\ Proceed("sell")

Covered == pc = "cover" /\ led.future = 0 /\ Proceed("sell")

(* A sale only adds to the cash.                                            *)
CashAfterSale == {led.cash, "ok"}

SellSpot ==
    /\ pc = "sell"
    /\ \E amount \in Orderable(led.spot) :
          /\ amount >= Minimum
          /\ \E filled \in Depth(amount) :
                IF filled = 0 THEN NoDepth
                ELSE \E c \in CashAfterSale :
                        Commit(Filled(led, led.spot - filled, led.future, c), "idle")

(* What is too small to order leaves the cycle as dust inventory.           *)
ClassifyDust ==
    /\ pc = "sell" /\ led.future = 0
    /\ \E amount \in Orderable(led.spot) : amount < Minimum
    /\ Commit([Flat(led) EXCEPT !.dust = @ + led.spot], "idle")

Entry == SweepDust \/ BeginEntry \/ BuySpot \/ SellFuture \/ FinishEntry
Recovery == AbortUnfilledEntry \/ RecoverOpen \/ RecoverByClosing
Management ==
    \/ ReadHistory \/ HistoryUnavailable
    \/ Settle \/ SettlementGap \/ NothingToSettle \/ SettlementCollision
    \/ SettlementsDone
    \/ SpotBookMissing \/ RecordLiquidationTiming \/ LiquidateSpot
    \/ ExpiryUnsettled \/ RiskReview \/ AssessRisk \/ ProtectiveClose
Close == CloseBookMissing \/ ResumeClose \/ Cover \/ Covered \/ SellSpot \/ ClassifyDust
World == DayPasses \/ \E d \in Day : Publish(d)

Next == Start \/ Crash \/ StoreFault \/ CycleError \/ Entry \/ Recovery
        \/ Management \/ Close \/ World

Spec == Init /\ [][Next]_vars

(***************************************************************************)
(* Fairness.  The loop of a live process runs a cycle every 30 seconds: WF  *)
(* of its steps; nothing is assumed of its restarts, which systemd limits.  *)
(* The venue answers again and again, with books that have some depth: SF   *)
(* of the outcomes that need it.                                            *)
(***************************************************************************)
Step == Start \/ CycleError \/ Entry \/ Recovery \/ Management \/ Close

Fairness ==
    /\ WF_vars(pc # "down" /\ Step)
    /\ SF_vars(ReadHistory) /\ SF_vars(RecordLiquidationTiming)
    /\ SF_vars(ResumeClose) /\ SF_vars(Cover /\ led' # led)
    /\ SF_vars(SellSpot /\ led' # led) /\ SF_vars(ClassifyDust)

FairSpec == Spec /\ Fairness

(***************************************************************************)
(* Properties                                                               *)
(***************************************************************************)
(* Every variable keeps its type.                                           *)
TypeOK ==
    /\ day \in 0..Expiry
    /\ history \in [Day -> Version] /\ booked \in [Day -> Version]
    /\ led \in Checkpoint
    /\ pc \in Phase
    /\ entries \in 0..MaxEntry /\ {crashes, faults} \subseteq 0..MaxFailure

(* Each official variation of the holding period is in the cash exactly     *)
(* once, with its event, whatever is republished, missing or retried: the   *)
(* reference never jumps over a day (apply_settlement).                     *)
VariationsExact ==
    \A d \in Day :
        LET due == led.audit # 0 /\ led.audit <= d /\ d <= led.last
        IN /\ led.settled[d] = IF due THEN 1 ELSE 0
           /\ due => booked[d] # 0
           /\ d > led.opened /\ d < led.last => due

(* The short is never naked: an interrupted entry or a close that runs out  *)
(* of depth leaves spot, whatever the crash (_open, _execute_close).        *)
NeverNakedShort == led.future > 0 => led.spot + Tolerance >= led.future

(* An audit that goes on to the risk control has compared every settlement  *)
(* this position booked with the venue's present record of it.              *)
CorrectionNoticed ==
    [][pc = "settle" /\ pc' = "risk" =>
         \A d \in Day : led.settled[d] > 0 => booked[d] = history[d]]_vars

(* An entry a crash left with one leg is compensated: the spot is sold by   *)
(* a process that is started again, whatever the books showed before.       *)
HalfOpenCompensated ==
    []<>(pc # "down") =>
        (led.status = "OPENING" /\ led.spot > 0 /\ led.future = 0 /\ faults = 0)
            ~> (led.spot = 0 \/ led.future > 0 \/ faults > 0)

====
